---------------------- MODULE RevenueTwinPolicyProofs ----------------------
(***************************************************************************)
(* Theorems about the policy of the revenue twin, for any fleet, demand    *)
(* and policy: the ranking leaves no place empty and no place twice taken, *)
(* every offer is of an eligible departure, its price keeps to the policy, *)
(* and a simulation sells no seat twice.  On the way, what other modules   *)
(* need too: ranks, least numbers, sums over finite sets and recursive     *)
(* functions.                                                              *)
(***************************************************************************)
EXTENDS RevenueTwinPolicy, FiniteSetTheorems, SequenceTheorems, TLAPS

(***************************************************************************)
(* Ranking a finite set by a strict total order R.                         *)
(***************************************************************************)
StrictOrder(R, S) ==
  /\ \A x \in S : <<x, x>> \notin R
  /\ \A x, y, z \in S : <<x, y>> \in R /\ <<y, z>> \in R => <<x, z>> \in R
  /\ \A x, y \in S : x = y \/ <<x, y>> \in R \/ <<y, x>> \in R

Place(x, R, S) == 1 + Cardinality({c \in S : <<c, x>> \in R})

(* Places count from one, and who comes first has the smaller place. *)
LEMMA PlacesInOrder ==
  ASSUME NEW S, IsFiniteSet(S), NEW R, StrictOrder(R, S)
  PROVE  /\ \A x \in S : Place(x, R, S) \in 1 .. Cardinality(S)
         /\ \A x, y \in S : <<x, y>> \in R => Place(x, R, S) < Place(y, R, S)
<1> DEFINE Before(x) == {c \in S : <<c, x>> \in R}
<1>1. ASSUME NEW x \in S
      PROVE  /\ IsFiniteSet(Before(x)) /\ Cardinality(Before(x)) \in Nat
             /\ Cardinality(Before(x)) < Cardinality(S)
  <2>1. Before(x) \in SUBSET S /\ x \notin Before(x)
    BY DEF StrictOrder
  <2> HIDE DEF Before
  <2>2. IsFiniteSet(Before(x)) /\ Cardinality(Before(x)) <= Cardinality(S)
    BY <2>1, FS_Subset
  <2>3. Cardinality(Before(x)) \in Nat /\ Cardinality(S) \in Nat
    BY <2>2, FS_CardinalityType
  <2>4. Cardinality(Before(x)) # Cardinality(S)
    BY <2>1, FS_Subset
  <2> QED
    BY <2>2, <2>3, <2>4
<1>2. Cardinality(S) \in Nat
  BY FS_CardinalityType
<1>3. ASSUME NEW x \in S, NEW y \in S, <<x, y>> \in R
      PROVE  Cardinality(Before(x)) < Cardinality(Before(y))
  <2>1. Before(x) \subseteq Before(y)
    BY <1>3 DEF StrictOrder
  <2>2. x \in Before(y) /\ x \notin Before(x)
    BY <1>3 DEF StrictOrder
  <2>3. /\ IsFiniteSet(Before(y))
        /\ Cardinality(Before(x)) \in Nat /\ Cardinality(Before(y)) \in Nat
    BY <1>1
  <2> HIDE DEF Before
  <2>4. /\ Cardinality(Before(x)) <= Cardinality(Before(y))
        /\ Cardinality(Before(x)) # Cardinality(Before(y))
    BY <2>1, <2>2, <2>3, FS_Subset
  <2> QED
    BY <2>3, <2>4
<1>4. \A x : Place(x, R, S) = 1 + Cardinality(Before(x))
  BY DEF Place
<1> HIDE DEF Before
<1> QED
  BY <1>1, <1>2, <1>3, <1>4

(* Every place is taken, by one member. *)
LEMMA EveryPlaceTaken ==
  ASSUME NEW S, IsFiniteSet(S), NEW R, StrictOrder(R, S)
  PROVE  /\ \A r \in 1 .. Cardinality(S) : \E x \in S : Place(x, R, S) = r
         /\ \A x, y \in S : Place(x, R, S) = Place(y, R, S) => x = y
<1> DEFINE n == Cardinality(S)
           place == [x \in S |-> Place(x, R, S)]
<1>1. n \in Nat /\ IsFiniteSet(1 .. n) /\ Cardinality(1 .. n) = n
  BY FS_CardinalityType, FS_Interval
<1>2. ASSUME NEW x \in S, NEW y \in S, Place(x, R, S) = Place(y, R, S)
      PROVE  x = y
  <2>1. Place(x, R, S) \in Int /\ Place(y, R, S) \in Int
    BY <1>1, PlacesInOrder
  <2>2. x = y \/ <<x, y>> \in R \/ <<y, x>> \in R
    BY DEF StrictOrder
  <2>3. /\ <<x, y>> \in R => Place(x, R, S) < Place(y, R, S)
        /\ <<y, x>> \in R => Place(y, R, S) < Place(x, R, S)
    BY PlacesInOrder
  <2> QED
    BY <1>2, <2>1, <2>2, <2>3
<1>3. place \in [S -> 1 .. n]
  BY PlacesInOrder
<1> HIDE DEF n
<1>4. place \in Injection(S, 1 .. n)
  BY <1>2, <1>3 DEF Injection, IsInjective
<1>5. place \in Surjection(S, 1 .. n)
  <2>1. Cardinality(S) = Cardinality(1 .. n)
    BY <1>1 DEF n
  <2> QED
    BY <1>1, <1>4, <2>1, FS_Injection
<1>6. \A r \in 1 .. n : \E x \in S : place[x] = r
  BY <1>5 DEF Surjection
<1> QED
  BY <1>2, <1>6 DEF n
-----------------------------------------------------------------------------
(***************************************************************************)
(* The sort: comparing keys field by field orders them strictly.           *)
(***************************************************************************)
(* A set of numbers has a least one. *)
LEMMA LeastNumber ==
  ASSUME NEW S \in SUBSET Nat, S # {}
  PROVE  \E n \in S : \A m \in S : n <= m
<1>1. PICK n \in S : \A m \in S : ~(<<m, n>> \in OpToRel(<, Nat))
  BY NatLessThanWellFounded, WFMin
<1>2. ASSUME NEW m \in S
      PROVE  n <= m
  <2>1. m \in Nat /\ n \in Nat
    OBVIOUS
  <2>2. ~(m < n)
    BY <1>1, <2>1 DEF OpToRel
  <2> QED
    BY <2>1, <2>2
<1> QED
  BY <1>2

Key(n) == [1 .. n -> Int]

(* No key comes before itself, and what comes before what comes before     *)
(* comes before.                                                           *)
LEMMA PrecedesTransitive ==
  ASSUME NEW n \in Nat, NEW s \in Key(n), NEW t \in Key(n), NEW u \in Key(n)
  PROVE  /\ ~Precedes(s, s)
         /\ Precedes(s, t) /\ Precedes(t, u) => Precedes(s, u)
<1>1. ~Precedes(s, s)
  BY DEF Precedes, Key
<1>2. ASSUME Precedes(s, t), Precedes(t, u)
      PROVE  Precedes(s, u)
  <2>1. PICK i \in 1 .. n : s[i] < t[i] /\ \A j \in 1 .. i - 1 : s[j] = t[j]
    BY <1>2 DEF Precedes, Key
  <2>2. PICK k \in 1 .. n : t[k] < u[k] /\ \A j \in 1 .. k - 1 : t[j] = u[j]
    BY <1>2 DEF Precedes, Key
  <2>3. \A j \in 1 .. n : s[j] \in Int /\ t[j] \in Int /\ u[j] \in Int
    BY DEF Key
  <2>4. PICK m \in 1 .. n : m <= i /\ m <= k /\ (m = i \/ m = k)
    BY <2>1, <2>2
  <2>5. /\ 1 .. m - 1 \subseteq 1 .. i - 1 /\ 1 .. m - 1 \subseteq 1 .. k - 1
        /\ m # i => m \in 1 .. i - 1
        /\ m # k => m \in 1 .. k - 1
    BY <2>1, <2>2, <2>4
  <2>6. s[m] < u[m]
    BY <2>1, <2>2, <2>3, <2>4, <2>5
  <2>7. \A j \in 1 .. m - 1 : s[j] = u[j]
    BY <2>1, <2>2, <2>5
  <2> QED
    BY <2>6, <2>7 DEF Precedes, Key
<1> QED
  BY <1>1, <1>2

(* Keys that differ are ordered, by the first field in which they do. *)
LEMMA PrecedesTotal ==
  ASSUME NEW n \in Nat, NEW s \in Key(n), NEW t \in Key(n), s # t
  PROVE  Precedes(s, t) \/ Precedes(t, s)
<1> DEFINE Differ == {i \in 1 .. n : s[i] # t[i]}
<1>1. Differ # {} /\ Differ \in SUBSET Nat
  BY DEF Key
<1>2. PICK m \in Differ : \A i \in Differ : m <= i
  BY <1>1, LeastNumber
<1>3. /\ m \in 1 .. n /\ s[m] \in Int /\ t[m] \in Int /\ s[m] # t[m]
      /\ \A j \in 1 .. m - 1 : j \in 1 .. n /\ ~(m <= j)
  BY DEF Key
<1>4. \A j \in 1 .. m - 1 : s[j] = t[j]
  BY <1>2, <1>3
<1>5. DOMAIN s = 1 .. n /\ DOMAIN t = 1 .. n
  BY DEF Key
<1>6. s[m] < t[m] \/ t[m] < s[m]
  BY <1>3
<1> QED
  BY <1>3, <1>4, <1>5, <1>6 DEF Precedes

(* Keys in order: the first field decides, then the second. *)
LEMMA FirstFieldsDecide ==
  ASSUME NEW n \in Nat, n >= 2, NEW s \in Key(n), NEW t \in Key(n), Precedes(s, t)
  PROVE  s[1] <= t[1] /\ (s[1] = t[1] => s[2] <= t[2])
<1>1. PICK i \in 1 .. n : s[i] < t[i] /\ \A j \in 1 .. i - 1 : s[j] = t[j]
  BY DEF Precedes, Key
<1>2. s[1] \in Int /\ t[1] \in Int /\ s[2] \in Int /\ t[2] \in Int
  BY DEF Key
<1>3. /\ i = 1 \/ 1 \in 1 .. i - 1
      /\ i = 1 \/ i = 2 \/ 2 \in 1 .. i - 1
  OBVIOUS
<1> QED
  BY <1>1, <1>2, <1>3

(* What finitely many things are mapped to is finitely many. *)
LEMMA ImageIsFinite ==
  ASSUME NEW S, IsFiniteSet(S), NEW f
  PROVE  IsFiniteSet({f[x] : x \in S})
<1> DEFINE T == {f[x] : x \in S}
           g == [x \in S |-> f[x]]
<1>1. g \in Surjection(S, T)
  BY DEF Surjection
<1> QED
  BY <1>1, FS_Surjection
-----------------------------------------------------------------------------
(***************************************************************************)
(* Sums over a finite set, as the library's folds take them: any member    *)
(* of the set may be taken first.                                          *)
(***************************************************************************)
AnyOf(T) == CHOOSE x \in T : TRUE

SubsetSums(g, S) ==
  CHOOSE f : f = [T \in SUBSET S |->
                    IF T = {} THEN 0
                    ELSE g[AnyOf(T)] + f[T \ {AnyOf(T)}]]

(* There is such a function, by induction over the size of the subsets. *)
LEMMA SubsetSumsExist ==
  ASSUME NEW S, IsFiniteSet(S), NEW g
  PROVE  LET f == SubsetSums(g, S)
         IN  f = [T \in SUBSET S |->
                    IF T = {} THEN 0
                    ELSE g[AnyOf(T)] + f[T \ {AnyOf(T)}]]
<1> DEFINE n == Cardinality(S)
           Upto(k) == {T \in SUBSET S : Cardinality(T) <= k}
           Unfolded(f, k) ==
             f = [T \in Upto(k) |->
                    IF T = {} THEN 0 ELSE g[AnyOf(T)] + f[T \ {AnyOf(T)}]]
           Missing == {k \in 0 .. n : ~ \E f : Unfolded(f, k)}
<1>1. /\ n \in Nat
      /\ \A T \in SUBSET S : IsFiniteSet(T) /\ Cardinality(T) \in 0 .. n
  BY FS_CardinalityType, FS_Subset
<1>2. ASSUME NEW T \in SUBSET S, T # {}
      PROVE  /\ AnyOf(T) \in T /\ T \ {AnyOf(T)} \in SUBSET S
             /\ Cardinality(T \ {AnyOf(T)}) = Cardinality(T) - 1
             /\ Cardinality(T) # 0
  <2>1. AnyOf(T) \in T
    BY <1>2 DEF AnyOf
  <2>2. IsFiniteSet(T)
    BY <1>1
  <2> QED
    BY <1>2, <2>1, <2>2, FS_RemoveElement, FS_EmptySet
<1> HIDE DEF n
<1>3. Missing = {}
  <2>1. SUFFICES ASSUME Missing # {} PROVE FALSE
    OBVIOUS
  <2>2. Missing \in SUBSET Nat
    OBVIOUS
  <2> HIDE DEF Missing
  <2>3. PICK k \in Missing : \A l \in Missing : k <= l
    BY <2>1, <2>2, LeastNumber
  <2>4. k \in 0 .. n /\ ~ \E f : Unfolded(f, k)
    BY <2>3 DEF Missing
  <2>5. CASE k = 0
    <3> DEFINE f == [T \in Upto(0) |-> 0]
    <3>1. \A T \in Upto(0) : T = {}
      <4>1. \A T \in Upto(0) : T \in SUBSET S /\ Cardinality(T) = 0
        BY <1>1
      <4> QED
        BY <1>2, <4>1
    <3>2. f = [T \in Upto(0) |-> IF T = {} THEN 0 ELSE g[AnyOf(T)] + f[T \ {AnyOf(T)}]]
      BY <3>1
    <3> HIDE DEF f
    <3>3. Unfolded(f, 0)
      BY <3>2
    <3> QED
      BY <2>4, <2>5, <3>3
  <2>6. CASE k # 0
    <3>1. k - 1 \in 0 .. n /\ ~(k <= k - 1)
      BY <1>1, <2>4, <2>6
    <3>2. k - 1 \notin Missing
      BY <2>3, <3>1
    <3>3. PICK h : Unfolded(h, k - 1)
      BY <3>1, <3>2 DEF Missing
    <3> DEFINE f == [T \in Upto(k) |-> IF T = {} THEN 0 ELSE g[AnyOf(T)] + h[T \ {AnyOf(T)}]]
    <3>4. ASSUME NEW T \in Upto(k), T # {}
          PROVE  /\ T \ {AnyOf(T)} \in Upto(k) /\ T \ {AnyOf(T)} \in Upto(k - 1)
      <4>1. T \in SUBSET S /\ Cardinality(T) \in Nat /\ k \in Nat /\ Cardinality(T) <= k
        BY <1>1, <2>4
      <4>2. T \ {AnyOf(T)} \in SUBSET S /\ Cardinality(T \ {AnyOf(T)}) = Cardinality(T) - 1
        BY <1>2, <3>4, <4>1
      <4> QED
        BY <4>1, <4>2
    <3>5. ASSUME NEW T \in Upto(k - 1)
          PROVE  /\ T \in Upto(k)
                 /\ h[T] = IF T = {} THEN 0 ELSE g[AnyOf(T)] + h[T \ {AnyOf(T)}]
      <4>1. T \in SUBSET S /\ Cardinality(T) \in Nat /\ k \in Nat /\ Cardinality(T) <= k - 1
        BY <1>1, <2>4
      <4>2. T \in Upto(k)
        BY <4>1
      <4> QED
        BY <3>3, <4>2
    <3> HIDE DEF Upto
    <3>6. \A T \in Upto(k - 1) : f[T] = h[T]
      BY <3>5
    <3>7. f = [T \in Upto(k) |-> IF T = {} THEN 0 ELSE g[AnyOf(T)] + f[T \ {AnyOf(T)}]]
      BY <3>4, <3>6
    <3> HIDE DEF f
    <3>8. Unfolded(f, k)
      BY <3>7
    <3> QED
      BY <2>4, <3>8
  <2> QED
    BY <2>5, <2>6
<1>4. \E f : Unfolded(f, n)
  <2>1. n \in 0 .. n /\ n \notin Missing
    <3> HIDE DEF Missing
    <3> QED
      BY <1>1, <1>3
  <2> QED
    BY <2>1
<1>5. Upto(n) = SUBSET S
  BY <1>1
<1> HIDE DEF Missing, Upto
<1>6. \E f : f = [T \in SUBSET S |-> IF T = {} THEN 0 ELSE g[AnyOf(T)] + f[T \ {AnyOf(T)}]]
  BY <1>4, <1>5
<1> QED
  BY <1>6 DEF SubsetSums

(* A sum of naturals is one, and may be taken in any order. *)
LEMMA SubsetSumsUnfold ==
  ASSUME NEW S, IsFiniteSet(S), NEW g, \A x \in S : g[x] \in Nat
  PROVE  LET f == SubsetSums(g, S)
         IN  /\ f[{}] = 0
             /\ \A T \in SUBSET S : f[T] \in Nat
             /\ \A T \in SUBSET S : \A x \in T : f[T] = g[x] + f[T \ {x}]
<1> DEFINE f == SubsetSums(g, S)
           Wrong == {T \in SUBSET S : f[T] \notin Nat \/ \E x \in T : f[T] # g[x] + f[T \ {x}]}
           Sizes == {Cardinality(T) : T \in Wrong}
<1>1. \A T \in SUBSET S : f[T] = IF T = {} THEN 0 ELSE g[AnyOf(T)] + f[T \ {AnyOf(T)}]
  <2>1. f = [T \in SUBSET S |-> IF T = {} THEN 0 ELSE g[AnyOf(T)] + f[T \ {AnyOf(T)}]]
    BY SubsetSumsExist
  <2> HIDE DEF f
  <2> QED
    BY <2>1
<1>2. \A T \in SUBSET S : IsFiniteSet(T) /\ Cardinality(T) \in Nat
  BY FS_CardinalityType, FS_Subset
<1>3. \A T \in SUBSET S : T # {} => AnyOf(T) \in T
  BY DEF AnyOf
<1>4. \A T \in SUBSET S : \A x \in T : Cardinality(T \ {x}) = Cardinality(T) - 1
  BY <1>2, FS_RemoveElement
<1> HIDE DEF f
<1>5. Wrong = {}
  <2>1. SUFFICES ASSUME Wrong # {} PROVE FALSE
    OBVIOUS
  <2>2. Sizes \in SUBSET Nat /\ Sizes # {}
    BY <1>2, <2>1
  <2>3. PICK k \in Sizes : \A l \in Sizes : k <= l
    BY <2>2, LeastNumber
  <2>4. PICK T \in Wrong : k = Cardinality(T)
    OBVIOUS
  <2>5. \A U \in SUBSET S : Cardinality(U) < k => U \notin Wrong
    <3>1. \A U \in Wrong : Cardinality(U) \in Sizes
      OBVIOUS
    <3>2. k \in Nat
      BY <2>2
    <3> HIDE DEF Wrong, Sizes
    <3> QED
      BY <1>2, <2>3, <3>1, <3>2
  <2>6. T \in SUBSET S /\ (f[T] \notin Nat \/ \E x \in T : f[T] # g[x] + f[T \ {x}])
    OBVIOUS
  <2>7. ASSUME NEW U \in SUBSET S, Cardinality(U) < k
        PROVE  f[U] \in Nat /\ \A x \in U : f[U] = g[x] + f[U \ {x}]
    BY <2>5, <2>7
  <2> HIDE DEF Wrong, Sizes
  <2>8. ASSUME NEW x \in T
        PROVE  T \ {x} \in SUBSET S /\ Cardinality(T \ {x}) < k /\ g[x] \in Nat
    <3>1. Cardinality(T \ {x}) = Cardinality(T) - 1 /\ Cardinality(T) \in Nat
      BY <1>2, <1>4, <2>6
    <3>2. x \in S /\ T \ {x} \in SUBSET S
      BY <2>6
    <3> QED
      BY <2>4, <3>1, <3>2
  <2>9. T # {}
    <3>1. T = {} => f[T] = 0
      BY <1>1, <2>6
    <3> QED
      BY <2>6, <3>1
  <2> DEFINE c == AnyOf(T)
  <2>10. c \in T /\ f[T] = g[c] + f[T \ {c}] /\ f[T \ {c}] \in Nat
    BY <1>1, <1>3, <2>6, <2>7, <2>8, <2>9
  <2> HIDE DEF c
  <2>11. PICK x \in T : f[T] # g[x] + f[T \ {x}]
    <3>1. f[T] \in Nat
      BY <2>8, <2>10
    <3> QED
      BY <2>6, <3>1
  <2>12. x # c /\ x \in T \ {c} /\ c \in T \ {x} /\ (T \ {c}) \ {x} = (T \ {x}) \ {c}
    BY <2>10, <2>11
  <2> DEFINE rest == f[(T \ {x}) \ {c}]
  <2>13. f[T \ {c}] = g[x] + rest
    BY <2>7, <2>8, <2>10, <2>12
  <2>14. f[T \ {x}] = g[c] + rest
    BY <2>7, <2>8, <2>12
  <2>15. rest \in Nat
    <3>1. (T \ {x}) \ {c} \in SUBSET S /\ Cardinality((T \ {x}) \ {c}) < k
      <4>1. Cardinality((T \ {x}) \ {c}) = Cardinality(T \ {x}) - 1
        BY <1>4, <2>8, <2>12
      <4> QED
        BY <1>2, <2>4, <2>6, <2>8, <4>1
    <3> QED
      BY <2>7, <3>1
  <2> HIDE DEF rest
  <2> QED
    BY <2>8, <2>10, <2>11, <2>13, <2>14, <2>15
<1>6. \A T \in SUBSET S : f[T] \in Nat /\ \A x \in T : f[T] = g[x] + f[T \ {x}]
  BY <1>5
<1> HIDE DEF Wrong
<1>7. f[{}] = 0
  BY <1>1
<1> QED
  BY <1>6, <1>7 DEF f

(* Sums of the same numbers are the same. *)
LEMMA SubsetSumsAgree ==
  ASSUME NEW S, IsFiniteSet(S), NEW g, NEW h, NEW T \in SUBSET S,
         \A x \in S : g[x] \in Nat /\ h[x] \in Nat, \A x \in T : g[x] = h[x]
  PROVE  SubsetSums(g, S)[T] = SubsetSums(h, S)[T]
<1> DEFINE a == SubsetSums(g, S)
           b == SubsetSums(h, S)
           Wrong == {U \in SUBSET T : a[U] # b[U]}
           Sizes == {Cardinality(U) : U \in Wrong}
<1>1. (\A x \in S : g[x] \in Nat) /\ \A x \in S : h[x] \in Nat
  OBVIOUS
<1>2. /\ a[{}] = 0 /\ b[{}] = 0
      /\ \A U \in SUBSET S : \A x \in U : a[U] = g[x] + a[U \ {x}]
      /\ \A U \in SUBSET S : \A x \in U : b[U] = h[x] + b[U \ {x}]
  <2>1. a[{}] = 0 /\ \A U \in SUBSET S : \A x \in U : a[U] = g[x] + a[U \ {x}]
    BY ONLY <1>1, SubsetSumsUnfold, IsFiniteSet(S)
  <2>2. b[{}] = 0 /\ \A U \in SUBSET S : \A x \in U : b[U] = h[x] + b[U \ {x}]
    BY ONLY <1>1, SubsetSumsUnfold, IsFiniteSet(S)
  <2> QED
    BY <2>1, <2>2
<1>3. \A U \in SUBSET S : IsFiniteSet(U) /\ Cardinality(U) \in Nat
  BY FS_CardinalityType, FS_Subset
<1> HIDE DEF a, b
<1>4. ASSUME Wrong # {} PROVE FALSE
  <2>1. Sizes \in SUBSET Nat /\ Sizes # {}
    BY <1>3, <1>4
  <2>2. PICK k \in Sizes : \A l \in Sizes : k <= l
    BY <2>1, LeastNumber
  <2>3. PICK U \in Wrong : k = Cardinality(U)
    OBVIOUS
  <2>4. U \in SUBSET T /\ U \in SUBSET S /\ a[U] # b[U]
    OBVIOUS
  <2>5. PICK x \in U : TRUE
    BY <1>2, <2>4
  <2>6. Cardinality(U \ {x}) = Cardinality(U) - 1 /\ Cardinality(U) \in Nat
    BY <1>3, <2>4, <2>5, FS_RemoveElement
  <2>7. ~(k <= Cardinality(U \ {x}))
    BY <2>3, <2>6
  <2>8. U \ {x} \notin Wrong
    <3>1. \A V \in Wrong : Cardinality(V) \in Sizes
      OBVIOUS
    <3> HIDE DEF Wrong, Sizes
    <3> QED
      BY <2>2, <2>7, <3>1
  <2>9. a[U \ {x}] = b[U \ {x}]
    BY <2>4, <2>8
  <2>10. a[U] = g[x] + a[U \ {x}] /\ b[U] = h[x] + b[U \ {x}] /\ g[x] = h[x]
    BY <1>2, <2>4, <2>5
  <2> QED
    BY <2>4, <2>9, <2>10
<1>5. a[T] = b[T]
  BY <1>4
<1> QED
  BY <1>5 DEF a, b

(* The library's sum of a function's values. *)
LEMMA SumIsSubsetSum ==
  ASSUME NEW D, NEW f, DOMAIN f = D
  PROVE  SumFunction(f) = SubsetSums(f, D)[D]
BY DEF SumFunction, SumFunctionOnSet, FoldFunctionOnSet, MapThenFoldSet, SubsetSums, AnyOf

(* Taking an amount from one value takes it from the sum. *)
LEMMA TotalAfterTaking ==
  ASSUME NEW D, IsFiniteSet(D), NEW s \in [D -> Nat], NEW t \in [D -> Nat], NEW n \in Nat,
         NEW k \in D, s[k] = n + t[k], \A x \in D \ {k} : s[x] = t[x]
  PROVE  SumFunction(s) \in Nat /\ SumFunction(t) \in Nat /\ SumFunction(s) = n + SumFunction(t)
<1>1. \A x \in D : s[x] \in Nat /\ t[x] \in Nat
  OBVIOUS
<1>2. ASSUME NEW u \in [D -> Nat]
      PROVE  SumFunction(u) = SubsetSums(u, D)[D]
  <2>1. DOMAIN u = D
    OBVIOUS
  <2> QED
    BY <2>1, SumIsSubsetSum
<1>3. ASSUME NEW u \in [D -> Nat]
      PROVE  /\ SubsetSums(u, D)[D] = u[k] + SubsetSums(u, D)[D \ {k}]
             /\ SubsetSums(u, D)[D] \in Nat /\ SubsetSums(u, D)[D \ {k}] \in Nat
  <2> DEFINE f == SubsetSums(u, D)
  <2>1. \A x \in D : u[x] \in Nat
    OBVIOUS
  <2>2. /\ \A T \in SUBSET D : f[T] \in Nat
        /\ \A T \in SUBSET D : \A x \in T : f[T] = u[x] + f[T \ {x}]
    BY <2>1, SubsetSumsUnfold, SMTT(30)
  <2>3. D \in SUBSET D /\ D \ {k} \in SUBSET D
    OBVIOUS
  <2> HIDE DEF f
  <2>4. f[D] = u[k] + f[D \ {k}] /\ f[D] \in Nat /\ f[D \ {k}] \in Nat
    BY <2>2, <2>3
  <2> QED
    BY <2>4 DEF f
<1>4. SubsetSums(s, D)[D \ {k}] = SubsetSums(t, D)[D \ {k}]
  BY <1>1, SubsetSumsAgree
<1>5. /\ SumFunction(s) = s[k] + SubsetSums(s, D)[D \ {k}] /\ SumFunction(s) \in Nat
      /\ SumFunction(t) = t[k] + SubsetSums(t, D)[D \ {k}] /\ SumFunction(t) \in Nat
      /\ SubsetSums(t, D)[D \ {k}] \in Nat
  BY <1>2, <1>3
<1> QED
  BY <1>1, <1>4, <1>5

(* A sum of natural numbers is one. *)
LEMMA SumOfNaturals ==
  ASSUME NEW D, IsFiniteSet(D), NEW f \in [D -> Nat]
  PROVE  SumFunction(f) \in Nat
<1>1. SumFunction(f) = SubsetSums(f, D)[D]
  BY SumIsSubsetSum
<1>2. \A x \in D : f[x] \in Nat
  OBVIOUS
<1>3. \A T \in SUBSET D : SubsetSums(f, D)[T] \in Nat
  BY <1>2, SubsetSumsUnfold
<1> QED
  BY <1>1, <1>3

(* What is summed grows, and so does the sum. *)
LEMMA SumGrows ==
  ASSUME NEW D, IsFiniteSet(D), NEW f \in [D -> Nat], NEW g \in [D -> Nat],
         \A x \in D : f[x] <= g[x]
  PROVE  SumFunction(f) <= SumFunction(g)
<1> DEFINE a == SubsetSums(f, D)
           b == SubsetSums(g, D)
           Wrong == {U \in SUBSET D : ~(a[U] <= b[U])}
           Sizes == {Cardinality(U) : U \in Wrong}
<1>1. (\A x \in D : f[x] \in Nat) /\ \A x \in D : g[x] \in Nat
  OBVIOUS
<1>2. /\ a[{}] = 0 /\ b[{}] = 0
      /\ \A U \in SUBSET D : a[U] \in Nat /\ \A x \in U : a[U] = f[x] + a[U \ {x}]
      /\ \A U \in SUBSET D : b[U] \in Nat /\ \A x \in U : b[U] = g[x] + b[U \ {x}]
  <2>1. /\ a[{}] = 0
        /\ \A U \in SUBSET D : a[U] \in Nat /\ \A x \in U : a[U] = f[x] + a[U \ {x}]
    <3>1. \A x \in D : f[x] \in Nat
      BY ONLY <1>1
    <3>2. \A U \in SUBSET D : a[U] \in Nat
      BY ONLY <3>1, SubsetSumsUnfold, IsFiniteSet(D)
    <3>3. a[{}] = 0 /\ \A U \in SUBSET D : \A x \in U : a[U] = f[x] + a[U \ {x}]
      BY ONLY <3>1, SubsetSumsUnfold, IsFiniteSet(D)
    <3> HIDE DEF a, b
    <3> QED
      BY <3>2, <3>3
  <2>2. /\ b[{}] = 0
        /\ \A U \in SUBSET D : b[U] \in Nat /\ \A x \in U : b[U] = g[x] + b[U \ {x}]
    <3>1. \A x \in D : g[x] \in Nat
      BY ONLY <1>1
    <3>2. \A U \in SUBSET D : b[U] \in Nat
      BY ONLY <3>1, SubsetSumsUnfold, IsFiniteSet(D)
    <3>3. b[{}] = 0 /\ \A U \in SUBSET D : \A x \in U : b[U] = g[x] + b[U \ {x}]
      BY ONLY <3>1, SubsetSumsUnfold, IsFiniteSet(D)
    <3> HIDE DEF a, b
    <3> QED
      BY <3>2, <3>3
  <2> QED
    BY <2>1, <2>2
<1>3. \A U \in SUBSET D : IsFiniteSet(U) /\ Cardinality(U) \in Nat
  BY FS_CardinalityType, FS_Subset
<1> HIDE DEF a, b
<1>4. ASSUME Wrong # {} PROVE FALSE
  <2>1. Sizes \in SUBSET Nat /\ Sizes # {}
    BY <1>3, <1>4
  <2>2. PICK k \in Sizes : \A l \in Sizes : k <= l
    BY <2>1, LeastNumber
  <2>3. PICK U \in Wrong : k = Cardinality(U)
    OBVIOUS
  <2>4. U \in SUBSET D /\ ~(a[U] <= b[U])
    OBVIOUS
  <2>5. PICK x \in U : TRUE
    <3>1. a[{}] <= b[{}]
      BY <1>2
    <3> QED
      BY <2>4, <3>1
  <2>6. Cardinality(U \ {x}) = Cardinality(U) - 1 /\ Cardinality(U) \in Nat
    BY <1>3, <2>4, <2>5, FS_RemoveElement
  <2>7. ~(k <= Cardinality(U \ {x}))
    BY <2>3, <2>6
  <2>8. U \ {x} \notin Wrong
    <3>1. \A V \in Wrong : Cardinality(V) \in Sizes
      OBVIOUS
    <3> HIDE DEF Wrong, Sizes
    <3> QED
      BY <2>2, <2>7, <3>1
  <2>9. a[U \ {x}] <= b[U \ {x}] /\ a[U \ {x}] \in Nat /\ b[U \ {x}] \in Nat
    BY <1>2, <2>4, <2>8
  <2>10. a[U] = f[x] + a[U \ {x}] /\ b[U] = g[x] + b[U \ {x}]
    BY <1>2, <2>4, <2>5
  <2>11. x \in D /\ f[x] <= g[x] /\ f[x] \in Nat /\ g[x] \in Nat
    BY <1>1, <2>4, <2>5
  <2> QED
    BY <2>4, <2>9, <2>10, <2>11
<1>5. a[D] <= b[D]
  BY <1>4
<1> QED
  BY <1>5, SumIsSubsetSum DEF a, b
-----------------------------------------------------------------------------
(***************************************************************************)
(* Recursive functions over 0 .. N.                                        *)
(***************************************************************************)
(* f is the recursion over 0 .. N from base. *)
IsRecursion(f, N, base, step) ==
  f = [n \in 0 .. N |-> IF n = 0 THEN base ELSE step[<<f[n - 1], n>>]]

(* A recursion has a value, whatever its step does. *)
LEMMA RecursionHasValue ==
  ASSUME NEW N \in Nat, NEW base, NEW step
  PROVE  \E f : IsRecursion(f, N, base, step)
<1> DEFINE Fits(f, k) ==
             f = [n \in 0 .. k |-> IF n = 0 THEN base ELSE step[<<f[n - 1], n>>]]
           Missing == {k \in 0 .. N : ~ \E f : Fits(f, k)}
<1>1. ASSUME Missing # {} PROVE FALSE
  <2>1. Missing \in SUBSET Nat
    OBVIOUS
  <2> HIDE DEF Missing
  <2>2. PICK k \in Missing : \A l \in Missing : k <= l
    BY <1>1, <2>1, LeastNumber
  <2>3. k \in 0 .. N /\ ~ \E f : Fits(f, k)
    BY <2>2 DEF Missing
  <2>4. CASE k = 0
    <3> DEFINE f == [n \in 0 .. 0 |-> base]
    <3>1. f = [n \in 0 .. 0 |-> IF n = 0 THEN base ELSE step[<<f[n - 1], n>>]]
      OBVIOUS
    <3> HIDE DEF f
    <3>2. Fits(f, 0)
      BY <3>1
    <3> QED
      BY <2>3, <2>4, <3>2
  <2>5. CASE k # 0
    <3>1. k - 1 \in 0 .. N /\ ~(k <= k - 1)
      BY <2>3, <2>5
    <3>2. k - 1 \notin Missing
      BY <2>2, <3>1
    <3>3. PICK h : Fits(h, k - 1)
      BY <3>1, <3>2 DEF Missing
    <3> DEFINE f == [n \in 0 .. k |-> IF n = 0 THEN base ELSE step[<<h[n - 1], n>>]]
    <3>4. \A n \in 0 .. k - 1 : f[n] = h[n]
      <4>1. \A n \in 0 .. k - 1 : n \in 0 .. k
        BY <2>3
      <4>2. \A n \in 0 .. k - 1 : h[n] = IF n = 0 THEN base ELSE step[<<h[n - 1], n>>]
        BY <3>3
      <4> HIDE DEF Fits
      <4> QED
        BY <4>1, <4>2
    <3>5. \A n \in 0 .. k : n # 0 => n - 1 \in 0 .. k - 1
      BY <2>3
    <3>6. f = [n \in 0 .. k |-> IF n = 0 THEN base ELSE step[<<f[n - 1], n>>]]
      BY <3>4, <3>5
    <3> HIDE DEF f
    <3>7. Fits(f, k)
      BY <3>6
    <3> QED
      BY <2>3, <3>7
  <2> QED
    BY <2>4, <2>5
<1>2. N \in 0 .. N /\ N \notin Missing
  <2> HIDE DEF Missing
  <2> QED
    BY <1>1
<1>3. \E f : Fits(f, N)
  BY <1>2
<1> QED
  BY <1>3 DEF IsRecursion

(* What holds at the start and is kept by every step holds at every n. *)
LEMMA RecursionKeeps ==
  ASSUME NEW N \in Nat, NEW Good, 0 \in Good,
         \A n \in 1 .. N : n - 1 \in Good => n \in Good
  PROVE  \A n \in 0 .. N : n \in Good
<1> DEFINE Bad == {n \in 0 .. N : n \notin Good}
<1>1. ASSUME Bad # {} PROVE FALSE
  <2>1. Bad \in SUBSET Nat
    OBVIOUS
  <2>2. PICK n \in Bad : \A m \in Bad : n <= m
    BY <1>1, <2>1, LeastNumber
  <2>3. n \in 1 .. N /\ n - 1 \in 0 .. N /\ ~(n <= n - 1)
    OBVIOUS
  <2>4. n - 1 \notin Bad
    BY <2>2, <2>3
  <2> QED
    BY <2>3, <2>4
<1> QED
  BY <1>1
-----------------------------------------------------------------------------
(***************************************************************************)
(* Prices.  Fares and the amounts of a policy are whole VND, none of them  *)
(* negative (packages/shared, NonNegativeIntegerSchema).                   *)
(***************************************************************************)
PolicyShape(policy) ==
  policy.maxDiscount \in Nat /\ policy.maxBasisPoints \in Nat /\ policy.minFare \in Nat

(* The least and the greatest member of a set that has one. *)
LEMMA MinIsLeast ==
  ASSUME NEW S, \E x \in S : \A y \in S : x <= y
  PROVE  Min(S) \in S /\ \A y \in S : Min(S) <= y
  BY DEF Min

(* The greatest member likewise. *)
LEMMA MaxIsGreatest ==
  ASSUME NEW S, \E x \in S : \A y \in S : x >= y
  PROVE  Max(S) \in S /\ \A y \in S : Max(S) >= y
  BY DEF Max

(* A tenth of a thousandth, rounded down. *)
LEMMA ShareOfFare ==
  ASSUME NEW fare \in Nat, NEW points \in Nat
  PROVE  LET share == (fare * points) \div 10000
         IN  share \in Nat /\ share * 10000 <= fare * points
<1>1. fare * points \in Nat
  OBVIOUS
<1>2. \A x \in Nat : (x \div 10000) \in Nat /\ (x \div 10000) * 10000 <= x
  OBVIOUS
<1> QED
  BY <1>1, <1>2

(* The cap of a discount is neither negative nor above either limit. *)
LEMMA CapInRange ==
  ASSUME NEW fare \in Nat, NEW policy, PolicyShape(policy)
  PROVE  /\ PolicyCap(fare, policy) \in 0 .. policy.maxDiscount
         /\ PolicyCap(fare, policy) * 10000 <= fare * policy.maxBasisPoints
<1> DEFINE share == (fare * policy.maxBasisPoints) \div 10000
           limits == {policy.maxDiscount, share}
<1>1. policy.maxDiscount \in Nat /\ policy.maxBasisPoints \in Nat
  BY DEF PolicyShape
<1>2. share \in Nat /\ share * 10000 <= fare * policy.maxBasisPoints
  BY <1>1, ShareOfFare
<1>3. PolicyCap(fare, policy) = Min(limits) /\ limits = {policy.maxDiscount, share}
  BY DEF PolicyCap
<1>4. fare * policy.maxBasisPoints \in Nat
  BY <1>1
<1> HIDE DEF limits, share
<1>5. \E x \in limits : \A y \in limits : x <= y
  BY <1>1, <1>2, <1>3
<1>6. Min(limits) \in limits /\ \A y \in limits : Min(limits) <= y
  BY <1>5, MinIsLeast
<1>7. /\ Min(limits) <= policy.maxDiscount /\ Min(limits) <= share
      /\ Min(limits) = policy.maxDiscount \/ Min(limits) = share
  BY <1>3, <1>6
<1> QED
  BY <1>1, <1>2, <1>3, <1>4, <1>7

(* What the tiers add up to is not negative. *)
LEMMA ProposedInRange ==
  ASSUME NEW d, d.fare \in Nat, NEW policy, PolicyShape(policy), NEW shift \in Int
  PROVE  ProposedDiscount(d, policy, shift) \in Nat
<1> DEFINE cap == PolicyCap(d.fare, policy)
           tiers == {cap, Abs(shift) * 250}
<1>1. cap \in Nat /\ (cap \div 2) \in Nat /\ (cap \div 10) \in Nat
  <2>1. cap \in Nat
    BY CapInRange DEF PolicyShape
  <2> HIDE DEF cap
  <2> QED
    BY <2>1
<1>2. Abs(shift) * 250 \in Nat
  BY DEF Abs
<1>3. ProposedDiscount(d, policy, shift) =
        Min(tiers) + (IF HalfEmpty(d) THEN cap \div 2 ELSE 0)
                   + (IF d.relation = "VERIFIED_PARTNER" THEN 0 ELSE cap \div 10)
  BY DEF ProposedDiscount
<1>4. tiers = {cap, Abs(shift) * 250}
  OBVIOUS
<1> HIDE DEF cap, tiers
<1>5. Min(tiers) \in tiers
  <2>1. \E x \in tiers : \A y \in tiers : x <= y
    BY <1>1, <1>2, <1>4
  <2> QED
    BY <2>1, MinIsLeast
<1>6. Min(tiers) \in Nat
  BY <1>1, <1>2, <1>4, <1>5
<1> QED
  BY <1>1, <1>3, <1>6

(* A discount stays within the policy, and an offer that has an incentive  *)
(* is not sold below the policy's floor, nor above the published fare      *)
(* (calculateRevenueTwinIncentive).                                        *)
THEOREM PriceWithinPolicy ==
  ASSUME NEW d, d.fare \in Nat, NEW policy, PolicyShape(policy), NEW shift \in Int
  PROVE  /\ Discount(d, policy, shift) \in 0 .. policy.maxDiscount
         /\ Discount(d, policy, shift) * 10000 <= d.fare * policy.maxBasisPoints
         /\ FinalFare(d, policy, shift) = d.fare - Discount(d, policy, shift)
         /\ HasIncentive(d, policy, shift) =>
              FinalFare(d, policy, shift) \in policy.minFare .. d.fare
<1> DEFINE cap == PolicyCap(d.fare, policy)
           proposed == ProposedDiscount(d, policy, shift)
           room == {0, d.fare - policy.minFare}
           limits == {proposed, cap, Max(room)}
           discount == Discount(d, policy, shift)
           floor == {0, policy.minFare}
<1>1. /\ policy.maxDiscount \in Nat /\ policy.maxBasisPoints \in Nat /\ policy.minFare \in Nat
      /\ d.fare \in Nat
  BY DEF PolicyShape
<1>2. /\ cap \in 0 .. policy.maxDiscount /\ cap * 10000 <= d.fare * policy.maxBasisPoints
      /\ proposed \in Nat
  BY CapInRange, ProposedInRange
<1>3. /\ room = {0, d.fare - policy.minFare} /\ floor = {0, policy.minFare}
      /\ limits = {proposed, cap, Max(room)} /\ discount = Min(limits)
      /\ FinalFare(d, policy, shift) = d.fare - discount
      /\ HasIncentive(d, policy, shift) => d.fare - discount >= Max(floor)
  BY DEF Discount, FinalFare, HasIncentive
<1>4. d.fare * policy.maxBasisPoints \in Nat
  BY <1>1
<1> HIDE DEF cap, proposed, room, limits, discount, floor
<1>5. Max(room) \in Nat
  <2>1. \E x \in room : \A y \in room : x >= y
    BY <1>1, <1>3
  <2>2. Max(room) \in room /\ \A y \in room : Max(room) >= y
    BY <2>1, MaxIsGreatest
  <2> QED
    BY <1>1, <1>3, <2>2
<1>6. Max(floor) >= policy.minFare
  <2>1. \E x \in floor : \A y \in floor : x >= y
    BY <1>1, <1>3
  <2>2. \A y \in floor : Max(floor) >= y
    BY <2>1, MaxIsGreatest
  <2> QED
    BY <1>3, <2>2
<1>7. discount \in Nat /\ discount <= cap
  <2>1. \E x \in limits : \A y \in limits : x <= y
    BY <1>2, <1>3, <1>5
  <2>2. Min(limits) \in limits /\ \A y \in limits : Min(limits) <= y
    BY <2>1, MinIsLeast
  <2> QED
    BY <1>2, <1>3, <1>5, <2>2
<1>8. discount \in 0 .. policy.maxDiscount /\ discount * 10000 <= d.fare * policy.maxBasisPoints
  BY <1>1, <1>2, <1>4, <1>7
<1>9. Max(floor) \in Int
  <2>1. \E x \in floor : \A y \in floor : x >= y
    BY <1>1, <1>3
  <2>2. Max(floor) \in floor
    BY <2>1, MaxIsGreatest
  <2> QED
    BY <1>1, <1>3, <2>2
<1>10. d.fare - discount >= Max(floor) => d.fare - discount \in policy.minFare .. d.fare
  BY <1>1, <1>6, <1>7, <1>9
<1> QED
  BY <1>3, <1>8, <1>10 DEF discount

(* A partner's bus is never discounted beyond what the operator's own bus *)
(* would be (calculateRevenueTwinIncentive, the relation's tier).         *)
LEMMA PartnersAreNotPreferred ==
  ASSUME NEW d, d.fare \in Nat, NEW policy, PolicyShape(policy), NEW shift \in Int,
         {"relation", "fare", "capacity", "available"} \subseteq DOMAIN d
  PROVE  Discount(d, policy, shift) <=
           Discount([d EXCEPT !.relation = "OWN_FLEET"], policy, shift)
<1> DEFINE e == [d EXCEPT !.relation = "OWN_FLEET"]
           cap == PolicyCap(d.fare, policy)
           base == Min({cap, Abs(shift) * 250}) + (IF HalfEmpty(d) THEN cap \div 2 ELSE 0)
           room == Max({0, d.fare - policy.minFare})
           own == ProposedDiscount(e, policy, shift)
           theirs == ProposedDiscount(d, policy, shift)
           limits == {theirs, cap, room}
           raised == {own, cap, room}
<1>1. /\ e.fare = d.fare /\ e.capacity = d.capacity /\ e.available = d.available
      /\ e.relation = "OWN_FLEET"
  OBVIOUS
<1>2. HalfEmpty(e) <=> HalfEmpty(d)
  BY <1>1 DEF HalfEmpty
<1> HIDE DEF e
<1>3. cap \in Nat /\ own \in Nat /\ theirs \in Nat
  BY <1>1, CapInRange, ProposedInRange DEF PolicyShape
<1>4. /\ theirs = base + (IF d.relation = "VERIFIED_PARTNER" THEN 0 ELSE cap \div 10)
      /\ own = base + cap \div 10
  BY <1>1, <1>2 DEF ProposedDiscount
<1>5. room \in Nat
  <2> DEFINE options == {0, d.fare - policy.minFare}
  <2>1. options = {0, d.fare - policy.minFare} /\ d.fare - policy.minFare \in Int
    BY DEF PolicyShape
  <2> HIDE DEF options
  <2>2. \E x \in options : \A y \in options : x >= y
    BY <2>1
  <2>3. Max(options) \in options /\ \A y \in options : Max(options) >= y
    BY <2>2, MaxIsGreatest
  <2>4. Max(options) \in Nat
    BY <2>1, <2>3
  <2> QED
    BY <2>4 DEF options
<1>6. /\ Discount(d, policy, shift) = Min(limits) /\ Discount(e, policy, shift) = Min(raised)
      /\ limits = {theirs, cap, room} /\ raised = {own, cap, room}
  BY <1>1 DEF Discount
<1> HIDE DEF own, theirs, room
<1>7. theirs <= own
  <2> DEFINE tiers == {cap, Abs(shift) * 250}
             half == IF HalfEmpty(d) THEN cap \div 2 ELSE 0
             tenth == cap \div 10
  <2>1. base = Min(tiers) + half /\ tiers = {cap, Abs(shift) * 250} /\ Abs(shift) * 250 \in Nat
    BY DEF Abs
  <2>2. own = base + tenth /\ theirs = base + (IF d.relation = "VERIFIED_PARTNER" THEN 0 ELSE tenth)
    BY <1>4
  <2> HIDE DEF cap, tiers, base
  <2>3. half \in Nat /\ tenth \in Nat
    BY <1>3
  <2> HIDE DEF half, tenth
  <2>4. Min(tiers) \in Nat
    <3>1. \E x \in tiers : \A y \in tiers : x <= y
      BY <1>3, <2>1
    <3>2. Min(tiers) \in tiers
      BY <3>1, MinIsLeast
    <3> QED
      BY <1>3, <2>1, <3>2
  <2>5. base \in Nat
    BY <2>1, <2>3, <2>4
  <2> QED
    BY <2>2, <2>3, <2>5
<1> HIDE DEF cap, limits, raised
<1>8. Min(limits) \in limits /\ \A y \in limits : Min(limits) <= y
  <2>1. \E x \in limits : \A y \in limits : x <= y
    BY <1>3, <1>5, <1>6
  <2> QED
    BY <2>1, MinIsLeast
<1>9. Min(raised) \in raised
  <2>1. \E x \in raised : \A y \in raised : x <= y
    BY <1>3, <1>5, <1>6
  <2> QED
    BY <2>1, MinIsLeast
<1>10. Min(limits) <= Min(raised)
  BY <1>3, <1>5, <1>6, <1>7, <1>8, <1>9
<1> QED
  BY <1>6, <1>10 DEF e
-----------------------------------------------------------------------------
(***************************************************************************)
(* The offers.  The snapshots of a fleet have whole numbers, and their ids *)
(* are told apart by their order.                                          *)
(***************************************************************************)
SnapshotShape(d) ==
  d.at \in Int /\ d.order \in Int /\ d.available \in Nat /\ d.fare \in Nat

Fleet(S) ==
  /\ IsFiniteSet(S)
  /\ \A d \in S : SnapshotShape(d)
  /\ \A c, d \in S : c.order = d.order => c = d

(* What the sort compares are seven whole numbers, and no two snapshots of *)
(* a fleet have the same seven.                                            *)
LEMMA SortKeysDiffer ==
  ASSUME NEW S, Fleet(S), NEW primary, primary.at \in Int, NEW policy, PolicyShape(policy)
  PROVE  /\ \A d \in S : SortKey(d, primary, policy) \in Key(7)
         /\ \A c, d \in S :
              SortKey(c, primary, policy) = SortKey(d, primary, policy) => c = d
<1>1. ASSUME NEW d \in S
      PROVE  /\ SortKey(d, primary, policy) \in Key(7)
             /\ SortKey(d, primary, policy)[7] = d.order
  <2> DEFINE shift == d.at - primary.at
             first == IF d.relation = "VERIFIED_PARTNER" THEN 1 ELSE 0
             discount == Discount(d, policy, shift)
             final == FinalFare(d, policy, shift)
             key == <<first, Abs(shift), discount, -d.available, -final, d.at, d.order>>
  <2>1. d.at \in Int /\ d.order \in Int /\ d.available \in Nat /\ d.fare \in Nat
    BY DEF Fleet, SnapshotShape
  <2>2. shift \in Int
    BY <2>1
  <2>3. discount \in Int /\ final = d.fare - discount
    BY <2>1, <2>2, PriceWithinPolicy DEF PolicyShape
  <2>4. first \in Int /\ Abs(shift) \in Int /\ -d.available \in Int
    BY <2>1, <2>2 DEF Abs
  <2>5. SortKey(d, primary, policy) = key
    BY DEF SortKey
  <2>6. -final \in Int
    BY <2>1, <2>3
  <2> DEFINE third == -d.available
             fifth == -final
             abs == Abs(shift)
  <2> HIDE DEF shift, first, discount, final, abs, third, fifth
  <2>7. <<first, abs, discount, third, fifth, d.at, d.order>> \in Key(7)
    BY <2>1, <2>2, <2>3, <2>4, <2>6 DEF Key, abs, third, fifth
  <2>8. key = <<first, abs, discount, third, fifth, d.at, d.order>>
    BY DEF abs, third, fifth
  <2>9. key[7] = d.order
    OBVIOUS
  <2> HIDE DEF key
  <2> QED
    BY <2>5, <2>7, <2>8, <2>9
<1> QED
  BY <1>1 DEF Fleet

(* The order of the sort over the candidates. *)
SortOrder(S, primary, policy) ==
  {p \in S \X S : Precedes(SortKey(p[1], primary, policy), SortKey(p[2], primary, policy))}

(* The keys of the sort tell any two candidates apart. *)
LEMMA SortIsStrict ==
  ASSUME NEW S, Fleet(S), NEW primary, primary.at \in Int, NEW policy, PolicyShape(policy)
  PROVE  StrictOrder(SortOrder(S, primary, policy), S)
<1> DEFINE K(d) == SortKey(d, primary, policy)
           R == SortOrder(S, primary, policy)
<1>1. \A c, d \in S : <<c, d>> \in R <=> Precedes(K(c), K(d))
  BY DEF SortOrder
<1>2. \A d \in S : K(d) \in Key(7)
  BY SortKeysDiffer
<1>3. \A c, d \in S : K(c) = K(d) => c = d
  BY SortKeysDiffer
<1> HIDE DEF K, R
<1>4. \A d \in S : <<d, d>> \notin R
  BY <1>1, <1>2, PrecedesTransitive
<1>5. ASSUME NEW x \in S, NEW y \in S, NEW z \in S, <<x, y>> \in R, <<y, z>> \in R
      PROVE  <<x, z>> \in R
  BY <1>1, <1>2, <1>5, PrecedesTransitive
<1>6. ASSUME NEW x \in S, NEW y \in S
      PROVE  x = y \/ <<x, y>> \in R \/ <<y, x>> \in R
  BY <1>1, <1>2, <1>3, PrecedesTotal
<1>7. StrictOrder(R, S)
  BY <1>4, <1>5, <1>6 DEF StrictOrder
<1> QED
  BY <1>7 DEF R

(* Rank is the place in that order. *)
LEMMA RankIsPlace ==
  ASSUME NEW S, NEW primary, NEW policy, NEW d \in S
  PROVE  Rank(d, S, primary, policy) = Place(d, SortOrder(S, primary, policy), S)
<1>1. {c \in S : Precedes(SortKey(c, primary, policy), SortKey(d, primary, policy))}
        = {c \in S : <<c, d>> \in SortOrder(S, primary, policy)}
  BY DEF SortOrder
<1> QED
  BY <1>1 DEF Rank, Place

(* The candidates of evaluateRevenueTwin, and the one of a rank. *)
EligibleOf(primary, S, demand, policy) ==
  {d \in Routable(S, demand, policy) : Eligible(d, primary, demand, policy)}

Ranked(C, r, primary, policy) == CHOOSE d \in C : Rank(d, C, primary, policy) = r

(* Each rank is held by one candidate, whose betters hold the ranks before.*)
LEMMA RankedInOrder ==
  ASSUME NEW C, Fleet(C), NEW primary, primary.at \in Int, NEW policy, PolicyShape(policy),
         NEW r \in 1 .. Cardinality(C)
  PROVE  /\ Ranked(C, r, primary, policy) \in C
         /\ Rank(Ranked(C, r, primary, policy), C, primary, policy) = r
         /\ \A c \in C :
              Precedes(SortKey(c, primary, policy),
                       SortKey(Ranked(C, r, primary, policy), primary, policy)) =>
                \E q \in 1 .. r - 1 : Ranked(C, q, primary, policy) = c
<1> DEFINE R == SortOrder(C, primary, policy)
           d == Ranked(C, r, primary, policy)
<1>1. IsFiniteSet(C) /\ StrictOrder(R, C)
  BY SortIsStrict DEF Fleet
<1>2. /\ \A q \in 1 .. Cardinality(C) : \E x \in C : Place(x, R, C) = q
      /\ \A x, y \in C : Place(x, R, C) = Place(y, R, C) => x = y
  BY <1>1, EveryPlaceTaken
<1>3. /\ \A x \in C : Place(x, R, C) \in 1 .. Cardinality(C)
      /\ \A x, y \in C : <<x, y>> \in R => Place(x, R, C) < Place(y, R, C)
  BY <1>1, PlacesInOrder
<1>4. \A x \in C : Rank(x, C, primary, policy) = Place(x, R, C)
  BY RankIsPlace
<1>5. d \in C /\ Rank(d, C, primary, policy) = r
  BY <1>2, <1>4 DEF Ranked
<1>6. ASSUME NEW c \in C,
             Precedes(SortKey(c, primary, policy), SortKey(d, primary, policy))
      PROVE  \E q \in 1 .. r - 1 : Ranked(C, q, primary, policy) = c
  <2> DEFINE q == Place(c, R, C)
  <2>1. <<c, d>> \in R
    BY <1>5, <1>6 DEF SortOrder
  <2>2. q \in 1 .. Cardinality(C) /\ q < r
    BY <1>3, <1>4, <1>5, <2>1
  <2>3. Rank(c, C, primary, policy) = q
    BY <1>4
  <2>4. \A x \in C : Rank(x, C, primary, policy) = q => x = c
    BY <1>2, <1>4
  <2> HIDE DEF q
  <2>5. Ranked(C, q, primary, policy) = c
    BY <2>3, <2>4 DEF Ranked
  <2> QED
    BY <2>2, <2>5
<1> QED
  BY <1>5, <1>6

(* At most three offers, each of an eligible departure and at its price;   *)
(* and no eligible departure that sorts before an offered one is passed    *)
(* over or offered twice (evaluateRevenueTwin, its sort and slice).        *)
THEOREM BestEligibleAreOffered ==
  ASSUME NEW S, Fleet(S), NEW primary, primary.at \in Int, NEW demand,
         NEW policy, PolicyShape(policy)
  PROVE  LET offers == OffersFor(primary, S, demand, policy)
             C == EligibleOf(primary, S, demand, policy)
         IN  /\ \E n \in 0 .. 3 : n <= Cardinality(C) /\ DOMAIN offers = 1 .. n
             /\ \A i \in DOMAIN offers :
                  /\ Ranked(C, i, primary, policy) \in C
                  /\ offers[i] = OfferOf(Ranked(C, i, primary, policy), primary, demand, policy)
                  /\ \A c \in C :
                       Precedes(SortKey(c, primary, policy),
                                SortKey(Ranked(C, i, primary, policy), primary, policy)) =>
                         \E j \in 1 .. i - 1 : c = Ranked(C, j, primary, policy)
             /\ \A i, j \in DOMAIN offers :
                  Ranked(C, i, primary, policy) = Ranked(C, j, primary, policy) => i = j
<1> DEFINE offers == OffersFor(primary, S, demand, policy)
           C == EligibleOf(primary, S, demand, policy)
           sizes == {3, Cardinality(C)}
<1>1. C \in SUBSET S
  BY DEF EligibleOf, Routable
<1>2. Fleet(C)
  BY <1>1, FS_Subset DEF Fleet
<1>3. Cardinality(C) \in Nat
  BY <1>2, FS_CardinalityType DEF Fleet
<1>4. \/ offers = <<>>
      \/ offers = [r \in 1 .. Min(sizes) |->
                     OfferOf(Ranked(C, r, primary, policy), primary, demand, policy)]
  BY DEF OffersFor, EligibleOf, Ranked
<1>5. sizes = {3, Cardinality(C)}
  OBVIOUS
<1> HIDE DEF offers, C, sizes
<1>6. Min(sizes) \in 0 .. 3 /\ Min(sizes) <= Cardinality(C)
  <2>1. \E x \in sizes : \A y \in sizes : x <= y
    BY <1>3, <1>5
  <2>2. Min(sizes) \in sizes /\ \A y \in sizes : Min(sizes) <= y
    BY <2>1, MinIsLeast
  <2> QED
    BY <1>3, <1>5, <2>2
<1>7. \A r \in 1 .. Cardinality(C) :
        /\ Ranked(C, r, primary, policy) \in C
        /\ Rank(Ranked(C, r, primary, policy), C, primary, policy) = r
        /\ \A c \in C :
             Precedes(SortKey(c, primary, policy),
                      SortKey(Ranked(C, r, primary, policy), primary, policy)) =>
               \E q \in 1 .. r - 1 : Ranked(C, q, primary, policy) = c
  BY <1>2, RankedInOrder
<1>8. CASE offers = <<>>
  <2>1. DOMAIN offers = 1 .. 0 /\ 0 \in 0 .. 3 /\ 0 <= Cardinality(C)
    BY <1>3, <1>8
  <2> QED
    BY <2>1 DEF offers, C
<1>9. CASE offers = [r \in 1 .. Min(sizes) |->
                       OfferOf(Ranked(C, r, primary, policy), primary, demand, policy)]
  <2>1. DOMAIN offers = 1 .. Min(sizes)
    BY <1>9
  <2>2. \A i \in 1 .. Min(sizes) :
          /\ i \in 1 .. Cardinality(C)
          /\ offers[i] = OfferOf(Ranked(C, i, primary, policy), primary, demand, policy)
    BY <1>3, <1>6, <1>9
  <2>3. \A i \in DOMAIN offers :
          /\ Ranked(C, i, primary, policy) \in C
          /\ offers[i] = OfferOf(Ranked(C, i, primary, policy), primary, demand, policy)
          /\ \A c \in C :
               Precedes(SortKey(c, primary, policy),
                        SortKey(Ranked(C, i, primary, policy), primary, policy)) =>
                 \E j \in 1 .. i - 1 : c = Ranked(C, j, primary, policy)
    BY <1>7, <2>1, <2>2
  <2>4. \A i, j \in DOMAIN offers :
          Ranked(C, i, primary, policy) = Ranked(C, j, primary, policy) => i = j
    BY <1>7, <2>1, <2>2
  <2> QED
    BY <1>6, <2>1, <2>3, <2>4 DEF offers, C
<1> QED
  BY <1>4, <1>8, <1>9

(* No departure is offered twice, own buses come first, and among the     *)
(* buses of one relation the nearer departure (evaluateRevenueTwin, sort).*)
THEOREM OwnAndNearestFirst ==
  ASSUME NEW S, Fleet(S), \A d \in S : d.relation \in Relation,
         NEW primary, primary.at \in Int, NEW demand, NEW policy, PolicyShape(policy),
         NEW i \in DOMAIN OffersFor(primary, S, demand, policy),
         NEW j \in DOMAIN OffersFor(primary, S, demand, policy), i < j
  PROVE  LET C == EligibleOf(primary, S, demand, policy)
             c == Ranked(C, i, primary, policy)
             d == Ranked(C, j, primary, policy)
         IN  /\ c \in S /\ d \in S /\ c # d
             /\ d.relation = "OWN_FLEET" => c.relation = "OWN_FLEET"
             /\ c.relation = d.relation => Abs(c.at - primary.at) <= Abs(d.at - primary.at)
<1> DEFINE C == EligibleOf(primary, S, demand, policy)
           c == Ranked(C, i, primary, policy)
           d == Ranked(C, j, primary, policy)
           s == SortKey(c, primary, policy)
           t == SortKey(d, primary, policy)
<1>1. C \in SUBSET S
  BY DEF EligibleOf, Routable
<1>2. Fleet(C)
  BY <1>1, FS_Subset DEF Fleet
<1>3. i \in 1 .. Cardinality(C) /\ j \in 1 .. Cardinality(C)
  <2>1. PICK n \in 0 .. 3 : /\ n <= Cardinality(C)
                            /\ DOMAIN OffersFor(primary, S, demand, policy) = 1 .. n
    BY BestEligibleAreOffered
  <2>2. Cardinality(C) \in Nat
    BY <1>2, FS_CardinalityType DEF Fleet
  <2> HIDE DEF C
  <2> QED
    BY <2>1, <2>2
<1> HIDE DEF C
<1>4. /\ c \in C /\ Rank(c, C, primary, policy) = i
      /\ d \in C /\ Rank(d, C, primary, policy) = j
  BY <1>2, <1>3, RankedInOrder
<1> HIDE DEF c, d
<1>5. /\ s \in Key(7) /\ t \in Key(7) /\ s # t
  BY <1>2, <1>3, <1>4, SortKeysDiffer
<1>6. ~Precedes(t, s)
  <2> SUFFICES ASSUME Precedes(t, s) PROVE FALSE
    OBVIOUS
  <2>1. <<d, c>> \in SortOrder(C, primary, policy)
    BY <1>4 DEF SortOrder
  <2>2. Place(d, SortOrder(C, primary, policy), C) < Place(c, SortOrder(C, primary, policy), C)
    BY <1>2, <1>4, <2>1, SortIsStrict, PlacesInOrder DEF Fleet
  <2> QED
    BY <1>3, <1>4, <2>2, RankIsPlace
<1> HIDE DEF s, t
<1>7. s[1] <= t[1] /\ (s[1] = t[1] => s[2] <= t[2])
  BY <1>5, <1>6, PrecedesTotal, FirstFieldsDecide
<1>8. /\ s[1] = (IF c.relation = "VERIFIED_PARTNER" THEN 1 ELSE 0)
      /\ s[2] = Abs(c.at - primary.at)
      /\ t[1] = (IF d.relation = "VERIFIED_PARTNER" THEN 1 ELSE 0)
      /\ t[2] = Abs(d.at - primary.at)
  BY DEF SortKey, s, t
<1>9. c \in S /\ d \in S /\ c.relation \in Relation /\ d.relation \in Relation
  BY <1>1, <1>4
<1>10. c # d
  BY <1>3, <1>4
<1> QED
  BY <1>7, <1>8, <1>9, <1>10 DEF C, c, d, Relation
(* Every offer is one the operator can honour: another departure of an     *)
(* allowed relation with seats for the whole group, enough left over when  *)
(* the customer is only asked to move, within the customer's and the       *)
(* operator's limits of time, at a fare between the floor and the          *)
(* published one and a discount within both caps.                          *)
THEOREM OffersCanBeHonoured ==
  ASSUME NEW S, Fleet(S), NEW primary, primary.at \in Int, NEW demand,
         NEW policy, PolicyShape(policy),
         NEW i \in DOMAIN OffersFor(primary, S, demand, policy)
  PROVE  LET o == OffersFor(primary, S, demand, policy)[i]
         IN  \E d \in S :
               /\ d.dep # demand.dep /\ d.relation \in policy.relations
               /\ Eligible(d, primary, demand, policy)
               /\ o = OfferOf(d, primary, demand, policy)
               /\ o.discount \in 0 .. policy.maxDiscount
               /\ o.discount * 10000 <= o.fare * policy.maxBasisPoints
               /\ o.final = o.fare - o.discount
               /\ o.final \in policy.minFare .. o.fare
<1> DEFINE C == EligibleOf(primary, S, demand, policy)
           d == Ranked(C, i, primary, policy)
           shift == d.at - primary.at
           o == OffersFor(primary, S, demand, policy)[i]
<1>1. d \in C /\ o = OfferOf(d, primary, demand, policy)
  BY BestEligibleAreOffered
<1>2. /\ d \in S /\ d.dep # demand.dep /\ d.relation \in policy.relations
      /\ Eligible(d, primary, demand, policy)
  <2> HIDE DEF d
  <2> QED
    BY <1>1 DEF EligibleOf, Routable
<1>3. d.fare \in Nat /\ shift \in Int
  BY <1>2 DEF Fleet, SnapshotShape
<1>4. HasIncentive(d, policy, shift)
  BY <1>2 DEF Eligible
<1>5. /\ Discount(d, policy, shift) \in 0 .. policy.maxDiscount
      /\ Discount(d, policy, shift) * 10000 <= d.fare * policy.maxBasisPoints
      /\ FinalFare(d, policy, shift) = d.fare - Discount(d, policy, shift)
      /\ FinalFare(d, policy, shift) \in policy.minFare .. d.fare
  <2> HIDE DEF d, shift
  <2> QED
    BY <1>3, <1>4, PriceWithinPolicy
<1>6. /\ o.fare = d.fare /\ o.discount = Discount(d, policy, shift)
      /\ o.final = FinalFare(d, policy, shift)
  <2> HIDE DEF d, o
  <2> QED
    BY <1>1 DEF OfferOf
<1> HIDE DEF d, o, shift
<1> QED
  BY <1>1, <1>2, <1>5, <1>6 DEF o

(* The offers are a list of at most three, and the answer says so: its      *)
(* status names offers when there are some, and the impact it reports is    *)
(* that of the best one, its revenue divided between the customer's         *)
(* discount and the operator (evaluateRevenueTwin, its returns).            *)
THEOREM AnswerTellsOffers ==
  ASSUME NEW S, Fleet(S), NEW primary, primary.at \in Int, NEW demand, demand.pax \in Nat,
         NEW policy, PolicyShape(policy)
  PROVE  LET answer == EvaluateRevenueTwin(primary, S, demand, policy)
         IN  /\ answer.offers = OffersFor(primary, S, demand, policy)
             /\ Len(answer.offers) \in 0 .. 3
             /\ DOMAIN answer.offers = 1 .. Len(answer.offers)
             /\ answer.offers # <<>> <=> answer.status \in
                  {"PROACTIVE_OFFERS_AVAILABLE", "OVERFLOW_OFFERS_AVAILABLE"}
             /\ answer.impact.gross = answer.impact.net + answer.impact.discount
<1> DEFINE C == EligibleOf(primary, S, demand, policy)
           offers == OffersFor(primary, S, demand, policy)
           answer == EvaluateRevenueTwin(primary, S, demand, policy)
           sizes == {3, Cardinality(C)}
           offer(r) == OfferOf(Ranked(C, r, primary, policy), primary, demand, policy)
           idle == \/ CanServe(primary, demand) /\ ~Proactive(primary, demand, policy)
                   \/ ~policy.enabled
<1>1. /\ answer.offers = offers
      /\ answer.status = StatusOf(offers, primary, S, demand, policy)
      /\ answer.impact = ImpactOf(offers)
  BY DEF EvaluateRevenueTwin
<1>2. offers = IF idle THEN <<>> ELSE [r \in 1 .. Min(sizes) |-> offer(r)]
  BY DEF OffersFor, EligibleOf, Ranked
<1>3. PICK n \in 0 .. 3 : DOMAIN offers = 1 .. n
  BY BestEligibleAreOffered
<1>4. \A i \in DOMAIN offers :
        offers[i].fare \in Nat /\ offers[i].discount \in Int /\ offers[i].pax = demand.pax
          /\ offers[i].final = offers[i].fare - offers[i].discount
  <2> TAKE i \in DOMAIN offers
  <2>1. PICK d \in S :
          /\ offers[i] = OfferOf(d, primary, demand, policy)
          /\ offers[i].discount \in 0 .. policy.maxDiscount
          /\ offers[i].final = offers[i].fare - offers[i].discount
    BY OffersCanBeHonoured
  <2>2. offers[i].fare = d.fare /\ offers[i].pax = demand.pax /\ d.fare \in Nat
    BY <2>1 DEF OfferOf, Fleet, SnapshotShape
  <2> QED
    BY <2>1, <2>2
<1> HIDE DEF C, offers, answer, sizes, offer
<1>5. Len(offers) = n /\ offers \in Seq({offers[i] : i \in DOMAIN offers})
  <2>1. offers = [i \in 1 .. n |-> offers[i]]
    <3>1. CASE idle
      BY <1>2, <1>3, <3>1
    <3>2. CASE ~idle
      <4>1. offers = [r \in 1 .. Min(sizes) |-> offer(r)]
        BY <1>2, <3>2
      <4> QED
        BY <1>3, <4>1
    <3> QED
      BY <3>1, <3>2
  <2>2. offers \in [1 .. n -> {offers[i] : i \in DOMAIN offers}]
    BY <1>3, <2>1
  <2> QED
    BY <2>2
<1>6. offers # <<>> <=> answer.status \in
        {"PROACTIVE_OFFERS_AVAILABLE", "OVERFLOW_OFFERS_AVAILABLE"}
  <2>1. idle => offers = <<>>
    BY <1>2
  <2> DEFINE none == offers = <<>>
  <2>2. none <=> offers = <<>>
    OBVIOUS
  <2> HIDE DEF none
  <2>3. none <=> answer.status \notin {"PROACTIVE_OFFERS_AVAILABLE", "OVERFLOW_OFFERS_AVAILABLE"}
    BY <1>1, <2>1, <2>2 DEF StatusOf, Proactive
  <2> QED
    BY <2>2, <2>3
<1>7. answer.impact.gross = answer.impact.net + answer.impact.discount
  <2>1. CASE offers = <<>>
    BY <1>1, <2>1 DEF ImpactOf, NoImpact
  <2>2. CASE offers # <<>>
    <3> DEFINE best == offers[1]
    <3>1. 1 \in DOMAIN offers
      BY <1>3, <1>5, <2>2
    <3>2. /\ best.fare \in Nat /\ best.discount \in Int /\ best.pax = demand.pax
          /\ best.final = best.fare - best.discount
      BY <1>4, <3>1
    <3>3. /\ answer.impact.gross = best.fare * best.pax
          /\ answer.impact.discount = best.discount * best.pax
          /\ answer.impact.net = best.final * best.pax
      BY <1>1, <2>2 DEF ImpactOf
    <3> HIDE DEF best
    <3>4. \A f, d, p \in Int : f * p = (f - d) * p + d * p
      OBVIOUS
    <3> QED
      BY <3>2, <3>3
  <2> QED
    BY <2>1, <2>2
<1> QED
  BY <1>1, <1>3, <1>5, <1>6, <1>7 DEF offers, answer
-----------------------------------------------------------------------------
(***************************************************************************)
(* The simulation.  A request is a party and a time.                       *)
(***************************************************************************)
SimulationRequest == [pax : Nat, at : Int]

(* Every place of the order is taken by a request. *)
LEMMA OrderedRequests ==
  ASSUME NEW requests \in Seq(SimulationRequest)
  PROVE  \A i \in 1 .. Len(requests) : InOrderOfRequest(requests)[i] \in SimulationRequest
<1> DEFINE D == 1 .. Len(requests)
           key(j) == <<requests[j].at, j>>
           R == {p \in D \X D : Precedes(key(p[1]), key(p[2]))}
<1>1. /\ Len(requests) \in Nat /\ DOMAIN requests = D
      /\ \A j \in D : requests[j] \in SimulationRequest
  OBVIOUS
<1>2. IsFiniteSet(D) /\ Cardinality(D) = Len(requests)
  <2> DEFINE N == Len(requests)
  <2> HIDE DEF N
  <2>1. N \in Nat => IsFiniteSet(1 .. N) /\ Cardinality(1 .. N) = N
    BY FS_Interval
  <2> QED
    BY <1>1, <2>1 DEF N
<1>3. \A j \in D : key(j) \in Key(2) /\ key(j)[2] = j
  <2>1. \A j \in D : requests[j].at \in Int /\ j \in Int
    BY <1>1 DEF SimulationRequest
  <2> QED
    BY <2>1 DEF Key
<1> HIDE DEF key
<1>4. \A i, j \in D : <<i, j>> \in R <=> Precedes(key(i), key(j))
  OBVIOUS
<1> HIDE DEF R
<1>5. StrictOrder(R, D)
  <2>1. \A j \in D : <<j, j>> \notin R
    BY <1>3, <1>4, PrecedesTransitive
  <2>2. \A i, j, k \in D : <<i, j>> \in R /\ <<j, k>> \in R => <<i, k>> \in R
    BY <1>3, <1>4, PrecedesTransitive
  <2>3. ASSUME NEW i \in D, NEW j \in D
        PROVE  i = j \/ <<i, j>> \in R \/ <<j, i>> \in R
    <3>1. i # j => key(i) # key(j)
      BY <1>3
    <3> QED
      BY <1>3, <1>4, <3>1, PrecedesTotal
  <2> QED
    BY <2>1, <2>2, <2>3 DEF StrictOrder
<1>6. ASSUME NEW i \in D
      PROVE  InOrderOfRequest(requests)[i] \in SimulationRequest
  <2> DEFINE Held(j) == i = 1 + Cardinality({n \in D : Precedes(key(n), key(j))})
  <2>1. \A j \in D : {n \in D : Precedes(key(n), key(j))} = {n \in D : <<n, j>> \in R}
    BY <1>4
  <2>2. \E j \in D : Place(j, R, D) = i
    BY <1>2, <1>5, EveryPlaceTaken
  <2>3. \E j \in D : Held(j)
    BY <2>1, <2>2 DEF Place
  <2>4. InOrderOfRequest(requests)[i] = requests[CHOOSE j \in D : Held(j)]
    BY <1>1 DEF InOrderOfRequest, key
  <2> HIDE DEF Held
  <2>5. (CHOOSE j \in D : Held(j)) \in D
    BY <2>3
  <2> HIDE DEF D
  <2> QED
    BY <1>1, <2>4, <2>5
<1> QED
  BY <1>6

(* What is left of seats and sold of others after the requests before the   *)
(* n-th.                                                                    *)
Sold(D, seats, total, n) ==
  {r \in [primary : 0 .. seats, accepted : Nat, overflow : Nat, index : Nat,
          alternatives : [D -> Nat]] :
     r.index = n /\ SumFunction(r.alternatives) + r.accepted = total}

(* A request takes its seats from one departure, or none at all.            *)
LEMMA RequestSellsOnce ==
  ASSUME NEW seats \in Nat, NEW N \in Nat, NEW total, NEW n \in Nat,
         NEW acc \in Sold(1 .. N, seats, total, n), NEW q \in SimulationRequest, NEW accepts
  PROVE  SimulatedRequest(acc, q, accepts) \in Sold(1 .. N, seats, total, n + 1)
<1> DEFINE D == 1 .. N
           k == FirstWithSeats(acc.alternatives, q.pax)
           next == SimulatedRequest(acc, q, accepts)
           Shape == [primary : 0 .. seats, accepted : Nat, overflow : Nat, index : Nat,
                     alternatives : [D -> Nat]]
<1>1. /\ acc \in Shape /\ acc.index = n /\ q.pax \in Nat
      /\ SumFunction(acc.alternatives) + acc.accepted = total
  BY DEF Sold, SimulationRequest
<1>2. CASE q.pax <= acc.primary
  <2>1. next = [acc EXCEPT !.primary = @ - q.pax, !.index = @ + 1]
    BY <1>2 DEF SimulatedRequest
  <2> HIDE DEF next
  <2>2. next = [primary |-> acc.primary - q.pax, accepted |-> acc.accepted,
                overflow |-> acc.overflow, index |-> n + 1, alternatives |-> acc.alternatives]
    BY <1>1, <2>1
  <2>3. acc.primary - q.pax \in 0 .. seats
    BY <1>1, <1>2
  <2>4. next \in Shape /\ next.index = n + 1
    BY <1>1, <2>2, <2>3
  <2> QED
    BY <1>1, <2>2, <2>4 DEF Sold, next
<1>3. CASE ~(q.pax <= acc.primary) /\ (k = 0 \/ ~accepts[acc.index])
  <2>1. next = [acc EXCEPT !.overflow = @ + 1, !.index = @ + 1]
    BY <1>3 DEF SimulatedRequest
  <2> HIDE DEF next
  <2>2. next = [primary |-> acc.primary, accepted |-> acc.accepted,
                overflow |-> acc.overflow + 1, index |-> n + 1,
                alternatives |-> acc.alternatives]
    BY <1>1, <2>1
  <2>3. next \in Shape /\ next.index = n + 1
    BY <1>1, <2>2
  <2> QED
    BY <1>1, <2>2, <2>3 DEF Sold, next
<1>4. CASE ~(q.pax <= acc.primary) /\ ~(k = 0 \/ ~accepts[acc.index])
  <2> DEFINE enough == {i \in D : acc.alternatives[i] >= q.pax}
             s == acc.alternatives
             p == q.pax
             t == [s EXCEPT ![k] = @ - p]
  <2>1. s \in [D -> Nat] /\ DOMAIN s = D
    BY <1>1
  <2>2. k \in enough
    <3>1. k = IF enough = {} THEN 0 ELSE Min(enough)
      BY <2>1 DEF FirstWithSeats
    <3>2. enough \in SUBSET Nat /\ enough # {}
      BY <1>4, <3>1
    <3> HIDE DEF enough, k
    <3>3. Min(enough) \in enough
      BY <3>2, LeastNumber, MinIsLeast
    <3> QED
      BY <3>1, <3>2, <3>3
  <2>3. next = [acc EXCEPT !.overflow = @ + 1, !.index = @ + 1, !.accepted = @ + q.pax,
                           !.alternatives[k] = @ - q.pax]
    BY <1>4 DEF SimulatedRequest
  <2> HIDE DEF next, k
  <2>4. next = [primary |-> acc.primary, accepted |-> acc.accepted + q.pax,
                overflow |-> acc.overflow + 1, index |-> n + 1, alternatives |-> t]
    BY <1>1, <2>3
  <2>5. k \in D /\ q.pax <= s[k] /\ IsFiniteSet(D)
    BY <2>1, <2>2, FS_Interval
  <2>6. t \in [D -> Nat] /\ SumFunction(s) = p + SumFunction(t) /\ SumFunction(t) \in Nat
    <3>1. p \in Nat /\ p <= s[k]
      BY <1>1, <2>5
    <3>2. IsFiniteSet(D) /\ s \in [D -> Nat] /\ k \in D
      BY <2>1, <2>5
    <3>3. /\ t \in [D -> Nat] /\ s[k] = p + t[k]
          /\ \A x \in D \ {k} : s[x] = t[x]
      <4> HIDE DEF p, s, D
      <4> QED
        BY <3>1, <3>2
    <3> HIDE DEF p, s, D, t
    <3> QED
      BY <3>1, <3>2, <3>3, TotalAfterTaking
  <2> HIDE DEF D, s
  <2> HIDE DEF t
  <2>7. next \in Shape
    BY <1>1, <2>4, <2>6, SMTT(30)
  <2>8. SumFunction(next.alternatives) + next.accepted = total
    BY <1>1, <2>4, <2>6 DEF s
  <2> QED
    BY <2>4, <2>7, <2>8, SMTT(30) DEF Sold, next, D
<1> QED
  BY <1>2, <1>3, <1>4

(* A simulation sells no seat twice: what is left of the primary departure  *)
(* is between none and what there was, what the others have left and what   *)
(* the accepted parties take is what the others had, and every request has  *)
(* been decided once (runRevenueTwinSimulation).                            *)
THEOREM SimulationSellsNoSeatTwice ==
  ASSUME NEW seats \in Nat, NEW others \in Seq(Nat),
         NEW requests \in Seq(SimulationRequest), NEW accepts
  PROVE  LET result == RunRevenueTwinSimulation(seats, others, requests, accepts)
         IN  /\ result.primary \in 0 .. seats
             /\ SumFunction(result.alternatives) + result.accepted = SumFunction(others)
             /\ result.index = Len(requests) + 1
<1> DEFINE N == Len(requests)
           M == Len(others)
           total == SumFunction(others)
           ordered == InOrderOfRequest(requests)
           start == SimulationStart(seats, others)
           Kept(n) == Sold(1 .. M, seats, total, n + 1)
           All == UNION {Kept(n) : n \in 0 .. N}
           Fits(f) == f = [n \in 0 .. N |->
                             IF n = 0 THEN start
                             ELSE SimulatedRequest(f[n - 1], ordered[n], accepts)]
           step == [p \in All \X (1 .. N) |-> SimulatedRequest(p[1], ordered[p[2]], accepts)]
<1>1. /\ N \in Nat /\ M \in Nat /\ DOMAIN others = 1 .. M /\ others \in [1 .. M -> Nat]
      /\ \A i \in 1 .. N : ordered[i] \in SimulationRequest
  BY OrderedRequests
<1>2. start \in Kept(0)
  <2>1. \A x \in Nat : Max({0, x}) = x
    <3> TAKE x \in Nat
    <3> DEFINE two == {0, x}
    <3>1. two = {0, x} /\ \E y \in two : \A z \in two : y >= z
      OBVIOUS
    <3> HIDE DEF two
    <3>2. Max(two) \in two /\ Max(two) >= x /\ Max(two) >= 0
      BY <3>1, MaxIsGreatest
    <3> QED
      BY <3>1, <3>2 DEF two
  <2>2. start = [primary |-> seats, accepted |-> 0, overflow |-> 0, index |-> 1,
                 alternatives |-> others]
    BY <1>1, <2>1 DEF SimulationStart
  <2>3. total \in Nat
    <3>1. others \in [1 .. M -> Nat] /\ IsFiniteSet(1 .. M)
      BY <1>1, FS_Interval
    <3> QED
      BY <3>1, SumOfNaturals
  <2> HIDE DEF start, total, M
  <2> QED
    BY <1>1, <2>2, <2>3 DEF Sold, total
<1>3. ASSUME NEW n \in 1 .. N, NEW acc \in Kept(n - 1)
      PROVE  SimulatedRequest(acc, ordered[n], accepts) \in Kept(n)
  <2>1. n \in Nat /\ (n - 1) + 1 = n /\ ordered[n] \in SimulationRequest
    BY <1>1
  <2> HIDE DEF N, M, total, ordered
  <2> QED
    BY <1>1, <2>1, RequestSellsOnce
<1> HIDE DEF N, M, total, ordered, start, Kept
<1>4. ASSUME NEW f, Fits(f)
      PROVE  \A n \in 0 .. N : f[n] \in Kept(n)
  <2> DEFINE Good == {n \in 0 .. N : f[n] \in Kept(n)}
  <2>1. 0 \in Good
    BY <1>1, <1>2, <1>4
  <2>2. \A n \in 1 .. N : n - 1 \in Good => n \in Good
    BY <1>1, <1>3, <1>4
  <2> HIDE DEF Good
  <2>3. \A n \in 0 .. N : n \in Good
    BY <1>1, <2>1, <2>2, RecursionKeeps
  <2> QED
    BY <2>3 DEF Good
<1>5. \E f : Fits(f)
  <2> HIDE DEF step
  <2>1. PICK f : f = [n \in 0 .. N |-> IF n = 0 THEN start ELSE step[<<f[n - 1], n>>]]
    <3>1. N \in Nat
      BY <1>1
    <3>2. \E f : IsRecursion(f, N, start, step)
      BY <3>1, RecursionHasValue
    <3> QED
      BY <3>2 DEF IsRecursion
  <2> USE DEF step
  <2> DEFINE Good == {n \in 0 .. N : f[n] \in Kept(n)}
  <2>2. ASSUME NEW n \in 1 .. N, f[n - 1] \in Kept(n - 1)
        PROVE  step[<<f[n - 1], n>>] = SimulatedRequest(f[n - 1], ordered[n], accepts)
    <3>1. n - 1 \in 0 .. N
      BY <1>1
    <3>2. f[n - 1] \in All
      BY <2>2, <3>1
    <3> QED
      BY <3>2
  <2> HIDE DEF step
  <2>3. \A n \in 0 .. N : f[n] = IF n = 0 THEN start ELSE step[<<f[n - 1], n>>]
    BY <2>1
  <2>4. 0 \in Good
    <3>1. 0 \in 0 .. N
      BY <1>1
    <3> HIDE DEF Fits, All
    <3> QED
      BY <1>2, <2>3, <3>1
  <2>5. \A n \in 1 .. N : n - 1 \in Good => n \in Good
    <3>1. \A n \in 1 .. N : n \in 0 .. N /\ n # 0
      BY <1>1
    <3> HIDE DEF Fits, All
    <3> QED
      BY <1>3, <2>2, <2>3, <3>1
  <2> HIDE DEF Good
  <2>6. \A n \in 0 .. N : n \in Good
    BY <1>1, <2>4, <2>5, RecursionKeeps
  <2>7. \A n \in 1 .. N : f[n] = SimulatedRequest(f[n - 1], ordered[n], accepts)
    <3>1. \A n \in 1 .. N : n \in 0 .. N /\ n # 0 /\ n - 1 \in 0 .. N
      BY <1>1
    <3>2. \A n \in 0 .. N : f[n] \in Kept(n)
      BY <2>6 DEF Good
    <3> QED
      BY <2>2, <2>3, <3>1, <3>2
  <2>8. \A n \in 0 .. N : n # 0 => n \in 1 .. N
    BY <1>1
  <2>9. f = [n \in 0 .. N |-> f[n]]
    BY <2>1
  <2>10. f = [n \in 0 .. N |->
                IF n = 0 THEN start ELSE SimulatedRequest(f[n - 1], ordered[n], accepts)]
    BY <2>3, <2>7, <2>8, <2>9
  <2> QED
    BY <2>10
<1> DEFINE after == CHOOSE f : Fits(f)
<1>6. Fits(after)
  <2> HIDE DEF Fits
  <2> QED
    BY <1>5
<1>7. RunRevenueTwinSimulation(seats, others, requests, accepts) = after[N]
  BY DEF RunRevenueTwinSimulation, N, ordered, start
<1> HIDE DEF after, Fits
<1>8. after[N] \in Kept(N)
  <2>1. N \in 0 .. N
    BY <1>1
  <2> QED
    BY <1>4, <1>6, <2>1
<1> QED
  BY <1>7, <1>8 DEF Kept, Sold, total, N
=============================================================================
