-------------------------- MODULE DecisionsProofs --------------------------
(***************************************************************************)
(* Theorems about Decisions: what the API stores as facts without deciding *)
(* it in its own transactions is justified - for any set of signatures,    *)
(* contents, deployments and cases, and without the bounds of the runs.    *)
(***************************************************************************)
EXTENDS Decisions, RevenueTwinPolicyProofs, SequenceTheorems
-----------------------------------------------------------------------------
(***************************************************************************)
(* What a transaction pays.                                                *)
(***************************************************************************)
(* What the first n transfers pay to a wallet. *)
PaidUpTo(transfers, wallet) ==
  CHOOSE upTo :
    upTo = [n \in 0 .. Len(transfers) |->
              IF n = 0 THEN 0
              ELSE upTo[n - 1] + (IF transfers[n].to = wallet THEN transfers[n].lamports ELSE 0)]

(* The amounts that go to a wallet, by transfer. *)
Matching(transfers, wallet) == {i \in DOMAIN transfers : transfers[i].to = wallet}
MatchingUpTo(transfers, wallet, n) == {i \in Matching(transfers, wallet) : i <= n}
Amounts(transfers, wallet) == [i \in Matching(transfers, wallet) |-> transfers[i].lamports]

PaidSum(transfers, wallet) == SubsetSums(Amounts(transfers, wallet), Matching(transfers, wallet))

(* Each transfer to the wallet adds its amount to what those before it     *)
(* paid.                                                                   *)
LEMMA PaidSumSteps ==
  ASSUME NEW transfers \in Seq(Transfer), NEW wallet
  PROVE  LET sum(n) == PaidSum(transfers, wallet)[MatchingUpTo(transfers, wallet, n)]
         IN  /\ sum(0) = 0
             /\ \A n \in 0 .. Len(transfers) : sum(n) \in Nat
             /\ \A n \in 1 .. Len(transfers) :
                  sum(n) = sum(n - 1)
                             + (IF transfers[n].to = wallet THEN transfers[n].lamports ELSE 0)
<1> DEFINE M == Matching(transfers, wallet)
           Up(n) == MatchingUpTo(transfers, wallet, n)
           g == Amounts(transfers, wallet)
           f == SubsetSums(g, M)
<1>1. /\ Len(transfers) \in Nat /\ DOMAIN transfers = 1 .. Len(transfers)
      /\ \A i \in 1 .. Len(transfers) : transfers[i].lamports \in Nat
  <2>1. \A i \in 1 .. Len(transfers) : transfers[i] \in Transfer
    OBVIOUS
  <2> QED
    BY <2>1 DEF Transfer
<1>2. IsFiniteSet(M)
  <2>1. IsFiniteSet(1 .. Len(transfers)) /\ M \in SUBSET (1 .. Len(transfers))
    BY <1>1, FS_Interval DEF Matching
  <2> QED
    BY <2>1, FS_Subset
<1>3. \A x \in M : g[x] = transfers[x].lamports /\ g[x] \in Nat
  BY <1>1 DEF Matching, Amounts
<1> HIDE DEF g
<1>4. /\ f[{}] = 0
      /\ \A T \in SUBSET M : f[T] \in Nat
      /\ \A T \in SUBSET M : \A x \in T : f[T] = g[x] + f[T \ {x}]
  BY <1>2, <1>3, SubsetSumsUnfold
<1> HIDE DEF f
<1>5. /\ Up(0) = {}
      /\ \A n \in Nat : Up(n) \in SUBSET M
  BY <1>1 DEF Matching, MatchingUpTo
<1>6. ASSUME NEW n \in 1 .. Len(transfers)
      PROVE  f[Up(n)] = f[Up(n - 1)]
                          + (IF transfers[n].to = wallet THEN transfers[n].lamports ELSE 0)
  <2>1. n \in Nat /\ n - 1 \in Nat /\ Up(n) \in SUBSET M /\ Up(n - 1) \in SUBSET M
    BY <1>1, <1>5
  <2>2. CASE transfers[n].to = wallet
    <3>1. n \in M /\ n \in Up(n) /\ Up(n) \ {n} = Up(n - 1)
      BY <1>1, <2>2 DEF Matching, MatchingUpTo
    <3>2. f[Up(n)] = g[n] + f[Up(n - 1)]
      BY <1>4, <2>1, <3>1
    <3>3. g[n] = transfers[n].lamports /\ g[n] \in Nat /\ f[Up(n - 1)] \in Nat
      BY <1>3, <1>4, <2>1, <3>1
    <3> QED
      BY <2>2, <3>2, <3>3
  <2>3. CASE transfers[n].to # wallet
    <3>1. Up(n) = Up(n - 1)
      BY <1>1, <2>3 DEF Matching, MatchingUpTo
    <3>2. f[Up(n - 1)] \in Nat
      BY <1>4, <2>1
    <3> QED
      BY <2>3, <3>1, <3>2
  <2> QED
    BY <2>2, <2>3
<1>7. \A n : PaidSum(transfers, wallet)[MatchingUpTo(transfers, wallet, n)] = f[Up(n)]
  BY DEF PaidSum, f, g
<1>8. \A n \in 0 .. Len(transfers) : f[Up(n)] \in Nat
  <2>1. \A n \in 0 .. Len(transfers) : n \in Nat
    BY <1>1
  <2> QED
    BY <1>4, <1>5, <2>1
<1> HIDE DEF Up, M
<1> QED
  BY <1>4, <1>5, <1>6, <1>7, <1>8

(* The recursive function of ObservedAmount is that sum at every n. *)
LEMMA PaidUpToIsSum ==
  ASSUME NEW transfers \in Seq(Transfer), NEW wallet
  PROVE  PaidUpTo(transfers, wallet) =
           [n \in 0 .. Len(transfers) |->
              PaidSum(transfers, wallet)[MatchingUpTo(transfers, wallet, n)]]
<1> DEFINE N == Len(transfers)
           amount(n) == IF transfers[n].to = wallet THEN transfers[n].lamports ELSE 0
           sum(n) == PaidSum(transfers, wallet)[MatchingUpTo(transfers, wallet, n)]
           s == [n \in 0 .. N |-> sum(n)]
           Fits(f) == f = [n \in 0 .. N |-> IF n = 0 THEN 0 ELSE f[n - 1] + amount(n)]
<1>1. N \in Nat
  OBVIOUS
<1>2. sum(0) = 0 /\ \A n \in 1 .. N : sum(n) = sum(n - 1) + amount(n)
  BY PaidSumSteps
<1> HIDE DEF N, amount, sum
<1>3. Fits(s)
  BY <1>1, <1>2
<1>4. ASSUME NEW f, Fits(f)
      PROVE  f = s
  <2> DEFINE Wrong == {n \in 0 .. N : f[n] # s[n]}
  <2>1. /\ f = [n \in 0 .. N |-> f[n]]
        /\ \A n \in 0 .. N : f[n] = IF n = 0 THEN 0 ELSE f[n - 1] + amount(n)
    BY <1>4
  <2>2. \A n \in 0 .. N : s[n] = IF n = 0 THEN 0 ELSE s[n - 1] + amount(n)
    BY <1>1, <1>2
  <2> HIDE DEF s
  <2>3. ASSUME Wrong # {} PROVE FALSE
    <3>1. Wrong \in SUBSET Nat
      OBVIOUS
    <3>2. PICK n \in Wrong : \A m \in Wrong : n <= m
      BY <2>3, <3>1, LeastNumber
    <3>3. n \in 0 .. N /\ f[n] # s[n]
      OBVIOUS
    <3>4. n # 0
      BY <2>1, <2>2, <3>3
    <3>5. n - 1 \in 0 .. N /\ ~(n <= n - 1)
      BY <1>1, <3>3, <3>4
    <3>6. f[n - 1] = s[n - 1]
      BY <3>2, <3>5
    <3> QED
      BY <2>1, <2>2, <3>3, <3>4, <3>6
  <2>4. \A n \in 0 .. N : f[n] = s[n]
    BY <2>3
  <2> QED
    BY <2>1, <2>4 DEF s
<1>5. PaidUpTo(transfers, wallet) = CHOOSE f : Fits(f)
  BY DEF PaidUpTo, N, amount
<1> HIDE DEF s, Fits
<1>6. PaidUpTo(transfers, wallet) = s
  BY <1>3, <1>4, <1>5
<1> QED
  BY <1>6 DEF s, sum, N

(* What the verifier adds up is what the transfers to the wallet sum up    *)
(* to (verifyDevnetPayment, its filter and reduce).                        *)
LEMMA ObservedAmountIsSum ==
  ASSUME NEW content, content.transfers \in Seq(Transfer), NEW wallet
  PROVE  ObservedAmount(content, wallet) =
           MapThenSumSet(LAMBDA i : content.transfers[i].lamports,
                         MatchingTransfers(content, wallet))
<1> DEFINE transfers == content.transfers
           M == Matching(transfers, wallet)
           g == Amounts(transfers, wallet)
           Body(f) == [T \in SUBSET M |->
                         IF T = {} THEN 0 ELSE g[AnyOf(T)] + f[T \ {AnyOf(T)}]]
           Library(f) == [T \in SUBSET M |->
                            IF T = {} THEN 0
                            ELSE transfers[AnyOf(T)].lamports + f[T \ {AnyOf(T)}]]
<1>1. Len(transfers) \in Nat /\ DOMAIN transfers = 1 .. Len(transfers)
  OBVIOUS
<1>2. \A f : (f = Body(f)) <=> (f = Library(f))
  <2>1. \A T \in SUBSET M : T # {} => AnyOf(T) \in M
    BY DEF AnyOf
  <2>2. \A i \in M : g[i] = transfers[i].lamports
    BY DEF Amounts
  <2> HIDE DEF M, g
  <2> QED
    BY <2>1, <2>2
<1>3. (CHOOSE f : f = Body(f)) = (CHOOSE f : f = Library(f))
  <2> HIDE DEF Body, Library
  <2> QED
    BY <1>2, ZenonT(20)
<1>4. PaidSum(transfers, wallet) = CHOOSE f : f = Body(f)
  BY DEF PaidSum, SubsetSums
<1>5. MatchingTransfers(content, wallet) = M
  BY DEF MatchingTransfers, Matching
<1>6. MapThenSumSet(LAMBDA i : content.transfers[i].lamports, M)
        = (CHOOSE f : f = Library(f))[M]
  <2> HIDE DEF M
  <2> QED
    BY DEF MapThenSumSet, MapThenFoldSet, AnyOf
<1>7. ObservedAmount(content, wallet) = PaidUpTo(transfers, wallet)[Len(transfers)]
  BY DEF ObservedAmount, PaidUpTo
<1>8. PaidUpTo(transfers, wallet)[Len(transfers)] = PaidSum(transfers, wallet)[M]
  <2>1. MatchingUpTo(transfers, wallet, Len(transfers)) = M
    BY <1>1 DEF MatchingUpTo, Matching
  <2>2. Len(transfers) \in 0 .. Len(transfers)
    BY <1>1
  <2> HIDE DEF M, transfers
  <2>3. PaidUpTo(transfers, wallet) =
          [n \in 0 .. Len(transfers) |->
             PaidSum(transfers, wallet)[MatchingUpTo(transfers, wallet, n)]]
    BY PaidUpToIsSum DEF transfers
  <2> QED
    BY <2>1, <2>2, <2>3
<1> HIDE DEF M, g, transfers, Body, Library
<1> QED
  BY <1>3, <1>4, <1>5, <1>6, <1>7, <1>8
-----------------------------------------------------------------------------
(***************************************************************************)
(* The verdict.  What is confirmed stays as it is, so what a verification  *)
(* has read of it is still so when it answers, and from then on.           *)
(***************************************************************************)
Commitment == {"confirmed", "finalized"}

Transaction ==
  [stage : {"processed", "confirmed", "finalized", "dropped"}, err : BOOLEAN, content : Content]

Final(s) == chain[s].stage \in Commitment

(* That a content pays a request. *)
Covers(content, wallet, amount) ==
  /\ MatchingTransfers(content, wallet) # {}
  /\ ObservedAmount(content, wallet) = amount
  /\ content.mentions

Refuted(s) == chain[s].err \/ ~Covers(chain[s].content, shown.wallet, shown.amount)

ChainType ==
  /\ commitment \in Commitment
  /\ chain \in [Signature -> {Absent} \cup Transaction]
  /\ ledger \in Seq(Signature)

(* What the customer was shown is what the intent says. *)
IntentShown ==
  \/ intent = NoIntent /\ check = NotChecking /\ answer = NoAnswer
  \/ /\ intent.scheme \in {"mock", "ctc:v1"}
     /\ intent.scheme = "mock" => intent.amount = OrderAmount
     /\ shown = [wallet |-> intent.wallet, amount |-> intent.amount]

(* A verification under way: the candidates found are final, the ones it   *)
(* has gone through are refuted unless one is still pending, and what it   *)
(* reads the content of has met the commitment.                            *)
Examined(n) == n \in 1 .. Len(check.found) - Len(check.left)

Reading ==
  /\ check = [pc |-> check.pc, left |-> check.left, found |-> check.found,
              pending |-> check.pending, rejected |-> check.rejected]
  /\ check.left \in Seq(Signature) /\ check.left # <<>>
  /\ check.found \in Seq(Signature)
  /\ check.found # <<>> =>
       /\ Len(check.left) <= Len(check.found)
       /\ \A n \in DOMAIN check.left :
            check.left[n] = check.found[Len(check.found) - Len(check.left) + n]
       /\ \A n \in DOMAIN check.found : Final(check.found[n])
       /\ \/ check.pending = NoResult /\ \A n \in DOMAIN check.found :
               Examined(n) => Refuted(check.found[n])
          \/ check.pending.status \in {"PENDING", "FAILED"}
  /\ check.rejected = NoResult \/ check.rejected.status = "REJECTED"

CheckOK ==
  \/ check = NotChecking
  \/ /\ check.pc = "list"
     /\ intent.scheme = "ctc:v1"
  \/ /\ check.pc \in {"status", "transaction"}
     /\ intent.scheme = "ctc:v1"
     /\ Reading
     /\ check.pc = "transaction" =>
          /\ ~chain[Head(check.left)].err
          /\ IsCommitmentSatisfied(chain[Head(check.left)].stage, commitment)

(* The verdict as VerdictJustified has it, about final transactions. *)
Confirms(s) ==
  /\ Final(s) /\ IsCommitmentSatisfied(chain[s].stage, commitment)
  /\ ~Refuted(s)

AnswerOK ==
  \/ answer.status \notin {"CONFIRMED", "REJECTED"}
  \/ /\ answer.provider = "mock"
     /\ answer.status = "CONFIRMED" =>
          /\ intent.scheme = "mock"
          /\ answer.claim.amount = intent.amount
          /\ answer.claim.wallet = intent.wallet
  \/ /\ answer.provider # "mock" /\ answer.status = "CONFIRMED"
     /\ answer.sig \in Signature /\ Confirms(answer.sig)
  \/ /\ answer.provider # "mock" /\ answer.status = "REJECTED"
     /\ IF answer.found = <<>>
        THEN \/ answer.code = "PAYMENT_TRANSACTION_FAILED"
             \/ answer.sig \in Signature /\ Final(answer.sig) /\ Refuted(answer.sig)
                  /\ ~chain[answer.sig].err
        ELSE /\ answer.found \in Seq(Signature)
             /\ \A n \in DOMAIN answer.found :
                  Final(answer.found[n]) /\ Refuted(answer.found[n])

ProviderInv == ChainType /\ IntentShown /\ CheckOK /\ AnswerOK

(* Pays, by which the property speaks of a transaction, is what the        *)
(* verifier asks of its content.                                           *)
LEMMA PaysIsCovers ==
  ASSUME NEW s, chain[s].content \in Content
  PROVE  Pays(s) <=> Covers(chain[s].content, shown.wallet, shown.amount)
<1> DEFINE content == chain[s].content
           matching == {i \in DOMAIN content.transfers :
                          content.transfers[i].to = shown.wallet}
<1>1. content.transfers \in Seq(Transfer)
  BY ProviderAssumption
<1>2. matching = MatchingTransfers(content, shown.wallet)
  BY DEF MatchingTransfers
<1>3. Pays(s) <=> /\ matching # {}
                  /\ MapThenSumSet(LAMBDA i : content.transfers[i].lamports, matching)
                       = shown.amount
                  /\ content.mentions
  BY DEF Pays
<1> HIDE DEF matching, content
<1>4. MapThenSumSet(LAMBDA i : content.transfers[i].lamports,
                    MatchingTransfers(content, shown.wallet))
        = ObservedAmount(content, shown.wallet)
  BY <1>1, ObservedAmountIsSum
<1>5. Pays(s) <=> Covers(content, shown.wallet, shown.amount)
  BY <1>2, <1>3, <1>4 DEF Covers
<1> QED
  BY <1>5 DEF content

(* The verdict on a content is whether it covers the intent. *)
LEMMA ContentVerdictCovers ==
  ASSUME NEW s, NEW content
  PROVE  LET result == ContentVerdict(s, content)
         IN  /\ result.sig = s
             /\ result.status \in {"CONFIRMED", "REJECTED"}
             /\ result.status = "CONFIRMED" <=> Covers(content, intent.wallet, intent.amount)
  BY DEF ContentVerdict, Covers, Result

(* The listing gives transactions that have met the commitment. *)
LEMMA CandidatesAreFinal ==
  ASSUME ChainType
  PROVE  Candidates \in Seq(Signature) /\ \A n \in DOMAIN Candidates : Final(Candidates[n])
<1> DEFINE R == {p \in Known \X Known : p[1] > p[2]}
           sizes == {CandidateLimit, Cardinality(Known)}
           m == Min(sizes)
           at(k) == CHOOSE i \in Known : 1 + Cardinality({j \in Known : j > i}) = k
<1>1. /\ Len(ledger) \in Nat /\ DOMAIN ledger = 1 .. Len(ledger)
      /\ \A i \in 1 .. Len(ledger) : ledger[i] \in Signature
  BY DEF ChainType
<1>2. Known \in SUBSET (1 .. Len(ledger)) /\ IsFiniteSet(Known)
  <2>1. Known \in SUBSET (1 .. Len(ledger)) /\ IsFiniteSet(1 .. Len(ledger))
    BY <1>1, FS_Interval DEF Known
  <2> QED
    BY <2>1, FS_Subset
<1>3. StrictOrder(R, Known)
  <2>1. \A x, y \in Known : <<x, y>> \in R <=> x > y
    OBVIOUS
  <2>2. \A x \in Known : x \in Nat
    BY <1>2
  <2> HIDE DEF R
  <2> QED
    BY <2>1, <2>2 DEF StrictOrder
<1>4. \A i \in Known : Place(i, R, Known) = 1 + Cardinality({j \in Known : j > i})
  <2>1. \A i \in Known : {j \in Known : <<j, i>> \in R} = {j \in Known : j > i}
    OBVIOUS
  <2> QED
    BY <2>1 DEF Place
<1> HIDE DEF R
<1>5. \A k \in 1 .. Cardinality(Known) : at(k) \in Known
  <2>1. \A k \in 1 .. Cardinality(Known) : \E i \in Known : Place(i, R, Known) = k
    BY <1>2, <1>3, EveryPlaceTaken
  <2> QED
    BY <1>4, <2>1
<1>6. Cardinality(Known) \in Nat /\ CandidateLimit \in Nat
  BY <1>2, FS_CardinalityType, ProviderAssumption
<1>7. m \in Nat /\ m <= Cardinality(Known)
  <2>1. sizes = {CandidateLimit, Cardinality(Known)}
    OBVIOUS
  <2> HIDE DEF sizes
  <2>2. \E x \in sizes : \A y \in sizes : x <= y
    BY <1>6, <2>1
  <2>3. Min(sizes) \in sizes /\ \A y \in sizes : Min(sizes) <= y
    BY <2>2, MinIsLeast
  <2> QED
    BY <1>6, <2>1, <2>3
<1>8. Candidates = [k \in 1 .. m |-> ledger[at(k)]]
  BY DEF Candidates
<1> HIDE DEF at, m
<1>9. ASSUME NEW k \in 1 .. m
      PROVE  Candidates[k] \in Signature /\ Final(Candidates[k])
  <2>1. at(k) \in Known
    BY <1>5, <1>6, <1>7
  <2>2. Candidates[k] = ledger[at(k)]
    BY <1>8
  <2>3. IsCommitmentSatisfied(chain[ledger[at(k)]].stage, commitment)
    BY <2>1 DEF Known
  <2>4. ledger[at(k)] \in Signature
    BY <1>1, <1>2, <2>1
  <2> QED
    BY <2>2, <2>3, <2>4 DEF Final, Commitment, IsCommitmentSatisfied
<1>10. Candidates \in [1 .. m -> Signature] /\ DOMAIN Candidates = 1 .. m
  BY <1>8, <1>9
<1> QED
  BY <1>7, <1>9, <1>10

(* What is final keeps its content and its outcome, and what has met the   *)
(* commitment goes on meeting it.                                          *)
Kept(s) ==
  /\ Final(s)' /\ chain'[s].err = chain[s].err /\ chain'[s].content = chain[s].content
  /\ IsCommitmentSatisfied(chain[s].stage, commitment) =>
       IsCommitmentSatisfied(chain'[s].stage, commitment)

(* The chain drops only what it has merely processed. *)
LEMMA FinalIsKept ==
  ASSUME ChainType, ChainMoves
  PROVE  ChainType' /\ \A s \in Signature : Final(s) => Kept(s)
<1>1. PICK s \in Signature :
        \/ \E c \in Content, err \in BOOLEAN : Land(s, c, err)
        \/ Drop(s)
        \/ Advance(s)
  BY DEF ChainMoves
<1>2. commitment' = commitment
  BY DEF ChainMoves
<1>3. CASE \E c \in Content, err \in BOOLEAN : Land(s, c, err)
  <2>1. PICK c \in Content, err \in BOOLEAN : Land(s, c, err)
    BY <1>3
  <2> DEFINE tx == [stage |-> "processed", err |-> err, content |-> c]
  <2>2. tx \in Transaction
    BY DEF Transaction
  <2>3. chain' = [chain EXCEPT ![s] = tx] /\ ledger' = Append(ledger, s)
    BY <2>1 DEF Land
  <2> HIDE DEF tx
  <2>4. ChainType'
    BY <1>2, <2>2, <2>3 DEF ChainType
  <2>5. ~Final(s)
    BY <2>1 DEF Land, Final, Absent, Commitment
  <2>6. \A x \in Signature : x # s => chain'[x] = chain[x]
    BY <2>3 DEF ChainType
  <2> QED
    BY <1>2, <2>4, <2>5, <2>6 DEF Kept, Final
<1>4. CASE Drop(s)
  <2>1. chain[s].stage = "processed" /\ chain' = [chain EXCEPT ![s].stage = "dropped"]
    BY <1>4 DEF Drop
  <2>2. PICK i \in DOMAIN ledger : ledger' = RemoveAt(ledger, i)
    BY <1>4 DEF Drop
  <2>3. chain[s] \in Transaction
    BY <2>1 DEF ChainType, Absent
  <2>4. [chain[s] EXCEPT !.stage = "dropped"] \in Transaction
    BY <2>3 DEF Transaction
  <2>5. ledger' \in Seq(Signature)
    <3>1. ledger \in Seq(Signature) /\ i \in 1 .. Len(ledger) /\ Len(ledger) \in Nat
      BY DEF ChainType
    <3>2. /\ SubSeq(ledger, 1, i - 1) \in Seq(Signature)
          /\ SubSeq(ledger, i + 1, Len(ledger)) \in Seq(Signature)
      BY <3>1, SubSeqProperties
    <3>3. SubSeq(ledger, 1, i - 1) \o SubSeq(ledger, i + 1, Len(ledger)) \in Seq(Signature)
      BY <3>2
    <3> QED
      BY <2>2, <3>3 DEF RemoveAt
  <2>6. ChainType'
    BY <1>2, <2>1, <2>4, <2>5 DEF ChainType
  <2>7. ~Final(s)
    BY <2>1 DEF Final, Commitment
  <2>8. \A x \in Signature : x # s => chain'[x] = chain[x]
    BY <2>1 DEF ChainType
  <2> QED
    BY <1>2, <2>6, <2>7, <2>8 DEF Kept, Final
<1>5. CASE Advance(s)
  <2> DEFINE next == IF chain[s].stage = "processed" THEN "confirmed" ELSE "finalized"
  <2>1. /\ chain[s].stage \in {"processed", "confirmed"} /\ ledger' = ledger
        /\ chain' = [chain EXCEPT ![s].stage = next]
    BY <1>5 DEF Advance
  <2>2. chain[s] \in Transaction
    BY <2>1 DEF ChainType, Absent
  <2>3. next \in Commitment /\ [chain[s] EXCEPT !.stage = next] \in Transaction
    BY <2>2 DEF Transaction, Commitment
  <2>4. /\ chain'[s] = [chain[s] EXCEPT !.stage = next]
        /\ \A x \in Signature : x # s => chain'[x] = chain[x]
    BY <2>1 DEF ChainType
  <2>5. chain'[s].stage = next /\ chain'[s].err = chain[s].err
        /\ chain'[s].content = chain[s].content
    BY <2>2, <2>4 DEF Transaction
  <2>6. Final(s) => next = "finalized"
    BY DEF Final, Commitment
  <2> HIDE DEF next
  <2>7. ChainType'
    BY <1>2, <2>1, <2>3 DEF ChainType
  <2>8. Final(s) => Kept(s)
    BY <1>2, <2>3, <2>5, <2>6, <2>7 DEF Kept, Final, ChainType, Commitment, IsCommitmentSatisfied
  <2> QED
    BY <1>2, <2>4, <2>7, <2>8 DEF Kept, Final
<1> QED
  BY <1>1, <1>3, <1>4, <1>5

(* So a verification keeps what it knows while the chain moves. *)
LEMMA KnowledgeIsKept ==
  ASSUME ProviderInv, \A s \in Signature : Final(s) => Kept(s),
         UNCHANGED <<commitment, intent, shown, check, answer>>
  PROVE  (IntentShown /\ CheckOK /\ AnswerOK)'
<1>1. IntentShown'
  BY DEF ProviderInv, IntentShown
<1>2. ASSUME NEW s \in Signature, Final(s)
      PROVE  /\ Final(s)' /\ (Refuted(s) <=> Refuted(s)')
             /\ Confirms(s) => Confirms(s)'
             /\ chain'[s].err = chain[s].err
             /\ IsCommitmentSatisfied(chain[s].stage, commitment) =>
                  IsCommitmentSatisfied(chain'[s].stage, commitment)
  <2>1. Kept(s)
    BY <1>2
  <2>2. /\ Final(s)' /\ chain'[s].err = chain[s].err /\ chain'[s].content = chain[s].content
        /\ IsCommitmentSatisfied(chain[s].stage, commitment) =>
             IsCommitmentSatisfied(chain'[s].stage, commitment)
    BY <2>1 DEF Kept
  <2>3. Refuted(s) <=> Refuted(s)'
    BY <2>2 DEF Refuted
  <2> QED
    BY <2>2, <2>3 DEF Confirms
<1>3. CheckOK'
  <2>1. CASE check = NotChecking
    BY <2>1 DEF CheckOK
  <2>2. CASE check.pc = "list" /\ intent.scheme = "ctc:v1"
    BY <2>2 DEF CheckOK
  <2>3. CASE /\ check.pc \in {"status", "transaction"} /\ intent.scheme = "ctc:v1" /\ Reading
             /\ check.pc = "transaction" =>
                  /\ ~chain[Head(check.left)].err
                  /\ IsCommitmentSatisfied(chain[Head(check.left)].stage, commitment)
    <3>1. Reading'
      <4>1. \A n \in DOMAIN check.found : check.found[n] \in Signature
        BY <2>3 DEF Reading
      <4>2. check.found # <<>> => \A n \in DOMAIN check.found :
               Final(check.found[n])' /\ (Refuted(check.found[n]) <=> Refuted(check.found[n])')
        BY <1>2, <2>3, <4>1 DEF Reading
      <4> QED
        BY <2>3, <4>2 DEF Reading, Examined
    <3>2. ASSUME check.pc = "transaction"
          PROVE  /\ ~chain'[Head(check.left)].err
                 /\ IsCommitmentSatisfied(chain'[Head(check.left)].stage, commitment)
      <4>1. Head(check.left) \in Signature
        BY <2>3 DEF Reading
      <4>2. Final(Head(check.left))
        BY <2>3, <3>2 DEF IsCommitmentSatisfied, Final, Commitment
      <4> QED
        BY <1>2, <2>3, <3>2, <4>1, <4>2
    <3> QED
      BY <2>3, <3>1, <3>2 DEF CheckOK
  <2> QED
    BY <2>1, <2>2, <2>3 DEF ProviderInv, CheckOK
<1>4. AnswerOK'
  <2>1. CASE answer.status \notin {"CONFIRMED", "REJECTED"}
    BY <2>1 DEF AnswerOK
  <2>2. CASE answer.provider = "mock"
    BY <2>2 DEF ProviderInv, AnswerOK
  <2>3. CASE answer.provider # "mock" /\ answer.status = "CONFIRMED"
    <3>1. answer.sig \in Signature /\ Confirms(answer.sig)
      BY <2>3 DEF ProviderInv, AnswerOK
    <3>2. Confirms(answer.sig)'
      BY <1>2, <3>1 DEF Confirms
    <3> QED
      BY <2>3, <3>1, <3>2 DEF AnswerOK
  <2>4. CASE answer.provider # "mock" /\ answer.status = "REJECTED" /\ answer.found = <<>>
    <3>1. \/ answer.code = "PAYMENT_TRANSACTION_FAILED"
          \/ answer.sig \in Signature /\ Final(answer.sig) /\ Refuted(answer.sig)
               /\ ~chain[answer.sig].err
      BY <2>4 DEF ProviderInv, AnswerOK
    <3> QED
      BY <1>2, <2>4, <3>1 DEF AnswerOK
  <2>5. CASE answer.provider # "mock" /\ answer.status = "REJECTED" /\ answer.found # <<>>
    <3>1. /\ answer.found \in Seq(Signature)
          /\ \A n \in DOMAIN answer.found : Final(answer.found[n]) /\ Refuted(answer.found[n])
      BY <2>5 DEF ProviderInv, AnswerOK
    <3>2. \A n \in DOMAIN answer.found :
            Final(answer.found[n])' /\ Refuted(answer.found[n])'
      BY <1>2, <3>1
    <3> QED
      BY <2>5, <3>1, <3>2 DEF AnswerOK
  <2> QED
    BY <2>1, <2>2, <2>3, <2>4, <2>5
<1> QED
  BY <1>1, <1>3, <1>4

(* A result about the candidate at hand that says no more than was read. *)
Sound(result, s) ==
  /\ result.status \in {"CONFIRMED", "REJECTED", "PENDING", "FAILED"}
  /\ result.sig = s
  /\ result.status = "CONFIRMED" => Confirms(s)
  /\ result.status = "REJECTED" =>
       /\ Refuted(s)
       /\ result.code = "PAYMENT_TRANSACTION_FAILED" \/ (Final(s) /\ ~chain[s].err)

(* An answer is built on the state it is given in, which it leaves alone.  *)
LEMMA AnswerFromCheck ==
  ASSUME NEW result, Answered(result),
         UNCHANGED <<commitment, intent, shown, chain>>,
         \/ result.status \notin {"CONFIRMED", "REJECTED"}
         \/ result.status = "CONFIRMED" /\ result.sig \in Signature /\ Confirms(result.sig)
         \/ /\ result.status = "REJECTED" /\ check.found = <<>>
            /\ \/ result.code = "PAYMENT_TRANSACTION_FAILED"
               \/ result.sig \in Signature /\ Final(result.sig) /\ Refuted(result.sig)
                    /\ ~chain[result.sig].err
         \/ /\ result.status = "REJECTED" /\ check.found # <<>>
            /\ check.found \in Seq(Signature)
            /\ \A n \in DOMAIN check.found : Final(check.found[n]) /\ Refuted(check.found[n])
  PROVE  (CheckOK /\ AnswerOK)'
<1>1. \A s : (Final(s)' <=> Final(s)) /\ (Refuted(s)' <=> Refuted(s))
  BY DEF Final, Refuted
<1>2. \A s : Confirms(s)' <=> Confirms(s)
  BY <1>1 DEF Confirms
<1>3. /\ answer'.provider = "solana_devnet" /\ answer'.found = check.found
      /\ answer'.status = result.status /\ answer'.sig = result.sig
      /\ answer'.code = result.code /\ check' = NotChecking
  BY DEF Answered
<1>4. CheckOK'
  BY <1>3 DEF CheckOK
<1>5. AnswerOK'
  BY <1>1, <1>2, <1>3 DEF AnswerOK
<1> QED
  BY <1>4, <1>5

(* Going on to the next candidate, or answering after the last one. *)
LEMMA SettleIsSound ==
  ASSUME ProviderInv, check.pc \in {"status", "transaction"},
         NEW result, Sound(result, Head(check.left)), Settle(result),
         UNCHANGED <<commitment, intent, shown, chain>>
  PROVE  (CheckOK /\ AnswerOK)'
<1> DEFINE s == Head(check.left)
           found == check.found
           left == check.left
           pending == IF result.status \in {"PENDING", "FAILED"} /\ check.pending = NoResult
                      THEN result ELSE check.pending
           rejected == IF result.status = "REJECTED" /\ check.rejected = NoResult
                       THEN result ELSE check.rejected
<1>1. Reading /\ intent.scheme = "ctc:v1"
  BY DEF ProviderInv, CheckOK, NotChecking
<1>2. /\ left \in Seq(Signature) /\ left # <<>> /\ Len(left) \in Nat /\ Len(left) # 0
      /\ s \in Signature /\ s = left[1] /\ found \in Seq(Signature) /\ Len(found) \in Nat
      /\ 1 \in DOMAIN left
  BY <1>1 DEF Reading
<1>3. \/ (found = <<>> \/ result.status = "CONFIRMED") /\ Answered(result)
      \/ /\ found # <<>> /\ result.status # "CONFIRMED" /\ Len(left) = 1
         /\ Answered(Chosen(pending, rejected))
      \/ /\ found # <<>> /\ result.status # "CONFIRMED" /\ Len(left) # 1
         /\ check' = [check EXCEPT !.pc = "status", !.left = Tail(@),
                                   !.pending = pending, !.rejected = rejected]
         /\ UNCHANGED answer
  BY DEF Settle
<1>4. CASE (found = <<>> \/ result.status = "CONFIRMED") /\ Answered(result)
  <2>1. /\ result.status \in {"CONFIRMED", "REJECTED", "PENDING", "FAILED"} /\ result.sig = s
        /\ result.status = "CONFIRMED" => Confirms(s)
        /\ result.status = "REJECTED" =>
             /\ Refuted(s)
             /\ result.code = "PAYMENT_TRANSACTION_FAILED" \/ (Final(s) /\ ~chain[s].err)
    BY DEF Sound
  <2> HIDE DEF s
  <2> QED
    BY <1>2, <1>4, <2>1, AnswerFromCheck
<1>5. ASSUME found # <<>>, result.status # "CONFIRMED"
      PROVE  /\ Len(left) <= Len(found)
             /\ s = found[Len(found) - Len(left) + 1]
             /\ \A n \in DOMAIN found : Final(found[n])
             /\ \/ pending.status \in {"PENDING", "FAILED"}
                \/ /\ pending = NoResult
                   /\ result.status = "REJECTED" /\ Refuted(s)
                   /\ \A n \in 1 .. Len(found) - Len(left) + 1 :
                        n \in DOMAIN found => Refuted(found[n])
             /\ rejected = NoResult \/ rejected.status = "REJECTED"
  <2>1. /\ Len(left) <= Len(found)
        /\ \A n \in DOMAIN left : left[n] = found[Len(found) - Len(left) + n]
        /\ \A n \in DOMAIN found : Final(found[n])
        /\ \/ check.pending = NoResult /\ \A n \in DOMAIN found : Examined(n) => Refuted(found[n])
           \/ check.pending.status \in {"PENDING", "FAILED"}
        /\ check.rejected = NoResult \/ check.rejected.status = "REJECTED"
    BY <1>1, <1>5 DEF Reading
  <2>2. s = found[Len(found) - Len(left) + 1]
    BY <1>2, <2>1
  <2>3. result.status \in {"REJECTED", "PENDING", "FAILED"}
        /\ (result.status = "REJECTED" => Refuted(s))
    BY <1>5 DEF Sound
  <2>4. rejected = NoResult \/ rejected.status = "REJECTED"
    BY <2>1
  <2>5. CASE check.pending = NoResult /\ result.status = "REJECTED"
    <3>1. pending = NoResult
      BY <2>5
    <3>2. ASSUME NEW n \in 1 .. Len(found) - Len(left) + 1, n \in DOMAIN found
          PROVE  Refuted(found[n])
      <4>1. CASE n = Len(found) - Len(left) + 1
        BY <2>2, <2>3, <2>5, <4>1
      <4>2. CASE n # Len(found) - Len(left) + 1
        <5>1. n \in 1 .. Len(found) - Len(left)
          BY <1>2, <4>2
        <5>2. check.pending.status \notin {"PENDING", "FAILED"}
          BY <2>5 DEF NoResult
        <5> QED
          BY <2>1, <3>2, <5>1, <5>2 DEF Examined
      <4> QED
        BY <4>1, <4>2
    <3> QED
      BY <2>1, <2>2, <2>3, <2>4, <2>5, <3>1, <3>2
  <2>6. CASE check.pending # NoResult
    BY <2>1, <2>2, <2>4, <2>6
  <2>7. CASE check.pending = NoResult /\ result.status # "REJECTED"
    BY <2>1, <2>2, <2>3, <2>4, <2>7
  <2> QED
    BY <2>5, <2>6, <2>7
<1>6. CASE /\ found # <<>> /\ result.status # "CONFIRMED" /\ Len(left) = 1
           /\ Answered(Chosen(pending, rejected))
  <2>1. CASE pending.status \in {"PENDING", "FAILED"}
    <3>1. Chosen(pending, rejected) = pending
      BY <2>1 DEF Chosen, NoResult
    <3> HIDE DEF pending, rejected
    <3> QED
      BY <1>6, <2>1, <3>1, AnswerFromCheck
  <2>2. CASE /\ pending = NoResult
             /\ \A n \in 1 .. Len(found) - Len(left) + 1 :
                  n \in DOMAIN found => Refuted(found[n])
    <3>1. Chosen(pending, rejected) = rejected
      BY <2>2 DEF Chosen
    <3>2. \A n \in DOMAIN found : Final(found[n]) /\ Refuted(found[n])
      BY <1>2, <1>5, <1>6, <2>2
    <3>3. rejected.status \in {"REJECTED", "NONE"}
      BY <1>5, <1>6 DEF NoResult
    <3> HIDE DEF pending, rejected
    <3> QED
      BY <1>2, <1>6, <3>1, <3>2, <3>3, AnswerFromCheck
  <2> QED
    BY <1>5, <1>6, <2>1, <2>2
<1>7. CASE /\ found # <<>> /\ result.status # "CONFIRMED" /\ Len(left) # 1
           /\ check' = [check EXCEPT !.pc = "status", !.left = Tail(@),
                                     !.pending = pending, !.rejected = rejected]
           /\ UNCHANGED answer
  <2>1. /\ check = [pc |-> check.pc, left |-> left, found |-> found,
                    pending |-> check.pending, rejected |-> check.rejected]
    BY <1>1 DEF Reading
  <2>a. found # <<>> /\ result.status # "CONFIRMED" /\ Len(left) # 1
    BY <1>7
  <2> HIDE DEF pending, rejected
  <2>2. check' = [pc |-> "status", left |-> Tail(left), found |-> found,
                  pending |-> pending, rejected |-> rejected]
    BY <1>7, <2>1
  <2> DEFINE rest == Tail(left)
             L == Len(left)
             F == Len(found)
  <2>3. /\ rest \in Seq(Signature) /\ Len(rest) = L - 1
        /\ \A n \in 1 .. L - 1 : rest[n] = left[n + 1]
    BY <1>2, HeadTailProperties
  <2>4. /\ L \in Nat /\ F \in Nat /\ L # 0 /\ L # 1 /\ DOMAIN left = 1 .. L
        /\ \A n \in DOMAIN left : left[n] = found[F - L + n]
        /\ L <= F /\ DOMAIN found = 1 .. F
    BY <1>1, <1>2, <2>a DEF Reading
  <2> HIDE DEF rest, L, F
  <2>5. DOMAIN rest = 1 .. L - 1 /\ rest # <<>> /\ Len(rest) <= F
    <3>1. DOMAIN rest = 1 .. Len(rest)
      BY <2>3
    <3>2. 1 \in DOMAIN rest
      BY <2>3, <2>4, <3>1
    <3> QED
      BY <2>3, <2>4, <3>1, <3>2
  <2>6. ASSUME NEW n \in DOMAIN rest
        PROVE  rest[n] = found[F - Len(rest) + n]
    <3>1. n \in 1 .. L - 1 /\ n + 1 \in DOMAIN left
      BY <2>4, <2>5
    <3>2. rest[n] = found[F - L + (n + 1)]
      BY <2>3, <2>4, <3>1
    <3>3. F - L + (n + 1) = F - Len(rest) + n
      BY <2>3, <2>4, <3>1
    <3> QED
      BY <3>2, <3>3
  <2>7. \A c : (Final(c)' <=> Final(c)) /\ (Refuted(c)' <=> Refuted(c))
    BY DEF Final, Refuted
  <2>8. \A n \in DOMAIN found : Examined(n)' => n \in 1 .. F - L + 1
    <3>1. \A n : Examined(n)' <=> n \in 1 .. F - Len(rest)
      BY <2>2 DEF Examined, F, rest
    <3>2. F - Len(rest) = F - L + 1
      BY <2>3, <2>4
    <3> QED
      BY <3>1, <3>2
  <2>b. Reading'
    <3>1. check'.left = rest /\ check'.found = found /\ check'.pending = pending
          /\ check'.rejected = rejected
          /\ check' = [pc |-> check'.pc, left |-> check'.left, found |-> check'.found,
                       pending |-> check'.pending, rejected |-> check'.rejected]
      BY <2>2 DEF rest
    <3>2. /\ \A n \in DOMAIN found : Final(found[n])
          /\ \/ pending.status \in {"PENDING", "FAILED"}
             \/ /\ pending = NoResult
                /\ \A n \in 1 .. F - L + 1 : n \in DOMAIN found => Refuted(found[n])
          /\ rejected = NoResult \/ rejected.status = "REJECTED"
      BY <1>5, <2>a DEF F, L, pending, rejected
    <3>3. \A n \in DOMAIN found : Final(found[n])'
      BY <2>7, <3>1, <3>2
    <3>4. \/ pending = NoResult /\ \A n \in DOMAIN found : Examined(n)' => Refuted(found[n])'
          \/ pending.status \in {"PENDING", "FAILED"}
      BY <2>7, <2>8, <3>1, <3>2
    <3> QED
      BY <1>2, <2>3, <2>5, <2>6, <3>1, <3>2, <3>3, <3>4 DEF Reading, F
  <2>9. CheckOK'
    BY <1>1, <2>2, <2>b DEF CheckOK
  <2>10. AnswerOK'
    <3>1. \A c : Confirms(c)' <=> Confirms(c)
      BY <2>7 DEF Confirms
    <3> QED
      BY <1>7, <2>7, <3>1 DEF ProviderInv, AnswerOK
  <2> QED
    BY <2>9, <2>10
<1> QED
  BY <1>3, <1>4, <1>6, <1>7

(* What a status or a transaction says of the candidate at hand. *)
LEMMA ReadingIsSound ==
  ASSUME ProviderInv, ReadStatus \/ ReadTransaction
  PROVE  (CheckOK /\ AnswerOK)'
<1> DEFINE s == Head(check.left)
<1>1. UNCHANGED <<commitment, intent, shown, chain>>
  BY DEF ReadStatus, ReadTransaction
<1>2. /\ check.pc \in {"status", "transaction"} /\ intent.scheme = "ctc:v1" /\ Reading
      /\ check.pc = "transaction" =>
           ~chain[s].err /\ IsCommitmentSatisfied(chain[s].stage, commitment)
  BY DEF ProviderInv, CheckOK, NotChecking, ReadStatus, ReadTransaction
<1>3. ASSUME NEW code, NEW status \in {"FAILED", "PENDING"}
      PROVE  Sound(Result(status, s, code), s)
  BY DEF Sound, Result
<1>4. ASSUME chain[s].err
      PROVE  Sound(Result("REJECTED", s, "PAYMENT_TRANSACTION_FAILED"), s)
  <2>1. Refuted(s)
    BY <1>4 DEF Refuted
  <2> DEFINE verdict == Result("REJECTED", s, "PAYMENT_TRANSACTION_FAILED")
  <2>2. /\ verdict.status = "REJECTED" /\ verdict.sig = s
        /\ verdict.code = "PAYMENT_TRANSACTION_FAILED"
    BY DEF Result
  <2> HIDE DEF verdict
  <2>3. /\ verdict.status \in {"CONFIRMED", "REJECTED", "PENDING", "FAILED"}
        /\ verdict.status # "CONFIRMED"
    BY <2>2
  <2>4. Sound(verdict, s)
    BY <2>1, <2>2, <2>3, Zenon DEF Sound
  <2> QED
    BY <2>4 DEF verdict
<1>5. CASE ReadStatus
  <2>1. \/ \E code \in RpcError : Settle(Result("FAILED", s, code))
        \/ Settle(Result("PENDING", s, "PAYMENT_TRANSACTION_NOT_FOUND"))
        \/ chain[s].err /\ Settle(Result("REJECTED", s, "PAYMENT_TRANSACTION_FAILED"))
        \/ Settle(Result("PENDING", s, "PAYMENT_TRANSACTION_UNCONFIRMED"))
        \/ /\ OnChain(s) /\ ~chain[s].err
           /\ IsCommitmentSatisfied(chain[s].stage, commitment)
           /\ check' = [check EXCEPT !.pc = "transaction"] /\ UNCHANGED answer
    BY <1>5 DEF ReadStatus
  <2>2. ASSUME NEW result, Sound(result, s), Settle(result)
        PROVE  (CheckOK /\ AnswerOK)'
    BY <1>1, <1>2, <2>2, SettleIsSound
  <2>3. CASE /\ ~chain[s].err /\ IsCommitmentSatisfied(chain[s].stage, commitment)
             /\ check' = [check EXCEPT !.pc = "transaction"] /\ UNCHANGED answer
    <3>1. check' = [pc |-> "transaction", left |-> check.left, found |-> check.found,
                    pending |-> check.pending, rejected |-> check.rejected]
      BY <1>2, <2>3 DEF Reading
    <3>2. \A c : (Final(c)' <=> Final(c)) /\ (Refuted(c)' <=> Refuted(c))
      BY <1>1 DEF Final, Refuted
    <3>3. \A n : Examined(n)' <=> Examined(n)
      BY <3>1 DEF Examined
    <3>4. Reading'
      <4>1. /\ check'.left = check.left /\ check'.found = check.found
            /\ check'.pending = check.pending /\ check'.rejected = check.rejected
            /\ check' = [pc |-> check'.pc, left |-> check'.left, found |-> check'.found,
                         pending |-> check'.pending, rejected |-> check'.rejected]
        BY <3>1
      <4> QED
        BY <1>2, <3>2, <3>3, <4>1 DEF Reading
    <3>5. CheckOK'
      BY <1>1, <1>2, <2>3, <3>1, <3>4 DEF CheckOK
    <3>6. AnswerOK'
      <4>1. \A c : Confirms(c)' <=> Confirms(c)
        BY <1>1, <3>2 DEF Confirms
      <4> QED
        BY <1>1, <2>3, <3>2, <4>1 DEF ProviderInv, AnswerOK
    <3> QED
      BY <3>5, <3>6
  <2> HIDE DEF s
  <2> QED
    BY <1>3, <1>4, <2>1, <2>2, <2>3
<1>6. CASE ReadTransaction
  <2>1. check.pc = "transaction" /\ ~chain[s].err
        /\ IsCommitmentSatisfied(chain[s].stage, commitment)
    BY <1>2, <1>6 DEF ReadTransaction
  <2>2. \/ \E code \in RpcError : Settle(Result("FAILED", s, code))
        \/ Settle(Result("PENDING", s, "PAYMENT_TRANSACTION_NOT_FOUND"))
        \/ Settle(ContentVerdict(s, chain[s].content))
    BY <1>6, <2>1 DEF ReadTransaction
  <2>3. Sound(ContentVerdict(s, chain[s].content), s)
    <3> DEFINE result == ContentVerdict(s, chain[s].content)
    <3>1. shown.wallet = intent.wallet /\ shown.amount = intent.amount
      BY <1>2 DEF ProviderInv, IntentShown, NoIntent
    <3>2. Final(s)
      BY <2>1 DEF Final, Commitment, IsCommitmentSatisfied
    <3>3. /\ result.sig = s /\ result.status \in {"CONFIRMED", "REJECTED"}
          /\ result.status = "CONFIRMED" <=>
               Covers(chain[s].content, intent.wallet, intent.amount)
      BY ContentVerdictCovers
    <3> HIDE DEF result
    <3>4. Sound(result, s)
      BY <2>1, <3>1, <3>2, <3>3 DEF Sound, Refuted, Confirms
    <3> QED
      BY <3>4 DEF result
  <2>4. ASSUME NEW result, Sound(result, s), Settle(result)
        PROVE  (CheckOK /\ AnswerOK)'
    BY <1>1, <1>2, <2>4, SettleIsSound
  <2> HIDE DEF s
  <2> QED
    BY <1>3, <2>2, <2>3, <2>4
<1> QED
  BY <1>5, <1>6

(* The invariant holds at the start. *)
LEMMA ProviderStarts ==
  ASSUME DecisionsInit
  PROVE  ProviderInv
<1>1. ChainType
  BY DEF DecisionsInit, ChainType, Commitment
<1>2. IntentShown /\ CheckOK /\ AnswerOK
  BY DEF DecisionsInit, IntentShown, CheckOK, AnswerOK, NoAnswer
<1> QED
  BY <1>1, <1>2 DEF ProviderInv

(* Every step keeps it. *)
LEMMA ProviderStep ==
  ASSUME ProviderInv, [Next]_<<paymentVars, desk>>
  PROVE  ProviderInv'
<1>1. CASE UNCHANGED paymentVars
  <2>1. UNCHANGED <<commitment, intent, shown, chain, ledger, check, answer>>
    BY <1>1 DEF paymentVars
  <2>2. ChainType'
    BY <2>1 DEF ProviderInv, ChainType
  <2>3. \A s \in Signature : Final(s) => Kept(s)
    BY <2>1 DEF Kept, Final
  <2> QED
    BY <2>1, <2>2, <2>3, KnowledgeIsKept DEF ProviderInv
<1>2. ASSUME UNCHANGED <<commitment, chain, ledger>>
      PROVE  ChainType'
  BY <1>2 DEF ProviderInv, ChainType
<1>3. ASSUME UNCHANGED <<commitment, intent, shown, chain, answer>>
      PROVE  AnswerOK' /\ (check' = NotChecking => IntentShown')
  <2>1. \A c : (Final(c)' <=> Final(c)) /\ (Refuted(c)' <=> Refuted(c))
    BY <1>3 DEF Final, Refuted
  <2>2. \A c : Confirms(c)' <=> Confirms(c)
    BY <1>3, <2>1 DEF Confirms
  <2>3. AnswerOK'
    BY <1>3, <2>1, <2>2 DEF ProviderInv, AnswerOK
  <2> QED
    BY <1>3, <2>3 DEF ProviderInv, IntentShown
<1>4. ASSUME NEW provider, CreateIntent(provider)
      PROVE  ProviderInv'
  <2>1. intent = NoIntent /\ UNCHANGED <<commitment, chain, ledger, check, answer>>
    BY <1>4 DEF CreateIntent
  <2>2. check = NotChecking /\ answer = NoAnswer
    BY <2>1 DEF ProviderInv, IntentShown, NoIntent
  <2>3. IntentShown'
    BY <1>4 DEF CreateIntent, IntentShown, PaymentRequest
  <2>4. CheckOK' /\ AnswerOK'
    BY <2>1, <2>2 DEF CheckOK, AnswerOK, NoAnswer
  <2> QED
    BY <1>2, <2>1, <2>3, <2>4 DEF ProviderInv
<1>5. ASSUME NEW provider, RestoreIntent(provider)
      PROVE  ProviderInv'
  <2>1. intent # NoIntent /\ UNCHANGED <<commitment, intent, chain, ledger, check, answer>>
        /\ MatchesMemo(provider) /\ shown' = PaymentRequest(provider, intent)
    BY <1>5 DEF RestoreIntent
  <2>2. /\ intent.scheme \in {"mock", "ctc:v1"}
        /\ intent.scheme = "mock" => intent.amount = OrderAmount
        /\ shown = [wallet |-> intent.wallet, amount |-> intent.amount]
    BY <2>1 DEF ProviderInv, IntentShown
  <2>3. shown' = shown
    BY <2>1, <2>2 DEF PaymentRequest, MatchesMemo
  <2>4. \A s \in Signature : Final(s) => Kept(s)
    BY <2>1 DEF Kept, Final
  <2> QED
    BY <1>2, <2>1, <2>3, <2>4, KnowledgeIsKept DEF ProviderInv
<1>6. ASSUME Redeploy
      PROVE  ProviderInv'
  <2>1. UNCHANGED <<commitment, intent, shown, chain, ledger, answer>> /\ check' = NotChecking
    BY <1>6 DEF Redeploy
  <2> QED
    BY <1>2, <1>3, <2>1 DEF ProviderInv, CheckOK
<1>7. ASSUME ChainMoves
      PROVE  ProviderInv'
  <2>1. UNCHANGED <<commitment, intent, shown, check, answer>>
    BY <1>7 DEF ChainMoves
  <2> QED
    BY <1>7, <2>1, FinalIsKept, KnowledgeIsKept DEF ProviderInv
<1>8. ASSUME NEW claim, AskMock(claim)
      PROVE  ProviderInv'
  <2>1. /\ UNCHANGED <<commitment, intent, shown, chain, ledger, check>>
        /\ intent # NoIntent /\ intent.scheme = "mock"
        /\ answer' = [provider |-> "mock", claim |-> claim,
                      status |-> MockVerdict(claim).status, code |-> MockVerdict(claim).code]
    BY <1>8 DEF AskMock, Ask, MatchesMemo
  <2>2. /\ intent.amount = OrderAmount
        /\ shown = [wallet |-> intent.wallet, amount |-> intent.amount]
    BY <2>1 DEF ProviderInv, IntentShown
  <2>3. MockVerdict(claim).status = "CONFIRMED" =>
          claim.amount = OrderAmount /\ claim.wallet = intent.wallet
    BY DEF MockVerdict, Result
  <2>4. AnswerOK'
    BY <2>1, <2>2, <2>3 DEF AnswerOK
  <2>5. IntentShown'
    BY <2>1 DEF ProviderInv, IntentShown
  <2>6. CheckOK'
    BY <2>1 DEF ProviderInv, IntentShown, CheckOK, NotChecking
  <2> QED
    BY <1>2, <2>1, <2>4, <2>5, <2>6 DEF ProviderInv
<1>9. ASSUME NEW s \in Signature, AskBySignature(s)
      PROVE  ProviderInv'
  <2>1. /\ UNCHANGED <<commitment, intent, shown, chain, ledger, answer>>
        /\ intent # NoIntent /\ intent.scheme = "ctc:v1"
        /\ check' = [pc |-> "status", left |-> <<s>>, found |-> <<>>,
                     pending |-> NoResult, rejected |-> NoResult]
    BY <1>9 DEF AskBySignature, Ask, MatchesMemo, Checking
  <2>2. Reading'
    BY <2>1 DEF Reading
  <2>3. CheckOK'
    BY <2>1, <2>2 DEF CheckOK
  <2>4. IntentShown'
    BY <2>1 DEF ProviderInv, IntentShown
  <2> QED
    BY <1>2, <1>3, <2>1, <2>3, <2>4 DEF ProviderInv
<1>10. ASSUME AskByReference
       PROVE  ProviderInv'
  <2>1. /\ UNCHANGED <<commitment, intent, shown, chain, ledger, answer>>
        /\ intent # NoIntent /\ intent.scheme = "ctc:v1" /\ check'.pc = "list"
    BY <1>10 DEF AskByReference, Ask, MatchesMemo, Checking
  <2>2. CheckOK'
    BY <2>1 DEF CheckOK
  <2>3. IntentShown'
    BY <2>1 DEF ProviderInv, IntentShown
  <2> QED
    BY <1>2, <1>3, <2>1, <2>2, <2>3 DEF ProviderInv
<1>11. ASSUME ListCandidates
       PROVE  ProviderInv'
  <2>1. /\ UNCHANGED <<commitment, intent, shown, chain, ledger>> /\ check.pc = "list"
        /\ \/ \E code \in RpcError : Answered(Result("FAILED", "", code))
           \/ Answered(Result("PENDING", "", "PAYMENT_TRANSACTION_NOT_FOUND"))
           \/ /\ Candidates # <<>> /\ UNCHANGED answer
              /\ check' = [pc |-> "status", left |-> Candidates, found |-> Candidates,
                           pending |-> NoResult, rejected |-> NoResult]
    BY <1>11 DEF ListCandidates, Checking
  <2>2. intent.scheme = "ctc:v1" /\ IntentShown'
    <3>1. check # NotChecking
      <4>1. check.pc = "list" /\ NotChecking.pc = "idle"
        BY <2>1 DEF NotChecking
      <4> QED
        BY <4>1
    <3>2. intent.scheme = "ctc:v1"
      BY <2>1, <3>1 DEF ProviderInv, CheckOK
    <3>3. IntentShown'
      BY <2>1, <3>1 DEF ProviderInv, IntentShown
    <3> QED
      BY <3>2, <3>3
  <2>3. CASE \/ \E code \in RpcError : Answered(Result("FAILED", "", code))
             \/ Answered(Result("PENDING", "", "PAYMENT_TRANSACTION_NOT_FOUND"))
    <3>1. (CheckOK /\ AnswerOK)'
      BY <2>1, <2>3, AnswerFromCheck DEF Result
    <3> QED
      BY <1>2, <2>1, <2>2, <3>1 DEF ProviderInv
  <2>4. CASE /\ Candidates # <<>> /\ UNCHANGED answer
             /\ check' = [pc |-> "status", left |-> Candidates, found |-> Candidates,
                          pending |-> NoResult, rejected |-> NoResult]
    <3> DEFINE C == Candidates
    <3>1. C \in Seq(Signature) /\ C # <<>> /\ \A n \in DOMAIN C : Final(C[n])
      BY <2>4, CandidatesAreFinal DEF ProviderInv
    <3>2. check' = [pc |-> "status", left |-> C, found |-> C,
                    pending |-> NoResult, rejected |-> NoResult]
      BY <2>4
    <3> HIDE DEF C
    <3>3. \A n \in DOMAIN C : chain'[C[n]].stage \in Commitment
      BY <2>1, <3>1 DEF Final
    <3>4. /\ Len(C) \in Nat /\ Len(C) <= Len(C) /\ Len(C) - Len(C) = 0
          /\ \A n \in DOMAIN C : C[n] = C[Len(C) - Len(C) + n]
      BY <3>1
    <3>5. \A n : ~Examined(n)'
      BY <3>2, <3>4 DEF Examined
    <3>6. Reading'
      BY <3>1, <3>2, <3>3, <3>4, <3>5 DEF Reading, Final
    <3>7. CheckOK'
      BY <2>1, <2>2, <3>2, <3>6 DEF CheckOK
    <3> QED
      BY <1>2, <1>3, <2>1, <2>2, <2>4, <3>7 DEF ProviderInv
  <2> QED
    BY <2>1, <2>3, <2>4
<1>12. ASSUME ReadStatus \/ ReadTransaction
       PROVE  ProviderInv'
  <2>1. UNCHANGED <<commitment, intent, shown, chain, ledger>>
    BY <1>12 DEF ReadStatus, ReadTransaction
  <2>2. intent.scheme = "ctc:v1"
    BY <1>12 DEF ReadStatus, ReadTransaction, ProviderInv, CheckOK, NotChecking
  <2>3. IntentShown'
    BY <2>1, <2>2 DEF ProviderInv, IntentShown, NoIntent
  <2> QED
    BY <1>2, <1>12, <2>1, <2>3, ReadingIsSound DEF ProviderInv
<1>13. CASE PaymentStep
  BY <1>4, <1>5, <1>6, <1>7, <1>8, <1>9, <1>10, <1>11, <1>12, <1>13 DEF PaymentStep
<1>14. \/ UNCHANGED paymentVars
       \/ PaymentStep
  BY DEF Next, DecideCatalogue, DecideTurn, DecideMarket, DecideSimulation, VerifyStep
<1> QED
  BY <1>1, <1>13, <1>14

(* And it gives the property. *)
LEMMA ProviderInvJustifies ==
  ASSUME ProviderInv
  PROVE  VerdictJustified
<1>1. ASSUME NEW s \in Signature, Final(s)
      PROVE  /\ chain[s].content \in Content
             /\ Pays(s) <=> Covers(chain[s].content, shown.wallet, shown.amount)
  <2>1. chain[s] \in Transaction
    BY <1>1 DEF ProviderInv, ChainType, Final, Absent, Commitment
  <2>2. chain[s].content \in Content
    BY <2>1 DEF Transaction
  <2> QED
    BY <2>2, PaysIsCovers
<1>2. CASE answer.status = "CONFIRMED" /\ answer.provider = "mock"
  <2>1. /\ intent.scheme = "mock" /\ answer.claim.amount = intent.amount
        /\ answer.claim.wallet = intent.wallet
    BY <1>2 DEF ProviderInv, AnswerOK
  <2>2. shown.amount = intent.amount /\ shown.wallet = intent.wallet
    BY <2>1 DEF ProviderInv, IntentShown, NoIntent
  <2> QED
    BY <1>2, <2>1, <2>2 DEF VerdictJustified
<1>3. CASE answer.status = "CONFIRMED" /\ answer.provider # "mock"
  <2>1. answer.sig \in Signature /\ Confirms(answer.sig)
    BY <1>3 DEF ProviderInv, AnswerOK
  <2>2. Final(answer.sig) /\ ~Refuted(answer.sig)
        /\ IsCommitmentSatisfied(chain[answer.sig].stage, commitment)
    BY <2>1 DEF Confirms
  <2>3. ~chain[answer.sig].err /\ Pays(answer.sig)
    BY <1>1, <2>1, <2>2 DEF Refuted
  <2>4. OnChain(answer.sig)
    BY <2>2 DEF OnChain, Final, Commitment
  <2> QED
    BY <1>3, <2>2, <2>3, <2>4 DEF VerdictJustified
<1>4. CASE answer.status = "REJECTED" /\ answer.provider # "mock" /\ answer.found = <<>>
  <2>1. \/ answer.code = "PAYMENT_TRANSACTION_FAILED"
        \/ answer.sig \in Signature /\ Final(answer.sig) /\ Refuted(answer.sig)
             /\ ~chain[answer.sig].err
    BY <1>4 DEF ProviderInv, AnswerOK
  <2>2. answer.code = "PAYMENT_TRANSACTION_FAILED" \/ ~Pays(answer.sig)
    BY <1>1, <2>1 DEF Refuted
  <2> QED
    BY <1>4, <2>2 DEF VerdictJustified
<1>5. CASE answer.status = "REJECTED" /\ answer.provider # "mock" /\ answer.found # <<>>
  <2>1. /\ answer.found \in Seq(Signature)
        /\ \A n \in DOMAIN answer.found : Final(answer.found[n]) /\ Refuted(answer.found[n])
    BY <1>5 DEF ProviderInv, AnswerOK
  <2>2. \A n \in DOMAIN answer.found : chain[answer.found[n]].err \/ ~Pays(answer.found[n])
    BY <1>1, <2>1 DEF Refuted
  <2> QED
    BY <1>5, <2>2 DEF VerdictJustified
<1>6. CASE answer.status \notin {"CONFIRMED", "REJECTED"}
  BY <1>6 DEF VerdictJustified
<1>7. CASE answer.status = "REJECTED" /\ answer.provider = "mock"
  BY <1>7 DEF VerdictJustified
<1> QED
  BY <1>2, <1>3, <1>4, <1>5, <1>6, <1>7, Zenon

(* A payment is confirmed only by a final transaction without error that   *)
(* pays the wallet and the amount the customer was last shown, and refused *)
(* only by transactions that do not, whatever the chain, the node and the  *)
(* deployments did between the calls of the verification                   *)
(* (devnet-verifier.ts 60-217, payment-provider.ts 87-155).                *)
THEOREM VerdictsAreJustified == DecisionsSpec => []VerdictJustified
<1>1. DecisionsInit => ProviderInv
  BY ProviderStarts
<1>2. ProviderInv /\ [Next]_<<paymentVars, desk>> => ProviderInv'
  BY ProviderStep
<1>3. ProviderInv => VerdictJustified
  BY ProviderInvJustifies
<1> QED
  BY <1>1, <1>2, <1>3, PTL DEF DecisionsSpec
-----------------------------------------------------------------------------
(***************************************************************************)
(* The desk: what is on it is a case and the answer to that case.          *)
(***************************************************************************)
DeskDecided ==
  /\ desk.topic = "offers" =>
       /\ desk.case \in Markets
       /\ desk.result = EvaluateRevenueTwin(desk.case.primary, desk.case.others,
                                            desk.case.demand, desk.case.policy)
  /\ desk.topic = "simulated" =>
       /\ desk.case \in Simulations
       /\ desk.result = RunRevenueTwinSimulation(desk.case.seats, desk.case.others,
                                                 desk.case.requests, desk.case.accepts)
  /\ desk.topic = "extracted" =>
       /\ desk.case \in Turns
       /\ desk.result = ExtractTurn(desk.case.said, desk.case.catalogue, ThisTurn,
                                    desk.case.provider, desk.case.reply, desk.case.t)
  /\ desk.topic = "seeded" =>
       /\ desk.case \in Loads
       /\ desk.result.once = Seed(EmptyCatalogue, desk.case.first)
       /\ desk.result.twice = Seed(desk.result.once, desk.case.first)
       /\ desk.result.then = Seed(desk.result.once, desk.case.second)

(* It stays so: a case is decided once, and the provider leaves the desk    *)
(* alone.                                                                   *)
LEMMA DeskStep ==
  /\ DecisionsInit => DeskDecided
  /\ DeskDecided /\ [Next]_<<paymentVars, desk>> => DeskDecided'
<1>1. DecisionsInit => DeskDecided
  <2> SUFFICES ASSUME DecisionsInit PROVE DeskDecided
    OBVIOUS
  <2>1. desk.topic \notin {"offers", "simulated", "extracted", "seeded"}
    BY DEF DecisionsInit
  <2> QED
    BY <2>1 DEF DeskDecided
<1>2. ASSUME DeskDecided, [Next]_<<paymentVars, desk>>
      PROVE  DeskDecided'
  <2>1. CASE DecideCatalogue
    <3>1. PICK c \in Loads :
            LET once == Seed(EmptyCatalogue, c.first)
            IN  desk' = Desk("seeded", c, [once |-> once, twice |-> Seed(once, c.first),
                                           then |-> Seed(once, c.second)])
      BY <2>1 DEF DecideCatalogue
    <3>2. /\ desk'.topic = "seeded" /\ desk'.case = c
          /\ desk'.result.once = Seed(EmptyCatalogue, c.first)
          /\ desk'.result.twice = Seed(desk'.result.once, c.first)
          /\ desk'.result.then = Seed(desk'.result.once, c.second)
      BY <3>1 DEF Desk
    <3> QED
      BY <3>2 DEF DeskDecided
  <2>2. CASE DecideTurn
    <3>1. PICK c \in Turns :
            desk' = Desk("extracted", c, ExtractTurn(c.said, c.catalogue, ThisTurn,
                                                     c.provider, c.reply, c.t))
      BY <2>2 DEF DecideTurn
    <3>2. /\ desk'.topic = "extracted" /\ desk'.case = c
          /\ desk'.result = ExtractTurn(c.said, c.catalogue, ThisTurn, c.provider, c.reply, c.t)
      BY <3>1 DEF Desk
    <3> QED
      BY <3>2 DEF DeskDecided
  <2>3. CASE DecideMarket
    <3>1. PICK c \in Markets :
            desk' = Desk("offers", c,
                         EvaluateRevenueTwin(c.primary, c.others, c.demand, c.policy))
      BY <2>3 DEF DecideMarket
    <3>2. /\ desk'.topic = "offers" /\ desk'.case = c
          /\ desk'.result = EvaluateRevenueTwin(c.primary, c.others, c.demand, c.policy)
      BY <3>1 DEF Desk
    <3> QED
      BY <3>2 DEF DeskDecided
  <2>4. CASE DecideSimulation
    <3>1. PICK c \in Simulations :
            desk' = Desk("simulated", c,
                         RunRevenueTwinSimulation(c.seats, c.others, c.requests, c.accepts))
      BY <2>4 DEF DecideSimulation
    <3>2. /\ desk'.topic = "simulated" /\ desk'.case = c
          /\ desk'.result = RunRevenueTwinSimulation(c.seats, c.others, c.requests, c.accepts)
      BY <3>1 DEF Desk
    <3> QED
      BY <3>2 DEF DeskDecided
  <2>5. CASE UNCHANGED desk
    BY <1>2, <2>5 DEF DeskDecided
  <2> QED
    BY <1>2, <2>1, <2>2, <2>3, <2>4, <2>5 DEF Next, VerifyStep
<1> QED
  BY <1>1, <1>2

(* What the assumption on a market says, in the words of the policy's       *)
(* theorems.                                                                *)
LEMMA MarketShape ==
  ASSUME NEW c \in Markets
  PROVE  /\ Fleet(c.others) /\ c.primary.at \in Int /\ PolicyShape(c.policy)
         /\ c.demand.pax \in Nat /\ c.demand.dep = c.primary.dep
         /\ \A d \in c.others :
              /\ d.relation \in Relation /\ d.fare \in Nat
              /\ {"relation", "fare", "capacity", "available"} \subseteq DOMAIN d
         /\ \A d, e \in c.others : d.dep = e.dep => d = e
  BY MarketsAssumption DEF Fleet, SnapshotShape, Snapshot, PolicyShape

(* An offer of the desk can be honoured. *)
LEMMA OffersHonourable ==
  ASSUME NEW c \in Markets,
         NEW i \in DOMAIN OffersFor(c.primary, c.others, c.demand, c.policy)
  PROVE  Honourable(c, OffersFor(c.primary, c.others, c.demand, c.policy)[i])
<1> DEFINE o == OffersFor(c.primary, c.others, c.demand, c.policy)[i]
<1>1. PICK d \in c.others :
        /\ d.dep # c.demand.dep /\ d.relation \in c.policy.relations
        /\ Eligible(d, c.primary, c.demand, c.policy)
        /\ o = OfferOf(d, c.primary, c.demand, c.policy)
        /\ o.discount \in 0 .. c.policy.maxDiscount
        /\ o.discount * 10000 <= o.fare * c.policy.maxBasisPoints
        /\ o.final = o.fare - o.discount
        /\ o.final \in c.policy.minFare .. o.fare
  BY MarketShape, OffersCanBeHonoured
<1> HIDE DEF o
<1> DEFINE shift == d.at - c.primary.at
<1>2. /\ o.dep = d.dep /\ o.shift = shift /\ o.pax = c.demand.pax
      /\ o.fare = d.fare /\ o.discount = Discount(d, c.policy, shift)
  BY <1>1 DEF OfferOf
<1>3. shift \in Int /\ d.fare \in Nat /\ c.policy.minFare \in Nat
  BY MarketShape DEF Fleet, SnapshotShape, PolicyShape
<1>4. /\ GroupFits(d, c.demand)
      /\ Proactive(c.primary, c.demand, c.policy) =>
           d.available - c.demand.pax >= c.policy.surplus
      /\ Abs(shift) <= c.policy.maxShift
      /\ WithinFlexibility(shift, c.demand)
  BY <1>1 DEF Eligible
<1>5. Discount(d, c.policy, shift) <=
        Discount([d EXCEPT !.relation = "OWN_FLEET"], c.policy, shift)
  <2> HIDE DEF shift
  <2> QED
    BY <1>3, MarketShape, PartnersAreNotPreferred
<1>6. CanServe(c.primary, c.demand) => Proactive(c.primary, c.demand, c.policy)
  <2>1. OffersFor(c.primary, c.others, c.demand, c.policy) # <<>>
    OBVIOUS
  <2> QED
    BY <2>1 DEF OffersFor
<1>7. Proactive(c.primary, c.demand, c.policy) => c.primary.available <= c.policy.scarce
  BY DEF Proactive
<1>8. o.final >= c.policy.minFare /\ o.final = d.fare - o.discount
      /\ o.discount * 10000 <= d.fare * c.policy.maxBasisPoints
  BY <1>1, <1>2, <1>3
<1>9. o.pax <= d.available
  <2>1. d.available \in Nat /\ c.demand.pax \in Nat
    BY MarketShape DEF Fleet, SnapshotShape
  <2> QED
    BY <1>2, <1>4, <2>1 DEF GroupFits
<1> HIDE DEF shift
<1>10. /\ d.dep # c.primary.dep
       /\ Abs(o.shift) <= c.policy.maxShift /\ WithinFlexibility(o.shift, c.demand)
       /\ o.discount <= Discount([d EXCEPT !.relation = "OWN_FLEET"], c.policy, o.shift)
  BY <1>1, <1>2, <1>4, <1>5, MarketShape
<1>11. CanServe(c.primary, c.demand) =>
         d.available - o.pax >= c.policy.surplus /\ c.primary.available <= c.policy.scarce
  BY <1>2, <1>4, <1>6, <1>7
<1>12. o.shift = d.at - c.primary.at
  BY <1>2 DEF shift
<1>13. /\ o.dep = d.dep /\ o.pax = c.demand.pax
       /\ d.relation \in c.policy.relations /\ o.discount \in 0 .. c.policy.maxDiscount
  BY <1>1, <1>2
<1>14. Honourable(c, o)
  BY <1>8, <1>9, <1>10, <1>11, <1>12, <1>13, SMTT(60) DEF Honourable
<1> QED
  BY <1>14 DEF o

(* The offers of the desk are in order, and of one departure each. *)
LEMMA OffersOrdered ==
  ASSUME NEW c \in Markets
  PROVE  Ordered(c, OffersFor(c.primary, c.others, c.demand, c.policy))
<1> DEFINE offers == OffersFor(c.primary, c.others, c.demand, c.policy)
           C == EligibleOf(c.primary, c.others, c.demand, c.policy)
           held(i) == Ranked(C, i, c.primary, c.policy)
<1>1. ASSUME NEW i \in DOMAIN offers
      PROVE  /\ held(i) \in c.others
             /\ offers[i].dep = held(i).dep
             /\ offers[i].shift = held(i).at - c.primary.at
             /\ RelationOf(c, offers[i]) = held(i).relation
  <2>1. held(i) \in C /\ offers[i] = OfferOf(held(i), c.primary, c.demand, c.policy)
    BY MarketShape, BestEligibleAreOffered
  <2>2. C \in SUBSET c.others
    BY DEF EligibleOf, Routable
  <2> HIDE DEF held, offers, C
  <2>3. /\ held(i) \in c.others /\ offers[i].dep = held(i).dep
        /\ offers[i].shift = held(i).at - c.primary.at
    BY <2>1, <2>2 DEF OfferOf
  <2>4. \A d, e \in c.others : d.dep = e.dep => d = e
    BY MarketShape
  <2>5. (CHOOSE d \in c.others : d.dep = offers[i].dep) = held(i)
    BY <2>3, <2>4
  <2> QED
    BY <2>3, <2>5 DEF RelationOf
<1>2. ASSUME NEW i \in DOMAIN offers, NEW j \in DOMAIN offers, i < j
      PROVE  /\ held(i) # held(j)
             /\ held(j).relation = "OWN_FLEET" => held(i).relation = "OWN_FLEET"
             /\ held(i).relation = held(j).relation =>
                  Abs(held(i).at - c.primary.at) <= Abs(held(j).at - c.primary.at)
  <2>1. /\ Fleet(c.others) /\ \A d \in c.others : d.relation \in Relation
        /\ c.primary.at \in Int /\ PolicyShape(c.policy)
    BY MarketShape
  <2> QED
    BY <1>2, <2>1, OwnAndNearestFirst
<1> HIDE DEF offers, C, held
<1>3. ASSUME NEW i \in DOMAIN offers, NEW j \in DOMAIN offers, i < j
      PROVE  offers[i].dep # offers[j].dep
  <2>1. \A d, e \in c.others : d.dep = e.dep => d = e
    BY MarketShape
  <2> QED
    BY <1>1, <1>2, <1>3, <2>1
<1>4. Ordered(c, offers)
  BY <1>1, <1>2, <1>3 DEF Ordered
<1> QED
  BY <1>4 DEF offers

(* The answers on the desk, from the policy's theorems. *)
LEMMA DeskIsPriced ==
  ASSUME DeskDecided
  PROVE  OffersPriced
<1>1. ASSUME desk.topic = "offers"
      PROVE  LET offers == desk.result.offers
             IN  /\ Len(offers) <= 3
                 /\ \A i \in DOMAIN offers : Honourable(desk.case, offers[i])
                 /\ Ordered(desk.case, offers)
                 /\ offers # <<>> <=> desk.result.status \in
                      {"PROACTIVE_OFFERS_AVAILABLE", "OVERFLOW_OFFERS_AVAILABLE"}
                 /\ desk.result.impact.gross = desk.result.impact.net + desk.result.impact.discount
  <2> DEFINE c == desk.case
             evaluation == EvaluateRevenueTwin(c.primary, c.others, c.demand, c.policy)
  <2>1. c \in Markets /\ desk.result = evaluation
    BY <1>1 DEF DeskDecided
  <2>2. /\ evaluation.offers = OffersFor(c.primary, c.others, c.demand, c.policy)
        /\ Len(evaluation.offers) \in 0 .. 3
        /\ evaluation.offers # <<>> <=> evaluation.status \in
             {"PROACTIVE_OFFERS_AVAILABLE", "OVERFLOW_OFFERS_AVAILABLE"}
        /\ evaluation.impact.gross = evaluation.impact.net + evaluation.impact.discount
    <3> HIDE DEF c
    <3>1. /\ Fleet(c.others) /\ c.primary.at \in Int /\ PolicyShape(c.policy)
          /\ c.demand.pax \in Nat
      BY <2>1, MarketShape
    <3> QED
      BY <3>1, AnswerTellsOffers
  <2> HIDE DEF c, evaluation
  <2>3. Len(evaluation.offers) <= 3
    <3> DEFINE n == Len(evaluation.offers)
    <3>1. n \in 0 .. 3
      BY <2>2
    <3> HIDE DEF n
    <3>2. n <= 3
      BY <3>1
    <3> QED
      BY <3>2 DEF n
  <2>4. \A i \in DOMAIN evaluation.offers : Honourable(c, evaluation.offers[i])
    BY <2>1, <2>2, OffersHonourable
  <2>5. Ordered(c, evaluation.offers)
    BY <2>1, <2>2, OffersOrdered
  <2> QED
    BY <2>1, <2>2, <2>3, <2>4, <2>5 DEF c
<1>2. ASSUME desk.topic = "simulated"
      PROVE  NoSeatTwice(desk.case, desk.result)
  <2> DEFINE c == desk.case
             result == RunRevenueTwinSimulation(c.seats, c.others, c.requests, c.accepts)
  <2>1. c \in Simulations /\ desk.result = result
    BY <1>2 DEF DeskDecided
  <2>2. c.seats \in Nat /\ c.others \in Seq(Nat) /\ c.requests \in Seq(SimulationRequest)
    BY <2>1, SimulationsAssumption DEF SimulationRequest
  <2>3. /\ result.primary \in 0 .. c.seats
        /\ SumFunction(result.alternatives) + result.accepted = SumFunction(c.others)
        /\ result.index = Len(c.requests) + 1
    <3> HIDE DEF c
    <3> QED
      BY <2>2, SimulationSellsNoSeatTwice
  <2> HIDE DEF c, result
  <2>4. NoSeatTwice(c, result)
    BY <2>3 DEF NoSeatTwice
  <2> QED
    BY <2>1, <2>4 DEF c
<1> QED
  BY <1>1, <1>2 DEF OffersPriced

(* Whatever the market, the offers of the revenue twin are few, different,  *)
(* in the operator's order, honourable and priced within the policy, its   *)
(* evaluation says whether there are any, and a simulation sells no seat   *)
(* twice (packages/domain/src/revenue-twin).                               *)
THEOREM OffersArePriced == DecisionsSpec => []OffersPriced
<1>1. DecisionsInit => DeskDecided
  BY DeskStep
<1>2. DeskDecided /\ [Next]_<<paymentVars, desk>> => DeskDecided'
  BY DeskStep
<1>3. DeskDecided => OffersPriced
  BY DeskIsPriced
<1> QED
  BY <1>1, <1>2, <1>3, PTL DEF DecisionsSpec
-----------------------------------------------------------------------------
(***************************************************************************)
(* What a turn said.                                                       *)
(***************************************************************************)
(* One of finitely many names is the longest. *)
LEMMA OneIsLongest ==
  ASSUME NEW S, IsFiniteSet(S), S # {}, NEW length \in [S -> Nat]
  PROVE  \E x \in S : \A y \in S : length[x] >= length[y]
<1> DEFINE L == {length[x] : x \in S}
           R == {p \in L \X L : p[1] > p[2]}
<1>1. IsFiniteSet(L) /\ L # {} /\ L \subseteq Nat
  BY ImageIsFinite
<1>2. StrictOrder(R, L)
  <2> HIDE DEF L
  <2>1. \A x, y \in L : x \in Nat /\ y \in Nat /\ (<<x, y>> \in R <=> x > y)
    BY <1>1
  <2> HIDE DEF R
  <2> QED
    BY <2>1 DEF StrictOrder
<1> HIDE DEF L, R
<1>3. 1 \in 1 .. Cardinality(L)
  <2>1. Cardinality(L) \in Nat /\ Cardinality(L) # 0
    BY <1>1, FS_CardinalityType, FS_EmptySet
  <2> QED
    BY <2>1
<1>4. PICK n \in L : Place(n, R, L) = 1
  BY <1>1, <1>2, <1>3, EveryPlaceTaken
<1>5. {m \in L : <<m, n>> \in R} = {}
  <2> DEFINE before == {m \in L : <<m, n>> \in R}
  <2>1. IsFiniteSet(before)
    BY <1>1, FS_Subset
  <2>2. 1 + Cardinality(before) = 1
    BY <1>4 DEF Place
  <2> HIDE DEF before
  <2>3. Cardinality(before) = 0
    BY <2>1, <2>2, FS_CardinalityType
  <2>4. before = {}
    BY <2>1, <2>3, FS_EmptySet
  <2> QED
    BY <2>4 DEF before
<1>6. \A m \in L : n >= m
  <2>1. \A m \in L : ~(m > n)
    BY <1>5 DEF R
  <2> QED
    BY <1>1, <2>1
<1> QED
  BY <1>6 DEF L

(* A number said in words is a number. *)
LEMMA NumbersAreNumbers ==
  ASSUME NEW w, w = None \/ Words(w)
  PROVE  IF w = None THEN ParseNumber(w) = None ELSE ParseNumber(w) \in Nat
<1>1. CASE w = None
  BY <1>1 DEF ParseNumber
<1>2. CASE w # None
  <2> DEFINE unit(i) == IF i \in DOMAIN w THEN w[i] ELSE 0
  <2>1. /\ w \in Seq(Nat) /\ DOMAIN w = 1 .. Len(w) /\ Len(w) \in Nat /\ Len(w) # 0
        /\ \A i \in 1 .. Len(w) : w[i] \in Nat
    BY <1>2 DEF Words
  <2>2. w[1] \in Nat
    BY <2>1
  <2>3. \A i : unit(i) \in Nat
    BY <2>1
  <2>4. ParseNumber(w) = IF w[1] = 10 THEN 10 + unit(2)
                         ELSE IF Len(w) > 1 /\ w[2] = 10 THEN w[1] * 10 + unit(3)
                         ELSE w[1]
    BY <1>2 DEF ParseNumber
  <2> HIDE DEF unit
  <2>5. unit(2) \in Nat /\ unit(3) \in Nat
    BY <2>3
  <2>6. ParseNumber(w) \in Nat
    BY <2>2, <2>4, <2>5
  <2> QED
    BY <1>2, <2>6
<1> QED
  BY <1>1, <1>2

(* A count that is taken is between its limits. *)
LEMMA WithinLimits ==
  ASSUME NEW n, n = None \/ n \in Nat, NEW low \in Nat, NEW high \in Nat
  PROVE  Within(n, low, high) = None \/ Within(n, low, high) \in low .. high
  BY DEF Within

(* What the parser finds: both cities of a route that runs, or neither; an  *)
(* hour of the clock; a number of passengers that fits a bus.               *)
LEMMA ParsedFacts ==
  ASSUME NEW c \in Turns
  PROVE  LET departures == Offered(c.catalogue, c.t)
             facts == ExtractReplayFacts(c.said, departures, c.t)
         IN  /\ facts.from = None <=> facts.to = None
             /\ facts.from # None => <<facts.from, facts.to>> \in Routes(departures)
             /\ facts.pax # None => facts.pax \in 1 .. 36
             /\ facts.time # None => facts.time \in [hour : 0 .. 23, minute : 0 .. 59]
<1> DEFINE departures == Offered(c.catalogue, c.t)
           ahead == Future(departures, c.t)
           facts == ExtractReplayFacts(c.said, departures, c.t)
           route == ExtractRoute(c.said, ahead)
<1>1. /\ \A w \in {c.said.replaced, c.said.mentioned} : w = None \/ Words(w)
      /\ c.said.clock # <<>> =>
           /\ c.said.clock[1].hour # None /\ Words(c.said.clock[1].hour)
           /\ c.said.clock[1].minute = None \/ Words(c.said.clock[1].minute)
      /\ IsFiniteSet(c.catalogue) /\ \A d \in c.catalogue : InCatalogue(d)
  BY TurnsAssumption
<1>2. ahead \subseteq departures /\ departures \subseteq c.catalogue
  BY DEF Offered, Future
<1>3. /\ facts.from = (IF route = None THEN None ELSE route[1])
      /\ facts.to = (IF route = None THEN None ELSE route[2])
      /\ facts.time = ExtractTime(c.said)
      /\ facts.pax = ExtractPassengerCount(c.said)
  BY DEF ExtractReplayFacts
<1> HIDE DEF facts, departures, ahead, route
<1>4. route = None \/ route \in Routes(ahead)
  <2> DEFINE named == c.said.explicit \cap Routes(ahead)
             heard == c.said.ordered \cap Routes(ahead)
             K == IF named # {} THEN named ELSE heard
             letters == [r \in K |-> Length[r[1]] + Length[r[2]]]
  <2>1. route = IF K = {} THEN None
                ELSE CHOOSE x \in K : \A y \in K :
                       Length[x[1]] + Length[x[2]] >= Length[y[1]] + Length[y[2]]
    BY DEF ExtractRoute, Longest, route
  <2>2. K \subseteq Routes(ahead)
    OBVIOUS
  <2>3. IsFiniteSet(K)
    <3>1. IsFiniteSet(ahead)
      BY <1>1, <1>2, FS_Subset
    <3>2. IsFiniteSet(Routes(ahead))
      <4> DEFINE f == [d \in ahead |-> <<d.from, d.to>>]
      <4>1. Routes(ahead) = {f[d] : d \in ahead}
        BY DEF Routes
      <4> HIDE DEF f
      <4> QED
        BY <3>1, <4>1, ImageIsFinite
    <3> QED
      BY <2>2, <3>2, FS_Subset
  <2>4. \A r \in Routes(ahead) : Length[r[1]] \in Nat /\ Length[r[2]] \in Nat
    BY <1>1, <1>2 DEF Routes, InCatalogue
  <2> HIDE DEF K
  <2>5. letters \in [K -> Nat]
    BY <2>2, <2>4
  <2>6. ASSUME K # {}
        PROVE  \E x \in K : \A y \in K :
                 Length[x[1]] + Length[x[2]] >= Length[y[1]] + Length[y[2]]
    <3>1. \A x \in K : letters[x] = Length[x[1]] + Length[x[2]]
      OBVIOUS
    <3> HIDE DEF letters
    <3>2. \E x \in K : \A y \in K : letters[x] >= letters[y]
      BY <2>3, <2>5, <2>6, OneIsLongest
    <3> QED
      BY <3>1, <3>2
  <2>7. K # {} => route \in K
    BY <2>1, <2>6
  <2> QED
    BY <2>1, <2>2, <2>7
<1>5. \A r \in Routes(ahead) :
        r \in Routes(departures) /\ r = <<r[1], r[2]>> /\ r[1] # None /\ r[2] # None
  BY <1>1, <1>2 DEF Routes, InCatalogue
<1>6. facts.pax = None \/ facts.pax \in 1 .. 36
  <2> DEFINE w == Else(c.said.replaced, c.said.mentioned)
  <2>1. w = None \/ Words(w)
    BY <1>1 DEF Else
  <2> HIDE DEF w
  <2>2. ParseNumber(w) = None \/ ParseNumber(w) \in Nat
    BY <2>1, NumbersAreNumbers
  <2> QED
    BY <1>3, <2>2, WithinLimits DEF ExtractPassengerCount, w
<1>7. facts.time = None \/ facts.time \in [hour : 0 .. 23, minute : 0 .. 59]
  <2> DEFINE hour == ParseNumber(c.said.clock[1].hour)
             spoken == ParseNumber(c.said.clock[1].minute)
             minute == Else(spoken, 0)
  <2>1. CASE c.said.clock # <<>> /\ hour <= 23 /\ minute <= 59
    <3>1. hour \in Nat
      BY <1>1, <2>1, NumbersAreNumbers
    <3>2. spoken = None \/ spoken \in Nat
      BY <1>1, <2>1, NumbersAreNumbers
    <3>3. facts.time = [hour |-> hour, minute |-> minute]
      BY <1>3, <2>1 DEF ExtractTime
    <3> HIDE DEF hour, spoken
    <3>4. minute \in Nat
      BY <3>2 DEF Else
    <3> HIDE DEF minute
    <3> QED
      BY <2>1, <3>1, <3>3, <3>4
  <2>2. CASE ~(c.said.clock # <<>> /\ hour <= 23 /\ minute <= 59)
    BY <1>3, <2>2 DEF ExtractTime
  <2> QED
    BY <2>1, <2>2
<1> QED
  BY <1>3, <1>4, <1>5, <1>6, <1>7 DEF facts, departures

(* What the model proposed counts where it was sure of this very turn. *)
LEMMA ProposedIsSure ==
  ASSUME NEW c \in Turns, Service(c.provider, c.reply, NoFacts, ThisTurn).provider = "openai",
         NEW f, NEW v, v = CurrentTurnCandidate(c.reply.candidate, f, ThisTurn), v # None
  PROVE  SureOf(c, f) /\ v = c.reply.candidate[f].value /\ v # None
<1>1. c.provider = "openai" /\ Validated(c.reply, ThisTurn)
  BY TurnsAssumption DEF Service, Extracted
<1>2. c.reply.error = "NONE"
  BY <1>1 DEF Validated
<1> QED
  BY <1>1, <1>2 DEF CurrentTurnCandidate, SureOf

(* What is stored of a turn is the merge of a validated proposal, or what   *)
(* the parser found.                                                        *)
LEMMA TurnCases ==
  ASSUME NEW c \in Turns
  PROVE  LET departures == Offered(c.catalogue, c.t)
             parsed == ExtractReplayFacts(c.said, departures, c.t)
             result == ExtractTurn(c.said, c.catalogue, ThisTurn, c.provider, c.reply, c.t)
         IN  \/ result.facts = parsed
             \/ /\ Service(c.provider, c.reply, NoFacts, ThisTurn).provider = "openai"
                /\ Validated(c.reply, ThisTurn)
                /\ result.facts = MergeValidatedCandidate(parsed, c.reply.candidate, ThisTurn,
                                                          departures, c.said, c.t)
<1> DEFINE departures == Offered(c.catalogue, c.t)
           parsed == ExtractReplayFacts(c.said, departures, c.t)
           result == ExtractTurn(c.said, c.catalogue, ThisTurn, c.provider, c.reply, c.t)
           extraction == Service(c.provider, c.reply, parsed, ThisTurn)
<1>1. result.facts = IF extraction.provider = "openai"
                     THEN MergeValidatedCandidate(parsed, extraction.candidate, ThisTurn,
                                                  departures, c.said, c.t)
                     ELSE parsed
  BY DEF ExtractTurn, RetainCorroborated
<1> HIDE DEF result, parsed, departures
<1>2. extraction.provider = "openai" =>
        /\ Service(c.provider, c.reply, NoFacts, ThisTurn).provider = "openai"
        /\ Validated(c.reply, ThisTurn)
        /\ extraction.candidate = c.reply.candidate
  BY DEF Service, Extracted
<1> HIDE DEF extraction
<1>3. \/ result.facts = parsed
      \/ /\ Service(c.provider, c.reply, NoFacts, ThisTurn).provider = "openai"
         /\ Validated(c.reply, ThisTurn)
         /\ result.facts = MergeValidatedCandidate(parsed, c.reply.candidate, ThisTurn,
                                                   departures, c.said, c.t)
  BY <1>1, <1>2
<1> QED
  BY <1>3 DEF result, parsed, departures

(* The merge keeps what the parser found and adds what the model is sure    *)
(* of: a route that runs, the hour of one departure, a number of passengers *)
(* that was spoken (mergeValidatedCandidateFacts).                          *)
LEMMA MergeIsFromWords ==
  ASSUME NEW c \in Turns, Service(c.provider, c.reply, NoFacts, ThisTurn).provider = "openai",
         Validated(c.reply, ThisTurn)
  PROVE  LET departures == Offered(c.catalogue, c.t)
             parsed == ExtractReplayFacts(c.said, departures, c.t)
             facts == MergeValidatedCandidate(parsed, c.reply.candidate, ThisTurn,
                                              departures, c.said, c.t)
         IN  /\ FromWords(c, facts)
             /\ facts.from = None <=> facts.to = None
             /\ facts.from # None => <<facts.from, facts.to>> \in Routes(departures)
             /\ facts.pax # None => facts.pax \in 1 .. 36
             /\ facts.time # None => facts.time \in [hour : 0 .. 23, minute : 0 .. 59]
<1> DEFINE departures == Offered(c.catalogue, c.t)
           parsed == ExtractReplayFacts(c.said, departures, c.t)
           facts == MergeValidatedCandidate(parsed, c.reply.candidate, ThisTurn,
                                            departures, c.said, c.t)
           Proposed(f) == CurrentTurnCandidate(c.reply.candidate, f, ThisTurn)
           from == CanonicalRouteValue(Proposed("origin"), {d.from : d \in departures})
           to == CanonicalRouteValue(Proposed("destination"), {d.to : d \in departures})
           route == <<Else(parsed.from, from), Else(parsed.to, to)>>
           scheduled == route \in Routes(departures)
           exact == {d \in departures :
                       /\ scheduled
                       /\ <<d.from, d.to>> = route
                       /\ d.date = Proposed("departureDate")
                       /\ d.time = Proposed("departureTime")}
           located == parsed.time = None /\ Cardinality(exact) = 1
           pickup == {p \in SupportedPickupPoints(Future(departures, c.t)) :
                        p = Proposed("pickupPoint")}
<1>1. /\ facts.from = (IF scheduled THEN route[1] ELSE parsed.from)
      /\ facts.to = (IF scheduled THEN route[2] ELSE parsed.to)
      /\ facts.time = (IF located THEN Proposed("departureTime") ELSE parsed.time)
      /\ facts.day = (IF located THEN Proposed("departureDate").day ELSE parsed.day)
      /\ facts.month = (IF located THEN Proposed("departureDate").month ELSE parsed.month)
      /\ facts.pax = (IF parsed.pax = None /\ c.said.counts THEN Proposed("passengerCount")
                      ELSE parsed.pax)
      /\ facts.pickup = (IF parsed.pickup = None /\ pickup # {} THEN Proposed("pickupPoint")
                         ELSE parsed.pickup)
      /\ facts.phone = parsed.phone
      /\ DOMAIN facts = {"from", "to", "time", "day", "month", "pax", "pickup", "phone"}
  BY DEF MergeValidatedCandidate
<1>2. ASSUME NEW f, Proposed(f) # None
      PROVE  SureOf(c, f) /\ Proposed(f) = c.reply.candidate[f].value
  BY <1>2, ProposedIsSure
<1>3. /\ parsed.from = None <=> parsed.to = None
      /\ parsed.from # None => <<parsed.from, parsed.to>> \in Routes(departures)
      /\ parsed.pax # None => parsed.pax \in 1 .. 36
      /\ parsed.time # None => parsed.time \in [hour : 0 .. 23, minute : 0 .. 59]
  BY ParsedFacts
<1>4. \A d \in departures :
        /\ d.from # None /\ d.to # None /\ d.date # None /\ d.time # None
        /\ d.time \in [hour : 0 .. 23, minute : 0 .. 59]
  BY TurnsAssumption DEF Offered, Future, InCatalogue
<1>5. Proposed("passengerCount") # None => Proposed("passengerCount") \in 1 .. 36
  BY DEF Validated, WellFormed, CurrentTurnCandidate
<1>6. (from # None => from = Proposed("origin")) /\ (to # None => to = Proposed("destination"))
  BY DEF CanonicalRouteValue
<1>7. route[1] = Else(parsed.from, from) /\ route[2] = Else(parsed.to, to)
      /\ route = <<route[1], route[2]>>
  OBVIOUS
<1>8. scheduled => \E d \in departures : route[1] = d.from /\ route[2] = d.to
  BY DEF Routes
<1>9. ASSUME located
      PROVE  /\ scheduled
             /\ Proposed("departureTime") # None /\ Proposed("departureDate") # None
             /\ Proposed("departureTime") \in [hour : 0 .. 23, minute : 0 .. 59]
             /\ parsed.time = None
  <2>1. exact # {}
    <3>1. Cardinality(exact) = 1
      BY <1>9
    <3> HIDE DEF exact
    <3>2. Cardinality({}) = 0
      BY FS_EmptySet
    <3> QED
      BY <3>1, <3>2
  <2>2. PICK d \in departures :
          scheduled /\ d.date = Proposed("departureDate") /\ d.time = Proposed("departureTime")
    BY <2>1
  <2> HIDE DEF departures, Proposed, scheduled
  <2> QED
    BY <1>4, <1>9, <2>2
<1>10. ASSUME located
       PROVE  exact = {d \in departures :
                         /\ <<d.from, d.to>> = <<facts.from, facts.to>>
                         /\ d.date.day = facts.day /\ d.date.month = facts.month
                         /\ d.date = c.reply.candidate["departureDate"].value
                         /\ d.time = facts.time}
  <2>1. /\ scheduled /\ <<facts.from, facts.to>> = route
        /\ facts.time = Proposed("departureTime")
        /\ facts.day = Proposed("departureDate").day
        /\ facts.month = Proposed("departureDate").month
    BY <1>1, <1>7, <1>9, <1>10
  <2>2. Proposed("departureDate") = c.reply.candidate["departureDate"].value
    BY <1>2, <1>9, <1>10
  <2> HIDE DEF departures, Proposed, scheduled, route, facts
  <2> QED
    BY <2>1, <2>2
<1> HIDE DEF departures, parsed, facts, Proposed, from, to, route, scheduled, exact, pickup
<1>11. /\ facts.from # parsed.from => SureOf(c, "origin")
       /\ facts.to # parsed.to => SureOf(c, "destination")
  <2>1. facts.from # parsed.from => parsed.from = None /\ facts.from = from /\ from # None
    BY <1>1, <1>7 DEF Else
  <2>2. facts.to # parsed.to => parsed.to = None /\ facts.to = to /\ to # None
    BY <1>1, <1>7 DEF Else
  <2> QED
    BY <1>2, <1>6, <2>1, <2>2
<1>12. facts.pax # parsed.pax => SureOf(c, "passengerCount") /\ c.said.counts
  BY <1>1, <1>2
<1>13. facts.pickup # parsed.pickup => SureOf(c, "pickupPoint")
  BY <1>1, <1>2
<1>14. (facts.time # parsed.time \/ facts.day # parsed.day \/ facts.month # parsed.month) =>
         located
  BY <1>1
<1>15. located =>
         /\ SureOf(c, "departureDate") /\ SureOf(c, "departureTime")
         /\ Cardinality({d \in departures :
              /\ <<d.from, d.to>> = <<facts.from, facts.to>>
              /\ d.date.day = facts.day /\ d.date.month = facts.month
              /\ d.date = c.reply.candidate["departureDate"].value
              /\ d.time = facts.time}) = 1
  BY <1>2, <1>9, <1>10
<1>16. \A f \in DOMAIN facts \ {"day", "month"} :
         parsed[f] # None => facts[f] = parsed[f]
  <2>1. parsed.from # None => facts.from = parsed.from
    BY <1>1, <1>7 DEF Else
  <2>2. parsed.to # None => facts.to = parsed.to
    BY <1>1, <1>7 DEF Else
  <2>3. parsed.time # None => facts.time = parsed.time
    BY <1>1
  <2>4. /\ parsed.pax # None => facts.pax = parsed.pax
        /\ parsed.pickup # None => facts.pickup = parsed.pickup
        /\ facts.phone = parsed.phone
    BY <1>1
  <2>5. \A f \in DOMAIN facts \ {"day", "month"} :
          f \in {"from", "to", "time", "pax", "pickup", "phone"}
    BY <1>1
  <2> HIDE DEF located
  <2> QED
    BY <2>1, <2>2, <2>3, <2>4, <2>5
<1>17. FromWords(c, facts)
  <2> HIDE DEF located
  <2> QED
    BY <1>1, <1>11, <1>12, <1>13, <1>14, <1>15, <1>16 DEF FromWords, departures, parsed
<1>18. /\ facts.from = None <=> facts.to = None
       /\ facts.from # None => <<facts.from, facts.to>> \in Routes(departures)
  <2>1. CASE scheduled
    <3>1. /\ facts.from = route[1] /\ facts.to = route[2]
          /\ <<route[1], route[2]>> \in Routes(departures)
      BY <1>1, <1>7, <2>1 DEF scheduled
    <3>2. route[1] # None /\ route[2] # None
      BY <1>4, <1>8, <2>1
    <3> QED
      BY <3>1, <3>2
  <2>2. CASE ~scheduled
    BY <1>1, <1>3, <2>2
  <2> QED
    BY <2>1, <2>2
<1>19. /\ facts.pax # None => facts.pax \in 1 .. 36
       /\ facts.time # None => facts.time \in [hour : 0 .. 23, minute : 0 .. 59]
  <2>1. facts.pax # None => facts.pax \in 1 .. 36
    BY <1>1, <1>3, <1>5
  <2>2. CASE located
    BY <1>1, <1>9, <2>1, <2>2
  <2>3. CASE ~located
    BY <1>1, <1>3, <2>1, <2>3
  <2> QED
    BY <2>2, <2>3
<1> QED
  BY <1>17, <1>18, <1>19 DEF facts, parsed, departures

(* An extraction is accepted only when no field is missing or contradicted. *)
LEMMA AcceptedIsComplete ==
  ASSUME NEW said, NEW catalogue, NEW turn, NEW provider, NEW reply, NEW t
  PROVE  LET result == ExtractTurn(said, catalogue, turn, provider, reply, t)
         IN  result.status = "ACCEPTED" => result.missing = {} /\ result.contradictions = {}
<1> DEFINE result == ExtractTurn(said, catalogue, turn, provider, reply, t)
           facts == ExtractReplayFacts(said, Offered(catalogue, t), t)
           extraction == Service(provider, reply, facts, turn)
           candidate == extraction.candidate
<1>1. /\ result.missing = MissingFields(candidate)
      /\ result.contradictions = Contradictions(candidate)
      /\ result.status = IF extraction.outcome = "SUCCESS" THEN "ACCEPTED" ELSE "PROPOSED"
  BY DEF ExtractTurn
<1>2. extraction.outcome = Outcome(candidate)
  <2> HIDE DEF facts
  <2> QED
    BY DEF Service, Extracted
<1> HIDE DEF result, extraction, candidate
<1>3. Outcome(candidate) = "SUCCESS" => \A f \in DOMAIN candidate : candidate[f].status = "PRESENT"
  <2> DEFINE statuses == {candidate[f].status : f \in DOMAIN candidate}
  <2>1. Outcome(candidate) = "SUCCESS" => statuses = {"PRESENT"}
    BY DEF Outcome
  <2>2. \A f \in DOMAIN candidate : candidate[f].status \in statuses
    OBVIOUS
  <2> HIDE DEF statuses
  <2> QED
    BY <2>1, <2>2
<1>4. (\A f \in DOMAIN candidate : candidate[f].status = "PRESENT") =>
        MissingFields(candidate) = {} /\ Contradictions(candidate) = {}
  BY DEF MissingFields, Contradictions
<1>5. result.status = "ACCEPTED" => result.missing = {} /\ result.contradictions = {}
  BY <1>1, <1>2, <1>3, <1>4
<1> QED
  BY <1>5 DEF result

(* The facts on the desk are said ones. *)
LEMMA DeskIsSaid ==
  ASSUME DeskDecided
  PROVE  FactsAreSaid
<1> SUFFICES ASSUME desk.topic = "extracted"
             PROVE  LET c == desk.case
                        facts == desk.result.facts
                    IN  /\ FromWords(c, facts)
                        /\ facts.from = None <=> facts.to = None
                        /\ facts.from # None =>
                             <<facts.from, facts.to>> \in Routes(Offered(c.catalogue, c.t))
                        /\ facts.pax # None => facts.pax \in 1 .. 36
                        /\ facts.time # None => facts.time \in [hour : 0 .. 23, minute : 0 .. 59]
                        /\ desk.result.status = "ACCEPTED" =>
                             desk.result.missing = {} /\ desk.result.contradictions = {}
  BY DEF FactsAreSaid
<1> DEFINE c == desk.case
           departures == Offered(c.catalogue, c.t)
           parsed == ExtractReplayFacts(c.said, departures, c.t)
<1>1. /\ c \in Turns
      /\ desk.result = ExtractTurn(c.said, c.catalogue, ThisTurn, c.provider, c.reply, c.t)
  BY DEF DeskDecided
<1> HIDE DEF c
<1>2. desk.result.status = "ACCEPTED" =>
        desk.result.missing = {} /\ desk.result.contradictions = {}
  BY <1>1, AcceptedIsComplete
<1>3. CASE desk.result.facts = parsed
  <2>1. /\ parsed.from = None <=> parsed.to = None
        /\ parsed.from # None => <<parsed.from, parsed.to>> \in Routes(departures)
        /\ parsed.pax # None => parsed.pax \in 1 .. 36
        /\ parsed.time # None => parsed.time \in [hour : 0 .. 23, minute : 0 .. 59]
    BY <1>1, ParsedFacts
  <2>2. FromWords(c, parsed)
    BY DEF FromWords
  <2> HIDE DEF parsed
  <2> QED
    BY <1>2, <1>3, <2>1, <2>2 DEF c
<1>4. CASE desk.result.facts # parsed
  <2>1. /\ Service(c.provider, c.reply, NoFacts, ThisTurn).provider = "openai"
        /\ Validated(c.reply, ThisTurn)
        /\ desk.result.facts = MergeValidatedCandidate(parsed, c.reply.candidate, ThisTurn,
                                                       departures, c.said, c.t)
    BY <1>1, <1>4, TurnCases
  <2> DEFINE facts == MergeValidatedCandidate(parsed, c.reply.candidate, ThisTurn,
                                              departures, c.said, c.t)
  <2>2. /\ FromWords(c, facts)
        /\ facts.from = None <=> facts.to = None
        /\ facts.from # None => <<facts.from, facts.to>> \in Routes(departures)
        /\ facts.pax # None => facts.pax \in 1 .. 36
        /\ facts.time # None => facts.time \in [hour : 0 .. 23, minute : 0 .. 59]
    BY <1>1, <2>1, MergeIsFromWords
  <2>3. desk.result.facts = facts
    BY <2>1
  <2> HIDE DEF facts
  <2> QED
    BY <1>2, <2>2, <2>3 DEF c
<1> QED
  BY <1>3, <1>4

(* A draft is built from words that were said, or from a sure proposal of   *)
(* the configured model about them, whatever the customer says, the         *)
(* catalogue offers and the model answers (append-transcript-turn.ts        *)
(* 379-462, packages/ai).                                                   *)
THEOREM FactsAreAlwaysSaid == DecisionsSpec => []FactsAreSaid
<1>1. DecisionsInit => DeskDecided
  BY DeskStep
<1>2. DeskDecided /\ [Next]_<<paymentVars, desk>> => DeskDecided'
  BY DeskStep
<1>3. DeskDecided => FactsAreSaid
  BY DeskIsSaid
<1> QED
  BY <1>1, <1>2, <1>3, PTL DEF DecisionsSpec
-----------------------------------------------------------------------------
(***************************************************************************)
(* Catalogue: what the seed makes of a database.                           *)
(***************************************************************************)
DepartureFields == {"route", "at", "stops", "capacity", "status", "version"}

SlotsDiffer(departures) ==
  \A d, e \in DOMAIN departures : d # e =>
    \/ departures[d].route # departures[e].route
    \/ departures[d].at # departures[e].at

(* Rows of departures, no two in one slot; seats are held by departure and *)
(* kind.                                                                   *)
CatalogueInv(db) ==
  /\ \A d \in DOMAIN db.departures : DepartureFields \subseteq DOMAIN db.departures[d]
  /\ SlotsDiffer(db.departures)
  /\ \A key \in DOMAIN db.seats : \E d : key = <<d, "confirmed">> \/ key = <<d, "active">>

(* Rows that are one list, each with an id of its own. *)
Listed(rows) ==
  /\ rows \in Seq(Range(rows))
  /\ \A i, j \in DOMAIN rows : i # j => rows[i].id # rows[j].id

(* A table with the first n rows written over the departures: theirs, and  *)
(* what no row of them names.                                              *)
Written(table, departures, rows, inventory, n) ==
  /\ DOMAIN table = DOMAIN departures \cup {rows[i].id : i \in 1 .. n}
  /\ \A i \in 1 .. n :
       table[rows[i].id] = TripDeparture(rows[i], VersionOf(departures, rows[i].id, inventory))
  /\ \A d \in DOMAIN departures :
       (\A i \in 1 .. n : rows[i].id # d) => table[d] = departures[d]

(* That is what Upserted returns. *)
LEMMA UpsertedRows ==
  ASSUME NEW departures, NEW rows, Listed(rows), NEW inventory, NEW n \in 0 .. Len(rows)
  PROVE  Written(Upserted(departures, rows, inventory, n), departures, rows, inventory, n)
<1> DEFINE table == Upserted(departures, rows, inventory, n)
           Of(d) == {i \in 1 .. n : rows[i].id = d}
           Row(d) == IF Of(d) = {} THEN departures[d]
                     ELSE TripDeparture(rows[CHOOSE i \in Of(d) : TRUE],
                                        VersionOf(departures, d, inventory))
<1>1. Len(rows) \in Nat /\ DOMAIN rows = 1 .. Len(rows)
  BY DEF Listed
<1>2. 1 .. n \subseteq DOMAIN rows
  BY <1>1
<1>3. table = [d \in DOMAIN departures \cup {rows[i].id : i \in 1 .. n} |-> Row(d)]
  BY DEF Upserted
<1>4. ASSUME NEW i \in 1 .. n
      PROVE  Row(rows[i].id)
               = TripDeparture(rows[i], VersionOf(departures, rows[i].id, inventory))
  <2>1. i \in Of(rows[i].id)
    OBVIOUS
  <2>2. \A j \in Of(rows[i].id) : j = i
    BY <1>2 DEF Listed
  <2> DEFINE j == CHOOSE j \in Of(rows[i].id) : TRUE
  <2>3. j \in Of(rows[i].id)
    BY <2>1
  <2>4. j = i /\ Of(rows[i].id) # {}
    BY <2>1, <2>2, <2>3
  <2> QED
    BY <2>4
<1>5. ASSUME NEW d, \A i \in 1 .. n : rows[i].id # d
      PROVE  Row(d) = departures[d]
  <2>1. Of(d) = {}
    BY <1>5
  <2> QED
    BY <2>1
<1> HIDE DEF Row, table
<1>6. /\ DOMAIN table = DOMAIN departures \cup {rows[i].id : i \in 1 .. n}
      /\ \A d \in DOMAIN table : table[d] = Row(d)
  BY <1>3
<1>7. \A i \in 1 .. n : table[rows[i].id] = Row(rows[i].id)
  BY <1>6
<1>8. \A d \in DOMAIN departures : table[d] = Row(d)
  BY <1>6
<1>9. Written(table, departures, rows, inventory, n)
  BY <1>4, <1>5, <1>6, <1>7, <1>8 DEF Written
<1> QED
  BY <1>9 DEF table

(* No two departures share a slot when every row met the index.            *)
LEMMA SlotsStayApart ==
  ASSUME NEW departures, SlotsDiffer(departures),
         NEW rows, Listed(rows), NEW inventory,
         UpsertTripDepartures(departures, rows, inventory).ok
  PROVE  SlotsDiffer(UpsertTripDepartures(departures, rows, inventory).rows)
<1> DEFINE Table(n) == Upserted(departures, rows, inventory, n)
           Named(d) == \E i \in DOMAIN rows : rows[i].id = d
<1>1. Len(rows) \in Nat /\ DOMAIN rows = 1 .. Len(rows)
  BY DEF Listed
<1>2. UpsertTripDepartures(departures, rows, inventory).rows = Table(Len(rows))
  BY DEF UpsertTripDepartures
<1>3. \A n \in DOMAIN rows : ~SlotTaken(Table(n - 1), rows[n])
  BY DEF UpsertTripDepartures
<1>0. ASSUME NEW n \in 0 .. Len(rows)
      PROVE  Written(Table(n), departures, rows, inventory, n)
  BY UpsertedRows
<1>4. ASSUME NEW j \in DOMAIN rows, NEW d \in DOMAIN Table(j - 1), d # rows[j].id
      PROVE  Table(j - 1)[d].route # rows[j].route \/ Table(j - 1)[d].at # rows[j].at
  <2> HIDE DEF Table
  <2> QED
    BY <1>3, <1>4 DEF SlotTaken
<1>5. ASSUME NEW n \in 0 .. Len(rows), NEW i \in 1 .. n
      PROVE  /\ rows[i].id \in DOMAIN Table(n)
             /\ Table(n)[rows[i].id].route = rows[i].route
             /\ Table(n)[rows[i].id].at = rows[i].at
  <2>1. Written(Table(n), departures, rows, inventory, n)
    BY <1>0
  <2> HIDE DEF Table
  <2>2. Table(n)[rows[i].id]
          = TripDeparture(rows[i], VersionOf(departures, rows[i].id, inventory))
    BY <2>1 DEF Written
  <2>3. rows[i].id \in DOMAIN Table(n)
    BY <2>1 DEF Written
  <2> QED
    BY <2>2, <2>3 DEF TripDeparture
<1>6. ASSUME NEW n \in 0 .. Len(rows), NEW d \in DOMAIN departures, ~Named(d)
      PROVE  d \in DOMAIN Table(n) /\ Table(n)[d] = departures[d]
  <2>1. \A i \in 1 .. n : rows[i].id # d
    BY <1>1, <1>6
  <2> HIDE DEF Table
  <2> QED
    BY <1>0, <1>6, <2>1 DEF Written
<1>7. \A d \in DOMAIN Table(Len(rows)) : d \in DOMAIN departures \/ Named(d)
  <2>1. Len(rows) \in 0 .. Len(rows)
    BY <1>1
  <2> HIDE DEF Table
  <2>2. DOMAIN Table(Len(rows)) = DOMAIN departures \cup {rows[i].id : i \in 1 .. Len(rows)}
    BY <1>0, <2>1 DEF Written
  <2> QED
    BY <1>1, <2>2
<1>8. \A n \in DOMAIN rows : n - 1 \in 0 .. Len(rows) /\ Len(rows) \in 0 .. Len(rows)
  BY <1>1
<1> DEFINE Apart(d, e) == \/ Table(Len(rows))[d].route # Table(Len(rows))[e].route
                          \/ Table(Len(rows))[d].at # Table(Len(rows))[e].at
<1>9. ASSUME NEW i \in DOMAIN rows, NEW j \in DOMAIN rows, i < j
      PROVE  Apart(rows[i].id, rows[j].id)
  <2>1. i \in 1 .. j - 1 /\ i \in 1 .. Len(rows) /\ j \in 1 .. Len(rows)
    BY <1>1, <1>9
  <2>2. rows[i].id # rows[j].id
    BY <1>9, <1>1 DEF Listed
  <2>3. rows[i].id \in DOMAIN Table(j - 1)
    BY <1>5, <1>8, <2>1
  <2>4. /\ Table(j - 1)[rows[i].id].route = rows[i].route
        /\ Table(j - 1)[rows[i].id].at = rows[i].at
    BY <1>5, <1>8, <2>1
  <2>5. /\ Table(Len(rows))[rows[i].id].route = rows[i].route
        /\ Table(Len(rows))[rows[i].id].at = rows[i].at
        /\ Table(Len(rows))[rows[j].id].route = rows[j].route
        /\ Table(Len(rows))[rows[j].id].at = rows[j].at
    BY <1>5, <1>8, <2>1
  <2> HIDE DEF Table
  <2> QED
    BY <1>4, <2>2, <2>3, <2>4, <2>5
<1>10. ASSUME NEW d \in DOMAIN departures, ~Named(d), NEW j \in DOMAIN rows
       PROVE  Apart(d, rows[j].id)
  <2>1. d # rows[j].id /\ j \in 1 .. Len(rows)
    BY <1>1, <1>10
  <2>2. d \in DOMAIN Table(j - 1) /\ Table(j - 1)[d] = departures[d]
    BY <1>6, <1>8, <1>10
  <2>3. Table(Len(rows))[d] = departures[d]
    BY <1>6, <1>8, <1>10
  <2>4. /\ Table(Len(rows))[rows[j].id].route = rows[j].route
        /\ Table(Len(rows))[rows[j].id].at = rows[j].at
    BY <1>5, <1>8, <2>1
  <2> HIDE DEF Table
  <2> QED
    BY <1>4, <2>1, <2>2, <2>3, <2>4
<1>11. ASSUME NEW d \in DOMAIN Table(Len(rows)), NEW e \in DOMAIN Table(Len(rows)), d # e
       PROVE  Apart(d, e)
  <2>1. CASE Named(d) /\ Named(e)
    <3>1. PICK i \in DOMAIN rows : rows[i].id = d
      BY <2>1
    <3>2. PICK j \in DOMAIN rows : rows[j].id = e
      BY <2>1
    <3>3. i < j \/ j < i
      BY <1>1, <1>11, <3>1, <3>2
    <3> HIDE DEF Table
    <3> QED
      BY <1>9, <3>1, <3>2, <3>3
  <2>2. CASE Named(d) /\ ~Named(e)
    <3>1. PICK i \in DOMAIN rows : rows[i].id = d
      BY <2>2
    <3>2. e \in DOMAIN departures
      BY <1>7, <2>2
    <3> HIDE DEF Table
    <3> QED
      BY <1>10, <2>2, <3>1, <3>2
  <2>3. CASE ~Named(d) /\ Named(e)
    <3>1. PICK j \in DOMAIN rows : rows[j].id = e
      BY <2>3
    <3>2. d \in DOMAIN departures
      BY <1>7, <2>3
    <3> HIDE DEF Table
    <3> QED
      BY <1>10, <2>3, <3>1, <3>2
  <2>4. CASE ~Named(d) /\ ~Named(e)
    <3>1. d \in DOMAIN departures /\ e \in DOMAIN departures
      BY <1>7, <2>4
    <3>2. Len(rows) \in 0 .. Len(rows)
      BY <1>1
    <3>3. Table(Len(rows))[d] = departures[d] /\ Table(Len(rows))[e] = departures[e]
      BY <1>6, <2>4, <3>1, <3>2
    <3> HIDE DEF Table
    <3> QED
      BY <1>11, <3>1, <3>3 DEF SlotsDiffer
  <2> HIDE DEF Apart, Named
  <2> QED
    BY <2>1, <2>2, <2>3, <2>4
<1> HIDE DEF Table
<1> QED
  BY <1>2, <1>11 DEF SlotsDiffer

(* Without rows that are no longer there. *)
LEMMA RetiredRows ==
  ASSUME NEW departures, NEW ids,
         \A d \in DOMAIN departures : DepartureFields \subseteq DOMAIN departures[d],
         SlotsDiffer(departures)
  PROVE  LET retired == RetireDepartures(departures, ids)
         IN  /\ DOMAIN retired = DOMAIN departures
             /\ SlotsDiffer(retired)
             /\ \A d \in DOMAIN departures :
                  /\ DepartureFields \subseteq DOMAIN retired[d]
                  /\ d \notin ids => retired[d].status = "CANCELLED"
<1> DEFINE retired == RetireDepartures(departures, ids)
           Row(d) == IF d \in ids THEN departures[d]
                     ELSE [departures[d] EXCEPT !.status = "CANCELLED"]
<1>1. retired = [d \in DOMAIN departures |-> Row(d)]
  BY DEF RetireDepartures
<1>2. ASSUME NEW d \in DOMAIN departures
      PROVE  /\ DepartureFields \subseteq DOMAIN Row(d)
             /\ Row(d).route = departures[d].route /\ Row(d).at = departures[d].at
             /\ d \notin ids => Row(d).status = "CANCELLED"
  <2>1. /\ {"route", "at", "status"} \subseteq DOMAIN departures[d]
        /\ DepartureFields \subseteq DOMAIN departures[d]
    BY DEF DepartureFields
  <2> QED
    BY <2>1
<1> HIDE DEF retired, Row
<1>3. DOMAIN retired = DOMAIN departures /\ \A d \in DOMAIN departures : retired[d] = Row(d)
  BY <1>1
<1>4. SlotsDiffer(retired)
  BY <1>2, <1>3 DEF SlotsDiffer
<1> QED
  BY <1>2, <1>3, <1>4 DEF retired

(* Over a table that already holds the file's rows and nothing else, the   *)
(* upserts change nothing.                                                 *)
LEMMA UpsertedAgain ==
  ASSUME NEW rows, Listed(rows), NEW inventory, NEW empty, DOMAIN empty = {},
         NEW n \in 0 .. Len(rows)
  PROVE  LET table == Upserted(empty, rows, inventory, Len(rows))
         IN  /\ DOMAIN table = {rows[i].id : i \in DOMAIN rows}
             /\ Upserted(table, rows, inventory, n) = table
             /\ RetireDepartures(table, {rows[i].id : i \in DOMAIN rows}) = table
<1> DEFINE table == Upserted(empty, rows, inventory, Len(rows))
           again == Upserted(table, rows, inventory, n)
           ids == {rows[i].id : i \in DOMAIN rows}
<1>1. Len(rows) \in Nat /\ DOMAIN rows = 1 .. Len(rows) /\ Len(rows) \in 0 .. Len(rows)
  BY DEF Listed
<1>2. Written(table, empty, rows, inventory, Len(rows))
  BY <1>1, UpsertedRows
<1>3. Written(again, table, rows, inventory, n)
  BY UpsertedRows
<1>4. /\ table = [d \in DOMAIN table |-> table[d]]
      /\ again = [d \in DOMAIN again |-> again[d]]
  BY DEF Upserted
<1>5. RetireDepartures(table, ids) = [d \in DOMAIN table |-> IF d \in ids THEN table[d] ELSE
          [table[d] EXCEPT !.status = "CANCELLED"]]
  BY DEF RetireDepartures
<1> HIDE DEF table, again
<1>6. DOMAIN table = ids
  BY <1>1, <1>2 DEF Written
<1>7. DOMAIN again = DOMAIN table
  <2>1. \A i \in 1 .. n : i \in DOMAIN rows
    BY <1>1
  <2> QED
    BY <1>3, <1>6, <2>1 DEF Written
<1>8. ASSUME NEW i \in DOMAIN rows
      PROVE  VersionOf(table, rows[i].id, inventory) = VersionOf(empty, rows[i].id, inventory)
  <2> DEFINE v == VersionOf(empty, rows[i].id, inventory)
             d == rows[i].id
  <2>1. table[d] = TripDeparture(rows[i], v)
    BY <1>1, <1>2 DEF Written
  <2>2. table[d].version = v
    <3> HIDE DEF v
    <3> QED
      BY <2>1 DEF TripDeparture
  <2>3. d \in DOMAIN table /\ d \notin DOMAIN empty
    BY <1>6
  <2>4. CASE {j \in DOMAIN inventory : inventory[j].id = d} = {}
    <3>1. VersionOf(table, d, inventory) = table[d].version
      BY <2>3, <2>4 DEF VersionOf
    <3> QED
      BY <2>2, <3>1
  <2>5. CASE {j \in DOMAIN inventory : inventory[j].id = d} # {}
    BY <2>5 DEF VersionOf
  <2> QED
    BY <2>4, <2>5
<1>9. ASSUME NEW d \in DOMAIN table
      PROVE  again[d] = table[d]
  <2>1. CASE \E i \in 1 .. n : rows[i].id = d
    <3>1. PICK i \in 1 .. n : rows[i].id = d
      BY <2>1
    <3>2. i \in DOMAIN rows /\ i \in 1 .. Len(rows)
      BY <1>1
    <3>3. again[d] = TripDeparture(rows[i], VersionOf(table, d, inventory))
      BY <1>3, <3>1 DEF Written
    <3>4. table[d] = TripDeparture(rows[i], VersionOf(empty, d, inventory))
      BY <1>2, <3>1, <3>2 DEF Written
    <3> QED
      BY <1>8, <3>1, <3>2, <3>3, <3>4
  <2>2. CASE \A i \in 1 .. n : rows[i].id # d
    BY <1>3, <2>2 DEF Written
  <2> QED
    BY <2>1, <2>2
<1>10. again = table
  BY <1>4, <1>7, <1>9
<1>11. RetireDepartures(table, ids) = table
  BY <1>4, <1>5, <1>6
<1> QED
  BY <1>6, <1>10, <1>11 DEF table, again

(* The seats of the same inventory, laid over themselves. *)
LEMMA SeatsAgain ==
  ASSUME NEW rows, NEW empty, DOMAIN empty = {}
  PROVE  LET seats == UpsertInventory(empty, rows)
         IN  UpsertInventory(seats, rows) = seats
<1> DEFINE keys == {rows[i].id : i \in DOMAIN rows} \X {"confirmed", "active"}
           held == {k \in keys : Holding(rows, k) # {}}
           Value(k) == Quantity(rows[Max(Holding(rows, k))], k[2])
           seats == UpsertInventory(empty, rows)
           again == UpsertInventory(seats, rows)
<1>1. ASSUME NEW s
      PROVE  UpsertInventory(s, rows) =
               [k \in DOMAIN s \cup held |-> IF Holding(rows, k) = {} THEN s[k] ELSE Value(k)]
  BY DEF UpsertInventory, ValuesOf
<1>2. seats = [k \in held |-> Value(k)]
  <2>1. seats = [k \in DOMAIN empty \cup held |->
                   IF Holding(rows, k) = {} THEN empty[k] ELSE Value(k)]
    BY <1>1
  <2>2. DOMAIN empty \cup held = held /\ \A k \in held : Holding(rows, k) # {}
    OBVIOUS
  <2> HIDE DEF seats, held, Value
  <2> QED
    BY <2>1, <2>2
<1>3. again = [k \in DOMAIN seats \cup held |->
                 IF Holding(rows, k) = {} THEN seats[k] ELSE Value(k)]
  BY <1>1
<1>4. \A k \in held : Holding(rows, k) # {}
  OBVIOUS
<1> HIDE DEF seats, again, held, Value
<1>5. DOMAIN seats \cup held = held
  BY <1>2
<1>6. again = [k \in held |-> Value(k)]
  BY <1>3, <1>4, <1>5
<1>7. again = seats
  BY <1>2, <1>6
<1> QED
  BY <1>7 DEF seats, again

(* What a file that is read holds of its rows. *)
LEMMA ReadableRows ==
  ASSUME NEW f, File(f), Readable(f)
  PROVE  /\ Listed(f.schedule)
         /\ \A i \in DOMAIN f.schedule :
              /\ f.schedule[i].capacity \in Nat
              /\ \A code \in f.schedule[i].stops :
                   Refers(code, {f.pickups[p].code : p \in DOMAIN f.pickups})
         /\ DOMAIN f.inventory = 1 .. Len(f.inventory) /\ Len(f.inventory) \in Nat
         /\ \A i \in DOMAIN f.inventory :
              /\ f.inventory[i].confirmed \in Nat /\ f.inventory[i].active \in Nat
              /\ \A j \in DOMAIN f.schedule :
                   f.schedule[j].id = f.inventory[i].id =>
                     f.inventory[i].confirmed + f.inventory[i].active <= f.schedule[j].capacity
         /\ f.pickups # <<>> => DOMAIN f.pickups # {}
<1>1. /\ LoadsTripScheduleRows(f.schedule, f.pickups, f.policies)
      /\ LoadsTripInventoryRows(f.inventory, f.schedule)
  BY DEF Readable
<1>2. ASSUME NEW rows, rows \in Seq(Range(rows))
      PROVE  /\ Len(rows) \in Nat /\ DOMAIN rows = 1 .. Len(rows)
             /\ \A i \in DOMAIN rows : rows[i] \in Range(rows)
             /\ rows # <<>> => DOMAIN rows # {}
  <2>1. Len(rows) \in Nat /\ DOMAIN rows = 1 .. Len(rows)
    BY <1>2
  <2>2. \A i \in DOMAIN rows : rows[i] \in Range(rows)
    BY DEF Range
  <2>3. ASSUME rows # <<>> PROVE DOMAIN rows # {}
    <3>1. Len(rows) # 0
      BY <1>2, <2>3, EmptySeq
    <3> QED
      BY <2>1, <3>1
  <2> QED
    BY <2>1, <2>2, <2>3
<1>3. /\ f.pickups \in Seq(Range(f.pickups)) /\ f.schedule \in Seq(Range(f.schedule))
      /\ f.inventory \in Seq(Range(f.inventory))
  BY DEF File
<1>4. Listed(f.schedule)
  BY <1>1, <1>3 DEF Listed, LoadsTripScheduleRows, NoDuplicates
<1>5. ASSUME NEW i \in DOMAIN f.schedule
      PROVE  /\ f.schedule[i].capacity \in Nat
             /\ \A code \in f.schedule[i].stops :
                  Refers(code, {f.pickups[p].code : p \in DOMAIN f.pickups})
  <2>1. f.schedule[i].valid
    BY <1>1 DEF LoadsTripScheduleRows, Valid
  <2>2. f.schedule[i] \in Range(f.schedule)
    BY <1>2, <1>3
  <2>3. f.schedule[i].capacity \in Nat
    BY <2>1, <2>2 DEF File
  <2>4. \A code \in f.schedule[i].stops :
          Refers(code, {f.pickups[p].code : p \in DOMAIN f.pickups})
    BY <1>1 DEF LoadsTripScheduleRows, ValuesOf
  <2> QED
    BY <2>3, <2>4
<1>6. ASSUME NEW i \in DOMAIN f.inventory
      PROVE  /\ f.inventory[i].confirmed \in Nat /\ f.inventory[i].active \in Nat
             /\ \A j \in DOMAIN f.schedule :
                  f.schedule[j].id = f.inventory[i].id =>
                    f.inventory[i].confirmed + f.inventory[i].active <= f.schedule[j].capacity
  <2>1. f.inventory[i].valid
    BY <1>1 DEF LoadsTripInventoryRows, Valid
  <2>2. f.inventory[i] \in Range(f.inventory)
    BY <1>2, <1>3
  <2>3. f.inventory[i].confirmed \in Nat /\ f.inventory[i].active \in Nat
    BY <2>1, <2>2 DEF File
  <2>4. \A j \in DOMAIN f.schedule :
          f.schedule[j].id = f.inventory[i].id =>
            f.inventory[i].confirmed + f.inventory[i].active <= f.schedule[j].capacity
    BY <1>1 DEF LoadsTripInventoryRows
  <2> QED
    BY <2>3, <2>4
<1> QED
  BY <1>2, <1>3, <1>4, <1>5, <1>6

(* A load either changes nothing or leaves these three tables. *)
LEMMA SeedEither ==
  ASSUME NEW db, NEW f
  PROVE  LET retired == RetireDepartures(db.departures,
                                         {f.schedule[i].id : i \in DOMAIN f.schedule})
             written == UpsertTripDepartures(retired, f.schedule, f.inventory)
             codes == {f.pickups[i].code : i \in DOMAIN f.pickups}
         IN  \/ Seed(db, f) = db
             \/ /\ Readable(f) /\ written.ok
                /\ {f.inventory[i].id : i \in DOMAIN f.inventory} \subseteq DOMAIN written.rows
                /\ Seed(db, f) =
                     [departures |-> written.rows,
                      pickups |-> UpsertPickupPoints(RetirePickupPoints(db.pickups, codes),
                                                     f.pickups),
                      seats |-> UpsertInventory(db.seats, f.inventory)]
  BY DEF Seed, ApplyDemoCatalogueFixtures, Loaded, ValuesOf

(* Loading the same files again changes nothing. *)
LEMMA SeedAgain ==
  ASSUME NEW f, File(f)
  PROVE  LET once == Seed(EmptyCatalogue, f) IN Seed(once, f) = once
<1> DEFINE once == Seed(EmptyCatalogue, f)
           ids == {f.schedule[i].id : i \in DOMAIN f.schedule}
           codes == {f.pickups[i].code : i \in DOMAIN f.pickups}
           retired == RetireDepartures(NoRows, ids)
           table == Upserted(retired, f.schedule, f.inventory, Len(f.schedule))
           points == UpsertPickupPoints(RetirePickupPoints(NoRows, codes), f.pickups)
           seats == UpsertInventory(NoRows, f.inventory)
<1>1. \/ once = EmptyCatalogue
      \/ /\ Readable(f) /\ UpsertTripDepartures(retired, f.schedule, f.inventory).ok
         /\ {f.inventory[i].id : i \in DOMAIN f.inventory} \subseteq DOMAIN table
         /\ once = [departures |-> table, pickups |-> points, seats |-> seats]
  <2> DEFINE written == UpsertTripDepartures(retired, f.schedule, f.inventory)
  <2>1. /\ EmptyCatalogue.departures = NoRows /\ EmptyCatalogue.pickups = NoRows
        /\ EmptyCatalogue.seats = NoRows
    BY DEF EmptyCatalogue
  <2>2. written.rows = table
    <3> HIDE DEF retired
    <3> QED
      BY DEF UpsertTripDepartures
  <2>3. \/ once = EmptyCatalogue
        \/ /\ Readable(f) /\ written.ok
           /\ {f.inventory[i].id : i \in DOMAIN f.inventory} \subseteq DOMAIN written.rows
           /\ once = [departures |-> written.rows, pickups |-> points, seats |-> seats]
    BY <2>1, SeedEither
  <2> HIDE DEF once, table, points, seats, written
  <2>4. \/ once = EmptyCatalogue
        \/ /\ Readable(f) /\ written.ok
           /\ {f.inventory[i].id : i \in DOMAIN f.inventory} \subseteq DOMAIN table
           /\ once = [departures |-> table, pickups |-> points, seats |-> seats]
    BY <2>2, <2>3
  <2> QED
    BY <2>4 DEF written
<1>2. ASSUME once = EmptyCatalogue PROVE Seed(once, f) = once
  BY <1>2
<1>3. ASSUME Readable(f), UpsertTripDepartures(retired, f.schedule, f.inventory).ok,
             {f.inventory[i].id : i \in DOMAIN f.inventory} \subseteq DOMAIN table,
             once = [departures |-> table, pickups |-> points, seats |-> seats]
      PROVE  Seed(once, f) = once
  <2>1. Listed(f.schedule)
    BY <1>3, ReadableRows
  <2>2. DOMAIN NoRows = {} /\ DOMAIN retired = {}
    BY DEF NoRows, RetireDepartures
  <2>3. Len(f.schedule) \in Nat /\ DOMAIN f.schedule = 1 .. Len(f.schedule)
    BY <2>1 DEF Listed
  <2>4. ASSUME NEW n \in 0 .. Len(f.schedule)
        PROVE  /\ Upserted(table, f.schedule, f.inventory, n) = table
               /\ RetireDepartures(table, ids) = table
    <3> HIDE DEF retired
    <3> QED
      BY <2>1, <2>2, UpsertedAgain
  <2>5. UpsertTripDepartures(table, f.schedule, f.inventory).rows = table
    <3>1. Len(f.schedule) \in 0 .. Len(f.schedule)
      BY <2>3
    <3>2. Upserted(table, f.schedule, f.inventory, Len(f.schedule)) = table
      BY <2>4, <3>1
    <3> HIDE DEF table
    <3> QED
      BY <3>2 DEF UpsertTripDepartures
  <2>6. RetireDepartures(table, ids) = table
    <3>1. 0 \in 0 .. Len(f.schedule)
      BY <2>3
    <3> QED
      BY <2>4, <3>1
  <2>7. UpsertPickupPoints(RetirePickupPoints(points, codes), f.pickups) = points
    <3>0. ASSUME NEW none, DOMAIN none = {}
          PROVE  UpsertPickupPoints(RetirePickupPoints(none, codes), f.pickups)
                   = [c \in codes |-> TRUE]
      BY <3>0 DEF UpsertPickupPoints, RetirePickupPoints, ValuesOf
    <3>1. points = [c \in codes |-> TRUE]
      BY <2>2, <3>0
    <3>2. UpsertPickupPoints(RetirePickupPoints([c \in codes |-> TRUE], codes), f.pickups)
            = [c \in codes |-> TRUE]
      BY DEF UpsertPickupPoints, RetirePickupPoints, ValuesOf
    <3> QED
      BY <3>1, <3>2
  <2>8. UpsertInventory(seats, f.inventory) = seats
    BY <2>2, SeatsAgain
  <2>9. /\ once.departures = table /\ once.pickups = points /\ once.seats = seats
         /\ once = [departures |-> table, pickups |-> points, seats |-> seats]
    <3> HIDE DEF table, points, seats, once
    <3> QED
      BY <1>3
  <2> DEFINE again == UpsertTripDepartures(RetireDepartures(once.departures, ids),
                                           f.schedule, f.inventory)
  <2>10. \/ Seed(once, f) = once
         \/ Seed(once, f) =
              [departures |-> again.rows,
               pickups |-> UpsertPickupPoints(RetirePickupPoints(once.pickups, codes),
                                              f.pickups),
               seats |-> UpsertInventory(once.seats, f.inventory)]
    <3> HIDE DEF once
    <3> QED
      BY SeedEither
  <2> HIDE DEF once, table, points, seats, ids, codes
  <2>11. again.rows = table
    BY <2>5, <2>6, <2>9
  <2> HIDE DEF again
  <2> QED
    BY <2>7, <2>8, <2>9, <2>10, <2>11
<1> QED
  BY <1>1, <1>2, <1>3

(* Two kinds of seats of one departure, or fewer: their sum is within the  *)
(* two quantities of the one row that names it.                            *)
LEMMA TwoKinds ==
  ASSUME NEW d, NEW K \in SUBSET {<<d, "confirmed">>, <<d, "active">>},
         NEW confirmed \in Nat, NEW active \in Nat, NEW f, DOMAIN f = K,
         <<d, "confirmed">> \in K => f[<<d, "confirmed">>] = confirmed,
         <<d, "active">> \in K => f[<<d, "active">>] = active
  PROVE  SumFunction(f) \in 0 .. confirmed + active
<1> DEFINE a == <<d, "confirmed">>
           b == <<d, "active">>
           F == SubsetSums(f, K)
<1>1. IsFiniteSet(K) /\ \A x \in K : f[x] \in Nat
  <2>1. IsFiniteSet({a}) /\ IsFiniteSet({b})
    BY FS_Singleton
  <2>2. IsFiniteSet({a} \cup {b})
    BY <2>1, FS_Union
  <2>3. K \in SUBSET ({a} \cup {b})
    OBVIOUS
  <2>4. IsFiniteSet(K)
    BY <2>2, <2>3, FS_Subset
  <2> QED
    BY <2>4
<1>2. F[{}] = 0 /\ \A T \in SUBSET K : \A x \in T : F[T] = f[x] + F[T \ {x}]
  BY ONLY <1>1, SubsetSumsUnfold
<1>3. SumFunction(f) = F[K]
  BY SumIsSubsetSum
<1>4. a # b
  OBVIOUS
<1>5. /\ K \subseteq {a, b} /\ (a \in K => f[a] = confirmed) /\ (b \in K => f[b] = active)
  OBVIOUS
<1> HIDE DEF F, a, b
<1>6. ASSUME NEW T \in SUBSET K, T \subseteq {b}
      PROVE  F[T] \in Nat /\ F[T] <= active
  <2>1. CASE b \in T
    <3>1. T \ {b} = {}
      BY <1>6
    <3>2. F[T] = f[b] + F[{}]
      BY <1>2, <2>1, <3>1
    <3>3. f[b] = active
      BY <1>5, <2>1
    <3> QED
      BY <1>2, <3>2, <3>3
  <2>2. CASE b \notin T
    <3>1. T = {}
      BY <1>6, <2>2
    <3> QED
      BY <1>2, <3>1
  <2> QED
    BY <2>1, <2>2
<1>7. CASE a \in K
  <2>1. K \in SUBSET K /\ K \ {a} \in SUBSET K /\ K \ {a} \subseteq {b}
    BY <1>5
  <2>2. F[K] = confirmed + F[K \ {a}]
    BY <1>2, <1>5, <1>7, <2>1
  <2>3. F[K \ {a}] \in Nat /\ F[K \ {a}] <= active
    BY <1>6, <2>1
  <2> QED
    BY <1>3, <2>2, <2>3
<1>8. CASE a \notin K
  <2>1. K \in SUBSET K /\ K \subseteq {b}
    BY <1>5, <1>8
  <2> QED
    BY <1>3, <1>6, <2>1
<1> QED
  BY <1>7, <1>8

(* A departure the inventory names once, and says as much about as was     *)
(* held before, has the seats of that row.                                 *)
LEMMA SeatsOfRow ==
  ASSUME NEW before, NEW rows, NEW d,
         \A key \in DOMAIN before.seats : \E e : key = <<e, "confirmed">> \/ key = <<e, "active">>,
         DOMAIN rows = 1 .. Len(rows), Len(rows) \in Nat,
         \A i \in DOMAIN rows : rows[i].confirmed \in Nat /\ rows[i].active \in Nat,
         NEW after, after.seats = UpsertInventory(before.seats, rows),
         NamedOnce(rows, d), Restated(before, rows, d)
  PROVE  \E i \in DOMAIN rows :
           rows[i].id = d /\ SeatsOf(after, d) \in 0 .. rows[i].confirmed + rows[i].active
<1> DEFINE Of == {i \in DOMAIN rows : rows[i].id = d}
           keys == {rows[i].id : i \in DOMAIN rows} \X {"confirmed", "active"}
           held == {k \in keys : Holding(rows, k) # {}}
           K == {k \in DOMAIN after.seats : k[1] = d}
<1>1. PICK i : Of = {i}
  <2>1. Of \in SUBSET (1 .. Len(rows))
    OBVIOUS
  <2>2. IsFiniteSet(1 .. Len(rows))
    <3>1. \A m, n \in Nat : IsFiniteSet(m .. n)
      BY FS_Interval
    <3>2. 1 \in Nat
      OBVIOUS
    <3> QED
      BY <3>1, <3>2
  <2>3. IsFiniteSet(Of)
    BY <2>1, <2>2, FS_Subset
  <2>4. Cardinality(Of) = 1
    BY DEF NamedOnce
  <2> HIDE DEF Of
  <2> QED
    BY <2>3, <2>4, FS_Singleton
<1>2. i \in DOMAIN rows /\ rows[i].id = d /\ i \in Nat
  BY <1>1
<1>3. after.seats = [k \in DOMAIN before.seats \cup held |->
                       IF Holding(rows, k) = {} THEN before.seats[k]
                       ELSE Quantity(rows[Max(Holding(rows, k))], k[2])]
  BY DEF UpsertInventory, ValuesOf
<1>4. ASSUME NEW k \in DOMAIN before.seats \cup held, k[1] = d
      PROVE  /\ k = <<d, "confirmed">> \/ k = <<d, "active">>
             /\ Holding(rows, k) = {i}
  <2>1. CASE k \in DOMAIN before.seats
    <3>1. PICK e : k = <<e, "confirmed">> \/ k = <<e, "active">>
      BY <2>1
    <3>2. e = d
      BY <1>4, <3>1
    <3>3. PICK j \in DOMAIN rows : rows[j].id = d /\ Quantity(rows[j], k[2]) > 0
      BY <1>4, <2>1 DEF Restated
    <3>4. j = i /\ j \in Holding(rows, k) /\ Holding(rows, k) \subseteq Of
      BY <1>1, <1>4, <3>3 DEF Holding
    <3> QED
      BY <1>1, <3>1, <3>2, <3>4
  <2>2. CASE k \in held
    <3>1. Holding(rows, k) # {} /\ Holding(rows, k) \subseteq Of
      BY <1>4, <2>2 DEF Holding
    <3>2. k = <<d, "confirmed">> \/ k = <<d, "active">>
      BY <1>4, <2>2
    <3> QED
      BY <1>1, <3>1, <3>2
  <2> QED
    BY <1>4, <2>1, <2>2
<1>5. Max({i}) = i
  <2>1. \E x \in {i} : \A y \in {i} : x >= y
    BY <1>2
  <2> QED
    BY <2>1, MaxIsGreatest
<1> HIDE DEF held
<1>6. ASSUME NEW k \in K
      PROVE  /\ k = <<d, "confirmed">> \/ k = <<d, "active">>
             /\ after.seats[k] = Quantity(rows[i], k[2])
  <2>1. k \in DOMAIN before.seats \cup held /\ k[1] = d
    BY <1>3
  <2>2. Holding(rows, k) = {i}
    BY <1>4, <2>1
  <2> QED
    BY <1>3, <1>4, <1>5, <2>1, <2>2
<1> DEFINE g == [k \in K |-> after.seats[k]]
<1>7. SeatsOf(after, d) = SumFunction(g)
  BY DEF SeatsOf
<1>8. /\ K \in SUBSET {<<d, "confirmed">>, <<d, "active">>} /\ DOMAIN g = K
      /\ \A k \in K : g[k] = Quantity(rows[i], k[2])
  BY <1>6
<1> HIDE DEF K, g
<1>9. /\ <<d, "confirmed">> \in K => g[<<d, "confirmed">>] = rows[i].confirmed
      /\ <<d, "active">> \in K => g[<<d, "active">>] = rows[i].active
  BY <1>8 DEF Quantity
<1>10. rows[i].confirmed \in Nat /\ rows[i].active \in Nat
  BY <1>2
<1>11. SumFunction(g) \in 0 .. rows[i].confirmed + rows[i].active
  BY <1>8, <1>9, <1>10, TwoKinds
<1> QED
  BY <1>2, <1>7, <1>11

(* A load leaves a catalogue, and one that is sound for these files.       *)
LEMMA SeedKeeps ==
  ASSUME NEW before, CatalogueInv(before), NEW f, File(f)
  PROVE  LET after == Seed(before, f)
         IN  CatalogueInv(after) /\ Seeded(before, f, after)
<1> DEFINE after == Seed(before, f)
           ids == {f.schedule[i].id : i \in DOMAIN f.schedule}
           codes == {f.pickups[i].code : i \in DOMAIN f.pickups}
           retired == RetireDepartures(before.departures, ids)
           written == UpsertTripDepartures(retired, f.schedule, f.inventory)
           points == UpsertPickupPoints(RetirePickupPoints(before.pickups, codes), f.pickups)
           seats == UpsertInventory(before.seats, f.inventory)
<1>1. \/ after = before
      \/ /\ Readable(f) /\ written.ok
         /\ after = [departures |-> written.rows, pickups |-> points, seats |-> seats]
  BY SeedEither
<1>2. CASE after = before
  <2> HIDE DEF after
  <2>1. CatalogueInv(after)
    BY <1>2
  <2>2. Seeded(before, f, after)
    BY <1>2, <2>1 DEF Seeded, CatalogueInv, SlotsDiffer
  <2> QED
    BY <2>1, <2>2 DEF after
<1>3. ASSUME Readable(f), written.ok,
             after = [departures |-> written.rows, pickups |-> points, seats |-> seats]
      PROVE  CatalogueInv(after) /\ Seeded(before, f, after)
  <2> DEFINE table == Upserted(retired, f.schedule, f.inventory, Len(f.schedule))
  <2>1. /\ Listed(f.schedule)
        /\ Len(f.schedule) \in Nat /\ DOMAIN f.schedule = 1 .. Len(f.schedule)
        /\ Len(f.schedule) \in 0 .. Len(f.schedule)
    BY <1>3, ReadableRows DEF Listed
  <2>2. written.rows = table
    <3> HIDE DEF retired
    <3> QED
      BY DEF UpsertTripDepartures
  <2>3. /\ after.departures = table /\ after.pickups = points /\ after.seats = seats
    <3> HIDE DEF after, written, table, points, seats
    <3> QED
      BY <1>3, <2>2
  <2>4. /\ DOMAIN retired = DOMAIN before.departures /\ SlotsDiffer(retired)
        /\ \A d \in DOMAIN retired :
             /\ DepartureFields \subseteq DOMAIN retired[d]
             /\ d \notin ids => retired[d].status = "CANCELLED"
    BY RetiredRows DEF CatalogueInv
  <2>5. SlotsDiffer(table)
    <3>1. SlotsDiffer(written.rows)
      <4> HIDE DEF retired
      <4> QED
        BY <1>3, <2>1, <2>4, SlotsStayApart
    <3> QED
      BY <2>2, <3>1
  <2>6. Written(table, retired, f.schedule, f.inventory, Len(f.schedule))
    <3> HIDE DEF retired
    <3> QED
      BY <2>1, UpsertedRows
  <2> HIDE DEF table, retired
  <2>7. ASSUME NEW i \in DOMAIN f.schedule
        PROVE  LET row == table[f.schedule[i].id]
               IN  /\ DepartureFields \subseteq DOMAIN row
                   /\ row.status = f.schedule[i].status /\ row.stops = f.schedule[i].stops
                   /\ row.capacity = f.schedule[i].capacity
    <3> DEFINE v == VersionOf(retired, f.schedule[i].id, f.inventory)
    <3>1. table[f.schedule[i].id] = TripDeparture(f.schedule[i], v)
      BY <2>1, <2>6 DEF Written
    <3> HIDE DEF v
    <3> QED
      BY <3>1 DEF TripDeparture, DepartureFields
  <2>8. ASSUME NEW d \in DOMAIN table, d \notin ids
        PROVE  d \in DOMAIN retired /\ table[d] = retired[d]
    BY <2>1, <2>6, <2>8 DEF Written
  <2>9. ASSUME NEW d \in DOMAIN table
        PROVE  DepartureFields \subseteq DOMAIN table[d]
    <3>1. CASE d \in ids
      BY <2>7, <3>1
    <3>2. CASE d \notin ids
      BY <2>4, <2>8, <3>2
    <3> QED
      BY <3>1, <3>2
  <2>10. \A key \in DOMAIN seats : \E d : key = <<d, "confirmed">> \/ key = <<d, "active">>
    <3>1. \A key \in DOMAIN before.seats :
            \E d : key = <<d, "confirmed">> \/ key = <<d, "active">>
      BY DEF CatalogueInv
    <3> DEFINE keys == {f.inventory[i].id : i \in DOMAIN f.inventory} \X {"confirmed", "active"}
    <3>2. \A key \in DOMAIN seats : key \in DOMAIN before.seats \/ key \in keys
      BY DEF UpsertInventory, ValuesOf
    <3>3. \A key \in keys : \E d : key = <<d, "confirmed">> \/ key = <<d, "active">>
      OBVIOUS
    <3> HIDE DEF seats, keys
    <3> QED
      BY <3>1, <3>2, <3>3
  <2>11. CatalogueInv(after)
    <3> HIDE DEF after, seats, points
    <3> QED
      BY <2>3, <2>5, <2>9, <2>10 DEF CatalogueInv
  <2>12. ASSUME NEW d \in DOMAIN table, table[d].status = "SCHEDULED"
         PROVE  \E i \in DOMAIN f.schedule :
                  f.schedule[i].id = d /\ f.schedule[i].status = "SCHEDULED"
    <3>1. d \in ids
      BY <2>4, <2>8, <2>12
    <3> QED
      BY <2>7, <2>12, <3>1
  <2>13. ASSUME NEW d \in DOMAIN table, table[d].status = "SCHEDULED", f.pickups # <<>>,
                NEW code \in table[d].stops
         PROVE  code \in DOMAIN points /\ points[code]
    <3>1. PICK i \in DOMAIN f.schedule : f.schedule[i].id = d
      BY <2>12, <2>13
    <3>2. code \in f.schedule[i].stops
      BY <2>7, <2>13, <3>1
    <3>3. Refers(code, codes) /\ codes # {}
      BY <1>3, <2>13, <3>2, ReadableRows
    <3>4. code \in codes
      BY <3>3 DEF Refers
    <3> HIDE DEF codes
    <3>5. points = [c \in DOMAIN RetirePickupPoints(before.pickups, codes) \cup codes |->
                      c \in codes \/ RetirePickupPoints(before.pickups, codes)[c]]
      BY DEF UpsertPickupPoints, ValuesOf, codes
    <3> HIDE DEF points
    <3> QED
      BY <3>4, <3>5, Zenon
  <2>14. ASSUME NEW d \in DOMAIN table, d \in ids, NamedOnce(f.inventory, d),
                Restated(before, f.inventory, d)
         PROVE  SeatsOf(after, d) <= table[d].capacity
    <3>1. PICK j \in DOMAIN f.schedule : f.schedule[j].id = d
      BY <2>14
    <3>2. /\ DOMAIN f.inventory = 1 .. Len(f.inventory) /\ Len(f.inventory) \in Nat
          /\ \A i \in DOMAIN f.inventory :
               f.inventory[i].confirmed \in Nat /\ f.inventory[i].active \in Nat
      BY <1>3, ReadableRows
    <3>3. \A key \in DOMAIN before.seats :
            \E e : key = <<e, "confirmed">> \/ key = <<e, "active">>
      BY DEF CatalogueInv
    <3>4. after.seats = UpsertInventory(before.seats, f.inventory)
      BY <2>3
    <3> HIDE DEF after
    <3>5. PICK i \in DOMAIN f.inventory :
            /\ f.inventory[i].id = d
            /\ SeatsOf(after, d) \in 0 .. f.inventory[i].confirmed + f.inventory[i].active
      BY <2>14, <3>2, <3>3, <3>4, SeatsOfRow
    <3>6. f.inventory[i].confirmed + f.inventory[i].active <= f.schedule[j].capacity
      BY <1>3, <3>1, <3>5, ReadableRows
    <3>7. table[d].capacity = f.schedule[j].capacity /\ f.schedule[j].capacity \in Nat
      BY <1>3, <2>7, <3>1, ReadableRows
    <3>8. f.inventory[i].confirmed \in Nat /\ f.inventory[i].active \in Nat
      BY <3>2
    <3> QED
      BY <3>5, <3>6, <3>7, <3>8
  <2>15. Seeded(before, f, after)
    <3>1. ValuesOf(f.schedule, LAMBDA r : r.id) = ids
      BY DEF ValuesOf
    <3> HIDE DEF after, ids, points
    <3> QED
      BY <2>3, <2>5, <2>12, <2>13, <2>14, <3>1, ZenonT(60) DEF Seeded, SlotsDiffer
  <2> QED
    BY <2>11, <2>15
<1> HIDE DEF after
<1> QED
  BY <1>1, <1>2, <1>3 DEF after

(* Seeding the same files twice changes nothing, and after any load no two *)
(* departures share a slot, what is on sale is in the files and stops      *)
(* where it may, and the seed's own bookings overbook no departure the     *)
(* inventory restates (schedule-fixture.ts 464-493, 548-750).              *)
THEOREM SeedsAreSound == DecisionsSpec => []SeedIsSound
<1>1. DecisionsInit => DeskDecided
  BY DeskStep
<1>2. DeskDecided /\ [Next]_<<paymentVars, desk>> => DeskDecided'
  BY DeskStep
<1>3. ASSUME DeskDecided PROVE SeedIsSound
  <2>1. SUFFICES ASSUME desk.topic = "seeded"
                 PROVE  /\ desk.result.twice = desk.result.once
                        /\ Seeded(EmptyCatalogue, desk.case.first, desk.result.once)
                        /\ Seeded(desk.result.once, desk.case.second, desk.result.then)
    BY DEF SeedIsSound
  <2>2. /\ desk.case \in Loads
        /\ desk.result.once = Seed(EmptyCatalogue, desk.case.first)
        /\ desk.result.twice = Seed(desk.result.once, desk.case.first)
        /\ desk.result.then = Seed(desk.result.once, desk.case.second)
    BY <1>3, <2>1 DEF DeskDecided
  <2>3. File(desk.case.first) /\ File(desk.case.second)
    BY <2>2, LoadsAssumption
  <2>4. CatalogueInv(EmptyCatalogue)
    BY DEF CatalogueInv, SlotsDiffer, EmptyCatalogue, NoRows
  <2>5. /\ CatalogueInv(desk.result.once)
        /\ Seeded(EmptyCatalogue, desk.case.first, desk.result.once)
    BY <2>2, <2>3, <2>4, SeedKeeps
  <2>6. Seeded(desk.result.once, desk.case.second, desk.result.then)
    BY <2>2, <2>3, <2>5, SeedKeeps
  <2>7. desk.result.twice = desk.result.once
    BY <2>2, <2>3, SeedAgain
  <2> QED
    BY <2>5, <2>6, <2>7
<1> QED
  BY <1>1, <1>2, <1>3, PTL DEF DecisionsSpec
=============================================================================
