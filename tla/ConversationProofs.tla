------------------------- MODULE ConversationProofs -------------------------
(***************************************************************************)
(* Theorems about HistoryNotice, and with it TranscriptAdmission and       *)
(* RevenueTwin, for any number of calls, turns, offers, requests in        *)
(* flight and seats: the safety properties of ConversationProperties.      *)
(***************************************************************************)
EXTENDS ConversationProperties, BookingFlowProofs, RevenueTwinPolicyProofs

(***************************************************************************)
(* The rows and what a request in flight remembers.                        *)
(***************************************************************************)
AnyTurn == TurnId \cup Listed
Saying == {[kind |-> Said[id].kind, at |-> Said[id].at] : id \in AnyTurn}
OfferRef == [booking : Booking, eval : Nat, rank : 1 .. 3]
ImpactRow == [passengers : Nat, gross : Nat, discount : Nat, net : Nat]

(* No offer shows more seats than its bus has. *)
OfferedRow == {o \in OfferRow : o.seats <= Capacity[o.dep]}
Offers == {s \in Seq(OfferedRow) : Len(s) <= 3}
EvalRow ==
  [status : EvaluationStatus, dep : Departure, impact : ImpactRow,
   waiting : 0 .. MaxParty, offers : Offers]

Admitted ==
  [pc : {"admitted"}, booking : Call, turn : AnyTurn, at : 0 .. MaxTime,
   seenCall : CallStatus, seenTurns : Nat, seenBooking : BookingRow]
Piped == [pc : {"evaluate", "select"}, booking : Call, says : Saying]
Evaluated ==
  [pc : {"evaluated"}, booking : Call, row : EvalRow, next : Piped \cup {Idle}]
Accepting == [pc : {"accepting"}, ref : OfferRef, says : Saying]
Waiting == [pc : {"waiting"}, booking : Call, eval : Nat]
Declining == [pc : {"declining"}, ref : OfferRef]
Ending == [pc : {"ending"}, booking : Call, seenCall : CallStatus]
DeskRow ==
  Admitted \cup Piped \cup Evaluated \cup Accepting \cup Waiting \cup Declining
    \cup Ending \cup {Idle}

NoticeRow ==
  [pc : {"none", "stored", "appending", "done", "failed"}, todo : Seq(Listed),
   by : Worker \cup {None}]

Types ==
  /\ InventoryTypeOK
  /\ booking \in [Booking -> BookingRow]
  /\ evals \in [Booking -> Seq(EvalRow)]
  /\ desk \in [Worker -> DeskRow]
  /\ call \in [Booking -> CallStatus]
  /\ transcript \in [Booking -> Seq(AnyTurn)]
  /\ notice \in [Booking -> NoticeRow]

(* A request decides about offers and evaluations that are there, and what *)
(* it is about to store has not been decided by anyone.                    *)
RequestsReferToRows ==
  \A w \in Worker :
    /\ desk[w].pc \in {"accepting", "declining"} => desk[w].ref \in AllRefs
    /\ desk[w].pc = "waiting" => desk[w].eval \in DOMAIN evals[desk[w].booking]
    /\ desk[w].pc = "evaluated" =>
         \A r \in DOMAIN desk[w].row.offers :
           desk[w].row.offers[r].status = "OPEN" /\ desk[w].row.offers[r].key = None

(* Where an offer has been accepted no other is open. *)
NoneOpenBesideAccepted ==
  \A p, q \in AllRefs :
    (p.booking = q.booking /\ p.eval = q.eval /\ OfferAt(p).status = "ACCEPTED") =>
       OfferAt(q).status # "OPEN"

(* A decision key belongs to one offer. *)
KeysDiffer ==
  \A p, q \in AllRefs :
    (OfferAt(p).key # None /\ OfferAt(p).key = OfferAt(q).key) => p = q

(* The reservation of an accepted offer. *)
AcceptedIsReserved ==
  \A ref \in AllRefs : OfferAt(ref).status = "ACCEPTED" =>
    /\ OfferAt(ref).key \in HoldKey
    /\ LET hold == holds[OfferAt(ref).key]
       IN  /\ hold # NoHold
           /\ hold.booking = ref.booking
           /\ hold.departure = OfferAt(ref).dep
           /\ hold.quantity = OfferAt(ref).pax

(* A turn that has been admitted and still may commit is not stored; it    *)
(* has captured a time of the past.                                        *)
AdmittedIsNew ==
  \A w \in Worker : desk[w].pc = "admitted" =>
    /\ desk[w].at <= now
    /\ desk[w].seenTurns <= Len(transcript[desk[w].booking])
    /\ TurnsUnchanged(desk[w]) => desk[w].turn \notin Stored(desk[w].booking)

(* Evaluations stored and about to be. *)
Evaluating(b) == {w \in Worker : desk[w].pc = "evaluated" /\ desk[w].booking = b}
EvaluationsBounded ==
  \A b \in Booking :
    Len(evals[b]) + Cardinality(Evaluating(b)) <= MaxEvals + Cardinality(Worker)

(* What is left of the history: the turns still to append, and the one     *)
(* whose append has begun and not committed.                               *)
UnderWay(b, said) ==
  IF notice[b].by # None /\ desk[notice[b].by].pc = "admitted"
       /\ Said[desk[notice[b].by].turn] = said
  THEN 1 ELSE 0
WordsLeft(b, said) ==
  TimesStored(b, said) + Cardinality(SameWords(notice[b].todo, said)) + UnderWay(b, said)
    >= TimesListed(said)
LeftOf(b) ==
  /\ notice[b].by # None =>
       /\ notice[b].pc = "appending" /\ desk[notice[b].by] # Idle
       /\ desk[notice[b].by].pc = "admitted" => desk[notice[b].by].booking = b
  /\ notice[b].pc = "done" => notice[b].todo = <<>> /\ notice[b].by = None
  /\ notice[b].pc = "appending" /\ notice[b].by = None => notice[b].todo # <<>>
  /\ notice[b].pc \in {"appending", "done"} => \A id \in Listed : WordsLeft(b, Said[id])
HistoryLeft == \A b \in Call : LeftOf(b)

ConversationInv ==
  /\ Types
  /\ RequestsReferToRows
  /\ NoneOpenBesideAccepted
  /\ OneAcceptedPerEvaluation
  /\ KeysDiffer
  /\ AcceptedIsReserved
  /\ AdmittedIsNew
  /\ TurnStoredOnce
  /\ EvaluationsBounded
  /\ HistoryLeft
-----------------------------------------------------------------------------
(***************************************************************************)
(* The offers of a table of evaluations, and what the four statements that *)
(* write to it do.                                                         *)
(***************************************************************************)
EvalTable == [Booking -> Seq(EvalRow)]

IsRef(table, p) ==
  /\ p \in OfferRef
  /\ p.eval \in DOMAIN table[p.booking]
  /\ p.rank \in DOMAIN table[p.booking][p.eval].offers
OfferIn(table, p) == table[p.booking][p.eval].offers[p.rank]

(* A stored offer is a row, its evaluation has at most three. *)
LEMMA OfferRows ==
  ASSUME NEW table \in EvalTable, NEW b \in Booking, NEW e \in DOMAIN table[b]
  PROVE  /\ table[b] \in Seq(EvalRow) /\ e \in 1 .. Len(table[b]) /\ e \in Nat
         /\ table[b][e] \in EvalRow
         /\ table[b][e].offers \in Seq(OfferedRow) /\ Len(table[b][e].offers) <= 3
         /\ \A r \in DOMAIN table[b][e].offers :
              r \in 1 .. 3 /\ r \in 1 .. Len(table[b][e].offers)
                /\ table[b][e].offers[r] \in OfferedRow
<1>1. table[b] \in Seq(EvalRow)
  BY DEF EvalTable
<1>2. DOMAIN table[b] = 1 .. Len(table[b]) /\ Len(table[b]) \in Nat
  BY <1>1
<1>3. table[b][e] \in EvalRow
  BY <1>1, <1>2
<1>4. table[b][e].offers \in Seq(OfferedRow) /\ Len(table[b][e].offers) <= 3
  BY <1>3 DEF EvalRow, Offers
<1>5. /\ DOMAIN table[b][e].offers = 1 .. Len(table[b][e].offers)
      /\ Len(table[b][e].offers) \in Nat
  BY <1>4
<1>6. \A r \in DOMAIN table[b][e].offers : r \in 1 .. 3 /\ table[b][e].offers[r] \in OfferedRow
  BY <1>4, <1>5
<1> QED
  BY <1>1, <1>2, <1>3, <1>4, <1>5, <1>6

(* The references of the model are the places of those rows. *)
LEMMA RefsAreRows == evals \in EvalTable => \A p : p \in AllRefs <=> IsRef(evals, p)
<1> SUFFICES ASSUME evals \in EvalTable
             PROVE  \A p : p \in AllRefs <=> IsRef(evals, p)
  OBVIOUS
<1>1. ASSUME NEW p, p \in AllRefs
      PROVE  IsRef(evals, p)
  <2>1. PICK b \in Booking : p \in Refs(b)
    BY <1>1 DEF AllRefs
  <2>2. /\ p \in [booking : {b}, eval : DOMAIN evals[b], rank : 1 .. 3]
        /\ p.rank \in DOMAIN evals[b][p.eval].offers
    BY <2>1 DEF Refs
  <2>3. p.eval \in Nat
    BY <2>2, OfferRows
  <2> QED
    BY <2>2, <2>3 DEF IsRef, OfferRef
<1>2. ASSUME NEW p, IsRef(evals, p)
      PROVE  p \in AllRefs
  <2>1. /\ p.booking \in Booking /\ p.rank \in 1 .. 3
        /\ p.eval \in DOMAIN evals[p.booking]
        /\ p = [booking |-> p.booking, eval |-> p.eval, rank |-> p.rank]
        /\ p.rank \in DOMAIN evals[p.booking][p.eval].offers
    BY <1>2 DEF IsRef, OfferRef
  <2>2. p = Ref(p.booking, p.eval, p.rank)
    BY <2>1 DEF Ref
  <2>3. p \in Refs(p.booking)
    BY <2>1, <2>2 DEF Refs
  <2> QED
    BY <2>1, <2>3 DEF AllRefs
<1> QED
  BY <1>1, <1>2

(* Storing an evaluation adds its offers and leaves the others alone. *)
Appended(table, b, row) == [table EXCEPT ![b] = Append(@, row)]

(* An appended evaluation adds its offers to those of its call. *)
LEMMA AppendedOffers ==
  ASSUME NEW table \in EvalTable, NEW b \in Booking, NEW row \in EvalRow
  PROVE  LET new == Appended(table, b, row)
         IN  /\ new \in EvalTable
             /\ Len(new[b]) = Len(table[b]) + 1
             /\ \A c \in Booking \ {b} : new[c] = table[c]
             /\ \A p : IsRef(table, p) => IsRef(new, p) /\ OfferIn(new, p) = OfferIn(table, p)
             /\ \A p : IsRef(new, p) /\ ~IsRef(table, p) =>
                  /\ p.booking = b /\ p.eval = Len(table[b]) + 1
                  /\ p.rank \in DOMAIN row.offers
                  /\ OfferIn(new, p) = row.offers[p.rank]
<1> DEFINE new == Appended(table, b, row)
<1>1. table[b] \in Seq(EvalRow) /\ Len(table[b]) \in Nat
  BY DEF EvalTable
<1>2. /\ new[b] = Append(table[b], row)
      /\ \A c \in Booking \ {b} : new[c] = table[c]
      /\ DOMAIN new = Booking
      /\ new = [c \in Booking |-> new[c]]
  BY DEF EvalTable, Appended
<1> HIDE DEF new
<1>3. /\ new[b] \in Seq(EvalRow) /\ Len(new[b]) = Len(table[b]) + 1
      /\ DOMAIN new[b] = 1 .. Len(table[b]) + 1
      /\ \A e \in 1 .. Len(table[b]) : new[b][e] = table[b][e]
      /\ new[b][Len(table[b]) + 1] = row
  BY <1>1, <1>2
<1>4. new \in EvalTable
  BY <1>2, <1>3 DEF EvalTable
<1>5. DOMAIN table[b] = 1 .. Len(table[b])
  BY <1>1
<1>6. ASSUME NEW p, IsRef(table, p)
      PROVE  IsRef(new, p) /\ OfferIn(new, p) = OfferIn(table, p)
  <2>1. p.booking \in Booking
    BY <1>6 DEF IsRef, OfferRef
  <2>2. p.eval \in DOMAIN new[p.booking] /\ new[p.booking][p.eval] = table[p.booking][p.eval]
    BY <1>1, <1>2, <1>3, <1>5, <1>6, <2>1 DEF IsRef
  <2> QED
    BY <1>6, <2>2 DEF IsRef, OfferIn
<1>7. ASSUME NEW p, IsRef(new, p), ~IsRef(table, p)
      PROVE  /\ p.booking = b /\ p.eval = Len(table[b]) + 1
             /\ p.rank \in DOMAIN row.offers
             /\ OfferIn(new, p) = row.offers[p.rank]
  <2>1. p.booking \in Booking
    BY <1>7 DEF IsRef, OfferRef
  <2>2. p.booking = b
    BY <1>2, <1>7, <2>1 DEF IsRef
  <2>3. p.eval = Len(table[b]) + 1
    BY <1>1, <1>3, <1>5, <1>7, <2>2, SMTT(40) DEF IsRef
  <2> QED
    BY <1>3, <1>7, <2>2, <2>3 DEF IsRef, OfferIn
<1> QED
  BY <1>2, <1>3, <1>4, <1>6, <1>7 DEF new

(* Writing the offers of one evaluation: as many as before. *)
Written(table, b, e, offers) == [table EXCEPT ![b][e].offers = offers]

(* Writing the offers of an evaluation keeps the offers of all others. *)
LEMMA WrittenOffers ==
  ASSUME NEW table \in EvalTable, NEW b \in Booking, NEW e \in DOMAIN table[b],
         NEW offers \in Offers, DOMAIN offers = DOMAIN table[b][e].offers
  PROVE  LET new == Written(table, b, e, offers)
         IN  /\ new \in EvalTable
             /\ \A c \in Booking : Len(new[c]) = Len(table[c])
             /\ \A p : IsRef(new, p) <=> IsRef(table, p)
             /\ \A p : IsRef(table, p) =>
                  OfferIn(new, p) = IF p.booking = b /\ p.eval = e THEN offers[p.rank]
                                    ELSE OfferIn(table, p)
<1> DEFINE row == [table[b][e] EXCEPT !.offers = offers]
           new == Written(table, b, e, offers)
<1>1. /\ table[b] \in Seq(EvalRow) /\ e \in 1 .. Len(table[b]) /\ table[b][e] \in EvalRow
      /\ Len(table[b]) \in Nat /\ DOMAIN table[b] = 1 .. Len(table[b])
  BY OfferRows
<1>2. row \in EvalRow /\ row.offers = offers
  BY <1>1 DEF EvalRow
<1>3. /\ new[b] = [table[b] EXCEPT ![e] = row]
      /\ \A c \in Booking \ {b} : new[c] = table[c]
      /\ new = [c \in Booking |-> new[c]]
  BY DEF EvalTable, Written
<1> HIDE DEF row, new
<1>4. /\ new[b] \in Seq(EvalRow) /\ Len(new[b]) = Len(table[b])
      /\ DOMAIN new[b] = DOMAIN table[b]
      /\ \A f \in DOMAIN table[b] : new[b][f] = IF f = e THEN row ELSE table[b][f]
  BY <1>1, <1>2, <1>3
<1>5. new \in EvalTable
  BY <1>3, <1>4 DEF EvalTable
<1>6. ASSUME NEW p
      PROVE  /\ IsRef(new, p) <=> IsRef(table, p)
             /\ IsRef(table, p) =>
                  OfferIn(new, p) = IF p.booking = b /\ p.eval = e THEN offers[p.rank]
                                    ELSE OfferIn(table, p)
  <2>1. CASE p \notin OfferRef
    BY <2>1 DEF IsRef
  <2>2. CASE p \in OfferRef
    <3>1. p.booking \in Booking
      BY <2>2 DEF OfferRef
    <3>2. DOMAIN new[p.booking] = DOMAIN table[p.booking]
      BY <1>3, <1>4, <3>1
    <3>3. p.eval \in DOMAIN table[p.booking] =>
            new[p.booking][p.eval] = IF p.booking = b /\ p.eval = e THEN row
                                     ELSE table[p.booking][p.eval]
      BY <1>3, <1>4, <3>1
    <3> QED
      BY <1>2, <3>2, <3>3 DEF IsRef, OfferIn
  <2> QED
    BY <2>1, <2>2
<1> QED
  BY <1>3, <1>4, <1>5, <1>6 DEF new

(* What a decision makes of an offer. *)
Taken(offer, k) == [offer EXCEPT !.status = "ACCEPTED", !.key = k]
Refused(offer, k) == [offer EXCEPT !.status = "REQUIRES_REEVALUATION", !.key = k]
Declined(offer) == [offer EXCEPT !.status = "DECLINED"]
Superseded(offer) == [offer EXCEPT !.status = "SUPERSEDED"]

(* An offer that is taken or refused bears the key it was decided under. *)
LEMMA DecidedRows ==
  ASSUME NEW offer \in OfferedRow, NEW k \in HoldKey
  PROVE  /\ Taken(offer, k) \in OfferedRow
         /\ Taken(offer, k).status = "ACCEPTED" /\ Taken(offer, k).key = k
         /\ Taken(offer, k).dep = offer.dep /\ Taken(offer, k).pax = offer.pax
         /\ Refused(offer, k) \in OfferedRow
         /\ Refused(offer, k).status = "REQUIRES_REEVALUATION" /\ Refused(offer, k).key = k
  BY DEF OfferedRow, OfferRow, OfferStatus, Taken, Refused

(* An offer that is declined or superseded keeps its key. *)
LEMMA KeptRows ==
  ASSUME NEW offer \in OfferedRow
  PROVE  /\ Declined(offer) \in OfferedRow
         /\ Declined(offer).status = "DECLINED" /\ Declined(offer).key = offer.key
         /\ Superseded(offer) \in OfferedRow
         /\ Superseded(offer).status = "SUPERSEDED" /\ Superseded(offer).key = offer.key
  BY DEF OfferedRow, OfferRow, OfferStatus, Declined, Superseded

(* Deciding one offer. *)
LEMMA SetOfferEffect ==
  ASSUME NEW table \in EvalTable, NEW ref, IsRef(table, ref), NEW offer \in OfferedRow
  PROVE  LET new == SetOffer(table, ref, offer)
         IN  /\ new \in EvalTable
             /\ \A c \in Booking : Len(new[c]) = Len(table[c])
             /\ \A p : IsRef(new, p) <=> IsRef(table, p)
             /\ \A p : IsRef(table, p) =>
                  OfferIn(new, p) = IF p = ref THEN offer ELSE OfferIn(table, p)
<1> DEFINE b == ref.booking
           e == ref.eval
           offers == [table[b][e].offers EXCEPT ![ref.rank] = offer]
           new == SetOffer(table, ref, offer)
<1>1. b \in Booking /\ e \in DOMAIN table[b] /\ ref.rank \in DOMAIN table[b][e].offers
  BY DEF IsRef, OfferRef
<1>2. table[b][e].offers \in Seq(OfferedRow) /\ Len(table[b][e].offers) <= 3
  BY <1>1, OfferRows
<1>3. /\ offers \in Offers /\ DOMAIN offers = DOMAIN table[b][e].offers
      /\ \A r \in DOMAIN offers :
           offers[r] = IF r = ref.rank THEN offer ELSE table[b][e].offers[r]
  BY <1>1, <1>2 DEF Offers
<1>4. new = Written(table, b, e, offers)
  BY DEF SetOffer, Written
<1> HIDE DEF b, e, offers, new
<1>5. /\ new \in EvalTable
      /\ \A c \in Booking : Len(new[c]) = Len(table[c])
      /\ \A p : IsRef(new, p) <=> IsRef(table, p)
      /\ \A p : IsRef(table, p) =>
           OfferIn(new, p) = IF p.booking = b /\ p.eval = e THEN offers[p.rank]
                             ELSE OfferIn(table, p)
  BY <1>1, <1>3, <1>4, WrittenOffers
<1>6. ASSUME NEW p, IsRef(table, p)
      PROVE  OfferIn(new, p) = IF p = ref THEN offer ELSE OfferIn(table, p)
  <2>1. p \in OfferRef /\ ref \in OfferRef /\ p.rank \in DOMAIN table[p.booking][p.eval].offers
    BY <1>6 DEF IsRef
  <2>2. p = ref <=> p.booking = b /\ p.eval = e /\ p.rank = ref.rank
    BY <2>1 DEF OfferRef, b, e
  <2> QED
    BY <1>3, <1>5, <1>6, <2>1, <2>2 DEF OfferIn
<1> QED
  BY <1>5, <1>6 DEF new

(* Accepting one offer supersedes the open ones beside it. *)
LEMMA AcceptedRowEffect ==
  ASSUME evals \in EvalTable, NEW ref, IsRef(evals, ref), NEW k \in HoldKey
  PROVE  LET new == AcceptedRow(ref, k)
         IN  /\ new \in EvalTable
             /\ \A c \in Booking : Len(new[c]) = Len(evals[c])
             /\ \A p : IsRef(new, p) <=> IsRef(evals, p)
             /\ OfferIn(new, ref) = Taken(OfferIn(evals, ref), k)
             /\ \A p : IsRef(evals, p) /\ p # ref =>
                  \/ /\ OfferIn(new, p) = OfferIn(evals, p)
                     /\ \/ p.booking # ref.booking \/ p.eval # ref.eval
                        \/ OfferIn(evals, p).status # "OPEN"
                  \/ /\ p.booking = ref.booking /\ p.eval = ref.eval
                     /\ OfferIn(evals, p).status = "OPEN"
                     /\ OfferIn(new, p) = Superseded(OfferIn(evals, p))
<1> DEFINE b == ref.booking
           e == ref.eval
           old == evals[b][e].offers
           offers == [r \in DOMAIN old |->
                        IF r = ref.rank THEN Taken(old[r], k)
                        ELSE IF old[r].status = "OPEN"
                        THEN Superseded(old[r])
                        ELSE old[r]]
           new == AcceptedRow(ref, k)
<1>1. b \in Booking /\ e \in DOMAIN evals[b] /\ ref.rank \in DOMAIN old
  BY DEF IsRef, OfferRef
<1>2. old \in Seq(OfferedRow) /\ Len(old) <= 3 /\ Len(old) \in Nat /\ DOMAIN old = 1 .. Len(old)
  BY <1>1, OfferRows
<1>3. new = Written(evals, b, e, offers)
  BY DEF AcceptedRow, Written, Taken, Superseded
<1> HIDE DEF old
<1>4. ASSUME NEW r \in DOMAIN old
      PROVE  offers[r] \in OfferedRow
    BY <1>2, DecidedRows, KeptRows
<1>5. offers \in Offers /\ DOMAIN offers = DOMAIN old
  <2>1. DOMAIN offers = 1 .. Len(old)
    BY <1>2
  <2>2. offers = [r \in 1 .. Len(old) |-> offers[r]]
    BY <1>2
  <2> HIDE DEF offers
  <2>3. offers \in Seq(OfferedRow) /\ Len(offers) = Len(old)
    BY <1>2, <1>4, <2>1, <2>2
  <2> QED
    BY <1>2, <2>1, <2>3 DEF Offers
<1>6. \A r \in DOMAIN old :
        offers[r] = IF r = ref.rank THEN Taken(old[r], k)
                    ELSE IF old[r].status = "OPEN" THEN Superseded(old[r])
                    ELSE old[r]
  OBVIOUS
<1> HIDE DEF b, e, offers, new
<1>7. /\ new \in EvalTable
      /\ \A c \in Booking : Len(new[c]) = Len(evals[c])
      /\ \A p : IsRef(new, p) <=> IsRef(evals, p)
      /\ \A p : IsRef(evals, p) =>
           OfferIn(new, p) = IF p.booking = b /\ p.eval = e THEN offers[p.rank]
                             ELSE OfferIn(evals, p)
  <2>1. DOMAIN offers = DOMAIN evals[b][e].offers
    BY <1>5 DEF old
  <2> QED
    BY <1>1, <1>3, <1>5, <2>1, WrittenOffers
<1>8. OfferIn(new, ref) = Taken(OfferIn(evals, ref), k)
  BY <1>1, <1>6, <1>7 DEF OfferIn, old, b, e
<1>9. ASSUME NEW p, IsRef(evals, p), p # ref
      PROVE  \/ /\ OfferIn(new, p) = OfferIn(evals, p)
                /\ \/ p.booking # ref.booking \/ p.eval # ref.eval
                   \/ OfferIn(evals, p).status # "OPEN"
             \/ /\ p.booking = ref.booking /\ p.eval = ref.eval
                /\ OfferIn(evals, p).status = "OPEN"
                /\ OfferIn(new, p) = Superseded(OfferIn(evals, p))
  <2>1. CASE p.booking # b \/ p.eval # e
    BY <1>7, <1>9, <2>1 DEF b, e
  <2>2. CASE p.booking = b /\ p.eval = e
    <3>1. p.rank # ref.rank
      BY <1>9, <2>2 DEF IsRef, OfferRef, b, e
    <3>2. OfferIn(evals, p) = old[p.rank] /\ p.rank \in DOMAIN old
      BY <1>9, <2>2 DEF OfferIn, IsRef, old
    <3>3. OfferIn(new, p) = IF old[p.rank].status = "OPEN"
                            THEN Superseded(old[p.rank]) ELSE old[p.rank]
      BY <1>6, <1>7, <1>9, <2>2, <3>1, <3>2
    <3> QED
      BY <2>2, <3>2, <3>3 DEF b, e
  <2> QED
    BY <2>1, <2>2
<1> QED
  BY <1>7, <1>8, <1>9 DEF new

(* A waitlist entry touches no offer. *)
Waits(table, b, e, n) == [table EXCEPT ![b][e].waiting = n]

(* A waitlist entry leaves every offer as it was. *)
LEMMA WaitingEffect ==
  ASSUME NEW table \in EvalTable, NEW b \in Booking, NEW e \in DOMAIN table[b],
         NEW n \in 0 .. MaxParty
  PROVE  LET new == Waits(table, b, e, n)
         IN  /\ new \in EvalTable
             /\ \A c \in Booking : Len(new[c]) = Len(table[c])
             /\ \A p : IsRef(new, p) <=> IsRef(table, p)
             /\ \A p : IsRef(table, p) => OfferIn(new, p) = OfferIn(table, p)
<1> DEFINE row == [table[b][e] EXCEPT !.waiting = n]
           new == Waits(table, b, e, n)
<1>1. /\ table[b] \in Seq(EvalRow) /\ e \in 1 .. Len(table[b]) /\ table[b][e] \in EvalRow
      /\ Len(table[b]) \in Nat /\ DOMAIN table[b] = 1 .. Len(table[b])
  BY OfferRows
<1>2. row \in EvalRow /\ row.offers = table[b][e].offers
  BY <1>1 DEF EvalRow
<1>3. /\ new[b] = [table[b] EXCEPT ![e] = row]
      /\ \A c \in Booking \ {b} : new[c] = table[c]
      /\ new = [c \in Booking |-> new[c]]
  BY DEF EvalTable, Waits
<1> HIDE DEF row, new
<1>4. /\ new[b] \in Seq(EvalRow) /\ Len(new[b]) = Len(table[b])
      /\ DOMAIN new[b] = DOMAIN table[b]
      /\ \A f \in DOMAIN table[b] : new[b][f].offers = table[b][f].offers
  BY <1>1, <1>2, <1>3
<1>5. new \in EvalTable
  BY <1>3, <1>4 DEF EvalTable
<1>6. ASSUME NEW p
      PROVE  /\ IsRef(new, p) <=> IsRef(table, p)
             /\ IsRef(table, p) => OfferIn(new, p) = OfferIn(table, p)
  BY <1>3, <1>4 DEF IsRef, OfferIn, OfferRef
<1> QED
  BY <1>3, <1>4, <1>5, <1>6 DEF new
-----------------------------------------------------------------------------
(***************************************************************************)
(* The row evaluate stores.                                                *)
(***************************************************************************)
(* A snapshot has whole numbers and never less than no seats. *)
LEMMA SnapshotIsShaped ==
  ASSUME NEW d \in Departure, NEW t
  PROVE  LET s == Snapshot(d, t)
         IN  /\ SnapshotShape(s) /\ s.dep = d /\ s.order = Catalogue[d].order
             /\ s.available <= Capacity[d]
<1> DEFINE n == Occupied(holds, d, t)
<1>1. Occupying(holds, d, t) \in SUBSET HoldKey
  BY DEF Occupying
<1>2. n \in Nat
  BY <1>1, SeatsFinite DEF Occupied
<1>3. Capacity[d] \in Nat
  BY CapacityAssumption
<1> HIDE DEF n
<1>4. Available(d, t) \in Nat /\ Available(d, t) <= Capacity[d]
  BY <1>2, <1>3 DEF Available, n
<1> QED
  BY <1>4, FleetAssumption DEF Snapshot, SnapshotShape

(* The snapshots of the departures are a fleet. *)
Snapshots(t) == {Snapshot(d, t) : d \in Departure}

(* The snapshots are one per departure, and finitely many. *)
LEMMA SnapshotsAreFleet ==
  ASSUME NEW t
  PROVE  Fleet(Snapshots(t))
<1> DEFINE f == [d \in Departure |-> Snapshot(d, t)]
<1>1. f \in Surjection(Departure, Snapshots(t))
  BY DEF Snapshots, Surjection
<1>2. IsFiniteSet(Snapshots(t))
  BY <1>1, FleetAssumption, FS_Surjection
<1>3. \A s \in Snapshots(t) : SnapshotShape(s)
  BY SnapshotIsShaped DEF Snapshots
<1>4. ASSUME NEW c \in Snapshots(t), NEW d \in Snapshots(t), c.order = d.order
      PROVE  c = d
  <2>1. PICK x \in Departure : c = Snapshot(x, t)
    BY DEF Snapshots
  <2>2. PICK y \in Departure : d = Snapshot(y, t)
    BY DEF Snapshots
  <2>3. Catalogue[x].order = Catalogue[y].order
    BY <1>4, <2>1, <2>2, SnapshotIsShaped
  <2> QED
    BY <2>1, <2>2, <2>3, FleetAssumption
<1> QED
  BY <1>2, <1>3, <1>4 DEF Fleet

(* What is computed for a booking with departure and party is a row of at  *)
(* most three undecided offers.                                            *)
LEMMA EvaluationRow ==
  ASSUME NEW row \in BookingRow, row.dep # None, row.pax # 0, NEW t \in Nat
  PROVE  LET found == Evaluation(row, t)
         IN  /\ found \in EvalRow
             /\ \A r \in DOMAIN found.offers :
                  found.offers[r].status = "OPEN" /\ found.offers[r].key = None
<1> DEFINE primary == Snapshot(row.dep, t)
           S == Snapshots(t)
           demand == DemandOf(row)
           offers == OffersFor(primary, S, demand, Policy)
           found == Evaluation(row, t)
           stored == found.offers
<1>1. row.dep \in Departure /\ row.pax \in 1 .. MaxParty
  BY BoundsAssumption DEF BookingRow
<1>2. /\ Fleet(S) /\ primary.at \in Int /\ PolicyShape(Policy) /\ Policy.ttl \in Nat
  BY <1>1, SnapshotIsShaped, SnapshotsAreFleet, PolicyAssumption DEF SnapshotShape, PolicyShape
<1>3. demand.dep = row.dep /\ demand.pax = row.pax
  BY DEF DemandOf
<1>4. \A r \in DOMAIN stored :
        r \in DOMAIN offers
          /\ stored[r] = [dep |-> offers[r].dep, pax |-> offers[r].pax,
                          seats |-> offers[r].seats, fare |-> offers[r].fare,
                          discount |-> offers[r].discount, final |-> offers[r].final,
                          expiresAt |-> t + Policy.ttl, status |-> "OPEN", key |-> None]
  BY SMTT(40) DEF Evaluation, EvaluateRevenueTwin, Snapshots
<1>5. DOMAIN stored = DOMAIN offers /\ stored = [r \in DOMAIN stored |-> stored[r]]
  BY DEF Evaluation, EvaluateRevenueTwin, Snapshots
<1>6. offers = [r \in DOMAIN offers |-> offers[r]]
  <2> DEFINE C == EligibleOf(primary, S, demand, Policy)
             sizes == {3, Cardinality(C)}
  <2>1. \/ offers = <<>>
        \/ offers = [r \in 1 .. Min(sizes) |->
                       OfferOf(Ranked(C, r, primary, Policy), primary, demand, Policy)]
    BY DEF OffersFor, EligibleOf, Ranked
  <2> HIDE DEF offers
  <2>2. CASE offers = <<>>
    BY <2>2
  <2>3. CASE offers = [r \in 1 .. Min(sizes) |->
                        OfferOf(Ranked(C, r, primary, Policy), primary, demand, Policy)]
    <3> HIDE DEF C, sizes
    <3> QED
      BY <2>3, SMTT(40)
  <2> QED
    BY <2>1, <2>2, <2>3
<1>7. /\ found.status = StatusOf(offers, primary, S, demand, Policy)
      /\ found.impact = ImpactOf(offers)
      /\ found = [status |-> found.status, dep |-> row.dep, impact |-> found.impact,
                  waiting |-> 0, offers |-> stored]
  BY DEF Evaluation, EvaluateRevenueTwin, Snapshots
<1> HIDE DEF primary, S, demand, offers, found, stored
<1>8. PICK n \in 0 .. 3 : DOMAIN offers = 1 .. n
  BY <1>2, BestEligibleAreOffered DEF offers
<1>9. ASSUME NEW r \in DOMAIN offers
      PROVE  /\ offers[r].dep \in Departure /\ offers[r].pax = row.pax
             /\ {offers[r].seats, offers[r].fare, offers[r].discount, offers[r].final}
                  \subseteq Nat
             /\ offers[r].seats <= Capacity[offers[r].dep]
  <2> DEFINE o == offers[r]
  <2>1. PICK d \in S : /\ o = OfferOf(d, primary, demand, Policy)
                       /\ o.discount \in 0 .. Policy.maxDiscount
                       /\ o.final \in Policy.minFare .. o.fare
    BY <1>2, OffersCanBeHonoured DEF offers
  <2>2. PICK c \in Departure : d = Snapshot(c, t)
    BY DEF S, Snapshots
  <2>3. /\ d.dep \in Departure /\ d.available \in Nat /\ d.fare \in Nat
        /\ d.available <= Capacity[d.dep]
    BY <2>2, SnapshotIsShaped DEF SnapshotShape
  <2> HIDE DEF o
  <2>4. /\ o.dep = d.dep /\ o.pax = demand.pax /\ o.seats = d.available
        /\ o.fare = d.fare
    BY <2>1 DEF OfferOf
  <2>5. o.discount \in Nat /\ o.final \in Nat
    BY <1>2, <2>1, <2>3, <2>4 DEF PolicyShape
  <2> QED
    BY <1>3, <2>3, <2>4, <2>5 DEF o
<1>10. \A r \in DOMAIN stored : stored[r] \in OfferedRow
  <2>1. ASSUME NEW r \in DOMAIN stored
        PROVE  stored[r] \in OfferRow /\ stored[r].seats <= Capacity[stored[r].dep]
    BY <1>1, <1>2, <1>4, <1>9, <2>1 DEF OfferRow, OfferStatus
  <2> QED
    BY <2>1 DEF OfferedRow
<1>11. stored \in Offers
  <2>1. DOMAIN stored = 1 .. n
    BY <1>5, <1>8
  <2>2. stored \in Seq(OfferedRow) /\ Len(stored) = n
    BY <1>5, <1>10, <2>1
  <2> QED
    BY <2>2 DEF Offers
<1>12. found.status \in EvaluationStatus
  BY <1>7 DEF StatusOf, EvaluationStatus
<1>13. found.impact \in ImpactRow
  <2>1. CASE offers = <<>>
    BY <1>7, <2>1 DEF ImpactOf, NoImpact, ImpactRow
  <2>2. CASE offers # <<>>
    <3>1. n # 0
      <4>1. SUFFICES ASSUME n = 0
                     PROVE  FALSE
        OBVIOUS
      <4>2. DOMAIN offers = {}
        BY <1>8, <4>1
      <4> QED
        BY <1>6, <2>2, <4>2
    <3>2. /\ offers[1].pax \in Nat /\ offers[1].fare \in Nat
          /\ offers[1].discount \in Nat /\ offers[1].final \in Nat
      BY <1>1, <1>8, <1>9, <3>1, BoundsAssumption
    <3> QED
      BY <1>7, <2>2, <3>2, SMTT(40) DEF ImpactOf, ImpactRow
  <2> QED
    BY <2>1, <2>2
<1>14. found \in EvalRow
  BY <1>1, <1>7, <1>11, <1>12, <1>13, BoundsAssumption DEF EvalRow
<1>15. \A r \in DOMAIN stored : stored[r].status = "OPEN" /\ stored[r].key = None
  BY <1>4
<1> QED
  BY <1>14, <1>15 DEF found, stored

(* A turn leaves the bookings rows. *)
LEMMA TurnBooking ==
  ASSUME booking \in [Booking -> BookingRow], NEW b \in Booking, NEW f \in Utterance,
         NEW k, NEW t, TranscriptTurn(b, f, k, t)
  PROVE  booking' \in [Booking -> BookingRow]
<1> DEFINE said == Upserted(booking[b], f, t)
           locked == agreement[b] # NoAgreement
           status == RecomputedStatus(said, holds', b, locked, t)
           next == [said EXCEPT !.status = status]
<1>1. said \in BookingRow
  BY UpsertedRow
<1>2. status \in BookingStatus \cup {"NONE"}
  <2> HIDE DEF said, locked
  <2> QED
    BY <1>1 DEF RecomputedStatus, BookingRow, BookingStatus
<1>3. \/ booking' = [booking EXCEPT ![b] = [next EXCEPT !.status = "AGREEMENT_LOCKED"]]
      \/ booking' = [booking EXCEPT ![b] = next]
  BY DEF TranscriptTurn, Confirms
<1> HIDE DEF said, locked, status
<1>4. next \in BookingRow /\ [next EXCEPT !.status = "AGREEMENT_LOCKED"] \in BookingRow
  BY <1>1, <1>2 DEF BookingRow, BookingStatus
<1> HIDE DEF next
<1> QED
  BY <1>3, <1>4
-----------------------------------------------------------------------------
(***************************************************************************)
(* The requests in flight.                                                 *)
(***************************************************************************)
(* A request carries what its last step has read. *)
LEMMA DeskFields ==
  ASSUME NEW r \in DeskRow
  PROVE  /\ r.pc = "admitted" =>
              /\ r \in Admitted /\ r.booking \in Call /\ r.booking \in Booking
              /\ r.turn \in AnyTurn /\ r.at \in 0 .. MaxTime /\ r.seenTurns \in Nat
              /\ r.seenCall \in CallStatus
         /\ r.pc \in {"evaluate", "select"} =>
              r \in Piped /\ r.booking \in Call /\ r.booking \in Booking /\ r.says \in Saying
         /\ r.pc = "evaluated" =>
              /\ r.booking \in Call /\ r.booking \in Booking /\ r.row \in EvalRow
              /\ r.next \in Piped \cup {Idle}
         /\ r.pc = "accepting" => r \in Accepting /\ r.ref \in OfferRef
         /\ r.pc = "waiting" => r.booking \in Booking /\ r.eval \in Nat
         /\ r.pc = "declining" => r \in Declining /\ r.ref \in OfferRef
         /\ r.pc = "ending" => r.booking \in Booking /\ r.seenCall \in CallStatus
         /\ r.pc = "idle" => r = Idle
         /\ r.pc \in DeskStep
  BY DEF DeskRow, Admitted, Piped, Evaluated, Accepting, Waiting, Declining, Ending, Idle, Call,
         DeskStep

(* What a request may go on with, from what has been read now. *)
Proceeds(w, r) ==
  /\ r \in DeskRow
  /\ r.pc = "admitted" =>
       /\ desk[w] = Idle
       /\ r.at = now
       /\ r.seenTurns = Len(transcript[r.booking])
       /\ r.turn \notin Stored(r.booking)
  /\ r.pc \in {"accepting", "declining"} => r.ref \in AllRefs
  /\ r.pc = "waiting" => r.eval \in DOMAIN evals[r.booking]
  /\ r.pc = "evaluated" =>
       /\ Len(evals[r.booking]) < MaxEvals
       /\ \A n \in DOMAIN r.row.offers :
            r.row.offers[n].status = "OPEN" /\ r.row.offers[n].key = None

(* Nothing of the conversation but the request w moves. *)
Reads(w) ==
  /\ \E r : Proceeds(w, r) /\ desk' = [desk EXCEPT ![w] = r]
  /\ UNCHANGED <<inventoryVars, booking, evals, transcript>>

(* Offers are decided by a request of the page, or of worker w. *)
Decides(ref, k) ==
  /\ ref \in AllRefs
  /\ Accept(ref, k, now)
  /\ UNCHANGED transcript
  /\ \/ UNCHANGED desk
     \/ \E w \in Worker : desk[w].pc = "accepting" /\ desk' = [desk EXCEPT ![w] = Idle]

Writes(w) ==
  /\ EvaluateWrite(w) \/ DeclineWrite(w) \/ SelectWaitlist(w)
  /\ UNCHANGED <<inventoryVars, booking, transcript>>

(* Nothing but time passes, or a rival takes seats. *)
Elsewhere ==
  /\ [InventoryNext]_inventoryVars
  /\ UNCHANGED <<booking, evals, desk, transcript>>

(* What an evaluation that has been computed goes on with. *)
LEMMA EvaluationProceeds ==
  ASSUME Types, NEW w \in Worker, NEW b \in Call,
         desk[w] = Idle \/ (desk[w].pc = "evaluate" /\ desk[w].booking = b),
         EvaluateRead(w, b, now), UNCHANGED <<inventoryVars, booking, transcript>>
  PROVE  Reads(w)
<1> DEFINE row == booking[b]
           next == Then(w)
           found == Evaluation(row, now)
           r == [pc |-> "evaluated", booking |-> b, row |-> found, next |-> next]
<1>1. b \in Booking /\ row \in BookingRow /\ now \in Nat
  BY BoundsAssumption DEF Types, Call, InventoryTypeOK
<1>2. desk[w] \in DeskRow
  BY DEF Types
<1>3. next \in Piped \cup {Idle}
  <2>1. CASE desk[w] = Idle
    BY <2>1 DEF Then, Idle
  <2>2. CASE desk[w].pc = "evaluate"
    <3>1. desk[w] \in Piped
      BY <1>2, <2>2, DeskFields
    <3> QED
      BY <3>1 DEF Then, Piped
  <2> QED
    BY <2>1, <2>2
<1>4. CASE row.dep = None \/ row.pax = 0
  <2>1. desk' = [desk EXCEPT ![w] = next] /\ UNCHANGED evals
    BY <1>4 DEF EvaluateRead
  <2>2. next \in DeskRow /\ next.pc \in {"evaluate", "select", "idle"}
    BY <1>3 DEF DeskRow, Piped, Idle
  <2> HIDE DEF next
  <2>3. Proceeds(w, next)
    BY <2>2 DEF Proceeds
  <2> QED
    BY <2>1, <2>3 DEF Reads
<1>5. CASE ~(row.dep = None \/ row.pax = 0)
  <2>1. desk' = [desk EXCEPT ![w] = r] /\ UNCHANGED evals /\ Len(evals[b]) < MaxEvals
    BY <1>5 DEF EvaluateRead
  <2>2. /\ found \in EvalRow
        /\ \A n \in DOMAIN found.offers :
             found.offers[n].status = "OPEN" /\ found.offers[n].key = None
    <3> HIDE DEF row
    <3> QED
      BY <1>1, <1>5, EvaluationRow DEF found
  <2> HIDE DEF next, found
  <2>3. r \in DeskRow
    BY <1>3, <2>2 DEF DeskRow, Evaluated
  <2>4. r.pc = "evaluated" /\ r.booking = b /\ r.row = found
    OBVIOUS
  <2> HIDE DEF r
  <2>5. Proceeds(w, r)
    BY <2>1, <2>2, <2>3, <2>4 DEF Proceeds
  <2> QED
    BY <2>1, <2>5 DEF Reads
<1> QED
  BY <1>4, <1>5

(* The least of some numbers is one of them. *)
LEMMA FirstIsThere ==
  ASSUME NEW ranks \in SUBSET Nat, ranks # {}
  PROVE  First(ranks) \in ranks
  BY LeastNumber DEF First

(* A selection is of an offer that is there. *)
LEMMA SelectedIsThere ==
  ASSUME Types, NEW b \in Booking, NEW says, NEW t, SelectedRank(b, says, t) # 0
  PROVE  LET ref == Ref(b, Len(evals[b]), SelectedRank(b, says, t))
         IN  ref \in AllRefs /\ ref \in OfferRef
<1> DEFINE last == Len(evals[b])
           rank == SelectedRank(b, says, t)
           open == OpenRanks(b, t)
           named == {r \in open : Catalogue[evals[b][last].offers[r].dep].at = says.at}
           ref == Ref(b, last, rank)
<1>1. evals \in EvalTable /\ evals[b] \in Seq(EvalRow)
  BY DEF Types, EvalTable
<1>2. open # {} => last \in DOMAIN evals[b]
  <2>1. CASE evals[b] = <<>>
    BY <2>1 DEF OpenRanks
  <2>2. CASE evals[b] # <<>>
    BY <1>1, <2>2
  <2> QED
    BY <2>1, <2>2
<1>3. open \subseteq DOMAIN evals[b][last].offers
  BY DEF OpenRanks
<1>4. open # {} => open \in SUBSET (1 .. 3)
  BY <1>1, <1>2, <1>3, OfferRows
<1>5. named \subseteq open
  BY SMTT(40)
<1>6. \/ open # {} /\ rank = First(open)
      \/ named # {} /\ rank = First(named)
  BY DEF SelectedRank
<1> HIDE DEF open, named, rank, last
<1>7. rank \in open /\ last \in DOMAIN evals[b]
  <2>1. open \in SUBSET Nat
    BY <1>4
  <2>2. named \in SUBSET Nat
    BY <1>5, <2>1
  <2> QED
    BY <1>2, <1>5, <1>6, <2>1, <2>2, FirstIsThere
<1>8. IsRef(evals, ref)
  <2>1. last \in Nat /\ rank \in 1 .. 3
    BY <1>1, <1>4, <1>7, OfferRows
  <2> QED
    BY <1>3, <1>7, <2>1 DEF IsRef, Ref, OfferRef
<1> QED
  BY <1>1, <1>8, RefsAreRows DEF IsRef, rank, last

(* A turn is admitted with what has been read of it, its call and its      *)
(* booking.                                                                *)
LEMMA TurnProceeds ==
  ASSUME Types, NEW w \in Worker, NEW b \in Call, NEW id \in AnyTurn, NEW trusted,
         TurnBegin(w, b, id, trusted)
  PROVE  Reads(w)
<1> DEFINE r == [pc |-> "admitted", booking |-> b, turn |-> id, at |-> now,
                 seenCall |-> call[b], seenTurns |-> Len(transcript[b]),
                 seenBooking |-> booking[b]]
<1>1. /\ b \in Booking /\ now \in 0 .. MaxTime /\ call[b] \in CallStatus
      /\ booking[b] \in BookingRow /\ transcript[b] \in Seq(AnyTurn)
  BY DEF Types, InventoryTypeOK, Call
<1>2. Len(transcript[b]) \in Nat
  BY <1>1
<1>3. r \in DeskRow
  BY <1>1, <1>2 DEF DeskRow, Admitted
<1>4. /\ desk[w] = Idle /\ id \notin Stored(b)
      /\ desk' = [desk EXCEPT ![w] = r]
      /\ UNCHANGED <<inventoryVars, booking, evals, transcript>>
  BY DEF TurnBegin, vars, callVars, inventoryVars
<1>5. /\ r.pc = "admitted" /\ r.at = now /\ r.booking = b /\ r.turn = id
      /\ r.seenTurns = Len(transcript[b])
  OBVIOUS
<1> HIDE DEF r
<1>6. Proceeds(w, r)
  BY <1>3, <1>4, <1>5 DEF Proceeds
<1> QED
  BY <1>4, <1>6 DEF Reads

(* A request that ends, or goes on with nothing that must still be there. *)
LEMMA PlainlyProceeds ==
  ASSUME NEW w \in Worker, NEW r \in DeskRow,
         r.pc \notin {"admitted", "accepting", "declining", "waiting", "evaluated"},
         desk' = [desk EXCEPT ![w] = r], UNCHANGED <<inventoryVars, booking, evals, transcript>>
  PROVE  Reads(w)
<1>1. Proceeds(w, r)
  BY DEF Proceeds
<1> QED
  BY <1>1 DEF Reads

(* The selection that a turn speaks. *)
LEMMA SelectionProceeds ==
  ASSUME Types, NEW w \in Worker, SelectRead(w, now),
         UNCHANGED <<inventoryVars, booking, transcript>>
  PROVE  Reads(w)
<1> DEFINE b == desk[w].booking
           says == desk[w].says
           rank == SelectedRank(b, says, now)
           last == Len(evals[b])
<1>1. desk[w] \in DeskRow
  BY DEF Types
<1>2. desk[w].pc = "select" /\ b \in Call /\ b \in Booking /\ says \in Saying
  BY <1>1, DeskFields DEF SelectRead
<1>3. evals[b] \in Seq(EvalRow)
  BY <1>2 DEF Types
<1>4. /\ UNCHANGED <<inventoryVars, booking, evals, transcript>>
      /\ desk' = [desk EXCEPT ![w] =
           IF rank # 0 THEN [pc |-> "accepting", ref |-> Ref(b, last, rank), says |-> says]
           ELSE IF says.kind = "waitlist" /\ last > 0
           THEN [pc |-> "waiting", booking |-> b, eval |-> last]
           ELSE Idle]
  BY DEF SelectRead
<1>5. last \in Nat /\ DOMAIN evals[b] = 1 .. last
  BY <1>3
<1>6. rank # 0 => Ref(b, last, rank) \in AllRefs /\ Ref(b, last, rank) \in OfferRef
  BY <1>2, SelectedIsThere
<1> HIDE DEF b, says, rank, last
<1>7. CASE rank # 0
  <2> DEFINE ref == Ref(b, last, rank)
             r == [pc |-> "accepting", ref |-> ref, says |-> says]
  <2>1. desk' = [desk EXCEPT ![w] = r] /\ ref \in AllRefs /\ ref \in OfferRef
    BY <1>4, <1>6, <1>7
  <2> HIDE DEF ref
  <2>2. r \in DeskRow /\ r.pc = "accepting" /\ r.ref = ref
    BY <1>2, <2>1 DEF DeskRow, Accepting
  <2> HIDE DEF r
  <2>3. Proceeds(w, r)
    BY <2>1, <2>2 DEF Proceeds
  <2> QED
    BY <1>4, <2>1, <2>3 DEF Reads
<1>8. CASE rank = 0 /\ says.kind = "waitlist" /\ last > 0
  <2> DEFINE r == [pc |-> "waiting", booking |-> b, eval |-> last]
  <2>1. desk' = [desk EXCEPT ![w] = r]
    BY <1>4, <1>8
  <2>2. r \in DeskRow
    BY <1>2, <1>5 DEF DeskRow, Waiting
  <2>4. last \in DOMAIN evals[b]
    BY <1>5, <1>8
  <2>5. r.pc = "waiting" /\ r.eval \in DOMAIN evals[r.booking]
    BY <2>4
  <2> HIDE DEF r
  <2>3. Proceeds(w, r)
    BY <2>2, <2>5 DEF Proceeds
  <2> QED
    BY <1>4, <2>1, <2>3 DEF Reads
<1>9. CASE rank = 0 /\ ~(says.kind = "waitlist" /\ last > 0)
  <2>1. desk' = [desk EXCEPT ![w] = Idle]
    BY <1>4, <1>9
  <2>2. Idle \in DeskRow /\ Idle.pc = "idle"
    BY DEF DeskRow, Idle
  <2> QED
    BY <1>4, <2>1, <2>2, PlainlyProceeds
<1> QED
  BY <1>7, <1>8, <1>9

(* What a step of the conversation is. *)
LEMMA ConversationCases ==
  ASSUME ConversationInv, [HistoryNext]_historyVars
  PROVE  \/ Elsewhere
         \/ \E w \in Worker : Reads(w) \/ Writes(w)
         \/ \E w \in Worker, k \in HoldKey : TurnCommit(w, k)
         \/ \E k \in HoldKey : \E ref : Decides(ref, k)
<1> Types /\ RequestsReferToRows /\ HistoryLeft
  BY DEF ConversationInv
<1> evals \in EvalTable
  BY DEF Types, EvalTable
<1>1. now \in Captured /\ now \in Nat /\ HoldTTL \in Nat
  BY BoundsAssumption DEF Types, InventoryTypeOK, Captured
<1>2. Idle \in DeskRow /\ Idle.pc = "idle"
  BY DEF DeskRow, Idle
<1>3. CASE UNCHANGED historyVars
  BY <1>3 DEF historyVars, conversationVars, vars, twinVars, callVars, Elsewhere, inventoryVars
<1>4. CASE TimePasses /\ UNCHANGED <<twinVars, callVars>>
  BY <1>4 DEF TimePasses, twinVars, callVars, Elsewhere, InventoryNext
<1>5. ASSUME NEW k \in HoldKey, NEW want \in RivalWants, RivalReserves(k, want[1], want[2])
      PROVE  Elsewhere
  <2>1. Reserve(k, Rival, want[1], want[2], now, now + HoldTTL)
    BY <1>5 DEF RivalReserves
  <2>2. Rival \in Booking /\ want[1] \in Departure /\ want[2] \in 1 .. MaxParty
    BY RivalAssumption
  <2>3. now + HoldTTL \in now .. now + HoldTTL
    BY <1>1
  <2>4. InventoryNext
    BY <1>1, <2>1, <2>2, <2>3 DEF InventoryNext
  <2> QED
    BY <1>5, <2>4 DEF RivalReserves, twinVars, callVars, Elsewhere
<1>6. ASSUME NEW w \in Worker, NEW b \in Call, NEW id \in TurnId, NEW trusted \in BOOLEAN,
             TurnBegin(w, b, id, trusted)
      PROVE  Reads(w)
  BY <1>6, TurnProceeds DEF AnyTurn
<1>7. ASSUME NEW w \in Worker, NEW b \in Call, RequestEvaluates(w, b)
      PROVE  Reads(w)
  <2>1. UNCHANGED <<inventoryVars, booking, transcript>> /\ desk[w] = Idle
        /\ EvaluateRead(w, b, now)
    BY <1>7 DEF RequestEvaluates, vars, inventoryVars
  <2> QED
    BY <2>1, EvaluationProceeds
<1>8. ASSUME NEW w \in Worker, NEW b \in Call, EndRead(w, b)
      PROVE  Reads(w)
  <2> DEFINE r == [pc |-> "ending", booking |-> b, seenCall |-> call[b]]
  <2>1. r \in DeskRow
    BY DEF Types, Call, DeskRow, Ending
  <2>2. desk' = [desk EXCEPT ![w] = r] /\ UNCHANGED <<inventoryVars, booking, evals, transcript>>
    BY <1>8 DEF EndRead, vars, inventoryVars
  <2> QED
    BY <2>1, <2>2, PlainlyProceeds
<1>9. ASSUME NEW w \in Worker, NEW b \in Call, NEW ref \in Refs(b), RequestDeclines(w, ref)
      PROVE  Reads(w)
  <2> DEFINE r == [pc |-> "declining", ref |-> ref]
  <2>1. ref \in AllRefs
    BY DEF AllRefs, Call
  <2>2. ref \in OfferRef
    BY <2>1, RefsAreRows DEF IsRef
  <2>3. r \in DeskRow /\ r.pc = "declining" /\ r.ref = ref
    BY <2>2 DEF DeskRow, Declining
  <2>4. desk' = [desk EXCEPT ![w] = r] /\ UNCHANGED <<inventoryVars, booking, evals, transcript>>
    BY <1>9 DEF RequestDeclines, DeclineRead, vars, inventoryVars
  <2> HIDE DEF r
  <2>5. Proceeds(w, r)
    BY <2>1, <2>3 DEF Proceeds
  <2> QED
    BY <2>4, <2>5 DEF Reads
<1>10. ASSUME NEW w \in Worker, TurnEvaluates(w)
       PROVE  Reads(w)
  <2> DEFINE b == desk[w].booking
  <2>1. b \in Call
    BY <1>10, DeskFields DEF TurnEvaluates, Types
  <2>2. EvaluateRead(w, b, now) /\ desk[w].pc = "evaluate"
        /\ UNCHANGED <<inventoryVars, booking, transcript>>
    BY <1>10 DEF TurnEvaluates, vars, callVars, inventoryVars
  <2> HIDE DEF b
  <2>3. desk[w].booking = b
    BY DEF b
  <2> QED
    BY <2>1, <2>2, <2>3, EvaluationProceeds
<1>11. ASSUME NEW w \in Worker, TwinStep(w)
       PROVE  Reads(w) \/ Writes(w)
  <2>1. UNCHANGED <<inventoryVars, booking, transcript>>
    BY <1>11 DEF TwinStep, vars, callVars, inventoryVars
  <2>2. CASE SelectRead(w, now)
    BY <2>1, <2>2, SelectionProceeds
  <2> QED
    BY <1>11, <2>1, <2>2 DEF TwinStep, Writes
<1>12. ASSUME NEW w \in Worker, EndCall(w) \/ RequestFails(w)
       PROVE  Reads(w)
  <2>1. /\ desk' = [desk EXCEPT ![w] = Idle]
        /\ UNCHANGED <<inventoryVars, booking, evals, transcript>>
    BY <1>12 DEF EndCall, RequestFails, vars, callVars, inventoryVars
  <2> QED
    BY <1>2, <2>1, PlainlyProceeds
<1>13. ASSUME NEW k \in HoldKey, AcceptStep(k)
       PROVE  \E ref : Decides(ref, k)
  <2>1. CASE \E w \in Worker : SelectAccept(w, k, now)
    <3>1. PICK w \in Worker : SelectAccept(w, k, now)
      BY <2>1
    <3>2. desk[w].ref \in AllRefs /\ desk[w].pc = "accepting"
      BY <3>1 DEF SelectAccept, RequestsReferToRows
    <3> QED
      BY <1>13, <3>1, <3>2 DEF AcceptStep, SelectAccept, Decides, callVars
  <2>2. CASE \E ref \in AllRefs : AcceptOffer(ref, k, now)
    BY <1>13, <2>2 DEF AcceptStep, AcceptOffer, Decides, callVars
  <2> QED
    BY <1>13, <2>1, <2>2 DEF AcceptStep
<1>14. CASE AdmissionStep
  <2>1. CASE \E w \in Worker, b \in Call :
               \/ \E id \in TurnId, trusted \in BOOLEAN : TurnBegin(w, b, id, trusted)
               \/ RequestEvaluates(w, b)
               \/ EndRead(w, b)
               \/ \E ref \in Refs(b) : RequestDeclines(w, ref)
    BY <1>6, <1>7, <1>8, <1>9, <2>1
  <2>2. CASE \E w \in Worker :
               \/ \E k \in HoldKey : TurnCommit(w, k)
               \/ TurnEvaluates(w)
               \/ TwinStep(w)
               \/ EndCall(w)
    BY <1>10, <1>11, <1>12, <2>2
  <2>3. CASE \E k \in HoldKey :
               \/ AcceptStep(k)
               \/ \E want \in RivalWants : RivalReserves(k, want[1], want[2])
    <3>1. PICK k \in HoldKey :
                 \/ AcceptStep(k)
                 \/ \E want \in RivalWants : RivalReserves(k, want[1], want[2])
      BY <2>3
    <3>2. CASE AcceptStep(k)
      BY <1>13, <3>2
    <3>3. CASE \E want \in RivalWants : RivalReserves(k, want[1], want[2])
      <4>1. PICK want \in RivalWants : RivalReserves(k, want[1], want[2])
        BY <3>3
      <4> QED
        BY <1>5, <4>1
    <3> QED
      BY <3>1, <3>2, <3>3
  <2> QED
    BY <1>4, <1>14, <2>1, <2>2, <2>3 DEF AdmissionStep
<1>15. ASSUME NEW b \in Call, NoticeArrives(b) \/ NoticeReads(b) \/ NoticeFails(b)
       PROVE  Elsewhere
  BY <1>15 DEF NoticeArrives, NoticeReads, NoticeFails, conversationVars, vars, twinVars, callVars,
               Elsewhere, inventoryVars
<1>16. ASSUME NEW b \in Call, NEW w \in Worker, NoticeAppends(w, b)
       PROVE  Reads(w)
  <2>1. notice[b].todo \in Seq(Listed) /\ notice[b].todo # <<>>
    BY <1>16 DEF NoticeAppends, Types, NoticeRow, HistoryLeft, LeftOf, Call
  <2>2. Head(notice[b].todo) \in AnyTurn
    BY <2>1 DEF AnyTurn
  <2> QED
    BY <1>16, <2>2, TurnProceeds DEF NoticeAppends
<1> QED
  BY <1>3, <1>12, <1>14, <1>15, <1>16 DEF HistoryNext
-----------------------------------------------------------------------------
(***************************************************************************)
(* The seats: the conversation refines Inventory.                          *)
(***************************************************************************)
(* The time of an admitted turn has been captured: it is at most as old as *)
(* the run, and time is modelled no longer than a turn may wait.           *)
LEMMA AdmittedTime ==
  ASSUME ConversationInv, NEW w \in Worker, desk[w].pc = "admitted"
  PROVE  desk[w].at \in Captured
<1>1. desk[w].at \in 0 .. MaxTime /\ desk[w].at <= now /\ now \in 0 .. MaxTime
  BY DeskFields DEF ConversationInv, Types, AdmittedIsNew, InventoryTypeOK
<1> QED
  BY <1>1, WaitAssumption, BoundsAssumption DEF Captured

(* The facts of an admitted turn are among those a turn may carry. *)
LEMMA AdmittedFacts ==
  ASSUME NEW id \in AnyTurn, ExtractsFacts(id)
  PROVE  Said[id].facts \in Utterance
  BY SaidAssumption, HistoryAssumption DEF AnyTurn

(* Who decides an offer moves the booking's seats to it, or nothing. *)
LEMMA DecidedSeats ==
  ASSUME ConversationInv, NEW k \in HoldKey, NEW ref, Decides(ref, k)
  PROVE  \/ UNCHANGED inventoryVars
         \/ \E b \in Booking, d \in Departure, q \in 1 .. MaxParty :
              MoveHold(k, b, d, q, now, now + HoldTTL)
<1> DEFINE offer == OfferAt(ref)
<1>1. evals \in EvalTable
  BY DEF ConversationInv, Types, EvalTable
<1>2. ref.booking \in Booking /\ offer \in OfferedRow
  <2>1. IsRef(evals, ref)
    BY <1>1, RefsAreRows DEF Decides
  <2> QED
    BY <1>1, <2>1, OfferRows DEF IsRef, OfferRef, OfferAt
<1>3. \/ UNCHANGED <<holds, now>>
      \/ MoveHold(k, ref.booking, offer.dep, offer.pax, now, now + HoldTTL)
  BY DEF Decides, Accept
<1> HIDE DEF offer
<1> QED
  BY <1>2, <1>3 DEF OfferedRow, OfferRow, inventoryVars

(* Every step of the conversation is a step of Inventory, or none. *)
LEMMA ConversationSeats ==
  ASSUME ConversationInv, [HistoryNext]_historyVars
  PROVE  [InventoryNext]_inventoryVars
<1>1. now \in Captured /\ now \in Nat /\ HoldTTL \in Nat
  BY BoundsAssumption DEF ConversationInv, Types, InventoryTypeOK, Captured
<1>2. CASE Elsewhere
  BY <1>2 DEF Elsewhere
<1>3. CASE \E w \in Worker : Reads(w) \/ Writes(w)
  BY <1>3 DEF Reads, Writes
<1>4. ASSUME NEW w \in Worker, NEW k \in HoldKey, TurnCommit(w, k)
      PROVE  [InventoryNext]_inventoryVars
  <2> DEFINE r == desk[w]
  <2>1. r.pc = "admitted" /\ r.booking \in Booking /\ r.turn \in AnyTurn
    BY <1>4, DeskFields DEF TurnCommit, ConversationInv, Types
  <2>2. r.at \in Captured
    BY <2>1, AdmittedTime
  <2>3. CASE ~ExtractsFacts(r.turn)
    BY <1>4, <2>3 DEF TurnCommit, vars, inventoryVars
  <2>4. CASE ExtractsFacts(r.turn)
    <3> DEFINE facts == Said[r.turn].facts
    <3>1. facts \in Utterance
      BY <2>1, <2>4, AdmittedFacts
    <3>2. TranscriptTurn(r.booking, facts, k, r.at)
      BY <1>4, <2>4 DEF TurnCommit
    <3>3. booking \in [Booking -> BookingRow]
      BY DEF ConversationInv, Types
    <3> HIDE DEF facts, r
    <3>4. \/ UNCHANGED inventoryVars
          \/ \E d \in Departure, q \in 1 .. MaxParty :
               \/ Reserve(k, r.booking, d, q, r.at, r.at + HoldTTL)
               \/ ReserveRefused(d, q, r.at)
      BY <2>1, <2>2, <3>1, <3>2, <3>3, TurnHolds
    <3>5. r.at \in Nat /\ r.at + HoldTTL \in r.at .. r.at + HoldTTL
      BY <1>1, <2>2 DEF Captured
    <3> QED
      BY <2>1, <2>2, <3>4, <3>5 DEF InventoryNext
  <2> QED
    BY <2>3, <2>4
<1>5. ASSUME NEW k \in HoldKey, NEW ref, Decides(ref, k)
      PROVE  [InventoryNext]_inventoryVars
  <2>1. now + HoldTTL \in now .. now + HoldTTL
    BY <1>1
  <2> QED
    BY <1>1, <1>5, <2>1, DecidedSeats DEF InventoryNext
<1> QED
  BY <1>2, <1>3, <1>4, <1>5, ConversationCases

(* A hold that is there stays, with its terms. *)
LEMMA HoldTermsKept ==
  ASSUME ConversationInv, [HistoryNext]_historyVars, NEW k \in HoldKey, holds[k] # NoHold
  PROVE  /\ holds'[k] # NoHold
         /\ holds'[k].booking = holds[k].booking
         /\ holds'[k].departure = holds[k].departure
         /\ holds'[k].quantity = holds[k].quantity
<1>1. InventoryTypeOK /\ holds[k] \in HoldRow /\ [InventoryNext]_inventoryVars
  BY ConversationSeats DEF ConversationInv, Types, InventoryTypeOK, HoldTable
<1>2. HoldStep(k)
  BY <1>1, HoldStepAlways
<1>3. CASE holds'[k] = holds[k]
  BY <1>3
<1>4. CASE /\ holds[k].status = "ACTIVE"
           /\ holds'[k] = [holds[k] EXCEPT !.status = holds'[k].status]
  BY <1>1, <1>4 DEF HoldRow, NoHold
<1> QED
  BY <1>2, <1>3, <1>4 DEF HoldStep

(* The type of seats and clock stays, and the clock only goes forward. *)
LEMMA SeatsTyped ==
  ASSUME ConversationInv, [HistoryNext]_historyVars
  PROVE  InventoryTypeOK' /\ now \in Nat /\ now' \in Nat /\ now <= now'
<1>1. InventoryTypeOK /\ [InventoryNext]_inventoryVars
  BY ConversationSeats DEF ConversationInv, Types
<1>2. InventoryTypeOK'
  BY <1>1, InventoryTypeStep
<1>3. UNCHANGED now \/ Tick
  BY <1>1, StepCases DEF inventoryVars, Consume, Reserve, MoveHold
<1> QED
  BY <1>1, <1>2, <1>3, BoundsAssumption DEF InventoryTypeOK, Tick
-----------------------------------------------------------------------------
(***************************************************************************)
(* What the steps do to the offers.                                        *)
(***************************************************************************)
(* A table in which every offer of table is, as it was or declined by the  *)
(* request of w; what is new is undecided and in an evaluation of its own. *)
OffersGrow(w, new) ==
  /\ new \in EvalTable
  /\ \A c \in Booking :
       \/ Len(new[c]) = Len(evals[c])
       \/ /\ desk[w].pc = "evaluated" /\ desk[w].booking = c
          /\ Len(new[c]) = Len(evals[c]) + 1
  /\ \A p : IsRef(evals, p) =>
       /\ IsRef(new, p)
       /\ \/ OfferIn(new, p) = OfferIn(evals, p)
          \/ /\ desk[w] = [pc |-> "declining", ref |-> p]
             /\ OfferIn(new, p) = Declined(OfferIn(evals, p))
  /\ \A p : IsRef(new, p) /\ ~IsRef(evals, p) =>
       /\ OfferIn(new, p).status = "OPEN" /\ OfferIn(new, p).key = None
       /\ \A q : q.booking = p.booking /\ q.eval = p.eval => ~IsRef(evals, q)

(* A request's transaction, but an acceptance, does so. *)
LEMMA WritesEffect ==
  ASSUME ConversationInv, NEW w \in Worker, Writes(w)
  PROVE  /\ OffersGrow(w, evals')
         /\ \E r \in Piped \cup {Idle} : desk' = [desk EXCEPT ![w] = r]
<1> DEFINE b == desk[w].booking
<1>1. /\ evals \in EvalTable /\ desk[w] \in DeskRow
      /\ Types /\ RequestsReferToRows
  BY DEF ConversationInv, Types, EvalTable
<1>2. CASE EvaluateWrite(w)
  <2> DEFINE row == desk[w].row
  <2>1. /\ desk[w].pc = "evaluated" /\ b \in Booking /\ row \in EvalRow
        /\ desk[w].next \in Piped \cup {Idle}
    BY <1>1, <1>2, DeskFields DEF EvaluateWrite
  <2>2. /\ evals' = Appended(evals, b, row)
        /\ desk' = [desk EXCEPT ![w] = desk[w].next]
    BY <1>2 DEF EvaluateWrite, Appended
  <2>3. \A r \in DOMAIN row.offers : row.offers[r].status = "OPEN" /\ row.offers[r].key = None
    BY <1>1, <2>1 DEF RequestsReferToRows
  <2> HIDE DEF row
  <2>4. /\ evals' \in EvalTable
        /\ Len(evals'[b]) = Len(evals[b]) + 1
        /\ \A c \in Booking \ {b} : evals'[c] = evals[c]
        /\ \A p : IsRef(evals, p) => IsRef(evals', p) /\ OfferIn(evals', p) = OfferIn(evals, p)
        /\ \A p : IsRef(evals', p) /\ ~IsRef(evals, p) =>
             /\ p.booking = b /\ p.eval = Len(evals[b]) + 1
             /\ p.rank \in DOMAIN row.offers
             /\ OfferIn(evals', p) = row.offers[p.rank]
    <3> HIDE DEF b
    <3> QED
      BY <1>1, <2>1, <2>2, AppendedOffers
  <2>5. \A c \in Booking : Len(evals[c]) \in Nat
    BY <1>1 DEF EvalTable
  <2>6. ASSUME NEW q, q.booking = b, q.eval = Len(evals[b]) + 1
        PROVE  ~IsRef(evals, q)
    <3>1. Len(evals[b]) + 1 \notin DOMAIN evals[b]
      BY <1>1, <2>1 DEF EvalTable
    <3> QED
      BY <2>6, <3>1 DEF IsRef
  <2>7. OffersGrow(w, evals')
    <3>1. ASSUME NEW c \in Booking
          PROVE  \/ Len(evals'[c]) = Len(evals[c])
                 \/ /\ desk[w].pc = "evaluated" /\ desk[w].booking = c
                    /\ Len(evals'[c]) = Len(evals[c]) + 1
      BY <2>1, <2>4
    <3>2. ASSUME NEW p, IsRef(evals', p), ~IsRef(evals, p)
          PROVE  /\ OfferIn(evals', p).status = "OPEN" /\ OfferIn(evals', p).key = None
                 /\ \A q : q.booking = p.booking /\ q.eval = p.eval => ~IsRef(evals, q)
      BY <2>3, <2>4, <2>6, <3>2
    <3> QED
      BY <2>4, <3>1, <3>2 DEF OffersGrow
  <2> QED
    BY <2>1, <2>2, <2>7
<1>3. CASE DeclineWrite(w)
  <2> DEFINE ref == desk[w].ref
             offer == Declined(OfferIn(evals, ref))
  <2>1. /\ desk[w] \in Declining /\ desk[w].pc = "declining" /\ ref \in AllRefs
        /\ evals' = SetOffer(evals, ref, offer)
        /\ desk' = [desk EXCEPT ![w] = Idle]
    BY <1>1, <1>3, DeskFields DEF DeclineWrite, RequestsReferToRows, OfferAt, OfferIn,
                         Declined
  <2>2. desk[w] = [pc |-> "declining", ref |-> ref]
    BY <2>1 DEF Declining
  <2>3. IsRef(evals, ref)
    BY <1>1, <2>1, RefsAreRows
  <2>4. OfferIn(evals, ref) \in OfferedRow
    BY <1>1, <2>3, OfferRows DEF IsRef, OfferIn, OfferRef
  <2>5. offer \in OfferedRow
    BY <2>4, KeptRows
  <2> HIDE DEF ref, offer
  <2>6. /\ evals' \in EvalTable
        /\ \A c \in Booking : Len(evals'[c]) = Len(evals[c])
        /\ \A p : IsRef(evals', p) <=> IsRef(evals, p)
        /\ \A p : IsRef(evals, p) =>
             OfferIn(evals', p) = IF p = ref THEN offer ELSE OfferIn(evals, p)
    BY <1>1, <2>1, <2>3, <2>5, SetOfferEffect
  <2>7. \A c \in Booking : Len(evals[c]) \in Nat
    BY <1>1 DEF EvalTable
  <2>8. OffersGrow(w, evals')
    BY <2>1, <2>2, <2>6, <2>7 DEF OffersGrow, offer
  <2> QED
    BY <2>1, <2>8
<1>4. CASE SelectWaitlist(w)
  <2> DEFINE e == desk[w].eval
             n == StoredPassengerCount(evals[b][e])
  <2>1. /\ desk[w].pc = "waiting" /\ b \in Booking /\ e \in DOMAIN evals[b]
        /\ evals' = Waits(evals, b, e, n)
        /\ desk' = [desk EXCEPT ![w] = Idle]
    BY <1>1, <1>4, DeskFields DEF SelectWaitlist, JoinWaitlist, RequestsReferToRows, Waits
  <2>2. n \in 0 .. MaxParty
    <3>1. evals[b][e] \in EvalRow
      BY <1>1, <2>1, OfferRows
    <3>2. n = 1
      BY <3>1 DEF StoredPassengerCount, EvalRow
    <3> QED
      BY <3>2, BoundsAssumption, PartyAssumption
  <2> HIDE DEF b, e, n
  <2>3. /\ evals' \in EvalTable
        /\ \A c \in Booking : Len(evals'[c]) = Len(evals[c])
        /\ \A p : IsRef(evals', p) <=> IsRef(evals, p)
        /\ \A p : IsRef(evals, p) => OfferIn(evals', p) = OfferIn(evals, p)
    BY <1>1, <2>1, <2>2, WaitingEffect
  <2>4. \A c \in Booking : Len(evals[c]) \in Nat
    BY <1>1 DEF EvalTable
  <2>5. OffersGrow(w, evals')
    BY <2>1, <2>3, <2>4 DEF OffersGrow
  <2> QED
    BY <2>1, <2>5
<1> QED
  BY <1>2, <1>3, <1>4 DEF Writes

(* Offer ref is taken with key k: the seats are moved to it. *)
Takes(ref, k) ==
  /\ OfferAt(ref).status = "OPEN" /\ OfferAt(ref).key = None
  /\ MoveHold(k, ref.booking, OfferAt(ref).dep, OfferAt(ref).pax, now, now + HoldTTL)
  /\ OfferIn(evals', ref) = Taken(OfferAt(ref), k)
  /\ booking' = [booking EXCEPT ![ref.booking].dep = OfferAt(ref).dep]
  /\ \A p : IsRef(evals, p) /\ p # ref =>
       \/ /\ OfferIn(evals', p) = OfferIn(evals, p)
          /\ \/ p.booking # ref.booking \/ p.eval # ref.eval
             \/ OfferIn(evals, p).status # "OPEN"
       \/ /\ p.booking = ref.booking /\ p.eval = ref.eval
          /\ OfferIn(evals, p).status = "OPEN"
          /\ OfferIn(evals', p) = Superseded(OfferIn(evals, p))

(* Offer ref is refused under key k. *)
Refuses(ref, k) ==
  /\ OfferAt(ref).key = None
  /\ OfferIn(evals', ref) = Refused(OfferAt(ref), k)
  /\ \A p : IsRef(evals, p) /\ p # ref => OfferIn(evals', p) = OfferIn(evals, p)
  /\ UNCHANGED <<booking, inventoryVars>>

(* One offer is taken: its seats are held and its siblings superseded. *)
LEMMA DecidesEffect ==
  ASSUME ConversationInv, NEW k \in HoldKey, NEW ref, Decides(ref, k)
  PROVE  /\ IsRef(evals, ref) /\ OfferAt(ref) \in OfferedRow
         /\ evals' \in EvalTable
         /\ \A c \in Booking : Len(evals'[c]) = Len(evals[c])
         /\ \A p : IsRef(evals', p) <=> IsRef(evals, p)
         /\ \A p : IsRef(evals, p) => OfferIn(evals, p).key # k
         /\ Takes(ref, k) \/ Refuses(ref, k)
<1> DEFINE offer == OfferAt(ref)
           refused == Refused(offer, k)
<1>1. evals \in EvalTable
  BY DEF ConversationInv, Types, EvalTable
<1>2. IsRef(evals, ref) /\ ref.booking \in Booking /\ offer \in OfferedRow
  <2>1. IsRef(evals, ref)
    BY <1>1, RefsAreRows DEF Decides
  <2> QED
    BY <1>1, <2>1, OfferRows DEF IsRef, OfferRef, OfferAt
<1>3. offer = OfferIn(evals, ref)
  BY DEF OfferAt, OfferIn
<1>4. refused \in OfferedRow
  BY <1>2, DecidedRows, SMTT(40)
<1>5. \A p : IsRef(evals, p) => OfferIn(evals, p).key # k
  BY <1>1, RefsAreRows DEF Decides, Accept, KeyUsed, OfferAt, OfferIn
<1>6. CASE MayAccept(offer, now)
  <2>1. /\ offer.key = None /\ offer.status = "OPEN"
        /\ MoveHold(k, ref.booking, offer.dep, offer.pax, now, now + HoldTTL)
        /\ evals' = AcceptedRow(ref, k)
        /\ booking' = [booking EXCEPT ![ref.booking].dep = offer.dep]
    BY <1>6 DEF Decides, Accept, MayAccept
  <2> HIDE DEF offer
  <2>2. /\ evals' \in EvalTable
        /\ \A c \in Booking : Len(evals'[c]) = Len(evals[c])
        /\ \A p : IsRef(evals', p) <=> IsRef(evals, p)
        /\ OfferIn(evals', ref) = Taken(OfferIn(evals, ref), k)
        /\ \A p : IsRef(evals, p) /\ p # ref =>
             \/ /\ OfferIn(evals', p) = OfferIn(evals, p)
                /\ \/ p.booking # ref.booking \/ p.eval # ref.eval
                   \/ OfferIn(evals, p).status # "OPEN"
             \/ /\ p.booking = ref.booking /\ p.eval = ref.eval
                /\ OfferIn(evals, p).status = "OPEN"
                /\ OfferIn(evals', p) = Superseded(OfferIn(evals, p))
    BY <1>1, <1>2, <2>1, AcceptedRowEffect
  <2>3. Takes(ref, k)
    BY <1>3, <2>1, <2>2 DEF Takes, offer
  <2> QED
    BY <1>2, <1>5, <2>2, <2>3 DEF offer
<1>7. CASE ~MayAccept(offer, now)
  <2>1. /\ offer.key = None
        /\ evals' = SetOffer(evals, ref, refused)
        /\ UNCHANGED <<booking, inventoryVars>>
    BY <1>7 DEF Decides, Accept, inventoryVars, Refused
  <2> HIDE DEF refused, offer
  <2>2. /\ evals' \in EvalTable
        /\ \A c \in Booking : Len(evals'[c]) = Len(evals[c])
        /\ \A p : IsRef(evals', p) <=> IsRef(evals, p)
        /\ \A p : IsRef(evals, p) =>
             OfferIn(evals', p) = IF p = ref THEN refused ELSE OfferIn(evals, p)
    BY <1>1, <1>2, <1>4, <2>1, SetOfferEffect
  <2>3. Refuses(ref, k)
    BY <1>2, <2>1, <2>2 DEF Refuses, refused, offer
  <2> QED
    BY <1>2, <1>5, <2>2, <2>3 DEF offer
<1> QED
  BY <1>6, <1>7
-----------------------------------------------------------------------------
(***************************************************************************)
(* What any step does to the rows.                                         *)
(***************************************************************************)
(* A request stays, ends, goes on with a turn's pipeline, or with what it  *)
(* has just read.                                                          *)
Moves(v) ==
  \/ desk'[v] = desk[v]
  \/ desk'[v] \in Piped \cup {Idle}
  \/ /\ Proceeds(v, desk'[v])
     /\ UNCHANGED <<inventoryVars, booking, evals, transcript>>

(* A transcript stays, or one admitted turn is appended. *)
Grows(c) ==
  \/ transcript'[c] = transcript[c]
  \/ \E w \in Worker :
       /\ desk[w].pc = "admitted" /\ desk[w].booking = c
       /\ TurnsUnchanged(desk[w])
       /\ transcript'[c] = Append(transcript[c], desk[w].turn)

(* One request at a time. *)
LEMMA OneMoves ==
  ASSUME desk \in [Worker -> DeskRow], NEW w \in Worker, NEW r \in DeskRow,
         desk' = [desk EXCEPT ![w] = r],
         \/ r \in Piped \cup {Idle}
         \/ Proceeds(w, r) /\ UNCHANGED <<inventoryVars, booking, evals, transcript>>
  PROVE  desk' \in [Worker -> DeskRow] /\ \A v \in Worker : Moves(v)
<1>1. desk' \in [Worker -> DeskRow]
  OBVIOUS
<1>2. ASSUME NEW v \in Worker
      PROVE  Moves(v)
  <2>1. CASE v = w
    <3>1. desk'[v] = r
      BY <2>1
    <3> QED
      BY <2>1, <3>1 DEF Moves
  <2>2. CASE v # w
    BY <2>2 DEF Moves
  <2> QED
    BY <2>1, <2>2
<1> QED
  BY <1>1, <1>2

(* The rest of a turn's pipeline. *)
LEMMA PipelineRow ==
  ASSUME NEW r \in DeskRow, r.pc = "admitted"
  PROVE  Pipeline(r) \in Piped \cup {Idle}
<1>1. r.turn \in AnyTurn /\ r.booking \in Call
  BY DeskFields
<1>2. [kind |-> Said[r.turn].kind, at |-> Said[r.turn].at] \in Saying
  BY <1>1 DEF Saying
<1> QED
  BY <1>1, <1>2 DEF Pipeline, Piped

(* A turn's commit. *)
LEMMA CommitShape ==
  ASSUME ConversationInv, NEW w \in Worker, NEW k \in HoldKey, TurnCommit(w, k)
  PROVE  /\ UNCHANGED evals
         /\ booking' \in [Booking -> BookingRow]
         /\ transcript' \in [Booking -> Seq(AnyTurn)]
         /\ \A c \in Booking : Grows(c)
         /\ desk' \in [Worker -> DeskRow] /\ \A v \in Worker : Moves(v)
<1> DEFINE r == desk[w]
<1>1. /\ Types /\ desk \in [Worker -> DeskRow] /\ r \in DeskRow
      /\ booking \in [Booking -> BookingRow]
      /\ transcript \in [Booking -> Seq(AnyTurn)]
  BY DEF ConversationInv, Types
<1>2. /\ r.pc = "admitted" /\ TurnsUnchanged(r)
      /\ transcript' = [transcript EXCEPT ![r.booking] = Append(@, r.turn)]
      /\ desk' = [desk EXCEPT ![w] = Pipeline(r)]
      /\ UNCHANGED evals
      /\ IF ExtractsFacts(r.turn)
         THEN TranscriptTurn(r.booking, Said[r.turn].facts, k, r.at)
         ELSE UNCHANGED vars
  BY DEF TurnCommit
<1>3. r.booking \in Booking /\ r.turn \in AnyTurn
  BY <1>1, <1>2, DeskFields
<1>4. Pipeline(r) \in Piped \cup {Idle} /\ Pipeline(r) \in DeskRow
  BY <1>1, <1>2, PipelineRow DEF DeskRow
<1>5. desk' \in [Worker -> DeskRow] /\ \A v \in Worker : Moves(v)
  <2> DEFINE next == Pipeline(r)
  <2> HIDE DEF next, r
  <2> QED
    BY <1>1, <1>2, <1>4, OneMoves DEF next
<1>6. booking' \in [Booking -> BookingRow]
  <2>1. CASE ExtractsFacts(r.turn)
    <3> DEFINE facts == Said[r.turn].facts
    <3>1. facts \in Utterance /\ TranscriptTurn(r.booking, facts, k, r.at)
      BY <1>2, <1>3, <2>1, AdmittedFacts
    <3> HIDE DEF facts, r
    <3> QED
      BY <1>1, <1>3, <3>1, TurnBooking
  <2>2. CASE ~ExtractsFacts(r.turn)
    BY <1>1, <1>2, <2>2 DEF vars
  <2> QED
    BY <2>1, <2>2
<1>7. transcript' \in [Booking -> Seq(AnyTurn)]
  <2>1. Append(transcript[r.booking], r.turn) \in Seq(AnyTurn)
    BY <1>1, <1>3
  <2> QED
    BY <1>1, <1>2, <1>3, <2>1
<1>8. \A c \in Booking : Grows(c)
  BY <1>1, <1>2, <1>3 DEF Grows
<1> QED
  BY <1>2, <1>5, <1>6, <1>7, <1>8

(* What any step does to bookings, offers, requests and transcripts. *)
Shape ==
  /\ booking' \in [Booking -> BookingRow]
  /\ evals' \in EvalTable
  /\ \A c \in Booking : Len(evals[c]) <= Len(evals'[c])
  /\ \A p : IsRef(evals, p) => IsRef(evals', p)
  /\ transcript' \in [Booking -> Seq(AnyTurn)]
  /\ \A c \in Booking : Grows(c)
  /\ desk' \in [Worker -> DeskRow]
  /\ \A v \in Worker : Moves(v)

(* Every step keeps rows, grows transcripts and moves requests on. *)
LEMMA StepShape ==
  ASSUME ConversationInv, [HistoryNext]_historyVars
  PROVE  Shape
<1>1. /\ Types /\ evals \in EvalTable /\ desk \in [Worker -> DeskRow]
      /\ booking \in [Booking -> BookingRow]
      /\ transcript \in [Booking -> Seq(AnyTurn)]
  BY DEF ConversationInv, Types, EvalTable
<1>2. \A c \in Booking : Len(evals[c]) \in Nat
  BY <1>1 DEF EvalTable
<1>3. ASSUME UNCHANGED transcript
      PROVE  transcript' \in [Booking -> Seq(AnyTurn)] /\ \A c \in Booking : Grows(c)
  BY <1>1, <1>3 DEF Grows
<1>4. ASSUME UNCHANGED desk
      PROVE  desk' \in [Worker -> DeskRow] /\ \A v \in Worker : Moves(v)
  BY <1>1, <1>4 DEF Moves
<1>5. Idle \in DeskRow
  BY DEF DeskRow
<1>6. CASE Elsewhere
  BY <1>1, <1>2, <1>3, <1>4, <1>6 DEF Elsewhere, Shape
<1>7. ASSUME NEW w \in Worker, Reads(w)
      PROVE  Shape
  <2>1. PICK r : Proceeds(w, r) /\ desk' = [desk EXCEPT ![w] = r]
    BY <1>7 DEF Reads
  <2>2. r \in DeskRow /\ UNCHANGED <<inventoryVars, booking, evals, transcript>>
    BY <1>7, <2>1 DEF Proceeds, Reads
  <2>3. desk' \in [Worker -> DeskRow] /\ \A v \in Worker : Moves(v)
    BY <1>1, <2>1, <2>2, OneMoves
  <2> QED
    BY <1>1, <1>2, <1>3, <2>2, <2>3 DEF Shape
<1>8. ASSUME NEW w \in Worker, Writes(w)
      PROVE  Shape
  <2>1. PICK r \in Piped \cup {Idle} : desk' = [desk EXCEPT ![w] = r]
    BY <1>8, WritesEffect
  <2>2. r \in DeskRow
    BY DEF DeskRow
  <2>3. desk' \in [Worker -> DeskRow] /\ \A v \in Worker : Moves(v)
    BY <1>1, <2>1, <2>2, OneMoves
  <2>4. OffersGrow(w, evals') /\ UNCHANGED <<booking, transcript>>
    BY <1>8, WritesEffect DEF Writes
  <2>5. \A c \in Booking : Len(evals[c]) <= Len(evals'[c])
    BY <1>2, <2>4 DEF OffersGrow
  <2>6. evals' \in EvalTable /\ \A p : IsRef(evals, p) => IsRef(evals', p)
    BY <2>4 DEF OffersGrow
  <2> QED
    BY <1>1, <1>3, <2>3, <2>4, <2>5, <2>6 DEF Shape
<1>9. ASSUME NEW w \in Worker, NEW k \in HoldKey, TurnCommit(w, k)
      PROVE  Shape
  BY <1>1, <1>2, <1>9, CommitShape DEF Shape
<1>10. ASSUME NEW k \in HoldKey, NEW ref, Decides(ref, k)
       PROVE  Shape
  <2>1. /\ IsRef(evals, ref) /\ OfferAt(ref) \in OfferedRow
        /\ evals' \in EvalTable
        /\ \A c \in Booking : Len(evals'[c]) = Len(evals[c])
        /\ \A p : IsRef(evals', p) <=> IsRef(evals, p)
        /\ Takes(ref, k) \/ Refuses(ref, k)
    BY <1>10, DecidesEffect
  <2>2. booking' \in [Booking -> BookingRow]
    <3>1. ref.booking \in Booking /\ OfferAt(ref).dep \in Departure
      BY <2>1 DEF IsRef, OfferRef, OfferedRow, OfferRow
    <3>2. CASE Refuses(ref, k)
      BY <1>1, <3>2 DEF Refuses
    <3>3. CASE Takes(ref, k)
      <4> DEFINE b == ref.booking
                 d == OfferAt(ref).dep
                 row == [booking[b] EXCEPT !.dep = d]
      <4>1. booking' = [booking EXCEPT ![b] = row]
        BY <3>3 DEF Takes
      <4> HIDE DEF b, d
      <4>2. row \in BookingRow
        BY <1>1, <3>1 DEF BookingRow, b, d
      <4> HIDE DEF row
      <4> QED
        BY <1>1, <4>1, <4>2
    <3> QED
      BY <2>1, <3>2, <3>3
  <2>3. UNCHANGED transcript
    BY <1>10 DEF Decides
  <2>4. desk' \in [Worker -> DeskRow] /\ \A v \in Worker : Moves(v)
    BY <1>1, <1>4, <1>5, <1>10, OneMoves DEF Decides
  <2> QED
    BY <1>2, <1>3, <2>1, <2>2, <2>3, <2>4 DEF Shape
<1> QED
  BY <1>6, <1>7, <1>8, <1>9, <1>10, ConversationCases

(* Requests refer to rows: rows stay where they are. *)
LEMMA RequestsStep ==
  ASSUME ConversationInv, [HistoryNext]_historyVars
  PROVE  RequestsReferToRows'
<1>1. Shape
  BY StepShape
<1>2. evals \in EvalTable /\ evals' \in EvalTable /\ desk \in [Worker -> DeskRow]
  BY <1>1 DEF ConversationInv, Types, EvalTable, Shape
<1>3. \A p : p \in AllRefs => p \in AllRefs'
  <2>1. \A p : p \in AllRefs <=> IsRef(evals, p)
    BY <1>2, RefsAreRows
  <2>2. (evals \in EvalTable => \A p : p \in AllRefs <=> IsRef(evals, p))'
    BY RefsAreRows, PTL
  <2> QED
    BY <1>1, <1>2, <2>1, <2>2 DEF Shape
<1>4. \A c \in Booking : DOMAIN evals[c] \subseteq DOMAIN evals'[c]
  <2>1. \A c \in Booking : /\ evals[c] \in Seq(EvalRow) /\ evals'[c] \in Seq(EvalRow)
                           /\ Len(evals[c]) <= Len(evals'[c])
    BY <1>1, <1>2 DEF Shape, EvalTable
  <2> QED
    BY <2>1
<1>5. ASSUME NEW v \in Worker
      PROVE  /\ desk'[v].pc \in {"accepting", "declining"} => desk'[v].ref \in AllRefs'
             /\ desk'[v].pc = "waiting" => desk'[v].eval \in DOMAIN evals'[desk'[v].booking]
             /\ desk'[v].pc = "evaluated" =>
                  \A r \in DOMAIN desk'[v].row.offers :
                    /\ desk'[v].row.offers[r].status = "OPEN"
                    /\ desk'[v].row.offers[r].key = None
  <2>1. CASE desk'[v] = desk[v]
    <3>1. desk[v].pc = "waiting" => desk[v].booking \in Booking
      BY <1>2, DeskFields
    <3> QED
      BY <1>3, <1>4, <2>1, <3>1 DEF ConversationInv, RequestsReferToRows
  <2>2. CASE desk'[v] \in Piped \cup {Idle}
    BY <2>2 DEF Piped, Idle
  <2>3. CASE Proceeds(v, desk'[v]) /\ UNCHANGED <<inventoryVars, booking, evals, transcript>>
    BY <1>3, <2>3 DEF Proceeds
  <2> QED
    BY <1>1, <2>1, <2>2, <2>3 DEF Shape, Moves
<1> QED
  BY <1>5 DEF RequestsReferToRows

(* A request that still may commit its turn finds the transcript it has    *)
(* read, in which the turn was not.                                        *)
LEMMA AdmittedStep ==
  ASSUME ConversationInv, [HistoryNext]_historyVars
  PROVE  AdmittedIsNew'
<1>1. /\ Shape /\ now \in Nat /\ now' \in Nat /\ now <= now'
      /\ transcript \in [Booking -> Seq(AnyTurn)]
      /\ transcript' \in [Booking -> Seq(AnyTurn)]
      /\ desk \in [Worker -> DeskRow] /\ desk' \in [Worker -> DeskRow]
  BY StepShape, SeatsTyped DEF ConversationInv, Types, Shape
<1>2. SUFFICES ASSUME NEW v \in Worker, desk'[v].pc = "admitted"
               PROVE  /\ desk'[v].at <= now'
                      /\ desk'[v].seenTurns <= Len(transcript'[desk'[v].booking])
                      /\ Len(transcript'[desk'[v].booking]) = desk'[v].seenTurns =>
                           \A i \in DOMAIN transcript'[desk'[v].booking] :
                             transcript'[desk'[v].booking][i] # desk'[v].turn
  BY DEF AdmittedIsNew, TurnsUnchanged, Stored
<1> DEFINE r == desk'[v]
           b == r.booking
<1>3. b \in Booking /\ r.at \in Nat /\ r.seenTurns \in Nat
  BY <1>1, <1>2, DeskFields
<1>4. transcript[b] \in Seq(AnyTurn) /\ Len(transcript[b]) \in Nat
  BY <1>1, <1>3
<1>5. \/ transcript'[b] = transcript[b]
      \/ Len(transcript'[b]) = Len(transcript[b]) + 1
  <2>1. Grows(b)
    BY <1>1, <1>3 DEF Shape
  <2>2. \A w \in Worker : desk[w].pc = "admitted" => desk[w].turn \in AnyTurn
    BY <1>1, DeskFields
  <2> HIDE DEF b
  <2> QED
    BY <1>4, <2>1, <2>2 DEF Grows
<1>6. CASE desk'[v] = desk[v]
  <2>1. /\ r.at <= now /\ r.seenTurns <= Len(transcript[b])
        /\ Len(transcript[b]) = r.seenTurns =>
             \A i \in DOMAIN transcript[b] : transcript[b][i] # r.turn
    BY <1>2, <1>6 DEF ConversationInv, AdmittedIsNew, TurnsUnchanged, Stored
  <2>2. r.at <= now'
    BY <1>1, <1>3, <2>1
  <2> HIDE DEF b, r
  <2>3. CASE transcript'[b] = transcript[b]
    BY <2>1, <2>2, <2>3 DEF b, r
  <2>4. CASE Len(transcript'[b]) = Len(transcript[b]) + 1
    <3>1. r.seenTurns <= Len(transcript'[b]) /\ Len(transcript'[b]) # r.seenTurns
      BY <1>3, <1>4, <2>1, <2>4
    <3> QED
      BY <2>2, <3>1 DEF b, r
  <2> QED
    BY <1>5, <2>3, <2>4
<1>7. CASE desk'[v] \in Piped \cup {Idle}
  BY <1>2, <1>7 DEF Piped, Idle
<1>8. CASE Proceeds(v, desk'[v]) /\ UNCHANGED <<inventoryVars, booking, evals, transcript>>
  BY <1>1, <1>2, <1>4, <1>8 DEF Proceeds, Stored, inventoryVars
<1> QED
  BY <1>1, <1>6, <1>7, <1>8 DEF Shape, Moves

(* What is appended is not there yet. *)
LEMMA StoredStep ==
  ASSUME ConversationInv, [HistoryNext]_historyVars
  PROVE  TurnStoredOnce'
<1>1. /\ Shape /\ TurnStoredOnce /\ AdmittedIsNew
      /\ transcript \in [Booking -> Seq(AnyTurn)]
      /\ desk \in [Worker -> DeskRow]
  BY StepShape DEF ConversationInv, Types
<1>2. SUFFICES ASSUME NEW c \in Booking, NEW i \in DOMAIN transcript'[c],
                      NEW j \in DOMAIN transcript'[c], transcript'[c][i] = transcript'[c][j]
               PROVE  i = j
  BY DEF TurnStoredOnce
<1>3. CASE transcript'[c] = transcript[c]
  BY <1>1, <1>2, <1>3 DEF TurnStoredOnce
<1>4. ASSUME NEW w \in Worker, desk[w].pc = "admitted", desk[w].booking = c,
             TurnsUnchanged(desk[w]), transcript'[c] = Append(transcript[c], desk[w].turn)
      PROVE  i = j
  <2> DEFINE old == transcript[c]
             id == desk[w].turn
  <2>1. old \in Seq(AnyTurn) /\ id \in AnyTurn
    BY <1>1, <1>4, DeskFields
  <2>2. \A n \in DOMAIN old : old[n] # id
    BY <1>1, <1>4 DEF AdmittedIsNew, Stored
  <2>3. \A m, n \in DOMAIN old : old[m] = old[n] => m = n
    BY <1>1 DEF TurnStoredOnce
  <2>4. transcript'[c] = Append(old, id)
    BY <1>4
  <2> HIDE DEF old, id
  <2>5. /\ Len(old) \in Nat /\ DOMAIN old = 1 .. Len(old)
        /\ DOMAIN Append(old, id) = 1 .. Len(old) + 1
        /\ \A n \in 1 .. Len(old) : Append(old, id)[n] = old[n]
        /\ Append(old, id)[Len(old) + 1] = id
    BY <2>1
  <2> QED
    BY <1>2, <2>2, <2>3, <2>4, <2>5
<1> QED
  BY <1>1, <1>3, <1>4 DEF Shape, Grows

(* The evaluation that is stored was in flight before, and who computes    *)
(* one has seen fewer than the bound.                                      *)
LEMMA BoundedStep ==
  ASSUME ConversationInv, [HistoryNext]_historyVars
  PROVE  EvaluationsBounded'
<1> DEFINE E(b) == Evaluating(b)
<1>1. /\ Shape /\ EvaluationsBounded /\ IsFiniteSet(Worker) /\ MaxEvals \in Nat
      /\ evals \in EvalTable /\ evals' \in EvalTable
      /\ desk \in [Worker -> DeskRow]
  BY StepShape, WorkerAssumption DEF ConversationInv, Types, EvalTable, Shape
<1>2. SUFFICES ASSUME NEW b \in Booking
               PROVE  Len(evals'[b]) + Cardinality(Evaluating(b)')
                        <= MaxEvals + Cardinality(Worker)
  BY DEF EvaluationsBounded
<1> DEFINE was == Evaluating(b)
           is == Evaluating(b)'
<1>3. /\ was \in SUBSET Worker /\ is \in SUBSET Worker
      /\ \A v \in Worker : v \in was <=> desk[v].pc = "evaluated" /\ desk[v].booking = b
      /\ \A v \in Worker : v \in is <=> desk'[v].pc = "evaluated" /\ desk'[v].booking = b
  BY DEF Evaluating
<1>4. /\ Len(evals[b]) + Cardinality(was) <= MaxEvals + Cardinality(Worker)
      /\ Len(evals[b]) \in Nat /\ Len(evals'[b]) \in Nat
  BY <1>1 DEF EvaluationsBounded, EvalTable
<1> HIDE DEF was, is
<1>5. /\ IsFiniteSet(was) /\ IsFiniteSet(is)
      /\ Cardinality(was) \in Nat /\ Cardinality(is) \in Nat /\ Cardinality(Worker) \in Nat
      /\ Cardinality(is) <= Cardinality(Worker)
  BY <1>1, <1>3, FS_Subset, FS_CardinalityType
<1>6. ASSUME evals'[b] = evals[b] \/ Len(evals'[b]) = Len(evals[b]), is \subseteq was
      PROVE  Len(evals'[b]) + Cardinality(is) <= MaxEvals + Cardinality(Worker)
  <2>1. Cardinality(is) <= Cardinality(was)
    BY <1>5, <1>6, FS_Subset
  <2> QED
    BY <1>1, <1>4, <1>5, <1>6, <2>1
<1>7. ASSUME NEW v \in Worker, v \in is, v \notin was
      PROVE  UNCHANGED evals /\ Len(evals[b]) < MaxEvals
  <2>1. desk'[v].pc = "evaluated" /\ desk'[v].booking = b /\ desk'[v] # desk[v]
    BY <1>3, <1>7
  <2>2. Proceeds(v, desk'[v]) /\ UNCHANGED evals
    BY <1>1, <2>1, SMTT(30) DEF Shape, Moves, Piped, Idle
  <2> QED
    BY <2>1, <2>2 DEF Proceeds
<1>8. CASE ~(is \subseteq was)
  <2>1. UNCHANGED evals /\ Len(evals[b]) < MaxEvals
    BY <1>3, <1>7, <1>8
  <2> QED
    BY <1>1, <1>4, <1>5, <2>1 DEF is
<1>9. CASE is \subseteq was /\ Len(evals'[b]) = Len(evals[b])
  BY <1>6, <1>9 DEF is
<1>10. CASE is \subseteq was /\ Len(evals'[b]) # Len(evals[b])
  <2>1. PICK w \in Worker : Writes(w)
    <3>1. ~UNCHANGED evals
      BY <1>10
    <3>2. ~\E k \in HoldKey : \E ref : Decides(ref, k)
      BY <1>10, DecidesEffect
    <3> QED
      BY <3>1, <3>2, ConversationCases DEF Elsewhere, Reads, TurnCommit
  <2>2. /\ desk[w].pc = "evaluated" /\ desk[w].booking = b
        /\ Len(evals'[b]) = Len(evals[b]) + 1
    BY <1>10, <2>1, WritesEffect DEF OffersGrow
  <2>3. w \in was /\ w \notin is
    <3>1. PICK r \in Piped \cup {Idle} : desk' = [desk EXCEPT ![w] = r]
      BY <2>1, WritesEffect
    <3>2. desk'[w] = r
      BY <1>1, <3>1
    <3> QED
      BY <1>3, <2>2, <3>2 DEF Piped, Idle
  <2>4. Cardinality(is) <= Cardinality(was \ {w}) /\ Cardinality(was \ {w}) = Cardinality(was) - 1
    BY <1>5, <1>10, <2>3, FS_Subset, FS_RemoveElement
  <2> QED
    BY <1>1, <1>4, <1>5, <2>2, <2>4 DEF is
<1> QED
  BY <1>8, <1>9, <1>10
-----------------------------------------------------------------------------
(***************************************************************************)
(* The decisions: one offer of an evaluation is taken, under its own key,  *)
(* and its seats are reserved.                                             *)
(***************************************************************************)
OffersSound(table) ==
  /\ \A p, q :
       (/\ IsRef(table, p) /\ IsRef(table, q) /\ p.booking = q.booking /\ p.eval = q.eval
        /\ OfferIn(table, p).status = "ACCEPTED") =>
          /\ OfferIn(table, q).status # "OPEN"
          /\ OfferIn(table, q).status = "ACCEPTED" => p = q
  /\ \A p, q :
       (/\ IsRef(table, p) /\ IsRef(table, q)
        /\ OfferIn(table, p).key # None /\ OfferIn(table, p).key = OfferIn(table, q).key) => p = q

(* Said of the table, the invariants about offers. *)
LEMMA SoundOffers ==
  evals \in EvalTable =>
    (NoneOpenBesideAccepted /\ OneAcceptedPerEvaluation /\ KeysDiffer <=> OffersSound(evals))
<1> SUFFICES ASSUME evals \in EvalTable
             PROVE  NoneOpenBesideAccepted /\ OneAcceptedPerEvaluation /\ KeysDiffer
                      <=> OffersSound(evals)
  OBVIOUS
<1>1. \A p : p \in AllRefs <=> IsRef(evals, p)
  BY RefsAreRows
<1>2. \A p : OfferAt(p) = OfferIn(evals, p)
  BY DEF OfferAt, OfferIn
<1>3. \A p : p \in Accepted <=> p \in AllRefs /\ OfferAt(p).status = "ACCEPTED"
  BY DEF Accepted
<1> QED
  BY <1>1, <1>2, <1>3
     DEF NoneOpenBesideAccepted, OneAcceptedPerEvaluation, KeysDiffer, OffersSound

(* An offer that is there is a row. *)
LEMMA OfferIsRow ==
  ASSUME NEW table \in EvalTable, NEW p, IsRef(table, p)
  PROVE  /\ OfferIn(table, p) \in OfferedRow
         /\ Declined(OfferIn(table, p)).status = "DECLINED"
         /\ Declined(OfferIn(table, p)).key = OfferIn(table, p).key
         /\ Superseded(OfferIn(table, p)).status = "SUPERSEDED"
         /\ Superseded(OfferIn(table, p)).key = OfferIn(table, p).key
<1>1. OfferIn(table, p) \in OfferedRow
  BY OfferRows DEF IsRef, OfferIn, OfferRef
<1> QED
  BY <1>1, KeptRows

(* A decline, a new evaluation and a waitlist entry keep that. *)
LEMMA GrowingSound ==
  ASSUME evals \in EvalTable, OffersSound(evals), NEW w, NEW new, OffersGrow(w, new)
  PROVE  OffersSound(new)
<1>1. ASSUME NEW p, IsRef(evals, p)
      PROVE  /\ IsRef(new, p)
             /\ OfferIn(new, p).key = OfferIn(evals, p).key
             /\ \/ OfferIn(new, p).status = OfferIn(evals, p).status
                \/ OfferIn(new, p).status = "DECLINED"
  <2>1. /\ IsRef(new, p)
        /\ \/ OfferIn(new, p) = OfferIn(evals, p)
           \/ OfferIn(new, p) = Declined(OfferIn(evals, p))
    BY <1>1 DEF OffersGrow
  <2> QED
    BY <1>1, <2>1, OfferIsRow
<1>2. ASSUME NEW p, IsRef(new, p), ~IsRef(evals, p)
      PROVE  /\ OfferIn(new, p).status = "OPEN" /\ OfferIn(new, p).key = None
             /\ \A q : q.booking = p.booking /\ q.eval = p.eval => ~IsRef(evals, q)
  BY <1>2 DEF OffersGrow
<1>3. ASSUME NEW p, NEW q, IsRef(new, p), IsRef(new, q), p.booking = q.booking,
             p.eval = q.eval, OfferIn(new, p).status = "ACCEPTED"
      PROVE  OfferIn(new, q).status # "OPEN" /\ (OfferIn(new, q).status = "ACCEPTED" => p = q)
  <2>1. IsRef(evals, p) /\ OfferIn(evals, p).status = "ACCEPTED"
    BY <1>1, <1>2, <1>3
  <2>2. IsRef(evals, q)
    BY <1>2, <1>3, <2>1
  <2>3. OfferIn(evals, q).status # "OPEN" /\ (OfferIn(evals, q).status = "ACCEPTED" => p = q)
    BY <1>3, <2>1, <2>2 DEF OffersSound
  <2> QED
    BY <1>1, <2>2, <2>3
<1>4. ASSUME NEW p, NEW q, IsRef(new, p), IsRef(new, q),
             OfferIn(new, p).key # None, OfferIn(new, p).key = OfferIn(new, q).key
      PROVE  p = q
  <2>1. IsRef(evals, p) /\ IsRef(evals, q)
    BY <1>2, <1>4
  <2> QED
    BY <1>1, <1>4, <2>1 DEF OffersSound
<1> QED
  BY <1>3, <1>4 DEF OffersSound

(* A decision keeps that. *)
LEMMA DecidingSound ==
  ASSUME ConversationInv, OffersSound(evals), NEW k \in HoldKey, NEW ref, Decides(ref, k)
  PROVE  OffersSound(evals')
<1> DEFINE new == evals'
           old == OfferIn(evals, ref)
<1>1. /\ evals \in EvalTable
      /\ IsRef(evals, ref) /\ old \in OfferedRow /\ old = OfferAt(ref)
      /\ \A p : IsRef(new, p) <=> IsRef(evals, p)
      /\ \A p : IsRef(evals, p) => OfferIn(evals, p).key # k
      /\ Takes(ref, k) \/ Refuses(ref, k)
  BY DecidesEffect DEF ConversationInv, Types, EvalTable, OfferAt, OfferIn
<1>2. OfferIn(new, ref).key = k
  BY <1>1, DecidedRows DEF Takes, Refuses
<1>3. ASSUME NEW p, IsRef(evals, p), p # ref
      PROVE  /\ OfferIn(new, p).key = OfferIn(evals, p).key
             /\ \/ OfferIn(new, p).status = OfferIn(evals, p).status
                \/ OfferIn(new, p).status = "SUPERSEDED"
  BY <1>1, <1>3, OfferIsRow DEF Takes, Refuses
<1> HIDE DEF new, old
<1>4. ASSUME NEW p, NEW q, IsRef(new, p), IsRef(new, q),
             OfferIn(new, p).key # None, OfferIn(new, p).key = OfferIn(new, q).key
      PROVE  p = q
  <2>1. CASE p = ref
    BY <1>1, <1>2, <1>3, <1>4, <2>1
  <2>2. CASE q = ref
    BY <1>1, <1>2, <1>3, <1>4, <2>2
  <2>3. CASE p # ref /\ q # ref
    BY <1>1, <1>3, <1>4, <2>3 DEF OffersSound
  <2> QED
    BY <2>1, <2>2, <2>3
<1>5. ASSUME NEW p, NEW q, IsRef(new, p), IsRef(new, q), p.booking = q.booking,
             p.eval = q.eval, OfferIn(new, p).status = "ACCEPTED"
      PROVE  OfferIn(new, q).status # "OPEN" /\ (OfferIn(new, q).status = "ACCEPTED" => p = q)
  <2>1. IsRef(evals, p) /\ IsRef(evals, q)
    BY <1>1, <1>5
  <2>2. CASE Refuses(ref, k)
    <3>1. OfferIn(new, ref).status = "REQUIRES_REEVALUATION"
      BY <1>1, <2>2, DecidedRows DEF Refuses, new
    <3>2. \A s : IsRef(evals, s) /\ s # ref => OfferIn(new, s) = OfferIn(evals, s)
      BY <2>2 DEF Refuses, new
    <3> QED
      BY <1>5, <2>1, <3>1, <3>2 DEF OffersSound
  <2>3. CASE Takes(ref, k)
    <3>1. OfferIn(new, ref).status = "ACCEPTED" /\ old.status = "OPEN"
      BY <1>1, <2>3, DecidedRows DEF Takes, new
    <3>2. ASSUME NEW s, IsRef(evals, s), s # ref, s.booking = ref.booking, s.eval = ref.eval
          PROVE  OfferIn(new, s).status \notin {"OPEN", "ACCEPTED"}
      <4>1. OfferIn(evals, s).status # "ACCEPTED"
        BY <1>1, <3>1, <3>2 DEF OffersSound, old
      <4>2. \/ OfferIn(new, s) = OfferIn(evals, s) /\ OfferIn(evals, s).status # "OPEN"
            \/ OfferIn(new, s) = Superseded(OfferIn(evals, s))
        BY <2>3, <3>2 DEF Takes, new
      <4> QED
        BY <1>1, <3>2, <4>1, <4>2, OfferIsRow
    <3>3. CASE p = ref
      BY <1>5, <2>1, <3>1, <3>2, <3>3
    <3>4. CASE p # ref /\ p.booking = ref.booking /\ p.eval = ref.eval
      BY <1>5, <2>1, <3>2, <3>4
    <3>5. CASE p.booking # ref.booking \/ p.eval # ref.eval
      <4>1. p # ref /\ q # ref
        BY <1>5, <3>5
      <4>2. OfferIn(new, p) = OfferIn(evals, p) /\ OfferIn(new, q) = OfferIn(evals, q)
        BY <1>5, <2>1, <2>3, <3>5, <4>1 DEF Takes, new
      <4> QED
        BY <1>5, <2>1, <4>2 DEF OffersSound
    <3> QED
      BY <3>3, <3>4, <3>5
  <2> QED
    BY <1>1, <2>2, <2>3
<1> QED
  BY <1>4, <1>5 DEF OffersSound, new

(* So does every step. *)
LEMMA OffersStep ==
  ASSUME ConversationInv, [HistoryNext]_historyVars
  PROVE  NoneOpenBesideAccepted' /\ OneAcceptedPerEvaluation' /\ KeysDiffer'
<1>1. evals \in EvalTable /\ evals' \in EvalTable
  BY StepShape DEF ConversationInv, Types, EvalTable, Shape
<1>2. OffersSound(evals)
  BY <1>1, SoundOffers DEF ConversationInv
<1>3. OffersSound(evals')
  <2>1. CASE UNCHANGED evals
    BY <1>2, <2>1
  <2>2. ASSUME NEW w \in Worker, Writes(w)
        PROVE  OffersSound(evals')
    <3>1. OffersGrow(w, evals')
      BY <2>2, WritesEffect
    <3> QED
      BY <1>1, <1>2, <3>1, GrowingSound
  <2>3. ASSUME NEW k \in HoldKey, NEW ref, Decides(ref, k)
        PROVE  OffersSound(evals')
    BY <1>2, <2>3, DecidingSound
  <2> QED
    BY <2>1, <2>2, <2>3, ConversationCases DEF Elsewhere, Reads, TurnCommit
<1>4. (evals \in EvalTable =>
        (NoneOpenBesideAccepted /\ OneAcceptedPerEvaluation /\ KeysDiffer
           <=> OffersSound(evals)))'
  BY SoundOffers, PTL
<1> QED
  BY <1>1, <1>3, <1>4

(* A reservation writes the row it names. *)
LEMMA ReservedRow ==
  ASSUME NEW h \in HoldTable, NEW k \in HoldKey, NEW b, NEW d, NEW q, NEW t, NEW e
  PROVE  Reserved(h, k, b, d, q, t, e)[k] =
           [status |-> "ACTIVE", booking |-> b, departure |-> d, quantity |-> q, expiresAt |-> e]
<1> DEFINE swept == Sweep(h, d, t)
<1>1. swept \in HoldTable
  BY SweepType
<1> HIDE DEF swept
<1>2. DOMAIN swept = HoldKey
  BY <1>1, SMTT(40) DEF HoldTable
<1> QED
  BY <1>2 DEF Reserved, swept

(* A taken offer gets its seats, an offer taken before keeps them. *)
LEMMA ReservedStep ==
  ASSUME ConversationInv, [HistoryNext]_historyVars
  PROVE  AcceptedIsReserved'
<1>1. /\ evals \in EvalTable /\ evals' \in EvalTable /\ AcceptedIsReserved
      /\ holds \in HoldTable
  BY StepShape DEF ConversationInv, Types, EvalTable, Shape, InventoryTypeOK
<1>2. /\ \A p : p \in AllRefs <=> IsRef(evals, p)
      /\ \A p : p \in AllRefs' <=> IsRef(evals', p)
  <2>1. (evals \in EvalTable => \A p : p \in AllRefs <=> IsRef(evals, p))'
    BY RefsAreRows, PTL
  <2> QED
    BY <1>1, <2>1, RefsAreRows
<1> DEFINE Backed(ref, offer, table) ==
             /\ offer.key \in HoldKey
             /\ table[offer.key] # NoHold
             /\ table[offer.key].booking = ref.booking
             /\ table[offer.key].departure = offer.dep
             /\ table[offer.key].quantity = offer.pax
<1>3. ASSUME NEW p, IsRef(evals, p), OfferIn(evals, p).status = "ACCEPTED"
      PROVE  Backed(p, OfferIn(evals, p), holds')
  <2> DEFINE offer == OfferIn(evals, p)
  <2>1. Backed(p, offer, holds)
    BY <1>1, <1>2, <1>3 DEF AcceptedIsReserved, OfferAt, OfferIn
  <2> HIDE DEF offer
  <2> QED
    BY <2>1, HoldTermsKept, SMTT(40) DEF offer
<1>4. ASSUME NEW p, IsRef(evals', p), OfferIn(evals', p).status = "ACCEPTED"
      PROVE  Backed(p, OfferIn(evals', p), holds')
  <2>1. ASSUME OfferIn(evals', p) = OfferIn(evals, p), IsRef(evals, p)
        PROVE  Backed(p, OfferIn(evals', p), holds')
    BY <1>3, <1>4, <2>1
  <2>2. CASE UNCHANGED evals
    BY <1>4, <2>1, <2>2
  <2>3. ASSUME NEW w \in Worker, Writes(w)
        PROVE  Backed(p, OfferIn(evals', p), holds')
    <3> HIDE DEF Backed
    <3>1. IsRef(evals, p)
      BY <1>4, <2>3, WritesEffect DEF OffersGrow
    <3>2. \/ OfferIn(evals', p) = OfferIn(evals, p)
          \/ OfferIn(evals', p) = Declined(OfferIn(evals, p))
      BY <2>3, <3>1, WritesEffect DEF OffersGrow
    <3> QED
      BY <1>1, <1>4, <2>1, <3>1, <3>2, OfferIsRow
  <2>4. ASSUME NEW k \in HoldKey, NEW ref, Decides(ref, k)
        PROVE  Backed(p, OfferIn(evals', p), holds')
    <3>1. /\ IsRef(evals, ref) /\ OfferAt(ref) \in OfferedRow /\ IsRef(evals, p)
          /\ Takes(ref, k) \/ Refuses(ref, k)
      BY <1>4, <2>4, DecidesEffect
    <3>2. CASE p = ref
      <4> DEFINE offer == OfferAt(ref)
      <4>1. Refused(offer, k).status # "ACCEPTED"
        BY <3>1, DecidedRows
      <4>2. Takes(ref, k)
        BY <1>4, <3>1, <3>2, <4>1 DEF Refuses
      <4>3. /\ OfferIn(evals', p).key = k
            /\ OfferIn(evals', p).dep = offer.dep /\ OfferIn(evals', p).pax = offer.pax
        BY <3>1, <3>2, <4>2, DecidedRows DEF Takes
      <4>4. MoveHold(k, p.booking, offer.dep, offer.pax, now, now + HoldTTL)
        BY <3>2, <4>2 DEF Takes
      <4> HIDE DEF offer
      <4>5. holds'[k] = [status |-> "ACTIVE", booking |-> p.booking, departure |-> offer.dep,
                         quantity |-> offer.pax, expiresAt |-> now + HoldTTL]
        BY <1>1, <4>4, ReleaseType, ReservedRow DEF MoveHold
      <4>6. holds'[k] # NoHold
        BY <4>5 DEF NoHold
      <4> QED
        BY <4>3, <4>5, <4>6
    <3>3. CASE p # ref
      <4> HIDE DEF Backed
      <4>1. \/ OfferIn(evals', p) = OfferIn(evals, p)
            \/ OfferIn(evals', p) = Superseded(OfferIn(evals, p))
        BY <3>1, <3>3, SMTT(40) DEF Takes, Refuses
      <4> QED
        BY <1>1, <1>4, <2>1, <3>1, <4>1, OfferIsRow
    <3> QED
      BY <3>2, <3>3
  <2> HIDE DEF Backed
  <2> QED
    BY <2>2, <2>3, <2>4, ConversationCases DEF Elsewhere, Reads, TurnCommit
<1> QED
  BY <1>2, <1>4 DEF AcceptedIsReserved, OfferAt, OfferIn

(* What one step may do to one offer. *)
OfferStep(ref) ==
  LET was == OfferAt(ref).status
      is  == evals'[ref.booking][ref.eval].offers[ref.rank].status
  IN  /\ is = "ACCEPTED" => was \in {"OPEN", "ACCEPTED"}
      /\ (was = "ACCEPTED" /\ is # "ACCEPTED") =>
           /\ is = "DECLINED"
           /\ \E w \in Worker : desk[w] = [pc |-> "declining", ref |-> ref]

(* Every step does to an offer what OfferStep allows. *)
LEMMA OfferStepAlways ==
  ASSUME ConversationInv, [HistoryNext]_historyVars, NEW ref \in AllRefs
  PROVE  OfferStep(ref)
<1> DEFINE was == OfferIn(evals, ref).status
           is == OfferIn(evals', ref).status
           Held == /\ is = "ACCEPTED" => was \in {"OPEN", "ACCEPTED"}
                   /\ (was = "ACCEPTED" /\ is # "ACCEPTED") =>
                        /\ is = "DECLINED"
                        /\ \E w \in Worker : desk[w] = [pc |-> "declining", ref |-> ref]
<1>1. evals \in EvalTable /\ IsRef(evals, ref)
  BY RefsAreRows DEF ConversationInv, Types, EvalTable
<1>2. ASSUME NEW w \in Worker, Writes(w)
      PROVE  Held
  <2>1. \/ OfferIn(evals', ref) = OfferIn(evals, ref)
        \/ /\ desk[w] = [pc |-> "declining", ref |-> ref]
           /\ OfferIn(evals', ref) = Declined(OfferIn(evals, ref))
    BY <1>1, <1>2, WritesEffect DEF OffersGrow
  <2> QED
    BY <1>1, <2>1, OfferIsRow
<1>3. ASSUME NEW k \in HoldKey, NEW p, Decides(p, k)
      PROVE  Held
  <2>1. /\ IsRef(evals, p) /\ OfferAt(p) \in OfferedRow /\ OfferAt(p) = OfferIn(evals, p)
        /\ Takes(p, k) \/ Refuses(p, k)
    BY <1>3, DecidesEffect DEF OfferAt, OfferIn
  <2>2. CASE ref = p /\ Takes(p, k)
    BY <2>1, <2>2, DecidedRows DEF Takes
  <2>3. CASE ref = p /\ Refuses(p, k)
    <3>1. was # "ACCEPTED"
      <4>1. was = "ACCEPTED" => OfferAt(ref).key \in HoldKey
        BY <2>1, <2>3 DEF ConversationInv, AcceptedIsReserved
      <4>2. OfferAt(ref).key = None
        BY <2>3 DEF Refuses
      <4> QED
        BY <4>1, <4>2, WorkerAssumption
    <3>2. is = "REQUIRES_REEVALUATION"
      BY <2>1, <2>3, DecidedRows DEF Refuses
    <3> QED
      BY <3>1, <3>2
  <2>4. CASE ref # p
    <3>1. \/ OfferIn(evals', ref) = OfferIn(evals, ref)
          \/ /\ OfferIn(evals, ref).status = "OPEN"
             /\ OfferIn(evals', ref) = Superseded(OfferIn(evals, ref))
      BY <1>1, <2>1, <2>4 DEF Takes, Refuses
    <3> QED
      BY <1>1, <3>1, OfferIsRow
  <2> QED
    BY <2>1, <2>2, <2>3, <2>4
<1>4. Held
  <2> HIDE DEF Held
  <2>1. CASE UNCHANGED evals
    BY <2>1 DEF Held
  <2> QED
    BY <1>2, <1>3, <2>1, ConversationCases DEF Elsewhere, Reads, TurnCommit
<1> QED
  BY <1>4 DEF OfferStep, OfferAt, OfferIn
-----------------------------------------------------------------------------
(***************************************************************************)
(* The call.                                                               *)
(***************************************************************************)
(* Only a turn and the end of a call write its status. *)
LEMMA CallWriters ==
  ASSUME [HistoryNext]_historyVars
  PROVE  \/ UNCHANGED call
         \/ \E w \in Worker : EndCall(w)
         \/ \E w \in Worker, k \in HoldKey : TurnCommit(w, k)
<1>1. CASE UNCHANGED historyVars
  BY <1>1 DEF historyVars, conversationVars, callVars
<1>2. CASE AdmissionStep
  <2>1. ASSUME NEW w \in Worker, NEW b \in Call,
               \/ \E id \in TurnId, trusted \in BOOLEAN : TurnBegin(w, b, id, trusted)
               \/ RequestEvaluates(w, b)
               \/ EndRead(w, b)
               \/ \E ref \in Refs(b) : RequestDeclines(w, ref)
        PROVE  UNCHANGED call
    BY <2>1 DEF TurnBegin, RequestEvaluates, EndRead, RequestDeclines, callVars
  <2>2. ASSUME NEW w \in Worker, TurnEvaluates(w) \/ TwinStep(w)
        PROVE  UNCHANGED call
    BY <2>2 DEF TurnEvaluates, TwinStep, callVars
  <2>3. ASSUME NEW k \in HoldKey,
               \/ AcceptStep(k)
               \/ \E want \in RivalWants : RivalReserves(k, want[1], want[2])
        PROVE  UNCHANGED call
    BY <2>3 DEF AcceptStep, RivalReserves, callVars
  <2> QED
    BY <1>2, <2>1, <2>2, <2>3 DEF AdmissionStep, callVars
<1>3. CASE \E w \in Worker : RequestFails(w)
  BY <1>3 DEF RequestFails, callVars
<1>4. ASSUME NEW b \in Call,
             \/ NoticeArrives(b) \/ NoticeReads(b) \/ NoticeFails(b)
             \/ \E w \in Worker : NoticeAppends(w, b)
      PROVE  UNCHANGED call
  BY <1>4 DEF NoticeArrives, NoticeReads, NoticeFails, NoticeAppends, TurnBegin,
              conversationVars, callVars
<1> QED
  BY <1>1, <1>2, <1>3, <1>4 DEF HistoryNext

(* A status is one of the five, and an ended call stays so. *)
LEMMA CallStep ==
  ASSUME ConversationInv, [HistoryNext]_historyVars
  PROVE  /\ call' \in [Booking -> CallStatus]
         /\ \A b \in Booking : call[b] \in TerminalCall => call'[b] \in TerminalCall
<1>1. call \in [Booking -> CallStatus] /\ desk \in [Worker -> DeskRow]
  BY DEF ConversationInv, Types
<1>2. {"ACTIVE", "ENDED", "CANCELLED"} \subseteq CallStatus
  BY DEF CallStatus
<1>3. CASE UNCHANGED call
  BY <1>1, <1>3
<1>4. ASSUME NEW w \in Worker, EndCall(w)
      PROVE  /\ call' \in [Booking -> CallStatus]
             /\ \A b \in Booking : call[b] \in TerminalCall => call'[b] \in TerminalCall
  <2>1. /\ desk[w].booking \in Booking
        /\ call' = [call EXCEPT ![desk[w].booking] = EndTarget(desk[w].seenCall)]
    BY <1>1, <1>4, DeskFields DEF EndCall
  <2>2. EndTarget(desk[w].seenCall) \in {"ENDED", "CANCELLED"}
    BY DEF EndTarget
  <2> QED
    BY <1>1, <1>2, <2>1, <2>2 DEF TerminalCall
<1>5. ASSUME NEW w \in Worker, NEW k \in HoldKey, TurnCommit(w, k)
      PROVE  /\ call' \in [Booking -> CallStatus]
             /\ \A b \in Booking : call[b] \in TerminalCall => call'[b] \in TerminalCall
  <2> DEFINE r == desk[w]
  <2>1. /\ r.booking \in Booking
        /\ r.seenCall = "CREATED" => call[r.booking] = "CREATED"
        /\ call' = [call EXCEPT ![r.booking] = IF r.seenCall = "CREATED" THEN "ACTIVE"
                                               ELSE call[r.booking]]
    BY <1>1, <1>5, DeskFields DEF TurnCommit, CallUnchanged
  <2> HIDE DEF r
  <2>2. CASE r.seenCall = "CREATED"
    BY <1>1, <1>2, <2>1, <2>2 DEF TerminalCall
  <2>3. CASE r.seenCall # "CREATED"
    BY <1>1, <2>1, <2>3
  <2> QED
    BY <2>2, <2>3
<1> QED
  BY <1>3, <1>4, <1>5, CallWriters
-----------------------------------------------------------------------------
(***************************************************************************)
(* Counting words: what is appended, taken from the list and still missing.*)
(***************************************************************************)
UpTo(S, i) == {j \in S : j <= i}

(* The members of a set of numbers, counted from below, have the places 1, *)
(* 2 and so on, each one of its own.                                       *)
LEMMA CountedPlaces ==
  ASSUME NEW S \in SUBSET Nat, IsFiniteSet(S)
  PROVE  /\ \A i \in S : Cardinality(UpTo(S, i)) \in 1 .. Cardinality(S)
         /\ \A i, j \in S : Cardinality(UpTo(S, i)) = Cardinality(UpTo(S, j)) => i = j
         /\ \A n \in 1 .. Cardinality(S) : \E i \in S : Cardinality(UpTo(S, i)) = n
<1> DEFINE total == Cardinality(S)
           place == [i \in S |-> Cardinality(UpTo(S, i))]
<1>1. total \in Nat /\ IsFiniteSet(1 .. total) /\ Cardinality(1 .. total) = total
  BY FS_CardinalityType, FS_Interval
<1>2. ASSUME NEW i \in S
      PROVE  /\ IsFiniteSet(UpTo(S, i)) /\ Cardinality(UpTo(S, i)) \in 1 .. total
             /\ i \in UpTo(S, i)
  <2> DEFINE below == UpTo(S, i)
  <2>1. below \in SUBSET S /\ i \in below
    BY DEF UpTo
  <2> HIDE DEF below
  <2>2. IsFiniteSet(below) /\ Cardinality(below) \in Nat /\ Cardinality(below) <= total
    BY <2>1, FS_Subset, FS_CardinalityType
  <2>3. Cardinality(below) # 0
    BY <2>1, <2>2, FS_EmptySet
  <2> QED
    BY <1>1, <2>1, <2>2, <2>3 DEF below
<1>3. ASSUME NEW i \in S, NEW j \in S, i < j
      PROVE  Cardinality(UpTo(S, i)) < Cardinality(UpTo(S, j))
  <2> DEFINE low == UpTo(S, i)
             high == UpTo(S, j)
  <2>1. low \cup {j} \in SUBSET high /\ j \notin low
    <3>1. \A m \in S : m \in Int
      OBVIOUS
    <3>2. \A m \in S : m <= i => m <= j
      BY <1>3, <3>1
    <3>3. ~(j <= i) /\ j <= j
      BY <1>3, <3>1
    <3> QED
      BY <3>2, <3>3 DEF UpTo
  <2>2. /\ IsFiniteSet(low) /\ Cardinality(low) \in Nat
        /\ IsFiniteSet(high) /\ Cardinality(high) \in Nat
    BY <1>1, <1>2
  <2> HIDE DEF low, high
  <2>3. Cardinality(low \cup {j}) = Cardinality(low) + 1
    BY <2>1, <2>2, FS_AddElement
  <2>4. Cardinality(low \cup {j}) <= Cardinality(high)
    BY <2>1, <2>2, FS_Subset
  <2> QED
    BY <2>2, <2>3, <2>4 DEF low, high
<1>4. ASSUME NEW i \in S, NEW j \in S, Cardinality(UpTo(S, i)) = Cardinality(UpTo(S, j))
      PROVE  i = j
  <2>1. i \in Nat /\ j \in Nat /\ Cardinality(UpTo(S, i)) \in Nat
    BY <1>1, <1>2
  <2>2. ~(i < j) /\ ~(j < i)
    BY <1>3, <1>4, <2>1
  <2> QED
    BY <2>1, <2>2
<1>5. place \in [S -> 1 .. total]
  BY <1>2
<1> HIDE DEF total
<1>6. place \in Injection(S, 1 .. total)
  BY <1>4, <1>5 DEF Injection, IsInjective
<1>7. place \in Surjection(S, 1 .. total)
  <2>1. Cardinality(S) = Cardinality(1 .. total)
    BY <1>1 DEF total
  <2> QED
    BY <1>1, <1>6, <2>1, FS_Injection
<1>8. \A n \in 1 .. total : \E i \in S : place[i] = n
  BY <1>7 DEF Surjection
<1> QED
  BY <1>2, <1>4, <1>8 DEF total

(* The places of some words in a list are finitely many. *)
LEMMA WordsFinite ==
  ASSUME NEW X, NEW s \in Seq(X), NEW said
  PROVE  /\ SameWords(s, said) \in SUBSET (1 .. Len(s))
         /\ SameWords(s, said) \in SUBSET Nat
         /\ IsFiniteSet(SameWords(s, said)) /\ Cardinality(SameWords(s, said)) \in Nat
<1>1. SameWords(s, said) \in SUBSET (1 .. Len(s)) /\ Len(s) \in Nat
  BY DEF SameWords
<1>2. IsFiniteSet(1 .. Len(s))
  BY <1>1, FS_Interval
<1>3. IsFiniteSet(SameWords(s, said))
  BY <1>1, <1>2, FS_Subset
<1> QED
  BY <1>1, <1>3, FS_CardinalityType

(* One turn more says its words once more. *)
SaysWords(id, said) == IF Said[id] = said THEN 1 ELSE 0

(* Said once more than before, and other words as often as before. *)
LEMMA AppendedWords ==
  ASSUME NEW X, NEW s \in Seq(X), NEW id \in X, NEW said
  PROVE  Cardinality(SameWords(Append(s, id), said))
           = Cardinality(SameWords(s, said)) + SaysWords(id, said)
<1> DEFINE words == SameWords(s, said)
           new == Append(s, id)
<1>1. /\ Len(s) \in Nat /\ DOMAIN s = 1 .. Len(s) /\ DOMAIN new = 1 .. Len(s) + 1
      /\ \A i \in 1 .. Len(s) : new[i] = s[i]
      /\ new[Len(s) + 1] = id
  OBVIOUS
<1>2. /\ words \in SUBSET (1 .. Len(s)) /\ IsFiniteSet(words) /\ Cardinality(words) \in Nat
  BY WordsFinite
<1> HIDE DEF new
<1>3. CASE Said[id] = said
  <2>1. SameWords(new, said) = words \cup {Len(s) + 1}
    BY <1>1, <1>3 DEF SameWords
  <2>2. Len(s) + 1 \notin words
    BY <1>1, <1>2
  <2> HIDE DEF words
  <2>3. Cardinality(words \cup {Len(s) + 1}) = Cardinality(words) + 1
    BY <1>2, <2>2, FS_AddElement
  <2> QED
    BY <1>3, <2>1, <2>3 DEF SaysWords, words, new
<1>4. CASE Said[id] # said
  <2>1. SameWords(new, said) = words
    BY <1>1, <1>4 DEF SameWords
  <2> HIDE DEF words
  <2> QED
    BY <1>2, <1>4, <2>1 DEF SaysWords, words, new
<1> QED
  BY <1>3, <1>4

(* What the head of a list does not say, its tail does. *)
LEMMA TailWords ==
  ASSUME NEW X, NEW s \in Seq(X), s # <<>>, NEW said
  PROVE  Cardinality(SameWords(s, said))
           <= Cardinality(SameWords(Tail(s), said)) + SaysWords(Head(s), said)
<1> DEFINE words == SameWords(s, said)
           rest == SameWords(Tail(s), said)
           others == words \ {1}
           f == [i \in others |-> i - 1]
<1>1. /\ Len(s) \in Nat /\ Len(s) # 0 /\ DOMAIN s = 1 .. Len(s)
      /\ Tail(s) \in Seq(X) /\ DOMAIN Tail(s) = 1 .. Len(s) - 1
      /\ \A i \in 2 .. Len(s) : Tail(s)[i - 1] = s[i]
      /\ Head(s) = s[1]
  OBVIOUS
<1>2. /\ words \in SUBSET (1 .. Len(s)) /\ IsFiniteSet(words) /\ Cardinality(words) \in Nat
      /\ IsFiniteSet(rest) /\ Cardinality(rest) \in Nat
  BY <1>1, WordsFinite
<1>3. ASSUME NEW i \in others
      PROVE  i \in 2 .. Len(s) /\ i - 1 \in rest
  <2>1. i \in 2 .. Len(s) /\ Said[s[i]] = said
    BY <1>1, <1>2 DEF SameWords
  <2>2. Said[Tail(s)[i - 1]] = said /\ i - 1 \in DOMAIN Tail(s)
    BY <1>1, <2>1
  <2> QED
    BY <2>1, <2>2 DEF SameWords
<1>4. 1 \in words <=> Said[Head(s)] = said
  BY <1>1 DEF SameWords
<1> HIDE DEF rest
<1>5. f \in Injection(others, rest)
  <2>1. f \in [others -> rest]
    BY <1>3
  <2>2. \A i, j \in others : i - 1 = j - 1 => i = j
    BY <1>3
  <2>3. \A i \in others : f[i] = i - 1
    OBVIOUS
  <2> HIDE DEF f, others
  <2> QED
    BY <2>1, <2>2, <2>3 DEF Injection, IsInjective
<1> HIDE DEF f, words
<1>6. Cardinality(others) <= Cardinality(rest)
  <2> HIDE DEF others
  <2> QED
    BY <1>2, <1>5, FS_Injection
<1>7. Cardinality(others) = IF 1 \in words THEN Cardinality(words) - 1 ELSE Cardinality(words)
  BY <1>2, FS_RemoveElement
<1>8. CASE 1 \in words
  BY <1>2, <1>4, <1>6, <1>7, <1>8 DEF SaysWords, words, rest
<1>9. CASE 1 \notin words
  BY <1>2, <1>4, <1>6, <1>7, <1>9 DEF SaysWords, words, rest
<1> QED
  BY <1>8, <1>9

(* A list is worked off: stored turns and missing ones say at least what   *)
(* it lists.                                                               *)
LEMMA MissingWords ==
  ASSUME NEW X, NEW Y, NEW e \in Seq(Y), NEW h \in Seq(X), NEW said
  PROVE  LET lacking == {i \in Missing(e, h) : Said[h[i]] = said}
         IN  /\ IsFiniteSet(lacking) /\ Cardinality(lacking) \in Nat
             /\ Cardinality(SameWords(h, said))
                  <= Cardinality(SameWords(e, said)) + Cardinality(lacking)
<1> DEFINE words == SameWords(h, said)
           stored == Cardinality(SameWords(e, said))
           lacking == {i \in Missing(e, h) : Said[h[i]] = said}
           matched == words \ lacking
           place == [i \in matched |-> Cardinality(UpTo(words, i))]
<1>1. /\ words \in SUBSET Nat /\ IsFiniteSet(words) /\ Cardinality(words) \in Nat
      /\ stored \in Nat
  BY WordsFinite
<1>2. lacking \in SUBSET words
  BY DEF Missing, SameWords
<1>3. \A i \in words : i \in lacking <=> Cardinality(UpTo(words, i)) > stored
  BY DEF Missing, SameWords, UpTo
<1> HIDE DEF words, stored, lacking
<1>4. /\ \A i \in words : Cardinality(UpTo(words, i)) \in 1 .. Cardinality(words)
      /\ \A i, j \in words : Cardinality(UpTo(words, i)) = Cardinality(UpTo(words, j)) => i = j
  BY <1>1, CountedPlaces
<1>5. \A i \in matched : Cardinality(UpTo(words, i)) \in 1 .. stored
  BY <1>1, <1>3, <1>4
<1>6. place \in Injection(matched, 1 .. stored)
  <2>1. place \in [matched -> 1 .. stored]
    BY <1>5
  <2>2. \A i, j \in matched : place[i] = place[j] => i = j
    BY <1>4
  <2> QED
    BY <2>1, <2>2 DEF Injection, IsInjective
<1>7. /\ IsFiniteSet(lacking) /\ Cardinality(lacking) \in Nat
      /\ IsFiniteSet(matched) /\ Cardinality(matched) \in Nat
  BY <1>1, <1>2, FS_Subset, FS_CardinalityType
<1>8. Cardinality(matched) <= stored
  <2> HIDE DEF matched, place
  <2>1. IsFiniteSet(1 .. stored) /\ Cardinality(1 .. stored) = stored
    <3>1. stored \in Nat
      BY <1>1
    <3> QED
      BY <3>1, FS_Interval
  <2> QED
    BY <1>6, <2>1, FS_Injection
<1>9. Cardinality(words) <= Cardinality(matched) + Cardinality(lacking)
  <2>1. words = matched \cup lacking
    BY <1>2
  <2>2. matched \cap lacking = {}
    OBVIOUS
  <2> HIDE DEF matched
  <2>3. Cardinality(matched \cup lacking)
          = Cardinality(matched) + Cardinality(lacking) - Cardinality(matched \cap lacking)
    BY <1>7, FS_Union
  <2>4. Cardinality(matched \cap lacking) = 0
    BY <2>2, FS_EmptySet
  <2> QED
    BY <1>7, <2>1, <2>3, <2>4
<1> QED
  BY <1>1, <1>7, <1>8, <1>9 DEF words, stored, lacking

(* What is missing is listed, in the order of the list.                    *)
LEMMA UnmatchedWords ==
  ASSUME NEW X, NEW Y, NEW e \in Seq(Y), NEW h \in Seq(X)
  PROVE  /\ Unmatched(e, h) \in Seq(X)
         /\ \A said : Cardinality(SameWords(h, said))
              <= Cardinality(SameWords(e, said)) + Cardinality(SameWords(Unmatched(e, h), said))
<1> DEFINE missing == Missing(e, h)
           total == Cardinality(missing)
           at(n) == CHOOSE i \in missing : Cardinality({j \in missing : j <= i}) = n
           todo == Unmatched(e, h)
<1>1. Len(h) \in Nat /\ DOMAIN h = 1 .. Len(h) /\ missing \in SUBSET (1 .. Len(h))
  BY DEF Missing
<1>2. missing \in SUBSET Nat /\ IsFiniteSet(missing) /\ total \in Nat
  <2> HIDE DEF missing
  <2>1. IsFiniteSet(1 .. Len(h))
    BY <1>1, FS_Interval
  <2>2. missing \in SUBSET Nat
    BY <1>1
  <2>3. IsFiniteSet(missing)
    BY <1>1, <2>1, FS_Subset
  <2> QED
    BY <2>2, <2>3, FS_CardinalityType
<1>3. todo = [n \in 1 .. total |-> h[at(n)]]
  BY DEF Unmatched
<1>4. /\ \A i \in missing : Cardinality(UpTo(missing, i)) \in 1 .. total
      /\ \A i, j \in missing :
           Cardinality(UpTo(missing, i)) = Cardinality(UpTo(missing, j)) => i = j
      /\ \A n \in 1 .. total : \E i \in missing : Cardinality(UpTo(missing, i)) = n
  <2> HIDE DEF missing
  <2> QED
    BY <1>2, CountedPlaces
<1>5. \A n \in 1 .. total : at(n) \in missing /\ Cardinality(UpTo(missing, at(n))) = n
  BY <1>4 DEF UpTo
<1> HIDE DEF missing, total, at, todo
<1>6. \A i \in missing : at(Cardinality(UpTo(missing, i))) = i
  BY <1>4, <1>5
<1>7. todo \in Seq(X) /\ DOMAIN todo = 1 .. total
  <2>1. \A i \in missing : h[i] \in X
    BY <1>1
  <2>2. \A n \in 1 .. total : h[at(n)] \in X
    BY <1>5, <2>1
  <2> QED
    BY <1>2, <1>3, <2>2
<1>8. ASSUME NEW said
      PROVE  Cardinality(SameWords(h, said))
               <= Cardinality(SameWords(e, said)) + Cardinality(SameWords(todo, said))
  <2> DEFINE lacking == {i \in Missing(e, h) : Said[h[i]] = said}
             place == [i \in lacking |-> Cardinality(UpTo(missing, i))]
             words == SameWords(todo, said)
  <2>1. /\ IsFiniteSet(lacking) /\ Cardinality(lacking) \in Nat
        /\ Cardinality(SameWords(h, said))
             <= Cardinality(SameWords(e, said)) + Cardinality(lacking)
    BY MissingWords
  <2>2. /\ IsFiniteSet(words) /\ Cardinality(words) \in Nat
        /\ Cardinality(SameWords(h, said)) \in Nat /\ Cardinality(SameWords(e, said)) \in Nat
    BY <1>7, WordsFinite
  <2>3. ASSUME NEW i \in lacking
        PROVE  i \in missing /\ Cardinality(UpTo(missing, i)) \in words
    <3>1. i \in missing /\ Said[h[i]] = said
      BY DEF missing
    <3>2. /\ Cardinality(UpTo(missing, i)) \in 1 .. total
          /\ todo[Cardinality(UpTo(missing, i))] = h[i]
      BY <1>3, <1>4, <1>6, <3>1
    <3> QED
      BY <1>7, <3>1, <3>2 DEF SameWords
  <2> HIDE DEF lacking, words
  <2>4. place \in Injection(lacking, words)
    <3>1. place \in [lacking -> words]
      BY <2>3
    <3>2. \A i, j \in lacking : place[i] = place[j] => i = j
      BY <1>4, <2>3
    <3> QED
      BY <3>1, <3>2 DEF Injection, IsInjective
  <2> HIDE DEF place
  <2>5. Cardinality(lacking) <= Cardinality(words)
    BY <2>2, <2>4, FS_Injection
  <2> QED
    BY <2>1, <2>2, <2>5 DEF words
<1> QED
  BY <1>7, <1>8 DEF todo
-----------------------------------------------------------------------------
(***************************************************************************)
(* The history.                                                            *)
(***************************************************************************)
(* An admitted turn stays so until it is stored, unless its request fails. *)
LEMMA AdmittedLeaves ==
  ASSUME Types, AdmissionStep, NEW v \in Worker, desk[v].pc = "admitted"
  PROVE  \/ desk'[v] = desk[v]
         \/ transcript'[desk[v].booking] = Append(transcript[desk[v].booking], desk[v].turn)
<1>1. /\ desk \in [Worker -> DeskRow] /\ transcript \in [Booking -> Seq(AnyTurn)]
      /\ desk[v].booking \in Booking
  BY DeskFields DEF Types
<1>2. ASSUME NEW w \in Worker, NEW r, desk' = [desk EXCEPT ![w] = r], desk[w].pc # "admitted"
      PROVE  desk'[v] = desk[v]
  BY <1>1, <1>2
<1>3. desk[v] # Idle
  BY DEF Idle
<1>4. ASSUME NEW w \in Worker, NEW b \in Call,
             \/ \E id \in TurnId, trusted \in BOOLEAN : TurnBegin(w, b, id, trusted)
             \/ RequestEvaluates(w, b)
             \/ EndRead(w, b)
             \/ \E ref \in Refs(b) : RequestDeclines(w, ref)
      PROVE  desk'[v] = desk[v]
  <2>1. desk[w] = Idle /\ \E r : desk' = [desk EXCEPT ![w] = r]
    BY <1>4 DEF TurnBegin, RequestEvaluates, EvaluateRead, EndRead, RequestDeclines, DeclineRead
  <2> QED
    BY <1>2, <2>1 DEF Idle
<1>5. ASSUME NEW w \in Worker, TurnEvaluates(w) \/ TwinStep(w) \/ EndCall(w)
      PROVE  desk'[v] = desk[v]
  <2>1. /\ desk[w].pc \in {"evaluate", "evaluated", "declining", "select", "waiting", "ending"}
        /\ \E r : desk' = [desk EXCEPT ![w] = r]
    BY <1>5 DEF TurnEvaluates, EvaluateRead, TwinStep, EvaluateWrite, DeclineWrite, SelectRead,
                SelectWaitlist, EndCall
  <2> QED
    BY <1>2, <2>1
<1>6. ASSUME NEW k \in HoldKey, AcceptStep(k)
      PROVE  desk'[v] = desk[v]
  <2>1. \/ UNCHANGED desk
        \/ \E w \in Worker : desk[w].pc = "accepting" /\ desk' = [desk EXCEPT ![w] = Idle]
    BY <1>6 DEF AcceptStep, SelectAccept, AcceptOffer
  <2> QED
    BY <1>2, <2>1
<1>7. ASSUME NEW k \in HoldKey, NEW w \in Worker, TurnCommit(w, k)
      PROVE  \/ desk'[v] = desk[v]
             \/ transcript'[desk[v].booking]
                  = Append(transcript[desk[v].booking], desk[v].turn)
  <2>1. CASE w = v
    BY <1>1, <1>7, <2>1 DEF TurnCommit
  <2>2. CASE w # v
    BY <1>1, <1>7, <2>2 DEF TurnCommit
  <2> QED
    BY <2>1, <2>2
<1>8. CASE TimePasses /\ UNCHANGED <<twinVars, callVars>>
  BY <1>8 DEF twinVars
<1>9. ASSUME NEW k \in HoldKey, NEW want \in RivalWants, RivalReserves(k, want[1], want[2])
      PROVE  desk'[v] = desk[v]
  BY <1>9 DEF RivalReserves, twinVars
<1> QED
  BY <1>4, <1>5, <1>6, <1>7, <1>8, <1>9 DEF AdmissionStep

(* Nothing that was said is forgotten. *)
LEMMA WordsGrow ==
  ASSUME ConversationInv, [HistoryNext]_historyVars, NEW b \in Call, NEW said
  PROVE  /\ TimesStored(b, said) \in Nat /\ TimesStored(b, said)' \in Nat
         /\ TimesStored(b, said) <= TimesStored(b, said)'
         /\ \A id \in AnyTurn : transcript'[b] = Append(transcript[b], id) =>
              TimesStored(b, said)' = TimesStored(b, said) + SaysWords(id, said)
<1> DEFINE old == transcript[b]
           new == transcript'[b]
<1>1. /\ Shape /\ b \in Booking /\ old \in Seq(AnyTurn) /\ new \in Seq(AnyTurn)
      /\ desk \in [Worker -> DeskRow]
  BY StepShape DEF Shape, Call, ConversationInv, Types
<1>2. /\ TimesStored(b, said) = Cardinality(SameWords(old, said))
      /\ TimesStored(b, said)' = Cardinality(SameWords(new, said))
  BY DEF TimesStored, SameWords
<1> HIDE DEF old, new
<1>3. /\ Cardinality(SameWords(old, said)) \in Nat
      /\ Cardinality(SameWords(new, said)) \in Nat
  BY <1>1, WordsFinite
<1>4. ASSUME NEW id \in AnyTurn, new = Append(old, id)
      PROVE  Cardinality(SameWords(new, said))
               = Cardinality(SameWords(old, said)) + SaysWords(id, said)
  BY <1>1, <1>4, AppendedWords
<1>5. \/ new = old
      \/ \E id \in AnyTurn : new = Append(old, id)
  <2>1. Grows(b)
    BY <1>1 DEF Shape
  <2>2. \A w \in Worker : desk[w].pc = "admitted" => desk[w].turn \in AnyTurn
    BY <1>1, DeskFields
  <2> QED
    BY <2>1, <2>2 DEF Grows, old, new
<1>6. \A id : SaysWords(id, said) \in Nat
  BY DEF SaysWords
<1>7. Cardinality(SameWords(old, said)) <= Cardinality(SameWords(new, said))
  <2>1. CASE new = old
    BY <1>3, <2>1
  <2>2. ASSUME NEW id \in AnyTurn, new = Append(old, id)
        PROVE  Cardinality(SameWords(old, said)) <= Cardinality(SameWords(new, said))
    BY <1>3, <1>4, <1>6, <2>2
  <2> QED
    BY <1>5, <2>1, <2>2
<1> QED
  BY <1>2, <1>3, <1>4, <1>7 DEF old, new

(* Words that are stored or under way, next to the same list. *)
LEMMA WordsLeftSince ==
  ASSUME NEW b, NEW said, WordsLeft(b, said), notice'[b].todo = notice[b].todo,
         TimesStored(b, said) \in Nat, TimesStored(b, said)' \in Nat,
         UnderWay(b, said) \in 0 .. 1, UnderWay(b, said)' \in 0 .. 1,
         Cardinality(SameWords(notice[b].todo, said)) \in Nat, TimesListed(said) \in Nat,
         TimesStored(b, said) + UnderWay(b, said) <= TimesStored(b, said)' + UnderWay(b, said)'
  PROVE  WordsLeft(b, said)'
<1> DEFINE s == TimesStored(b, said)
           t == TimesStored(b, said)'
           u == UnderWay(b, said)
           v == UnderWay(b, said)'
           c == Cardinality(SameWords(notice[b].todo, said))
           m == TimesListed(said)
<1>1. s + c + u >= m
  BY DEF WordsLeft
<1>2. WordsLeft(b, said)' <=> t + c + v >= m
  BY DEF WordsLeft, TimesListed
<1> HIDE DEF s, t, u, v, c, m
<1>3. /\ s \in Nat /\ t \in Nat /\ u \in 0 .. 1 /\ v \in 0 .. 1 /\ c \in Nat /\ m \in Nat
      /\ s + u <= t + v
  BY DEF s, t, u, v, c, m
<1> QED
  BY <1>1, <1>2, <1>3

(* A step of the desks that fails no append: what a turn that was under    *)
(* way said is stored, or still under way.                                 *)
LEMMA FollowedLeft ==
  ASSUME ConversationInv, AdmissionStep, notice' = Followed(FALSE), NEW b \in Call
  PROVE  LeftOf(b)'
<1> DEFINE n == notice[b]
           w == n.by
<1>1. /\ Types /\ Shape /\ b \in Booking /\ n \in NoticeRow /\ LeftOf(b)
      /\ [HistoryNext]_historyVars /\ desk \in [Worker -> DeskRow]
  <2>1. [HistoryNext]_historyVars
    BY DEF HistoryNext
  <2> QED
    BY <2>1, StepShape DEF ConversationInv, Types, Call, HistoryLeft
<1>2. notice'[b] = IF w # None /\ desk'[w] = Idle THEN Resumes(n, FALSE) ELSE n
  BY <1>1 DEF Followed
<1>3. /\ n.pc \in {"none", "stored", "appending", "done", "failed"} /\ n.todo \in Seq(Listed)
      /\ w # None => w \in Worker
  BY <1>1 DEF NoticeRow
<1>4. /\ w # None =>
           /\ n.pc = "appending" /\ desk[w] # Idle
           /\ desk[w].pc = "admitted" => desk[w].booking = b
      /\ n.pc = "done" => n.todo = <<>> /\ w = None
      /\ n.pc = "appending" /\ w = None => n.todo # <<>>
      /\ n.pc \in {"appending", "done"} => \A id \in Listed : WordsLeft(b, Said[id])
  BY <1>1 DEF LeftOf
<1>5. ASSUME NEW said
      PROVE  /\ TimesStored(b, said) \in Nat /\ TimesStored(b, said)' \in Nat
             /\ TimesStored(b, said) <= TimesStored(b, said)'
             /\ UnderWay(b, said) \in 0 .. 1
             /\ Cardinality(SameWords(n.todo, said)) \in Nat
             /\ TimesListed(said) \in Nat
  BY <1>1, <1>3, WordsGrow, WordsFinite, HistoryAssumption DEF UnderWay, TimesListed
<1>6. ASSUME NEW said, w # None, desk'[w] # desk[w]
      PROVE  TimesStored(b, said) + UnderWay(b, said) <= TimesStored(b, said)'
  <2>1. CASE desk[w].pc = "admitted"
    <3>1. transcript'[b] = Append(transcript[b], desk[w].turn) /\ desk[w].turn \in AnyTurn
      BY <1>1, <1>3, <1>4, <1>6, <2>1, AdmittedLeaves, DeskFields
    <3>2. UnderWay(b, said) = SaysWords(desk[w].turn, said)
      BY <1>6, <2>1 DEF UnderWay, SaysWords
    <3>3. TimesStored(b, said)' = TimesStored(b, said) + SaysWords(desk[w].turn, said)
      BY <1>1, <3>1, WordsGrow
    <3> QED
      BY <1>5, <3>2, <3>3
  <2>2. CASE desk[w].pc # "admitted"
    <3>1. UnderWay(b, said) = 0
      BY <2>2 DEF UnderWay
    <3> QED
      BY <1>5, <3>1
  <2> QED
    BY <2>1, <2>2
<1>7. CASE w # None /\ desk'[w] = Idle
  <2>1. /\ notice'[b].by = None /\ notice'[b].todo = n.todo
        /\ notice'[b].pc = IF n.todo = <<>> THEN "done" ELSE "appending"
    BY <1>1, <1>2, <1>4, <1>7 DEF Resumes, NoticeRow
  <2>2. ASSUME NEW said, WordsLeft(b, said)
        PROVE  WordsLeft(b, said)'
    <3>1. UnderWay(b, said)' = 0
      BY <2>1 DEF UnderWay
    <3>2. TimesStored(b, said) + UnderWay(b, said) <= TimesStored(b, said)'
      BY <1>4, <1>6, <1>7
    <3>3. /\ UnderWay(b, said)' \in 0 .. 1
          /\ TimesStored(b, said) + UnderWay(b, said)
               <= TimesStored(b, said)' + UnderWay(b, said)'
      BY <1>5, <3>1, <3>2
    <3> QED
      BY <1>5, <2>1, <2>2, <3>3, WordsLeftSince
  <2> QED
    BY <1>4, <1>7, <2>1, <2>2 DEF LeftOf
<1>8. CASE ~(w # None /\ desk'[w] = Idle)
  <2>1. notice'[b] = n
    BY <1>2, <1>8
  <2>2. w # None => \/ desk'[w] = desk[w]
                    \/ desk'[w].pc # "admitted"
    <3>1. SUFFICES ASSUME w # None, desk'[w] # desk[w]
                   PROVE  desk'[w].pc # "admitted"
      OBVIOUS
    <3>2. Moves(w)
      BY <1>1, <1>3, <3>1 DEF Shape
    <3>3. CASE desk'[w] \in Piped \cup {Idle}
      BY <3>3 DEF Piped, Idle
    <3>4. CASE Proceeds(w, desk'[w])
      <4>1. desk[w] # Idle
        BY <1>4, <3>1
      <4> QED
        BY <3>4, <4>1 DEF Proceeds
    <3> QED
      BY <3>1, <3>2, <3>3, <3>4 DEF Moves
  <2>3. ASSUME NEW said, WordsLeft(b, said)
        PROVE  WordsLeft(b, said)'
    <3>2. UnderWay(b, said)' \in 0 .. 1
      BY DEF UnderWay
    <3>3. CASE w # None /\ desk'[w] # desk[w]
      <4>1. TimesStored(b, said) + UnderWay(b, said) <= TimesStored(b, said)'
        BY <1>6, <3>3
      <4>2. TimesStored(b, said) + UnderWay(b, said)
              <= TimesStored(b, said)' + UnderWay(b, said)'
        BY <1>5, <3>2, <4>1
      <4> QED
        BY <1>5, <2>1, <2>3, <3>2, <4>2, WordsLeftSince
    <3>4. CASE w = None \/ desk'[w] = desk[w]
      <4>1. UnderWay(b, said)' = UnderWay(b, said)
        BY <2>1, <3>4 DEF UnderWay
      <4>2. TimesStored(b, said) + UnderWay(b, said)
              <= TimesStored(b, said)' + UnderWay(b, said)'
        BY <1>5, <4>1
      <4> QED
        BY <1>5, <2>1, <2>3, <3>2, <4>2, WordsLeftSince
    <3> QED
      BY <3>3, <3>4
  <2> QED
    BY <1>4, <1>8, <2>1, <2>2, <2>3 DEF LeftOf
<1> QED
  BY <1>7, <1>8

(* A notice that stays, on a transcript and with a request that stay. *)
LEMMA LeftStays ==
  ASSUME NEW b \in Call, LeftOf(b), notice'[b] = notice[b], transcript'[b] = transcript[b],
         notice[b].by # None => desk'[notice[b].by] = desk[notice[b].by]
  PROVE  LeftOf(b)'
<1>1. ASSUME NEW said
      PROVE  WordsLeft(b, said)' <=> WordsLeft(b, said)
  <2>1. UnderWay(b, said)' = UnderWay(b, said)
    BY DEF UnderWay
  <2>2. TimesStored(b, said)' = TimesStored(b, said)
    BY DEF TimesStored
  <2> QED
    BY <2>1, <2>2 DEF WordsLeft, TimesListed
<1> QED
  BY <1>1 DEF LeftOf

(* A notice that has failed promises nothing. *)
LEMMA FailedLeft ==
  ASSUME NEW b, notice'[b] = Failed
  PROVE  LeftOf(b)'
<1>1. Failed.pc = "failed" /\ Failed.by = None
  BY DEF Failed, NoNotice
<1> QED
  BY <1>1 DEF LeftOf

(* What is left to append once the stored turns have been read. *)
LEMMA ReadLeft ==
  ASSUME ConversationInv, NEW b \in Call, NoticeReads(b)
  PROVE  LeftOf(b)' /\ notice'[b] \in NoticeRow
<1> DEFINE n == notice[b]
           todo == Unmatched(transcript[b], History)
           pc == IF todo = <<>> THEN "done" ELSE "appending"
<1>1. /\ n \in NoticeRow /\ n.by = None /\ transcript[b] \in Seq(AnyTurn)
      /\ History \in Seq(Listed) /\ notice \in [Booking -> NoticeRow] /\ b \in Booking
  BY HistoryAssumption
     DEF ConversationInv, Types, HistoryLeft, LeftOf, NoticeReads, Call
<1>2. /\ todo \in Seq(Listed)
      /\ \A said : TimesListed(said)
           <= Cardinality(SameWords(transcript[b], said)) + Cardinality(SameWords(todo, said))
  BY <1>1, UnmatchedWords DEF TimesListed
<1>3. /\ notice'[b].todo = todo /\ notice'[b].pc = pc /\ notice'[b].by = None
      /\ notice'[b] \in NoticeRow
      /\ UNCHANGED <<desk, transcript>>
  <2> HIDE DEF todo
  <2>1. notice' = [notice EXCEPT ![b].todo = todo, ![b].pc = pc]
    BY DEF NoticeReads, todo
  <2>2. notice'[b] = [[n EXCEPT !.todo = todo] EXCEPT !.pc = pc]
    BY <1>1, <2>1
  <2>3. UNCHANGED <<desk, transcript>>
    BY DEF NoticeReads, conversationVars, twinVars, callVars
  <2> QED
    BY <1>1, <1>2, <2>2, <2>3 DEF NoticeRow
<1> HIDE DEF todo
<1>4. ASSUME NEW said
      PROVE  WordsLeft(b, said)'
  <2>1. UnderWay(b, said)' = 0
    BY <1>3 DEF UnderWay
  <2>2. WordsLeft(b, said)' <=>
          Cardinality(SameWords(transcript[b], said)) + Cardinality(SameWords(todo, said)) + 0
            >= TimesListed(said)
    BY <1>3, <2>1 DEF WordsLeft, TimesStored, TimesListed
  <2>3. /\ Cardinality(SameWords(transcript[b], said)) \in Nat
        /\ Cardinality(SameWords(todo, said)) \in Nat /\ TimesListed(said) \in Nat
    BY <1>1, <1>2, WordsFinite DEF TimesListed
  <2> QED
    BY <1>2, <2>2, <2>3
<1>5. pc = "done" => todo = <<>>
  OBVIOUS
<1>6. pc = "appending" => todo # <<>>
  OBVIOUS
<1> HIDE DEF pc
<1> QED
  BY <1>3, <1>4, <1>5, <1>6 DEF LeftOf

(* The head of the list is under way once its append has begun. *)
LEMMA AppendLeft ==
  ASSUME ConversationInv, NEW b \in Call, NEW w \in Worker, NoticeAppends(w, b)
  PROVE  LeftOf(b)' /\ notice'[b] \in NoticeRow
<1> DEFINE n == notice[b]
           todo == n.todo
           id == Head(todo)
<1>1. /\ n \in NoticeRow /\ n.by = None /\ n.pc = "appending" /\ todo # <<>>
      /\ \A i \in Listed : WordsLeft(b, Said[i])
      /\ notice \in [Booking -> NoticeRow] /\ desk \in [Worker -> DeskRow] /\ b \in Booking
      /\ History \in Seq(Listed) /\ transcript[b] \in Seq(AnyTurn) /\ w # None
  BY HistoryAssumption, WorkerAssumption
     DEF ConversationInv, Types, HistoryLeft, LeftOf, NoticeAppends, Call
<1>2. todo \in Seq(Listed) /\ Tail(todo) \in Seq(Listed)
  BY <1>1 DEF NoticeRow
<1>3. /\ notice'[b].todo = Tail(todo) /\ notice'[b].by = w /\ notice'[b].pc = "appending"
      /\ notice'[b] \in NoticeRow
  <2>1. notice' = [notice EXCEPT ![b].todo = Tail(todo), ![b].by = w]
    BY DEF NoticeAppends
  <2>2. notice'[b] = [[n EXCEPT !.todo = Tail(todo)] EXCEPT !.by = w]
    BY <1>1, <2>1
  <2> HIDE DEF todo
  <2> QED
    BY <1>1, <1>2, <2>2 DEF NoticeRow
<1>4. /\ desk'[w].pc = "admitted" /\ desk'[w].booking = b /\ desk'[w].turn = id
      /\ UNCHANGED transcript
  BY <1>1 DEF NoticeAppends, TurnBegin, callVars
<1>5. desk'[w] # Idle
  BY <1>4 DEF Idle
<1>6. ASSUME NEW said, WordsLeft(b, said)
      PROVE  WordsLeft(b, said)'
  <2> DEFINE s == TimesStored(b, said)
             c == Cardinality(SameWords(todo, said))
             d == Cardinality(SameWords(Tail(todo), said))
             h == SaysWords(id, said)
             m == TimesListed(said)
  <2>1. UnderWay(b, said) = 0 /\ UnderWay(b, said)' = h
    BY <1>1, <1>3, <1>4 DEF UnderWay, SaysWords
  <2>2. s + c + 0 >= m
    BY <1>6, <2>1 DEF WordsLeft
  <2>3. WordsLeft(b, said)' <=> s + d + h >= m
    BY <1>3, <1>4, <2>1 DEF WordsLeft, TimesStored, TimesListed
  <2>4. c <= d + h
    BY <1>1, <1>2, TailWords
  <2>5. /\ s \in Nat /\ c \in Nat /\ d \in Nat /\ m \in Nat
    BY <1>1, <1>2, WordsFinite DEF TimesStored, TimesListed
  <2>6. h \in Nat
    BY DEF SaysWords
  <2> HIDE DEF s, c, d, h, m
  <2> QED
    BY <2>2, <2>3, <2>4, <2>5, <2>6
<1> QED
  BY <1>1, <1>3, <1>4, <1>5, <1>6 DEF LeftOf

(* A notice that is followed or has failed is still a row. *)
LEMMA NoticeRows ==
  /\ NoNotice \in NoticeRow /\ Failed \in NoticeRow
  /\ \A n \in NoticeRow, failed \in BOOLEAN : Resumes(n, failed) \in NoticeRow
<1>1. NoNotice \in NoticeRow /\ Failed \in NoticeRow
  <2>1. <<>> \in Seq(Listed)
    OBVIOUS
  <2> QED
    BY <2>1 DEF Failed, NoNotice, NoticeRow
<1>2. ASSUME NEW n \in NoticeRow
      PROVE  Resumes(n, FALSE) \in NoticeRow
  <2> DEFINE pc == IF n.todo = <<>> THEN "done" ELSE n.pc
  <2>1. Resumes(n, FALSE) = [[n EXCEPT !.by = None] EXCEPT !.pc = pc]
    BY DEF Resumes, NoticeRow
  <2>2. pc \in {"none", "stored", "appending", "done", "failed"}
    BY DEF NoticeRow
  <2> HIDE DEF pc
  <2> QED
    BY <2>1, <2>2 DEF NoticeRow
<1>3. \A n : Resumes(n, TRUE) = Failed
  BY DEF Resumes
<1> QED
  BY <1>1, <1>2, <1>3

(* Every step leaves the notices rows and the history complete. *)
LEMMA NoticeStep ==
  ASSUME ConversationInv, [HistoryNext]_historyVars
  PROVE  notice' \in [Booking -> NoticeRow] /\ HistoryLeft'
<1>1. /\ notice \in [Booking -> NoticeRow] /\ desk \in [Worker -> DeskRow]
      /\ Call \subseteq Booking
      /\ \A b \in Call : LeftOf(b)
  BY DEF ConversationInv, Types, Call, HistoryLeft
<1>2. ASSUME NEW failed \in BOOLEAN, notice' = Followed(failed)
      PROVE  notice' \in [Booking -> NoticeRow]
  BY <1>1, <1>2, NoticeRows DEF Followed
<1>3. CASE UNCHANGED historyVars
  <2>1. UNCHANGED <<notice, desk, transcript>>
    BY <1>3 DEF historyVars, conversationVars, twinVars, callVars
  <2> QED
    BY <1>1, <2>1, LeftStays DEF HistoryLeft
<1>4. CASE AdmissionStep /\ notice' = Followed(FALSE)
  BY <1>2, <1>4, FollowedLeft DEF HistoryLeft
<1>5. ASSUME NEW w \in Worker, RequestFails(w), notice' = Followed(TRUE)
      PROVE  notice' \in [Booking -> NoticeRow] /\ HistoryLeft'
  <2>1. desk' = [desk EXCEPT ![w] = Idle] /\ UNCHANGED transcript
    BY <1>5 DEF RequestFails, callVars
  <2>2. ASSUME NEW b \in Call
        PROVE  LeftOf(b)'
    <3> DEFINE by == notice[b].by
    <3>1. /\ b \in Booking
          /\ notice'[b] = IF by # None /\ desk'[by] = Idle THEN Resumes(notice[b], TRUE)
                          ELSE notice[b]
      BY <1>1, <1>5 DEF Followed
    <3>2. by # None => by \in Worker
      BY <1>1, <3>1 DEF NoticeRow
    <3>3. CASE by # None /\ desk'[by] = Idle
      <4>1. notice'[b] = Failed
        BY <3>1, <3>3 DEF Resumes
      <4> QED
        BY <4>1, FailedLeft
    <3>4. CASE ~(by # None /\ desk'[by] = Idle)
      <4>1. notice'[b] = notice[b]
        BY <3>1, <3>4
      <4>2. by # None => desk'[by] = desk[by]
        BY <1>1, <2>1, <3>2, <3>4
      <4> QED
        BY <1>1, <2>1, <4>1, <4>2, LeftStays
    <3> QED
      BY <3>3, <3>4
  <2> QED
    BY <1>2, <1>5, <2>2 DEF HistoryLeft
<1>6. ASSUME NEW b \in Call, NEW row \in NoticeRow, notice' = [notice EXCEPT ![b] = row],
             LeftOf(b)', UNCHANGED transcript,
             \A c \in Call \ {b} : notice[c].by # None =>
               desk'[notice[c].by] = desk[notice[c].by]
      PROVE  notice' \in [Booking -> NoticeRow] /\ HistoryLeft'
  <2>1. \A c \in Call \ {b} : notice'[c] = notice[c] /\ transcript'[c] = transcript[c]
    BY <1>1, <1>6
  <2>2. \A c \in Call \ {b} : LeftOf(c)'
    BY <1>1, <1>6, <2>1, LeftStays
  <2> QED
    BY <1>1, <1>6, <2>2 DEF HistoryLeft
<1>7. ASSUME NEW b \in Call, NoticeArrives(b)
      PROVE  notice' \in [Booking -> NoticeRow] /\ HistoryLeft'
  <2> DEFINE row == [notice[b] EXCEPT !.pc = "stored"]
  <2>1. /\ notice' = [notice EXCEPT ![b] = row] /\ notice[b].pc = "none"
        /\ UNCHANGED <<desk, transcript>>
    BY <1>7 DEF NoticeArrives, twinVars
  <2>2. row \in NoticeRow /\ row.pc = "stored" /\ row.by = notice[b].by
    BY <1>1 DEF NoticeRow
  <2>3. notice[b].by = None
    BY <1>1, <2>1 DEF LeftOf
  <2> HIDE DEF row
  <2>4. notice'[b] = row
    BY <1>1, <2>1
  <2>5. LeftOf(b)'
    BY <2>2, <2>3, <2>4 DEF LeftOf
  <2> QED
    BY <1>6, <2>1, <2>2, <2>5
<1>8. ASSUME NEW b \in Call, NoticeReads(b)
      PROVE  notice' \in [Booking -> NoticeRow] /\ HistoryLeft'
  <2> DEFINE row == notice'[b]
  <2>1. notice' = [notice EXCEPT ![b] = row] /\ UNCHANGED <<desk, transcript>>
    BY <1>1, <1>8 DEF NoticeReads, conversationVars, twinVars, callVars
  <2>2. row \in NoticeRow /\ LeftOf(b)'
    BY <1>8, ReadLeft
  <2> HIDE DEF row
  <2> QED
    BY <1>6, <2>1, <2>2
<1>9. ASSUME NEW b \in Call, NoticeFails(b)
      PROVE  notice' \in [Booking -> NoticeRow] /\ HistoryLeft'
  <2>1. notice' = [notice EXCEPT ![b] = Failed] /\ UNCHANGED <<desk, transcript>>
    BY <1>9 DEF NoticeFails, conversationVars, twinVars, callVars
  <2>2. notice'[b] = Failed
    BY <1>1, <2>1
  <2>3. LeftOf(b)'
    BY <2>2, FailedLeft
  <2> QED
    BY <1>6, <2>1, <2>3, NoticeRows
<1>10. ASSUME NEW b \in Call, NEW w \in Worker, NoticeAppends(w, b)
       PROVE  notice' \in [Booking -> NoticeRow] /\ HistoryLeft'
  <2> DEFINE row == notice'[b]
  <2>1. notice' = [notice EXCEPT ![b] = row]
    BY <1>1, <1>10 DEF NoticeAppends
  <2>2. row \in NoticeRow /\ LeftOf(b)'
    BY <1>10, AppendLeft
  <2>3. /\ desk[w] = Idle /\ \E r : desk' = [desk EXCEPT ![w] = r]
        /\ UNCHANGED transcript
    BY <1>10 DEF NoticeAppends, TurnBegin, callVars
  <2>4. ASSUME NEW c \in Call, notice[c].by # None
        PROVE  desk'[notice[c].by] = desk[notice[c].by]
    <3>1. notice[c].by # w
      BY <1>1, <2>3, <2>4 DEF LeftOf
    <3>2. notice[c].by \in Worker
      BY <1>1, <2>4 DEF NoticeRow
    <3> QED
      BY <1>1, <2>3, <3>1, <3>2
  <2> HIDE DEF row
  <2> QED
    BY <1>6, <2>1, <2>2, <2>3, <2>4
<1> QED
  BY <1>3, <1>4, <1>5, <1>7, <1>8, <1>9, <1>10, <1>2, FollowedLeft DEF HistoryNext
-----------------------------------------------------------------------------
(***************************************************************************)
(* The inductive invariant, and what follows from it.                      *)
(***************************************************************************)
LEMMA TypesStep ==
  ASSUME ConversationInv, [HistoryNext]_historyVars
  PROVE  Types'
<1>1. /\ InventoryTypeOK' /\ Shape
      /\ call' \in [Booking -> CallStatus] /\ notice' \in [Booking -> NoticeRow]
  BY SeatsTyped, StepShape, CallStep, NoticeStep
<1> QED
  BY <1>1 DEF Types, Shape, EvalTable

(* Every step of the conversation keeps the invariant. *)
LEMMA ConversationStep == ConversationInv /\ [HistoryNext]_historyVars => ConversationInv'
  BY TypesStep, RequestsStep, OffersStep, ReservedStep, AdmittedStep, StoredStep, BoundedStep,
     NoticeStep DEF ConversationInv

(* The invariant holds before the first turn. *)
LEMMA ConversationStart == HistoryInit => ConversationInv
<1> SUFFICES ASSUME HistoryInit
             PROVE  ConversationInv
  OBVIOUS
<1>1. /\ InventoryInit /\ BookingInv
      /\ evals = [b \in Booking |-> <<>>]
      /\ desk = [w \in Worker |-> Idle]
      /\ call = [b \in Booking |-> "CREATED"]
      /\ transcript = [b \in Booking |-> <<>>]
      /\ notice = [b \in Booking |-> NoNotice]
  BY BookingInit DEF HistoryInit, AdmissionInit, Init
<1>2. Types
  <2>1. InventoryTypeOK /\ booking \in [Booking -> BookingRow]
    BY <1>1, InventoryTypeInit DEF BookingInv, TypeOK
  <2>2. /\ <<>> \in Seq(EvalRow) /\ <<>> \in Seq(AnyTurn) /\ "CREATED" \in CallStatus
        /\ Idle \in DeskRow
    BY DEF CallStatus, DeskRow
  <2> QED
    BY <1>1, <2>1, <2>2, NoticeRows DEF Types
<1>3. \A b \in Booking : DOMAIN evals[b] = {} /\ DOMAIN transcript[b] = {} /\ Len(evals[b]) = 0
  BY <1>1
<1>4. AllRefs = {}
  BY <1>3 DEF AllRefs, Refs
<1>5. \A w \in Worker : desk[w].pc = "idle"
  BY <1>1 DEF Idle
<1>6. EvaluationsBounded
  <2>1. \A b \in Booking : Evaluating(b) = {}
    BY <1>5 DEF Evaluating
  <2>2. Cardinality({}) = 0 /\ Cardinality(Worker) \in Nat /\ MaxEvals \in Nat
    BY WorkerAssumption, FS_EmptySet, FS_CardinalityType
  <2>3. \A b \in Booking : Len(evals[b]) = 0 /\ Cardinality(Evaluating(b)) = 0
    BY <1>3, <2>1, <2>2
  <2> QED
    BY <2>2, <2>3 DEF EvaluationsBounded
<1>7. HistoryLeft
  <2>1. \A b \in Call : notice[b].pc = "none" /\ notice[b].by = None
    BY <1>1 DEF Call, NoNotice
  <2> QED
    BY <2>1 DEF HistoryLeft, LeftOf
<1>8. RequestsReferToRows /\ AdmittedIsNew
  BY <1>5 DEF RequestsReferToRows, AdmittedIsNew
<1>9. NoneOpenBesideAccepted /\ OneAcceptedPerEvaluation /\ KeysDiffer /\ AcceptedIsReserved
  BY <1>4 DEF NoneOpenBesideAccepted, OneAcceptedPerEvaluation, Accepted, KeysDiffer,
              AcceptedIsReserved
<1>10. TurnStoredOnce
  BY <1>3 DEF TurnStoredOnce
<1> QED
  BY <1>2, <1>6, <1>7, <1>8, <1>9, <1>10 DEF ConversationInv

(* The invariant holds throughout. *)
LEMMA ConversationInvariant == HistorySpec => []ConversationInv
  BY ConversationStart, ConversationStep, PTL DEF HistorySpec

(* Type correctness: rows, requests and transcripts, and the bound on the  *)
(* evaluations of a call, however many are computed at the same time.      *)
THEOREM ConversationTypeCorrect == HistorySpec => []ConversationTypeOK
<1>1. ConversationInv => ConversationTypeOK
  <2> SUFFICES ASSUME ConversationInv
               PROVE  ConversationTypeOK
    OBVIOUS
  <2>1. /\ Types /\ EvaluationsBounded /\ evals \in EvalTable
        /\ IsFiniteSet(Worker) /\ MaxEvals \in Nat
    BY WorkerAssumption DEF ConversationInv, Types, EvalTable
  <2>2. ASSUME NEW b \in Booking
        PROVE  /\ Stored(b) \subseteq TurnId \cup Listed
               /\ notice[b].pc \in {"none", "stored", "appending", "done", "failed"}
               /\ Len(evals[b]) <= MaxEvals + Cardinality(Worker)
               /\ \A e \in DOMAIN evals[b] :
                    /\ evals[b][e].status \in EvaluationStatus
                    /\ evals[b][e].waiting \in 0 .. MaxParty
                    /\ \A r \in DOMAIN evals[b][e].offers : evals[b][e].offers[r] \in OfferRow
    <3>1. Stored(b) \subseteq TurnId \cup Listed
      <4>1. transcript[b] \in Seq(AnyTurn)
        BY <2>1 DEF Types
      <4> QED
        BY <4>1 DEF Stored, AnyTurn
    <3>2. notice[b].pc \in {"none", "stored", "appending", "done", "failed"}
      BY <2>1 DEF Types, NoticeRow
    <3>3. Len(evals[b]) <= MaxEvals + Cardinality(Worker)
      <4> DEFINE busy == Evaluating(b)
      <4>1. busy \in SUBSET Worker
        BY DEF Evaluating
      <4>2. Len(evals[b]) + Cardinality(busy) <= MaxEvals + Cardinality(Worker)
        BY <2>1 DEF EvaluationsBounded
      <4>3. Len(evals[b]) \in Nat
        BY <2>1 DEF Types
      <4> HIDE DEF busy
      <4>4. Cardinality(busy) \in Nat /\ Cardinality(Worker) \in Nat
        BY <2>1, <4>1, FS_Subset, FS_CardinalityType
      <4> QED
        BY <2>1, <4>2, <4>3, <4>4
    <3>4. ASSUME NEW e \in DOMAIN evals[b]
          PROVE  /\ evals[b][e].status \in EvaluationStatus
                 /\ evals[b][e].waiting \in 0 .. MaxParty
                 /\ \A r \in DOMAIN evals[b][e].offers : evals[b][e].offers[r] \in OfferRow
      BY <2>1, OfferRows DEF EvalRow, OfferedRow
    <3> QED
      BY <3>1, <3>2, <3>3, <3>4
  <2>3. \A w \in Worker : desk[w].pc \in DeskStep
    BY <2>1, DeskFields DEF Types
  <2> QED
    BY <2>1, <2>2, <2>3 DEF ConversationTypeOK, Types
<1> QED
  BY <1>1, ConversationInvariant, PTL

(* The conversation uses the seats only as Inventory says, whatever turns, *)
(* acceptances and rival customers do at the same time.                    *)
THEOREM SeatsRefineInventory == HistorySpec => SeatsAsInventory
<1>1. HistoryInit => InventoryInit
  BY DEF HistoryInit, AdmissionInit, Init
<1>2. ConversationInv /\ [HistoryNext]_historyVars => [InventoryNext]_inventoryVars
  BY ConversationSeats
<1> QED
  BY <1>1, <1>2, ConversationInvariant, PTL DEF HistorySpec, SeatsAsInventory, InventorySpec

(* Of the offers of an evaluation at most one is ever accepted.            *)
THEOREM OneOfferIsAccepted == HistorySpec => []OneAcceptedPerEvaluation
<1>1. ConversationInv => OneAcceptedPerEvaluation
  BY DEF ConversationInv
<1> QED
  BY <1>1, ConversationInvariant, PTL

(* An accepted offer has its seats, and of a booking's accepted offers at  *)
(* most one still has them: the last part is Inventory's, by refinement.   *)
THEOREM AcceptedOffersHaveSeats == HistorySpec => []AcceptedHasItsSeats
<1>1. ConversationInv /\ OneActiveHoldPerBooking => AcceptedHasItsSeats
  <2> SUFFICES ASSUME ConversationInv, OneActiveHoldPerBooking
               PROVE  AcceptedHasItsSeats
    OBVIOUS
  <2>1. \A ref \in Accepted :
          /\ ref \in AllRefs /\ OfferAt(ref).key \in HoldKey
          /\ holds[OfferAt(ref).key] # NoHold
          /\ holds[OfferAt(ref).key].booking = ref.booking
          /\ holds[OfferAt(ref).key].departure = OfferAt(ref).dep
          /\ holds[OfferAt(ref).key].quantity = OfferAt(ref).pax
    BY DEF ConversationInv, AcceptedIsReserved, Accepted
  <2>2. ASSUME NEW p \in Accepted, NEW q \in Accepted, p.booking = q.booking,
               holds[OfferAt(p).key].status = "ACTIVE", holds[OfferAt(q).key].status = "ACTIVE"
        PROVE  p = q
    <3>1. OfferAt(p).key = OfferAt(q).key
      BY <2>1, <2>2 DEF OneActiveHoldPerBooking
    <3>2. OfferAt(p).key # None
      BY <2>1, WorkerAssumption
    <3> QED
      BY <2>1, <3>1, <3>2 DEF ConversationInv, KeysDiffer
  <2> QED
    BY <2>1, <2>2 DEF AcceptedHasItsSeats
<1>2. HistorySpec => InventorySpec
  BY SeatsRefineInventory DEF SeatsAsInventory
<1> QED
  BY <1>1, <1>2, OneActiveHold, ConversationInvariant, PTL

(* A decision stands: what was declined, superseded or refused is not      *)
(* accepted later, and an acceptance gives way only to a decline that was  *)
(* under way.                                                              *)
THEOREM DecisionsStand == HistorySpec => DecisionStands
<1>1. ConversationInv /\ [HistoryNext]_historyVars
        => [\A ref \in AllRefs : OfferStep(ref)]_historyVars
  BY OfferStepAlways
<1> QED
  BY <1>1, ConversationInvariant, PTL DEF HistorySpec, DecisionStands, OfferStep

(* A call that has ended is never reopened, whatever the turn had read.    *)
THEOREM EndedCallsStayEnded == HistorySpec => TerminalCallNeverReopens
<1>1. ConversationInv /\ [HistoryNext]_historyVars
        => [\A b \in Booking : call[b] \in TerminalCall => call'[b] \in TerminalCall]_historyVars
  BY CallStep
<1> QED
  BY <1>1, ConversationInvariant, PTL DEF HistorySpec, TerminalCallNeverReopens

(* A turn is stored once, however often and by whichever way it comes.     *)
THEOREM TurnsAreStoredOnce == HistorySpec => []TurnStoredOnce
<1>1. ConversationInv => TurnStoredOnce
  BY DEF ConversationInv
<1> QED
  BY <1>1, ConversationInvariant, PTL

(* Once the notice has been worked off, whatever the provider's history    *)
(* says is stored at least as often.                                       *)
THEOREM HistoryIsRestored == HistorySpec => []NoticeRestoresHistory
<1>1. ConversationInv => NoticeRestoresHistory
  <2> SUFFICES ASSUME ConversationInv, NEW b \in Call, notice[b].pc = "done", NEW id \in Listed
               PROVE  TimesStored(b, Said[id]) >= TimesListed(Said[id])
    BY DEF NoticeRestoresHistory
  <2>1. /\ LeftOf(b) /\ b \in Booking /\ transcript \in [Booking -> Seq(AnyTurn)]
    BY DEF ConversationInv, HistoryLeft, Types, Call
  <2>2. /\ notice[b].todo = <<>> /\ notice[b].by = None
        /\ WordsLeft(b, Said[id])
    BY <2>1 DEF LeftOf
  <2>3. UnderWay(b, Said[id]) = 0
    BY <2>2 DEF UnderWay
  <2>4. Cardinality(SameWords(notice[b].todo, Said[id])) = 0
    <3>1. SameWords(notice[b].todo, Said[id]) = {}
      BY <2>2 DEF SameWords
    <3> QED
      BY <3>1, FS_EmptySet
  <2>5. TimesStored(b, Said[id]) \in Nat
    <3>1. transcript[b] \in Seq(AnyTurn)
      BY <2>1
    <3> QED
      BY <3>1, WordsFinite DEF TimesStored
  <2> QED
    BY <2>2, <2>3, <2>4, <2>5 DEF WordsLeft
<1> QED
  BY <1>1, ConversationInvariant, PTL
-----------------------------------------------------------------------------
(***************************************************************************)
(* What the API answers about offers.                                      *)
(***************************************************************************)
(* There are finitely many evaluations and offers. *)
LEMMA RowsAreFinite ==
  ASSUME Types
  PROVE  IsFiniteSet(AllRefs) /\ IsFiniteSet(Evaluations)
<1>1. ASSUME NEW b \in Booking
      PROVE  IsFiniteSet(DOMAIN evals[b])
  <2>1. DOMAIN evals[b] = 1 .. Len(evals[b]) /\ Len(evals[b]) \in Nat
    BY DEF Types
  <2> QED
    BY <2>1, FS_Interval
<1>2. ASSUME NEW b \in Booking
      PROVE  IsFiniteSet(Refs(b))
  <2> DEFINE pairs == (DOMAIN evals[b]) \X (1 .. 3)
             f == [x \in pairs |-> Ref(b, x[1], x[2])]
             image == {f[x] : x \in pairs}
  <2>1. IsFiniteSet(1 .. 3)
    <3>1. \A n \in Nat : IsFiniteSet(1 .. n)
      BY FS_Interval
    <3> QED
      BY <3>1
  <2>2. IsFiniteSet(pairs)
    BY <1>1, <2>1, FS_Product
  <2>3. IsFiniteSet(image)
    <3> HIDE DEF f, pairs
    <3> QED
      BY <2>2, ImageIsFinite
  <2>4. ASSUME NEW ref \in Refs(b)
        PROVE  ref \in image
    <3>1. PICK e \in DOMAIN evals[b], r \in 1 .. 3 : ref = Ref(b, e, r)
      BY DEF Refs
    <3>2. <<e, r>> \in pairs /\ f[<<e, r>>] = ref
      BY <3>1
    <3> HIDE DEF f, pairs
    <3> QED
      BY <3>2
  <2> HIDE DEF image
  <2> QED
    BY <2>3, <2>4, FS_Subset
<1>3. IsFiniteSet(AllRefs)
  <2> DEFINE f == [b \in Booking |-> Refs(b)]
             image == {f[b] : b \in Booking}
  <2>1. IsFiniteSet(image)
    <3> HIDE DEF f
    <3> QED
      BY CallsAssumption, ImageIsFinite
  <2>2. \A T \in image : IsFiniteSet(T)
    BY <1>2
  <2>3. AllRefs = UNION image
    BY DEF AllRefs
  <2> HIDE DEF image
  <2> QED
    BY <2>1, <2>2, <2>3, FS_UNION
<1>4. IsFiniteSet(Evaluations)
  <2> DEFINE of(b) == {<<b, e>> : e \in DOMAIN evals[b]}
             f == [b \in Booking |-> of(b)]
             image == {f[b] : b \in Booking}
  <2>1. IsFiniteSet(image)
    <3> HIDE DEF f
    <3> QED
      BY CallsAssumption, ImageIsFinite
  <2>2. ASSUME NEW b \in Booking
        PROVE  IsFiniteSet(of(b))
    <3> DEFINE g == [e \in DOMAIN evals[b] |-> <<b, e>>]
    <3>1. of(b) = {g[e] : e \in DOMAIN evals[b]}
      OBVIOUS
    <3> HIDE DEF g, of
    <3> QED
      BY <1>1, <3>1, ImageIsFinite
  <2>3. \A T \in image : IsFiniteSet(T)
    BY <2>2
  <2>4. Evaluations = UNION image
    BY DEF Evaluations
  <2> HIDE DEF image
  <2> QED
    BY <2>1, <2>3, <2>4, FS_UNION
<1> QED
  BY <1>3, <1>4

(* The numbers of an offer, and of an evaluation's impact. *)
LEMMA OfferNumbers ==
  ASSUME Types, NEW ref \in AllRefs
  PROVE  LET offer == OfferAt(ref)
         IN  /\ offer \in OfferedRow /\ offer.dep \in Departure
             /\ offer.pax \in Nat /\ offer.discount \in Nat /\ offer.final \in Nat
             /\ offer.seats \in Nat /\ offer.seats <= Capacity[offer.dep]
<1>1. evals \in EvalTable
  BY DEF Types, EvalTable
<1>2. IsRef(evals, ref)
  BY <1>1, RefsAreRows
<1>3. /\ ref.booking \in Booking /\ ref.eval \in DOMAIN evals[ref.booking]
      /\ ref.rank \in DOMAIN evals[ref.booking][ref.eval].offers
  BY <1>2 DEF IsRef, OfferRef
<1>4. OfferAt(ref) \in OfferedRow
  BY <1>1, <1>3, OfferRows DEF OfferAt
<1> DEFINE offer == OfferAt(ref)
<1> HIDE DEF offer
<1> QED
  BY <1>4, BoundsAssumption DEF OfferedRow, OfferRow, offer

(* An evaluation promises whole numbers. *)
LEMMA ImpactNumbers ==
  ASSUME Types, NEW be \in Evaluations
  PROVE  Impact(be).passengers \in Nat /\ Impact(be).net \in Nat
<1>1. PICK b \in Booking : be \in {<<b, e>> : e \in DOMAIN evals[b]}
  BY DEF Evaluations
<1>6. PICK e \in DOMAIN evals[b] : be = <<b, e>>
  BY <1>1
<1>2. evals \in EvalTable
  BY DEF Types, EvalTable
<1>3. evals[b][e] \in EvalRow
  BY <1>2, OfferRows
<1>4. evals[b][e].impact \in ImpactRow
  BY <1>3 DEF EvalRow
<1>5. Impact(be) = evals[b][e].impact
  BY <1>6 DEF Impact
<1> QED
  BY <1>4, <1>5 DEF ImpactRow

(* Products of natural numbers. *)
LEMMA TimesNat == ASSUME NEW m \in Nat, NEW n \in Nat PROVE m * n \in Nat
OBVIOUS

(* Sums over offers are natural numbers. *)
LEMMA OfferSums ==
  ASSUME Types, NEW refs \in SUBSET AllRefs
  PROVE  /\ IsFiniteSet(refs) /\ Cardinality(refs) \in Nat
         /\ Passengers(refs) \in Nat /\ Revenue(refs) \in Nat /\ DiscountCost(refs) \in Nat
<1>1. IsFiniteSet(refs)
  BY RowsAreFinite, FS_Subset
<1>2. \A ref \in refs : OfferAt(ref).pax \in Nat /\ OfferAt(ref).discount \in Nat
                          /\ OfferAt(ref).final \in Nat
  BY OfferNumbers
<1>3. Passengers(refs) \in Nat
  <2>1. [ref \in refs |-> OfferAt(ref).pax] \in [refs -> Nat]
    BY <1>2
  <2> QED
    BY <1>1, <2>1, SumOfNaturals DEF Passengers
<1>4. Revenue(refs) \in Nat
  <2>1. [ref \in refs |-> OfferAt(ref).final * OfferAt(ref).pax] \in [refs -> Nat]
    BY <1>2, TimesNat
  <2> QED
    BY <1>1, <2>1, SumOfNaturals DEF Revenue
<1>5. DiscountCost(refs) \in Nat
  <2>1. [ref \in refs |-> OfferAt(ref).discount * OfferAt(ref).pax] \in [refs -> Nat]
    BY <1>2, TimesNat
  <2> QED
    BY <1>1, <2>1, SumOfNaturals DEF DiscountCost
<1> QED
  BY <1>1, <1>3, <1>4, <1>5, FS_CardinalityType

(* A share in basis points is a whole number, of a part at most 10 000. *)
LEMMA Shares ==
  ASSUME NEW part \in Nat, NEW whole \in Nat
  PROVE  /\ BasisPoints(part, whole) \in Nat
         /\ part <= whole => BasisPoints(part, whole) <= 10000
<1>1. CASE whole = 0
  BY <1>1 DEF BasisPoints
<1>2. CASE whole # 0
  <2> DEFINE q == (part * 10000) \div whole
  <2>1. /\ q \in Int /\ part * 10000 \in Nat
        /\ q * whole <= part * 10000 /\ part * 10000 < (q + 1) * whole
    BY <1>2, SMTT(40)
  <2> HIDE DEF q
  <2>2. q >= 0
    <3>1. q < 0 => (q + 1) * whole <= 0
      BY <1>2, <2>1, SMTT(40)
    <3> QED
      BY <2>1, <3>1
  <2>3. part <= whole => q <= 10000
    <3>1. q >= 10001 => q * whole >= 10001 * whole
      BY <1>2, <2>1, SMTT(40)
    <3> QED
      BY <1>2, <2>1, <3>1
  <2> QED
    BY <1>2, <2>1, <2>2, <2>3 DEF BasisPoints, q
<1> QED
  BY <1>1, <1>2

(* The buses that offers were accepted for: what is taken stays within     *)
(* what they have.                                                         *)
LEMMA OccupancyFits ==
  ASSUME Types
  PROVE  /\ Occupancy.capacity \in Nat
         /\ Occupancy.before \in 0 .. Occupancy.capacity
         /\ Occupancy.after \in 0 .. Occupancy.capacity
<1> DEFINE capacity == [d \in Routed |-> Capacity[d]]
           before == [d \in Routed |-> TakenBefore(d)]
           after == [d \in Routed |-> TakenAfter(d)]
<1>1. Accepted \in SUBSET AllRefs
  BY DEF Accepted
<1>2. Routed \in SUBSET Departure
  <2>1. \A ref \in Accepted : OfferAt(ref).dep \in Departure
    BY <1>1, OfferNumbers
  <2> QED
    BY <2>1 DEF Routed
<1>3. IsFiniteSet(Routed)
  BY <1>2, FleetAssumption, FS_Subset
<1>4. ASSUME NEW d \in Routed
      PROVE  /\ Capacity[d] \in Nat
             /\ TakenBefore(d) \in Nat /\ TakenBefore(d) <= Capacity[d]
             /\ TakenAfter(d) \in Nat /\ TakenAfter(d) <= Capacity[d]
  <2> DEFINE first == CHOOSE ref \in Accepted : OfferAt(ref).dep = d
             party == Passengers({ref \in Accepted : OfferAt(ref).dep = d})
  <2>1. \E ref \in Accepted : OfferAt(ref).dep = d
    BY DEF Routed
  <2>2. first \in AllRefs /\ OfferAt(first).dep = d
    BY <1>1, <2>1
  <2>3. party \in Nat
    <3> DEFINE refs == {ref \in Accepted : OfferAt(ref).dep = d}
    <3>1. refs \in SUBSET AllRefs
      BY <1>1
    <3> HIDE DEF refs
    <3>2. Passengers(refs) \in Nat
      BY <3>1, OfferSums
    <3> QED
      BY <3>2 DEF refs
  <2>4. Capacity[d] \in Nat
    BY <1>2, CapacityAssumption
  <2>5. TakenBefore(d) = Capacity[d] - OfferAt(first).seats
    BY DEF TakenBefore
  <2>6. TakenAfter(d) = Min({Capacity[d], TakenBefore(d) + party})
    BY DEF TakenAfter
  <2> HIDE DEF first, party
  <2>7. OfferAt(first).seats \in Nat /\ OfferAt(first).seats <= Capacity[d]
    BY <2>2, OfferNumbers
  <2>8. TakenBefore(d) \in Nat /\ TakenBefore(d) <= Capacity[d]
    BY <2>4, <2>5, <2>7
  <2> DEFINE n == TakenBefore(d) + party
             least == Min({Capacity[d], n})
  <2>9. n \in Nat
    BY <2>3, <2>8
  <2>10. least \in {Capacity[d], n} /\ least <= Capacity[d]
    <3> HIDE DEF n
    <3> QED
      BY <2>4, <2>9, MinIsLeast
  <2> HIDE DEF n, least
  <2> QED
    BY <2>4, <2>6, <2>8, <2>9, <2>10 DEF least, n
<1>5. /\ capacity \in [Routed -> Nat] /\ before \in [Routed -> Nat] /\ after \in [Routed -> Nat]
      /\ \A d \in Routed : before[d] <= capacity[d] /\ after[d] <= capacity[d]
  BY <1>4
<1>6. /\ Occupancy.capacity = SumFunction(capacity)
      /\ Occupancy.before = SumFunction(before)
      /\ Occupancy.after = SumFunction(after)
  BY DEF Occupancy
<1> HIDE DEF capacity, before, after
<1>7. /\ SumFunction(capacity) \in Nat /\ SumFunction(before) \in Nat
      /\ SumFunction(after) \in Nat
  BY <1>3, <1>5, SumOfNaturals
<1>8. SumFunction(before) <= SumFunction(capacity) /\ SumFunction(after) <= SumFunction(capacity)
  BY <1>3, <1>5, SumGrows
<1> QED
  BY <1>6, <1>7, <1>8

(* The figures of the dashboard stay within its schema. *)
LEMMA DashboardParses ==
  ASSUME Types
  PROVE  DashboardSchema(Metrics, Occupancy)
<1>1. /\ Accepted \in SUBSET AllRefs /\ Presented \in SUBSET AllRefs
      /\ Secured \in SUBSET AllRefs /\ AllRefs \in SUBSET AllRefs
      /\ Accepted \in SUBSET Presented
  BY DEF Accepted, Presented, Secured
<1>2. \A refs \in SUBSET AllRefs :
        /\ IsFiniteSet(refs) /\ Cardinality(refs) \in Nat
        /\ Passengers(refs) \in Nat /\ Revenue(refs) \in Nat /\ DiscountCost(refs) \in Nat
  BY OfferSums
<1>3. Cardinality(Accepted) <= Cardinality(Presented)
  BY <1>1, <1>2, FS_Subset
<1>4. Cardinality(Evaluations) \in Nat
  BY RowsAreFinite, FS_CardinalityType
<1> DEFINE passengers == [be \in Evaluations |-> Impact(be).passengers]
           nets == [be \in Evaluations |-> Impact(be).net]
           recoverable == SumFunction(passengers)
           reduction == BasisPoints(Passengers(Accepted), recoverable)
<1>5. recoverable \in Nat /\ SumFunction(nets) \in Nat
  <2>1. passengers \in [Evaluations -> Nat] /\ nets \in [Evaluations -> Nat]
    BY ImpactNumbers
  <2> HIDE DEF passengers, nets
  <2> QED
    BY <2>1, RowsAreFinite, SumOfNaturals
<1>6. /\ Metrics.evaluations = Cardinality(Evaluations)
      /\ Metrics.offersGenerated = Cardinality(AllRefs)
      /\ Metrics.offersAccepted = Cardinality(Accepted)
      /\ Metrics.recoverable = recoverable
      /\ Metrics.acceptedPassengers = Passengers(Accepted)
      /\ Metrics.potentialNet = SumFunction(nets)
      /\ Metrics.acceptedRevenue = Revenue(Accepted)
      /\ Metrics.securedRevenue = Revenue(Secured)
      /\ Metrics.acceptanceRate = BasisPoints(Cardinality(Accepted), Cardinality(Presented))
      /\ Metrics.discountEfficiency = BasisPoints(Revenue(Secured), DiscountCost(Accepted))
      /\ Metrics.lostDemandReduction = Min({10000, reduction})
  BY DEF Metrics
<1>7. DOMAIN Metrics =
        {"evaluations", "offersGenerated", "offersAccepted", "recoverable",
         "acceptedPassengers", "potentialNet", "acceptedRevenue", "securedRevenue",
         "acceptanceRate", "discountEfficiency", "fillRateImpact", "lostDemandReduction"}
  BY DEF Metrics
<1> HIDE DEF recoverable
<1>8. reduction \in Nat
  <2>1. Passengers(Accepted) \in Nat
    BY <1>1, <1>2
  <2>2. \A m, n \in Nat : BasisPoints(m, n) \in Nat
    BY Shares
  <2> QED
    BY <1>5, <2>1, <2>2
<1> HIDE DEF reduction, passengers, nets
<1>9. Metrics.lostDemandReduction \in Nat /\ Metrics.lostDemandReduction <= 10000
  <2>1. Min({10000, reduction}) \in {10000, reduction} /\ Min({10000, reduction}) <= 10000
    BY <1>8, MinIsLeast
  <2> QED
    BY <1>6, <1>8, <2>1
<1>10. Metrics.acceptanceRate \in Nat /\ Metrics.acceptanceRate <= 10000
  <2>1. Cardinality(Accepted) \in Nat /\ Cardinality(Presented) \in Nat
    BY <1>1, <1>2
  <2> DEFINE rate == BasisPoints(Cardinality(Accepted), Cardinality(Presented))
  <2>2. rate \in Nat /\ rate <= 10000
    BY <1>3, <2>1, Shares
  <2> QED
    BY <1>6, <2>2
<1>11. Metrics.discountEfficiency \in Nat
  <2>1. Revenue(Secured) \in Nat /\ DiscountCost(Accepted) \in Nat
    BY <1>1, <1>2
  <2>2. BasisPoints(Revenue(Secured), DiscountCost(Accepted)) \in Nat
    BY <2>1, Shares
  <2> QED
    BY <1>6, <2>2
<1>12. \A f \in DOMAIN Metrics \ {"fillRateImpact"} : Metrics[f] \in Nat
  BY <1>1, <1>2, <1>4, <1>5, <1>6, <1>7, <1>9, <1>10, <1>11
<1> QED
  BY <1>9, <1>10, <1>12, OccupancyFits DEF DashboardSchema

(* The directive is one of the published actions, with two offers at most. *)
LEMMA DirectiveParses ==
  ASSUME Types, NEW b \in Booking, evals[b] # <<>>
  PROVE  DirectiveSchema(Directive(b))
<1> DEFINE latest == evals[b][Len(evals[b])]
           offers == latest.offers
           accepted == {r \in DOMAIN offers : offers[r].status = "ACCEPTED"}
           answer == Directive(b)
<1>1. \A r : IsFiniteSet({r}) /\ Cardinality({r}) = 1
  BY FS_Singleton
<1>2. IsFiniteSet({}) /\ Cardinality({}) = 0
  BY FS_EmptySet
<1>3. Cardinality(DOMAIN offers \cap {1, 2}) <= 2
  <2> DEFINE shown == DOMAIN offers \cap {1, 2}
  <2>1. IsFiniteSet(1 .. 2) /\ Cardinality(1 .. 2) = 2
    <3>1. \A n \in Nat : IsFiniteSet(1 .. n) /\ Cardinality(1 .. n) = n
      BY FS_Interval
    <3> QED
      BY <3>1
  <2>2. shown \in SUBSET (1 .. 2)
    OBVIOUS
  <2> HIDE DEF shown
  <2>3. Cardinality(shown) <= Cardinality(1 .. 2)
    BY <2>1, <2>2, FS_Subset
  <2> QED
    BY <2>1, <2>3 DEF shown
<1>4. \/ answer = [action |-> "CONFIRM_SELECTED_OFFER", offers |-> {First(accepted)}]
      \/ answer = [action |-> "EXPLAIN_REEVALUATION", offers |-> {}]
      \/ answer = [action |-> "PRESENT_OVERFLOW_OFFERS", offers |-> DOMAIN offers \cap {1, 2}]
      \/ answer = [action |-> "ASK_WAITLIST_CONSENT", offers |-> {}]
      \/ answer = [action |-> "EXPLAIN_NO_ALTERNATIVE", offers |-> {}]
      \/ answer = [action |-> "ASK_TIME_FLEXIBILITY", offers |-> {}]
  BY DEF Directive, NoSuitableOffer
<1> HIDE DEF answer, accepted, offers
<1>5. /\ answer.action \in {"PRESENT_OVERFLOW_OFFERS", "ASK_TIME_FLEXIBILITY",
                            "CONFIRM_SELECTED_OFFER", "EXPLAIN_REEVALUATION",
                            "EXPLAIN_NO_ALTERNATIVE", "ASK_WAITLIST_CONSENT"}
      /\ \/ answer.offers = {} \/ answer.offers = DOMAIN offers \cap {1, 2}
         \/ answer.offers = {First(accepted)}
  BY <1>4
<1>6. Cardinality(answer.offers) <= 2
  <2>1. CASE answer.offers = {}
    BY <1>2, <2>1
  <2>2. CASE answer.offers = DOMAIN offers \cap {1, 2}
    BY <1>3, <2>2
  <2>3. CASE answer.offers = {First(accepted)}
    <3>1. Cardinality({First(accepted)}) = 1
      BY <1>1
    <3> QED
      BY <2>3, <3>1
  <2> QED
    BY <1>5, <2>1, <2>2, <2>3
<1> QED
  BY <1>5, <1>6 DEF DirectiveSchema, answer

(* Whatever offers were made, accepted, declined, superseded or refused,   *)
(* the dashboard and the voice directive stay within their schemas, so     *)
(* that neither answer is a 500 (revenue-twin.handlers.ts 190-272,         *)
(* 796-967).                                                               *)
THEOREM AnswersAlwaysParse == HistorySpec => []AnswersParse
<1>1. ConversationInv => AnswersParse
  BY DashboardParses, DirectiveParses DEF ConversationInv, AnswersParse
<1> QED
  BY <1>1, ConversationInvariant, PTL
=============================================================================
