--------------------------- MODULE HistoryNotice ---------------------------
(***************************************************************************)
(* The signed history the provider sends of a call (voice-session          *)
(* handlers, reconcileAgoraNotification), next to the turns that           *)
(* TranscriptAdmission admits live.                                        *)
(*                                                                         *)
(* The notice is recorded first, which makes its repetition a duplicate;   *)
(* the stored turns are read once, what they lack is appended turn by      *)
(* turn, each in its own transaction and with its own evaluation.  The     *)
(* handler stops at the first append that fails.                           *)
(***************************************************************************)
EXTENDS TranscriptAdmission

CONSTANT
  History       \* turns of the notice in order, by the ids the API gives them

Listed == {History[i] : i \in DOMAIN History}

ASSUME HistoryAssumption ==
  /\ History \in Seq(Listed)
  /\ \A id \in Listed : id \notin TurnId /\ (ExtractsFacts(id) => Said[id].facts \in Utterance)

VARIABLE notice \* per call: progress, turns to append, worker of the append

historyVars == <<conversationVars, notice>>

NoNotice == [pc |-> "none", todo |-> <<>>, by |-> None]

HistoryInit == AdmissionInit /\ notice = [b \in Booking |-> NoNotice]

(* Mutant: a stored turn is good for every repetition of its words. *)
UnmatchedOnce(existing, listed) ==
  SelectSeq(listed, LAMBDA id : \A i \in DOMAIN existing : Said[existing[i]] # Said[id])

(* Where a list has the speaker and the redacted text of a turn. *)
SameWords(turnIds, said) == {i \in DOMAIN turnIds : Said[turnIds[i]] = said}

(* The places of the listed turns for which no stored turn is left: a      *)
(* stored turn answers for one listed turn of its words, the first ones.   *)
Missing(existing, listed) ==
  {i \in DOMAIN listed :
     Cardinality({j \in SameWords(listed, Said[listed[i]]) : j <= i})
       > Cardinality(SameWords(existing, Said[listed[i]]))}

(* Those turns, in the order of the list. *)
Unmatched(existing, listed) ==
  LET missing == Missing(existing, listed)
  IN  [n \in 1 .. Cardinality(missing) |->
         listed[CHOOSE i \in missing : Cardinality({j \in missing : j <= i}) = n]]

Failed == [NoNotice EXCEPT !.pc = "failed"]

Resumes(n, failed) ==
  IF failed THEN Failed
  ELSE [n EXCEPT !.by = None, !.pc = IF n.todo = <<>> THEN "done" ELSE @]

(* What a step of the desks means for the notice whose append it ends. *)
Followed(failed) ==
  [b \in Booking |->
     IF notice[b].by # None /\ desk'[notice[b].by] = Idle
       THEN Resumes(notice[b], failed) ELSE notice[b]]

(* validateProviderBinding has passed; the notice's row commits.  It       *)
(* counts as a request, within their bound.                                *)
NoticeArrives(b) ==
  /\ notice[b].pc = "none"
  /\ PageAsks
  /\ notice' = [notice EXCEPT ![b].pc = "stored"]
  /\ UNCHANGED <<vars, twinVars, call, transcript>>

NoticeReads(b) ==
  /\ notice[b].pc = "stored"
  /\ LET todo == Unmatched(transcript[b], History)
     IN  notice' = [notice EXCEPT ![b].todo = todo,
                                  ![b].pc = IF todo = <<>> THEN "done" ELSE "appending"]
  /\ UNCHANGED conversationVars

NoticeAppends(w, b) ==
  /\ notice[b].pc = "appending"
  /\ notice[b].by = None
  /\ TurnBegin(w, b, Head(notice[b].todo), TRUE)
  /\ notice' = [notice EXCEPT ![b].todo = Tail(@), ![b].by = w]

(* The call takes no more turns, or the process is gone. *)
NoticeFails(b) ==
  /\ notice[b].pc \in {"stored", "appending"}
  /\ notice[b].by = None
  /\ notice' = [notice EXCEPT ![b] = Failed]
  /\ UNCHANGED conversationVars

HistoryNext ==
  \/ AdmissionStep /\ notice' = Followed(FALSE)
  \/ \E w \in Worker : RequestFails(w) /\ notice' = Followed(TRUE)
  \/ \E b \in Call :
       \/ NoticeArrives(b)
       \/ NoticeReads(b)
       \/ \E w \in Worker : NoticeAppends(w, b)
       \/ NoticeFails(b)

HistorySpec == HistoryInit /\ [][HistoryNext]_historyVars
=============================================================================
