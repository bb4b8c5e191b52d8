-------------------------------- MODULE Feed --------------------------------
(***************************************************************************)
(* What the event stream of a call promises to one browser (EVENT-CONTRACT *)
(* lines 18 to 19 and 56), as far as the code keeps it: there is one       *)
(* history, it only grows, and the browser gets no event twice.  An event  *)
(* is firm when its number is its place in the history; the firm events    *)
(* come from the beginning, in their order, and all of them in the end.    *)
(* Transactions, cursors and connections are left to EventLog, which       *)
(* implements it.                                                          *)
(***************************************************************************)
EXTENDS Naturals, Sequences

VARIABLES
  history,      \* the events of the call: which of them are firm
  received      \* the places of those the browser has, in order of receipt

feedVars == <<history, received>>

FeedInit == history = <<>> /\ received = <<>>

Missing == {n \in DOMAIN history : \A k \in DOMAIN received : received[k] # n}

(* One command may publish several events; none is taken back or changed.  *)
Publish ==
  /\ Len(history') > Len(history)
  /\ history = SubSeq(history', 1, Len(history))
  /\ UNCHANGED received

Deliver(n) ==
  /\ n \in Missing
  /\ history[n] => \A m \in Missing : history[m] => n <= m
  /\ received' = Append(received, n)
  /\ UNCHANGED history

DeliverAny == \E n \in Missing : Deliver(n)
DeliverFirm == \E n \in Missing : history[n] /\ Deliver(n)

FeedSpec == FeedInit /\ [][Publish \/ DeliverAny]_feedVars /\ WF_feedVars(DeliverFirm)
=============================================================================
