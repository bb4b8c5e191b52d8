------------------------------ MODULE EventLog ------------------------------
(***************************************************************************)
(* The event stream of one call: appendEvent inside the transactions of    *)
(* the API's commands (platform/events/event-log.ts), and the SSE endpoint *)
(* that polls the committed rows for one browser (modules/call-events).    *)
(*                                                                         *)
(* A command takes the call's advisory lock, counts the rows it can see    *)
(* and numbers its event one higher; the lock lasts until its transaction  *)
(* ends.  Payment, voice and call commands run at READ COMMITTED and count *)
(* what is committed when they ask; transcript turns, confirmations and    *)
(* offer acceptances are SERIALIZABLE and count in the snapshot taken by   *)
(* their first statement.  A row is named by its place in commit order.    *)
(***************************************************************************)
EXTENDS Naturals, Sequences, FiniteSets

CONSTANTS
  Writer,       \* commands in flight
  Instant,      \* the times a request may have captured (occurredAt)
  Free,         \* the advisory lock when nobody holds it
  MaxEvents     \* bound: events of the call

Level == {"READ COMMITTED", "SERIALIZABLE"}

ASSUME InstantAssumption == Instant \subseteq Nat
ASSUME FreeAssumption == Free \notin Writer
ASSUME EventsAssumption == MaxEvents \in Nat

VARIABLES
  level,        \* isolation level of each writer, fixed
  log,          \* committed CALL_STREAM rows, in commit order
  lock,         \* pg_advisory_xact_lock of the call
  tx,           \* open transaction of each writer
  cursor,       \* lastSentEventId of the server's SSE connection (0: none)
  wire,         \* events written to the socket, not yet received
  seen          \* events the browser has received, in order

vars == <<level, log, lock, tx, cursor, wire, seen>>

Row == [sequence : Nat \ {0}, at : Instant, by : Writer]
NoTx == [pc |-> "idle"]
OpenTx == [pc : {"open"}, snapshot : Nat, at : Instant, rows : Seq(Row)]

Elements(s) == {s[n] : n \in DOMAIN s}
Last(s) == IF s = <<>> THEN 0 ELSE s[Len(s)]
Pending == {w \in Writer : tx[w] # NoTx}
-----------------------------------------------------------------------------
(* The count of the call's rows: the writer's own, and the committed ones  *)
(* its isolation level lets it see.                                        *)
VisibleCount(w) ==
  Len(tx[w].rows) +
    (IF level[w] = "SERIALIZABLE" THEN tx[w].snapshot ELSE Len(log))

(* Serialization failure: another SERIALIZABLE writer has appended since   *)
(* the snapshot, so each has missed a row of the other.  Writers at READ   *)
(* COMMITTED are not tracked.                                              *)
Conflicting(w) ==
  /\ level[w] = "SERIALIZABLE"
  /\ \E n \in tx[w].snapshot + 1 .. Len(log) : level[log[n].by] = "SERIALIZABLE"

(* readCommittedCallEvents: ordered by created_at, then stably by sequence.*)
Before(m, n) ==
  \/ log[m].sequence < log[n].sequence
  \/ /\ log[m].sequence = log[n].sequence
     /\ log[m].at < log[n].at \/ (log[m].at = log[n].at /\ m < n)

(* Mutant: the cursor's event is left out, the ones before it are not. *)
UnsentAround(from) == {n \in DOMAIN log : n # from}

(* Everything after the cursor, or everything when there is none. *)
Unsent(from) == {n \in DOMAIN log : from = 0 \/ Before(from, n)}

Delivery(rows) ==
  CHOOSE s \in [1 .. Cardinality(rows) -> rows] :
    \A i, j \in DOMAIN s : i < j => Before(s[i], s[j])
-----------------------------------------------------------------------------
Init ==
  /\ level \in [Writer -> Level]
  /\ log = <<>>
  /\ lock = Free
  /\ tx = [w \in Writer |-> NoTx]
  /\ cursor = 0
  /\ wire = <<>>
  /\ seen = <<>>

Begin(w, at) ==
  /\ tx[w] = NoTx
  /\ tx' = [tx EXCEPT ![w] = [pc |-> "open", snapshot |-> Len(log), at |-> at, rows |-> <<>>]]
  /\ UNCHANGED <<level, log, lock, cursor, wire, seen>>

(* Mutant: counts and inserts without the advisory lock. *)
AppendEventUnlocked(w) ==
  /\ tx[w] # NoTx
  /\ Len(log) + Len(tx[w].rows) < MaxEvents
  /\ tx' = [tx EXCEPT ![w].rows =
              Append(@, [sequence |-> VisibleCount(w) + 1, at |-> tx[w].at, by |-> w])]
  /\ UNCHANGED <<level, log, lock, cursor, wire, seen>>

(* appendEvent waits for the advisory lock, counts and inserts. *)
AppendEvent(w) ==
  /\ tx[w] # NoTx
  /\ lock \in {Free, w}
  /\ Len(log) + Len(tx[w].rows) < MaxEvents
  /\ lock' = w
  /\ tx' = [tx EXCEPT ![w].rows =
              Append(@, [sequence |-> VisibleCount(w) + 1, at |-> tx[w].at, by |-> w])]
  /\ UNCHANGED <<level, log, cursor, wire, seen>>

(* Mutant: a session lock, which outlives the transaction. *)
ReleaseNothing(w) == lock' = lock

Release(w) == lock' = IF lock = w THEN Free ELSE lock

Commit(w) ==
  /\ tx[w] # NoTx
  /\ tx[w].rows # <<>>
  /\ ~Conflicting(w)
  /\ log' = log \o tx[w].rows
  /\ tx' = [tx EXCEPT ![w] = NoTx]
  /\ Release(w)
  /\ UNCHANGED <<level, cursor, wire, seen>>

(* A refused command, a timeout, a crash, a serialization failure. *)
Rollback(w) ==
  /\ tx[w] # NoTx
  /\ tx' = [tx EXCEPT ![w] = NoTx]
  /\ Release(w)
  /\ UNCHANGED <<level, log, cursor, wire, seen>>

(* Mutant: the polling flag stays set after the first read. *)
PollOnce ==
  /\ cursor = 0
  /\ Unsent(cursor) # {}
  /\ LET batch == Delivery(Unsent(cursor))
     IN  /\ wire' = wire \o batch
         /\ cursor' = Last(batch)
  /\ UNCHANGED <<level, log, lock, tx, seen>>

(* The 100 ms poll of an open connection, and its first read. *)
Poll ==
  /\ Unsent(cursor) # {}
  /\ LET batch == Delivery(Unsent(cursor))
     IN  /\ wire' = wire \o batch
         /\ cursor' = Last(batch)
  /\ UNCHANGED <<level, log, lock, tx, seen>>

(* The browser takes the next event off the socket. *)
Receive ==
  /\ wire # <<>>
  /\ seen' = Append(seen, Head(wire))
  /\ wire' = Tail(wire)
  /\ UNCHANGED <<level, log, lock, tx, cursor>>

(* Mutant: the server resumes from what it has sent. *)
ReconnectWhereSent ==
  /\ wire # <<>>
  /\ wire' = <<>>
  /\ UNCHANGED <<level, log, lock, tx, cursor, seen>>

(* The connection breaks with what is on it; the browser opens another     *)
(* with the Last-Event-ID it has.                                          *)
Reconnect ==
  /\ wire # <<>>
  /\ cursor' = Last(seen)
  /\ wire' = <<>>
  /\ UNCHANGED <<level, log, lock, tx, seen>>

Next ==
  \/ \E w \in Writer :
       \/ \E at \in Instant : Begin(w, at)
       \/ AppendEvent(w)
       \/ Commit(w)
       \/ Rollback(w)
  \/ Poll
  \/ Receive
  \/ Reconnect

(* The poll is a timer of the server; a socket that is not broken again    *)
(* and again delivers.                                                     *)
Fairness == WF_vars(Poll) /\ SF_vars(Receive)

Spec == Init /\ [][Next]_vars /\ Fairness
-----------------------------------------------------------------------------
(* Type invariant; the lock belongs to a writer with an open transaction.  *)
TypeOK ==
  /\ level \in [Writer -> Level]
  /\ log \in Seq(Row) /\ Len(log) <= MaxEvents
  /\ lock \in {Free} \cup Pending
  /\ tx \in [Writer -> OpenTx \cup {NoTx}]
  /\ cursor \in 0 .. Len(log)
  /\ Elements(wire) \cup Elements(seen) \subseteq DOMAIN log

(* Each number is a count made before the commit, and a SERIALIZABLE       *)
(* command counts in a snapshot: EVENT-CONTRACT line 56 as far as it holds *)
(* of any mix of commands.  An event of a READ COMMITTED command has its   *)
(* place in commit order for a number, no number is ahead of its place,    *)
(* and numbers rise in commit order except from a READ COMMITTED event to  *)
(* a SERIALIZABLE one that had not seen it.                                *)
SequenceFollowsCommit ==
  \A n \in DOMAIN log :
    /\ log[n].sequence <= n
    /\ level[log[n].by] = "READ COMMITTED" => log[n].sequence = n
    /\ \A m \in 1 .. n - 1 :
         \/ log[m].sequence < log[n].sequence
         \/ level[log[m].by] = "READ COMMITTED" /\ level[log[n].by] = "SERIALIZABLE"

(* The event's number is its place in commit order. *)
InPlace(n) == log[n].sequence = n

(* EVENT-CONTRACT lines 18 to 19: a resumed stream has no hole; whatever   *)
(* orders before the event the browser would resume from has been          *)
(* received.                                                               *)
NothingSkipped ==
  \A m, n \in DOMAIN log : (n = Last(seen) /\ Before(m, n)) => m \in Elements(seen)

(* The holes a resumed stream may have: whatever orders before the event   *)
(* the browser would resume from has been received, unless a mix of levels *)
(* has let its number slip.                                                *)
SkipsOnlySlipped ==
  \A m, n \in DOMAIN log :
    (n = Last(seen) /\ Before(m, n) /\ InPlace(m)) => m \in Elements(seen)

(* EVENT-CONTRACT line 18: every committed event is received in the end,   *)
(* also across broken connections, unless its number has slipped.          *)
AtLeastOnce ==
  \A n \in 1 .. MaxEvents : (n \in DOMAIN log /\ InPlace(n)) ~> n \in Elements(seen)

(* The stream implements the abstract feed: whatever the transactions, the *)
(* polls and the broken connections do, a browser gets the events in place *)
(* in commit order, none of them left out, no event at all twice, and      *)
(* gets on.                                                                *)
TheFeed == INSTANCE Feed WITH history <- [n \in DOMAIN log |-> InPlace(n)], received <- seen
ImplementsFeed == TheFeed!FeedSpec
=============================================================================
