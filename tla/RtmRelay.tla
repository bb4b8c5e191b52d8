------------------------------ MODULE RtmRelay ------------------------------
(***************************************************************************)
(* The RTM relay of one call (apps/rtm-relay): the API commands it to      *)
(* start and stop a headless browser that listens to the agent's           *)
(* transcript messages, and it posts the finished turns back to the API.   *)
(*                                                                         *)
(* A browser is named by the start command that launched it.  A command is *)
(* an asynchronous handler: it runs from one await to the next, and other  *)
(* commands, messages and timers come in between.  The API may have given  *)
(* up waiting for it.  All commands of a call carry the same channel.      *)
(***************************************************************************)
EXTENDS RtmFrame, Sequences

CONSTANTS
  Command,      \* control requests the API may send for the call
  CustomerTurn, \* turns of the customer, by turn_id
  AgentTurn,    \* turns of the agent, by turn_id
  None,         \* no browser, no session
  PendingCap    \* messages kept before the session is known (50 in the code)

ASSUME PendingCapAssumption == PendingCap \in Nat
ASSUME TurnAssumption == CustomerTurn \cup AgentTurn \subseteq Nat
ASSUME TextAssumption == Text = {"partial", "final"}
ASSUME AbsentAssumption == Absent \notin CustomerTurn \cup AgentTurn /\ Absent \notin Text
ASSUME NoneAssumption == None \notin Command \cup Session

VARIABLES
  cmd,          \* progress of each control request
  active,       \* this.active.get(callId): the browser on record
  browser,      \* every browser launched for the call
  posts         \* transcript turns on their way to the API

relayVars == <<cmd, active, browser, posts>>

(* Customers and agents publish a turn while it is being said, and then    *)
(* whole; `by` is the agent session it belongs to.                         *)
Message ==
  [speaker : {"CUSTOMER"}, turn : CustomerTurn, text : Text, by : Session]
    \cup [speaker : {"AGENT"}, turn : AgentTurn, text : Text, by : Session]

(* How the provider writes it on the channel. *)
FrameOf(m) ==
  IF m.speaker = "CUSTOMER"
    THEN [object |-> "user", fromAgent |-> TRUE, turn |-> m.turn, start |-> Absent,
          final |-> m.text = "final", text |-> m.text]
    ELSE [object |-> "assistant", fromAgent |-> TRUE, turn |-> m.turn, start |-> Absent,
          status |-> IF m.text = "final" THEN "terminal" ELSE "partial",
          text |-> m.text, alternate |-> Absent]

EventId ==
  [session : Session, object : {"user", "assistant"}, turn : CustomerTurn \cup AgentTurn]

(* What parseRtmTranscriptFrame has accepted: its session and its speaker  *)
(* are those of the event id.                                              *)
Turn == [event : EventId, text : Text, by : Session]

(* The flush of a stop awaits the outcome of its posts, nobody else does. *)
Post == [turn : Turn, from : Command, awaited : BOOLEAN]

Browser ==
  [phase     : {"launching", "listening", "deaf", "stopping", "closed"},
   session   : Binding,
   pending   : Seq(Message),
   timers    : SUBSET Turn,         \* assistant turns in their quiet window
   flush     : SUBSET Turn,         \* turns a stop still has to forward
   forwarded : SUBSET EventId]      \* assistant turns the buffer has let go

NoBrowser == [phase |-> "none"]
Unsent == [phase |-> "unsent", on |-> None]
CommandState ==
  [phase : {"unsent", "sent", "stopping", "launching", "done", "failed"},
   on    : Command \cup {None}]     \* the browser a stopping command closes

Launched == {k \in Command : browser[k] # NoBrowser}
Listening(k) == browser[k].phase \in {"listening", "stopping"}
PostOf(k, u, awaited) == [turn |-> u, from |-> k, awaited |-> awaited]
-----------------------------------------------------------------------------
(***************************************************************************)
(* AssistantTurnBuffer and handleMessage, on a pair of a browser record    *)
(* and the turns it has posted.                                            *)
(***************************************************************************)
Without(us, e) == {u \in us : u.event # e}

TurnOf(m, parsed) == [event |-> parsed.event, text |-> parsed.text, by |-> m.by]

(* Mutant: a terminal message does not look whether the quiet window has   *)
(* already sent the turn.                                                  *)
PushUnchecked(k, acc, u, mode) ==
  IF mode = "immediate"
    THEN [b |-> [acc.b EXCEPT !.timers = Without(@, u.event), !.forwarded = @ \cup {u.event}],
          out |-> acc.out \cup {PostOf(k, u, FALSE)}]
    ELSE [acc EXCEPT !.b.timers = Without(@, u.event) \cup {u}]

(* push(): once per event id; the quiet window starts again with every     *)
(* message that does not end the turn.                                     *)
Push(k, acc, u, mode) ==
  IF u.event \in acc.b.forwarded THEN acc
  ELSE IF mode = "immediate"
    THEN [b |-> [acc.b EXCEPT !.timers = Without(@, u.event), !.forwarded = @ \cup {u.event}],
          out |-> acc.out \cup {PostOf(k, u, FALSE)}]
    ELSE [acc EXCEPT !.b.timers = Without(@, u.event) \cup {u}]

Handled(k, acc, m) ==
  LET parsed == Parse(FrameOf(m), acc.b.session)
      u == TurnOf(m, parsed)
  IN  IF ~parsed.accepted THEN acc
      ELSE IF parsed.speaker = "AGENT" THEN Push(k, acc, u, DeliveryMode(FrameOf(m)))
      ELSE [acc EXCEPT !.out = @ \cup {PostOf(k, u, FALSE)}]

(* Mutant: one message too many is kept. *)
ReceivedOverCap(k, b, m) ==
  IF b.session = PENDING_AGENT
    THEN [b |-> [b EXCEPT !.pending = IF Len(@) <= PendingCap THEN Append(@, m) ELSE @],
          out |-> {}]
    ELSE Handled(k, [b |-> b, out |-> {}], m)

(* ctcForwardRtmTranscript: kept while the session is unknown. *)
Received(k, b, m) ==
  IF b.session = PENDING_AGENT
    THEN [b |-> [b EXCEPT !.pending = IF Len(@) < PendingCap THEN Append(@, m) ELSE @],
          out |-> {}]
    ELSE Handled(k, [b |-> b, out |-> {}], m)

(* The second start of a call: the session is filled in and what was kept  *)
(* is handled, in order, before the request is answered.                   *)
Bound(k, b, s) ==
  LET handled[i \in 0 .. Len(b.pending)] ==
        IF i = 0 THEN [b |-> [b EXCEPT !.session = s, !.pending = <<>>], out |-> {}]
                 ELSE Handled(k, handled[i - 1], b.pending[i])
  IN  handled[Len(b.pending)]
-----------------------------------------------------------------------------
RelayInit ==
  /\ cmd = [k \in Command |-> Unsent]
  /\ active = None
  /\ browser = [k \in Command |-> NoBrowser]
  /\ posts = {}

Progress(k, phase) == cmd' = [cmd EXCEPT ![k] = [phase |-> phase, on |-> None]]

Launch(k, s) ==
  /\ Progress(k, "launching")
  /\ browser' = [browser EXCEPT ![k] =
       [phase |-> "launching", session |-> s, pending |-> <<>>,
        timers |-> {}, flush |-> {}, forwarded |-> {}]]

(* Mutant: off the record only when a launch replaces it. *)
StopActiveOnRecord(k) ==
  /\ cmd' = [cmd EXCEPT ![k] = [phase |-> "stopping", on |-> active]]
  /\ browser' = [browser EXCEPT ![active].phase = "stopping",
                                ![active].flush = @ \cup browser[active].timers,
                                ![active].timers = {}]
  /\ UNCHANGED active

(* stop(): off the record at once, its timers cancelled for the flush. *)
StopActive(k) ==
  /\ cmd' = [cmd EXCEPT ![k] = [phase |-> "stopping", on |-> active]]
  /\ browser' = [browser EXCEPT ![active].phase = "stopping",
                                ![active].flush = @ \cup browser[active].timers,
                                ![active].timers = {}]
  /\ active' = None

HandleStart(k, s) ==
  /\ cmd[k].phase = "sent"
  /\ \/ /\ active # None /\ browser[active].session = s
        /\ Progress(k, "done")
        /\ UNCHANGED <<active, browser, posts>>
     \/ /\ active # None /\ browser[active].session = PENDING_AGENT /\ s # PENDING_AGENT
        /\ LET bound == Bound(active, browser[active], s)
           IN  /\ browser' = [browser EXCEPT ![active] = bound.b]
               /\ posts' = posts \cup bound.out
        /\ Progress(k, "done")
        /\ UNCHANGED active
     \/ /\ active # None /\ browser[active].session \notin {s, PENDING_AGENT}
        /\ StopActive(k)
        /\ UNCHANGED posts
     \/ /\ active = None
        /\ Launch(k, s)
        /\ UNCHANGED <<active, posts>>

(* A start that had to stop another browser first. *)
LaunchAfterStop(k, s) ==
  /\ cmd[k].phase = "stopping"
  /\ browser[cmd[k].on].phase = "closed"
  /\ Launch(k, s)
  /\ UNCHANGED <<active, posts>>

(* The page has logged in and subscribed; messages come from now on. *)
Subscribe(k) ==
  /\ browser[k].phase = "launching"
  /\ browser' = [browser EXCEPT ![k].phase = "listening"]
  /\ UNCHANGED <<cmd, active, posts>>

(* Ten attempts to subscribe have failed: it is logged, the start goes on. *)
SubscribeFails(k) ==
  /\ browser[k].phase = "launching"
  /\ browser' = [browser EXCEPT ![k].phase = "deaf"]
  /\ UNCHANGED <<cmd, active, posts>>

LaunchDone(k) ==
  /\ cmd[k].phase = "launching"
  /\ browser[k].phase \in {"listening", "deaf"}
  /\ active' = k
  /\ Progress(k, "done")
  /\ UNCHANGED <<browser, posts>>

(* chromium, the page or the login fails: the browser is closed. *)
LaunchFails(k) ==
  /\ cmd[k].phase = "launching"
  /\ browser' = [browser EXCEPT ![k].phase = "closed"]
  /\ Progress(k, "failed")
  /\ UNCHANGED <<active, posts>>

HandleStop(k) ==
  /\ cmd[k].phase = "sent"
  /\ \/ /\ active = None
        /\ Progress(k, "done")
        /\ UNCHANGED <<active, browser>>
     \/ /\ active # None
        /\ StopActive(k)
  /\ UNCHANGED posts

StopDone(k) ==
  /\ cmd[k].phase = "stopping"
  /\ browser[cmd[k].on].phase = "closed"
  /\ Progress(k, "done")
  /\ UNCHANGED <<active, browser, posts>>

(* flush(): one turn after the other, each awaited. *)
FlushNext(k) ==
  /\ browser[k] # NoBrowser
  /\ \A p \in posts : ~(p.from = k /\ p.awaited)
  /\ \E u \in browser[k].flush :
       /\ browser' = [browser EXCEPT ![k].flush = @ \ {u},
                                     ![k].forwarded = @ \cup {u.event}]
       /\ posts' = IF u.event \in browser[k].forwarded THEN posts
                   ELSE posts \cup {PostOf(k, u, TRUE)}
  /\ UNCHANGED <<cmd, active>>

(* Logged out and closed, once the flush is over. *)
CloseBrowser(k) ==
  /\ browser[k].phase = "stopping"
  /\ browser[k].flush = {}
  /\ \A p \in posts : ~(p.from = k /\ p.awaited)
  /\ browser' = [browser EXCEPT ![k].phase = "closed"]
  /\ UNCHANGED <<cmd, active, posts>>

(* Mutant: the timer dies with the page. *)
TimerFiresInPage(k) ==
  /\ browser[k] # NoBrowser
  /\ Listening(k)
  /\ \E u \in browser[k].timers :
       /\ browser' = [browser EXCEPT ![k].timers = @ \ {u},
                                     ![k].forwarded = @ \cup {u.event}]
       /\ posts' = IF u.event \in browser[k].forwarded THEN posts
                   ELSE posts \cup {PostOf(k, u, FALSE)}
  /\ UNCHANGED <<cmd, active>>

(* The quiet window of an assistant turn is over; its timer belongs to the *)
(* process and outlives the browser.                                       *)
TimerFires(k) ==
  /\ browser[k] # NoBrowser
  /\ \E u \in browser[k].timers :
       /\ browser' = [browser EXCEPT ![k].timers = @ \ {u},
                                     ![k].forwarded = @ \cup {u.event}]
       /\ posts' = IF u.event \in browser[k].forwarded THEN posts
                   ELSE posts \cup {PostOf(k, u, FALSE)}
  /\ UNCHANGED <<cmd, active>>

(* A message reaches every browser that is subscribed to the channel. *)
Hear(m) ==
  LET heard == [k \in {j \in Launched : Listening(j)} |-> Received(k, browser[k], m)]
  IN  /\ browser' = [k \in Command |-> IF k \in DOMAIN heard THEN heard[k].b ELSE browser[k]]
      /\ posts' = posts \cup UNION {heard[k].out : k \in DOMAIN heard}
      /\ UNCHANGED <<cmd, active>>

(* The API has answered; a failure ends the flush that awaited it. *)
Answered(p, ok) ==
  /\ posts' = posts \ {p}
  /\ browser' = IF p.awaited /\ ~ok THEN [browser EXCEPT ![p.from].flush = {}] ELSE browser
  /\ UNCHANGED <<cmd, active>>
=============================================================================
