---------------------------- MODULE VoiceSession ----------------------------
(***************************************************************************)
(* The live voice session of one call (modules/voice-session): requests    *)
(* to start and to stop it, and the transcript turns its relay posts.      *)
(*                                                                         *)
(* Handlers are asynchronous: each runs to its next await, and what it has *)
(* read before an await may be stale after it.  They share the in-process  *)
(* map `runtime`, which a restart of the API empties, and the call's row.  *)
(* A request that starts the session names the agent session it gets.      *)
(***************************************************************************)
EXTENDS RtmRelay, FiniteSets

CONSTANTS
  Starter,      \* requests to start the session
  Stopper,      \* requests to stop it
  MaxFaults     \* bound: failures, timeouts and restarts in one behaviour

Client == Starter \cup Stopper

(* A start may send three control requests, a stop one. *)
ASSUME CommandAssumption ==
  Command = (Starter \X {"open", "bind", "close"}) \cup (Stopper \X {"close"})
ASSUME SessionAssumption == Session = Starter
ASSUME ClientAssumption == Starter \cap Stopper = {}
ASSUME FaultsAssumption == MaxFaults \in Nat

VARIABLES
  call,         \* status of the call's row
  turns,        \* transcript_turns of the call
  runtime,      \* the process-local entry of the call
  known,        \* activeAgents of the provider client, process-local
  agents,       \* agent sessions running at the provider
  said,         \* messages the agents have published
  req,          \* requests in progress
  faults        \* faults so far

vars == <<relayVars, call, turns, runtime, known, agents, said, req, faults>>

RuntimeEntry ==
  [status : {"NONE", "READY", "STARTING", "CONNECTED", "STOPPING", "ENDED", "FAILED"},
   agent : Session \cup {None}, relayActive : BOOLEAN, rtc : BOOLEAN]

Entry(status, agent, relayActive, rtc) ==
  [status |-> status, agent |-> agent, relayActive |-> relayActive, rtc |-> rtc]

NoEntry == Entry("NONE", None, FALSE, FALSE)

Terminal == {"ENDED", "CANCELLED", "FAILED"}

Idle == [pc |-> "idle"]
Request ==
  [pc : {"open", "join", "joined", "bind", "undoAgent", "undoRelay",
         "closeRelay", "leave", "lookup", "end", "finish", "done"},
   was : RuntimeEntry,          \* a stop's reading of the runtime entry
   target : {"ENDED", "CANCELLED"}]

Go(c, pc) == req' = [req EXCEPT ![c].pc = pc]
NewRequest(c, pc) ==
  req' = [req EXCEPT ![c] = [pc |-> pc, was |-> NoEntry, target |-> "ENDED"]]
NewStop(c, pc) ==
  req' = [req EXCEPT ![c] = [pc |-> pc, was |-> runtime, target |-> "ENDED"]]

Fault == faults < MaxFaults /\ faults' = faults + 1

(* fetch to the relay: the request is on its way. *)
Send(c, kind) == cmd' = [cmd EXCEPT ![<<c, kind>>].phase = "sent"]

(* The relay's answer, or the 10 s limit of the API's fetch. *)
Succeeds(c, kind) == cmd[<<c, kind>>].phase = "done" /\ UNCHANGED faults
Fails(c, kind) ==
  \/ cmd[<<c, kind>>].phase = "failed" /\ UNCHANGED faults
  \/ cmd[<<c, kind>>].phase # "done" /\ Fault

browserVars == <<active, browser, posts>>
-----------------------------------------------------------------------------
(* create(): the call's row and the prepared browser audio. *)
Init ==
  /\ RelayInit
  /\ call = "CREATED"
  /\ turns = {}
  /\ runtime = Entry("READY", None, FALSE, TRUE)
  /\ known = {} /\ agents = {} /\ said = {}
  /\ req = [c \in Client |-> Idle]
  /\ faults = 0

(* start(), from the guards to the first await in one go.  A connected     *)
(* session is returned; without the browser's audio, or while another      *)
(* start is under way, the request is refused.                             *)
StartBegin(c) ==
  /\ req[c] = Idle
  /\ \/ /\ runtime.rtc /\ runtime.status \notin {"CONNECTED", "STARTING"}
        /\ runtime' = Entry("STARTING", None, FALSE, FALSE)
        /\ Send(c, "open")
        /\ NewRequest(c, "open")
        /\ UNCHANGED browserVars
     \/ /\ ~runtime.rtc \/ runtime.status \in {"CONNECTED", "STARTING"}
        /\ NewRequest(c, "done")
        /\ UNCHANGED <<relayVars, runtime>>
  /\ UNCHANGED <<call, turns, known, agents, said, faults>>

StartFailed(c) ==
  /\ runtime' = Entry("FAILED", None, FALSE, FALSE)
  /\ Go(c, "done")

(* The relay listens under PENDING_AGENT before the agent may speak. *)
OpenReply(c) ==
  /\ req[c].pc = "open"
  /\ \/ Succeeds(c, "open") /\ Go(c, "join") /\ UNCHANGED runtime
     \/ Fails(c, "open") /\ StartFailed(c)
  /\ UNCHANGED <<relayVars, call, turns, known, agents, said>>

(* The provider starts the agent; the API does not know it yet. *)
AgentJoins(c) ==
  /\ req[c].pc = "join"
  /\ agents' = agents \cup {c}
  /\ Go(c, "joined")
  /\ UNCHANGED <<relayVars, call, turns, runtime, known, said, faults>>

JoinReply(c) ==
  /\ req[c].pc = "joined"
  /\ known' = known \cup {c}
  /\ Send(c, "bind")
  /\ Go(c, "bind")
  /\ UNCHANGED <<browserVars, call, turns, runtime, agents, said, faults>>

(* Refused, or the answer of an agent that runs is lost. *)
JoinFails(c) ==
  /\ req[c].pc \in {"join", "joined"}
  /\ Fault
  /\ Send(c, "close")
  /\ Go(c, "undoRelay")
  /\ UNCHANGED <<browserVars, call, turns, runtime, known, agents, said>>

(* Mutant: a failed bind is left as it is. *)
BindReplyUnhandled(c) ==
  /\ req[c].pc = "bind"
  /\ \/ /\ Succeeds(c, "bind")
        /\ runtime' = Entry("CONNECTED", c, TRUE, TRUE)
        /\ Go(c, "done")
     \/ Fails(c, "bind") /\ Go(c, "done") /\ UNCHANGED runtime
  /\ UNCHANGED <<relayVars, call, turns, known, agents, said>>

BindReply(c) ==
  /\ req[c].pc = "bind"
  /\ \/ /\ Succeeds(c, "bind")
        /\ runtime' = Entry("CONNECTED", c, TRUE, TRUE)
        /\ Go(c, "done")
     \/ Fails(c, "bind") /\ Go(c, "undoAgent") /\ UNCHANGED runtime
  /\ UNCHANGED <<relayVars, call, turns, known, agents, said>>

(* agentClient.stop: done; refused, or the answer is lost; or refused by   *)
(* the client, which only knows the agents it has started itself.          *)
AgentLeaves(a) ==
  \/ a \in known /\ known' = known \ {a} /\ agents' = agents \ {a} /\ UNCHANGED faults
  \/ a \in known /\ Fault /\ agents' \in {agents, agents \ {a}} /\ UNCHANGED known
  \/ a \notin known /\ UNCHANGED <<known, agents, faults>>

UndoAgent(c) ==
  /\ req[c].pc = "undoAgent"
  /\ AgentLeaves(c)
  /\ Send(c, "close")
  /\ Go(c, "undoRelay")
  /\ UNCHANGED <<browserVars, call, turns, runtime, said>>

UndoRelay(c) ==
  /\ req[c].pc = "undoRelay"
  /\ Succeeds(c, "close") \/ Fails(c, "close")
  /\ StartFailed(c)
  /\ UNCHANGED <<relayVars, call, turns, known, agents, said>>
-----------------------------------------------------------------------------
(* stop(), which a withdrawal of the consent also calls.                   *)
AfterRelay(was) == IF was.agent # None THEN "leave" ELSE "lookup"

StopBegin(c) ==
  /\ req[c] = Idle
  /\ runtime' = [runtime EXCEPT !.status = "STOPPING"]
  /\ \/ /\ runtime.relayActive
        /\ Send(c, "close")
        /\ NewStop(c, "closeRelay")
     \/ /\ ~runtime.relayActive
        /\ NewStop(c, AfterRelay(runtime))
        /\ UNCHANGED cmd
  /\ UNCHANGED <<browserVars, call, turns, known, agents, said, faults>>

StopRelayReply(c) ==
  /\ req[c].pc = "closeRelay"
  /\ Succeeds(c, "close") \/ Fails(c, "close")
  /\ Go(c, AfterRelay(req[c].was))
  /\ UNCHANGED <<relayVars, call, turns, runtime, known, agents, said>>

StopAgent(c) ==
  /\ req[c].pc = "leave"
  /\ AgentLeaves(req[c].was.agent)
  /\ Go(c, "lookup")
  /\ UNCHANGED <<relayVars, call, turns, runtime, said>>

(* lookup, and the read of endCallSession that follows: a terminal status  *)
(* seen by either means that nothing is written, so one read stands for    *)
(* both.  The write comes later, at READ COMMITTED, by id.                 *)
StopLookup(c) ==
  /\ req[c].pc = "lookup"
  /\ IF call \in Terminal
       THEN Go(c, "finish")
       ELSE req' = [req EXCEPT ![c].pc = "end",
                      ![c].target = IF call = "CREATED" THEN "CANCELLED" ELSE "ENDED"]
  /\ UNCHANGED <<relayVars, call, turns, runtime, known, agents, said, faults>>

EndWrite(c) ==
  /\ req[c].pc = "end"
  /\ call' = req[c].target
  /\ Go(c, "finish")
  /\ UNCHANGED <<relayVars, turns, runtime, known, agents, said, faults>>

(* A database error ends the request where it is. *)
StopFails(c) ==
  /\ req[c].pc \in {"lookup", "end"}
  /\ Fault
  /\ Go(c, "done")
  /\ UNCHANGED <<relayVars, call, turns, runtime, known, agents, said>>

(* The entry is the one read at the beginning, without its relay. *)
StopFinish(c) ==
  /\ req[c].pc = "finish"
  /\ runtime' = [req[c].was EXCEPT !.status = "ENDED", !.relayActive = FALSE]
  /\ Go(c, "done")
  /\ UNCHANGED <<relayVars, call, turns, known, agents, said, faults>>
-----------------------------------------------------------------------------
(* Agents publish what is heard and what they say, the latter also in      *)
(* progress.  A turn is of one agent.                                      *)
Speak(m) ==
  /\ m.by \in agents
  /\ m \notin said
  /\ \A n \in said : <<n.speaker, n.turn>> = <<m.speaker, m.turn>> =>
                     n.by = m.by /\ n.text = "partial"
  /\ said' = said \cup {m}
  /\ Hear(m)
  /\ UNCHANGED <<call, turns, runtime, known, agents, req, faults>>

(* Provider turn ids are made from the session and the event. *)
Stored(p) == \E u \in turns : u.event = p.turn.event

(* ingestProviderEvent and acceptProviderTranscriptEvent. *)
AcceptTurn(p) ==
  /\ p.turn.event.session = runtime.agent
  /\ \/ Stored(p) /\ UNCHANGED <<call, turns>>
     \/ /\ ~Stored(p)
        /\ call \notin {"CANCELLED", "FAILED"}
        /\ turns' = turns \cup {p.turn}
        /\ call' = IF call = "CREATED" THEN "ACTIVE" ELSE call
  /\ Answered(p, TRUE)
  /\ UNCHANGED <<runtime, known, agents, said, req, faults>>

RefuseTurn(p) ==
  /\ \/ p.turn.event.session # runtime.agent
     \/ ~Stored(p) /\ call \in {"CANCELLED", "FAILED"}
  /\ Answered(p, FALSE)
  /\ UNCHANGED <<call, turns, runtime, known, agents, said, req, faults>>

LoseTurn(p) ==
  /\ Fault
  /\ Answered(p, FALSE)
  /\ UNCHANGED <<call, turns, runtime, known, agents, said, req>>

(* Mutant: the bindings are kept in a store that survives the restart,     *)
(* while the provider client forgets its agents.                           *)
RestartKeepsRuntime ==
  /\ Fault
  /\ known' = {}
  /\ req' = [c \in Client |-> IF req[c] = Idle THEN Idle ELSE [req[c] EXCEPT !.pc = "done"]]
  /\ UNCHANGED <<relayVars, call, turns, runtime, agents, said>>

(* The API restarts: its maps are empty and its requests are gone. *)
Restart ==
  /\ Fault
  /\ runtime' = NoEntry
  /\ known' = {}
  /\ req' = [c \in Client |-> IF req[c] = Idle THEN Idle ELSE [req[c] EXCEPT !.pc = "done"]]
  /\ UNCHANGED <<relayVars, call, turns, agents, said>>
-----------------------------------------------------------------------------
StartStep(c) ==
  \/ OpenReply(c) \/ AgentJoins(c) \/ JoinReply(c) \/ JoinFails(c)
  \/ BindReply(c) \/ UndoAgent(c) \/ UndoRelay(c)

StopStep(c) ==
  \/ StopRelayReply(c) \/ StopAgent(c) \/ StopLookup(c)
  \/ EndWrite(c) \/ StopFails(c) \/ StopFinish(c)

apiVars == <<call, turns, runtime, known, agents, said, req>>

RelayStep ==
  /\ \/ \E c \in Starter :
          \/ HandleStart(<<c, "open">>, PENDING_AGENT)
          \/ LaunchAfterStop(<<c, "open">>, PENDING_AGENT)
          \/ HandleStart(<<c, "bind">>, c)
          \/ LaunchAfterStop(<<c, "bind">>, c)
     \/ \E c \in Client : HandleStop(<<c, "close">>) \/ StopDone(<<c, "close">>)
     \/ \E k \in Launched :
          Subscribe(k) \/ LaunchDone(k) \/ FlushNext(k) \/ CloseBrowser(k) \/ TimerFires(k)
  /\ UNCHANGED <<apiVars, faults>>

RelayFault ==
  /\ Fault
  /\ \E k \in Launched : LaunchFails(k) \/ SubscribeFails(k)
  /\ UNCHANGED apiVars

Next ==
  \/ \E c \in Starter : StartBegin(c) \/ StartStep(c)
  \/ \E c \in Stopper : StopBegin(c) \/ StopStep(c)
  \/ \E m \in Message : Speak(m)
  \/ \E p \in posts : AcceptTurn(p) \/ RefuseTurn(p) \/ LoseTurn(p)
  \/ RelayStep
  \/ RelayFault
  \/ Restart

(* Handlers that have been called go on: every await is answered or times  *)
(* out.  Nothing obliges a customer to call, or an agent to speak.         *)
Fairness ==
  /\ \A c \in Starter : WF_vars(StartStep(c))
  /\ \A c \in Stopper : WF_vars(StopStep(c))
  /\ WF_vars(RelayStep)
  /\ WF_vars(\E p \in posts : AcceptTurn(p) \/ RefuseTurn(p))

Spec == Init /\ [][Next]_vars /\ Fairness
-----------------------------------------------------------------------------
(* Type invariant of the API's and the relay's state. *)
TypeOK ==
  /\ cmd \in [Command -> CommandState]
  /\ active \in Command \cup {None}
  /\ browser \in [Command -> Browser \cup {NoBrowser}]
  /\ \A k \in Launched : Len(browser[k].pending) <= PendingCap
  /\ posts \subseteq Post
  /\ call \in {"CREATED", "ACTIVE", "ENDED", "CANCELLED"}
  /\ runtime \in RuntimeEntry
  /\ known \subseteq Session /\ agents \subseteq Session /\ said \subseteq Message
  /\ req \in [Client -> Request \cup {Idle}]
  /\ faults \in 0 .. MaxFaults

(* The browser the relay has on record is open: a bind never goes to one   *)
(* that a stop, a failed launch or a replacement is closing, where what it *)
(* kept would be lost.                                                     *)
RecordIsOpen == active # None => browser[active].phase \in {"listening", "deaf"}

(* A session the API calls connected has an agent that the API can still   *)
(* ask to leave, whichever starts, stops and restarts have crossed.        *)
ConnectedAgentCanBeStopped ==
  runtime.status = "CONNECTED" => runtime.agent \in known

(* A turn of the agent leaves a browser's buffer once, be it sent by the   *)
(* quiet window, by the terminal message or by the flush of a stop.        *)
AssistantTurnForwardedOnce ==
  [][\A p \in posts' \ posts :
       p.turn.event.object = "assistant" =>
         \A e \in browser[p.from].forwarded : e.turn # p.turn.event.turn]_vars

(* No failure, timeout, stop or restart leaves a session STARTING for      *)
(* ever: it would refuse every further start.                              *)
StartSettles == [](runtime.status = "STARTING" => <>(runtime.status # "STARTING"))

Buffering(k) ==
  \/ \E p \in posts : p.from = k
  \/ browser[k] # NoBrowser /\ browser[k].timers \cup browser[k].flush # {}

(* Once the agents are quiet, every turn a browser has taken into its      *)
(* buffer is posted and answered, also when the session is stopped.        *)
BuffersDrain == <>[](\A k \in Command : ~Buffering(k))
=============================================================================
