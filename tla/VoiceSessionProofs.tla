------------------------- MODULE VoiceSessionProofs -------------------------
(***************************************************************************)
(* The safety of a call's live session and of its relay, for every number  *)
(* of requests, agents, turns and faults: types, the browser on record,    *)
(* the connected agent, and that an assistant's turn is forwarded once.    *)
(*                                                                         *)
(* SessionInv is inductive.  It adds to what the runs check what each      *)
(* browser buffers, which control requests are still to be sent, and how   *)
(* far the requests are that have to do with an agent.                     *)
(***************************************************************************)
EXTENDS VoiceSession, SequenceTheorems, WellFoundedInduction, TLAPS

USE CommandAssumption, SessionAssumption, ClientAssumption, FaultsAssumption,
    PendingCapAssumption, TurnAssumption, TextAssumption, AbsentAssumption, NoneAssumption

(* An event of the assistant in session s. *)
AssistantEvent(e, s) == e \in EventId /\ e.object = "assistant" /\ e.session = s

(* What a browser buffers, and what it remembers to have let go, are the   *)
(* assistant's turns of its own session; none before the session is known. *)
OwnTurns(b) ==
  /\ \A u \in b.timers \cup b.flush : AssistantEvent(u.event, b.session)
  /\ \A e \in b.forwarded : AssistantEvent(e, b.session)
  /\ b.session = PENDING_AGENT => b.timers \cup b.flush = {} /\ b.forwarded = {}

BuffersAreOwn == \A k \in Launched : OwnTurns(browser[k])

(* A browser is launched by a start, and goes on record when its command   *)
(* is done. *)
RecordIsLaunched ==
  /\ \A k \in Launched : \E c \in Starter : k = <<c, "open">> \/ k = <<c, "bind">>
  /\ active # None => active \in Launched /\ cmd[active].phase = "done"

(* A start sends each of its control requests at most once, in order. *)
CommandsInOrder ==
  \A c \in Starter :
    /\ req[c].pc = "idle" => cmd[<<c, "open">>].phase = "unsent"
    /\ req[c].pc \in {"idle", "open", "join", "joined"} => cmd[<<c, "bind">>].phase = "unsent"

(* The agent that is being bound is known to the provider's client. *)
BeingBoundIsKnown == \A c \in Starter : req[c].pc = "bind" => c \in known

(* An agent that is bound, or that a stop has read, is the agent of a      *)
(* start that is over. *)
BoundIsSettled == runtime.agent # None => req[runtime.agent].pc = "done"

ReadIsSettled ==
  \A x \in Stopper : req[x] # Idle /\ req[x].was.agent # None =>
    req[req[x].was.agent].pc = "done"

(* While the session is connected no stop is on its way to its agent. *)
NoLeaveUnderWay ==
  runtime.status = "CONNECTED" =>
    /\ runtime.agent # None
    /\ \A x \in Stopper : req[x].pc \in {"closeRelay", "leave"} =>
         req[x].was.agent # runtime.agent

AgentsOfRequests ==
  BeingBoundIsKnown /\ BoundIsSettled /\ ReadIsSettled /\ NoLeaveUnderWay

SessionInv ==
  /\ TypeOK
  /\ BuffersAreOwn
  /\ RecordIsLaunched /\ RecordIsOpen
  /\ CommandsInOrder
  /\ AgentsOfRequests /\ ConnectedAgentCanBeStopped
-----------------------------------------------------------------------------
(***************************************************************************)
(* What the relay makes of a message                                       *)
(***************************************************************************)
(* A frame that the parser accepts is a turn of the browser's session, and *)
(* the assistant's if the agent spoke. *)
LEMMA AcceptedTurn ==
  ASSUME NEW m \in Message, NEW s \in Binding, NEW parsed, NEW u,
         parsed = Parse(FrameOf(m), s), parsed.accepted, u = TurnOf(m, parsed)
  PROVE  /\ u \in Turn /\ u.event.session = s /\ s # PENDING_AGENT
         /\ parsed.speaker = "AGENT" => AssistantEvent(u.event, s)
         /\ parsed.speaker # "AGENT" => u.event.object = "user"
<1> DEFINE f == FrameOf(m)
<1>1. CASE m.speaker = "CUSTOMER"
  <2>1. m.turn \in CustomerTurn /\ m.text \in Text /\ m.by \in Session
    BY <1>1 DEF Message
  <2>2. /\ f.object = "user" /\ f.fromAgent = TRUE /\ f.turn = m.turn
        /\ f.text = m.text
    BY <1>1 DEF FrameOf
  <2>3. f.turn # Absent
    BY <2>1, <2>2
  <2>4. parsed = ParseUser(f, s)
    BY <2>2 DEF Parse, Refused
  <2>5. /\ s # PENDING_AGENT
        /\ parsed = TranscriptEvent(s, f, "CUSTOMER", f.text)
    BY <2>4 DEF ParseUser, Refused
  <2>6. /\ parsed.speaker = "CUSTOMER" /\ parsed.text = m.text
        /\ parsed.event = StableId(s, f)
    BY <2>5, <2>2 DEF TranscriptEvent
  <2>7. StableId(s, f) = [session |-> s, object |-> "user", turn |-> m.turn]
    BY <2>2, <2>3 DEF StableId
  <2>8. StableId(s, f) \in EventId
    BY <2>7, <2>5, <2>1 DEF EventId, Binding
  <2> QED
    BY <2>1, <2>5, <2>6, <2>7, <2>8 DEF Turn, TurnOf
<1>2. CASE m.speaker = "AGENT"
  <2>1. m.turn \in AgentTurn /\ m.text \in Text /\ m.by \in Session
    BY <1>2 DEF Message
  <2>2. /\ f.object = "assistant" /\ f.fromAgent = TRUE /\ f.turn = m.turn
        /\ f.text = m.text
    BY <1>2 DEF FrameOf
  <2>3. f.turn # Absent /\ f.text # Absent
    BY <2>1, <2>2
  <2>4. parsed = ParseAssistant(f, s)
    BY <2>2 DEF Parse, Refused
  <2>5. /\ s # PENDING_AGENT
        /\ parsed = TranscriptEvent(s, f, "AGENT", AssistantText(f))
    BY <2>4 DEF ParseAssistant, Refused
  <2>6. AssistantText(f) = m.text
    BY <2>2, <2>3 DEF AssistantText
  <2>7. /\ parsed.speaker = "AGENT" /\ parsed.text = m.text
        /\ parsed.event = StableId(s, f)
    BY <2>5, <2>6 DEF TranscriptEvent
  <2>8. StableId(s, f) = [session |-> s, object |-> "assistant", turn |-> m.turn]
    BY <2>2, <2>3 DEF StableId
  <2>9. StableId(s, f) \in EventId
    BY <2>8, <2>5, <2>1 DEF EventId, Binding
  <2> QED
    BY <2>1, <2>5, <2>7, <2>8, <2>9 DEF Turn, TurnOf, AssistantEvent
<1> QED
  BY <1>1, <1>2 DEF Message

(* A message that a browser handles: at most one turn is posted, of its    *)
(* own session, and an assistant's only if the buffer has not let it go.   *)
LEMMA HandledStep ==
  ASSUME NEW k \in Command, NEW b \in Browser, OwnTurns(b),
         NEW out \in SUBSET Post, NEW m \in Message
  PROVE  LET r == Handled(k, [b |-> b, out |-> out], m)
         IN  /\ r = [b |-> r.b, out |-> r.out] /\ r.b \in Browser /\ r.out \in SUBSET Post
             /\ OwnTurns(r.b)
             /\ r.b.phase = b.phase /\ r.b.session = b.session /\ r.b.pending = b.pending
             /\ \A p \in r.out \ out :
                  /\ p.from = k
                  /\ p.turn.event.object = "assistant" =>
                       AssistantEvent(p.turn.event, b.session) /\ p.turn.event \notin b.forwarded
<1> SUFFICES
      \E c \in Browser, o \in SUBSET Post :
        /\ Handled(k, [b |-> b, out |-> out], m) = [b |-> c, out |-> o]
        /\ OwnTurns(c)
        /\ c.phase = b.phase /\ c.session = b.session /\ c.pending = b.pending
        /\ \A p \in o \ out :
             /\ p.from = k
             /\ p.turn.event.object = "assistant" =>
                  AssistantEvent(p.turn.event, b.session) /\ p.turn.event \notin b.forwarded
  OBVIOUS
<1> DEFINE acc == [b |-> b, out |-> out]
           f == FrameOf(m)
           parsed == Parse(f, b.session)
           u == TurnOf(m, parsed)
           p == PostOf(k, u, FALSE)
<1>1. b.session \in Binding
  BY DEF Browser
<1>2. CASE ~parsed.accepted
  BY <1>2 DEF Handled
<1>3. CASE parsed.accepted
  <2>1. /\ u \in Turn /\ u.event.session = b.session /\ b.session # PENDING_AGENT
        /\ parsed.speaker = "AGENT" => AssistantEvent(u.event, b.session)
        /\ parsed.speaker # "AGENT" => u.event.object = "user"
    BY <1>1, <1>3, AcceptedTurn
  <2> HIDE DEF parsed, u
  <2>2. /\ p \in Post /\ p.from = k /\ p.turn = u
    BY <2>1 DEF Post, PostOf
  <2> HIDE DEF p
  <2>3. CASE parsed.speaker # "AGENT"
    <3>1. Handled(k, acc, m) = [b |-> b, out |-> out \cup {p}]
      BY <1>3, <2>3 DEF Handled, parsed, u, p
    <3> QED
      BY <2>1, <2>2, <2>3, <3>1
  <2>4. CASE parsed.speaker = "AGENT"
    <3>1. Handled(k, acc, m) = Push(k, acc, u, DeliveryMode(f))
      BY <1>3, <2>4 DEF Handled, parsed, u
    <3>2. AssistantEvent(u.event, b.session)
      BY <2>1, <2>4
    <3>3. u.event \in EventId
      BY <3>2 DEF AssistantEvent
    <3>4. CASE u.event \in b.forwarded
      BY <3>1, <3>4 DEF Push
    <3>5. CASE u.event \notin b.forwarded /\ DeliveryMode(f) = "immediate"
      <4> DEFINE c == [b EXCEPT !.timers = Without(@, u.event), !.forwarded = @ \cup {u.event}]
      <4>1. Handled(k, acc, m) = [b |-> c, out |-> out \cup {p}]
        BY <3>1, <3>5 DEF Push, p
      <4>2. Without(b.timers, u.event) \subseteq b.timers
        BY DEF Without
      <4>3. /\ c \in Browser
            /\ c.phase = b.phase /\ c.session = b.session /\ c.pending = b.pending
            /\ c.timers \subseteq b.timers /\ c.flush = b.flush
            /\ c.forwarded = b.forwarded \cup {u.event}
        BY <3>3, <4>2 DEF Browser
      <4> HIDE DEF c
      <4>4. OwnTurns(c)
        BY <2>1, <3>2, <4>3 DEF OwnTurns
      <4>5. out \cup {p} \in SUBSET Post
        BY <2>2
      <4>6. \A q \in (out \cup {p}) \ out :
              /\ q.from = k
              /\ AssistantEvent(q.turn.event, b.session) /\ q.turn.event \notin b.forwarded
        BY <2>2, <3>2, <3>5
      <4> QED
        BY <4>1, <4>3, <4>4, <4>5, <4>6
    <3>6. CASE u.event \notin b.forwarded /\ DeliveryMode(f) # "immediate"
      <4> DEFINE c == [b EXCEPT !.timers = Without(@, u.event) \cup {u}]
      <4>1. Handled(k, acc, m) = [b |-> c, out |-> out]
        BY <3>1, <3>6 DEF Push
      <4>2. Without(b.timers, u.event) \subseteq b.timers
        BY DEF Without
      <4>3. /\ c \in Browser
            /\ c.phase = b.phase /\ c.session = b.session /\ c.pending = b.pending
            /\ c.timers \subseteq b.timers \cup {u} /\ c.flush = b.flush
            /\ c.forwarded = b.forwarded
        BY <2>1, <4>2 DEF Browser
      <4> HIDE DEF c
      <4>4. OwnTurns(c)
        BY <2>1, <3>2, <4>3 DEF OwnTurns
      <4> QED
        BY <4>1, <4>3, <4>4
    <3> QED
      BY <3>4, <3>5, <3>6
  <2> QED
    BY <2>3, <2>4
<1> QED
  BY <1>2, <1>3

(* A set of numbers has a least one. *)
LEMMA LeastNumber ==
  ASSUME NEW S \in SUBSET Nat, S # {}
  PROVE  \E n \in S : \A m \in S : n <= m
<1>1. PICK n \in S : \A m \in S : ~(<<m, n>> \in OpToRel(<, Nat))
  BY NatLessThanWellFounded, WFMin
<1>2. ASSUME NEW m \in S
      PROVE  n <= m
  <2>1. m \in Nat /\ n \in Nat
    OBVIOUS
  <2>2. ~(m < n)
    BY <1>1, <2>1 DEF OpToRel
  <2> QED
    BY <2>1, <2>2
<1> QED
  BY <1>2

(* What a bind has made of the first i messages that were kept. *)
HandledUpTo(k, b, s) ==
  CHOOSE h :
    h = [i \in 0 .. Len(b.pending) |->
           IF i = 0 THEN [b |-> [b EXCEPT !.session = s, !.pending = <<>>], out |-> {}]
                    ELSE Handled(k, h[i - 1], b.pending[i])]

(* The definition in Bound has a value: each message is handled on top of  *)
(* what the one before has left. *)
LEMMA BoundUnfolds ==
  ASSUME NEW k \in Command, NEW b \in Browser, NEW s \in Binding
  PROVE  LET h == HandledUpTo(k, b, s)
         IN  /\ Bound(k, b, s) = h[Len(b.pending)]
             /\ h[0] = [b |-> [b EXCEPT !.session = s, !.pending = <<>>], out |-> {}]
             /\ \A i \in 1 .. Len(b.pending) : h[i] = Handled(k, h[i - 1], b.pending[i])
<1> DEFINE n == Len(b.pending)
           base == [b |-> [b EXCEPT !.session = s, !.pending = <<>>], out |-> {}]
           Unfolded(h, j) ==
             h = [i \in 0 .. j |-> IF i = 0 THEN base ELSE Handled(k, h[i - 1], b.pending[i])]
           S == {j \in 0 .. n : ~ \E h : Unfolded(h, j)}
<1>0. n \in Nat
  BY DEF Browser
<1>1. S = {}
  <2>1. SUFFICES ASSUME S # {} PROVE FALSE
    OBVIOUS
  <2>2. S \in SUBSET Nat
    OBVIOUS
  <2> HIDE DEF S
  <2>3. PICK j \in S : \A l \in S : j <= l
    BY <2>1, <2>2, LeastNumber
  <2>4. j \in 0 .. n /\ ~ \E h : Unfolded(h, j)
    BY <2>3 DEF S
  <2>5. CASE j = 0
    <3> DEFINE h == [i \in 0 .. 0 |-> base]
    <3>1. Unfolded(h, 0)
      <4> HIDE DEF base
      <4> QED
        OBVIOUS
    <3> QED
      BY <2>4, <2>5, <3>1
  <2>6. CASE j # 0
    <3>1. j - 1 \in 0 .. n /\ j - 1 \in Nat /\ j \in Nat /\ ~(j <= j - 1)
      BY <2>4, <2>6
    <3>2. j - 1 \notin S
      BY <2>3, <3>1
    <3>3. PICK g : Unfolded(g, j - 1)
      BY <3>1, <3>2 DEF S
    <3> HIDE DEF base
    <3> DEFINE h == [i \in 0 .. j |-> IF i = j THEN Handled(k, g[j - 1], b.pending[j]) ELSE g[i]]
    <3>4. ASSUME NEW i \in 0 .. j
          PROVE  h[i] = IF i = 0 THEN base ELSE Handled(k, h[i - 1], b.pending[i])
      <4>1. CASE i = j
        <5>1. h[i] = Handled(k, g[j - 1], b.pending[j])
          BY <4>1
        <5>2. j - 1 \in 0 .. j /\ j - 1 # j
          BY <3>1
        <5>3. h[j - 1] = g[j - 1]
          BY <5>2
        <5> QED
          BY <2>6, <4>1, <5>1, <5>3
      <4>2. CASE i # j
        <5>1. i \in 0 .. (j - 1)
          BY <3>1, <4>2
        <5>2. g[i] = IF i = 0 THEN base ELSE Handled(k, g[i - 1], b.pending[i])
          BY <3>3, <5>1
        <5>3. h[i] = g[i]
          BY <4>2
        <5>4. CASE i # 0
          <6>1. i - 1 \in 0 .. j /\ i - 1 # j
            BY <3>1, <5>1, <5>4
          <6>2. h[i - 1] = g[i - 1]
            BY <6>1
          <6> QED
            BY <5>2, <5>3, <5>4, <6>2
        <5> QED
          BY <5>2, <5>3, <5>4
      <4> QED
        BY <4>1, <4>2
    <3>5. h = [i \in 0 .. j |-> h[i]]
      OBVIOUS
    <3> HIDE DEF h
    <3>6. Unfolded(h, j)
      BY <3>4, <3>5
    <3> QED
      BY <2>4, <3>6
  <2> QED
    BY <2>5, <2>6
<1>2. \E h : Unfolded(h, n)
  <2>1. n \in 0 .. n
    OBVIOUS
  <2>2. n \notin S
    BY <1>1
  <2> QED
    BY <2>1, <2>2
<1> DEFINE H == HandledUpTo(k, b, s)
<1>3. Unfolded(H, n)
  BY <1>2 DEF HandledUpTo
<1>4. Bound(k, b, s) = H[n]
  BY DEF Bound, HandledUpTo
<1> HIDE DEF H, base
<1>5. H[0] = base
  BY <1>3
<1>6. ASSUME NEW i \in 1 .. n
      PROVE  H[i] = Handled(k, H[i - 1], b.pending[i])
  <2>1. i \in 0 .. n /\ i # 0
    OBVIOUS
  <2> QED
    BY <1>3, <2>1
<1> QED
  BY <1>4, <1>5, <1>6 DEF base, H

(* A browser that learns its session posts turns of its own only, and      *)
(* keeps no message. *)
LEMMA BoundStep ==
  ASSUME NEW k \in Command, NEW b \in Browser, OwnTurns(b), b.session = PENDING_AGENT,
         NEW s \in Binding
  PROVE  LET r == Bound(k, b, s)
         IN  /\ r.b \in Browser /\ r.out \in SUBSET Post
             /\ OwnTurns(r.b)
             /\ r.b.phase = b.phase /\ r.b.session = s /\ r.b.pending = <<>>
             /\ \A p \in r.out : p.from = k
<1> DEFINE n == Len(b.pending)
           b0 == [b EXCEPT !.session = s, !.pending = <<>>]
           Good(x) ==
             \E c \in Browser, o \in SUBSET Post :
               /\ x = [b |-> c, out |-> o]
               /\ OwnTurns(c)
               /\ c.phase = b.phase /\ c.session = s /\ c.pending = <<>>
               /\ \A p \in o : p.from = k
           h == HandledUpTo(k, b, s)
<1>1. b.pending \in Seq(Message) /\ n \in Nat
  BY DEF Browser
<1>2. /\ Bound(k, b, s) = h[n]
      /\ h[0] = [b |-> b0, out |-> {}]
      /\ \A i \in 1 .. n : h[i] = Handled(k, h[i - 1], b.pending[i])
  <2>1. Bound(k, b, s) = h[n]
    BY BoundUnfolds, ZenonT(60)
  <2>2. h[0] = [b |-> b0, out |-> {}]
    BY <2>1, BoundUnfolds, ZenonT(60)
  <2>3. \A i \in 1 .. n : h[i] = Handled(k, h[i - 1], b.pending[i])
    BY <2>1, BoundUnfolds, ZenonT(60)
  <2> QED
    BY <2>1, <2>2, <2>3
<1> HIDE DEF h
<1>3. Good(h[0])
  <2>1. <<>> \in Seq(Message)
    OBVIOUS
  <2>2. /\ b0 \in Browser
        /\ b0.phase = b.phase /\ b0.session = s /\ b0.pending = <<>>
        /\ b0.timers = b.timers /\ b0.flush = b.flush /\ b0.forwarded = b.forwarded
    BY <2>1 DEF Browser
  <2> HIDE DEF b0
  <2>3. OwnTurns(b0)
    BY <2>2 DEF OwnTurns
  <2> QED
    BY <1>2, <2>2, <2>3
<1>4. ASSUME NEW i \in 1 .. n, Good(h[i - 1])
      PROVE  Good(h[i])
  <2>1. PICK c \in Browser, o \in SUBSET Post :
               /\ h[i - 1] = [b |-> c, out |-> o]
               /\ OwnTurns(c)
               /\ c.phase = b.phase /\ c.session = s /\ c.pending = <<>>
               /\ \A p \in o : p.from = k
    BY <1>4
  <2>2. b.pending[i] \in Message
    BY <1>1, <1>4
  <2>2a. OwnTurns(c)
    BY <2>1
  <2> DEFINE r == Handled(k, [b |-> c, out |-> o], b.pending[i])
  <2>3. /\ r = [b |-> r.b, out |-> r.out] /\ r.b \in Browser /\ r.out \in SUBSET Post
        /\ OwnTurns(r.b)
        /\ r.b.phase = c.phase /\ r.b.session = c.session /\ r.b.pending = c.pending
        /\ \A p \in r.out \ o : p.from = k
    BY <2>2, <2>2a, HandledStep
  <2>4. h[i] = r
    BY <1>2, <2>1
  <2> HIDE DEF r
  <2>5. \A p \in r.out : p.from = k
    BY <2>1, <2>3
  <2> QED
    BY <2>1, <2>3, <2>4, <2>5
<1> HIDE DEF Good, b0
<1> DEFINE S == {i \in 0 .. n : ~Good(h[i])}
<1>5. S = {}
  <2>1. SUFFICES ASSUME S # {} PROVE FALSE
    OBVIOUS
  <2>2. S \in SUBSET Nat
    OBVIOUS
  <2>3. PICK j \in S : \A l \in S : j <= l
    BY <2>1, <2>2, LeastNumber
  <2>4. j \in 0 .. n /\ ~Good(h[j]) /\ j # 0
    BY <1>3, <2>3
  <2>5. j \in 1 .. n /\ j - 1 \in 0 .. n /\ ~(j <= j - 1)
    BY <1>1, <2>4
  <2>6. Good(h[j - 1])
    BY <2>3, <2>5
  <2> QED
    BY <1>4, <2>4, <2>5, <2>6
<1>6. Good(h[n])
  BY <1>1, <1>5
<1> QED
  BY <1>2, <1>6 DEF Good
-----------------------------------------------------------------------------
(***************************************************************************)
(* The relay                                                               *)
(***************************************************************************)
RelayInv ==
  /\ cmd \in [Command -> CommandState]
  /\ active \in Command \cup {None}
  /\ browser \in [Command -> Browser \cup {NoBrowser}]
  /\ \A k \in Launched : Len(browser[k].pending) <= PendingCap
  /\ posts \subseteq Post
  /\ BuffersAreOwn /\ RecordIsLaunched /\ RecordIsOpen

ForwardedOnce ==
  \A p \in posts' \ posts :
    p.turn.event.object = "assistant" =>
      \A e \in browser[p.from].forwarded : e.turn # p.turn.event.turn

(* What the relay keeps in each of its steps: requests that have not been  *)
(* sent stay so. *)
RelayKeeps ==
  /\ RelayInv'
  /\ \A k \in Command : cmd[k].phase = "unsent" => cmd'[k].phase = "unsent"
  /\ ForwardedOnce

OfStart(k) == \E c \in Starter : k = <<c, "open">> \/ k = <<c, "bind">>

(* A browser that has been launched is a whole record. *)
LEMMA LaunchedBrowser ==
  ASSUME RelayInv, NEW k \in Command, browser[k] # NoBrowser
  PROVE  /\ k \in Launched /\ OfStart(k)
         /\ browser[k] \in Browser /\ OwnTurns(browser[k])
         /\ Len(browser[k].pending) <= PendingCap
<1>1. browser[k] \in Browser /\ k \in Launched
  BY DEF RelayInv, Launched
<1> QED
  BY <1>1 DEF RelayInv, BuffersAreOwn, RecordIsLaunched, OfStart

(* A browser that has a phase is one that was launched. *)
LEMMA PhaseOfBrowser ==
  ASSUME NEW b \in Browser \cup {NoBrowser}
  PROVE  b.phase # "none" <=> b # NoBrowser
BY DEF Browser, NoBrowser

(* One browser is given another record. *)
LEMMA BrowserChanges ==
  ASSUME RelayInv, NEW k \in Command, OfStart(k),
         NEW b \in Browser, OwnTurns(b), Len(b.pending) <= PendingCap,
         browser' = [browser EXCEPT ![k] = b]
  PROVE  /\ browser' \in [Command -> Browser \cup {NoBrowser}]
         /\ \A j \in Launched' : Len(browser'[j].pending) <= PendingCap
         /\ BuffersAreOwn'
         /\ \A j \in Launched' : OfStart(j)
         /\ Launched \subseteq Launched' /\ k \in Launched'
         /\ browser'[k] = b /\ \A j \in Command \ {k} : browser'[j] = browser[j]
<1>1. /\ browser' \in [Command -> Browser \cup {NoBrowser}]
      /\ browser'[k] = b /\ \A j \in Command \ {k} : browser'[j] = browser[j]
  BY DEF RelayInv
<1>2. b # NoBrowser
  BY DEF Browser, NoBrowser
<1>3. Launched' = Launched \cup {k}
  BY <1>1, <1>2 DEF Launched
<1>4. \A j \in Launched' : Len(browser'[j].pending) <= PendingCap
  BY <1>1, <1>3 DEF RelayInv, Launched
<1>5. BuffersAreOwn'
  BY <1>1, <1>3 DEF RelayInv, BuffersAreOwn, Launched
<1>6. \A j \in Launched' : OfStart(j)
  BY <1>3 DEF RelayInv, RecordIsLaunched, OfStart
<1> QED
  BY <1>1, <1>3, <1>4, <1>5, <1>6

(* The record is that of an open browser whose command is done. *)
LEMMA RecordKept ==
  ASSUME RelayInv, active # None
  PROVE  /\ active \in Launched /\ active \in Command
         /\ cmd[active].phase = "done"
         /\ browser[active].phase \in {"listening", "deaf"}
BY DEF RelayInv, RecordIsLaunched, RecordIsOpen, Launched

(* A command makes progress. *)
LEMMA CommandProgresses ==
  ASSUME RelayInv, NEW k \in Command, NEW phase, NEW on \in Command \cup {None},
         phase \in {"stopping", "launching", "done", "failed"},
         cmd[k].phase # "unsent",
         cmd' = [cmd EXCEPT ![k] = [phase |-> phase, on |-> on]]
  PROVE  /\ cmd' \in [Command -> CommandState]
         /\ cmd'[k].phase = phase
         /\ \A j \in Command \ {k} : cmd'[j] = cmd[j]
         /\ \A j \in Command : cmd[j].phase = "unsent" => cmd'[j].phase = "unsent"
<1>1. [phase |-> phase, on |-> on] \in CommandState
  BY DEF CommandState
<1> QED
  BY <1>1 DEF RelayInv

(* Of the turns of one browser, the turn number tells the events apart. *)
LEMMA OwnEventsDiffer ==
  ASSUME NEW b, OwnTurns(b), NEW e, AssistantEvent(e, b.session), e \notin b.forwarded
  PROVE  \A f \in b.forwarded : f.turn # e.turn
<1>1. ASSUME NEW f \in b.forwarded, f.turn = e.turn
      PROVE  FALSE
  <2>1. AssistantEvent(f, b.session)
    BY DEF OwnTurns
  <2>2. f = e
    BY <1>1, <2>1 DEF AssistantEvent, EventId
  <2> QED
    BY <2>2
<1> QED
  BY <1>1

(* A step that adds no post forwards none twice. *)
LEMMA NothingForwarded ==
  ASSUME posts' \subseteq posts
  PROVE  ForwardedOnce
BY DEF ForwardedOnce

(* A step of a command that leaves the browsers and the record alone. *)
LEMMA ProgressKeeps ==
  ASSUME RelayInv, NEW k \in Command, NEW phase,
         phase \in {"stopping", "launching", "done", "failed"},
         cmd[k].phase \notin {"unsent", "done"},
         Progress(k, phase), UNCHANGED <<active, browser, posts>>
  PROVE  RelayKeeps
<1>1. /\ cmd' \in [Command -> CommandState]
      /\ \A j \in Command \ {k} : cmd'[j] = cmd[j]
      /\ \A j \in Command : cmd[j].phase = "unsent" => cmd'[j].phase = "unsent"
  BY CommandProgresses DEF Progress
<1>2. Launched' = Launched
  BY DEF Launched
<1>3. active # None => active \in Command \ {k}
  BY DEF RelayInv, RecordIsLaunched
<1>4. BuffersAreOwn' /\ RecordIsOpen'
  BY <1>2 DEF RelayInv, BuffersAreOwn, RecordIsOpen
<1>5. RecordIsLaunched'
  BY <1>1, <1>2, <1>3 DEF RelayInv, RecordIsLaunched
<1>6. RelayInv'
  BY <1>1, <1>2, <1>4, <1>5 DEF RelayInv
<1> QED
  BY <1>1, <1>6, NothingForwarded DEF RelayKeeps

(* The browser on record is stopped and off the record. *)
LEMMA StopActiveKeeps ==
  ASSUME RelayInv, NEW k \in Command, cmd[k].phase = "sent", active # None,
         StopActive(k), UNCHANGED posts
  PROVE  RelayKeeps
<1> DEFINE b == [browser[active] EXCEPT !.phase = "stopping",
                   !.flush = @ \cup browser[active].timers, !.timers = {}]
<1>1. /\ active \in Launched /\ active \in Command /\ browser[active] # NoBrowser
  BY RecordKept DEF Launched
<1>2. /\ OfStart(active) /\ browser[active] \in Browser /\ OwnTurns(browser[active])
      /\ Len(browser[active].pending) <= PendingCap
  BY <1>1, LaunchedBrowser
<1>3. /\ b \in Browser
      /\ b.session = browser[active].session /\ b.pending = browser[active].pending
      /\ b.timers = {} /\ b.flush = browser[active].flush \cup browser[active].timers
      /\ b.forwarded = browser[active].forwarded
  BY <1>2 DEF Browser
<1>4. browser' = [browser EXCEPT ![active] = b]
  BY DEF StopActive
<1> HIDE DEF b
<1>5. OwnTurns(b)
  BY <1>2, <1>3 DEF OwnTurns
<1>6. /\ browser' \in [Command -> Browser \cup {NoBrowser}]
      /\ \A j \in Launched' : Len(browser'[j].pending) <= PendingCap
      /\ BuffersAreOwn'
      /\ \A j \in Launched' : OfStart(j)
  BY <1>1, <1>2, <1>3, <1>4, <1>5, BrowserChanges
<1>7. /\ cmd' \in [Command -> CommandState]
      /\ \A j \in Command : cmd[j].phase = "unsent" => cmd'[j].phase = "unsent"
  BY <1>1, CommandProgresses DEF StopActive
<1>8. active' = None
  BY DEF StopActive
<1>9. RecordIsLaunched' /\ RecordIsOpen'
  BY <1>6, <1>8 DEF RecordIsLaunched, RecordIsOpen, OfStart
<1>10. RelayInv'
  BY <1>6, <1>7, <1>8, <1>9 DEF RelayInv
<1> QED
  BY <1>7, <1>10, NothingForwarded DEF RelayKeeps

(* A command that is not over launches its browser. *)
LEMMA LaunchKeeps ==
  ASSUME RelayInv, NEW k \in Command, OfStart(k), NEW s \in Binding,
         cmd[k].phase \in {"sent", "stopping"},
         Launch(k, s), UNCHANGED <<active, posts>>
  PROVE  RelayKeeps
<1> DEFINE b == [phase |-> "launching", session |-> s, pending |-> <<>>,
                 timers |-> {}, flush |-> {}, forwarded |-> {}]
<1>1. <<>> \in Seq(Message) /\ Len(<<>>) = 0
  OBVIOUS
<1>2. b \in Browser /\ OwnTurns(b) /\ Len(b.pending) <= PendingCap
  BY <1>1 DEF Browser, OwnTurns
<1>3. browser' = [browser EXCEPT ![k] = b]
  BY DEF Launch
<1> HIDE DEF b
<1>4. /\ browser' \in [Command -> Browser \cup {NoBrowser}]
      /\ \A j \in Launched' : Len(browser'[j].pending) <= PendingCap
      /\ BuffersAreOwn'
      /\ \A j \in Launched' : OfStart(j)
      /\ Launched \subseteq Launched'
      /\ \A j \in Command \ {k} : browser'[j] = browser[j]
  BY <1>2, <1>3, BrowserChanges
<1>5. /\ cmd' \in [Command -> CommandState]
      /\ \A j \in Command \ {k} : cmd'[j] = cmd[j]
      /\ \A j \in Command : cmd[j].phase = "unsent" => cmd'[j].phase = "unsent"
  BY CommandProgresses DEF Launch, Progress
<1>6. active # None => active \in Launched /\ active \in Command \ {k} /\ cmd[active].phase = "done"
  BY RecordKept
<1>7. RecordIsLaunched' /\ RecordIsOpen'
  BY <1>4, <1>5, <1>6, RecordKept DEF RecordIsLaunched, RecordIsOpen, OfStart
<1>8. RelayInv'
  BY <1>4, <1>5, <1>7 DEF RelayInv
<1> QED
  BY <1>5, <1>8, NothingForwarded DEF RelayKeeps

(* The browser on record is bound to its session. *)
LEMMA BindKeeps ==
  ASSUME RelayInv, NEW k \in Command, OfStart(k), NEW s \in Binding,
         cmd[k].phase = "sent", Progress(k, "done"), UNCHANGED active,
         active # None, browser[active].session = PENDING_AGENT,
         browser' = [browser EXCEPT ![active] = Bound(active, browser[active], s).b],
         posts' = posts \cup Bound(active, browser[active], s).out
  PROVE  RelayKeeps
<1> DEFINE r == Bound(active, browser[active], s)
<1>1. /\ active \in Launched /\ active \in Command /\ browser[active] # NoBrowser
      /\ cmd[active].phase = "done" /\ browser[active].phase \in {"listening", "deaf"}
  BY RecordKept DEF Launched
<1>2. /\ OfStart(active) /\ browser[active] \in Browser /\ OwnTurns(browser[active])
  BY <1>1, LaunchedBrowser
<1>3. /\ r.b \in Browser /\ r.out \in SUBSET Post
      /\ OwnTurns(r.b)
      /\ r.b.phase = browser[active].phase /\ r.b.pending = <<>>
      /\ \A p \in r.out : p.from = active
  BY <1>1, <1>2, BoundStep
<1>3a. Len(r.b.pending) <= PendingCap
  <2>1. Len(<<>>) = 0
    OBVIOUS
  <2> QED
    BY <1>3, <2>1
<1> HIDE DEF r
<1>4. /\ browser' \in [Command -> Browser \cup {NoBrowser}]
      /\ \A j \in Launched' : Len(browser'[j].pending) <= PendingCap
      /\ BuffersAreOwn'
      /\ \A j \in Launched' : OfStart(j)
      /\ Launched \subseteq Launched'
      /\ browser'[active] = r.b
  BY <1>1, <1>2, <1>3, <1>3a, BrowserChanges DEF r
<1>5. /\ cmd' \in [Command -> CommandState]
      /\ \A j \in Command \ {k} : cmd'[j] = cmd[j]
      /\ \A j \in Command : cmd[j].phase = "unsent" => cmd'[j].phase = "unsent"
  BY CommandProgresses DEF Progress
<1>6. RecordIsLaunched' /\ RecordIsOpen'
  BY <1>1, <1>3, <1>4, <1>5 DEF RecordIsLaunched, RecordIsOpen, OfStart
<1>7. posts' \subseteq Post
  BY <1>3 DEF RelayInv, r
<1>8. RelayInv'
  BY <1>4, <1>5, <1>6, <1>7 DEF RelayInv
<1>9. \A p \in posts' \ posts : p.from = active
  BY <1>3 DEF r
<1>10. browser[active].forwarded = {}
  BY <1>2 DEF OwnTurns
<1>11. ForwardedOnce
  BY <1>9, <1>10 DEF ForwardedOnce
<1> QED
  BY <1>5, <1>8, <1>11 DEF RelayKeeps

(* A step of one browser that leaves the commands and the record alone. *)
LEMMA BrowserStepKeeps ==
  ASSUME RelayInv, NEW k \in Command, browser[k] # NoBrowser, NEW b \in Browser,
         OwnTurns(b), Len(b.pending) <= PendingCap,
         active = k => b.phase \in {"listening", "deaf"},
         browser' = [browser EXCEPT ![k] = b],
         UNCHANGED <<cmd, active>>, posts' \subseteq Post, ForwardedOnce
  PROVE  RelayKeeps
<1>1. OfStart(k)
  BY LaunchedBrowser
<1>2. /\ browser' \in [Command -> Browser \cup {NoBrowser}]
      /\ \A j \in Launched' : Len(browser'[j].pending) <= PendingCap
      /\ BuffersAreOwn'
      /\ \A j \in Launched' : OfStart(j)
      /\ Launched \subseteq Launched'
      /\ browser'[k] = b /\ \A j \in Command \ {k} : browser'[j] = browser[j]
  BY <1>1, BrowserChanges
<1>3. active # None =>
        /\ active \in Launched /\ active \in Command /\ cmd[active].phase = "done"
        /\ browser[active].phase \in {"listening", "deaf"}
  BY RecordKept
<1>4. RecordIsLaunched'
  BY <1>2, <1>3 DEF RecordIsLaunched, OfStart
<1>5. RecordIsOpen'
  BY <1>2, <1>3 DEF RecordIsOpen
<1>6. RelayInv'
  BY <1>2, <1>4, <1>5 DEF RelayInv
<1> QED
  BY <1>6 DEF RelayKeeps

(* Of a browser only the phase changes. *)
LEMMA PhaseStepKeeps ==
  ASSUME RelayInv, NEW k \in Command, browser[k] # NoBrowser, NEW phase,
         phase \in {"launching", "listening", "deaf", "stopping", "closed"},
         active # k, browser' = [browser EXCEPT ![k].phase = phase],
         UNCHANGED <<cmd, active, posts>>
  PROVE  RelayKeeps
<1> DEFINE b == [browser[k] EXCEPT !.phase = phase]
<1>1. /\ browser[k] \in Browser /\ OwnTurns(browser[k])
      /\ Len(browser[k].pending) <= PendingCap
  BY LaunchedBrowser
<1>2. /\ b \in Browser /\ OwnTurns(b) /\ Len(b.pending) <= PendingCap
  BY <1>1 DEF Browser, OwnTurns
<1>3. browser' = [browser EXCEPT ![k] = b]
  OBVIOUS
<1> HIDE DEF b
<1>4. posts' \subseteq Post
  BY DEF RelayInv
<1> QED
  BY <1>2, <1>3, <1>4, BrowserStepKeeps, NothingForwarded

(* A page that has subscribed, or could not, buffers nothing yet. *)
LEMMA SubscribeKeeps ==
  ASSUME RelayInv, NEW k \in Command, Subscribe(k) \/ SubscribeFails(k)
  PROVE  RelayKeeps
<1>1. browser[k].phase = "launching" /\ browser[k] # NoBrowser
  BY DEF Subscribe, SubscribeFails, NoBrowser
<1>2. active # k
  <2>1. k # None
    OBVIOUS
  <2> QED
    BY <1>1, <2>1, RecordKept
<1> QED
  BY <1>1, <1>2, PhaseStepKeeps DEF Subscribe, SubscribeFails

(* A stopped page closes; it is not the one on record. *)
LEMMA CloseBrowserKeeps ==
  ASSUME RelayInv, NEW k \in Command, CloseBrowser(k)
  PROVE  RelayKeeps
<1>1. browser[k].phase = "stopping" /\ browser[k] # NoBrowser
  BY DEF CloseBrowser, NoBrowser
<1>2. active # k
  <2>1. k # None
    OBVIOUS
  <2> QED
    BY <1>1, <2>1, RecordKept
<1> QED
  BY <1>1, <1>2, PhaseStepKeeps DEF CloseBrowser

(* A launched browser goes on record open. *)
LEMMA LaunchDoneKeeps ==
  ASSUME RelayInv, NEW k \in Command, LaunchDone(k)
  PROVE  RelayKeeps
<1>1. browser[k].phase \in {"listening", "deaf"} /\ browser[k] # NoBrowser
  BY DEF LaunchDone, NoBrowser
<1>2. k \in Launched
  BY <1>1, LaunchedBrowser
<1>3. /\ cmd' \in [Command -> CommandState] /\ cmd'[k].phase = "done"
      /\ \A j \in Command : cmd[j].phase = "unsent" => cmd'[j].phase = "unsent"
  BY CommandProgresses DEF LaunchDone, Progress
<1>4. Launched' = Launched /\ active' = k /\ browser' = browser /\ posts' = posts
  BY DEF LaunchDone, Launched
<1>5. BuffersAreOwn'
  BY <1>4 DEF RelayInv, BuffersAreOwn
<1>6. RecordIsLaunched' /\ RecordIsOpen'
  BY <1>1, <1>2, <1>3, <1>4 DEF RelayInv, RecordIsLaunched, RecordIsOpen
<1>7. RelayInv'
  BY <1>3, <1>4, <1>5, <1>6 DEF RelayInv
<1> QED
  BY <1>3, <1>4, <1>7, NothingForwarded DEF RelayKeeps

(* A failed launch leaves the record as it was. *)
LEMMA LaunchFailsKeeps ==
  ASSUME RelayInv, NEW k \in Launched, LaunchFails(k)
  PROVE  RelayKeeps
<1> DEFINE b == [browser[k] EXCEPT !.phase = "closed"]
<1>0. k \in Command /\ browser[k] # NoBrowser
  BY DEF Launched
<1>1. /\ browser[k] \in Browser /\ OwnTurns(browser[k]) /\ OfStart(k)
      /\ Len(browser[k].pending) <= PendingCap
  BY <1>0, LaunchedBrowser
<1>2. /\ b \in Browser /\ OwnTurns(b) /\ Len(b.pending) <= PendingCap
  BY <1>1 DEF Browser, OwnTurns
<1>3. browser' = [browser EXCEPT ![k] = b]
  BY DEF LaunchFails
<1> HIDE DEF b
<1>4. /\ browser' \in [Command -> Browser \cup {NoBrowser}]
      /\ \A j \in Launched' : Len(browser'[j].pending) <= PendingCap
      /\ BuffersAreOwn'
      /\ \A j \in Launched' : OfStart(j)
      /\ Launched \subseteq Launched'
      /\ \A j \in Command \ {k} : browser'[j] = browser[j]
  BY <1>0, <1>1, <1>2, <1>3, BrowserChanges
<1>5. /\ cmd' \in [Command -> CommandState]
      /\ \A j \in Command \ {k} : cmd'[j] = cmd[j]
      /\ \A j \in Command : cmd[j].phase = "unsent" => cmd'[j].phase = "unsent"
  BY <1>0, CommandProgresses DEF LaunchFails, Progress
<1>6. active' = active /\ posts' = posts /\ cmd[k].phase = "launching"
  BY DEF LaunchFails
<1>7. active # None =>
        /\ active \in Launched /\ active \in Command \ {k} /\ cmd[active].phase = "done"
        /\ browser[active].phase \in {"listening", "deaf"}
  BY <1>6, RecordKept
<1>8. RecordIsLaunched' /\ RecordIsOpen'
  BY <1>4, <1>5, <1>6, <1>7 DEF RecordIsLaunched, RecordIsOpen, OfStart
<1>9. RelayInv'
  BY <1>4, <1>5, <1>6, <1>8 DEF RelayInv
<1> QED
  BY <1>5, <1>6, <1>9, NothingForwarded DEF RelayKeeps

(* A turn leaves the buffer by the timer or the flush: once. *)
LEMMA BufferLetsGo ==
  ASSUME RelayInv, NEW k \in Command, browser[k] # NoBrowser,
         NEW u \in browser[k].timers \cup browser[k].flush, NEW awaited \in BOOLEAN,
         posts' = IF u.event \in browser[k].forwarded THEN posts
                  ELSE posts \cup {PostOf(k, u, awaited)}
  PROVE  posts' \subseteq Post /\ ForwardedOnce
<1>1. browser[k] \in Browser /\ OwnTurns(browser[k])
  BY LaunchedBrowser
<1>2. u \in Turn /\ AssistantEvent(u.event, browser[k].session)
  BY <1>1 DEF Browser, OwnTurns
<1> DEFINE p == PostOf(k, u, awaited)
<1>3. p \in Post /\ p.from = k /\ p.turn = u
  BY <1>2 DEF Post, PostOf
<1> HIDE DEF p
<1>4. posts' = IF u.event \in browser[k].forwarded THEN posts ELSE posts \cup {p}
  BY DEF p
<1>5. posts' \subseteq Post
  BY <1>3, <1>4 DEF RelayInv
<1>6. CASE u.event \in browser[k].forwarded
  BY <1>4, <1>5, <1>6, NothingForwarded
<1>7. CASE u.event \notin browser[k].forwarded
  <2>1. \A f \in browser[k].forwarded : f.turn # u.event.turn
    BY <1>1, <1>2, <1>7, OwnEventsDiffer
  <2>2. \A q \in posts' \ posts : q = p
    BY <1>4, <1>7
  <2> QED
    BY <1>3, <1>5, <2>1, <2>2 DEF ForwardedOnce
<1> QED
  BY <1>6, <1>7

(* The flush of a stop posts turns of the browser's own session. *)
LEMMA FlushNextKeeps ==
  ASSUME RelayInv, NEW k \in Command, FlushNext(k)
  PROVE  RelayKeeps
<1>1. browser[k] # NoBrowser
  BY DEF FlushNext
<1>2. PICK u \in browser[k].flush :
        /\ browser' = [browser EXCEPT ![k].flush = @ \ {u}, ![k].forwarded = @ \cup {u.event}]
        /\ posts' = IF u.event \in browser[k].forwarded THEN posts
                    ELSE posts \cup {PostOf(k, u, TRUE)}
  BY DEF FlushNext
<1> DEFINE b == [browser[k] EXCEPT !.flush = @ \ {u}, !.forwarded = @ \cup {u.event}]
<1>3. browser[k] \in Browser /\ OwnTurns(browser[k]) /\ Len(browser[k].pending) <= PendingCap
  BY <1>1, LaunchedBrowser
<1>4. AssistantEvent(u.event, browser[k].session) /\ u.event \in EventId
  BY <1>3 DEF OwnTurns, AssistantEvent
<1>5. /\ b \in Browser
      /\ b.phase = browser[k].phase /\ b.session = browser[k].session
      /\ b.pending = browser[k].pending /\ b.timers = browser[k].timers
      /\ b.flush = browser[k].flush \ {u}
      /\ b.forwarded = browser[k].forwarded \cup {u.event}
  BY <1>3, <1>4 DEF Browser
<1>6. browser' = [browser EXCEPT ![k] = b]
  BY <1>2
<1> HIDE DEF b
<1>7. OwnTurns(b) /\ Len(b.pending) <= PendingCap
  BY <1>3, <1>4, <1>5 DEF OwnTurns
<1>8. posts' \subseteq Post /\ ForwardedOnce
  BY <1>1, <1>2, BufferLetsGo
<1>9. active = k => b.phase \in {"listening", "deaf"}
  <2>1. k # None
    OBVIOUS
  <2> QED
    BY <1>5, <2>1, RecordKept
<1>10. UNCHANGED <<cmd, active>>
  BY DEF FlushNext
<1> QED
  BY <1>1, <1>5, <1>6, <1>7, <1>8, <1>9, <1>10, BrowserStepKeeps

(* The quiet window posts a turn that was waiting, and forgets it. *)
LEMMA TimerFiresKeeps ==
  ASSUME RelayInv, NEW k \in Command, TimerFires(k)
  PROVE  RelayKeeps
<1>1. browser[k] # NoBrowser
  BY DEF TimerFires
<1>2. PICK u \in browser[k].timers :
        /\ browser' = [browser EXCEPT ![k].timers = @ \ {u}, ![k].forwarded = @ \cup {u.event}]
        /\ posts' = IF u.event \in browser[k].forwarded THEN posts
                    ELSE posts \cup {PostOf(k, u, FALSE)}
  BY DEF TimerFires
<1> DEFINE b == [browser[k] EXCEPT !.timers = @ \ {u}, !.forwarded = @ \cup {u.event}]
<1>3. browser[k] \in Browser /\ OwnTurns(browser[k]) /\ Len(browser[k].pending) <= PendingCap
  BY <1>1, LaunchedBrowser
<1>4. AssistantEvent(u.event, browser[k].session) /\ u.event \in EventId
  BY <1>3 DEF OwnTurns, AssistantEvent
<1>5. /\ b \in Browser
      /\ b.phase = browser[k].phase /\ b.session = browser[k].session
      /\ b.pending = browser[k].pending /\ b.flush = browser[k].flush
      /\ b.timers = browser[k].timers \ {u}
      /\ b.forwarded = browser[k].forwarded \cup {u.event}
  BY <1>3, <1>4 DEF Browser
<1>6. browser' = [browser EXCEPT ![k] = b]
  BY <1>2
<1> HIDE DEF b
<1>7. OwnTurns(b) /\ Len(b.pending) <= PendingCap
  BY <1>3, <1>4, <1>5 DEF OwnTurns
<1>8. posts' \subseteq Post /\ ForwardedOnce
  BY <1>1, <1>2, BufferLetsGo
<1>9. active = k => b.phase \in {"listening", "deaf"}
  <2>1. k # None
    OBVIOUS
  <2> QED
    BY <1>5, <2>1, RecordKept
<1>10. UNCHANGED <<cmd, active>>
  BY DEF TimerFires
<1> QED
  BY <1>1, <1>5, <1>6, <1>7, <1>8, <1>9, <1>10, BrowserStepKeeps

(* A start binds the waiting browser or launches one of its own. *)
LEMMA HandleStartKeeps ==
  ASSUME RelayInv, NEW k \in Command, OfStart(k), NEW s \in Binding, HandleStart(k, s)
  PROVE  RelayKeeps
<1>1. cmd[k].phase = "sent"
  BY DEF HandleStart
<1>2. CASE /\ Progress(k, "done")
           /\ UNCHANGED <<active, browser, posts>>
  BY <1>1, <1>2, ProgressKeeps
<1>3. CASE /\ active # None /\ browser[active].session = PENDING_AGENT
           /\ LET bound == Bound(active, browser[active], s)
              IN  /\ browser' = [browser EXCEPT ![active] = bound.b]
                  /\ posts' = posts \cup bound.out
           /\ Progress(k, "done")
           /\ UNCHANGED active
  BY <1>1, <1>3, BindKeeps
<1>4. CASE active # None /\ StopActive(k) /\ UNCHANGED posts
  BY <1>1, <1>4, StopActiveKeeps
<1>5. CASE Launch(k, s) /\ UNCHANGED <<active, posts>>
  BY <1>1, <1>5, LaunchKeeps
<1> QED
  BY <1>2, <1>3, <1>4, <1>5 DEF HandleStart

(* A stop takes the browser it found off the record. *)
LEMMA HandleStopKeeps ==
  ASSUME RelayInv, NEW k \in Command, HandleStop(k)
  PROVE  RelayKeeps
<1>1. cmd[k].phase = "sent" /\ UNCHANGED posts
  BY DEF HandleStop
<1>2. CASE Progress(k, "done") /\ UNCHANGED <<active, browser>>
  BY <1>1, <1>2, ProgressKeeps
<1>3. CASE active # None /\ StopActive(k)
  BY <1>1, <1>3, StopActiveKeeps
<1> QED
  BY <1>2, <1>3 DEF HandleStop

(* The end of a stop. *)
LEMMA StopDoneKeeps ==
  ASSUME RelayInv, NEW k \in Command, StopDone(k)
  PROVE  RelayKeeps
BY ProgressKeeps DEF StopDone

(* A replacement launches once the old browser has been stopped. *)
LEMMA LaunchAfterStopKeeps ==
  ASSUME RelayInv, NEW k \in Command, OfStart(k), NEW s \in Binding, LaunchAfterStop(k, s)
  PROVE  RelayKeeps
BY LaunchKeeps DEF LaunchAfterStop

(* A message reaches one browser. *)
LEMMA ReceivedStep ==
  ASSUME NEW k \in Command, NEW b \in Browser, OwnTurns(b), Len(b.pending) <= PendingCap,
         NEW m \in Message
  PROVE  LET r == Received(k, b, m)
         IN  /\ r.b \in Browser /\ OwnTurns(r.b) /\ Len(r.b.pending) <= PendingCap
             /\ r.b.phase = b.phase
             /\ r.out \in SUBSET Post
             /\ \A p \in r.out :
                  /\ p.from = k
                  /\ p.turn.event.object = "assistant" =>
                       AssistantEvent(p.turn.event, b.session) /\ p.turn.event \notin b.forwarded
<1>1. CASE b.session = PENDING_AGENT
  <2> DEFINE kept == IF Len(b.pending) < PendingCap THEN Append(b.pending, m) ELSE b.pending
             c == [b EXCEPT !.pending = kept]
  <2>1. b.pending \in Seq(Message) /\ Len(b.pending) \in Nat
    BY DEF Browser
  <2>2. kept \in Seq(Message) /\ Len(kept) <= PendingCap
    <3>1. CASE Len(b.pending) < PendingCap
      <4>1. kept = Append(b.pending, m)
        BY <3>1
      <4>2. Append(b.pending, m) \in Seq(Message) /\ Len(Append(b.pending, m)) = Len(b.pending) + 1
        BY <2>1
      <4> QED
        BY <2>1, <3>1, <4>1, <4>2
    <3>2. CASE ~(Len(b.pending) < PendingCap)
      BY <2>1, <3>2
    <3> QED
      BY <3>1, <3>2
  <2>3. Received(k, b, m) = [b |-> c, out |-> {}]
    BY <1>1 DEF Received
  <2> HIDE DEF kept
  <2>4. /\ c \in Browser /\ c.phase = b.phase /\ c.pending = kept /\ c.session = b.session
        /\ c.timers = b.timers /\ c.flush = b.flush /\ c.forwarded = b.forwarded
    BY <2>2 DEF Browser
  <2> HIDE DEF c
  <2>5. OwnTurns(c)
    BY <2>4 DEF OwnTurns
  <2> QED
    BY <2>2, <2>3, <2>4, <2>5
<1>2. CASE b.session # PENDING_AGENT
  <2>1. Received(k, b, m) = Handled(k, [b |-> b, out |-> {}], m)
    BY <1>2 DEF Received
  <2>2. PICK none \in SUBSET Post : none = {}
    OBVIOUS
  <2> DEFINE r == Handled(k, [b |-> b, out |-> none], m)
  <2>3. /\ r = [b |-> r.b, out |-> r.out] /\ r.b \in Browser /\ r.out \in SUBSET Post
        /\ OwnTurns(r.b)
        /\ r.b.phase = b.phase /\ r.b.session = b.session /\ r.b.pending = b.pending
        /\ \A p \in r.out \ none :
             /\ p.from = k
             /\ p.turn.event.object = "assistant" =>
                  AssistantEvent(p.turn.event, b.session) /\ p.turn.event \notin b.forwarded
    BY HandledStep
  <2> HIDE DEF r
  <2>4. Received(k, b, m) = r
    BY <2>1, <2>2 DEF r
  <2> QED
    BY <2>2, <2>3, <2>4
<1> QED
  BY <1>1, <1>2

(* A message in all the pages that listen. *)
LEMMA HearKeeps ==
  ASSUME RelayInv, NEW m \in Message, Hear(m)
  PROVE  RelayKeeps
<1> DEFINE L == {j \in Launched : Listening(j)}
           heard == [k \in L |-> Received(k, browser[k], m)]
<1>1. /\ browser' = [k \in Command |-> IF k \in L THEN heard[k].b ELSE browser[k]]
      /\ posts' = posts \cup UNION {heard[k].out : k \in L}
      /\ UNCHANGED <<cmd, active>>
  BY DEF Hear
<1>2. L \subseteq Launched /\ Launched \subseteq Command
  BY DEF Launched
<1> HIDE DEF L
<1>3. ASSUME NEW k \in L
      PROVE  /\ heard[k].b \in Browser /\ OwnTurns(heard[k].b)
             /\ Len(heard[k].b.pending) <= PendingCap
             /\ heard[k].b.phase = browser[k].phase
             /\ heard[k].out \in SUBSET Post
             /\ \A p \in heard[k].out :
                  /\ p.from = k
                  /\ p.turn.event.object = "assistant" =>
                       /\ AssistantEvent(p.turn.event, browser[k].session)
                       /\ p.turn.event \notin browser[k].forwarded
             /\ OwnTurns(browser[k]) /\ browser[k] # NoBrowser
  <2>1. k \in Command /\ browser[k] # NoBrowser
    BY <1>2 DEF Launched
  <2>2. browser[k] \in Browser /\ OwnTurns(browser[k]) /\ Len(browser[k].pending) <= PendingCap
    BY <2>1, LaunchedBrowser
  <2>3. heard[k] = Received(k, browser[k], m)
    OBVIOUS
  <2> HIDE DEF heard
  <2> QED
    BY <2>1, <2>2, <2>3, ReceivedStep
<1> HIDE DEF heard
<1>4. browser' \in [Command -> Browser \cup {NoBrowser}]
  BY <1>1, <1>3 DEF RelayInv
<1>5. NoBrowser \notin Browser
  BY DEF Browser, NoBrowser
<1>6. \A k \in Command : browser'[k] = IF k \in L THEN heard[k].b ELSE browser[k]
  BY <1>1
<1>7. \A k \in Command : browser'[k] # NoBrowser <=> browser[k] # NoBrowser
  BY <1>3, <1>5, <1>6
<1>8. Launched' = Launched
  BY <1>7 DEF Launched
<1>9. \A k \in Launched' : Len(browser'[k].pending) <= PendingCap /\ OwnTurns(browser'[k])
  BY <1>2, <1>3, <1>6, <1>8 DEF RelayInv, BuffersAreOwn
<1>10. posts' \subseteq Post
  BY <1>1, <1>3 DEF RelayInv
<1>11. active # None => browser'[active].phase = browser[active].phase /\ active \in Launched
  BY <1>3, <1>6, RecordKept
<1>12. RecordIsLaunched' /\ RecordIsOpen'
  BY <1>1, <1>8, <1>11, RecordKept DEF RelayInv, RecordIsLaunched, RecordIsOpen
<1>13. RelayInv'
  BY <1>1, <1>4, <1>9, <1>10, <1>12 DEF RelayInv, BuffersAreOwn
<1>14. ASSUME NEW p \in posts' \ posts, p.turn.event.object = "assistant",
              NEW e \in browser[p.from].forwarded
       PROVE  e.turn # p.turn.event.turn
  <2>1. PICK k \in L : p \in heard[k].out
    BY <1>1, <1>14
  <2>2. /\ p.from = k
        /\ AssistantEvent(p.turn.event, browser[k].session)
        /\ p.turn.event \notin browser[k].forwarded
        /\ OwnTurns(browser[k])
    BY <1>3, <1>14, <2>1
  <2> QED
    BY <1>14, <2>2, OwnEventsDiffer
<1>15. ForwardedOnce
  BY <1>14 DEF ForwardedOnce
<1> QED
  BY <1>1, <1>13, <1>15 DEF RelayKeeps

(* The answer to a post. *)
LEMMA AnsweredKeeps ==
  ASSUME RelayInv, NEW p \in posts, NEW ok \in BOOLEAN, Answered(p, ok)
  PROVE  RelayKeeps
<1>1. UNCHANGED <<cmd, active>> /\ posts' \subseteq posts
  BY DEF Answered
<1>2. ForwardedOnce
  BY <1>1, NothingForwarded
<1>3. CASE browser' = browser
  <2>1. Launched' = Launched
    BY <1>3 DEF Launched
  <2>2. RelayInv'
    BY <1>1, <1>3, <2>1 DEF RelayInv, BuffersAreOwn, RecordIsLaunched, RecordIsOpen
  <2> QED
    BY <1>1, <1>2, <2>2 DEF RelayKeeps
<1>4. CASE browser' = [browser EXCEPT ![p.from].flush = {}]
  <2> DEFINE k == p.from
             b == [browser[k] EXCEPT !.flush = {}]
  <2>1. k \in Command
    BY DEF RelayInv, Post
  <2>2. CASE browser[k] = NoBrowser
    <3>1. [NoBrowser EXCEPT !.flush = {}] = NoBrowser
      BY DEF NoBrowser
    <3>2. browser' = browser
      BY <1>4, <2>1, <2>2, <3>1 DEF RelayInv
    <3> QED
      BY <1>3, <3>2
  <2>3. CASE browser[k] # NoBrowser
    <3>1. browser[k] \in Browser /\ OwnTurns(browser[k]) /\ Len(browser[k].pending) <= PendingCap
      BY <2>1, <2>3, LaunchedBrowser
    <3>2. b \in Browser /\ OwnTurns(b) /\ Len(b.pending) <= PendingCap /\ b.phase = browser[k].phase
      BY <3>1 DEF Browser, OwnTurns
    <3>3. browser' = [browser EXCEPT ![k] = b]
      BY <1>4
    <3> HIDE DEF b
    <3>4. active = k => b.phase \in {"listening", "deaf"}
      <4>1. k # None
        BY <2>1
      <4> QED
        BY <3>2, <4>1, RecordKept
    <3>5. posts' \subseteq Post
      BY <1>1 DEF RelayInv
    <3> QED
      BY <1>1, <1>2, <2>1, <2>3, <3>2, <3>3, <3>4, <3>5, BrowserStepKeeps
  <2> QED
    BY <2>2, <2>3
<1> QED
  BY <1>3, <1>4 DEF Answered
-----------------------------------------------------------------------------
(***************************************************************************)
(* The API                                                                 *)
(***************************************************************************)
ApiTypes ==
  /\ call \in {"CREATED", "ACTIVE", "ENDED", "CANCELLED"}
  /\ runtime \in RuntimeEntry
  /\ known \subseteq Session /\ agents \subseteq Session /\ said \subseteq Message
  /\ req \in [Client -> Request \cup {Idle}]
  /\ faults \in 0 .. MaxFaults

ApiInv == CommandsInOrder /\ AgentsOfRequests /\ ConnectedAgentCanBeStopped

(* The invariant is one of the relay and one of the API ... *)
LEMMA SessionInvParts == SessionInv <=> RelayInv /\ ApiTypes /\ ApiInv
BY DEF SessionInv, TypeOK, RelayInv, ApiTypes, ApiInv

(* ... after the step as before it. *)
LEMMA SessionInvPartsNext == SessionInv' <=> RelayInv' /\ ApiTypes' /\ ApiInv'
BY DEF SessionInv, TypeOK, RelayInv, ApiTypes, ApiInv

(* A step of the relay alone, or with an answer about a turn. *)
LEMMA RelayStepKeeps ==
  ASSUME SessionInv, RelayKeeps, ApiTypes', UNCHANGED <<runtime, known, req>>
  PROVE  SessionInv' /\ ForwardedOnce
<1>1. RelayInv' /\ ForwardedOnce
  BY DEF RelayKeeps
<1>2. CommandsInOrder'
  <2>1. CommandsInOrder
    BY DEF SessionInv
  <2>2. \A c \in Starter : <<c, "open">> \in Command /\ <<c, "bind">> \in Command
    OBVIOUS
  <2> QED
    BY <2>1, <2>2 DEF CommandsInOrder, RelayKeeps
<1>3. AgentsOfRequests' /\ ConnectedAgentCanBeStopped'
  BY DEF SessionInv, AgentsOfRequests, BeingBoundIsKnown, BoundIsSettled, ReadIsSettled,
         NoLeaveUnderWay, ConnectedAgentCanBeStopped
<1> QED
  BY <1>1, <1>2, <1>3, SessionInvPartsNext DEF ApiInv

(* A request is sent to the relay that has not been, or that closes. *)
LEMMA SendKeeps ==
  ASSUME RelayInv, NEW c \in Client, NEW kind, <<c, kind>> \in Command,
         kind = "close" \/ cmd[<<c, kind>>].phase = "unsent",
         Send(c, kind), UNCHANGED browserVars
  PROVE  /\ RelayInv' /\ ForwardedOnce
         /\ \A k \in Command \ {<<c, kind>>} : cmd'[k] = cmd[k]
<1> DEFINE k == <<c, kind>>
           r == [cmd[k] EXCEPT !.phase = "sent"]
<1>1. cmd[k] \in CommandState
  BY DEF RelayInv
<1>2. r \in CommandState
  BY <1>1 DEF CommandState
<1>3. cmd' = [cmd EXCEPT ![k] = r]
  BY DEF Send
<1> HIDE DEF r
<1>4. /\ cmd' \in [Command -> CommandState]
      /\ \A j \in Command \ {k} : cmd'[j] = cmd[j]
  BY <1>2, <1>3 DEF RelayInv
<1>5. active # None => active \in Command \ {k} /\ active \in Launched /\ cmd[active].phase = "done"
  <2>1. ASSUME active = k, active # None
        PROVE  FALSE
    <3>1. active \in Launched /\ cmd[active].phase = "done"
      BY <2>1, RecordKept
    <3>2. PICK d \in Starter : active = <<d, "open">> \/ active = <<d, "bind">>
      BY <3>1 DEF RelayInv, RecordIsLaunched
    <3> QED
      BY <2>1, <3>1, <3>2
  <2> QED
    BY <2>1, RecordKept
<1>6. browser' = browser /\ active' = active /\ posts' = posts /\ Launched' = Launched
  BY DEF browserVars, Launched
<1>7. RecordIsLaunched'
  BY <1>4, <1>5, <1>6 DEF RelayInv, RecordIsLaunched
<1>8. BuffersAreOwn' /\ RecordIsOpen'
  BY <1>6 DEF RelayInv, BuffersAreOwn, RecordIsOpen
<1>9. RelayInv'
  BY <1>4, <1>6, <1>7, <1>8 DEF RelayInv
<1> QED
  BY <1>4, <1>6, <1>9, NothingForwarded

(* The relay is left alone. *)
LEMMA RelayUnchanged ==
  ASSUME RelayInv, UNCHANGED relayVars
  PROVE  RelayInv' /\ ForwardedOnce
<1>1. Launched' = Launched
  BY DEF Launched, relayVars
<1>2. ForwardedOnce
  BY NothingForwarded DEF relayVars
<1> QED
  BY <1>1, <1>2 DEF RelayInv, BuffersAreOwn, RecordIsLaunched, RecordIsOpen, relayVars

(* A request goes on. *)
LEMMA RequestGoesOn ==
  ASSUME req \in [Client -> Request \cup {Idle}], NEW c \in Client, req[c].pc # "idle",
         NEW pc, pc \in {"open", "join", "joined", "bind", "undoAgent", "undoRelay",
                        "closeRelay", "leave", "lookup", "end", "finish", "done"},
         Go(c, pc)
  PROVE  /\ req' \in [Client -> Request \cup {Idle}]
         /\ req[c] \in Request /\ req'[c] \in Request
         /\ req'[c].pc = pc /\ req'[c].was = req[c].was
         /\ \A d \in Client \ {c} : req'[d] = req[d]
<1> DEFINE r == [req[c] EXCEPT !.pc = pc]
<1>1. req[c] \in Request
  BY DEF Idle
<1>2. r \in Request /\ r.pc = pc /\ r.was = req[c].was
  BY <1>1 DEF Request
<1>3. req' = [req EXCEPT ![c] = r]
  BY DEF Go
<1> HIDE DEF r
<1> QED
  BY <1>1, <1>2, <1>3

(* A request begins. *)
LEMMA RequestBegins ==
  ASSUME req \in [Client -> Request \cup {Idle}], NEW c \in Client, req[c] = Idle,
         NEW pc, pc \in {"open", "closeRelay", "leave", "lookup", "done"},
         NEW was \in RuntimeEntry,
         req' = [req EXCEPT ![c] = [pc |-> pc, was |-> was, target |-> "ENDED"]]
  PROVE  /\ req' \in [Client -> Request \cup {Idle}]
         /\ req'[c].pc = pc /\ req'[c].was = was
         /\ \A d \in Client \ {c} : req'[d] = req[d]
<1>1. [pc |-> pc, was |-> was, target |-> "ENDED"] \in Request
  BY DEF Request
<1> QED
  BY <1>1

(* An agent that a request has to do with is that of another start, once   *)
(* it is settled. *)
LEMMA SettledAgents ==
  ASSUME SessionInv
  PROVE  /\ runtime.agent # None => runtime.agent \in Starter /\ req[runtime.agent].pc = "done"
         /\ \A x \in Stopper : req[x] # Idle /\ req[x].was.agent # None =>
              req[x].was.agent \in Starter /\ req[req[x].was.agent].pc = "done"
<1>1. /\ runtime \in RuntimeEntry /\ req \in [Client -> Request \cup {Idle}]
      /\ BoundIsSettled /\ ReadIsSettled
  BY DEF SessionInv, TypeOK, AgentsOfRequests
<1>2. runtime.agent \in Session \cup {None}
  BY <1>1 DEF RuntimeEntry
<1>3. \A x \in Stopper : req[x] # Idle => req[x].was.agent \in Session \cup {None}
  BY <1>1 DEF Request, RuntimeEntry, Client
<1> QED
  BY <1>1, <1>2, <1>3 DEF BoundIsSettled, ReadIsSettled

(* A start that is not over takes a step and leaves the entry alone. *)
LEMMA StartKeepsAgents ==
  ASSUME SessionInv, NEW c \in Starter, req[c].pc # "done",
         \A d \in Client \ {c} : req'[d] = req[d],
         req'[c].pc = "bind" => c \in known',
         runtime' = runtime, known \ {c} \subseteq known'
  PROVE  AgentsOfRequests' /\ ConnectedAgentCanBeStopped'
<1>1. \A x \in Stopper : x \in Client \ {c}
  BY DEF Client
<1>2. \A d \in Starter : d \in Client
  BY DEF Client
<1>3. BeingBoundIsKnown'
  BY <1>2 DEF SessionInv, AgentsOfRequests, BeingBoundIsKnown
<1>4. BoundIsSettled'
  BY <1>2, SettledAgents DEF BoundIsSettled
<1>5. ReadIsSettled'
  BY <1>1, <1>2, SettledAgents DEF ReadIsSettled
<1>6. NoLeaveUnderWay'
  BY <1>1 DEF SessionInv, AgentsOfRequests, NoLeaveUnderWay
<1>7. ConnectedAgentCanBeStopped'
  BY SettledAgents DEF SessionInv, AgentsOfRequests, NoLeaveUnderWay, ConnectedAgentCanBeStopped
<1> QED
  BY <1>3, <1>4, <1>5, <1>6, <1>7 DEF AgentsOfRequests

(* A start that is not over takes a step and the entry loses its agent. *)
LEMMA StartClearsEntry ==
  ASSUME SessionInv, NEW c \in Starter, req[c].pc # "done",
         \A d \in Client \ {c} : req'[d] = req[d], req'[c].pc # "bind",
         runtime'.agent = None, runtime'.status # "CONNECTED", known' = known
  PROVE  AgentsOfRequests' /\ ConnectedAgentCanBeStopped'
<1>1. \A x \in Stopper : x \in Client \ {c}
  BY DEF Client
<1>2. \A d \in Starter : d \in Client
  BY DEF Client
<1>3. BeingBoundIsKnown'
  BY <1>2 DEF SessionInv, AgentsOfRequests, BeingBoundIsKnown
<1>4. BoundIsSettled' /\ NoLeaveUnderWay' /\ ConnectedAgentCanBeStopped'
  BY DEF BoundIsSettled, NoLeaveUnderWay, ConnectedAgentCanBeStopped
<1>5. ReadIsSettled'
  BY <1>1, <1>2, SettledAgents DEF ReadIsSettled
<1> QED
  BY <1>3, <1>4, <1>5 DEF AgentsOfRequests

(* A start has sent, at most, the request that its progress shows. *)
LEMMA StartKeepsCommands ==
  ASSUME SessionInv, NEW c \in Starter,
         \A d \in Client \ {c} : req'[d] = req[d], req'[c].pc # "idle",
         \A d \in Starter \ {c} : /\ cmd'[<<d, "open">>] = cmd[<<d, "open">>]
                                 /\ cmd'[<<d, "bind">>] = cmd[<<d, "bind">>],
         req'[c].pc \in {"open", "join", "joined"} => cmd'[<<c, "bind">>].phase = "unsent"
  PROVE  CommandsInOrder'
BY DEF SessionInv, CommandsInOrder, Client

(* What an invariant step of the API comes to. *)
LEMMA ApiStepKeeps ==
  ASSUME RelayInv', ForwardedOnce, ApiTypes', CommandsInOrder',
         AgentsOfRequests' /\ ConnectedAgentCanBeStopped'
  PROVE  SessionInv' /\ ForwardedOnce
BY SessionInvPartsNext DEF ApiInv

(* A start that passes its guards. *)
LEMMA StartBeginKeeps ==
  ASSUME SessionInv, NEW c \in Starter, StartBegin(c)
  PROVE  SessionInv' /\ ForwardedOnce
<1>1. RelayInv /\ ApiTypes /\ ApiInv
  BY SessionInvParts
<1>2. c \in Client /\ req[c] = Idle /\ req[c].pc = "idle"
  BY DEF Client, StartBegin, Idle
<1>3. NoEntry \in RuntimeEntry
  BY DEF NoEntry, Entry, RuntimeEntry
<1>4. CASE /\ runtime' = Entry("STARTING", None, FALSE, FALSE)
           /\ Send(c, "open")
           /\ NewRequest(c, "open")
           /\ UNCHANGED browserVars
  <2>1. /\ req' \in [Client -> Request \cup {Idle}]
        /\ req'[c].pc = "open"
        /\ \A d \in Client \ {c} : req'[d] = req[d]
    BY <1>1, <1>2, <1>3, <1>4, RequestBegins DEF ApiTypes, NewRequest
  <2>2. cmd[<<c, "open">>].phase = "unsent" /\ cmd[<<c, "bind">>].phase = "unsent"
    BY <1>2 DEF SessionInv, CommandsInOrder
  <2>3. /\ RelayInv' /\ ForwardedOnce
        /\ \A k \in Command \ {<<c, "open">>} : cmd'[k] = cmd[k]
    BY <1>1, <1>2, <1>4, <2>2, SendKeeps
  <2>4. runtime' \in RuntimeEntry /\ runtime'.status = "STARTING" /\ runtime'.agent = None
    BY <1>4 DEF Entry, RuntimeEntry
  <2>5. ApiTypes'
    BY <1>1, <2>1, <2>4 DEF ApiTypes, StartBegin
  <2>6. AgentsOfRequests' /\ ConnectedAgentCanBeStopped'
    BY <1>2, <2>1, <2>4, StartClearsEntry DEF StartBegin
  <2>7. CommandsInOrder'
    <3>1. \A d \in Starter \ {c} : /\ cmd'[<<d, "open">>] = cmd[<<d, "open">>]
                                  /\ cmd'[<<d, "bind">>] = cmd[<<d, "bind">>]
      BY <2>3
    <3>2. cmd'[<<c, "bind">>] = cmd[<<c, "bind">>]
      BY <2>3
    <3> QED
      BY <2>1, <2>2, <3>1, <3>2, StartKeepsCommands
  <2> QED
    BY <2>3, <2>5, <2>6, <2>7, ApiStepKeeps
<1>5. CASE NewRequest(c, "done") /\ UNCHANGED <<relayVars, runtime>>
  <2>1. /\ req' \in [Client -> Request \cup {Idle}]
        /\ req'[c].pc = "done"
        /\ \A d \in Client \ {c} : req'[d] = req[d]
    BY <1>1, <1>2, <1>3, <1>5, RequestBegins DEF ApiTypes, NewRequest
  <2>2. RelayInv' /\ ForwardedOnce
    BY <1>1, <1>5, RelayUnchanged
  <2>3. ApiTypes'
    BY <1>1, <1>5, <2>1 DEF ApiTypes, StartBegin
  <2>4. AgentsOfRequests' /\ ConnectedAgentCanBeStopped'
    BY <1>2, <1>5, <2>1, StartKeepsAgents DEF StartBegin
  <2>5. CommandsInOrder'
    BY <1>5, <2>1, StartKeepsCommands DEF relayVars
  <2> QED
    BY <2>2, <2>3, <2>4, <2>5, ApiStepKeeps
<1> QED
  BY <1>4, <1>5 DEF StartBegin

(* A step of a start that sends nothing and leaves the entry alone. *)
LEMMA QuietStartKeeps ==
  ASSUME SessionInv, NEW c \in Starter, NEW pc,
         req[c].pc \notin {"idle", "done"},
         pc \in {"open", "join", "joined", "undoAgent", "undoRelay", "done"},
         pc \in {"open", "join", "joined"} => req[c].pc \in {"open", "join", "joined"},
         Go(c, pc), UNCHANGED <<relayVars, runtime, known, call, said>>, agents' \subseteq Session,
         faults' \in 0 .. MaxFaults
  PROVE  SessionInv' /\ ForwardedOnce
<1>1. RelayInv /\ ApiTypes /\ ApiInv
  BY SessionInvParts
<1>2. /\ req' \in [Client -> Request \cup {Idle}]
      /\ req'[c].pc = pc
      /\ \A d \in Client \ {c} : req'[d] = req[d]
  BY <1>1, RequestGoesOn DEF ApiTypes, Client
<1>3. RelayInv' /\ ForwardedOnce
  BY <1>1, RelayUnchanged
<1>4. ApiTypes'
  BY <1>1, <1>2 DEF ApiTypes
<1>5. AgentsOfRequests' /\ ConnectedAgentCanBeStopped'
  BY <1>2, StartKeepsAgents
<1>6. CommandsInOrder'
  <2>1. pc \in {"open", "join", "joined"} => cmd[<<c, "bind">>].phase = "unsent"
    BY DEF SessionInv, CommandsInOrder
  <2> QED
    BY <1>2, <2>1, StartKeepsCommands DEF relayVars
<1> QED
  BY <1>3, <1>4, <1>5, <1>6, ApiStepKeeps

(* A start fails: the entry is cleared. *)
LEMMA StartFailedKeeps ==
  ASSUME SessionInv, NEW c \in Starter, req[c].pc \notin {"idle", "done"}, StartFailed(c),
         UNCHANGED <<relayVars, call, known, agents, said>>, faults' \in 0 .. MaxFaults
  PROVE  SessionInv' /\ ForwardedOnce
<1>1. RelayInv /\ ApiTypes /\ ApiInv
  BY SessionInvParts
<1>2. /\ req' \in [Client -> Request \cup {Idle}]
      /\ req'[c].pc = "done"
      /\ \A d \in Client \ {c} : req'[d] = req[d]
  BY <1>1, RequestGoesOn DEF ApiTypes, Client, StartFailed
<1>3. RelayInv' /\ ForwardedOnce
  BY <1>1, RelayUnchanged
<1>4. runtime' \in RuntimeEntry /\ runtime'.status = "FAILED" /\ runtime'.agent = None
  BY DEF StartFailed, Entry, RuntimeEntry
<1>5. ApiTypes'
  BY <1>1, <1>2, <1>4 DEF ApiTypes
<1>6. AgentsOfRequests' /\ ConnectedAgentCanBeStopped'
  BY <1>2, <1>4, StartClearsEntry
<1>7. CommandsInOrder'
  BY <1>2, StartKeepsCommands DEF relayVars
<1> QED
  BY <1>3, <1>5, <1>6, <1>7, ApiStepKeeps

(* A fault, or an answer that counts as none. *)
LEMMA FaultsBounded ==
  ASSUME SessionInv, Fault \/ UNCHANGED faults
  PROVE  faults' \in 0 .. MaxFaults
BY DEF SessionInv, TypeOK, Fault

(* A reply or its failure keeps the bound on faults. *)
LEMMA RepliesAreBounded ==
  ASSUME SessionInv, NEW c, NEW kind, Succeeds(c, kind) \/ Fails(c, kind)
  PROVE  faults' \in 0 .. MaxFaults
BY FaultsBounded DEF Succeeds, Fails

(* The relay's answer to the first request of a start. *)
LEMMA OpenReplyKeeps ==
  ASSUME SessionInv, NEW c \in Starter, OpenReply(c)
  PROVE  SessionInv' /\ ForwardedOnce
<1>1. CASE Succeeds(c, "open") /\ Go(c, "join") /\ UNCHANGED runtime
  BY <1>1, QuietStartKeeps, RepliesAreBounded DEF OpenReply, SessionInv, TypeOK
<1>2. CASE Fails(c, "open") /\ StartFailed(c)
  BY <1>2, StartFailedKeeps, RepliesAreBounded DEF OpenReply
<1> QED
  BY <1>1, <1>2 DEF OpenReply

(* The cleanup of the relay after a failure. *)
LEMMA UndoRelayKeeps ==
  ASSUME SessionInv, NEW c \in Starter, UndoRelay(c)
  PROVE  SessionInv' /\ ForwardedOnce
BY StartFailedKeeps, RepliesAreBounded DEF UndoRelay

(* The provider starts the agent. *)
LEMMA AgentJoinsKeeps ==
  ASSUME SessionInv, NEW c \in Starter, AgentJoins(c)
  PROVE  SessionInv' /\ ForwardedOnce
<1>1. agents' \subseteq Session /\ faults' \in 0 .. MaxFaults
  BY DEF SessionInv, TypeOK, AgentJoins
<1> QED
  BY <1>1, QuietStartKeeps DEF AgentJoins

(* Another command of the same start is sent. *)
LEMMA OtherCommandsKept ==
  ASSUME NEW c \in Client, NEW kind \in {"bind", "close"},
         \A k \in Command \ {<<c, kind>>} : cmd'[k] = cmd[k]
  PROVE  /\ \A d \in Starter : cmd'[<<d, "open">>] = cmd[<<d, "open">>]
         /\ \A d \in Starter \ {c} : cmd'[<<d, "bind">>] = cmd[<<d, "bind">>]
         /\ kind = "close" => \A d \in Starter : cmd'[<<d, "bind">>] = cmd[<<d, "bind">>]
OBVIOUS

(* The provider's answer reaches the API. *)
LEMMA JoinReplyKeeps ==
  ASSUME SessionInv, NEW c \in Starter, JoinReply(c)
  PROVE  SessionInv' /\ ForwardedOnce
<1>1. RelayInv /\ ApiTypes /\ ApiInv
  BY SessionInvParts
<1>2. c \in Client /\ req[c].pc = "joined" /\ known' = known \cup {c}
  BY DEF Client, JoinReply
<1>3. /\ req' \in [Client -> Request \cup {Idle}]
      /\ req'[c].pc = "bind"
      /\ \A d \in Client \ {c} : req'[d] = req[d]
  BY <1>1, <1>2, RequestGoesOn DEF ApiTypes, JoinReply
<1>4. cmd[<<c, "bind">>].phase = "unsent"
  BY <1>2 DEF SessionInv, CommandsInOrder
<1>5. /\ RelayInv' /\ ForwardedOnce
      /\ \A k \in Command \ {<<c, "bind">>} : cmd'[k] = cmd[k]
  BY <1>1, <1>2, <1>4, SendKeeps DEF JoinReply
<1>6. ApiTypes'
  BY <1>1, <1>2, <1>3 DEF ApiTypes, JoinReply
<1>7. AgentsOfRequests' /\ ConnectedAgentCanBeStopped'
  BY <1>2, <1>3, StartKeepsAgents DEF JoinReply
<1>8. CommandsInOrder'
  BY <1>2, <1>3, <1>5, OtherCommandsKept, StartKeepsCommands, ZenonT(60)
<1> QED
  BY <1>5, <1>6, <1>7, <1>8, ApiStepKeeps

(* A start gives up: the relay is told to stop. *)
LEMMA StartClosesRelay ==
  ASSUME SessionInv, NEW c \in Starter, req[c].pc \notin {"idle", "done"},
         Send(c, "close"), Go(c, "undoRelay"),
         UNCHANGED <<browserVars, call, runtime, said>>,
         known \ {c} \subseteq known', known' \subseteq known, agents' \subseteq agents,
         Fault \/ UNCHANGED faults
  PROVE  SessionInv' /\ ForwardedOnce
<1>1. RelayInv /\ ApiTypes /\ ApiInv
  BY SessionInvParts
<1>2. c \in Client
  BY DEF Client
<1>3. /\ req' \in [Client -> Request \cup {Idle}]
      /\ req'[c].pc = "undoRelay"
      /\ \A d \in Client \ {c} : req'[d] = req[d]
  BY <1>1, <1>2, RequestGoesOn DEF ApiTypes
<1>4. /\ RelayInv' /\ ForwardedOnce
      /\ \A k \in Command \ {<<c, "close">>} : cmd'[k] = cmd[k]
  BY <1>1, <1>2, SendKeeps
<1>5. ApiTypes'
  BY <1>1, <1>3, FaultsBounded DEF ApiTypes
<1>6. AgentsOfRequests' /\ ConnectedAgentCanBeStopped'
  BY <1>3, StartKeepsAgents
<1>7. CommandsInOrder'
  BY <1>2, <1>3, <1>4, OtherCommandsKept, StartKeepsCommands
<1> QED
  BY <1>4, <1>5, <1>6, <1>7, ApiStepKeeps

(* The provider refuses. *)
LEMMA JoinFailsKeeps ==
  ASSUME SessionInv, NEW c \in Starter, JoinFails(c)
  PROVE  SessionInv' /\ ForwardedOnce
BY StartClosesRelay DEF JoinFails

(* The cleanup of the agent after a failure. *)
LEMMA UndoAgentKeeps ==
  ASSUME SessionInv, NEW c \in Starter, UndoAgent(c)
  PROVE  SessionInv' /\ ForwardedOnce
<1>1. known \ {c} \subseteq known' /\ known' \subseteq known /\ agents' \subseteq agents
  BY DEF UndoAgent, AgentLeaves
<1>2. Fault \/ UNCHANGED faults
  BY DEF UndoAgent, AgentLeaves
<1> QED
  BY <1>1, <1>2, StartClosesRelay DEF UndoAgent

(* The answer to the bind, with which the start connects. *)
LEMMA BindReplyKeeps ==
  ASSUME SessionInv, NEW c \in Starter, BindReply(c)
  PROVE  SessionInv' /\ ForwardedOnce
<1>1. RelayInv /\ ApiTypes /\ ApiInv
  BY SessionInvParts
<1>2. c \in Client /\ req[c].pc = "bind" /\ c \in known /\ c # None
  BY DEF Client, BindReply, SessionInv, AgentsOfRequests, BeingBoundIsKnown
<1>3. CASE Fails(c, "bind") /\ Go(c, "undoAgent") /\ UNCHANGED runtime
  BY <1>1, <1>2, <1>3, QuietStartKeeps, RepliesAreBounded DEF BindReply, ApiTypes
<1>4. CASE /\ Succeeds(c, "bind")
           /\ runtime' = Entry("CONNECTED", c, TRUE, TRUE)
           /\ Go(c, "done")
  <2>1. /\ req' \in [Client -> Request \cup {Idle}]
        /\ req'[c].pc = "done"
        /\ \A d \in Client \ {c} : req'[d] = req[d]
    BY <1>1, <1>2, <1>4, RequestGoesOn DEF ApiTypes
  <2>2. RelayInv' /\ ForwardedOnce
    BY <1>1, RelayUnchanged DEF BindReply
  <2>3. runtime' \in RuntimeEntry /\ runtime'.status = "CONNECTED" /\ runtime'.agent = c
    BY <1>4 DEF Entry, RuntimeEntry
  <2>4. ApiTypes'
    BY <1>1, <1>4, <2>1, <2>3, RepliesAreBounded DEF ApiTypes, BindReply
  <2>5. CommandsInOrder'
    BY <2>1, StartKeepsCommands DEF BindReply, relayVars
  <2>6. \A x \in Stopper : x \in Client \ {c}
    BY DEF Client
  <2>7. \A d \in Starter : d \in Client
    BY DEF Client
  <2>8. known' = known
    BY DEF BindReply
  <2>9. BeingBoundIsKnown'
    BY <2>1, <2>7, <2>8 DEF SessionInv, AgentsOfRequests, BeingBoundIsKnown
  <2>10. BoundIsSettled'
    BY <2>1, <2>3 DEF BoundIsSettled
  <2>11. ReadIsSettled'
    BY <2>1, <2>6, <2>7, SettledAgents DEF ReadIsSettled
  <2>12. NoLeaveUnderWay'
    <3>1. ASSUME NEW x \in Stopper, req'[x].pc \in {"closeRelay", "leave"}
          PROVE  req'[x].was.agent # c
      <4>1. req'[x] = req[x] /\ req[x] # Idle
        BY <2>1, <2>6, <3>1 DEF Idle
      <4> QED
        BY <1>2, <4>1, SettledAgents
    <3> QED
      BY <1>2, <2>3, <3>1 DEF NoLeaveUnderWay
  <2>13. ConnectedAgentCanBeStopped'
    BY <1>2, <2>3, <2>8 DEF ConnectedAgentCanBeStopped
  <2> QED
    BY <2>2, <2>4, <2>5, <2>9, <2>10, <2>11, <2>12, <2>13, ApiStepKeeps DEF AgentsOfRequests
<1> QED
  BY <1>3, <1>4 DEF BindReply

(* A stop says nothing of how far the starts are. *)
LEMMA StopKeepsCommands ==
  ASSUME SessionInv, NEW x \in Stopper,
         \A d \in Client \ {x} : req'[d] = req[d],
         \A d \in Starter : /\ cmd'[<<d, "open">>] = cmd[<<d, "open">>]
                           /\ cmd'[<<d, "bind">>] = cmd[<<d, "bind">>]
  PROVE  CommandsInOrder'
<1>1. \A d \in Starter : d \in Client \ {x}
  BY DEF Client
<1> QED
  BY <1>1 DEF SessionInv, CommandsInOrder

(* A stop goes on: it may have told the agent that it has read to leave,   *)
(* which is not the agent of a connected session. *)
LEMMA StopKeepsAgents ==
  ASSUME SessionInv, NEW x \in Stopper, req[x] # Idle,
         \A d \in Client \ {x} : req'[d] = req[d], req'[x].was = req[x].was,
         req'[x].pc \in {"closeRelay", "leave"} => req[x].pc \in {"closeRelay", "leave"},
         runtime' = runtime,
         \/ known' = known
         \/ /\ req[x].pc = "leave" /\ req[x].was.agent # None
            /\ known \ {req[x].was.agent} \subseteq known'
  PROVE  AgentsOfRequests' /\ ConnectedAgentCanBeStopped'
<1>1. \A d \in Starter : d \in Client \ {x}
  BY DEF Client
<1>2. \A y \in Stopper : y \in Client
  BY DEF Client
<1>3. \A d \in Starter : req'[d] = req[d]
  BY <1>1
<1>4. ASSUME NEW d \in Starter, req'[d].pc = "bind"
      PROVE  d \in known'
  <2>1. req[d].pc = "bind" /\ d \in known
    BY <1>3, <1>4 DEF SessionInv, AgentsOfRequests, BeingBoundIsKnown
  <2> QED
    BY <2>1, SettledAgents
<1>5. BeingBoundIsKnown'
  BY <1>4 DEF BeingBoundIsKnown
<1>6. BoundIsSettled'
  BY <1>3, SettledAgents DEF BoundIsSettled
<1>7. ReadIsSettled'
  BY <1>2, <1>3, SettledAgents DEF ReadIsSettled
<1>8. NoLeaveUnderWay'
  BY <1>2 DEF SessionInv, AgentsOfRequests, NoLeaveUnderWay
<1>9. ConnectedAgentCanBeStopped'
  BY DEF SessionInv, AgentsOfRequests, NoLeaveUnderWay, ConnectedAgentCanBeStopped
<1> QED
  BY <1>5, <1>6, <1>7, <1>8, <1>9 DEF AgentsOfRequests

(* A stop reads the entry it will work on. *)
LEMMA StopBeginKeeps ==
  ASSUME SessionInv, NEW x \in Stopper, StopBegin(x)
  PROVE  SessionInv' /\ ForwardedOnce
<1>1. RelayInv /\ ApiTypes /\ ApiInv
  BY SessionInvParts
<1>2. x \in Client /\ req[x] = Idle /\ runtime \in RuntimeEntry
  BY <1>1 DEF Client, StopBegin, ApiTypes
<1>3. /\ runtime' \in RuntimeEntry
      /\ runtime'.status = "STOPPING" /\ runtime'.agent = runtime.agent
  BY <1>2 DEF StopBegin, RuntimeEntry
<1>4. PICK pc \in {"closeRelay", "leave", "lookup"} : NewStop(x, pc)
  BY DEF StopBegin, AfterRelay
<1>5. /\ req' \in [Client -> Request \cup {Idle}]
      /\ req'[x].pc = pc /\ req'[x].was = runtime
      /\ \A d \in Client \ {x} : req'[d] = req[d]
  BY <1>1, <1>2, <1>4, RequestBegins DEF ApiTypes, NewStop
<1>6. /\ RelayInv' /\ ForwardedOnce
      /\ \A d \in Starter : /\ cmd'[<<d, "open">>] = cmd[<<d, "open">>]
                            /\ cmd'[<<d, "bind">>] = cmd[<<d, "bind">>]
  <2>1. CASE Send(x, "close")
    <3>1. /\ RelayInv' /\ ForwardedOnce
          /\ \A k \in Command \ {<<x, "close">>} : cmd'[k] = cmd[k]
      BY <1>1, <1>2, <2>1, SendKeeps DEF StopBegin
    <3> QED
      BY <1>2, <3>1, OtherCommandsKept
  <2>2. CASE UNCHANGED cmd
    <3>1. UNCHANGED relayVars
      BY <2>2 DEF StopBegin, browserVars, relayVars
    <3> QED
      BY <1>1, <2>2, <3>1, RelayUnchanged
  <2> QED
    BY <2>1, <2>2 DEF StopBegin
<1>7. ApiTypes'
  BY <1>1, <1>3, <1>5 DEF ApiTypes, StopBegin
<1>8. CommandsInOrder'
  BY <1>5, <1>6, StopKeepsCommands
<1>9. \A d \in Starter : d \in Client /\ req'[d] = req[d]
  BY <1>5 DEF Client
<1>10. BeingBoundIsKnown'
  BY <1>9 DEF SessionInv, AgentsOfRequests, BeingBoundIsKnown, StopBegin
<1>11. BoundIsSettled'
  BY <1>3, <1>9, SettledAgents DEF BoundIsSettled
<1>12. ReadIsSettled'
  <2>1. ASSUME NEW y \in Stopper, req'[y] # Idle, req'[y].was.agent # None
        PROVE  req'[req'[y].was.agent].pc = "done"
    <3>1. CASE y = x
      BY <1>5, <1>9, <2>1, <3>1, SettledAgents
    <3>2. CASE y # x
      BY <1>5, <1>9, <2>1, <3>2, SettledAgents DEF Client
    <3> QED
      BY <3>1, <3>2
  <2> QED
    BY <2>1 DEF ReadIsSettled
<1>13. NoLeaveUnderWay' /\ ConnectedAgentCanBeStopped'
  BY <1>3 DEF NoLeaveUnderWay, ConnectedAgentCanBeStopped
<1> QED
  BY <1>6, <1>7, <1>8, <1>10, <1>11, <1>12, <1>13, ApiStepKeeps DEF AgentsOfRequests

(* A stop goes on without the relay, and leaves the entry alone. *)
LEMMA QuietStopKeeps ==
  ASSUME SessionInv, NEW x \in Stopper, NEW pc, req[x].pc # "idle",
         pc \in {"leave", "lookup", "finish", "done"},
         pc = "leave" => req[x].pc \in {"closeRelay", "leave"},
         Go(x, pc), UNCHANGED <<relayVars, runtime, said>>,
         call' \in {"CREATED", "ACTIVE", "ENDED", "CANCELLED"},
         known' \subseteq known, agents' \subseteq agents, faults' \in 0 .. MaxFaults,
         \/ known' = known
         \/ /\ req[x].pc = "leave" /\ req[x].was.agent # None
            /\ known \ {req[x].was.agent} \subseteq known'
  PROVE  SessionInv' /\ ForwardedOnce
<1>1. RelayInv /\ ApiTypes /\ ApiInv
  BY SessionInvParts
<1>2. x \in Client /\ req[x] # Idle
  BY DEF Client, Idle
<1>3. /\ req' \in [Client -> Request \cup {Idle}]
      /\ req'[x].pc = pc /\ req'[x].was = req[x].was
      /\ \A d \in Client \ {x} : req'[d] = req[d]
  BY <1>1, <1>2, RequestGoesOn DEF ApiTypes
<1>4. RelayInv' /\ ForwardedOnce
  BY <1>1, RelayUnchanged
<1>5. ApiTypes'
  BY <1>1, <1>3 DEF ApiTypes
<1>6. AgentsOfRequests' /\ ConnectedAgentCanBeStopped'
  BY <1>2, <1>3, StopKeepsAgents
<1>7. CommandsInOrder'
  BY <1>3, StopKeepsCommands DEF relayVars
<1> QED
  BY <1>4, <1>5, <1>6, <1>7, ApiStepKeeps

(* The relay's answer to a stop. *)
LEMMA StopRelayReplyKeeps ==
  ASSUME SessionInv, NEW x \in Stopper, StopRelayReply(x)
  PROVE  SessionInv' /\ ForwardedOnce
<1>1. PICK pc \in {"leave", "lookup"} : Go(x, pc)
  BY DEF StopRelayReply, AfterRelay
<1>2. faults' \in 0 .. MaxFaults
  BY RepliesAreBounded DEF StopRelayReply
<1>3. UNCHANGED <<relayVars, call, known, agents, said, runtime>> /\ req[x].pc = "closeRelay"
  BY DEF StopRelayReply
<1>4. call' \in {"CREATED", "ACTIVE", "ENDED", "CANCELLED"}
  BY <1>3 DEF SessionInv, TypeOK
<1> QED
  BY <1>1, <1>2, <1>3, <1>4, QuietStopKeeps

(* A stop asks the agent to leave. *)
LEMMA StopAgentKeeps ==
  ASSUME SessionInv, NEW x \in Stopper, StopAgent(x)
  PROVE  SessionInv' /\ ForwardedOnce
<1> DEFINE a == req[x].was.agent
<1>1. /\ known' \subseteq known /\ agents' \subseteq agents
      /\ known' = known \/ (a \in known /\ known \ {a} \subseteq known')
  BY DEF StopAgent, AgentLeaves
<1>2. Fault \/ UNCHANGED faults
  BY DEF StopAgent, AgentLeaves
<1>3. req[x].pc = "leave" /\ Go(x, "lookup") /\ UNCHANGED <<relayVars, call, runtime, said>>
  BY DEF StopAgent
<1>4. known \subseteq Session /\ call' \in {"CREATED", "ACTIVE", "ENDED", "CANCELLED"}
  BY <1>3 DEF SessionInv, TypeOK
<1>5. a \in known => a # None
  BY <1>4
<1>6. faults' \in 0 .. MaxFaults
  BY <1>2, FaultsBounded
<1> HIDE DEF a
<1>7. \/ known' = known
      \/ /\ req[x].pc = "leave" /\ req[x].was.agent # None
         /\ known \ {req[x].was.agent} \subseteq known'
  BY <1>1, <1>3, <1>5 DEF a
<1> QED
  BY <1>1, <1>3, <1>4, <1>6, <1>7, QuietStopKeeps

(* A stop ends the call. *)
LEMMA EndWriteKeeps ==
  ASSUME SessionInv, NEW x \in Stopper, EndWrite(x)
  PROVE  SessionInv' /\ ForwardedOnce
<1>1. req[x].pc = "end" /\ x \in Client /\ req[x] # Idle
  BY DEF EndWrite, Client, Idle
<1>2. req[x] \in Request
  BY <1>1 DEF SessionInv, TypeOK
<1>3. call' \in {"CREATED", "ACTIVE", "ENDED", "CANCELLED"}
  BY <1>2 DEF EndWrite, Request
<1>4. faults' \in 0 .. MaxFaults
  BY DEF SessionInv, TypeOK, EndWrite
<1> QED
  BY <1>1, <1>3, <1>4, QuietStopKeeps DEF EndWrite

(* A stop gives up. *)
LEMMA StopFailsKeeps ==
  ASSUME SessionInv, NEW x \in Stopper, StopFails(x)
  PROVE  SessionInv' /\ ForwardedOnce
<1>1. call' \in {"CREATED", "ACTIVE", "ENDED", "CANCELLED"}
  BY DEF SessionInv, TypeOK, StopFails
<1>2. faults' \in 0 .. MaxFaults
  BY FaultsBounded DEF StopFails
<1> QED
  BY <1>1, <1>2, QuietStopKeeps DEF StopFails

(* A stop looks at the status of the call. *)
LEMMA StopLookupKeeps ==
  ASSUME SessionInv, NEW x \in Stopper, StopLookup(x)
  PROVE  SessionInv' /\ ForwardedOnce
<1>1. RelayInv /\ ApiTypes /\ ApiInv
  BY SessionInvParts
<1>2. x \in Client /\ req[x].pc = "lookup" /\ req[x] # Idle /\ req[x] \in Request
  BY <1>1 DEF Client, StopLookup, Idle, ApiTypes
<1>3. CASE Go(x, "finish")
  BY <1>1, <1>2, <1>3, QuietStopKeeps DEF StopLookup, ApiTypes
<1>4. CASE req' = [req EXCEPT ![x].pc = "end",
                     ![x].target = IF call = "CREATED" THEN "CANCELLED" ELSE "ENDED"]
  <2> DEFINE r == [req[x] EXCEPT !.pc = "end",
                     !.target = IF call = "CREATED" THEN "CANCELLED" ELSE "ENDED"]
  <2>1. r \in Request /\ r.pc = "end" /\ r.was = req[x].was
    BY <1>2 DEF Request
  <2>2. req' = [req EXCEPT ![x] = r]
    BY <1>4
  <2> HIDE DEF r
  <2>3. /\ req' \in [Client -> Request \cup {Idle}]
        /\ req'[x].pc = "end" /\ req'[x].was = req[x].was
        /\ \A d \in Client \ {x} : req'[d] = req[d]
    BY <1>1, <1>2, <2>1, <2>2 DEF ApiTypes
  <2>4. RelayInv' /\ ForwardedOnce
    BY <1>1, RelayUnchanged DEF StopLookup
  <2>5. ApiTypes'
    BY <1>1, <2>3 DEF ApiTypes, StopLookup
  <2>6. AgentsOfRequests' /\ ConnectedAgentCanBeStopped'
    BY <1>2, <2>3, StopKeepsAgents DEF StopLookup
  <2>7. CommandsInOrder'
    BY <2>3, StopKeepsCommands DEF StopLookup, relayVars
  <2> QED
    BY <2>4, <2>5, <2>6, <2>7, ApiStepKeeps
<1> QED
  BY <1>3, <1>4 DEF StopLookup

(* A stop writes back the entry it had read. *)
LEMMA StopFinishKeeps ==
  ASSUME SessionInv, NEW x \in Stopper, StopFinish(x)
  PROVE  SessionInv' /\ ForwardedOnce
<1>1. RelayInv /\ ApiTypes /\ ApiInv
  BY SessionInvParts
<1>2. x \in Client /\ req[x].pc = "finish" /\ req[x] # Idle /\ Go(x, "done")
  BY DEF Client, StopFinish, Idle
<1>3. /\ req' \in [Client -> Request \cup {Idle}] /\ req[x] \in Request
      /\ req'[x].pc = "done" /\ req'[x].was = req[x].was
      /\ \A d \in Client \ {x} : req'[d] = req[d]
  BY <1>1, <1>2, RequestGoesOn DEF ApiTypes
<1>4. /\ runtime' \in RuntimeEntry
      /\ runtime'.status = "ENDED" /\ runtime'.agent = req[x].was.agent
  BY <1>3 DEF StopFinish, Request, RuntimeEntry
<1>5. RelayInv' /\ ForwardedOnce
  BY <1>1, RelayUnchanged DEF StopFinish
<1>6. ApiTypes'
  BY <1>1, <1>3, <1>4 DEF ApiTypes, StopFinish
<1>7. CommandsInOrder'
  BY <1>3, StopKeepsCommands DEF StopFinish, relayVars
<1>8. \A d \in Starter : d \in Client /\ req'[d] = req[d]
  BY <1>3 DEF Client
<1>9. BeingBoundIsKnown'
  BY <1>8 DEF SessionInv, AgentsOfRequests, BeingBoundIsKnown, StopFinish
<1>10. BoundIsSettled'
  BY <1>2, <1>4, <1>8, SettledAgents DEF BoundIsSettled
<1>11. ReadIsSettled'
  <2>1. ASSUME NEW y \in Stopper, req'[y] # Idle, req'[y].was.agent # None
        PROVE  req'[req'[y].was.agent].pc = "done"
    <3>1. req[y] # Idle /\ req'[y].was = req[y].was
      BY <1>2, <1>3, <2>1 DEF Client
    <3> QED
      BY <1>8, <2>1, <3>1, SettledAgents
  <2> QED
    BY <2>1 DEF ReadIsSettled
<1>12. NoLeaveUnderWay' /\ ConnectedAgentCanBeStopped'
  BY <1>4 DEF NoLeaveUnderWay, ConnectedAgentCanBeStopped
<1> QED
  BY <1>5, <1>6, <1>7, <1>9, <1>10, <1>11, <1>12, ApiStepKeeps DEF AgentsOfRequests

(* Somebody speaks. *)
LEMMA SpeakKeeps ==
  ASSUME SessionInv, NEW m \in Message, Speak(m)
  PROVE  SessionInv' /\ ForwardedOnce
<1>1. RelayKeeps
  BY SessionInvParts, HearKeeps DEF Speak
<1>2. ApiTypes'
  BY SessionInvParts DEF ApiTypes, Speak
<1>3. UNCHANGED <<runtime, known, req>>
  BY DEF Speak
<1> QED
  BY <1>1, <1>2, <1>3, RelayStepKeeps

(* The API answers a turn: it is stored, refused or lost. *)
LEMMA TurnKeeps ==
  ASSUME SessionInv, NEW p \in posts, AcceptTurn(p) \/ RefuseTurn(p) \/ LoseTurn(p)
  PROVE  SessionInv' /\ ForwardedOnce
<1>1. PICK ok \in BOOLEAN : Answered(p, ok)
  BY DEF AcceptTurn, RefuseTurn, LoseTurn
<1>2. RelayKeeps
  BY <1>1, SessionInvParts, AnsweredKeeps
<1>3. UNCHANGED <<runtime, known, agents, said, req>>
  BY DEF AcceptTurn, RefuseTurn, LoseTurn
<1>4. call' \in {"CREATED", "ACTIVE", "ENDED", "CANCELLED"}
  BY DEF SessionInv, TypeOK, AcceptTurn, RefuseTurn, LoseTurn
<1>5. Fault \/ UNCHANGED faults
  BY DEF AcceptTurn, RefuseTurn, LoseTurn
<1>6. ApiTypes'
  BY <1>3, <1>4, <1>5, FaultsBounded, SessionInvParts DEF ApiTypes
<1> QED
  BY <1>2, <1>3, <1>6, RelayStepKeeps

(* The API restarts: nothing is connected, and no request is under way. *)
LEMMA RestartKeeps ==
  ASSUME SessionInv, Restart
  PROVE  SessionInv' /\ ForwardedOnce
<1>1. RelayInv /\ ApiTypes /\ ApiInv
  BY SessionInvParts
<1>2. RelayInv' /\ ForwardedOnce
  BY <1>1, RelayUnchanged DEF Restart
<1>3. /\ runtime' \in RuntimeEntry /\ runtime'.status = "NONE" /\ runtime'.agent = None
      /\ known' = {}
  BY DEF Restart, NoEntry, Entry, RuntimeEntry
<1>4. ASSUME NEW c \in Client
      PROVE  /\ req'[c] \in Request \cup {Idle}
             /\ req[c] = Idle => req'[c] = Idle
             /\ req[c] # Idle => /\ req[c] \in Request /\ req'[c].pc = "done"
                                /\ req'[c].was = req[c].was
  <2>1. req'[c] = IF req[c] = Idle THEN Idle ELSE [req[c] EXCEPT !.pc = "done"]
    BY DEF Restart
  <2>2. req[c] \in Request \cup {Idle}
    BY <1>1 DEF ApiTypes
  <2> QED
    BY <2>1, <2>2 DEF Request
<1>5. req' \in [Client -> Request \cup {Idle}]
  <2>1. req' = [c \in Client |-> req'[c]]
    BY DEF Restart
  <2> QED
    BY <1>4, <2>1
<1>6. ApiTypes'
  BY <1>1, <1>3, <1>5, FaultsBounded DEF ApiTypes, Restart
<1>7. \A c \in Starter : c \in Client
  BY DEF Client
<1>8. Idle.pc = "idle"
  BY DEF Idle
<1>9. CommandsInOrder'
  <2>1. cmd' = cmd
    BY DEF Restart, relayVars
  <2>2. ASSUME NEW c \in Starter, req'[c].pc \in {"idle", "open", "join", "joined"}
        PROVE  req[c] = Idle
    BY <1>4, <1>7, <2>2
  <2> QED
    BY <1>8, <2>1, <2>2 DEF SessionInv, CommandsInOrder
<1>10. BeingBoundIsKnown'
  BY <1>4, <1>7, <1>8 DEF BeingBoundIsKnown
<1>11. ReadIsSettled'
  <2>1. ASSUME NEW y \in Stopper, req'[y] # Idle, req'[y].was.agent # None
        PROVE  req'[req'[y].was.agent].pc = "done"
    <3>1. req[y] # Idle /\ req'[y].was = req[y].was
      BY <1>4, <2>1 DEF Client
    <3>2. req[y].was.agent \in Starter /\ req[req[y].was.agent].pc = "done"
      BY <2>1, <3>1, SettledAgents
    <3> QED
      BY <1>4, <1>7, <1>8, <3>1, <3>2
  <2> QED
    BY <2>1 DEF ReadIsSettled
<1>12. BoundIsSettled' /\ NoLeaveUnderWay' /\ ConnectedAgentCanBeStopped'
  BY <1>3 DEF BoundIsSettled, NoLeaveUnderWay, ConnectedAgentCanBeStopped
<1> QED
  BY <1>2, <1>6, <1>9, <1>10, <1>11, <1>12, ApiStepKeeps DEF AgentsOfRequests

(* Every step of the relay. *)
LEMMA RelayNextKeeps ==
  ASSUME SessionInv, RelayStep \/ RelayFault
  PROVE  SessionInv' /\ ForwardedOnce
<1>1. RelayInv /\ ApiTypes
  BY SessionInvParts
<1>2. UNCHANGED <<call, runtime, known, agents, said, req>> /\ (Fault \/ UNCHANGED faults)
  BY DEF RelayStep, RelayFault, apiVars
<1>3. ApiTypes'
  BY <1>1, <1>2, FaultsBounded DEF ApiTypes
<1>4. Launched \subseteq Command
  BY DEF Launched
<1>5. ASSUME NEW c \in Starter
      PROVE  /\ OfStart(<<c, "open">>) /\ <<c, "open">> \in Command
             /\ OfStart(<<c, "bind">>) /\ <<c, "bind">> \in Command
             /\ c \in Binding /\ PENDING_AGENT \in Binding
  BY DEF OfStart, Binding
<1>6. ASSUME NEW c \in Starter,
             \/ HandleStart(<<c, "open">>, PENDING_AGENT)
             \/ LaunchAfterStop(<<c, "open">>, PENDING_AGENT)
             \/ HandleStart(<<c, "bind">>, c)
             \/ LaunchAfterStop(<<c, "bind">>, c)
      PROVE  RelayKeeps
  BY <1>1, <1>5, <1>6, HandleStartKeeps, LaunchAfterStopKeeps
<1>7. ASSUME NEW c \in Client, HandleStop(<<c, "close">>) \/ StopDone(<<c, "close">>)
      PROVE  RelayKeeps
  <2>1. <<c, "close">> \in Command
    BY DEF Client
  <2> QED
    BY <1>1, <1>7, <2>1, HandleStopKeeps, StopDoneKeeps
<1>8. ASSUME NEW k \in Launched,
             \/ Subscribe(k) \/ LaunchDone(k) \/ FlushNext(k) \/ CloseBrowser(k)
             \/ TimerFires(k) \/ LaunchFails(k) \/ SubscribeFails(k)
      PROVE  RelayKeeps
  BY <1>1, <1>4, <1>8, SubscribeKeeps, LaunchDoneKeeps, FlushNextKeeps, CloseBrowserKeeps,
     TimerFiresKeeps, LaunchFailsKeeps
<1>9. RelayKeeps
  BY <1>6, <1>7, <1>8 DEF RelayStep, RelayFault
<1> QED
  BY <1>2, <1>3, <1>9, RelayStepKeeps

(* Every step of the session. *)
LEMMA SessionStep ==
  ASSUME SessionInv, [Next]_vars
  PROVE  SessionInv' /\ ForwardedOnce
<1>1. ASSUME NEW c \in Starter, StartBegin(c) \/ StartStep(c)
      PROVE  SessionInv' /\ ForwardedOnce
  BY <1>1, StartBeginKeeps, OpenReplyKeeps, AgentJoinsKeeps, JoinReplyKeeps, JoinFailsKeeps,
     BindReplyKeeps, UndoAgentKeeps, UndoRelayKeeps DEF StartStep
<1>2. ASSUME NEW x \in Stopper, StopBegin(x) \/ StopStep(x)
      PROVE  SessionInv' /\ ForwardedOnce
  BY <1>2, StopBeginKeeps, StopRelayReplyKeeps, StopAgentKeeps, StopLookupKeeps, EndWriteKeeps,
     StopFailsKeeps, StopFinishKeeps DEF StopStep
<1>3. CASE UNCHANGED vars
  <2>1. RelayInv' /\ ForwardedOnce
    BY <1>3, SessionInvParts, RelayUnchanged DEF vars
  <2>2. ApiTypes' /\ ApiInv'
    BY <1>3, SessionInvParts
       DEF vars, relayVars, ApiTypes, ApiInv, CommandsInOrder, AgentsOfRequests, BeingBoundIsKnown,
           BoundIsSettled, ReadIsSettled, NoLeaveUnderWay, ConnectedAgentCanBeStopped
  <2> QED
    BY <2>1, <2>2, SessionInvPartsNext
<1> QED
  BY <1>1, <1>2, <1>3, SpeakKeeps, TurnKeeps, RelayNextKeeps, RestartKeeps DEF Next

(* Before the first request. *)
LEMMA SessionInit ==
  ASSUME Init
  PROVE  SessionInv
<1>1. Launched = {} /\ \A k \in Command : cmd[k] = Unsent
  BY DEF Init, RelayInit, Launched
<1>2. Unsent \in CommandState /\ Unsent.phase = "unsent"
  BY DEF Unsent, CommandState
<1>3. RelayInv
  BY <1>1, <1>2 DEF Init, RelayInit, RelayInv, BuffersAreOwn, RecordIsLaunched, RecordIsOpen
<1>4. \A c \in Client : req[c] = Idle /\ Idle.pc = "idle"
  BY DEF Init, Idle
<1>5. runtime \in RuntimeEntry /\ runtime.status = "READY" /\ runtime.agent = None
  BY DEF Init, Entry, RuntimeEntry
<1>6. ApiTypes
  <2>1. 0 \in 0 .. MaxFaults
    OBVIOUS
  <2>2. req \in [Client -> Request \cup {Idle}]
    BY DEF Init
  <2> QED
    BY <1>5, <2>1, <2>2 DEF Init, ApiTypes
<1>7. CommandsInOrder
  BY <1>1, <1>2 DEF CommandsInOrder
<1>8. AgentsOfRequests /\ ConnectedAgentCanBeStopped
  BY <1>4, <1>5 DEF AgentsOfRequests, BeingBoundIsKnown, BoundIsSettled, ReadIsSettled,
     NoLeaveUnderWay, ConnectedAgentCanBeStopped, Client
<1> QED
  BY <1>3, <1>6, <1>7, <1>8, SessionInvParts DEF ApiInv
-----------------------------------------------------------------------------
(***************************************************************************)
(* The theorems                                                            *)
(***************************************************************************)
(* The inductive invariant of the live session and its relay. *)
THEOREM SessionInvariant == Spec => []SessionInv
<1>1. Init => SessionInv
  BY SessionInit
<1>2. SessionInv /\ [Next]_vars => SessionInv'
  BY SessionStep
<1> QED
  BY <1>1, <1>2, PTL DEF Spec

(* The state of the API and of the relay is typed, and no browser keeps    *)
(* more messages than the code allows before its session is known, whatever *)
(* is said while it waits (browser.ts, pendingTranscripts). *)
THEOREM SessionTypeCorrect == Spec => []TypeOK
<1>1. SessionInv => TypeOK
  BY DEF SessionInv
<1> QED
  BY <1>1, SessionInvariant, PTL

(* The browser that a bind finds on record is open, whichever starts,      *)
(* replacements, failed launches and stops have crossed (browser.ts, start  *)
(* and stop). *)
THEOREM BindsFindAnOpenBrowser == Spec => []RecordIsOpen
<1>1. SessionInv => RecordIsOpen
  BY DEF SessionInv
<1> QED
  BY <1>1, SessionInvariant, PTL

(* A session that the API calls connected has an agent that the provider's *)
(* client knows, so that it can be asked to leave                          *)
(* (voice-session.handlers.ts, start, stop and the restart of the process). *)
THEOREM ConnectedAgentIsKnown == Spec => []ConnectedAgentCanBeStopped
<1>1. SessionInv => ConnectedAgentCanBeStopped
  BY DEF SessionInv
<1> QED
  BY <1>1, SessionInvariant, PTL

(* No turn of the assistant leaves one browser's buffer twice: not by its  *)
(* timer, a terminal message, the flush of a stop or the bind, in any order *)
(* (assistant-turn-buffer.ts, push, flush and the timers). *)
THEOREM TurnsAreForwardedOnce == Spec => AssistantTurnForwardedOnce
<1>1. SessionInv /\ [Next]_vars => [ForwardedOnce]_vars
  BY SessionStep
<1>2. Spec => [][ForwardedOnce]_vars
  BY <1>1, SessionInvariant, PTL DEF Spec
<1> QED
  BY <1>2 DEF AssistantTurnForwardedOnce, ForwardedOnce
-----------------------------------------------------------------------------
(***************************************************************************)
(* What a frame has to be to become a turn of the call, for every frame    *)
(* and binding, and that the turns of one session are told apart.          *)
(***************************************************************************)
(* A turn that leaves parseRtmTranscriptFrame was published by the agent,  *)
(* says something, and is attributed to the session the browser is bound   *)
(* to; before the session is known only a custom pipeline's own frame gets *)
(* through, under the session that it names.  What a customer is still     *)
(* saying never gets through (rtm-transcript-frame.ts 210-322).            *)
THEOREM AcceptedIsBound ==
  ASSUME NEW f \in Frame, NEW s \in Binding,
         Blank \notin Text, Absent \notin Text, Absent # Blank,
         Parse(f, s).accepted
  PROVE  /\ f.fromAgent
         /\ Parse(f, s).text \in Text
         /\ f.object \in {"user", "assistant"} =>
              Parse(f, s).session = s /\ s \in Session
         /\ f.object = "internal" =>
              /\ f.ofCall /\ f.ofChannel
              /\ s # PENDING_AGENT => Parse(f, s).session = s
         /\ f.object = "user" => f.final
PROOF
<1>1. f.fromAgent
  BY DEF Parse, Refused
<1>2. CASE f \in InternalFrame
  <2>1. f.object = "internal" /\ f.text \in Text
    BY <1>2 DEF InternalFrame
  <2>2. Parse(f, s) = ParseInternal(f, s)
    BY <1>1, <2>1 DEF Parse
  <2>3. f.ofCall /\ f.ofChannel /\ s \in {f.session, PENDING_AGENT}
    BY <2>2 DEF ParseInternal, Refused
  <2> QED
    BY <1>1, <2>1, <2>2, <2>3 DEF ParseInternal
<1>3. CASE f \in UserFrame
  <2>1. f.object = "user" /\ f.text \in Text \cup {Blank}
    BY <1>3 DEF UserFrame
  <2>2. Parse(f, s) = ParseUser(f, s)
    BY <1>1, <2>1 DEF Parse
  <2>3. s # PENDING_AGENT /\ f.text # Blank /\ f.final
    BY <2>2 DEF ParseUser, Refused
  <2> QED
    BY <1>1, <2>1, <2>2, <2>3 DEF ParseUser, TranscriptEvent, Binding
<1>4. CASE f \in AssistantFrame
  <2>1. /\ f.object = "assistant"
        /\ f.text \in Text \cup {Blank, Absent} /\ f.alternate \in Text \cup {Blank, Absent}
    BY <1>4 DEF AssistantFrame
  <2>2. Parse(f, s) = ParseAssistant(f, s)
    BY <1>1, <2>1 DEF Parse
  <2>3. s # PENDING_AGENT /\ AssistantText(f) # Blank
    BY <2>2 DEF ParseAssistant, Refused
  <2>4. AssistantText(f) \in Text
    BY <2>1, <2>3 DEF AssistantText
  <2> QED
    BY <1>1, <2>1, <2>2, <2>3, <2>4 DEF ParseAssistant, TranscriptEvent, Binding
<1>5. CASE f \in UnreadableFrame
  BY <1>1, <1>5 DEF UnreadableFrame, Parse, Refused
<1> QED
  BY <1>2, <1>3, <1>4, <1>5 DEF Frame

(* Two numbered turns of a session never share a sequence number or an     *)
(* event id unless they are the same turn of the same speaker: a customer  *)
(* and an agent may count alike (stableId, rtm-transcript-frame.ts 81-106, *)
(* 263-275, 301-302).                                                      *)
THEOREM TurnsAreToldApart ==
  ASSUME NEW f \in UserFrame \cup AssistantFrame, NEW g \in UserFrame \cup AssistantFrame,
         NEW s \in Session, f.turn \in Nat, g.turn \in Nat, Absent \notin Nat
  PROVE  /\ SequenceNo(f) = SequenceNo(g) <=> f.object = g.object /\ f.turn = g.turn
         /\ StableId(s, f) = StableId(s, g) <=> f.object = g.object /\ f.turn = g.turn
PROOF
<1>1. f.object \in {"user", "assistant"} /\ g.object \in {"user", "assistant"}
  BY DEF UserFrame, AssistantFrame
<1>2. SequenceNo(f) = SequenceNo(g) <=> f.object = g.object /\ f.turn = g.turn
  BY <1>1 DEF SequenceNo
<1>3. StableId(s, f) = [session |-> s, object |-> f.object, turn |-> f.turn]
  BY DEF StableId
<1>4. StableId(s, g) = [session |-> s, object |-> g.object, turn |-> g.turn]
  BY DEF StableId
<1>5. StableId(s, f) = StableId(s, g) <=> f.object = g.object /\ f.turn = g.turn
  BY <1>3, <1>4
<1> QED
  BY <1>2, <1>5
=============================================================================
