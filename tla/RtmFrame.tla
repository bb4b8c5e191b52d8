------------------------------ MODULE RtmFrame ------------------------------
(***************************************************************************)
(* What the relay makes of a message published on the call's channel       *)
(* (apps/rtm-relay: rtm-transcript-frame, deliveryModeForRtmFrame).        *)
(* Functions only; Parse is parseRtmTranscriptFrame.                       *)
(*                                                                         *)
(* A frame is a record; the letters of its text and the fields nothing     *)
(* depends on (language, durations, words) are left out.  A frame whose    *)
(* fields have the wrong shape for its object is "unreadable", with those  *)
(* that are not JSON.                                                      *)
(***************************************************************************)
EXTENDS Naturals

CONSTANTS
  Session,      \* agent session ids, issued by the provider
  Text,         \* what a turn says
  Absent        \* a field that is not there

PENDING_AGENT == "PENDING_AGENT"
Binding == Session \cup {PENDING_AGENT}

(* Blank: spaces only, or an empty string. *)
Blank == "blank"

(* turn_id of an assistant frame need not be a count; "odd" is a number    *)
(* that is negative or not whole.                                          *)
TurnId == Nat \cup {Absent}

(* turn_status: "partial" stands for 0, "0", "partial" and "in_progress",  *)
(* "terminal" for every other value.                                       *)
TurnStatus == {Absent, "partial", "terminal"}

(* A frame that a custom pipeline has already put into the internal form. *)
InternalFrame ==
  [object : {"internal"}, fromAgent : BOOLEAN, ofCall : BOOLEAN, ofChannel : BOOLEAN,
   session : Session, event : Nat, sequenceNo : Nat \ {0},
   speaker : {"CUSTOMER", "AGENT"}, text : Text]

UserFrame ==
  [object : {"user"}, fromAgent : BOOLEAN, turn : TurnId, start : TurnId,
   final : BOOLEAN, text : Text \cup {Blank}]

(* The text of the assistant is looked for in `text`, then under other     *)
(* names; Absent when none of them is a string.                            *)
AssistantFrame ==
  [object : {"assistant"}, fromAgent : BOOLEAN, turn : TurnId \cup {"odd"}, start : TurnId,
   status : TurnStatus, text : Text \cup {Blank, Absent}, alternate : Text \cup {Blank, Absent}]

UnreadableFrame == [object : {"unreadable"}, fromAgent : BOOLEAN]

Frame == InternalFrame \cup UserFrame \cup AssistantFrame \cup UnreadableFrame
-----------------------------------------------------------------------------
Refused(reason) == [accepted |-> FALSE, reason |-> reason]

(* A digest of the call, the session, the object and the turn, or the      *)
(* moment it began; stream and user follow from the object.                *)
StableId(s, f) ==
  [session |-> s, object |-> f.object,
   turn |-> IF f.turn # Absent THEN f.turn
            ELSE IF f.start # Absent THEN f.start ELSE "unknown-turn"]

(* Customers take the odd numbers, agents the even ones. *)
SequenceNo(f) ==
  LET offset == IF f.object = "user" THEN 1 ELSE 2
  IN  IF f.turn \in Nat THEN f.turn * 2 + offset ELSE offset

AssistantText(f) ==
  IF f.text # Absent THEN f.text
  ELSE IF f.alternate # Absent THEN f.alternate
  ELSE Blank

TranscriptEvent(s, f, speaker, text) ==
  [accepted |-> TRUE, event |-> StableId(s, f), session |-> s,
   sequenceNo |-> SequenceNo(f), speaker |-> speaker, text |-> text]

ParseInternal(f, s) ==
  IF ~f.ofCall THEN Refused("CALL_MISMATCH")
  ELSE IF ~f.ofChannel THEN Refused("CHANNEL_MISMATCH")
  ELSE IF s \notin {f.session, PENDING_AGENT} THEN Refused("SESSION_MISMATCH")
  ELSE [accepted |-> TRUE, event |-> [internal |-> f.event], session |-> f.session,
        sequenceNo |-> f.sequenceNo, speaker |-> f.speaker, text |-> f.text]

(* The status of an assistant's turn is not looked at here: what is still  *)
(* being said is accepted, and delayed by DeliveryMode.                    *)
ParseAssistant(f, s) ==
  IF s = PENDING_AGENT THEN Refused("SESSION_PENDING")
  ELSE IF AssistantText(f) = Blank THEN Refused("PARTIAL")
  ELSE TranscriptEvent(s, f, "AGENT", AssistantText(f))

ParseUser(f, s) ==
  IF s = PENDING_AGENT THEN Refused("SESSION_PENDING")
  ELSE IF f.text = Blank \/ ~f.final THEN Refused("PARTIAL")
  ELSE TranscriptEvent(s, f, "CUSTOMER", f.text)

Parse(f, s) ==
  IF ~f.fromAgent THEN Refused("PUBLISHER_MISMATCH")
  ELSE CASE f.object = "internal"   -> ParseInternal(f, s)
         [] f.object = "assistant"  -> ParseAssistant(f, s)
         [] f.object = "user"       -> ParseUser(f, s)
         [] f.object = "unreadable" -> Refused("MALFORMED")

(* Only the assistant's turns wait for a quiet window, and not when the    *)
(* status says that the turn is over.                                      *)
DeliveryMode(f) ==
  IF f.object = "assistant" /\ f.status \in {Absent, "partial"}
    THEN "debounced" ELSE "immediate"
=============================================================================
