----------------------------- MODULE MCEventLog -----------------------------
(* Instances of EventLog for TLC. *)
EXTENDS EventLog

CONSTANTS w1, w2

MCWriter == {w1, w2}
MCInstant == {1, 2}
=============================================================================
