--------------------------- MODULE MCVoiceSession ---------------------------
(* Instances of VoiceSession for TLC. *)
EXTENDS VoiceSession, TLC

MCCommand == (Starter \X {"open", "bind", "close"}) \cup (Stopper \X {"close"})
=============================================================================
