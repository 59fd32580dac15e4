------------------------------ MODULE MCShutdown ------------------------------
(***************************************************************************)
(* Shutdown for TLC.  With the shorter timeout the least budget counts, with *)
(* the longer one the slack, which the longer grace can use up.            *)
(***************************************************************************)
EXTENDS Shutdown

TheTriggers == {"startup", "schedule", "webhook"}
=============================================================================
