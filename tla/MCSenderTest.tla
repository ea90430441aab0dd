---------------------------- MODULE MCSenderTest ----------------------------
(***************************************************************************)
(* SenderTest for TLC: the two messages of the test, and time for two more *)
(* heartbeats.                                                             *)
(***************************************************************************)
EXTENDS SenderTest
=============================================================================
