------------------------------ MODULE MCSignals -----------------------------
(***************************************************************************)
(* Signals for TLC: two addon threads.                                     *)
(***************************************************************************)
EXTENDS Signals

CONSTANTS a1, a2

MCAddonsThreads == <<a1, a2>>
=============================================================================
