-------------------------------- MODULE MCLog -------------------------------
(***************************************************************************)
(* Log for TLC: two threads and a table of three descriptors.              *)
(***************************************************************************)
EXTENDS Log
=============================================================================
