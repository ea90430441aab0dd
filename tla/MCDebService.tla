---------------------------- MODULE MCDebService ----------------------------
(***************************************************************************)
(* DebService for TLC.                                                     *)
(***************************************************************************)
EXTENDS DebService
=============================================================================
