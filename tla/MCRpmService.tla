---------------------------- MODULE MCRpmService ----------------------------
(***************************************************************************)
(* RpmService for TLC.                                                     *)
(***************************************************************************)
EXTENDS RpmService
=============================================================================
