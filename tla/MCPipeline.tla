----------------------------- MODULE MCPipeline -----------------------------
(***************************************************************************)
(* Pipeline for TLC: two addons that race for the collect mutex, and       *)
(* identifiers that wrap after the third message.                          *)
(***************************************************************************)
EXTENDS Pipeline, TLC

CONSTANTS a1, a2

AddonSymmetry == Permutations(Addons)
=============================================================================
