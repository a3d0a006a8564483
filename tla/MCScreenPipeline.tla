-------------------------- MODULE MCScreenPipeline --------------------------
(***************************************************************************)
(* Instance of ScreenPipeline for TLC.  Sizes occur only in equalities, so *)
(* the runs without liveness may use their permutations as symmetry.       *)
(***************************************************************************)
EXTENDS ScreenPipeline, TLC

SizeSymmetry == Permutations(Sizes)

=============================================================================
