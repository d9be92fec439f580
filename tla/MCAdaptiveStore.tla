--------------------------- MODULE MCAdaptiveStore --------------------------
(***************************************************************************)
(* The instance of AdaptiveStore that TLC checks.                          *)
(***************************************************************************)
EXTENDS AdaptiveStore, TLC

Symmetry == Permutations(Ctx)
=============================================================================
