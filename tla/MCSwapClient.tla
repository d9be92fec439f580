---------------------------- MODULE MCSwapClient ----------------------------
(* SwapClient for TLC. *)
EXTENDS SwapClient, TLC

Symmetry == Permutations(Swaps) \cup Permutations(Recipients)
=============================================================================
