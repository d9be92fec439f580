--------------------------- MODULE MCEVMConnector ---------------------------
(* EVMConnector for TLC: on its own, with overlapping connects. *)
EXTENDS EVMConnector, TLC

Symmetry == Permutations(Tasks)
=============================================================================
