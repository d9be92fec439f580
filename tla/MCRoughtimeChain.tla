-------------------------- MODULE MCRoughtimeChain --------------------------
(* RoughtimeChain for TLC: one server more than a chain needs. *)
EXTENDS RoughtimeChain
=============================================================================
