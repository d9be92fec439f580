--------------------------- MODULE SlidingWindow ----------------------------
(***************************************************************************)
(* What both implementations of the adaptive switch read off their history *)
(* of block results: how many of them matched.                             *)
(***************************************************************************)
EXTENDS Integers, Sequences, FiniteSets

Matches(history) == Cardinality({i \in DOMAIN history : history[i]})
=============================================================================
