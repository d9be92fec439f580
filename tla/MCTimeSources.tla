--------------------------- MODULE MCTimeSources ----------------------------
(* TimeSources for TLC: a source of each class. *)
EXTENDS TimeSources

MCKindOf == [s \in Kinds |-> s]
=============================================================================
