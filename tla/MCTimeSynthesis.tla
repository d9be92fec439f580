-------------------------- MODULE MCTimeSynthesis ---------------------------
(***************************************************************************)
(* The instances of TimeSynthesis that TLC checks.                         *)
(***************************************************************************)
EXTENDS TimeSynthesis, TLC

\* A precise reading, and a coarse one further off than we tolerate that
\* declares its uncertainty: a PoT of both passes or not, as the median falls.
TwoReadings ==
  {[timestamp |-> 10, uncertainty |-> 0, stratum |-> 2],
   [timestamp |-> 16, uncertainty |-> 6, stratum |-> 3]}
OneReading == {[timestamp |-> 10, uncertainty |-> 0, stratum |-> 2]}
\* A PoT of a peer with one source, and one of an HttpOnlyClient whose two
\* sources lie further apart than we tolerate.
Peers ==
  {{[source |-> 1, timestamp |-> 10, uncertainty |-> 0, stratum |-> 2]},
   {[source |-> 1, timestamp |-> 10, uncertainty |-> 0, stratum |-> 2],
    [source |-> 2, timestamp |-> 16, uncertainty |-> 0, stratum |-> 2]}}
Floors == <<1, 2, 4>>
PeerSkews == {-1, 1}

Symmetry == Permutations(Tasks)
=============================================================================
