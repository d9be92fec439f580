-------------------------- MODULE MedianOfSources ---------------------------
(***************************************************************************)
(* The time that a set of readings agrees on, as TimeSynthesis (both in    *)
(* synthesize and in generateProofOfTime) and HttpOnlyClient.generatePoT   *)
(* compute it.  A reading has a source, a timestamp and a stratum; the     *)
(* source is its place in the array, which a stable sort keeps.            *)
(***************************************************************************)
EXTENDS Integers, FiniteSets

\* Array.sort of the readings: by timestamp, in the order of the sources.
Before(a, b) == \/ a.timestamp < b.timestamp
                \/ a.timestamp = b.timestamp /\ a.source < b.source

\* sorted[k], counting from 0
AtRank(R, k) == CHOOSE r \in R : Cardinality({q \in R : Before(q, r)}) = k

Lower(a, b) == IF a < b THEN a ELSE b

\* Mutant of Median that takes the last reading
Latest(R) == LET m == AtRank(R, Cardinality(R) - 1)
             IN  [timestamp |-> m.timestamp, stratum |-> m.stratum]

\* One reading stands, two are averaged, of more the (upper) median is taken.
Median(R) ==
  LET n == Cardinality(R)
      a == AtRank(R, 0)
      b == AtRank(R, 1)
      m == AtRank(R, n \div 2)
  IN  IF n = 2
      THEN [timestamp |-> (a.timestamp + b.timestamp) \div 2,
            stratum   |-> Lower(a.stratum, b.stratum)]
      ELSE [timestamp |-> m.timestamp, stratum |-> m.stratum]
=============================================================================
