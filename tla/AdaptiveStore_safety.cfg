\* Two contexts, a window of 2 (entry 2/2, maintenance 1/2), one tolerance, a
\* cooldown of one block.
CONSTANTS
  Window = 2
  EntryPct = 95
  MaintainPct = 50
  BackoffBase = 1
  MaxExponent = 0
  Ctx = {c1, c2}
  Tolerances = {10}
  MaxStoreFails = 1
SPECIFICATION StoreSpec
SYMMETRY Symmetry
INVARIANTS StoreTypeOK StoreNoForcedTurbo NoForcedTurboSaved
 
