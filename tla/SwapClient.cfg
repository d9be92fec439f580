CONSTANTS
  Swaps = {s1, s2}
  Ops = {o1}
  Recipients = {r1, r2}
  minTTTBalance = 2
  Funds = 2
  Lifetime = 1
  MaxTime = 2
SPECIFICATION SwapSpec
SYMMETRY Symmetry
INVARIANTS
  SwapTypeOK
  ChargedOnce
  ReportedBurnsHappened
CHECK_DEADLOCK FALSE
