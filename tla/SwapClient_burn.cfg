CONSTANTS
  Swaps = {s1}
  Ops = {o1}
  Recipients = {r1, r2}
  minTTTBalance = 2
  Funds = 2
  Lifetime = 1
  MaxTime = 1
SPECIFICATION SwapSpec
INVARIANTS
  FeesDeducted
CHECK_DEADLOCK FALSE
