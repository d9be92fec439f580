\* Two sessions, up to three records, a sweep above one entry; a tolerance of
\* up to 1, an issuer off by one and a time to live of 2.
CONSTANTS
  Sessions = {s1, s2}
  ToleranceOf <- TwoTiers
  Skews <- TwoSkews
  Ttl = 2
  SweepAbove = 1
  MaxNonces = 3
  MaxTime = 4
SPECIFICATION Spec
INVARIANTS TypeOK NoReplay
PROPERTY GarbageBounded
