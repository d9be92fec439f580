\* A window of 5 with thresholds that separate 4/5 (entry) from 3/5
\* (maintenance); the exponent cap is passed by MaxFails.
CONSTANTS
  Window = 5
  EntryPct = 80
  MaintainPct = 60
  BackoffBase = 2
  MaxExponent = 3
  Tolerance = 1
  MaxMs = 2
  MaxFails = 4
  CleanCap = 9
SPECIFICATION FairSpec
INVARIANTS TypeOK NoForcedTurbo TurboEarned PenaltyServed
PROPERTIES KeepsHysteresis CleanBuilderReachesTurbo CooldownDrains
