CONSTANTS
  deployer = deployer
  Users = {deployer}
  Ids = {0, 1}
  Configs <- MCConfigs
  Liquidity = 1
  HoursPerDay = 2
  MaxMints = 1
  MaxEvents = 3
  MaxSwaps = 2
  MaxHours = 2
SPECIFICATION StatsSpec
INVARIANTS
  IndexAgrees
  VerifiedWereSwapped
CHECK_DEADLOCK FALSE
