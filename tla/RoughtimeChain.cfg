\* One server more than ROUGHTIME_SERVERS lists: with three and MIN_CHAIN = 3 a
\* server that is skipped leaves no chain, and no chain has an even length.
CONSTANTS
  NumServers = 4
  Faulty = {2}
  Radii = {0, 1}
  MinChainLen = 3
  MinK = 2
  SpreadTolerance = 2
  QueryTimeout = 2
  MaxTime = 4
SPECIFICATION ChainSpec
INVARIANTS
  TimeTracksTruth
  ChainsAccepted
  RejectedForCause
CHECK_DEADLOCK FALSE
