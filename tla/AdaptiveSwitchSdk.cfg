\* A window of 4 with thresholds that separate 3/4 (entry) from 2/4
\* (maintenance).
CONSTANTS
  T0_epoch = T0_epoch
  T3_micro = T3_micro
  T9_unknown = T9_unknown
  txA = txA
  txB = txB
  NoTier = NoTier
  NoSave = NoSave
  TierToleranceMs <- MCTierToleranceMs
  Tiers <- MCTiers
  Times <- MCTimes
  TxOrders <- MCTxOrders
  Tolerance = 1
  windowSize = 4
  minBlocks = 4
  EntryPct = 75
  MaintainPct = 50
SPECIFICATION FairSpec
INVARIANTS TypeOK TurboBacked
PROPERTIES NoFlapping KeepsHysteresis EventualTurbo
