\* Four sources, one of them faulty, and a nonce cache with room for one of the
\* two nonces: a lifetime of 1, peers off by one, a time to live of 2.
CONSTANTS
  NumSources = 4
  Readings <- TwoReadings
  Faulty = {2}
  FloorTolerance <- Floors
  Tasks = {t1}
  Expiry = 1
  PeerReadings <- Peers
  Skews <- PeerSkews
  NonceTtl = 2
  MaxNonceCache = 1
  MaxNonces = 2
  MaxTime = 4
SPECIFICATION Spec
INVARIANTS TypeOK NoReplay CacheBounded MedianRobust
