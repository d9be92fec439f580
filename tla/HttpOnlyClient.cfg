\* Two clients with secrets of their own, each reached by the other's PoTs, with
\* room for one of two nonces, a lifetime of 1 and a time to live of 1.
CONSTANTS
  c1 = c1
  c2 = c2
  Clients = {c1, c2}
  Secret <- TwoSecrets
  Expiry <- ExpiryOne
  Tolerance = 2
  Fetches <- OneCloseOrApart
  NonceTtl = 1
  MaxNonceCache = 1
  MaxNonces = 2
  MaxTime = 3
SPECIFICATION Spec
INVARIANTS TypeOK NoReplay AcceptedAsGenerated
