CONSTANTS
  Tasks = {t1, t2}
  Fallbacks = 1
  maxReconnectAttempts = 3
  MaxProviders = 4
  MaxContracts = 3
  MaxSubscriptions = 2
SPECIFICATION Spec
SYMMETRY Symmetry
INVARIANTS
  TypeOK
  ListenersTracked
  AttachedUsable
