CONSTANTS
  Sources = {"ntp", "https", "roughtime", "osnma"}
  KindOf <- MCKindOf
  MaxRounds = 2
SPECIFICATION Spec
INVARIANTS
  OpenIsTracked
  SettledReleases
PROPERTIES
  CallsSettle
CHECK_DEADLOCK FALSE
