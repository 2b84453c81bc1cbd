\* Recoveries, shocks and near misses around four verdicts.
SPECIFICATION Spec
CONSTANTS
  SclThreshold = 2
  MinCooldown = 3
  StressMax = 3
  Release = 1
  LethalLimit = 3
  Recovery = 1
  MaxHits = 2
  Persistent = FALSE
  RecordTicks = FALSE
  HydrateAtBoot = FALSE
  MaxRequests = 4
  MaxRestarts = 0
INVARIANTS
  TypeOK
  EdgeRidingBound
PROPERTIES
  GrantAfterRecovery
  GrantAfterRelief
CHECK_DEADLOCK FALSE
