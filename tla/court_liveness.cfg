\* Fair ticks, with verdicts that race with a hydration at boot, and a restart.
SPECIFICATION FairSpec
CONSTANTS
  SclThreshold = 2
  MinCooldown = 0
  StressMax = 3
  Release = 1
  LethalLimit = 3
  Recovery = 1
  MaxHits = 1
  Persistent = TRUE
  RecordTicks = TRUE
  HydrateAtBoot = TRUE
  MaxRequests = 1
  MaxRestarts = 1
INVARIANTS
  CountersAreReplay
PROPERTIES
  EventuallyAwake
  EventuallyReleased
CHECK_DEADLOCK FALSE
