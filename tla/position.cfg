SPECIFICATION FairSpec
CONSTANTS
  Policies = {"TIME", "HYBRID_SCALE_OUT"}
  TimeLimit = 1
  MaxCapital = 1
  MaxCandles = 2
  MaxRequests = 1
  MaxCrashes = 1
INVARIANTS TypeOK ClosedOnce CapitalExact TimeExitHolds
PROPERTY EventuallySaved
CHECK_DEADLOCK FALSE
