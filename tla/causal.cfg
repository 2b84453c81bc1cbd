SPECIFICATION FairSpec
CONSTANTS
  r1 = r1
  r2 = r2
  q1 = q1
  q2 = q2
  Recorders = {r1}
  Queries = {q1}
  BatchSize = 2
  Faults = {"begin", "insert", "commit"}
  MaxEvents = 4
  MaxFailures = 2
  MaxCrashes = 1
INVARIANTS TypeOK ChainIntact QueryIsFresh
PROPERTY EventuallyStored
CHECK_DEADLOCK FALSE
