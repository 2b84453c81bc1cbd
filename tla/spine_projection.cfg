\* Lossless NATS, under fairness: crashes of both processes, torn files and
\* redeliveries.
SPECIFICATION FairSpec
CONSTANTS
  Intents = {i1, i2}
  RequestTypes = {"RISK_APPROVED"}
  Schemas = {1}
  BatchLimit = 2
  SnapshotEvery = 1
  VerifyIntegrity = FALSE
  PullBatch = 2
  Faults = {"disk"}
  MaxClientEvents = 2
  MaxCommitted = 3
  MaxRegistryCrashes = 1
  MaxOmsCrashes = 1
  MaxCrashes = 1
INVARIANTS ProjectionIsReplay AckedIsProjected
PROPERTIES EventuallyProjected EventuallySettled
CHECK_DEADLOCK FALSE
