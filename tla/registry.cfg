\* Arbitrary callers on gRPC and on the pending stream, database errors,
\* publishes and UPDATEs that fail or lose their acknowledgement, and a crash,
\* under fairness.
SPECIFICATION FairSpec
CONSTANTS
  Intents = {i1, i2}
  RequestTypes = {"ORDER_ACK", "OMS_PENDING"}
  Schemas = {1}
  BatchLimit = 1
  Faults = {"nats", "db"}
  MaxClientEvents = 2
  MaxPending = 1
  MaxCommitted = 3
  MaxRegistryCrashes = 1
INVARIANTS TypeOK CausalVersions OutboxSound
PROPERTIES ImplementsEventLog EventuallyPublished
CHECK_DEADLOCK FALSE
