\* Publishes, commands and acknowledgements that fail; a crash of
\* the OMS, which checks its snapshot when it boots.  A failed publish is lost;
\* copies of one event in the stream are the subject of spine_projection.
SPECIFICATION Spec
CONSTANTS
  Intents = {i1, i2}
  RequestTypes = {"CREATED"}
  Schemas = {1}
  BatchLimit = 2
  SnapshotEvery = 1
  VerifyIntegrity = TRUE
  PullBatch = 1
  Faults = {"nats"}
  MaxClientEvents = 2
  MaxCommitted = 0
  MaxRegistryCrashes = 0
  MaxOmsCrashes = 1
  MaxCrashes = 1
SYMMETRY Symmetry
INVARIANTS AckFollowsCreated
PROPERTIES VerifiedIsReplay
CHECK_DEADLOCK FALSE
