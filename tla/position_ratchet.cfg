SPECIFICATION Spec
CONSTANTS
  Policies = {"HYBRID_SCALE_OUT"}
  TimeLimit = 1
  MaxCapital = 1
  MaxCandles = 2
  MaxRequests = 1
  MaxCrashes = 1
PROPERTY StopRatchets
CHECK_DEADLOCK FALSE
