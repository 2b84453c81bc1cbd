SPECIFICATION FairSpec
CONSTANTS
  f1 = f1
  f2 = f2
  LastEngine = 2
  Requests = {f1}
  Kinds = {"freeze", "wipe"}
  Beside = {"promote", "reset", "retention"}
  Updates = {"ACTIVE"}
  HistoryCap = 1
  MaxTrades = 2
  MaxFreezes = 1
  MaxMoves = 1
  MaxFaults = 1
  MaxCrashes = 1
INVARIANTS TypeOK OneActive TradesAccounted
PROPERTY EventuallySynced
CHECK_DEADLOCK FALSE
