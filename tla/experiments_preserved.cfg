SPECIFICATION Spec
CONSTANTS
  f1 = f1
  f2 = f2
  LastEngine = 2
  Requests = {f1}
  Kinds = {"freeze"}
  Beside = {"promote"}
  Updates = {}
  HistoryCap = 2
  MaxTrades = 2
  MaxFreezes = 2
  MaxMoves = 1
  MaxFaults = 0
  MaxCrashes = 1
INVARIANT TradesPreserved
CHECK_DEADLOCK FALSE
