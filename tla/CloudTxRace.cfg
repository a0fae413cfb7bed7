SPECIFICATION Spec
CONSTANTS
  FifoLen = 2
  SessLen = 2
  Deferrable = 1
  BufMax = 2
  MaxEvents = 1
  MaxTwins = 0
  MaxFaults = 1
  Kinds = {"drop"}
INVARIANT ReplayFirst
