CONSTANTS
  MaxServer = 3
  Founders = 2
  Size = 1
  ListenBase = 9103
  DialBase = 9103
  MaxVersion = 1
  MaxMarks = 2
  MaxScripts = 1
  MaxFaults = 1
SPECIFICATION Spec
INVARIANT AdditionIsMutual
CHECK_DEADLOCK FALSE
