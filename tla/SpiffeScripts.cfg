CONSTANTS
  MaxServer = 3
  Founders = 2
  Size = 1
  ListenBase = 9103
  DialBase = 9103
  MaxVersion = 1
  MaxMarks = 2
  MaxScripts = 2
  MaxFaults = 1
SPECIFICATION Spec
INVARIANTS
  CreationIsMutual
  AdditionReachesAll
  RotationHasArrived
  RemovalIsSilence
  StallsAreExplained
\* A script that has failed, or the last of the row, leaves nothing to do.
CHECK_DEADLOCK FALSE
