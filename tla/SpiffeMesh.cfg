\* Two workloads per server: the siblings are dialled first.
CONSTANTS
  MaxServer = 2
  Founders = 2
  Size = 2
  ListenBase = 9103
  DialBase = 9103
  MaxVersion = 0
  MaxMarks = 1
  MaxScripts = 0
  MaxFaults = 0
SPECIFICATION FairSpec
PROPERTY MeshCompletes
CHECK_DEADLOCK FALSE
