\* The port numbers of set_up_cluster.sh and of main.go.
CONSTANTS
  MaxServer = 2
  Founders = 2
  Size = 2
  ListenBase = 9103
  DialBase = 8085
  MaxVersion = 1
  MaxMarks = 2
  MaxScripts = 0
  MaxFaults = 0
SPECIFICATION FairSpec
PROPERTY MeshCompletes
CHECK_DEADLOCK FALSE
