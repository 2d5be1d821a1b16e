CONSTANTS
  td1 = td1
  td2 = td2
  td3 = td3
  raw1 = raw1
  raw2 = raw2
  Unset = Unset
  TrustDomain <- MCTrustDomain
  RawBundle <- MCRawBundle
  MaxBlocks = 6
SPECIFICATION Spec
INVARIANTS
  ArrayMirrorsMappings
  PagesPartitionMembers
PROPERTY ImplementsDirectory
\* The chain is bounded by MaxBlocks: the model stops when it is full.
CHECK_DEADLOCK FALSE
