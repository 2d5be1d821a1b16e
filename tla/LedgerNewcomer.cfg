CONSTANTS
  a = a
  b = b
  n = n
  Unset = Unset
  RawBundle <- Versions
  TrustDomain <- PairAndNewcomer
  Founders <- Pair
  Observed <- Newcomer
  PageLimit = 1
  MaxVersion = 2
  MaxBlocks = 5
  MaxDrivers = 2
  MaxFaults = 1
SPECIFICATION FairSpec
INVARIANTS
  NoStaleTrust
  MissesOnlyReordered
  PageMissNeedsRemoval
PROPERTIES
  NoRollback
  UpsertPublishes
  ListenerDrains
\* Commands are bounded: the federation comes to rest.
CHECK_DEADLOCK FALSE
