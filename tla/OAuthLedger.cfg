CONSTANTS
  own = own
  p1 = p1
  p2 = p2
  raw = raw
  Unset = Unset
  Torn = Torn
  Domain <- MCDomain
  Metadata <- MCMetadata
  Own = own
  Rotating <- MCRotating
  PageLimit = 1
  MaxBlocks = 4
  MaxFaults = 1
SPECIFICATION FairLedgerSpec
INVARIANTS
  IndexInvertsArray
  NoStaleAdmission
  OnlyReturnersLockedOut
  KeysFollowRotations
PROPERTIES ImplementsDirectory CatchesUp
\* The chain is bounded: when it is full the federation comes to rest.
CHECK_DEADLOCK FALSE
