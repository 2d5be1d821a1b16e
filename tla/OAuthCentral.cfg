CONSTANTS
  own = own
  p1 = p1
  c1 = c1
  c2 = c2
  Torn = Torn
  Domain <- OneDomain
  Own = own
  Caller <- TwoCallers
  Capacity = 1
  MaxRequests = 3
  MaxFaults = 1
SPECIFICATION FairCentralSpec
INVARIANTS
  SeenIsConfigured
  UsableIsSeen
  NoStaleAdmission
  OnlyReturnersLockedOut
  KeysFollowRotations
PROPERTY EventuallyAdmitted
\* Requests are bounded: the federation comes to rest.
CHECK_DEADLOCK FALSE
