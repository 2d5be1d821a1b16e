CONSTANTS
  r1 = r1
  x = x
  y = y
  s1 = s1
  None = None
  Write = {1, 2}
  Read <- NoRead
  Subscriber <- NoSubscriber
  TrustDomain <- Pair
  Overlap = 2
SPECIFICATION Spec
SYMMETRY Symmetry
INVARIANT UpsertIsStored
\* Requests are bounded: the server comes to rest.
CHECK_DEADLOCK FALSE
