CONSTANTS
  p1 = p1
  Torn = Torn
  Peer <- OnePeer
  MaxCalls = 2
  Life = 1
  Margin = 0
  MaxTime = 1
  MaxFaults = 1
SPECIFICATION FairSpec
INVARIANTS
  TypeOK
  RetryIsFresh
PROPERTY EveryCallAnswered
\* Calls are used up: the workload comes to rest.
CHECK_DEADLOCK FALSE
