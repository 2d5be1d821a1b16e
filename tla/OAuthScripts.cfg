CONSTANTS
  p1 = p1
  Torn = Torn
  Peer <- OnePeer
  MaxCalls = 3
  Life = 2
  Margin = 1
  MaxTime = 2
  MaxFaults = 1
SPECIFICATION DriversSpec
INVARIANT PropagatedIsAccepted
PROPERTIES
  CleanIsShut
  LateByDelayOnly
\* A script that has ended, and calls that are used up, leave nothing to do.
CHECK_DEADLOCK FALSE
