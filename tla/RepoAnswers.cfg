CONSTANTS
  r1 = r1
  x = x
  y = y
  s1 = s1
  None = None
  Write = {1, 2, 3}
  Read <- OneRead
  Subscriber <- OneSubscriber
  TrustDomain <- Pair
  Overlap = 1
SPECIFICATION FairSpec
INVARIANT StoresWhatItAnswered
INVARIANT CleanReads
INVARIANT ReadsWereCurrent
PROPERTY EveryRequestEnds
PROPERTY HeardIsVisible
\* Requests are bounded: the server comes to rest.
CHECK_DEADLOCK FALSE
