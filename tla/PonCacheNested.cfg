SPECIFICATION FairSpec
CONSTANTS
  c1 = c1
  c2 = c2
  c3 = c3
  Poller = poller
  NoCaller = none
  Callers <- MCCallers
  Requests <- NestedRequests
  EmptyVersions = {2}
  MaxVersion = 1
INVARIANTS
  WaitersHaveALeader
PROPERTIES
  EveryRequestReturns
