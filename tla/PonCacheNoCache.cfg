SPECIFICATION Spec
CONSTANTS
  c1 = c1
  c2 = c2
  c3 = c3
  Poller = poller
  NoCaller = none
  Callers <- TwoCallers
  Requests <- SerialRequests
  EmptyVersions = {2}
  MaxVersion = 2
INVARIANTS
  NoCacheSeesRealState
