SPECIFICATION Spec
CONSTANTS
  c1 = c1
  c2 = c2
  c3 = c3
  Poller = poller
  NoCaller = none
  Callers <- TwoCallers
  Requests <- ListRequests
  EmptyVersions = {2}
  MaxVersion = 2
SYMMETRY PairSymmetry
INVARIANTS
  TypeOK
  PollerReadsFresh
  QuietClearIsEffective
