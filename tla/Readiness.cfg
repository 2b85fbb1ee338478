SPECIFICATION FairSpec
CONSTANTS
  Callers = {1, 2}
  Nobody = 0
  Deps <- MCDeps
  Ttl <- MCTtl
  Unbounded = {2}
  FailureTTL = 2
  Timeout = 1
  MaxClock = 6
INVARIANTS
  AnswersWereCurrent
PROPERTIES
  ProbesAreShared
  ProbesAreSpaced
  ChecksReturn
