SPECIFICATION Spec
CONSTANTS
  Serials = {1}
  Statuses = {"on"}
  Links = {"up"}
  Ids = {1}
  NumPons = 2
  Candidates = {1}
  MaxClock = 6
INVARIANTS
  RunsAccountForSamples
