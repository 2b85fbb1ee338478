SPECIFICATION Spec
CONSTANTS
  Serials = {1}
  Statuses = {"on", "off"}
  Links = {"up"}
  Ids = {1}
  NumPons = 1
  Candidates = {}
  MaxClock = 6
INVARIANTS
  LastEventIsLastChange
