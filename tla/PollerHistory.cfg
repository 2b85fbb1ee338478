SPECIFICATION Spec
CONSTANTS
  Serials = {1}
  Statuses = {"on", "off"}
  Links = {"up", "unread"}
  Ids = {1, 2}
  NumPons = 1
  Candidates = {}
  MaxClock = 4
INVARIANTS
  TypeOK
  IdentityHasSample
  IdentityMatchesLog
  PortMatchesLog
  StatusLogChains
