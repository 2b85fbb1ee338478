SPECIFICATION Spec
CONSTANTS
  Serials = {s1}
  Candidates = {u1, u2}
  DefaultLimit = 1
  MaxLimit = 2
  Day = 2
  MaxPolls = 3
  MaxCalls = 5
  MaxRows = 4
  MaxPairs = 3
  MaxReconciles = 2
  MaxListLength = 7
  DefaultPageSize = 2
  MaxPageSize = 3
  NoNumber = NoNumber
CHECK_DEADLOCK FALSE
INVARIANTS
  StoresAgree
  QueriesAreExact
  DuplicatesAreThose
  EthernetReadsAgree
  StoredPortsAreRead
  LagsAndMembersAgree
  ConfigIsWhatWasWritten
  StacksFollowConfig
  ServedByOwnOLT
  PagesPartitionTheList
