SPECIFICATION Spec
CONSTANTS
  s1 = s1
  s2 = s2
  online = online
  offline = offline
  up = up
  down = down
  Serials <- MCSerials
  Statuses <- MCStatuses
  Links <- MCLinks
  Ports <- MCPorts
  Models <- MCModels
  MaxOld = 3
  MaxSamples = 3
SYMMETRY Symmetry
INVARIANTS
  TypeOK
  StatusLogIsSampleHistory
  LogContinues
  SinceIsNewestEvent
  PortTableMatchesLog
PROPERTIES
  LogsOnlyGrow
