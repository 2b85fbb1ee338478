SPECIFICATION FairSpec
CONSTANTS
  h1 = h1
  h2 = h2
  b1 = b1
  k1 = k1
  k2 = k2
  k3 = k3
  NoConn = none
  Conns <- MCConns
  Callers <- MCCallers
  Handlers <- MCHandlers
  Background <- MCBackground
  MaxConcurrent = 2
CHECK_DEADLOCK FALSE
INVARIANTS
  ConnectionsAreConserved
  HealthCheckIsProtected
  RequestsAreSafe
PROPERTIES
  OperationsEnd
  ShutdownEnds
  ExchangesAreLimited
