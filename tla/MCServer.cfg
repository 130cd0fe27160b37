CONSTANTS
  Conn <- MCConn
  MaxConnections = 2
SPECIFICATION Spec
INVARIANTS
  BoundExact
  NothingAfterStop
PROPERTIES
  ShutdownCompletes
