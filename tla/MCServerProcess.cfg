CONSTANTS
  Clients = {c1, c2}
  Users = {u1, u2}
  StreamRoutes = {"watch", "replay"}
  MetricsEnabled = TRUE
  RetryAttempts = 2
SPECIFICATION Spec
CHECK_DEADLOCK FALSE
INVARIANTS
  GaugesMatchConnections
PROPERTIES
  NoOperationAfterShutdown
  ShutdownCompletes
