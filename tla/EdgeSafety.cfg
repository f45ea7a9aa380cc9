SPECIFICATION EdgeFairSpec
CONSTANTS
  MaxEdges = 2
INVARIANTS
  EdgeTypeOK
  ReadyIsEnrolled
  Supervised
PROPERTIES
  IdentityKept
  ShutdownStops
  ImplementsDaemon
  AgentRestarts
