SPECIFICATION Spec
CONSTANTS
  MaxEdges = 2
INVARIANTS
  RetryNotRefused
