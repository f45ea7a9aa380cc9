SPECIFICATION DispatchedFairSpec
CONSTANTS
  Works = {w1}
  Self = w1
  MaxParallel = 0
  None = None
INVARIANTS
  SlotMeansOver
PROPERTIES
  ImplementsPollLoop
  IdleEdgeAsks
