SPECIFICATION FairSpec
CONSTANTS
  Outputs <- Small
  MaxWrite = 3
  ChunkMax = 6
  BufferMax = 8
INVARIANTS
  TypeOK
  WholeRunes
  WholeLines
  GapMarked
PROPERTIES
  CloseReturns
  ImplementsLossyLog
