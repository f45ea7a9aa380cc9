SPECIFICATION Spec
CONSTANTS
  Outputs <- One
  MaxWrite = 3
  ChunkMax = 6
  BufferMax = 8
INVARIANTS
  NoSilentGap
