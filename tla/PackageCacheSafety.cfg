SPECIFICATION Spec
CONSTANTS
  w1 = w1
  w2 = w2
  w3 = w3
  p1 = p1
  p2 = p2
  Works = {w1, w2, w3}
  Packages = {p1, p2}
  Needs <- MCNeeds
INVARIANTS
  TypeOK
  CacheWhole
  HasPackages
  NoOrphan
