SPECIFICATION FairSpec
INVARIANTS
  TypeOK
  OneTerminal
  NothingLate
  Truthful
  PostHookUndoes
  NothingLeft
PROPERTIES
  CancelEnds
  WorkEnds
