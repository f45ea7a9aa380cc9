SPECIFICATION FairSpec
CONSTANTS
  Works = {w1, w2, w3}
  MaxParallel = 2
  None = None
INVARIANTS
  TypeOK
  SlotsConserved
  NoMissedWakeup
  InterruptLosesNoWork
  CancelsTrackWorks
PROPERTIES
  ImplementsWorkPool
  ShutdownExits
  FreedSlotAdvertised
  CancelEndsWork
