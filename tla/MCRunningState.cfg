\* Five calls; the timer as written and as time.NewTimer makes it.
SPECIFICATION FairSpec
CHECK_DEADLOCK FALSE
CONSTANTS
  PrePrepares = {p1, p2}
  Commits = {c1, c2}
  ViewChanges = {v}
  ChanCap = 1
  InitialTimer = {"zero", "running"}
INVARIANTS
  TypeOK
  LockDebt
  NeverStartsViewChange
  RestsOnce
  NoCircularWait
PROPERTIES
  ChangeStays
  ChangeEndsServer
  LockedPushEnds
