\* One process stops, and others follow.
SPECIFICATION Spec
CHECK_DEADLOCK FALSE
CONSTANTS
  N = 4
  Client <- MCClient
  Command <- OneCommand
  Contacted = {0}
  Slot = {0}
  NoEntry = NoEntry
  NoCheckPoint = NoCheckPoint
  Digest <- HashedCommand
  StateDigest <- HashedState
  InfoDigest <- HashedInfo
  ChanCap = 3
  CheckPointInterval = 100
  SigCarried = TRUE
  CommitType = "CommitArg"
  MaxCrash = 1
  MaxMake = 0
  MaxInFlight = 6
CONSTRAINT InFlight
INVARIANTS
  FailuresTolerated
