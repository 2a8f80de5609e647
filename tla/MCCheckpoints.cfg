\* COMMIT messages of the type the handler asserts: three servers (f = 0), two
\* commands.
SPECIFICATION Spec
CHECK_DEADLOCK FALSE
CONSTANTS
  N = 3
  Client <- MCClient
  Command <- TwoCommands
  Contacted = {0}
  Slot = {0, 1}
  NoEntry = NoEntry
  NoCheckPoint = NoCheckPoint
  Digest <- HashedCommand
  StateDigest <- HashedState
  InfoDigest <- HashedInfo
  ChanCap = 6
  CheckPointInterval = 100
  SigCarried = TRUE
  CommitType = "PrepareCommandArg"
  MaxCrash = 0
  MaxMake = 0
  MaxInFlight = 4
CONSTRAINT InFlight
INVARIANTS
  LastCheckpointRetained
  NewestCheckPointStays
  RegisterCoversReplies
  NoBlockUnderLock
  DurableCounters
