\* COMMIT messages of the type the handler asserts: four servers, one command.
SPECIFICATION Spec
CHECK_DEADLOCK FALSE
CONSTANTS
  N = 4
  Client <- MCClient
  Command <- OneCommand
  Contacted = {0}
  Slot = {0}
  NoEntry = NoEntry
  NoCheckPoint = NoCheckPoint
  Digest <- HashedCommand
  StateDigest <- HashedState
  InfoDigest <- HashedInfo
  ChanCap = 4
  CheckPointInterval = 100
  SigCarried = TRUE
  CommitType = "PrepareCommandArg"
  MaxCrash = 0
  MaxMake = 0
  MaxInFlight = 5
CONSTRAINT InFlightToStable
INVARIANTS
  ReplyBacked
  CheckpointBacked
