\* A checkpoint message ends a server that has not committed yet.  COMMIT messages are
\* given the type the handler asserts: as written they end their receiver before that.
SPECIFICATION Spec
CHECK_DEADLOCK FALSE
CONSTANTS
  N = 4
  Client <- MCClient
  Command <- OneCommand
  Contacted = {0}
  Slot = {0}
  NoEntry = NoEntry
  NoCheckPoint = NoCheckPoint
  Digest <- HashedCommand
  StateDigest <- HashedState
  InfoDigest <- HashedInfo
  ChanCap = 4
  CheckPointInterval = 100
  SigCarried = TRUE
  CommitType = "PrepareCommandArg"
  MaxCrash = 0
  MaxMake = 0
  MaxInFlight = 5
CONSTRAINT InFlightToStable
PROPERTIES
  UnstartedCheckPointIgnored
