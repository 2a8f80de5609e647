\* The code as written under fairness: three servers, clients that call either of
\* two, two commands, and a channel that may be full before the second one.
SPECIFICATION FairSpec
CHECK_DEADLOCK FALSE
CONSTANTS
  N = 3
  Client <- MCClient
  Command <- TwoCommands
  Contacted = {0, 1}
  Slot = {0, 1}
  NoEntry = NoEntry
  NoCheckPoint = NoCheckPoint
  Digest <- HashedCommand
  StateDigest <- HashedState
  InfoDigest <- HashedInfo
  ChanCap = 3
  CheckPointInterval = 100
  SigCarried = TRUE
  CommitType = "CommitArg"
  MaxCrash = 0
  MaxMake = 0
  MaxInFlight = 6
INVARIANTS
  NothingLost
PROPERTIES
  LoggedEverywhere
  SubmittedOrdered
