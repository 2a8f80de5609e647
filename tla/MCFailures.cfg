\* The code as written: three servers, two commands; one process may stop by
\* itself, and Make may run once more, on any server at any point.
SPECIFICATION Spec
CHECK_DEADLOCK FALSE
CONSTANTS
  N = 3
  Client <- MCClient
  Command <- TwoCommands
  Contacted = {0}
  Slot = {0, 1}
  NoEntry = NoEntry
  NoCheckPoint = NoCheckPoint
  Digest <- HashedCommand
  StateDigest <- HashedState
  InfoDigest <- HashedInfo
  ChanCap = 3
  CheckPointInterval = 100
  SigCarried = TRUE
  CommitType = "CommitArg"
  MaxCrash = 1
  MaxMake = 1
  MaxInFlight = 4
CONSTRAINT InFlight
INVARIANTS
  TypeOK
  DurableCounters
  NothingExecuted
  AgreementWhileLeaderStays
  PrepareBacked
PROPERTIES
  SlotStable
  SequencedAcrossRestarts
