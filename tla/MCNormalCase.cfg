\* The code as written: four servers, two commands, and one call of
\* startViewChange.
SPECIFICATION VCSpec
CHECK_DEADLOCK FALSE
CONSTANTS
  N = 4
  Client <- MCClient
  Command <- TwoCommands
  Contacted = {0}
  Slot = {0, 1}
  NoEntry = NoEntry
  NoCheckPoint = NoCheckPoint
  Digest <- HashedCommand
  StateDigest <- HashedState
  InfoDigest <- HashedInfo
  ChanCap = 3
  CheckPointInterval = 100
  SigCarried = TRUE
  CommitType = "CommitArg"
  MaxCrash = 0
  MaxMake = 0
  MaxInFlight = 5
  MaxStarts = 1
CONSTRAINT InFlight
INVARIANTS
  VCTypeOK
  SlotAgreement
  ViewNeverMoves
  CertificateBacked
PROPERTIES
  ImplementsSequencedLog
  PreparedCarried
