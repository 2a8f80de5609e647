\* A leader on which Make runs again gives a sequence number out twice.  No process
\* stops by itself here: Make runs on the live leader, and resets it as it would a new one.
SPECIFICATION Spec
CHECK_DEADLOCK FALSE
CONSTANTS
  N = 4
  Client <- MCClient
  Command <- TwoCommands
  Contacted = {0}
  Slot = {0, 1}
  NoEntry = NoEntry
  NoCheckPoint = NoCheckPoint
  Digest <- HashedCommand
  StateDigest <- HashedState
  InfoDigest <- HashedInfo
  ChanCap = 3
  CheckPointInterval = 100
  SigCarried = TRUE
  CommitType = "CommitArg"
  MaxCrash = 0
  MaxMake = 1
  MaxInFlight = 6
CONSTRAINT InFlight
INVARIANTS
  SlotAgreement
