\* Two servers, three replies of an earlier process, up to four to each command.
SPECIFICATION FairSpec
CHECK_DEADLOCK FALSE
CONSTANTS
  N = 2
  ResultCap = 2
  OldReplies = 3
  RepliesPerCommand = 4
  MaxIssued = 4
INVARIANTS
  TypeOK
  CommandsFollowReplies
PROPERTIES
  LateReplyIsHarmless
  QuietClientBlocks
