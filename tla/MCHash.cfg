\* Values nested to depth two.
SPECIFICATION FairSpec
CHECK_DEADLOCK FALSE
CONSTANTS
  MaxDepth = 2
  Unset = Unset
  Value <- MCValue
  Kind <- KindOf
  Content <- ContentOf
  Visits <- VisitsOf
  BitXor <- MCXor
INVARIANTS
  TypeOK
  CallersNeverPanic
  DigestsCoincide
  WalkComputesHash
PROPERTIES
  WalkEnds
