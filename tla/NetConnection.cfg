CONSTANTS
  Msgs <- MCMsgs
  BodyLen <- MCBodyLen
  HeadSize = 2
  MaxSent = 3
SPECIFICATION FairSpec
INVARIANTS
  NeverReadsAhead
PROPERTIES
  ImplementsQueue
  PacedPacketsArrive
CHECK_DEADLOCK FALSE
