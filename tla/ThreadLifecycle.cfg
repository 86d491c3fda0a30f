\* A thread object started up to three times.
CONSTANTS
  MaxStarts = 3
  MaxPolls = 2
SPECIFICATION FairSpec
INVARIANTS
  AtMostOneLive
  NoThreadOutlivesObject
  JoinsAThread
PROPERTIES
  StopEnds
CHECK_DEADLOCK FALSE
