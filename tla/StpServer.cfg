\* Every kind of request, crash and restart against a server of two groups.
CONSTANTS
  Guids = {g1, g2}
  ValidGuids = {g1}
  NoGuid = NoGuid
  RequestTokens <- MCTokens
  MaxGroup = 2
  MaxIdx = 2
  TokenExpires = 1
  PoolSize = 1
  MaxTime = 1
SPECIFICATION Spec
CONSTRAINT RowBound
INVARIANTS
  ConsistentUnlessTorn
  ReplyMatchesStore
  CurGroupIsLast
  IndexLeakAccounting
PROPERTIES
  RecordAfterStore
  RemovesOnlyBlankSegments
  ExpiryMonotone
  StarvedUntilRestart
