\* A server of two groups and a client on one host.
CONSTANTS
  Servers = {s}
  Clients = {c}
  MaxGroup = 2
  ServerSize = 2
  MaxSegs = 4
SPECIFICATION FairSpec
INVARIANTS
  SharedUnlessRaced
  LargeEnough
PROPERTIES
  UsedKeepsItsName
  StartEnds
