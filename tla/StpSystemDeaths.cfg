\* A client on a host of its own; it and the server may die and come back.
CONSTANTS
  Clients = {c1}
  LocalClients = {}
  Srv = Srv
  Nobody = Nobody
  NegotiatePeriod = 1
  PingPeriod = 2
  TokenExpires = 1
  MaxTime = 3
  MaxDeaths = 2
SPECIFICATION FairSpec
INVARIANTS
  ExpiryOfItsKey
  Conservation
PROPERTIES
  TokensMoveForward
  DeliversTokens
  AnsweredAtLast
CHECK_DEADLOCK FALSE
