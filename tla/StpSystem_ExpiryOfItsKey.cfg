\* One client on the server's own host, nobody dies.
CONSTANTS
  Clients = {c1}
  LocalClients = {c1}
  Srv = Srv
  Nobody = Nobody
  NegotiatePeriod = 1
  PingPeriod = 2
  TokenExpires = 1
  MaxTime = 2
  MaxDeaths = 0
SPECIFICATION Spec
INVARIANTS
  ExpiryOfItsKey
CHECK_DEADLOCK FALSE
