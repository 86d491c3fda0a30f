\* Two clients on hosts of their own, nobody dies.
CONSTANTS
  Clients = {c1, c2}
  LocalClients = {}
  Srv = Srv
  Nobody = Nobody
  NegotiatePeriod = 1
  PingPeriod = 2
  TokenExpires = 1
  MaxTime = 2
  MaxDeaths = 0
SPECIFICATION Spec
INVARIANTS
  TokenWasGranted
  AgreementAtRest
CHECK_DEADLOCK FALSE
