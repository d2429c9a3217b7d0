CONSTANTS
  Clients = {c1, c2, c3}
  Nobody = nobody
  Api = api
  Engine = engine
  MaxAlerts = 1
SPECIFICATION FairSpec
INVARIANTS
  TypeOK
  ReadersAreActive
PROPERTIES
  GoneAreForgotten
  ClientsAreUpdated
CHECK_DEADLOCK FALSE
