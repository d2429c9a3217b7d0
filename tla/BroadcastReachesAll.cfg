CONSTANTS
  Clients = {c1, c2, c3}
  Nobody = nobody
  Api = api
  Engine = engine
  MaxAlerts = 1
SPECIFICATION FairSpec
PROPERTIES
  BroadcastReachesAll
CHECK_DEADLOCK FALSE
