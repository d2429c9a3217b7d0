CONSTANTS
  Macs = {m1}
  Uids = {u1, u2}
  Renamed = m1
  MacOf <- RenamedHost
  MaxDevices = 2
  Timeout = 0
  MaxFailures = 1
SPECIFICATION FairSpec
INVARIANTS
  TypeOK
  AgentsOwnTheirDevice
  AgentDevicesHaveAgents
  MetricsAreOfAgents
PROPERTIES
  SilentAgentsBecomeInactive
  LiveAgentsBecomeActive
  AbsentDevicesBecomeInactive
