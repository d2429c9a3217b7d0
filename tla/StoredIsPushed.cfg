CONSTANTS
  Devices = {d1}
  Network = net
  DeviceMetrics = {cpu}
  NetworkMetrics = {}
  MinSamples = 2
SPECIFICATION Spec
INVARIANTS
  StoredIsPushed
