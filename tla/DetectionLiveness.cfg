CONSTANTS
  Devices = {d1, d2}
  Network = net
  DeviceMetrics = {cpu}
  NetworkMetrics = {}
  MinSamples = 2
SPECIFICATION FairSpec
PROPERTIES
  MeasurementsAreScored
  AnomaliesAreRaised
