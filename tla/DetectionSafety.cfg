CONSTANTS
  Devices = {d1, d2}
  Network = net
  DeviceMetrics = {cpu}
  NetworkMetrics = {lat}
  MinSamples = 2
SPECIFICATION Spec
SYMMETRY Symmetry
INVARIANTS
  TypeOK
  EventsAreOngoing
  OneAlertPerEvent
  PushedIsStored
PROPERTIES
  KeepsLifecycle
