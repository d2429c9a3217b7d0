CONSTANTS
  Devices = {d1}
  MaxFiles = 2
  MaxProbes = 1
  MaxFailures = 1
SPECIFICATION Spec
INVARIANTS
  TypeOK
  SnapshotsHaveParents
  MeasurementsAreKept
  RowsAreOfOneFile
PROPERTIES
  TablesStayFilled
CHECK_DEADLOCK FALSE
