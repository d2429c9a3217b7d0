CONSTANTS
  Agents = {a1, a2}
  Main = main
  Nobody = nobody
  Rotation = 1
  MaxTime = 2
  MaxPackets = 2
  MaxMishaps = 1
SPECIFICATION FairSpec
INVARIANTS
  TypeOK
  FinishedFilesAreHanded
PROPERTIES
  KeepsPackets
  HandedFilesAreFrozen
  PacketsAreSettled
