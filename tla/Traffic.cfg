CONSTANTS
  Addresses <- MCAddresses
  Bytes <- MCBytes
  Known <- MCKnown
  TopN = 2
  MaxRows = 3
SPECIFICATION Spec
INVARIANTS
  TypeOK
  TotalsAreConserved
  ConnectionsAreConserved
  HogsHeadTheRanking
CHECK_DEADLOCK FALSE
