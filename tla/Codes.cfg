CONSTANTS
  Names = {n1, n2}
  Invitations = {i1, i2}
  Threads = {h1, h2}
  Nothing = Nothing
  Operations = {"register", "enrol", "backup", "regenerate"}
  CodesPerSet = 1
  MaxAttempts = 2
  TicksPerSecond = 2
  TicksPerStep = 2
  MaxTime = 0
  MaxSets = 3
  MaxPasswords = 1
  MaxTokens = 1
SYMMETRY Symmetry
SPECIFICATION Spec
INVARIANTS
  SingleUse
  UsedInvitationsMadeAccounts
  CodesAreLive
CHECK_DEADLOCK FALSE
