CONSTANTS
  Names = {n1}
  Invitations = {i1}
  Threads = {h1, h2}
  Nothing = Nothing
  Operations = {"register", "login", "enrol", "totp", "recovery", "reset"}
  CodesPerSet = 1
  MaxAttempts = 2
  TicksPerSecond = 2
  TicksPerStep = 2
  MaxTime = 3
  MaxSets = 1
  MaxPasswords = 3
  MaxTokens = 1
SYMMETRY Symmetry
SPECIFICATION Spec
INVARIANTS
  TypeOK
  CurrentTokensFollowThePassword
  SingleUse
  AttemptsAreFailures
PROPERTIES
  AccountsOnlyAdvance
CHECK_DEADLOCK FALSE
