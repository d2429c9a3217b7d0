CONSTANTS
  Names = {n1}
  Invitations = {i1}
  Threads = {h1, h2}
  Nothing = Nothing
  Operations = {"register", "recovery", "reset"}
  CodesPerSet = 1
  MaxAttempts = 2
  TicksPerSecond = 2
  TicksPerStep = 2
  MaxTime = 3
  MaxSets = 1
  MaxPasswords = 2
  MaxTokens = 1
SPECIFICATION Spec
INVARIANTS
  FreshTokensAreAdmitted
CHECK_DEADLOCK FALSE
