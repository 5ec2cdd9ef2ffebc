SPECIFICATION Spec
CONSTANTS
  InvestigationCalls = 2
  ReviewCalls = 2
  TerminalCalls = 1
  InvestigationTokens = 5
  ReviewTokens = 4
  TerminalTokens = 1
  ProjectionTokens = 1
  ProjectionFloor = 1
  Need = 2
  MaxAttempts = 2
  Usages <- MCFittingUsages
  MaxBill = 2
  ContextRounds = 1
  CompactionLimit = 1
  MaxReflections = 1
  TriggersPerTurn = 1
  MaxReviewRounds = 2
  MaxRecoveryCycles = 1
CHECK_DEADLOCK FALSE
INVARIANTS
  ReviewReserveAvailable
