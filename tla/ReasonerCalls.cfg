SPECIFICATION Spec
CONSTANTS
  InvestigationCalls = 4
  ReviewCalls = 4
  TerminalCalls = 1
  InvestigationTokens = 6
  ReviewTokens = 5
  TerminalTokens = 1
  ProjectionTokens = 1
  ProjectionFloor = 1
  Need = 2
  MaxAttempts = 2
  Usages <- MCUsages
  MaxBill = 3
  ContextRounds = 1
  CompactionLimit = 1
  MaxReflections = 1
  TriggersPerTurn = 1
  MaxReviewRounds = 2
  MaxRecoveryCycles = 1
CHECK_DEADLOCK FALSE
INVARIANTS
  TypeOK
  ReserveProtected
  ConsolidationBounded
  LedgerCoversWire
  UsagePublished
  TokensBounded
  TurnBounded
PROPERTIES
  RunEnds
