SPECIFICATION Spec
CONSTANTS
  o1 = o1
  o2 = o2
  o3 = o3
  Observations <- MCObservations
  Contents <- MCContents
  Content <- MCContent
  Lines <- MCLines
  Source <- MCSource
  Failed <- MCNone
  Relevant <- MCNone
  Levels <- MCLevels
  Room <- MCRoom
  Envelope = 1
  Index = 1
  Overhead = 1
  ReceiptCost = 1
  ItemLimit = 1
  RowLimit = 2
  RecentCount = 1
  SoftTarget = 1
  HardLimit = 2
  RepeatWindow = 1
  RoundLimit = 2
SYMMETRY Symmetry
INVARIANTS
  TypeOK
  RecoveryKept
