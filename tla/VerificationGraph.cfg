SPECIFICATION GraphSpec
CONSTANTS
  t1 = t1
  t2 = t2
  t3 = t3
  o1 = o1
  None = None
  Tasks = {t1, t2, t3}
  Obligations = {o1}
  MaxLocalReplans = 1
  Replans <- MCReplans
  Claims = {"PENDING", "COMPLETED"}
CHECK_DEADLOCK FALSE
INVARIANTS
  GraphTypeOK
  StatusesSettled
  PendingHasReady
  NothingLeftPending
PROPERTIES
  HistoryKept
  RunReturns
