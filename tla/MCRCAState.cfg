SPECIFICATION MCSpec
CONSTANTS
  o1 = o1
  o2 = o2
  e1 = e1
  e2 = e2
  Obligations = {o1, o2}
  Evidence = {e1, e2}
  Necessary = {o1}
  HypothesisIds = {1}
  Revisions = {1}
  MaxEvents = 5
CHECK_DEADLOCK FALSE
INVARIANTS
  TypeOK
  ReferentialIntegrity
PROPERTIES
  SatisfiedIsGrounded
  LifecycleMonotone
  AppendOnly
  DecidedContradictionsKept
