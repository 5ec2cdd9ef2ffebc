SPECIFICATION Spec
CONSTANTS
  o1 = o1
  o2 = o2
  e1 = e1
  e2 = e2
  s1 = s1
  Obligations = {o1, o2}
  Evidence = {e1}
  Necessary = {o1}
  HypothesisIds <- MCIds
  Revisions <- MCIds
  Slots = {s1}
  Required <- MCRequired
  CausalSlots = {s1}
  SourceObligations = {o2}
  Interpretations <- MCMixed
  Conclusions <- MCResolved
  MaxHypotheses = 3
  MaxProposals = 1
CHECK_DEADLOCK FALSE
INVARIANTS
  SatisfiedInCurrentScope
PROPERTIES
  ImplementsCanonicalDiagnosis
