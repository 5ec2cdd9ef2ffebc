SPECIFICATION Spec
CONSTANTS
  o1 = o1
  o2 = o2
  e1 = e1
  e2 = e2
  s1 = s1
  Obligations = {o1}
  Evidence = {e1, e2}
  Necessary = {o1}
  HypothesisIds <- MCIds
  Revisions <- MCIds
  Slots = {s1}
  Required <- MCRequired
  CausalSlots = {s1}
  SourceObligations = {}
  Interpretations <- MCSupportOrContradict
  Conclusions <- MCConclusions
  MaxHypotheses = 3
  MaxProposals = 2
SYMMETRY MCSymmetry
CHECK_DEADLOCK FALSE
INVARIANTS
  TypeOK
  LedgersAgree
  FinalizationSound
