SPECIFICATION Spec
CONSTANTS
  h1 = h1
  h2 = h2
  Hypotheses <- MCHypotheses
  Modes <- MCModes
  Reviews = {TRUE, FALSE}
  MaxEvidence = 1
  MaxSteps = 3
  RecoverySteps = 2
  MaxNoProgress = 2
  MaxDuplicates = 1
  CompactionLimit = 1
  MaxReflections = 2
  MaxNoDelta = 1
  MaxReviewRounds = 2
  MaxRecoveryCycles = 1
SYMMETRY MCSymmetry
INVARIANTS
  TypeOK
  PassIsReviewed
  ResubmissionShowsProgress
  NoProgressStops
