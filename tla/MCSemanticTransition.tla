------------------------ MODULE MCSemanticTransition ------------------------
(* TLC instances of SemanticTransition. *)
EXTENDS SemanticTransition, TLC

CONSTANTS o1, o2, e1, e2, s1

MCRequired == [o \in Obligations |-> {s1}]

Says(r, h, c) == [relation |-> r, hypothesis_relation |-> h, covers |-> c]

\* Full support, and contradiction of both the obligation and the hypothesis.
MCSupportOrContradict ==
  {Says("SUPPORTS", "SUPPORTS", {s1}), Says("CONTRADICTS", "CONTRADICTS", {})}

\* Adds Evidence that answers the obligation but contradicts the hypothesis.
MCMixed == {Says("SUPPORTS", "SUPPORTS", {s1}), Says("CONTRADICTS", "NEUTRAL", {}),
            Says("SUPPORTS", "CONTRADICTS", {s1})}

\* Answers the obligation, contradicts the hypothesis.
MCHypothesisOnly == {Says("SUPPORTS", "CONTRADICTS", {s1})}

MCResolved == {[status |-> "RESOLVED", severity |-> "BLOCKING"]}
MCBlockingOrResolved == MCResolved \cup {OpenBlocking}
MCConclusions == {OpenBlocking, [status |-> "RESOLVED", severity |-> "BLOCKING"],
                  [status |-> "OPEN", severity |-> "WEAK"]}

MCIds == 1..MaxHypotheses
MCSymmetry == Permutations({e1, e2})
=============================================================================
