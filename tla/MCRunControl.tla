---------------------------- MODULE MCRunControl ----------------------------
(* A small run: two fingerprints of a hypothesis and one piece of Evidence to gain. *)
EXTENDS RunControl, TLC

CONSTANTS h1, h2
MCHypotheses == {h1, h2}
MCModes == {"baseline", "task_aware"}
MCSymmetry == Permutations(MCHypotheses)
=============================================================================
