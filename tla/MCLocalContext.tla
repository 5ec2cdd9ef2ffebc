--------------------------- MODULE MCLocalContext ---------------------------
(* Three Observations: a long source read, another body, and a repeat of the second. *)
EXTENDS LocalContext, TLC

CONSTANTS o1, o2, o3
MCObservations == {o1, o2, o3}
MCContents == {"source", "text"}
MCContent == [o \in MCObservations |-> IF o = o1 THEN "source" ELSE "text"]
MCLines == [c \in MCContents |-> IF c = "source" THEN 3 ELSE 2]
MCSource == {"source"}
MCLevels == {"NORMAL", "HARD_PRESSURE"}
MCRoom == [l \in MCLevels |-> IF l = "NORMAL" THEN 5 ELSE 4]
MCNone == {}
Symmetry == Permutations({o2, o3})
=============================================================================
