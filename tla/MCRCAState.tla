---------------------------- MODULE MCRCAState ------------------------------
(* TLC instance of RCAState: runs of at most MaxEvents accepted events. *)
EXTENDS RCAState, TLC

CONSTANTS o1, o2, e1, e2, MaxEvents

MCNext == rca.event_count < MaxEvents /\ Next

MCSpec == Init /\ [][MCNext]_vars
=============================================================================
