-------------------------- MODULE MCReasonerCalls --------------------------
(* TLC instances of ReasonerCalls.  A call is estimated to need two tokens; an answer is
   billed one more, or, in the second instance, at most what was estimated. *)
EXTENDS ReasonerCalls
MCUsages == {[p |-> 1, t |-> 3]}
MCFittingUsages == {[p |-> 1, t |-> 1], [p |-> 1, t |-> 2]}
=============================================================================
