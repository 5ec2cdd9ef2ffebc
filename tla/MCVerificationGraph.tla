------------------------ MODULE MCVerificationGraph ------------------------
(* TLC instance of VerificationGraph. *)
EXTENDS VerificationGraph

CONSTANTS t1, t2, t3, o1

MCReplans == {[t \in {t3} |-> [dependencies |-> D, obligation |-> o, status |-> "COMPLETED"]] :
                D \in SUBSET {t1, t2}, o \in Obligations}
=============================================================================
