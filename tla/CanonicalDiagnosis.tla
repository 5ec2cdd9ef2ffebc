------------------------- MODULE CanonicalDiagnosis -------------------------
(***************************************************************************)
(* What Phase A of a turn promises the rest of the runtime.  A semantic    *)
(* decision is one step or no step: staging, rejected proposals and        *)
(* rollbacks are invisible.  SemanticTransition implements this module.    *)
(***************************************************************************)
EXTENDS Naturals

CONSTANTS Obligations, Evidence, Scopes, NoScope

Open == {"OPEN", "BLOCKED_BY_CAPABILITY"}
Closed == {"NOT_APPLICABLE_BY_CAPABILITY", "SUPERSEDED_BY_REPLAN"}

VARIABLES scope,    \* the hypothesis revision every answer is about
          status,   \* lifecycle of each obligation
          support,  \* the Evidence each obligation rests on
          related,  \* admitted (scope, obligation, Evidence) relationships
          decisions \* hypothesis snapshots published so far

vars == <<scope, status, support, related, decisions>>

Relation == [scope : Scopes, obligation : Obligations, evidence : Evidence]

Init ==
  /\ scope = NoScope
  /\ status = [o \in Obligations |-> "ABSENT"]
  /\ support = [o \in Obligations |-> {}]
  /\ related = {}
  /\ decisions = 0

\* A decision stays in the scope, refines it, or opens a branch newer than all others.
Follows(new, old) ==
  \/ new = old
  \/ new.id = old.id /\ new.revision = old.revision + 1
  \/ new.id > old.id /\ new.revision = 1

\* What one decision may do to an obligation.
Lifecycle(from) ==
  CASE from = "ABSENT" -> {"ABSENT", "OPEN", "SATISFIED"}
    [] from = "OPEN" -> {"OPEN", "SATISFIED"} \cup Closed
    [] from = "SATISFIED" -> {"OPEN", "SATISFIED", "NOT_APPLICABLE_BY_CAPABILITY"}
    [] from = "BLOCKED_BY_CAPABILITY" -> {"BLOCKED_BY_CAPABILITY"} \cup Closed
    [] OTHER -> {from}

\* An answer is kept with its support, or is earned from relationships of the new scope.
Answered(o) ==
  \/ scope' = scope /\ status[o] = "SATISFIED" /\ support'[o] = support[o]
  \/ /\ support'[o] # {}
     /\ \A e \in support'[o] : [scope |-> scope', obligation |-> o, evidence |-> e] \in related'

Commit ==
  /\ decisions' = decisions + 1
  /\ Follows(scope', scope)
  /\ related \subseteq related'
  /\ \A r \in related' \ related : r.scope = scope'
  /\ \A o \in Obligations :
       /\ status'[o] \in Lifecycle(status[o])
       /\ status'[o] = "SATISFIED" => Answered(o)
       /\ status'[o] = "OPEN" => support'[o] = {}

\* A Tool circuit opens: no obligation is left open, nothing else changes.
LoseCapability ==
  /\ \A o \in Obligations :
       IF status[o] = "OPEN"
       THEN /\ status'[o] \in {"BLOCKED_BY_CAPABILITY", "NOT_APPLICABLE_BY_CAPABILITY"}
            /\ support'[o] = {}
       ELSE status'[o] = status[o] /\ support'[o] = support[o]
  /\ decisions' = decisions + 1
  /\ UNCHANGED <<scope, related>>

\* Feedback that repeats the diagnosis relates and answers nothing, though it may drop
\* obligations and put answered ones back in question.
Reconsider ==
  /\ \A o \in Obligations :
       \/ status'[o] = status[o] /\ support'[o] = support[o]
       \/ status[o] = "SATISFIED" /\ status'[o] = "OPEN" /\ support'[o] = {}
       \/ status[o] \in Open /\ status'[o] = "SUPERSEDED_BY_REPLAN"
  /\ UNCHANGED <<scope, related, decisions>>

\* Review asks for what the diagnosis never asked; nothing already known moves.
RaiseGaps ==
  /\ \A o \in Obligations :
       \/ status'[o] = status[o] /\ support'[o] = support[o]
       \/ status[o] = "ABSENT" /\ status'[o] = "OPEN" /\ support'[o] = {}
  /\ UNCHANGED <<scope, related, decisions>>

Next == Commit \/ LoseCapability \/ Reconsider \/ RaiseGaps

Spec == Init /\ [][Next]_vars
=============================================================================
