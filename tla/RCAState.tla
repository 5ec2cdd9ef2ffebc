------------------------------ MODULE RCAState ------------------------------
(***************************************************************************)
(* The canonical incident state under every sequence of reducer events.    *)
(* The callers of the reducer (runtime.py, evidence_pipeline.py,           *)
(* obligation_admission.py) send only some of these sequences; here the    *)
(* environment is arbitrary, as it is for the reducer, which has to fail   *)
(* closed on every event it is handed.  Rejected events leave the state as *)
(* it is and are not steps.                                                *)
(***************************************************************************)
EXTENDS RCAReducer

VARIABLE rca

vars == rca

Init == rca = EmptyRCAState

DoAddObligation(o, status, support) ==
  /\ AddObligationAllowed(rca, o, support)
  /\ rca' = AddObligation(rca, o, status, support)

DoLinkEvidence(e) ==
  /\ LinkEvidenceAllowed(rca, e)
  /\ rca' = LinkEvidence(rca, e)

DoUpdateObligation(o, target, support) ==
  /\ UpdateObligationAllowed(rca, o, target, support)
  /\ rca' = UpdateObligation(rca, o, target, support)

DoSupersedeObligation(o) ==
  /\ SupersedeObligationAllowed(rca, o)
  /\ rca' = SupersedeObligation(rca, o)

DoReopenObligation(o) ==
  /\ ReopenObligationAllowed(rca, o)
  /\ rca' = Reopen(rca, o)

DoInvalidateBranch(o) ==
  /\ InvalidateBranchAllowed(rca, o)
  /\ rca' = Reopen(rca, o)

\* The model carries the support of the snapshot; its other citations are refs.
DoSetHypothesis(h, obls, refs) ==
  /\ SetHypothesisAllowed(rca, obls, refs \cup h.support)
  /\ rca' = SetHypothesis(rca, h)

DoSetContradictions(c) ==
  /\ SetContradictionsAllowed(rca, c)
  /\ rca' = SetContradictions(rca, c)

DoContradiction(e, c) ==
  /\ AddContradictionAllowed(rca, e)
  /\ rca' = AddContradiction(rca, e, c)

DoAddSemanticRecord(E) ==
  /\ AddSemanticRecordAllowed(rca, E)
  /\ rca' = AddSemanticRecord(rca, E)

ObligationEvent ==
  \E o \in Obligations :
    \/ \E t \in ObligationStatus, S \in SUBSET Evidence :
         DoAddObligation(o, t, S) \/ DoUpdateObligation(o, t, S)
    \/ DoSupersedeObligation(o)
    \/ DoReopenObligation(o)
    \/ DoInvalidateBranch(o)

EvidenceEvent ==
  \E e \in Evidence :
    \/ DoLinkEvidence(e)
    \/ \E c \in Contradiction : DoContradiction(e, c)

SnapshotEvent ==
  \/ \E h \in Hypothesis, obls \in SUBSET Obligations, refs \in SUBSET Evidence :
       DoSetHypothesis(h, obls, refs)
  \/ \E c \in [Evidence -> Contradiction \cup {NoContradiction}] : DoSetContradictions(c)
  \/ \E E \in SUBSET Evidence : DoAddSemanticRecord(E)

Next == ObligationEvent \/ EvidenceEvent \/ SnapshotEvent

Spec == Init /\ [][Next]_vars

-----------------------------------------------------------------------------
(* Properties *)

\* Type invariant of the state record.
TypeOK == rca \in RCAStates

\* Everything the state cites is admitted Evidence: validate_invariants checks
\* obligations, contradictions and records after every event, and SET_HYPOTHESIS
\* checks the snapshot only when it is appended, so the history relies on
\* evidence_ids never shrinking.
ReferentialIntegrity ==
  /\ \A o \in Obligations : rca.support[o] \subseteq rca.evidence
  /\ Contradicted(rca) \subseteq rca.evidence
  /\ \A i \in 1..Len(rca.records) : rca.records[i] \subseteq rca.evidence
  /\ \A i \in 1..Len(rca.hypotheses) : rca.hypotheses[i].support \subseteq rca.evidence

\* Nothing but the ADD_OBLIGATION that admits it so can leave an obligation SATISFIED
\* without Evidence: an answer reached later cites some, and no event takes the
\* support of a satisfied obligation away and leaves it satisfied.  (The reducer does
\* accept an ungrounded SATISFIED payload; obligation_admission.py only sends OPEN.)
SatisfiedIsGrounded ==
  [][\A o \in Obligations :
       rca'.status[o] = "SATISFIED" /\ rca'.support[o] = {} =>
         \/ rca.status[o] = Absent
         \/ rca.status[o] = "SATISFIED" /\ rca.support[o] = {}]_vars

\* Capability loss and replanning are final: no sequence of events brings a
\* superseded or inapplicable obligation back, and a blocked one never becomes
\* answerable again (OPEN or SATISFIED) under any event.
LifecycleMonotone ==
  [][\A o \in Obligations :
       /\ rca.status[o] \in {"NOT_APPLICABLE_BY_CAPABILITY", "SUPERSEDED_BY_REPLAN"}
            => rca'.status[o] = rca.status[o]
       /\ rca.status[o] = "BLOCKED_BY_CAPABILITY"
            => rca'.status[o] \notin {"OPEN", "SATISFIED", Absent}
       /\ rca.status[o] # Absent => rca'.status[o] # Absent]_vars

\* The event log discipline behind the staleness checks of continuation.py: every
\* accepted event moves event_count by exactly one, so equal versions mean equal
\* states; Evidence, hypotheses and records only accumulate.
AppendOnly ==
  [][/\ rca'.event_count = rca.event_count + 1
     /\ rca.evidence \subseteq rca'.evidence
     /\ Len(rca'.hypotheses) >= Len(rca.hypotheses)
     /\ \A i \in 1..Len(rca.hypotheses) : rca'.hypotheses[i] = rca.hypotheses[i]
     /\ Len(rca'.records) >= Len(rca.records)
     /\ \A i \in 1..Len(rca.records) : rca'.records[i] = rca.records[i]]_vars

\* A decided contradiction can leave the tuple but is never rewritten in place:
\* RESOLVED does not become OPEN or EXPLAINED while its entry is present.
DecidedContradictionsKept ==
  [][\A e \in Evidence :
       /\ rca.contradictions[e].status \in {"RESOLVED", "EXPLAINED"}
       /\ rca'.contradictions[e] # NoContradiction
       => rca'.contradictions[e].status = rca.contradictions[e].status]_vars
=============================================================================
