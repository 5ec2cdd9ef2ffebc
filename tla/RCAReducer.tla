----------------------------- MODULE RCAReducer -----------------------------
(***************************************************************************)
(* The pure reducer of incidents/rca_state.py.  RCAState is a frozen       *)
(* Pydantic object and `reduce` maps (state, event) to a new state or      *)
(* raises RCAStateError, so every event is a pair of operators over state  *)
(* records: XxxAllowed is the absence of an error, Xxx the new state.      *)
(*                                                                         *)
(* Abstractions.  An obligation is its identity: claim, completion         *)
(* contract and verification role never change after admission, so the     *)
(* role is the constant set Necessary (critical and role NECESSARY).       *)
(* The tuples of the code are sets where their order is never read; the    *)
(* hypothesis history, whose last entry is the active one, is a sequence.  *)
(***************************************************************************)
EXTENDS Naturals, Sequences, FiniteSets

CONSTANTS Obligations,   \* obligation identities an incident may use
          Evidence,      \* canonical ev-* identities
          Necessary,     \* obligations that are critical with role NECESSARY
          HypothesisIds, \* identities and
          Revisions      \* revisions a hypothesis may carry

ASSUME NecessaryAssumption == Necessary \subseteq Obligations

ObligationStatus == {"OPEN", "SATISFIED", "BLOCKED_BY_CAPABILITY",
                     "NOT_APPLICABLE_BY_CAPABILITY", "SUPERSEDED_BY_REPLAN"}
ContradictionStatus == {"OPEN", "RESOLVED", "EXPLAINED"}
Severity == {"WEAK", "BLOCKING"}

\* "ABSENT" stands for an identity with no entry in the tuple.
Absent == "ABSENT"
NoContradiction == [status |-> Absent, severity |-> Absent]
Contradiction == [status : ContradictionStatus, severity : Severity]
OpenBlocking == [status |-> "OPEN", severity |-> "BLOCKING"]

Hypothesis == [id : HypothesisIds, revision : Revisions, support : SUBSET Evidence]

RCAStates ==
  [status         : [Obligations -> ObligationStatus \cup {Absent}],
   support        : [Obligations -> SUBSET Evidence],
   evidence       : SUBSET Evidence,
   contradictions : [Evidence -> Contradiction \cup {NoContradiction}],
   hypotheses     : Seq(Hypothesis),
   records        : Seq(SUBSET Evidence),
   event_count    : Nat]

EmptyRCAState ==
  [status         |-> [o \in Obligations |-> Absent],
   support        |-> [o \in Obligations |-> {}],
   evidence       |-> {},
   contradictions |-> [e \in Evidence |-> NoContradiction],
   hypotheses     |-> << >>,
   records        |-> << >>,
   event_count    |-> 0]

-----------------------------------------------------------------------------
(* Projections *)

Known(s) == {o \in Obligations : s.status[o] # Absent}
Contradicted(s) == {e \in Evidence : s.contradictions[e] # NoContradiction}
Satisfied(s) == {o \in Obligations : s.status[o] = "SATISFIED"}
Active(s) == {o \in Obligations : s.status[o] \in {"OPEN", "BLOCKED_BY_CAPABILITY"}}
OpenCritical(s) == Active(s) \cap Necessary
Blocking(s) == {e \in Evidence : s.contradictions[e] = OpenBlocking}

HasHypothesis(s) == s.hypotheses # << >>
Current(s) == s.hypotheses[Len(s.hypotheses)]

\* supporting_evidence_ids and evidence_sufficient of active_hypothesis_projection.
ActiveSupport(s) ==
  Current(s).support \cup UNION {s.support[o] : o \in Satisfied(s)}
EvidenceSufficient(s) ==
  ActiveSupport(s) # {} /\ OpenCritical(s) = {} /\ Blocking(s) = {}

-----------------------------------------------------------------------------
(* Transition tables *)

\* Mutant: a blocked capability may come back.
BlockedMayRecover(from) ==
  IF from \in {"OPEN", "BLOCKED_BY_CAPABILITY"} THEN ObligationStatus ELSE {from}

ObligationMoves(from) ==
  CASE from = "OPEN" -> ObligationStatus
    [] from = "BLOCKED_BY_CAPABILITY" ->
         {"BLOCKED_BY_CAPABILITY", "NOT_APPLICABLE_BY_CAPABILITY", "SUPERSEDED_BY_REPLAN"}
    [] OTHER -> {from}

\* Mutant: no contradiction status is terminal.
AnyContradictionMove(from) == ContradictionStatus

ContradictionMoves(from) == IF from = "OPEN" THEN ContradictionStatus ELSE {from}

-----------------------------------------------------------------------------
(* The ten events *)

\* The payload is a whole VerificationObligation: any status, any admitted support,
\* and nothing asks a SATISFIED one for support.
AddObligationAllowed(s, o, support) == s.status[o] = Absent /\ support \subseteq s.evidence
AddObligation(s, o, status, support) ==
  [s EXCEPT !.status[o] = status, !.support[o] = support, !.event_count = @ + 1]

LinkEvidenceAllowed(s, e) == e \notin s.evidence
LinkEvidence(s, e) == [s EXCEPT !.evidence = @ \cup {e}, !.event_count = @ + 1]

\* Mutant: SATISFIED without supporting Evidence.
UpdateObligationUnsupported(s, o, target, support) ==
  /\ s.status[o] # Absent
  /\ target \in ObligationMoves(s.status[o])
  /\ support \subseteq s.evidence

UpdateObligationAllowed(s, o, target, support) ==
  /\ s.status[o] # Absent
  /\ target \in ObligationMoves(s.status[o])
  /\ support \subseteq s.evidence
  /\ target = "SATISFIED" => support # {}
UpdateObligation(s, o, target, support) ==
  [s EXCEPT !.status[o] = target, !.support[o] = support, !.event_count = @ + 1]

\* The superseded obligation keeps its supporting_evidence_ids.
SupersedeObligationAllowed(s, o) == o \in Active(s)
SupersedeObligation(s, o) ==
  [s EXCEPT !.status[o] = "SUPERSEDED_BY_REPLAN", !.event_count = @ + 1]

ReopenObligationAllowed(s, o) == s.status[o] = "SATISFIED"
InvalidateBranchAllowed(s, o) == s.status[o] \in {"SATISFIED", "OPEN"}
\* Mutant: a task status of the DAG written into an obligation.
ReopenAsPending(s, o) ==
  [s EXCEPT !.status[o] = "PENDING", !.support[o] = {}, !.event_count = @ + 1]

\* REOPEN_OBLIGATION and INVALIDATE_BRANCH have the same effect.
Reopen(s, o) ==
  [s EXCEPT !.status[o] = "OPEN", !.support[o] = {}, !.event_count = @ + 1]

\* Mutant: the snapshot's Evidence is not checked.
SetHypothesisUnchecked(s, obls, refs) == obls \subseteq Known(s)

\* refs: every Evidence the submitted snapshot cites; obls: the obligations it cites.
SetHypothesisAllowed(s, obls, refs) == obls \subseteq Known(s) /\ refs \subseteq s.evidence
\* Mutant: the history keeps the active snapshot only.
SetOnlyHypothesis(s, h) ==
  [s EXCEPT !.hypotheses = <<h>>, !.event_count = @ + 1]

SetHypothesis(s, h) ==
  [s EXCEPT !.hypotheses = Append(@, h), !.event_count = @ + 1]

\* The payload replaces the whole tuple: c maps the omitted Evidence to
\* NoContradiction.  Omission is never checked against the transition table.
SetContradictionsAllowed(s, c) ==
  \A e \in Evidence : c[e] # NoContradiction =>
    /\ e \in s.evidence
    /\ s.contradictions[e] # NoContradiction =>
         c[e].status \in ContradictionMoves(s.contradictions[e].status)
SetContradictions(s, c) == [s EXCEPT !.contradictions = c, !.event_count = @ + 1]

AddContradictionAllowed(s, e) == e \in s.evidence /\ s.contradictions[e] = NoContradiction
AddContradiction(s, e, c) ==
  [s EXCEPT !.contradictions[e] = c, !.event_count = @ + 1]

AddSemanticRecordAllowed(s, E) == E \subseteq s.evidence
AddSemanticRecord(s, E) ==
  [s EXCEPT !.records = Append(@, E), !.event_count = @ + 1]

=============================================================================
