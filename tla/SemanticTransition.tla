------------------------- MODULE SemanticTransition -------------------------
(***************************************************************************)
(* Phase A of a diagnostic turn: the staged semantic transaction of        *)
(* incidents/runtime.py (semantic_transition, stage_planner,               *)
(* build_hypothesis, qualify_current_evidence_set, stage_reflection_delta) *)
(* with the evidence pipeline and the reducer it drives, the capability    *)
(* blocks applied between turns, and FinalizationPolicy.evaluate.          *)
(*                                                                         *)
(* `live` holds the published stores and `staged` the detached copies a    *)
(* transaction works on; outside a transaction they are equal.             *)
(*                                                                         *)
(* Abstractions.  A proposal is judged by its structure: the Evidence it   *)
(* reads, the obligation it addresses, its two relations and the fact      *)
(* slots it covers.  A proposal that any admission check turns away is     *)
(* RejectProposal, an error raised while staging is Raise.  Evidence whose *)
(* content was already admitted under another Observation is the same      *)
(* member of Evidence.  The text fields of a candidate, source coverage    *)
(* and the fault taxonomy are taken as complete, which makes finalization  *)
(* here at least as permissive as in the code.                             *)
(***************************************************************************)
EXTENDS RCAReducer

CONSTANTS Slots,            \* fact slots
          Required,         \* [Obligations -> SUBSET Slots]: completion contracts
          CausalSlots,      \* slots whose role is MECHANISM or CAUSAL_LINK
          SourceObligations,\* source-mechanism obligations
          Interpretations,  \* the (relation, hypothesis_relation, covers) a proposal may make
          Conclusions,      \* the contradictions a model may declare
          MaxHypotheses,    \* bound: length of the hypothesis history
          MaxProposals      \* bound: Evidence proposals of one turn

Relations == {"SUPPORTS", "CONTRADICTS", "NEUTRAL"}
Interpretation == [relation : Relations, hypothesis_relation : Relations, covers : SUBSET Slots]

ASSUME SemanticAssumption ==
  /\ IsFiniteSet(Obligations) /\ IsFiniteSet(Evidence)
  /\ Required \in [Obligations -> SUBSET Slots]
  /\ \A o \in Obligations : Required[o] # {}
  /\ CausalSlots \subseteq Slots
  /\ SourceObligations \subseteq Obligations
  /\ Interpretations \subseteq Interpretation
  /\ Conclusions \subseteq Contradiction
  /\ MaxHypotheses \in Nat \ {0} /\ MaxProposals \in Nat
  /\ HypothesisIds = 1..MaxHypotheses /\ Revisions = 1..MaxHypotheses

VARIABLES captured,  \* Evidence bodies whose Observation is in ObservationStore
          live,      \* published stores
          staged,    \* stores of the transaction under way
          turn       \* control state of that transaction

vars == <<captured, live, staged, turn>>

Scope == [id : HypothesisIds, revision : Revisions]
NoScope == [id |-> 0, revision |-> 0]
ScopeOf(h) == [id |-> h.id, revision |-> h.revision]
CurrentScope(s) == IF HasHypothesis(s) THEN ScopeOf(Current(s)) ELSE NoScope

\* ProjectedEvidenceFact; a fact is its own relationship key.
Fact == [evidence : Evidence, obligation : Obligations, scope : Scope,
         relation : Relations, hypothesis_relation : Relations, covers : SUBSET Slots]

EvidenceSet == [scope : Scope, semantic_status : {"SATISFIES", "CONTRADICTS", "PARTIAL", "INSUFFICIENT"},
                coverage : [Slots -> SUBSET Evidence]]
NoSet == [scope |-> NoScope, semantic_status |-> "NONE", coverage |-> [s \in Slots |-> {}]]

Stores == [rca : RCAStates, pinned : SUBSET Evidence, facts : SUBSET Fact,
           sets : [Obligations -> [HypothesisIds -> EvidenceSet \cup {NoSet}]]]

EmptyStores ==
  [rca |-> EmptyRCAState, pinned |-> {}, facts |-> {},
   sets |-> [o \in Obligations |-> [i \in HypothesisIds |-> NoSet]]]

Kinds == {"INITIAL", "KEEP_CURRENT", "REFINE", "REPLACE"}
NoContradictions == [e \in Evidence |-> NoContradiction]

Idle == [pc |-> "idle", kind |-> "NONE", scope |-> NoScope, supersede |-> {},
         contradictions |-> NoContradictions, cited |-> {}, evidence |-> {},
         proposals |-> 0, rejected |-> FALSE]

Turns == [pc : {"idle", "evidence", "build", "proposed", "publish"},
          kind : Kinds \cup {"NONE"}, scope : Scope \cup {NoScope},
          supersede : SUBSET Obligations,
          contradictions : [Evidence -> Contradiction \cup {NoContradiction}],
          cited : SUBSET Evidence, evidence : SUBSET Evidence,
          proposals : 0..MaxProposals, rejected : BOOLEAN]

-----------------------------------------------------------------------------
(* Evidence relationships and qualification *)

InScope(facts, scope) == {f \in facts : f.scope = scope}

\* Evidence with an admitted relationship marked CONTRADICTS in the scope.
Grounded(facts, scope) ==
  {f.evidence : f \in {g \in InScope(facts, scope) :
                         "CONTRADICTS" \in {g.relation, g.hypothesis_relation}}}

Decided(rca) == {e \in Evidence : rca.contradictions[e].status \in {"RESOLVED", "EXPLAINED"}}

FactsOf(st, o, scope) == {f \in InScope(st.facts, scope) : f.obligation = o}

Contradicting(st, o, scope) ==
  {f.evidence : f \in {g \in FactsOf(st, o, scope) : g.relation = "CONTRADICTS"}} \ Decided(st.rca)

Coverage(st, o, scope) ==
  [s \in Slots |-> {f.evidence : f \in {g \in FactsOf(st, o, scope) :
                      s \in g.covers /\ g.relation # "CONTRADICTS"}}]

Complete(coverage, o) == \A s \in Required[o] : coverage[s] # {}

Qualify(st, o, scope) ==
  LET coverage == Coverage(st, o, scope) IN
  [scope |-> scope, coverage |-> coverage,
   semantic_status |->
     IF Contradicting(st, o, scope) # {} THEN "CONTRADICTS"
     ELSE IF Complete(coverage, o) THEN "SATISFIES"
     ELSE IF \E f \in FactsOf(st, o, scope) : f.covers # {} THEN "PARTIAL"
     ELSE "INSUFFICIENT"]

\* Obligations of O that propose_rca_events moves to SATISFIED.
Closing(st, O, scope) ==
  {o \in O : st.rca.status[o] = "OPEN" /\ Qualify(st, o, scope).semantic_status = "SATISFIES"}

\* qualify_current_evidence_set for every obligation of O, in any order: the
\* EvidenceSets are stored and the reducer events applied.  Qualifying one
\* obligation changes nothing another one reads.
Qualified(st, O, scope) ==
  LET closing == Closing(st, O, scope)
      linked  == (UNION {{f.evidence : f \in FactsOf(st, o, scope)} : o \in O}) \ st.rca.evidence
      opened  == (UNION {Contradicting(st, o, scope) : o \in O}) \ Contradicted(st.rca)
      rca     == [st.rca EXCEPT
        !.evidence = @ \cup linked,
        !.contradictions = [e \in Evidence |-> IF e \in opened THEN OpenBlocking ELSE @[e]],
        !.status = [o \in Obligations |-> IF o \in closing THEN "SATISFIED" ELSE @[o]],
        !.support = [o \in Obligations |->
                       IF o \in closing THEN UNION {Coverage(st, o, scope)[s] : s \in Required[o]}
                       ELSE @[o]],
        !.event_count = @ + Cardinality(linked) + Cardinality(opened) + Cardinality(closing)]
  IN [st EXCEPT !.rca = rca,
                !.sets = [o \in Obligations |->
                            IF o \in O THEN [@[o] EXCEPT ![scope.id] = Qualify(st, o, scope)]
                            ELSE @[o]]]

-----------------------------------------------------------------------------
(* Opening a transaction *)

\* Mutant: every branch is numbered 1.
ResolvedFirstScope(rca, kind) ==
  CASE kind = "KEEP_CURRENT" -> CurrentScope(rca)
    [] kind = "REFINE" -> [CurrentScope(rca) EXCEPT !.revision = @ + 1]
    [] OTHER -> [id |-> 1, revision |-> 1]

\* Mutant: a branch is numbered by the hypotheses before it.
ResolvedPreviousScope(rca, kind) ==
  CASE kind = "KEEP_CURRENT" -> CurrentScope(rca)
    [] kind = "REFINE" -> [CurrentScope(rca) EXCEPT !.revision = @ + 1]
    [] OTHER -> [id |-> Len(rca.hypotheses), revision |-> 1]

\* resolve_hypothesis: which scope the transition kind leads to.
ResolvedScope(rca, kind) ==
  CASE kind = "KEEP_CURRENT" -> CurrentScope(rca)
    [] kind = "REFINE" -> [CurrentScope(rca) EXCEPT !.revision = @ + 1]
    [] OTHER -> [id |-> Len(rca.hypotheses) + 1, revision |-> 1]

TransitionAllowed(rca, kind, supersede) ==
  /\ (kind = "INITIAL") = (~HasHypothesis(rca))
  /\ supersede \subseteq Active(rca)
  /\ Len(rca.hypotheses) < MaxHypotheses

\* Mutant: a new revision inherits what the old one satisfied.
NotReopened(rca) == rca

\* REOPEN_OBLIGATION of every satisfied obligation: a new revision inherits
\* neither satisfaction nor coverage.
Reopened(rca) ==
  [rca EXCEPT
     !.status = [o \in Obligations |-> IF o \in Satisfied(rca) THEN "OPEN" ELSE @[o]],
     !.support = [o \in Obligations |-> IF o \in Satisfied(rca) THEN {} ELSE @[o]],
     !.event_count = @ + Cardinality(Satisfied(rca))]

\* Contradictions belong to the relationships of one hypothesis scope.
Invalidated(rca, kind) ==
  IF kind = "KEEP_CURRENT" THEN rca
  ELSE Reopened(IF Contradicted(rca) = {} THEN rca ELSE SetContradictions(rca, NoContradictions))

\* Structured contradictions may name only Evidence that is contradictory in
\* the scope shown to the model.
Citable(rca, facts) ==
  LET citable == Grounded(facts, CurrentScope(rca)) IN
  {[e \in Evidence |-> IF e \in citable THEN c[e] ELSE NoContradiction] :
     c \in [citable -> Conclusions \cup {NoContradiction}]}

\* Mutant: the active blocking contradictions are not copied into the decision.
BeginPlannerUncited(kind, supersede, c) ==
  /\ TransitionAllowed(live.rca, kind, supersede)
  /\ staged' = [live EXCEPT !.rca = Invalidated(@, kind)]
  /\ turn' = [Idle EXCEPT
       !.pc = IF kind = "KEEP_CURRENT" THEN "evidence" ELSE "build",
       !.kind = kind, !.scope = ResolvedScope(live.rca, kind), !.supersede = supersede,
       !.contradictions = c]
  /\ UNCHANGED <<captured, live>>

BeginPlanner(kind, supersede, c) ==
  /\ TransitionAllowed(live.rca, kind, supersede)
  /\ staged' = [live EXCEPT !.rca = Invalidated(@, kind)]
  /\ turn' = [Idle EXCEPT
       !.pc = IF kind = "KEEP_CURRENT" THEN "evidence" ELSE "build",
       !.kind = kind, !.scope = ResolvedScope(live.rca, kind), !.supersede = supersede,
       !.contradictions = c,
       \* KEEP_CURRENT copies contradicting_evidence_ids from the active projection.
       !.cited = IF kind = "KEEP_CURRENT" THEN Blocking(live.rca) ELSE {}]
  /\ UNCHANGED <<captured, live>>

-----------------------------------------------------------------------------
(* Staging a Planner decision *)

\* Under KEEP_CURRENT the proposals address the current scope and are admitted
\* before the hypothesis is rebuilt; under REFINE and REPLACE they address the
\* proposed scope and are admitted after it.  A duplicate relationship changes
\* nothing and is no step.
AdmitEvidence(e, o, i) ==
  LET fact == [evidence |-> e, obligation |-> o, scope |-> turn.scope,
               relation |-> i.relation, hypothesis_relation |-> i.hypothesis_relation,
               covers |-> i.covers]
      admitted == [staged EXCEPT !.facts = @ \cup {fact}, !.pinned = @ \cup {e}]
  IN /\ \/ turn.pc = "evidence"
        \/ turn.pc = "proposed" /\ turn.kind \in {"REFINE", "REPLACE"}
     /\ turn.proposals < MaxProposals
     /\ e \in captured
     /\ o \in Known(live.rca)
     /\ i.covers \subseteq Required[o]
     /\ fact \notin staged.facts
     /\ staged' = Qualified(admitted, {o}, turn.scope)
     /\ turn' = [turn EXCEPT !.proposals = @ + 1, !.evidence = @ \cup {e}]
     /\ UNCHANGED <<captured, live>>

\* An Evidence or obligation proposal fails its admission: the rejection is
\* traced, staging goes on, and the trace is judged at the end.
RejectProposal ==
  /\ turn.pc \in {"evidence", "build", "proposed"}
  /\ ~turn.rejected
  /\ turn' = [turn EXCEPT !.rejected = TRUE]
  /\ UNCHANGED <<captured, live, staged>>

\* The contradiction projection of build_hypothesis: what the decision cites and
\* the scope grounds, or else everything the state already holds.
ProposedContradictions == {e \in Evidence : turn.contradictions[e] # NoContradiction} \cup turn.cited

GroundedProposals == ProposedContradictions \cap Grounded(staged.facts, turn.scope)

ContradictionProjection ==
  IF GroundedProposals = {} THEN staged.rca.contradictions
  ELSE [e \in Evidence |->
          IF e \notin GroundedProposals THEN NoContradiction
          ELSE IF turn.contradictions[e] # NoContradiction THEN turn.contradictions[e]
          ELSE OpenBlocking]

\* Terminal entries the projection would reopen; they are put back, and traced as reused.
ReusedContradictions ==
  {e \in Decided(staged.rca) :
     /\ ContradictionProjection[e] # NoContradiction
     /\ ContradictionProjection[e].status # staged.rca.contradictions[e].status}

NextContradictions ==
  [e \in Evidence |-> IF e \in ReusedContradictions THEN staged.rca.contradictions[e]
                      ELSE ContradictionProjection[e]]

\* runtime_supporting_ids: direct support comes from facts in scope only.
DirectSupport(st, scope) ==
  {f.evidence : f \in {g \in InScope(st.facts, scope) :
     /\ st.rca.status[g.obligation] # "SUPERSEDED_BY_REPLAN"
     /\ g.relation = "SUPPORTS" /\ g.hypothesis_relation = "SUPPORTS" /\ g.covers # {}}}

\* new: admitted obligation proposals.  gaps: restated obligations whose capability
\* is missing.  The events are those of build_hypothesis and of the
\* reduce_runtime_hypothesis call that ends it.
BuildHypothesis(new, gaps) ==
  /\ turn.pc \in {"evidence", "build"}
  /\ new \cap Known(staged.rca) = {}
  /\ gaps \subseteq Active(staged.rca)
  /\ LET reset  == IF turn.kind = "KEEP_CURRENT" THEN staged.rca ELSE Reopened(staged.rca)
         linked == staged.pinned \ reset.evidence
     IN staged' = [staged EXCEPT !.rca = [reset EXCEPT
          !.status = [o \in Obligations |-> IF o \in new THEN "OPEN"
                        ELSE IF o \in gaps THEN "NOT_APPLICABLE_BY_CAPABILITY" ELSE @[o]],
          !.support = [o \in Obligations |-> IF o \in new \cup gaps THEN {} ELSE @[o]],
          !.evidence = @ \cup linked,
          !.contradictions = NextContradictions,
          !.hypotheses = Append(@, [id |-> turn.scope.id, revision |-> turn.scope.revision,
                                    support |-> DirectSupport(staged, turn.scope)]),
          !.event_count = @ + Cardinality(new) + Cardinality(gaps) + Cardinality(linked) + 2]]
  /\ turn' = [turn EXCEPT
       !.pc = "proposed",
       !.rejected = @ \/ ProposedContradictions # GroundedProposals \/ ReusedContradictions # {}]
  /\ UNCHANGED <<captured, live>>

\* Every obligation is qualified in the committed scope, then the decision is
\* journalled with the Evidence this turn related to that scope.
QualifyAndRecord ==
  /\ turn.pc = "proposed"
  /\ staged' = [Qualified(staged, Known(staged.rca), turn.scope) EXCEPT
                  !.rca = AddSemanticRecord(@, turn.evidence)]
  /\ turn' = [turn EXCEPT !.pc = "publish"]
  /\ UNCHANGED <<captured, live>>

-----------------------------------------------------------------------------
(* Staging a Reflection delta *)

\* The delta repeats what the staged state already says: nothing is reduced, but
\* the transaction is published all the same.  The copy the delta starts from is
\* the projection made before the transaction invalidated anything.
NoDelta(before, st, scope, new, merged, material) ==
  /\ ~material /\ new = {} /\ merged = st.contradictions
  /\ scope.revision = CurrentScope(before).revision
  /\ ActiveSupport(st) = {}
  /\ Contradicted(before) = Contradicted(st)
  /\ OpenCritical(before) = OpenCritical(st)
  /\ EvidenceSufficient(before) = EvidenceSufficient(st)

\* stage_reflection_delta in one step: the obligations it admits, its contradiction
\* updates over the staged tuple, and a new snapshot without direct support.
\* Nothing is requalified.  material: the delta changes a causal field or the
\* next-action constraint.  Reflection is asked for after an action or a review, so
\* some decision has been committed.
StageReflection(kind, supersede, new, updates, material) ==
  LET st == Invalidated(live.rca, kind)
      scope == ResolvedScope(live.rca, kind)
      merged == [e \in Evidence |-> IF updates[e] # NoContradiction THEN updates[e]
                                    ELSE st.contradictions[e]]
      illegal == \E e \in Decided(st) : merged[e].status # st.contradictions[e].status
      reduced == [st EXCEPT
        !.status = [o \in Obligations |-> IF o \in new THEN "OPEN" ELSE @[o]],
        !.contradictions = merged,
        !.hypotheses = Append(@, [id |-> scope.id, revision |-> scope.revision, support |-> {}]),
        !.event_count = @ + Cardinality(new) + 2]
  IN /\ HasHypothesis(live.rca)
     /\ TransitionAllowed(live.rca, kind, supersede)
     /\ new \cap Known(live.rca) = {}
     /\ staged' = [live EXCEPT !.rca =
                     IF illegal \/ NoDelta(live.rca, st, scope, new, merged, material)
                     THEN st ELSE reduced]
     /\ turn' = [Idle EXCEPT !.pc = "publish", !.kind = kind, !.scope = scope,
                             !.supersede = supersede, !.contradictions = updates,
                             !.rejected = illegal]
     /\ UNCHANGED <<captured, live>>

-----------------------------------------------------------------------------
(* Ending a transaction *)

\* SUPERSEDE of an obligation that staging satisfied or waived is a conflict; that one
\* still active subsumes the check against the trace's own satisfactions.
Publishable == ~turn.rejected /\ turn.supersede \subseteq Active(staged.rca)

SupersedeAll(rca, O) ==
  [rca EXCEPT !.status = [o \in Obligations |-> IF o \in O THEN "SUPERSEDED_BY_REPLAN" ELSE @[o]],
              !.event_count = @ + Cardinality(O)]

Publish ==
  /\ turn.pc = "publish" /\ Publishable
  /\ live' = [staged EXCEPT !.rca = SupersedeAll(@, turn.supersede)]
  /\ staged' = live'
  /\ turn' = Idle
  /\ UNCHANGED captured

\* Mutant: EvidenceMemory is shared with the transaction instead of copied.
RollbackAroundMemory ==
  /\ turn.pc = "publish" /\ ~Publishable
  /\ live' = [live EXCEPT !.pinned = staged.pinned]
  /\ staged' = live'
  /\ turn' = Idle
  /\ UNCHANGED captured

Rollback ==
  /\ turn.pc = "publish" /\ ~Publishable
  /\ staged' = live
  /\ turn' = Idle
  /\ UNCHANGED <<captured, live>>

\* A check that raises while the decision is staged: an invalid acknowledgement,
\* an uncovered source claim, an error of the reducer.
\* Mutant: the state reduced so far is kept when staging raises.
RaiseWithoutRollback ==
  /\ turn.pc \in {"evidence", "build"}
  /\ live' = staged
  /\ turn' = Idle
  /\ UNCHANGED <<captured, staged>>

Raise ==
  /\ turn.pc \in {"evidence", "build"}
  /\ staged' = live
  /\ turn' = Idle
  /\ UNCHANGED <<captured, live>>

-----------------------------------------------------------------------------
(* Between transactions *)

\* A Tool returns an Observation; only its execution facts are stored.
Observe(e) ==
  /\ turn.pc = "idle"
  /\ e \notin captured
  /\ captured' = captured \cup {e}
  /\ UNCHANGED <<live, staged, turn>>

\* mark_blocked_capability, at the head of the loop after an open circuit refused a
\* call: every open obligation loses its capability, whichever Tool it was.  (Only
\* knowledge_retrieval is refused while offered: BreakerMasked of PlanExecution.)
BlockCapability ==
  LET open == {o \in Obligations : live.rca.status[o] = "OPEN"} IN
  /\ turn.pc = "idle"
  /\ HasHypothesis(live.rca) /\ open # {}
  /\ Len(live.rca.hypotheses) < MaxHypotheses
  /\ live' = [live EXCEPT !.rca = [live.rca EXCEPT
       !.status = [o \in Obligations |->
                     IF o \notin open THEN @[o]
                     ELSE IF o \in SourceObligations THEN "NOT_APPLICABLE_BY_CAPABILITY"
                     ELSE "BLOCKED_BY_CAPABILITY"],
       !.hypotheses = Append(@, [Current(live.rca) EXCEPT !.support = ActiveSupport(live.rca)]),
       !.event_count = @ + Cardinality(open) + 2]]
  /\ staged' = live'
  /\ UNCHANGED <<captured, turn>>

-----------------------------------------------------------------------------
(* FinalizationPolicy.evaluate over published stores *)

\* The EvidenceSet that counts for a satisfied obligation: keyed by the hypothesis
\* identity, and of the current revision.
MatchingSet(st, o) == st.sets[o][CurrentScope(st.rca).id]

\* Mutant: the verdict of the EvidenceSet is not read.
SlotsCoveredOnly(st, o) ==
  /\ MatchingSet(st, o).scope = CurrentScope(st.rca)
  /\ Complete(MatchingSet(st, o).coverage, o)

SlotsCovered(st, o) ==
  /\ MatchingSet(st, o).scope = CurrentScope(st.rca)
  /\ MatchingSet(st, o).semantic_status = "SATISFIES"
  /\ Complete(MatchingSet(st, o).coverage, o)

DirectEvidence(st) ==
  {f.evidence : f \in {g \in InScope(st.facts, CurrentScope(st.rca)) :
     /\ g.relation # "CONTRADICTS" /\ g.hypothesis_relation = "SUPPORTS"
     /\ g.obligation \in Satisfied(st.rca) /\ SlotsCovered(st, g.obligation)
     /\ \E s \in g.covers \cap CausalSlots : g.evidence \in MatchingSet(st, g.obligation).coverage[s]
     /\ g.evidence \in st.rca.support[g.obligation]
     /\ g.evidence \in st.pinned \cap st.rca.evidence}}

Finalizable(st) ==
  /\ HasHypothesis(st.rca)
  /\ OpenCritical(st.rca) = {}
  /\ Satisfied(st.rca) # {}
  /\ \A o \in Satisfied(st.rca) : SlotsCovered(st, o)
  /\ Blocking(st.rca) = {}
  /\ DirectEvidence(st) # {}

\* apply_review_rejection: Review turned a finalizable candidate down and the gaps it
\* types become obligations, reduced one by one outside any transaction.
ReviewGaps(new) ==
  /\ turn.pc = "idle"
  /\ Finalizable(live)
  /\ new # {} /\ new \cap Known(live.rca) = {}
  /\ live' = [live EXCEPT !.rca = [live.rca EXCEPT
       !.status = [o \in Obligations |-> IF o \in new THEN "OPEN" ELSE @[o]],
       !.event_count = @ + Cardinality(new)]]
  /\ staged' = live'
  /\ UNCHANGED <<captured, turn>>

-----------------------------------------------------------------------------
Init ==
  /\ captured = {}
  /\ live = EmptyStores /\ staged = EmptyStores
  /\ turn = Idle

\* A turn opens with a Planner decision or with Reflection feedback.
Begin ==
  /\ turn.pc = "idle"
  /\ \E c \in Citable(live.rca, live.facts), kind \in Kinds, D \in SUBSET Obligations :
       \/ BeginPlanner(kind, D, c)
       \/ \E new \in SUBSET Obligations, material \in BOOLEAN :
            StageReflection(kind, D, new, c, material)

Stage ==
  \/ \E e \in Evidence, o \in Obligations, i \in Interpretations : AdmitEvidence(e, o, i)
  \/ RejectProposal
  \/ \E new, gaps \in SUBSET Obligations : BuildHypothesis(new, gaps)
  \/ QualifyAndRecord

Next ==
  \/ Begin
  \/ Stage
  \/ Publish
  \/ Rollback
  \/ Raise
  \/ \E e \in Evidence : Observe(e)
  \/ BlockCapability
  \/ \E new \in SUBSET Obligations : ReviewGaps(new)

Spec == Init /\ [][Next]_vars

-----------------------------------------------------------------------------
(* Properties *)

TypeOK ==
  /\ captured \in SUBSET Evidence
  /\ live \in Stores /\ staged \in Stores
  /\ turn \in Turns

\* The two Evidence ledgers agree at every publication: RCAState links exactly the
\* Evidence that EvidenceMemory has pinned, and each of those has been related to
\* some obligation.
LedgersAgree ==
  /\ live.rca.evidence = live.pinned
  /\ live.pinned = {f.evidence : f \in live.facts}

Proves(st, o, f) == f.relation # "CONTRADICTS" /\ f.evidence \in st.rca.support[o]

\* Satisfaction is never inherited: each required slot of a satisfied obligation is
\* covered by supporting Evidence that was related to it in the current revision of
\* the current hypothesis (runtime.py: "A new revision carries no automatic
\* satisfaction/coverage inheritance").
SatisfiedInCurrentScope ==
  \A o \in Satisfied(live.rca), s \in Slots : s \in Required[o] =>
    \E f \in FactsOf(live, o, CurrentScope(live.rca)) : s \in f.covers /\ Proves(live, o, f)

\* A causal change always opens a scope no admitted relationship belongs to yet, so
\* coverage of an earlier branch or revision cannot leak into the new one.
FreshScope ==
  [][CurrentScope(live'.rca) # CurrentScope(live.rca)
       => \A f \in live.facts : f.scope # CurrentScope(live'.rca)]_vars

\* While the hypothesis scope stays, a blocking contradiction goes away only if the
\* committed decision named it: leaving it out, or proposing others, never clears it.
BlockingNotDropped ==
  [][CurrentScope(live'.rca) = CurrentScope(live.rca)
       => \A e \in Blocking(live.rca) \ Blocking(live'.rca) :
            turn.contradictions[e] # NoContradiction]_vars

\* A publishable candidate has met every contradictory relationship of its scope:
\* each is on record and either decided or weak, and no satisfied obligation has an
\* undecided one.
FinalizationSound ==
  Finalizable(live) =>
    \A f \in InScope(live.facts, CurrentScope(live.rca)) :
      f.relation = "CONTRADICTS" =>
        /\ f.evidence \in Contradicted(live.rca) \ Blocking(live.rca)
        /\ f.obligation \in Satisfied(live.rca) => f.evidence \in Decided(live.rca)

\* Staging is invisible: what is published is a behaviour of CanonicalDiagnosis, one
\* atomic decision or capability loss at a time.
Canonical == INSTANCE CanonicalDiagnosis WITH
  Scopes <- Scope,
  scope <- CurrentScope(live.rca),
  status <- live.rca.status,
  support <- live.rca.support,
  related <- {[scope |-> f.scope, obligation |-> f.obligation, evidence |-> f.evidence] :
                f \in live.facts},
  decisions <- Len(live.rca.hypotheses)

\* The atomicity README.md claims for a semantic commit: all of a decision is
\* published or none of it.
ImplementsCanonicalDiagnosis == Canonical!Spec

=============================================================================
