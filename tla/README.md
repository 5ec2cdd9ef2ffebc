# Verification of the RCA agent

TLA+ models, TLC checks and TLAPS proofs for `debug-assistant-agent-production`, an
evidence-grounded root-cause-analysis agent for CloudOps incidents (`src/`, Python). Paths
below are relative to `src/src/debug_assistant/` unless they start with `src/`.

## 1. The system

One incident is one call of `incidents/runtime.py: run`. It is a single thread:

```
bootstrap -> { context view -> one Reasoner (CONTEXT_REQUEST | SEMANTIC_DELTA)
               -> Phase A: semantic transaction on RCAState (all or nothing)
               -> FinalizationPolicy
               -> Phase B: compile and admit one action, run it through ActionRuntime
               -> Reflection when it is triggered }*  -> Review -> DiagnosticReport
```

Nothing is persisted across runs, so there is no crash recovery to model. The only
concurrency is the forked process in which `provider_gateway.py` (443-475) runs a Provider
call and which it kills at a hard deadline (`ProviderGateway`).
The rest of what is hard lies elsewhere: a transaction stages a dozen
events over seven stores before a late check may fail; three independent records describe
one execution (graph, ledger, Observation); models answer anything and may answer between a
check and its use (Reflection runs between admission and execution); Tools fail, miss, and
withdraw capabilities their siblings share; calls are counted by role, by phase and on the
wire, and taken back on some ways out of a turn; the verdict to publish is computed from
stores that were filled under hypotheses since replaced, and reported from a reason that may
have been set for an earlier attempt to end.

### Components

| component | state | operations | what must hold |
|---|---|---|---|
| RCAState reducer `incidents/rca_state.py` | obligations, Evidence links, contradictions, hypothesis history, semantic records, `event_count` | ten events, each accepted whole or refused | everything cited is admitted Evidence; nothing is answered without support; capability loss and replanning are final; the log only grows |
| Semantic transition `incidents/runtime.py` 1770-2980, `incidents/semantic_transition.py` | detached copies of the stores, trace of rejections | Planner decision, Reflection delta, publish, rollback | atomic publication; no satisfaction or contradiction leaks into another hypothesis scope |
| Evidence admission and qualification `incidents/evidence_pipeline.py`, `memory/*` | EvidenceMemory, facts, EvidenceSets | admit a relationship, qualify an obligation | coverage counts only relationships of the current scope |
| FinalizationPolicy `incidents/finalization.py` | none | evaluate | no publishable diagnosis ignores a contradiction of its scope |
| Obligation admission `incidents/obligation_admission.py` | none | admit, merge, reject proposals | only admitted proposals become obligations |
| Verification DAG `incidents/verification_dag.py` | tasks, dependencies, status, registered obligations, selection, replan count | register, add, local replan, select, apply execution; graph nodes | statuses agree with dependencies; the graph never waits on itself; history is kept; a run returns |
| Plan execution `incidents/runtime.py` 3787-4067, `incidents/action_runtime.py`, `incidents/continuation.py`, `harness/provider_health.py`, `knowledge/router.py` | execution graph, acquisition ledger, Tool breaker, capability snapshot, ObservationStore, counters | admission, barrier, burst, Tool call | no data acquired twice, no stale call, the records agree, no Tool comes back once it was hidden |
| Planning session `incidents/planning_session.py` | retry budget, context rounds, requests asked before | one Reasoner turn: ask, local context round, repair, commit | one repair and bounded rounds whatever fails in which order; what a round recovered stays displayed |
| Provider gateway `incidents/provider_gateway.py` | ledger of physical attempts, attempt counter shared with the forked call | model call with retries, hard deadline | every attempt on the wire is counted, within the allocation of its phase |
| Call budget `harness/dynamic_budget.py` 324-774 | lifecycle phase, offsets of consolidation, Review and recovery, last known usage | begin consolidation, Review, recovery; admit an attempt, a call, a rendered prompt | the Review reserve is protected, the consolidation allowance is never renewed, tokens stay within the run |
| Run control `incidents/runtime.py` 3074-3533, 4070-6126, `incidents/progress_policy.py` | steps, Review rounds, Reflection and no-progress counters, the rejected baseline, status and reason | the loop, Reflections, publication, Review, recovery, report | every run ends; PASS is Review's PASS of what is delivered; no progress stops the run |
| Context manager `context/manager.py`, `agent/decision_surface.py` | none of its own; the view of a turn | select, pack and trim bodies, offer and resolve local context | the view never claims what it does not show, and never loses what the Planner asked for |
| Agents' prompts and schemas, LLM transport, RAG, repository index, Tools, Skills, report, configuration | text, read-only data | formatting, parsing, retrieval | not state machines; their outcomes are inputs of the models |

Interactions: the Reasoner's delta drives the semantic transaction, which drives the
evidence pipeline and the reducer. The published state decides finalization and plan
admission (`ContinuationPolicy` compares `event_count`). An admitted plan becomes a task of
the verification DAG, whose execution goes through ActionRuntime; the answer updates breaker
and capabilities and lands in the ObservationStore, from which the context manager builds
the next view and a later turn may relate it. Every question to a model goes through one
gateway and one budget, whose phase follows the loop: investigation, consolidation, Review,
recovery.
The components of `PROJECT.json` list the source files of each part.

## 2. Modules

| module | models | in the code |
|---|---|---|
| `RCAReducer` | pure reducer: `XxxAllowed` (does not raise) and `Xxx` (the new state) per event | `rca_state.py` |
| `RCAState` | the reducer under every sequence of events | same |
| `SemanticTransition` (EXTENDS `RCAReducer`) | Phase A: `live` are the published stores, `staged` the copies a transaction works on, `turn` its control state | `runtime.py` `semantic_transition`, `stage_planner`, `build_hypothesis`, `stage_reflection_delta`; `evidence_pipeline.py`; `finalization.py` |
| `CanonicalDiagnosis` | abstract specification of Phase A: a decision is one step or no step | the promise of `src/README.md`:82 |
| `VerificationDAG` | harness adapter of the execution graph, arbitrary caller | `verification_dag.py` 23-474 |
| `VerificationGraph` (EXTENDS `VerificationDAG`) | the LangGraph topology around the adapter and `run_fail_closed` (exported by the package; `runtime.py` itself drives the adapter directly, see `PlanExecution`) | `verification_dag.py` 477-654 |
| `PlanExecution` (EXTENDS `VerificationDAG`) | Phase B: admission, Reflection in between, burst, ActionRuntime, breaker, capabilities | `runtime.py` `execute_plan` and the loop around it |
| `CallBudget` | the arithmetic of the budget controller and of the admission boundary, as operators on its fields | `dynamic_budget.py` 324-788, `progress_policy.py` 172-198 |
| `ProviderGateway` (EXTENDS `CallBudget`) | one call of a role: forked child, shared counter and its lock, kill, record | `provider_gateway.py`, `openai_compatible.py` 229-470 |
| `ReasonerCalls` (EXTENDS `ProviderGateway`) | composition: Planner turns, Reflections, Review rounds and the Review of an inconclusive report over one gateway and one budget | `planning_session.py`, `reflection.py`, `final_review.py`, `runtime.py` `admit`, `add_usage`, `review_inconclusive_report` and the handlers around each turn |
| `RunControl` | the loop with its counters, exceptions, Review rounds, recovery and report | `runtime.py` 3074-3533, 4070-6126, 6404-6500, `progress_policy.py` |
| `LocalContext` | the Planner's view: build, local recovery and the legal context requests | `context/manager.py`, `context/projection.py`, `agent/decision_surface.py`, `planning_session.py` |
| `RCAStateProofs`, `SemanticTransitionProofs`, `VerificationDAGProofs`, `VerificationGraphProofs`, `PlanExecutionProofs`, `ReasonerCallsProofs`, `RunControlProofs`, `LocalContextProofs` | theorems | |
| `MC*` | constants of the TLC instances | |

`map` in `PROJECT.json` gives the source lines of every definition.

Correspondence of state and actions:

* **RCAReducer.** The frozen Pydantic `RCAState` is one record. Tuples of identities are
  sets; the hypothesis history is a sequence because its last entry is the active one. An
  event that raises is a disabled step, since the caller keeps the old state.
* **SemanticTransition.** `BeginPlanner` and `StageReflection` open a transaction,
  `AdmitEvidence`, `RejectProposal`, `BuildHypothesis` and `QualifyAndRecord` stage it in
  the order of `stage_planner` (Evidence first under KEEP_CURRENT, hypothesis first under
  REFINE and REPLACE), `Publish`, `Rollback` and `Raise` end it. Between transactions Tools
  return Observations (`Observe`), capabilities are lost (`BlockCapability`) and Review adds
  gaps (`ReviewGaps`). A relationship is (Evidence, obligation, scope, two relations,
  covered slots), where a scope is hypothesis identity and revision; the textual checks of a
  proposal are one nondeterministic rejection.
* **VerificationDAG.** A state is a record; an operation that raises `VerificationDAGError`
  is no step. The refresh loop is the least closed set it computes (`Doomed`).
* **PlanExecution.** A step is what runs between two calls to the outside. `Turn` is the
  Reasoner's commit (arbitrary for the obligations) and plan admission; `Reflect` may commit
  events before execution; `Preflight` is the barrier and the new task; `Admit` a round of
  the burst; `Call` the whole of `ActionRuntime.execute` with its updates; `CallRefused` an
  exception of `before_execution`. Task identities are turn numbers: the compiler
  (`agent/decision_turn.py: compile_next_action`) yields at most one task per plan. A Tool
  is offered while all its sources are available, knowledge_retrieval while any is
  (`VisibleTool`); its answer says of each source whether it gave anything, so that source may
  go or come back, and a failure without diagnostics says nothing of any (`SourcesAfter`).

* **CallBudget, ProviderGateway, ReasonerCalls.** `bud` is the `DynamicBudgetController`,
  `ledger` and `unread` are `ProviderCallRecord`s (attempts, and usage `add_usage` has not
  read), `call` is the call under way, `wire` and `closing` are history: what really went
  out. The child is admitted (`ChildAdmit`), counts under the lock (`ChildCount`), sends
  (`ChildSend`), retries or replies; `Collect` and `Kill` are the parent, and may interleave
  anywhere. `acct` holds the Runtime's own counters. Each agent is its requests: `XxxAsk`
  renders and checks one, the action named for the outcome does all the code does before
  control leaves it, `add_usage` (`Published`) and the counts it takes back included.
  `StartReport` asks Review about the report of a run that ends INCONCLUSIVE, in the same
  rounds of `ReviewAsk` and `ReviewRepair`; `ReviewRefused` and `ReportReviewed` are its exits.
* **RunControl.** `sem` is the canonical state as control reads it (fingerprint of the
  hypothesis, amount of Evidence, blocking contradiction, finalizable, stable); a transaction
  moves it freely. `Raise` is the whole chain of `except` handlers. `Reflections` is the set
  of ways one `trigger_reflection` may return. `TurnCommits` with `Act` is a turn,
  `EnterReview` with `ReviewPasses`, `ReviewRejects` and `ReviewFails` a round,
  `ApplyRejection` the recovery or the end, `Report` everything after the handlers and
  `ReportRaises` the run that ends without one. `Expire` lets the deadline pass at any moment.
* **LocalContext.** A body is a number of lines. `Build` is `ContextManager.build` for the
  ranges requested and the pressure of the budget; `RequestContext` is one request with its
  resolution; `BeginTurn`, `Decide` and `Act` are the parts of the turn around it that change
  what has to be shown. The packer's loop over the candidates, which keeps each that fits beside
  what it kept before, is the one set that agrees with that rule everywhere (`Packed`, with
  the order of the candidates as `Goes` and `Sooner`); trimming is the same rule from the other
  end (`Trimmed`). `PackingDefined` proves that there is exactly one such set.

## 3. Runs

| run | instance | properties | shows |
|---|---|---|---|
| `rca_state` | 2 obligations, 2 Evidence, all runs of 5 events | `TypeOK`, `ReferentialIntegrity`, `SatisfiedIsGrounded`, `LifecycleMonotone`, `AppendOnly`, `DecidedContradictionsKept` | the reducer fails closed under any event order |
| `core` | 1 obligation, 2 Evidence, 3 hypotheses, 2 proposals a turn, all three kinds of contradiction | `TypeOK`, `LedgersAgree`, `FinalizationSound` | memory and reducer agree after every publication; finalization has met every contradiction |
| `branches` | 2 obligations (one not necessary), 1 Evidence that answers, contradicts or both, 3 hypotheses | `SatisfiedInCurrentScope`, `ImplementsCanonicalDiagnosis` | nothing is inherited by a new scope; Phase A refines the atomic specification |
| `contradictions` | 1 obligation, 2 Evidence, 4 hypotheses | `FreshScope`, `BlockingNotDropped` | branch numbering never reuses a scope; blocking contradictions leave only by name |
| `dag` | 3 tasks, any dependencies, 1 obligation, 1 replan | `GraphTypeOK`, `StatusesSettled`, `PendingHasReady`, `NothingLeftPending`, `HistoryKept`, `RunReturns` | the graph and its runs, failures and replans included |
| `plan_execution` | 3 turns, 3 canonical events, 2 obligations, 4 Tools (two share a capability, one has its own, knowledge_retrieval has two), 5 keys, threshold 1, 2 calls | `ExecTypeOK`, `AcquiredOnce`, `RecordsAgree`, `CallsAreCurrent`, `BreakerMasked`, `AbandonedStayReady`, `HiddenStaysHidden` | Phase B |
| `reasoner_calls` | 4 investigation, 4 Review and 1 terminal attempts, 6, 5 and 1 tokens, requests estimated at 2 and billed 3, 2 transport attempts, one context round, one compaction, one Reflection, two Review rounds and a report's, one recovery | `TypeOK`, `ReserveProtected`, `ConsolidationBounded`, `LedgerCoversWire`, `UsagePublished`, `TokensBounded`, `TurnBounded`, `RunEnds` | calls, budgets and phases of all roles together |
| `run_control` | 2 fingerprints, 1 Evidence to gain, 3 steps (2 of recovery), 2 turns without progress, 2 Reflections, 2 Review rounds, both presets, Review on and off | `TypeOK`, `PassIsReviewed`, `ResubmissionShowsProgress`, `NoProgressStops` | what a run may deliver and when it may go on |
| `local_context` | 3 Observations, two of them equal, bodies of 3 and 2 lines, room of 5 or 4 lines, 2 context rounds | `TypeOK`, `RecoveryKept` | the view the Planner decides on |
| `path_retry`, `second_review`, `pass_delivered` | as their components | one each, violated | section 6 |

Why the bounds are enough. A hazard of Phase A relates at most two Evidence bodies (the one
a decision names and the one it leaves out) and three snapshots of the history (before,
after, and one to return from); each is present in some instance, and the three
`SemanticTransition` instances split what one instance of all of it could not finish. In the
DAG three tasks give chains, forks, joins and a replan under a broken task. In Phase B a
duplicate acquisition needs two turns, a lost capability and its sibling two Tools, the call
limit one call less than turns; with a threshold of one a failure of knowledge_retrieval opens
its circuit while it is still offered, the next call is refused and blocks every obligation,
and one of its two sources comes back through the other. In `reasoner_calls` every limit is small enough to be met
and every reserve large enough to be used in part: a retry crosses the allocation of its
phase, consolidation is entered twice, a kill falls into each state of the child, and both
reserves run out. Each answer is billed more than its estimate, so that tokens overrun, and
the bound of `TokensBounded` is reached exactly; `second_review` bills what was estimated. Its
984 819 states are the complete reachable set. In `run_control` a
rejected Candidate can come back changed, unchanged, and changed back, and each counter can
reach its limit in either investigation (3.3 million states). In `local_context` one body
does not fit beside the other two, which is what makes the packer choose (82 605 states).
`SYMMETRY` permutes identities the constants treat alike, in runs without liveness.

Bounds of the model are `MaxEvents`, `MaxHypotheses`, `MaxProposals`, `MaxVersion`,
`MaxEvidence`, `TriggersPerTurn` (the sites after a turn that may trigger a Reflection are
two in the code) and the sizes of the sets; the other constants are limits of the code.
Deadlock is checked in `run_control` and `local_context`, whose ends are the action
`Finished`; elsewhere it is not, because the model really stops when its bound is reached,
its run ends, or its parent waits for a lock.

Fairness. `GraphSpec` assumes `WF_graphVars(NodeNext)`: LangGraph runs node after node on the
caller's thread, and the Harness callback returns or raises (the Tools of the repository read
recorded data), so an enabled node is eventually run. `ReasonerCalls` assumes `WF_vars(Next)`:
the Runtime is one thread that takes its next step, and while a child runs either it takes
its finite next step or the parent collects or kills it at its timeout; nothing says which.
Nothing is assumed of callers or of answers: `RunReturns` holds because terminal tasks stay
terminal and replans are counted, `RunEnds` because the attempts, rounds, Reflections and
compactions of a run together bound every cycle of the loop. `RunEnds` names one exception,
the lock of a killed child (section 6).

Each property of a passing run has a mutant in `PROJECT.json`: a plausible bug in one
definition (a dropped guard, a missing reset, a wrong order) under which TLC finds it
violated. The mutated forms stand next to the definitions, marked `Mutant:`.

## 4. Proofs

All theorems hold for every value of the constants under the named assumptions of the
modules (`NecessaryAssumption`, `SemanticAssumption`, `DAGAssumption`, `ReplansAssumption`,
`ExecutionAssumption`, `AllocationAssumption`, `AttemptAssumption`, `UsageAssumption`,
`TurnAssumption`, `HypothesesAssumption`, `SettingAssumption`, `LimitAssumption` and those of `LocalContext`), which say only that markers are not identities, limits are numbers (positive where the code refuses
zero), tables are well typed and an incident has finitely many obligations and Evidence
bodies (`event_count` adds their numbers up).

* **RCAStateProofs.** `TypeCorrect`, `ReferentialIntegrityHolds`, `SatisfiedIsGroundedHolds`,
  `LifecycleMonotoneHolds`, `AppendOnlyHolds`, `DecidedContradictionsKeptHolds`, for any
  obligations, Evidence and history length. The inductive invariant is typing and referential
  integrity together: each event's own checks guard what it adds, and what earlier snapshots
  cite stays admitted only because `evidence` never shrinks. Groundedness is not an invariant
  of the reducer, which adds an obligation in whatever status its payload has (section 6);
  `SatisfiedIsGrounded` says that this is the only way an obligation can be SATISFIED without
  Evidence. One lemma per
  event shows that it maps states to states.
* **SemanticTransitionProofs.** `TypeCorrect`, `LedgersAgreeHolds`,
  `SatisfactionNotInherited`, `FinalizationIsSound`, `FreshScopeHolds`,
  `BlockingNotDroppedHolds` and the refinement `RefinesCanonicalDiagnosis`, for any
  obligations, Evidence, fact slots and length of the history. All of them speak of the
  published stores only, which change in one step out of ten; none is inductive, because
  `Publish` copies what the steps before it staged. `IInv` therefore says three things.
  `Consistent`, of the published stores and of the copy alike: the ledgers agree (`Agree`),
  every satisfied obligation is covered in the current scope (`Earned`), and every
  relationship lies in a scope the history has passed (`Placed`), a scope being numbered by
  the length of the history when it opened; that is why a refined or replaced hypothesis
  finds no relationship in its scope, and why nothing else need be cleared. `Sound`, of what
  is published: contradictions of the scope are on record and no EvidenceSet satisfies over
  an undecided one. It fails inside a transaction, after a relationship is admitted and
  before its obligation is qualified again, and is earned back by `QualifyAndRecord`, which
  qualifies every known obligation (`QualifiedSound`), or kept by a Reflection that
  qualifies none (`DeltaInv`). `Transaction`, of the two together: what the copy may differ
  in at each point of the turn, down to which lifecycle moves an obligation can have made
  (`Unbuilt`, `Staged`) and which contradictions the decision has named (`Kept`). At
  `Publish` it is exactly what one atomic step of `CanonicalDiagnosis` allows.
* **VerificationDAGProofs.** `StatusesSettledHolds`, `PendingHasReadyHolds`,
  `HistoryKeptHolds`, `DAGTypeCorrect`, for any set of tasks. The inductive invariant `Good`
  adds that the graph has no cycle and no task is RUNNING; without acyclicity
  `PendingHasReady` is false. Every operation edits a state into a `Prepared` one and
  refreshes it, and `RefreshSound` shows once that refreshing a Prepared state gives a Good
  one that keeps every task.
* **VerificationGraphProofs.** `GraphTypeCorrect`, `NothingLeftPendingHolds` and `RunDescends`,
  on top of the adapter's steps. A run works on a copy, so `GInv` asks `Good` of two graphs, and that
  `synthesize` is entered only with nothing ready; `NoSelfWait` then says that nothing is
  pending, because a pending task waits for one that is not settled and the graph has no
  cycle. The invariant also excludes the outcome `EXECUTION_PENDING`: that branch of
  `synthesize` is dead. `RunDescends` is what `RunReturns` rests on: until a run has returned,
  each of its steps leaves fewer replans, or as many and fewer tasks that have not ended (the
  executed one has, and a refresh ends tasks but begins none), or as many of both and fewer
  nodes before the next turn of the loop. It needs finitely many tasks, and says so.
* **PlanExecutionProofs.** `ExecTypeCorrect`, `AcquiredOnceHolds`, `RecordsAgreeHolds`,
  `CallsAreCurrentHolds`, `BreakerMaskedHolds`, `HiddenStaysHiddenHolds`,
  `AbandonedStayReadyHolds`, for any number of turns, keys, Tools and shared capabilities.
  The graph of a run is `Loose` (no dependencies), so a refresh leaves all other tasks
  alone; `CallAdmitted` carries what admission checked (key free, Tool visible, capacity
  left) to the moment of the answer; `CircuitMasked` says that the capability goes with the
  first failure, before any threshold, so the refusal branch of `Call` is dead for every Tool
  but knowledge_retrieval, whose failures only its breaker counts. `HiddenStaysHidden` rests
  on its sources being its own (`ExecutionAssumption`, as in `router.py` 18-40).

* **ReasonerCallsProofs.** `RunTyped`, `ReserveTheorem`, `ConsolidationTheorem` and
  `LedgerTheorem`, for any allocation, usage and limits. None of them is inductive: an
  attempt is admitted against a ledger that its own call has not been written to. `LedgerInv`
  therefore speaks of what the open call *will* be charged (`Pending`) and of what it has
  sent (`Sent`): the check before the fork leaves room for one attempt, each admission of the
  child for the next, and the charge is never less than what was sent, whether the parent
  collects or kills. `CallInv` says at which points of a turn a call is open, so that no phase
  can change under one; that is what makes the child's copy of the phase as good as the
  original. Consolidation is bounded because its count starts at the first entry and includes
  everyone's attempts since.

  `PublishedTheorem`, `TurnTheorem` and `TokensTheorem` are about whole turns, on top of that
  invariant. `UnreadInv`: only the role whose turn is under way has usage that was not read;
  every way out of a turn publishes that role, and the gateway writes records of the caller
  only. The Review of a report has the one exit that does not, and `Lost` names it; `ReportInv`
  keeps it where it is: after the report there is no other turn. `CountInv` charges each request of a Planner turn to a context round, to the repair or
  to the turn. `TokensInv` follows what was billed, read or not, against `Floor`, the most
  a run may have spent for `check_prompt` to let one more request pass. The Planner is checked
  on all that was billed, the other agents on the figures of their admission, to which their
  first answer may have been added by the time of the second request; hence `Floor` and two
  bills, the request that was checked and the repair checked on old figures. Nothing is assumed
  of a bill but that there is a largest, `MaxBill`: the code estimates what a request needs and
  does not enforce it.

* **RunControlProofs.** `TypeCorrect`, `PassOnlyReviewed`, `ResubmissionsProgress`,
  `NoProgressEnds` and `RunDescends` (below), for any fingerprints and limits (`HypothesesAssumption`,
  `SettingAssumption`, `LimitAssumption`). The invariant adds where a Candidate is on its way:
  between publication and the answer of Review the canonical state still projects it
  (`Submission`) and it is not what was rejected (`Resubmission`); and what is left of each
  counter while the run lives (`Room`). A turn whose commit is publishable is published, so a
  recovery from no progress always starts from a state the policy refuses: that is what makes
  the publishing branches of `Recover` dead.

* **LocalContextProofs.** `TypeCorrect`, `RecoveryTheorem`, `PackingDefined` and `BatchesFresh`,
  for any bodies, sizes, pressures and bounds. `RecoveryKept` is not inductive. `TurnInv` ties
  the bodies a turn has recovered to the receipts of its view and says that the view shows
  all of them; `SelectionOK` and `OfferOK` say what a request and an offer owe the view (lines
  that exist, in a body that is retained, none of them on display), without which a build
  could be handed a receipt it cannot show. `IInv` was found to hold on the
  instance of `local_context` too, before it was proved. The packing is a set defined by a property it has of itself, so the
  first part of the module shows that there is one: by induction over the number of
  candidates, one more at the end of the order changes nothing before it (`PackLast`,
  `PackingOfAny`). The prover cannot instantiate the induction theorems of its library; an
  induction over a *set* of numbers needs none (`SetInduction`, from the existence of minimal
  elements, `WFMin`).

**Descent.** `RunEnds` and `RunReturns` are liveness, which the prover cannot reach, but each
has a part that is safety, and that part is proved (`RunDescends` of `VerificationGraphProofs`,
`VariantTheorem` of `ReasonerCallsProofs`). `VariantTheorem` gives the state of
`ReasonerCalls` eight natural numbers, and every step makes them less in the lexicographic
order: attempts that may still be charged, Review rounds and the report's, compactions, the stage of the loop,
triggers of Reflections after this turn, the stage of a Reflection, retries of this call, and
the stage of the child. The order of the first and the fourth is the point: going round the
loop raises the stage, and is possible only after a call was charged; the one call that is
not charged, refused before it is forked, therefore ranks below the request it was made for
(`Returned`). `BelowWellFounded` shows that the order has no endless descent. So a run takes
finitely many steps whatever the models answer and whenever the parent kills, for all limits;
fairness only says that it takes them, and TLC checks that what it stops in is an end.
`RunDescends` of `RunControlProofs` says the same of both investigations of a whole run, with
seven numbers: ends still to come, Review rounds, recoveries, steps, compactions, what is left
of the turn, and the deadline. A recovery from a rejection or from no progress hands out new
steps and compactions; they rank below rounds and recoveries, which nothing renews. No run of
TLC states this one: its deadlock check shows that a run stops only with its report published.

Only model-checked: `RunReturns` and `RunEnds` as they stand, since fairness and ENABLED are
beyond the prover, and the three violation runs.

## 5. Limits of the models

* Text is abstracted to the structure the checks compare: claims, predicates, canonical
  forms, source quotations and redaction are outside. Admission of a proposal is therefore
  "admitted with this structure" or "rejected".
* `Finalizable` takes candidate text, source coverage and fault taxonomy as complete; it is
  at least as permissive as the code, so `FinalizationSound` covers the code's verdicts.
* `ReviewGaps` is the state change of a Review rejection; its rounds are in `RunControl`.
* In `PlanExecution` retries of a call touch no state and are part of its answer; budgets,
  the deadline and the no-progress limit are a choice to end the run (`RunControl`);
  `ActionRuntime.authorize_refresh` has no caller and is left out. The aggregate `telemetry`
  of `observe_tool` is required by no Tool and is left out; so is `available_code_tools`,
  which is fixed when the run starts.
  An open circuit is met by knowledge_retrieval only (`BreakerMasked`); `BlockCapability` of
  `SemanticTransition` is what `mark_blocked_capability` then does to the canonical state.
* The transition log and result references of the DAG are left out, and a batch is a
  function from identities, so duplicates inside one batch are too.
* In `CallBudget` `Need` is the least a request is estimated at, its instructions, and so at
  least one token; a longer request is refused at will (`large` in the `Ask` actions, also
  where the first request of its turn was not). What an answer is billed is a choice out of
  `Usages`, up to `MaxBill`, which may lie above `Need`. Cost and the time reserves are left
  out, the deadline is a choice of each admission.
* The Review of a report is in `ReasonerCalls` with its calls and in `RunControl` with its
  decision. Left out is an error between its admission and its first request (the deadline, or
  a context that cannot be built), which leaves the call counted and ends the run all the same.
* `RunControl` and `ReasonerCalls` model the same loop from two sides. In the first a call is
  refused or fails as a choice and only control state is exact; in the second the calls are
  exact and what the roles say is a choice. Neither tracks how a reason is worded beyond the
  words the classification looks for.
* `LocalContext` leaves out switched-off features, the limits of eight chunks, eight
  references and a hundred lines, the cost of the offers in the schema, and the views of
  Reflection and Review. A batch asks for one selector of each body it names.
* Not modelled: prompting and parsing, HTTP, retrieval, repository search, the snapshot
  Tools, Skills, the text of the report and the command line: they change none of the state
  above, and their results are the nondeterministic inputs of the models.

## 6. Where the code and its words differ

Shown by a run:

| run | sentence | what happens |
|---|---|---|
| `path_retry` | `tools/cloudops_source.py`:184 asks for an exact path "before retrying read_file" | the same answer withdraws every source Tool for the rest of the run |
| `second_review` | `harness/dynamic_budget.py`:423 "Review's reserved capacity remains available for the next bounded Review call." | the call is counted before its prompt is checked against the count, so a reserve of n calls serves n - 1 rounds; with the default of two, and two rounds, the second Review is refused whatever the recovery found |
| `pass_delivered` | `src/README.md`:43, Review PASS leads to `SUPPORTED_ROOT_CAUSE` | in the task-aware mode a Candidate published in the turn that changed its hypothesis is not stable yet, its convergence is CONTINUE, and PASS is reported INCONCLUSIVE |

Met while modelling, without a run (the models contain the behaviour, no property forbids
it, or name it as their exception):

* `rca_state.py`:224 takes an ADD_OBLIGATION of any status, SATISFIED without support
  included, and `validate_invariants` (68-102) does not ask for support. The only sender,
  `obligation_admission.py`:281, adds OPEN obligations.
* The Review of an inconclusive report whose repair is refused by a budget takes its call back
  without `add_usage` (`runtime.py`:5417-5432), unlike the same refusal of a Candidate's Review
  (5595-5608, 5625-5638): what its first answer was billed never reaches the totals of the run.
  `runtime.py`:807 says records are consumed "once for every production role".
  `UsagePublished` names this exit as its one exception.
* `runtime.py`:5250 says failures of that Review "remain explicitly UNAVAILABLE". If it fails
  and what it was billed is over a limit, `add_usage` raises in the handler (5433-5448), out of
  `run`: there is no report at all (`ReportRaises`). After an answer the same raise is
  caught, with the repair counted twice.
* knowledge_retrieval that fails without diagnostics keeps its capability while its breaker
  counts (`knowledge/router.py`:144-149, `harness/provider_health.py`:148): at the threshold the
  circuit opens under a Tool that is still offered, the next call is refused, and at the head of
  the loop every open obligation is blocked or not applicable for good
  (`LifecycleMonotone`), although what it retrieves is prior knowledge and never Evidence.
* `runtime.py`:2532 says a projection cannot reopen a terminal contradiction. A decision that
  restates one RESOLVED contradiction drops the other from the tuple, and the qualification
  that ends the same transaction adds it back as OPEN BLOCKING. (`DecidedContradictionsKept`
  holds: it is about a contradiction that is present before and after.)
* `runtime.py`:2504 says an open contradiction cannot be silently cleared. Once a decision
  cites another grounded contradiction, an OPEN WEAK one it does not name is replaced away.
* `runtime.py`:2686 says contradiction status belongs to admitted relationships in one scope.
  A REFINE or REPLACE by Reflection carries its updates into a scope where nothing is related.
* `knowledge/router.py`:175 says the action fingerprint "prevents replaying the same missing
  query". `action_runtime.py`:102 matches ACQUIRED rows only; a missing query runs again.
* `runtime.py`:384 names `ReviewProgressRequired` for an unchanged Candidate after a
  rejection. `post_commit_finalization` (5113) publishes without that test;
  `ResubmissionShowsProgress` excludes exactly this. The ends of a recovery without progress
  (3515, 3531) have no test either, but are dead: what could be published was published with
  its commit, and a Reflection that moves the state counts as progress.
* `evidence_admission_rejections` (`runtime.py`:635, 5108) is never raised, so its trigger of
  a Reflection is dead.
* The shared counter is read under its lock (`provider_gateway.py`:268, 287) after the child
  that may hold it (203) was terminated: killed there, the parent waits forever (state
  `stuck`).
* `begin_review` (`dynamic_budget.py`:405) measures an overrun in logical calls; attempts are
  bounded physically, with their retries.
* After a Reflection opened a new scope and named contradictory Evidence of the old one, that
  contradiction blocks, and every KEEP_CURRENT decision copies it (`agent/planner.py`:717):
  until it is related to an obligation of the new scope each such decision is rejected as ungrounded
  (`runtime.py`:2470).
* The second request of a Reflection or Review turn is checked on the usage of its first
  admission, which is why `TokensBounded` allows a second bill beyond what was checked.
* A Reflection refused by the budget gives its call back but keeps its signature, so the same
  trigger cannot be asked again.
* A consolidation turn with a body still pending has a command without a semantic branch,
  which `_consolidation_surface` (`agent/planner.py`:1099-1106) takes for granted: the turn
  ends as a runtime failure.
* `context/manager.py`:179-181 says a fresh build expires local receipts; `runtime.py`
  (4417-4419) carries those still displayed into the next turn's build.
* The dry run that decides which recovery to offer leaves out the receipt of the request it
  would answer, and the catalog may be cut by the size of the index: an offered body can
  still fail to fit.
* `report_review_status` and the classification read a decision and a reason that may belong
  to an earlier round; a `review_disabled` run is classified as an execution failure.

## 7. Plan

Written, in this order: reducer, semantic transition with its abstract specification,
execution graph, plan execution, calls and budgets, run control, the Planner's view, and the
proofs of all of them: every safety property of the runs is a theorem. What is left:

1. What the reserve of Review does guarantee, given that a reserve of n calls serves n - 1
   rounds (`second_review`): the rounds before the last are not refused.
2. The views of Reflection and Review, which share `Build` and add role-specific bodies.
