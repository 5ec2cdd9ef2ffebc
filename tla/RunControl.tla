----------------------------- MODULE RunControl -----------------------------
(***************************************************************************)
(* IncidentRuntime.run: the loop of Planner turns, the Reflections that    *)
(* recover from no progress, publication, the rounds of Review with their  *)
(* recovery investigations, the Review of an inconclusive report, and the  *)
(* way every end of it is reported.  ProgressPolicy decides, the Runtime   *)
(* keeps the counters.                                                     *)
(*                                                                         *)
(* Abstractions.  The canonical state is what control reads of it (see     *)
(* sem); a semantic transaction moves it freely.  Budgets, Tool and time   *)
(* limits are choices here (ReasonerCalls, PlanExecution): a call may be   *)
(* refused for each of the reasons the code knows.  Expiry of the run's    *)
(* deadline is an action of its own.  Not a step: the admission-rejection  *)
(* trigger of a Reflection, whose counter the code never raises.           *)
(***************************************************************************)
EXTENDS Naturals, FiniteSets

CONSTANTS Hypotheses,        \* semantic fingerprints of a hypothesis, without 0
          MaxEvidence,       \* bound of the model: pinned Evidence
          Modes,             \* presets: "baseline", "dag", "task_aware" (dag with convergence v2)
          Reviews,           \* values of enable_review
          MaxSteps,          \* max_steps
          RecoverySteps,     \* max_post_reject_steps + 2
          MaxNoProgress,     \* max_no_progress
          MaxDuplicates,     \* max_duplicate_actions
          CompactionLimit,   \* compactions of a prompt, per investigation
          MaxReflections,    \* max_reflection_calls
          MaxNoDelta,        \* max_consecutive_reflection_calls
          MaxReviewRounds, MaxRecoveryCycles

ASSUME HypothesesAssumption == 0 \notin Hypotheses /\ IsFiniteSet(Hypotheses)
ASSUME SettingAssumption ==
  /\ Modes \subseteq {"baseline", "dag", "task_aware"} /\ Reviews \subseteq BOOLEAN
ASSUME LimitAssumption ==
  /\ MaxEvidence \in Nat /\ MaxReflections \in Nat /\ MaxRecoveryCycles \in Nat
  /\ CompactionLimit \in Nat /\ MaxDuplicates \in Nat \ {0}
  /\ MaxSteps \in Nat \ {0} /\ RecoverySteps \in Nat \ {0} /\ MaxNoProgress \in Nat \ {0}
  /\ MaxNoDelta \in Nat \ {0} /\ MaxReviewRounds \in Nat \ {0}

VARIABLES setting,  \* mode and enable_review
          late,     \* the deadline of the run has passed
          sem,      \* the canonical state as control reads it
          loop,     \* counters of the investigation
          refl,     \* counters of Reflection
          review,   \* counters of Review and the baseline of a recovery
          out       \* where the run is and what it would report
vars == <<setting, late, sem, loop, refl, review, out>>

NoBase == [hyp |-> 0, ev |-> 0]
NoCandidate == NoBase
Candidate(s) == [hyp |-> s.hyp, ev |-> s.ev]
NoLoop == [step |-> 0, limit |-> MaxSteps, compactions |-> 0, stale |-> 0, repeated |-> 0, progress |-> FALSE]
NoRefl == [calls |-> 0, noDelta |-> 0, signatures |-> {}]

Init ==
  /\ setting \in [mode : Modes, review : Reviews]
  /\ late = FALSE
  /\ sem = [hyp |-> 0, ev |-> 0, contra |-> FALSE, ready |-> FALSE, stable |-> FALSE]
  /\ loop = NoLoop
  /\ refl = NoRefl
  /\ review = [rounds |-> 0, cycles |-> 0, base |-> NoBase, converged |-> FALSE]
  /\ out = [pc |-> "head", status |-> "FAILED", why |-> "none", candidate |-> NoCandidate,
            decision |-> "none", about |-> NoCandidate, failed |-> "no", class |-> "none"]

----------------------------------------------------------------------------
(* How a run ends. *)

(* The exceptions the outer handlers name, with the reason each of them sets. *)
Inconclusive == [context |-> "context_resolution_unavailable", blocked |-> "finalization_policy_blocked",
  budget |-> "pre_call_budget_admission_exceeded", converge |-> "converge_output_budget_exhausted",
  reflection |-> "reflection_contract_exhausted", planner |-> "planner_contract_exhausted",
  unchanged |-> "review_feedback_unresolved", calls |-> "physical_call_budget_exhausted"]
(* Two that are inconclusive only once Review was entered. *)
AfterReview == [timeout |-> "provider_timeout_after_review", deadline |-> "run_deadline_after_review"]
BeforeReview == [timeout |-> "provider_timeout", deadline |-> "deadline_exceeded"]
(* Every other exception fails the run, under the category of its message. *)
Failure == [provider |-> "provider_failure", limit |-> "budget_exhausted", stuck |-> "no_progress",
            runtime |-> "runtime_failure"]

(* The catch-all keeps a reason that was set before, whatever it was set for. *)
Raise(e, o, rounds) ==
  out' = IF e \in DOMAIN Inconclusive
         THEN [o EXCEPT !.pc = "report", !.status = "INCONCLUSIVE", !.why = Inconclusive[e]]
         ELSE IF e \in DOMAIN AfterReview /\ rounds > 0
         THEN [o EXCEPT !.pc = "report", !.status = "INCONCLUSIVE", !.why = AfterReview[e]]
         ELSE IF e \in DOMAIN BeforeReview
         THEN [o EXCEPT !.pc = "report", !.status = "FAILED", !.why = BeforeReview[e], !.failed = e]
         ELSE [o EXCEPT !.pc = "report", !.status = "FAILED", !.failed = e,
                        !.why = IF @ = "none" THEN Failure[e] ELSE @]
Inconclude(why) == out' = [out EXCEPT !.pc = "report", !.status = "INCONCLUSIVE", !.why = why]

(* finalize_candidate: FinalizationPolicy is asked again, on the state as it now is. *)
Publish(why, s) ==
  IF s.ready THEN out' = [out EXCEPT !.pc = "candidate", !.why = why, !.candidate = Candidate(s)]
  ELSE Raise("blocked", out, review.rounds)

ReviewProgressAnyEvidence(s) == \* Mutant: the Evidence that was there before counts as new.
  \/ review.base = NoBase
  \/ s.hyp # review.base.hyp
  \/ s.ev >= review.base.ev
(* ensure_review_progress: what a recovery submits differs from what was rejected. *)
ReviewProgress(s) ==
  \/ review.base = NoBase
  \/ s.hyp # review.base.hyp
  \/ s.ev > review.base.ev
Submit(why) ==
  IF ReviewProgress(sem) THEN Publish(why, sem)
  ELSE Raise("unchanged", [out EXCEPT !.why = why], review.rounds)

----------------------------------------------------------------------------
(* Reflection. *)

Trigger(required, s, l) ==
  IF required THEN "review"
  ELSE IF s.contra THEN "contradiction"
  ELSE IF l.repeated > 0 THEN "repeated"
  ELSE IF l.stale >= MaxNoProgress THEN "no_progress"
  ELSE "none"

(* An accepted delta revises the hypothesis or adds questions; stability starts again. *)
Deltas(s) ==
  {d \in [hyp : IF s.hyp = 0 THEN {0} ELSE Hypotheses, ev : {s.ev}, contra : BOOLEAN,
          ready : BOOLEAN, stable : {FALSE}] :
     d.ready => ~d.contra /\ d.hyp # 0}

(* trigger_reflection: each way it may return.  A call the budget refuses is taken back,
   its signature is not; a contract that stays broken ends the run. *)
Reflections(required, s, l, r) ==
  LET trigger == Trigger(required, s, l)
      signature == [trigger |-> trigger, hyp |-> s.hyp, ev |-> s.ev,
                    feedback |-> IF required THEN review.rounds ELSE 0]
      held == [refl |-> r, sem |-> s, moved |-> FALSE, failed |-> FALSE]
      refused == [r EXCEPT !.signatures = @ \union {signature}]
      used == [refused EXCEPT !.calls = @ + 1]
      mayAsk == /\ r.noDelta < MaxNoDelta
                /\ signature \notin r.signatures
                /\ r.calls < MaxReflections
  IN  IF trigger = "none" \/ ~mayAsk THEN {held}
      ELSE {held,                                        \* held back by the phase of the budget
            [held EXCEPT !.refl = refused],
            [held EXCEPT !.refl = used],                 \* timeout or rejected answer
            [held EXCEPT !.refl = used, !.failed = TRUE],
            [held EXCEPT !.refl = [used EXCEPT !.noDelta = @ + 1]],
            [held EXCEPT !.refl = [used EXCEPT !.noDelta = 0]]}   \* only a constraint changed
           \union {[refl |-> [used EXCEPT !.noDelta = 0], sem |-> d, moved |-> TRUE, failed |-> FALSE]
                    : d \in Deltas(s)}

----------------------------------------------------------------------------
(* Investigation. *)

Expire == ~late /\ out.pc # "done" /\ late' = TRUE /\ UNCHANGED <<setting, sem, loop, refl, review, out>>

HeadReasonLate(pressed) ==      \* Mutant: the step limit is noticed one step late.
  IF late THEN "global_deadline"
  ELSE IF pressed THEN "max_tool_calls"
  ELSE IF loop.step > loop.limit THEN "max_steps"
  ELSE IF sem.ready /\ setting.mode # "baseline" THEN "canonical_finalization_allowed"
  ELSE "continue"
(* The head of the loop; pressed stands for the limits kept elsewhere. *)
HeadReason(pressed) ==
  IF late THEN "global_deadline"
  ELSE IF pressed THEN "max_tool_calls"
  ELSE IF loop.step >= loop.limit THEN "max_steps"
  ELSE IF sem.ready /\ setting.mode # "baseline" THEN "canonical_finalization_allowed"
  ELSE "continue"
FinalReason == [global_deadline |-> "global_deadline_sufficient_hypothesis",
                max_tool_calls |-> "max_tool_calls_sufficient_hypothesis",
                max_steps |-> "step_budget_sufficient_hypothesis",
                canonical_finalization_allowed |-> "runtime_convergence_auto_finalize"]

Head ==
  /\ out.pc = "head"
  /\ \E pressed \in BOOLEAN :
       LET reason == HeadReason(pressed)
       IN  \/ reason = "continue" /\ out' = [out EXCEPT !.pc = "turn"]
           \/ reason # "continue" /\ sem.ready /\ Submit(FinalReason[reason])
           \/ /\ reason # "continue" /\ ~sem.ready
              /\ Raise(IF late THEN "deadline" ELSE "limit", out, review.rounds)
  /\ UNCHANGED <<setting, late, sem, loop, refl, review>>

(* A turn that commits nothing.  A budget or a timeout spares a publishable state. *)
Salvage(e, why) == IF sem.ready THEN Submit(why) ELSE Raise(e, out, review.rounds)
TurnFails ==
  /\ out.pc = "turn"
  /\ \/ Salvage("budget", "pre_call_budget_admission_sufficient_hypothesis")
     \/ Salvage("timeout", "planner_timeout_sufficient_hypothesis")
     \/ late /\ Raise("deadline", out, review.rounds)
     \/ \E e \in {"context", "planner", "calls", "provider", "limit", "runtime"} : Raise(e, out, review.rounds)
  /\ UNCHANGED <<setting, late, sem, loop, refl, review>>

(* A prompt that does not fit is compacted and tried again, without a step. *)
TurnCompacts ==
  /\ out.pc = "turn"
  /\ loop' = [loop EXCEPT !.compactions = @ + 1]
  /\ IF loop.compactions < CompactionLimit THEN out' = [out EXCEPT !.pc = "head"]
     ELSE Raise("runtime", out, review.rounds)
  /\ UNCHANGED <<setting, late, sem, refl, review>>

(* What one semantic transaction may leave: a hypothesis kept or refined stays stable. *)
Transactions(s) ==
  {t \in [hyp : Hypotheses, ev : s.ev..MaxEvidence, contra : BOOLEAN, ready : BOOLEAN, stable : BOOLEAN] :
     /\ t.ready => ~t.contra
     /\ t.stable => s.hyp # 0 /\ (t.contra => s.contra)}
(* progress_made over the markers of the turn; closed is a question that was closed. *)
Progress(s, t, closed) == t.hyp # s.hyp \/ t.ev > s.ev \/ (s.contra /\ ~t.contra) \/ closed

(* A committed turn: what FinalizationPolicy allows after the commit is published at once. *)
TurnCommits ==
  /\ out.pc = "turn"
  /\ \E t \in Transactions(sem), closed \in BOOLEAN :
       /\ t.ready /\ ~sem.ready => Progress(sem, t, closed)
       /\ sem' = t
       /\ loop' = [loop EXCEPT !.step = @ + 1, !.progress = Progress(sem, t, closed) /\ ~t.ready]
       /\ \/ t.ready /\ Publish("post_commit_finalization", t)
          \/ ~t.ready /\ out' = [out EXCEPT !.pc = "acted"]
          \/ Raise("converge", out, review.rounds)
  /\ UNCHANGED <<setting, late, refl, review>>

(* What the admitted plan did: repeated actions counted, something new acquired or not. *)
Bursts == {[n |-> loop.repeated, got |-> FALSE], [n |-> loop.repeated + 1, got |-> FALSE],
           [n |-> 0, got |-> FALSE], [n |-> 0, got |-> TRUE], [n |-> 1, got |-> TRUE]}
Count(progress) == IF progress THEN 0 ELSE loop.stale + 1

RecoverOnAnyAnswer(f, l) ==     \* Mutant: a Reflection that was asked counts as progress.
  \E g \in Reflections(FALSE, f.sem, l, f.refl) :
    /\ refl' = g.refl /\ sem' = g.sem
    /\ loop' = [l EXCEPT !.stale = IF g.moved THEN 0 ELSE @]
    /\ IF g.failed THEN Raise("reflection", out, review.rounds)
       ELSE IF g.moved \/ g.refl.calls > f.refl.calls THEN out' = [out EXCEPT !.pc = "head"]
       ELSE IF g.sem.ready THEN Publish("semantic_no_progress_sufficient_hypothesis", g.sem)
       ELSE Raise("stuck", out, review.rounds)
(* observe_action_progress at its limit: one recovery, and only what it moves counts. *)
Recover(f, l) ==
  \E g \in Reflections(FALSE, f.sem, l, f.refl) :
    /\ refl' = g.refl /\ sem' = g.sem
    /\ loop' = [l EXCEPT !.stale = IF g.moved THEN 0 ELSE @]
    /\ IF g.failed THEN Raise("reflection", out, review.rounds)
       ELSE IF g.moved THEN out' = [out EXCEPT !.pc = "head"]
       ELSE IF g.sem.ready THEN Publish("semantic_no_progress_sufficient_hypothesis", g.sem)
       ELSE Raise("stuck", out, review.rounds)

Act ==
  /\ out.pc = "acted"
  /\ \/ Raise("runtime", out, review.rounds) /\ UNCHANGED <<sem, loop, refl>>
     \/ \E b \in Bursts :
        \E f \in IF b.n > 0 THEN Reflections(FALSE, sem, [loop EXCEPT !.repeated = b.n], refl)
                 ELSE {[refl |-> refl, sem |-> sem, moved |-> FALSE, failed |-> FALSE]} :
          LET count == Count(loop.progress \/ f.moved \/ b.got)
              l == [loop EXCEPT !.repeated = b.n, !.stale = count, !.progress = FALSE]
          IN  IF ~f.failed /\ b.n <= MaxDuplicates /\ count >= MaxNoProgress
              THEN Recover(f, l)
              ELSE /\ refl' = f.refl /\ sem' = f.sem /\ loop' = l
                   /\ IF f.failed THEN Raise("reflection", out, review.rounds)
                      ELSE IF b.n > MaxDuplicates THEN Raise("stuck", out, review.rounds)
                      ELSE out' = [out EXCEPT !.pc = "head"]
  /\ UNCHANGED <<setting, late, review>>

----------------------------------------------------------------------------
(* Review of a Candidate. *)

Converged(s) == s.ready /\ s.stable /\ ~late

(* A round is counted before its call is admitted. *)
EnterReview ==
  /\ out.pc = "candidate"
  /\ IF ~setting.review
     THEN Inconclude("review_disabled") /\ UNCHANGED review
     ELSE /\ review.rounds < MaxReviewRounds
          /\ review' = [review EXCEPT !.rounds = @ + 1, !.converged = Converged(sem)]
          /\ \/ late /\ Raise("deadline", out, review'.rounds)
             \/ ~late /\ out' = [out EXCEPT !.pc = "review"]
             \/ \E e \in {"budget", "limit", "timeout"} : Raise(e, out, review'.rounds)
  /\ UNCHANGED <<setting, late, sem, loop, refl>>

(* No usable answer of Review. *)
ReviewFails ==
  /\ out.pc = "review"
  /\ \/ \E why \in {"review_budget_admission_exceeded", "review_prompt_capacity_exceeded",
                    "review_contract_exhausted"} : Inconclude(why)
     \/ \E e \in {"timeout", "provider", "calls", "context"} : Raise(e, out, review.rounds)
     \/ \E d \in {"PASS", "REJECT"} :      \* the answer is there, but the calls of its repair exceed
          Raise("limit", [out EXCEPT !.decision = d, !.about = out.candidate], review.rounds)
  /\ UNCHANGED <<setting, late, sem, loop, refl, review>>

ReviewPasses ==
  /\ out.pc = "review"
  /\ out' = [out EXCEPT !.pc = "report", !.status = "PASS", !.why = "final_review_pass",
                        !.decision = "PASS", !.about = out.candidate]
  /\ UNCHANGED <<setting, late, sem, loop, refl, review>>

ReviewRejects ==
  /\ out.pc = "review"
  /\ out' = [out EXCEPT !.pc = "rejected", !.decision = "REJECT", !.about = out.candidate]
  /\ UNCHANGED <<setting, late, sem, loop, refl, review>>

(* apply_review_rejection: a gap that is admitted becomes a critical question. *)
Rejected(s, created) == IF created THEN [s EXCEPT !.ready = FALSE] ELSE s
Recoverable(unrecoverable, actionable, blocking) == ~unrecoverable /\ (actionable \/ blocking)

(* The recovery investigation has its own steps and compactions; its baseline is what
   was rejected. *)
StartRecovery(s, blocking) ==
  /\ review' = [review EXCEPT !.cycles = @ + 1, !.base = Candidate(s)]
  /\ loop' = [loop EXCEPT !.compactions = 0,
                          !.limit = IF loop.step + RecoverySteps < MaxSteps
                                    THEN loop.step + RecoverySteps ELSE MaxSteps]
  /\ \E f \in IF blocking THEN Reflections(TRUE, s, loop, refl)
              ELSE {[refl |-> refl, sem |-> s, moved |-> FALSE, failed |-> FALSE]} :
       /\ refl' = f.refl /\ sem' = f.sem
       /\ IF f.failed THEN Raise("reflection", out, review.rounds)
          ELSE out' = [out EXCEPT !.pc = "head"]

ApplyRejection ==
  /\ out.pc = "rejected"
  /\ \E created, known, blocking, unrecoverable \in BOOLEAN :
       LET s == Rejected(sem, created)
           refusal == IF ~Recoverable(unrecoverable, created \/ known, blocking)
                      THEN IF unrecoverable THEN "review_unrecoverable" ELSE "review_recovery_unavailable"
                      ELSE IF review.rounds >= MaxReviewRounds THEN "review_bound_exhausted"
                      ELSE IF review.cycles >= MaxRecoveryCycles THEN "review_recovery_bound_exhausted"
                      ELSE "none"
       IN  IF refusal = "none" THEN StartRecovery(s, blocking)
           ELSE Inconclude(refusal) /\ sem' = s /\ UNCHANGED <<loop, refl, review>>
  /\ UNCHANGED <<setting, late>>

----------------------------------------------------------------------------
(* The report. *)

(* The Runtime asks for the Review of an inconclusive report: not after a limit another
   request cannot repair, and not without anything to assess. *)
Reportable ==
  /\ setting.review /\ out.status = "INCONCLUSIVE"
  /\ out.why \notin {"physical_call_budget_exhausted", "run_deadline_after_review",
                     "provider_timeout_after_review"}
  /\ out.why \in {"planner_contract_exhausted", "reflection_contract_exhausted"} =>
       sem.hyp # 0 \/ sem.ev > 0
ReportReviewPromotes ==          \* Mutant: the PASS of a report promotes the run.
  {out} \union (IF Reportable /\ ~late
                THEN {[out EXCEPT !.decision = d, !.about = NoCandidate,
                                  !.status = IF d = "PASS" THEN "PASS" ELSE @] : d \in {"PASS", "REJECT"}}
                ELSE {})
(* review_inconclusive_report: its decision is recorded, for no Candidate. *)
ReportReviewed ==
  {out} \union (IF Reportable /\ ~late
                THEN {[out EXCEPT !.decision = d, !.about = NoCandidate] : d \in {"PASS", "REJECT"}}
                ELSE {})

(* Words of a reason that the classification looks for. *)
BudgetReasons == {"step_budget_sufficient_hypothesis", "pre_call_budget_admission_sufficient_hypothesis",
  "pre_call_budget_admission_exceeded", "converge_output_budget_exhausted", "review_budget_admission_exceeded",
  "physical_call_budget_exhausted", "budget_exhausted", "review_bound_exhausted", "deadline_exceeded",
  "max_tool_calls_sufficient_hypothesis"}
HardReasons == BudgetReasons \union {"global_deadline_sufficient_hypothesis", "run_deadline_after_review",
  "planner_timeout_sufficient_hypothesis", "provider_timeout", "provider_timeout_after_review"}
(* _termination_failure_category names an execution failure. *)
ExecutionReasons == {"planner_contract_exhausted", "review_contract_exhausted", "provider_timeout_after_review",
  "provider_timeout", "provider_failure", "review_disabled", "review_prompt_capacity_exceeded",
  "review_recovery_bound_exhausted", "run_deadline_after_review", "reflection_contract_exhausted",
  "context_resolution_unavailable", "runtime_failure", "deadline_exceeded"}

(* record_terminal_convergence, kept only in the task-aware mode. *)
Convergence(capability) ==
  IF setting.mode # "task_aware" THEN "none"
  ELSE IF out.status = "PASS" /\ sem.ready /\ review.converged THEN "CONVERGED"
  ELSE IF late \/ out.why \in HardReasons THEN "INCONCLUSIVE_BUDGET"
  ELSE IF capability THEN "INCONCLUSIVE_CAPABILITY"
  ELSE IF sem.contra THEN "REPLAN"
  ELSE IF sem.ready /\ sem.stable THEN "CONVERGED" ELSE "CONTINUE"

(* _terminal_outcome, up to the kind of an inconclusive outcome. *)
TerminalOutcome(convergence) ==
  IF convergence = "CONVERGED" \/ (out.status = "PASS" /\ convergence = "none") THEN "CONVERGED"
  ELSE IF out.why = "planner_contract_exhausted" \/ convergence = "INCONCLUSIVE_CAPABILITY" THEN "INCONCLUSIVE"
  ELSE IF convergence = "INCONCLUSIVE_BUDGET" \/ out.why \in BudgetReasons
  THEN IF out.status # "PASS" /\ out.why \in ExecutionReasons THEN "EXECUTION_FAILURE" ELSE "INCONCLUSIVE"
  ELSE IF out.why \in {"context_resolution_unavailable", "no_progress", "semantic_no_progress_sufficient_hypothesis",
                       "review_feedback_unresolved"}
  THEN "INCONCLUSIVE"
  ELSE IF out.status = "FAILED" \/ out.why \in ExecutionReasons THEN "EXECUTION_FAILURE"
  ELSE "INCONCLUSIVE"

(* The report is reviewed, then classified; the status of the result is a projection of
   the classification. *)
Report ==
  /\ out.pc = "report"
  /\ review' = [review EXCEPT !.rounds = IF Reportable THEN @ + 1 ELSE @, !.base = NoBase]
  /\ loop' = NoLoop /\ refl' = NoRefl      \* read no more
  /\ \E o \in ReportReviewed, capability \in BOOLEAN :
       LET class == TerminalOutcome(Convergence(capability))
       IN  out' = [o EXCEPT !.pc = "done", !.class = class,
                            !.status = IF class = "INCONCLUSIVE" THEN "INCONCLUSIVE" ELSE @]
  /\ UNCHANGED <<setting, late, sem>>

(* An error of that Review whose usage is over a limit of the run: add_usage raises in the
   handler of the error, and the run is left without a report. *)
ReportRaises ==
  /\ out.pc = "report" /\ Reportable /\ ~late
  /\ review' = [review EXCEPT !.rounds = @ + 1, !.base = NoBase]
  /\ loop' = NoLoop /\ refl' = NoRefl
  /\ out' = [out EXCEPT !.pc = "done", !.class = "raised"]
  /\ UNCHANGED <<setting, late, sem>>

(* Nothing moves after the report. *)
Finished == out.pc = "done" /\ UNCHANGED vars

Next ==
  \/ Expire \/ Head \/ TurnFails \/ TurnCompacts \/ TurnCommits \/ Act
  \/ EnterReview \/ ReviewFails \/ ReviewPasses \/ ReviewRejects \/ ApplyRejection
  \/ Report \/ ReportRaises \/ Finished
Spec == Init /\ [][Next]_vars

----------------------------------------------------------------------------
(* Properties. *)

(* Every counter stays within its limit, over both investigations and all the paths that
   raise it; the report may add one round of Review to those of Candidates. *)
CandidateType == [hyp : Hypotheses \union {0}, ev : 0..MaxEvidence]
SemType == [hyp : Hypotheses \union {0}, ev : 0..MaxEvidence, contra : BOOLEAN, ready : BOOLEAN, stable : BOOLEAN]
LoopType == [step : 0..MaxSteps, limit : 0..MaxSteps, compactions : 0..(CompactionLimit + 1),
             stale : 0..MaxNoProgress, repeated : 0..(MaxDuplicates + 1), progress : BOOLEAN]
TypeOK ==
  /\ setting \in [mode : Modes, review : Reviews] /\ late \in BOOLEAN
  /\ sem \in SemType /\ loop \in LoopType /\ loop.step <= loop.limit
  /\ refl.calls \in 0..MaxReflections /\ refl.noDelta \in 0..MaxNoDelta
  /\ review.rounds \in 0..(MaxReviewRounds + 1) /\ review.cycles \in 0..MaxRecoveryCycles
  /\ review.base \in CandidateType /\ out.candidate \in CandidateType /\ out.about \in CandidateType
  /\ out.status \in {"PASS", "INCONCLUSIVE", "FAILED"} /\ out.decision \in {"none", "PASS", "REJECT"}

(* A run is PASS only by Review's PASS of the Candidate it delivers, and only while the
   canonical state still projects that Candidate: not by the PASS of an earlier Candidate,
   of a report, or of a state a Reflection has moved since. *)
PassIsReviewed ==
  out.status = "PASS" =>
    /\ out.decision = "PASS" /\ out.about = out.candidate /\ out.candidate # NoCandidate
    /\ Candidate(sem) = out.candidate /\ sem.ready

(* ReviewProgressRequired: what the Runtime itself submits after a rejection is not what
   was rejected.  A Planner's commit publishes without that test; so does the end of a
   recovery without progress, but it never finds a state it could publish. *)
ResubmissionShowsProgress ==
  out.pc = "review" /\ review.base # NoBase /\ out.why # "post_commit_finalization" =>
    out.candidate # review.base

(* The investigation does not go on once its turns without progress reached the limit,
   whatever a Reflection that failed or changed nothing answered. *)
NoProgressStops == out.pc \in {"head", "turn"} => loop.stale < MaxNoProgress

(* The README's Review --PASS--> SUPPORTED_ROOT_CAUSE: a Candidate that Review passed, in
   a run that did not fail, is delivered as PASS. *)
PassDelivered ==
  out.pc = "done" /\ out.decision = "PASS" /\ out.about # NoCandidate /\ out.failed = "no" => out.status = "PASS"
=============================================================================
