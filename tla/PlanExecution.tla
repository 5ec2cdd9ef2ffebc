--------------------------- MODULE PlanExecution ---------------------------
(***************************************************************************)
(* Phase B of a turn in incidents/runtime.py: after the semantic commit    *)
(* the one action the Reasoner asked for is compiled, admitted against the *)
(* committed state (ContinuationPolicy), added to the execution graph as a *)
(* task named after the turn, and run through ActionRuntime: acquisition   *)
(* ledger, Tool circuit breaker, retries, capability update, Observation.  *)
(* The loop is one thread, so a step below is what runs between two calls  *)
(* to something outside: the Reasoner, Reflection, the Tool.               *)
(*                                                                         *)
(* Abstractions.  The canonical state is its version (event_count) and the *)
(* status of its obligations; what a commit may do to them is arbitrary.   *)
(* An acquisition key is a tool with its arguments and the snapshot it     *)
(* reads, which no caller of the runtime ever refreshes.  The retries of a *)
(* call touch no state and are folded into its answer.  The budgets and    *)
(* the no-progress counters that end a run are a choice to end it.         *)
(***************************************************************************)
EXTENDS VerificationDAG

CONSTANTS MaxSteps, MaxVersion,  \* bounds on turns and on canonical events
          Keys, ToolOf,            \* acquisition keys and the tool of each
          SourcesOf, AnswersOf,    \* the capabilities of a tool and what it can answer
          Retrieval,               \* "knowledge_retrieval", which has several sources
          FailureThreshold, MaxToolCalls

Tools == {ToolOf[k] : k \in Keys}
Sources == UNION {SourcesOf[u] : u \in Tools}

\* What a Tool can answer.  "missing": the snapshot does not hold the query.
\* "not_found": no such resource, or arguments the Tool turns down.
\* "path_not_found": no such source file, with candidate paths.  "error": the rest.
Answers == {"ok", "missing", "not_found", "path_not_found", "error"}

ASSUME ExecutionAssumption ==
  /\ MaxSteps \in Nat /\ MaxVersion \in Nat /\ Tasks = 1 .. MaxSteps
  /\ FailureThreshold \in Nat \ {0} /\ MaxToolCalls \in Nat \ {0}
  /\ None \notin Keys /\ "PENDING" \in Claims
  /\ \A u \in Tools : AnswersOf[u] \subseteq Answers /\ SourcesOf[u] # {}
  /\ \A u \in Tools \ {Retrieval} : SourcesOf[u] \cap SourcesOf[Retrieval] = {}

VARIABLES phase,        \* where the loop is
          step,         \* state.step
          version,      \* canonical event_count
          obligations,  \* canonical status of each obligation
          plan,         \* the admitted plan
          available,    \* capabilities in state AVAILABLE
          health,       \* Tool circuit breaker
          ledger,       \* action ledger: the row each task wrote, if it got that far
          answer,       \* ObservationStore: what came back for each task
          calls,        \* state.tool_calls
          pending       \* pending_capability_blocks

execVars == <<dag, phase, step, version, obligations, plan, available, health, ledger,
              answer, calls, pending>>
records == <<available, health, ledger, answer, calls, pending>>

NoPlan == [obligation |-> None, key |-> None, version |-> 0]
NoRow == [key |-> None, state |-> "NONE"]

ExecInit ==
  /\ dag = EmptyDAG({}) /\ phase = "head" /\ step = 0 /\ version = 0
  /\ obligations = [o \in Obligations |-> "ABSENT"]
  /\ plan = NoPlan /\ available = Sources
  /\ health = [u \in Tools |-> [state |-> "CLOSED", failures |-> 0]]
  /\ ledger = [t \in Tasks |-> NoRow] /\ answer = [t \in Tasks |-> "NONE"]
  /\ calls = 0 /\ pending = {}

-----------------------------------------------------------------------------
(* Admission *)

\* Mutant: a row counts only for the obligation it was acquired for.
MatchingForTarget(k) ==
  \E t \in Tasks : /\ ledger[t] = [key |-> k, state |-> "ACQUIRED"]
                   /\ dag.obligation[t] = plan.obligation

\* matching_acquisitions: a successful acquisition of the key.
MatchingAcquisitions(k) == \E t \in Tasks : ledger[t] = [key |-> k, state |-> "ACQUIRED"]

\* Mutant: capability loss does not hide a tool.
AlwaysVisible(k) == TRUE

\* planner_tool_names: knowledge_retrieval needs any of its sources, any other tool all.
VisibleTool(u) ==
  IF u = Retrieval THEN SourcesOf[u] \cap available # {} ELSE SourcesOf[u] \subseteq available
Visible(k) == VisibleTool(ToolOf[k])

\* Mutant: the plan is not tied to the version it was admitted at.
TargetStillOpen == obligations[plan.obligation] = "OPEN"

\* execution_barrier: the committed state is the one the plan was admitted against.
PlanCurrent == plan.version = version /\ obligations[plan.obligation] = "OPEN"

\* Head of the loop: mark_blocked_capability blocks every open obligation.
BlockPending(status) ==
  IF pending = {} THEN status
  ELSE [o \in Obligations |-> IF status[o] = "OPEN" THEN "CLOSED" ELSE status[o]]

\* The statuses a semantic commit may leave.
Commits(status) ==
  {next \in [Obligations -> {"ABSENT", "OPEN", "CLOSED"}] :
     \A o \in Obligations : next[o] = "ABSENT" => status[o] = "ABSENT"}

\* A turn of the Reasoner: its commit, if it makes one, then plan admission.  The
\* intent names an open target and a visible tool, or is dropped.
Turn(o, k, next) ==
  /\ phase = "head" /\ step < MaxSteps
  /\ step' = step + 1
  /\ version' \in {version, version + 1}
  /\ version' <= MaxVersion
  /\ obligations' = next
  /\ next # obligations => version' = version + 1
  /\ pending' = {}
  /\ IF o # None /\ k # None /\ next[o] = "OPEN" /\ Visible(k) /\ ~MatchingAcquisitions(k)
     THEN phase' = "planned" /\ plan' = [obligation |-> o, key |-> k, version |-> version']
     ELSE phase' \in {"head", "ended"} /\ plan' = NoPlan
  /\ UNCHANGED <<dag, available, health, ledger, answer, calls>>

\* trigger_reflection runs between admission and execution when Evidence of this
\* turn was rejected, and may submit events of its own.
Reflect(next) ==
  /\ phase = "planned" /\ version < MaxVersion
  /\ version' = version + 1 /\ obligations' = next
  /\ phase' = "reflected"
  /\ UNCHANGED <<dag, step, plan, records>>

EndBurst == phase' \in {"head", "ended"} /\ plan' = NoPlan

KnownObligations == {o \in Obligations : obligations[o] # "ABSENT"}

NewTask == [t \in {step} |-> [dependencies |-> {}, obligation |-> plan.obligation,
                              status |-> "PENDING"]]

\* execute_plan up to the burst: barrier, projection of the obligations, new task.
Preflight ==
  /\ phase \in {"planned", "reflected"}
  /\ IF PlanCurrent
     THEN LET d == [dag EXCEPT !.registered = @ \cup KnownObligations] IN
          /\ BatchAllowed(d, NewTask)
          /\ dag' = Added(d, NewTask)
          /\ phase' = "burst" /\ UNCHANGED plan
     ELSE EndBurst /\ UNCHANGED dag
  /\ UNCHANGED <<step, version, obligations, records>>

\* Mutant: one call too many.
CapacityInclusive == calls <= MaxToolCalls

Capacity == calls < MaxToolCalls

\* Mutant: the burst takes any ready task of the graph.
AnyReady == Ready(dag)

\* The ready tasks of this plan.
BurstReady == Ready(dag) \cap {step}

\* One round of the burst: admission again, then capacity, then the selection.  A
\* rejected task stays READY.
Admit(t) ==
  /\ phase = "burst" /\ t \in BurstReady
  /\ IF PlanCurrent /\ Visible(plan.key) /\ ~MatchingAcquisitions(plan.key) /\ Capacity
     THEN phase' = "calling" /\ dag' = Selected(dag, t) /\ UNCHANGED plan
     ELSE EndBurst /\ UNCHANGED dag
  /\ UNCHANGED <<step, version, obligations, records>>

\* The burst turns the task away: compile_planned_action, the read_file budget or
\* ACTION_FILE_RESOURCE_REQUIRED.
Reject ==
  /\ phase = "burst" /\ BurstReady # {} /\ EndBurst
  /\ UNCHANGED <<dag, step, version, obligations, records>>

\* Nothing ready, or all done: the burst is over.
BurstOver ==
  /\ phase = "burst" /\ BurstReady = {} /\ EndBurst
  /\ UNCHANGED <<dag, step, version, obligations, records>>

-----------------------------------------------------------------------------
(* ActionRuntime.execute *)

\* ToolCircuitBreaker.is_execution_failure
ExecutionFailure(a) == a \in {"error", "path_not_found"}

\* ToolCircuitBreaker.observe
Observed(h, a) ==
  IF ~ExecutionFailure(a) THEN [h EXCEPT !.failures = 0]
  ELSE [state |-> IF h.failures + 1 >= FailureThreshold THEN "OPEN" ELSE h.state,
        failures |-> h.failures + 1]

\* Mutant: a failed query leaves the source in service.
SourcesUnchanged(u, a) == {available}

\* CapabilitySnapshot.observe_tool, as the set of snapshots the answer may leave.  An
\* answer of knowledge_retrieval says of each source whether it gave anything; without
\* diagnostics (it raised, or the breaker answered) it says nothing of any.
SourcesAfter(u, a) ==
  CASE u = Retrieval /\ a = "ok" ->
         {(available \ SourcesOf[u]) \cup hits : hits \in SUBSET SourcesOf[u]}
    [] u = Retrieval /\ a # "ok" -> {available}
    [] u # Retrieval /\ a = "missing" -> {available}
    [] u # Retrieval /\ a = "ok" -> {available \cup SourcesOf[u]}
    [] OTHER -> {available \ SourcesOf[u]}

\* Mutant: what did not fail hard counts as completed.
LenientStatus(a) == IF a \in {"ok", "missing"} THEN "COMPLETED" ELSE "FAILED"

TaskResult(a) == IF a = "ok" THEN "COMPLETED" ELSE "FAILED"

SelectedTool == ToolOf[plan.key]

Refused == health[SelectedTool].state = "OPEN"

\* The Tool answers a, or the open breaker answers for it and writes no ledger row:
\* breaker, capability, Observation, task.
Call(a) ==
  LET result == IF Refused THEN "blocked" ELSE a IN
  /\ phase = "calling" /\ a \in AnswersOf[SelectedTool]
  /\ ledger' = IF Refused THEN ledger
               ELSE [ledger EXCEPT ![dag.selected] =
                       [key |-> plan.key, state |-> IF a = "ok" THEN "ACQUIRED" ELSE "ATTEMPTED"]]
  /\ health' = IF Refused THEN health ELSE [health EXCEPT ![SelectedTool] = Observed(@, a)]
  /\ available' \in SourcesAfter(SelectedTool, result)
  /\ pending' = IF Refused THEN pending \cup {SelectedTool} ELSE pending
  /\ answer' = [answer EXCEPT ![dag.selected] = result]
  /\ calls' = calls + 1
  /\ dag' = Executed(dag, dag.selected, TaskResult(result))
  /\ IF result = "ok" THEN phase' = "burst" /\ UNCHANGED plan ELSE EndBurst
  /\ UNCHANGED <<step, version, obligations>>

\* before_execution (the deadline, a budget) raises: the task fails, the run ends.
CallRefused ==
  /\ phase = "calling" /\ ~Refused
  /\ dag' = Executed(dag, dag.selected, "FAILED")
  /\ phase' = "ended" /\ plan' = NoPlan
  /\ UNCHANGED <<step, version, obligations, records>>

ExecNext ==
  \/ \E o \in Obligations \cup {None}, k \in Keys \cup {None},
        next \in Commits(BlockPending(obligations)) : Turn(o, k, next)
  \/ \E next \in Commits(obligations) : Reflect(next)
  \/ Preflight \/ Reject \/ BurstOver
  \/ \E t \in Tasks : Admit(t)
  \/ \E a \in Answers : Call(a)
  \/ CallRefused

ExecSpec == ExecInit /\ [][ExecNext]_execVars

-----------------------------------------------------------------------------
(* Properties *)

ExecTypeOK ==
  /\ DAGTypeOK
  /\ phase \in {"head", "planned", "reflected", "burst", "calling", "ended"}
  /\ step \in 0 .. MaxSteps /\ version \in 0 .. MaxVersion /\ calls \in 0 .. MaxToolCalls
  /\ obligations \in [Obligations -> {"ABSENT", "OPEN", "CLOSED"}]
  /\ plan \in [obligation : Obligations, key : Keys, version : 0 .. MaxVersion] \cup {NoPlan}
  /\ available \subseteq Sources /\ pending \subseteq Tools
  /\ health \in [Tools -> [state : {"CLOSED", "OPEN"}, failures : Nat]]
  /\ ledger \in [Tasks -> [key : Keys, state : {"ATTEMPTED", "ACQUIRED"}] \cup {NoRow}]
  /\ answer \in [Tasks -> Answers \cup {"NONE", "blocked"}]

\* Data once acquired is never acquired again, however many turns lie between the
\* two requests and whatever obligation they are for.
AcquiredOnce ==
  \A s, t \in Tasks :
    ledger[s].state = "ACQUIRED" /\ ledger[t] = ledger[s] => s = t

\* The three records of an execution agree after every exit of the burst: a task is
\* completed exactly when its acquisition and its Observation succeeded, a task that
\* was turned away left no trace, and a failure without an Observation ended the run.
RecordsAgree ==
  \A t \in Tasks :
    /\ dag.status[t] = "COMPLETED" <=> ledger[t].state = "ACQUIRED"
    /\ dag.status[t] = "COMPLETED" <=> answer[t] = "ok"
    /\ dag.status[t] \in {"ABSENT", "READY"} => ledger[t] = NoRow /\ answer[t] = "NONE"
    /\ dag.status[t] = "FAILED" /\ answer[t] = "NONE" => phase = "ended" /\ t = step

\* A task its own turn left READY is never run: later turns leave it as it is.
AbandonedStayReady ==
  [][\A t \in Ready(dag) : t < step => dag'.status[t] = "READY"]_execVars

\* A tool runs only for a target that is open in the committed state, at the version
\* its plan was admitted against, whatever Reflection did in between.
CallsAreCurrent ==
  phase = "calling" => plan.version = version /\ obligations[plan.obligation] = "OPEN"

\* Two records of the health of a Tool, by different rules: the capability of a tool is
\* gone before its breaker opens, so obligations are only ever blocked on account of
\* knowledge_retrieval, whose failures the breaker counts and the capability does not.
BreakerMasked ==
  /\ \A u \in Tools \ {Retrieval} : health[u].state = "OPEN" => ~VisibleTool(u)
  /\ phase = "calling" /\ Refused => SelectedTool = Retrieval
  /\ pending \subseteq {Retrieval}

\* A tool that was hidden stays hidden for the run, whichever of the tools that share a
\* capability with it is asked for later.  (A single source of knowledge_retrieval may
\* come back, as long as another one keeps the tool visible.)
HiddenStaysHidden == [][\A u \in Tools : ~VisibleTool(u) => ~VisibleTool(u)']_execVars

\* tools/cloudops_source.py, for a path that does not exist: "Use an exact relative
\* path from repo_tree or code_search before retrying read_file."
RetryAfterPathNotFound ==
  [][\A t \in Tasks : answer'[t] = "path_not_found" /\ answer[t] = "NONE" =>
       available' = available]_execVars
=============================================================================
