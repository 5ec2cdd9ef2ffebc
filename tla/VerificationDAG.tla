-------------------------- MODULE VerificationDAG --------------------------
(***************************************************************************)
(* The execution graph of incidents/verification_dag.py: tasks that each   *)
(* verify one obligation, with dependencies, under the state machine of    *)
(* VerificationDAGHarnessAdapter.  Every operation of the adapter maps a   *)
(* frozen VerificationDAGState to a new one or raises VerificationDAGError *)
(* and leaves the old one in use; here an operation that raises is no      *)
(* step.  The caller is arbitrary: it may register, add, select and        *)
(* execute in any order.                                                   *)
(*                                                                         *)
(* Abstractions.  The transition log and result references are left out.   *)
(* A batch of proposed tasks is a function from new task identities, so    *)
(* the duplicate identities a batch may hold are left out too.             *)
(***************************************************************************)
EXTENDS Naturals, FiniteSets

CONSTANTS Tasks, Obligations, None, MaxLocalReplans,
          Claims  \* lifecycle states a provider may claim for a proposed task

TaskStatus == {"PENDING", "READY", "RUNNING", "COMPLETED", "FAILED", "BLOCKED"}
ExecutionStatus == {"COMPLETED", "FAILED", "BLOCKED"}
Broken == {"FAILED", "BLOCKED"}

ASSUME DAGAssumption ==
  /\ None \notin Tasks \cup Obligations
  /\ MaxLocalReplans \in Nat \ {0}
  /\ Claims \subseteq TaskStatus

VARIABLE dag

\* "ABSENT" is an identity no task has taken yet.
DAGStates ==
  [status       : [Tasks -> TaskStatus \cup {"ABSENT"}],
   dependencies : [Tasks -> SUBSET Tasks],
   obligation   : [Tasks -> Obligations \cup {None}],
   registered   : SUBSET Obligations,
   selected     : Tasks \cup {None},
   replans      : Nat]

Proposal == [dependencies : SUBSET Tasks, obligation : Obligations, status : Claims]
Batches == UNION {[B -> Proposal] : B \in SUBSET Tasks}

Present(d) == {t \in Tasks : d.status[t] # "ABSENT"}
WithStatus(d, S) == {t \in Tasks : d.status[t] \in S}
Terminal(d) == WithStatus(d, ExecutionStatus)
Unsettled(d) == Present(d) \ Terminal(d)
Ready(d) == WithStatus(d, {"READY"})
Completed(d) == WithStatus(d, {"COMPLETED"})

-----------------------------------------------------------------------------
(* _validate_dependency_graph *)

\* No cycle: every set of tasks has one that depends on none of the set.
Acyclic(T, dependencies) ==
  \A S \in SUBSET T : S # {} => \E t \in S : dependencies[t] \cap S = {}

\* Mutant: unknown dependencies are checked, cycles are not.
KnownDependencies(T, dependencies) == \A t \in T : dependencies[t] \subseteq T

ValidGraph(T, dependencies) ==
  /\ \A t \in T : dependencies[t] \subseteq T
  /\ Acyclic(T, dependencies)

-----------------------------------------------------------------------------
(* _refresh *)

\* Closed under "a task that is not terminal and needs a broken one breaks too".
ClosedUnderBreaking(d, B) ==
  /\ WithStatus(d, Broken) \subseteq B
  /\ \A t \in Unsettled(d) : d.dependencies[t] \cap B # {} => t \in B

\* Mutant: only the direct dependants of a broken task are blocked.
DoomedOneStep(d) ==
  WithStatus(d, Broken) \cup
  {t \in Unsettled(d) : d.dependencies[t] \cap WithStatus(d, Broken) # {}}

\* What the refresh loop ends up blocking: the least set so closed.
Doomed(d) ==
  {t \in Tasks : \A B \in SUBSET Tasks : ClosedUnderBreaking(d, B) => t \in B}

RefreshedStatus(d) ==
  [t \in Tasks |->
     IF t \notin Unsettled(d) THEN d.status[t]
     ELSE IF t \in Doomed(d) THEN "BLOCKED"
     ELSE IF d.dependencies[t] \subseteq Completed(d) THEN "READY"
     ELSE "PENDING"]

Refresh(d) ==
  LET status == RefreshedStatus(d) IN
  [d EXCEPT !.status = status,
            !.selected = IF @ # None /\ status[@] # "READY" THEN None ELSE @]

-----------------------------------------------------------------------------
(* The operations of VerificationDAGHarnessAdapter *)

\* Mutant: the claimed lifecycle is kept.
ClaimedStatus(proposal) == proposal.status

\* _runtime_owned_task: the lifecycle a provider claims for its task is reset.
OwnedStatus(proposal) == "PENDING"

\* d with the tasks of the batch, each in its initial status, and no selection.
Extended(d, batch) ==
  [d EXCEPT
     !.status = [t \in Tasks |-> IF t \in DOMAIN batch THEN OwnedStatus(batch[t]) ELSE @[t]],
     !.dependencies = [t \in Tasks |-> IF t \in DOMAIN batch THEN batch[t].dependencies ELSE @[t]],
     !.obligation = [t \in Tasks |-> IF t \in DOMAIN batch THEN batch[t].obligation ELSE @[t]],
     !.selected = None]

\* Mutant: a batch may reuse the identity of an existing task.
BatchOverwrites(d, batch) ==
  /\ DOMAIN batch # {}
  /\ \A t \in DOMAIN batch : batch[t].obligation \in d.registered
  /\ ValidGraph(Present(d) \cup DOMAIN batch, Extended(d, batch).dependencies)

\* Mutant: the obligation of a task need not be registered.
BatchUnregistered(d, batch) ==
  /\ DOMAIN batch # {} /\ DOMAIN batch \cap Present(d) = {}
  /\ ValidGraph(Present(d) \cup DOMAIN batch, Extended(d, batch).dependencies)

\* validate_task_shape, the references of the batch, and the graph it leads to.
BatchAllowed(d, batch) ==
  /\ DOMAIN batch # {} /\ DOMAIN batch \cap Present(d) = {}
  /\ \A t \in DOMAIN batch : batch[t].obligation \in d.registered
  /\ ValidGraph(Present(d) \cup DOMAIN batch, Extended(d, batch).dependencies)

EmptyDAG(O) ==
  [status |-> [t \in Tasks |-> "ABSENT"], dependencies |-> [t \in Tasks |-> {}],
   obligation |-> [t \in Tasks |-> None], registered |-> O, selected |-> None, replans |-> 0]

Added(d, batch) == Refresh(Extended(d, batch))

LocalReplanAllowed(d, batch) == d.replans < MaxLocalReplans /\ BatchAllowed(d, batch)
LocalReplanned(d, batch) == Refresh([Extended(d, batch) EXCEPT !.replans = @ + 1])

Selected(d, t) == [d EXCEPT !.selected = t]

ExecutionAllowed(d, t) == d.status[t] = "READY" /\ d.selected \in {None, t}

\* Mutant: a failed task goes back to READY.
ExecutedRetryingFailures(d, t, status) ==
  Refresh([d EXCEPT !.status[t] = IF status = "FAILED" THEN "READY" ELSE status,
                    !.selected = None])

Executed(d, t, status) == Refresh([d EXCEPT !.status[t] = status, !.selected = None])

-----------------------------------------------------------------------------
\* The batches worth proposing to d: the others name an identity in use or an
\* unknown dependency, and are turned away.
Proposed(d) ==
  UNION {[B -> [dependencies : SUBSET (Present(d) \cup B), obligation : Obligations,
                status : Claims]] : B \in SUBSET (Tasks \ Present(d))}

Initialize ==
  \E O \in SUBSET Obligations :
    \/ dag = EmptyDAG(O)
    \/ \E batch \in Proposed(EmptyDAG(O)) :
         BatchAllowed(EmptyDAG(O), batch) /\ dag = Added(EmptyDAG(O), batch)

RegisterObligationIds(O) ==
  /\ ~(O \subseteq dag.registered)
  /\ dag' = [dag EXCEPT !.registered = @ \cup O]

AddTasks(batch) == BatchAllowed(dag, batch) /\ dag' = Added(dag, batch)

LocalReplan(batch) == LocalReplanAllowed(dag, batch) /\ dag' = LocalReplanned(dag, batch)

SelectReady(t) == dag.status[t] = "READY" /\ dag' = Selected(dag, t)

ApplyExecution(t, status) == ExecutionAllowed(dag, t) /\ dag' = Executed(dag, t, status)

HarnessNext ==
  \/ \E O \in SUBSET Obligations : RegisterObligationIds(O)
  \/ \E batch \in Proposed(dag) : AddTasks(batch) \/ LocalReplan(batch)
  \/ \E t \in Tasks : SelectReady(t) \/ \E s \in ExecutionStatus : ApplyExecution(t, s)

HarnessSpec == Initialize /\ [][HarnessNext]_dag

-----------------------------------------------------------------------------
(* Properties *)

\* What model_validate checks whenever a state is read back from the graph.
StateShape(d) ==
  /\ d.selected # None => d.status[d.selected] = "READY"
  /\ \A t \in Present(d) : d.obligation[t] \in d.registered

\* Types, and every state can be read back.
DAGTypeOK == dag \in DAGStates /\ StateShape(dag)

\* Statuses are settled after every operation: what is ready, pending or blocked
\* agrees with the dependencies, transitively, and nothing was executed before
\* everything it needs had completed.
Settled(d) ==
  \A t \in Present(d) :
    /\ d.status[t] \in {"READY", "COMPLETED", "FAILED"} =>
         d.dependencies[t] \subseteq Completed(d)
    /\ d.status[t] = "PENDING" =>
         /\ d.dependencies[t] \cap WithStatus(d, Broken) = {}
         /\ ~(d.dependencies[t] \subseteq Completed(d))

StatusesSettled == Settled(dag)

\* The graph never waits on itself: while a task is pending some task is ready, so
\* synthesize always reports EXECUTION_COMPLETE and a burst that runs out of ready
\* tasks has nothing pending.
PendingHasReady == WithStatus(dag, {"PENDING"}) # {} => Ready(dag) # {}

\* A task that ended is never run again, renamed or rewired, and no task disappears.
HistoryKept ==
  [][\A t \in Present(dag) :
       /\ dag'.dependencies[t] = dag.dependencies[t]
       /\ dag'.obligation[t] = dag.obligation[t]
       /\ t \in Present(dag')
       /\ t \in Terminal(dag) => dag'.status[t] = dag.status[t]]_dag
=============================================================================
