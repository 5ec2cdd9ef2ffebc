------------------------- MODULE VerificationGraph -------------------------
(***************************************************************************)
(* LangGraphVerificationAdapter of incidents/verification_dag.py: the      *)
(* fixed topology                                                          *)
(*   plan_or_replan -> select_ready_task -> execute_through_harness        *)
(*     -> update_task_state -> (back) ... -> synthesize -> review          *)
(* around the adapter of VerificationDAG.  A run works on a copy of the    *)
(* caller's state and the caller takes the state of its result; between    *)
(* runs the caller uses the adapter directly.  The graph is run by         *)
(* run_fail_closed: what any node, the callback or LangGraph itself (its   *)
(* recursion limit) raises ends the run as FAILED.                         *)
(***************************************************************************)
EXTENDS VerificationDAG

CONSTANT Replans  \* the batches a run may be given to replan with

ASSUME ReplansAssumption == Replans \subseteq Batches

VARIABLES graph,   \* VerificationGraphState and the node about to run
          outcome  \* terminal_status of the last run

graphVars == <<dag, graph, outcome>>

NoBatch == CHOOSE batch \in Batches : DOMAIN batch = {}
NoExecution == [task |-> None, status |-> "NONE"]

NoGraph == [node |-> "none", dag |-> EmptyDAG({}), selected |-> None,
            execution |-> NoExecution, replan_tasks |-> NoBatch, replan_requested |-> FALSE]

Nodes == {"plan_or_replan", "select_ready_task", "execute_through_harness",
          "update_task_state", "synthesize"}
Running == graph.node # "none"

GraphInit == Initialize /\ graph = NoGraph /\ outcome = "NONE"

Run(batch, requested) ==
  /\ ~Running
  /\ graph' = [NoGraph EXCEPT !.node = "plan_or_replan", !.dag = dag,
                              !.replan_tasks = batch, !.replan_requested = requested]
  /\ outcome' = "NONE"
  /\ UNCHANGED dag

At(node) == graph.node = node

WantsReplan == graph.replan_requested /\ graph.replan_tasks # NoBatch

PlanOrReplan ==
  /\ At("plan_or_replan")
  /\ WantsReplan => LocalReplanAllowed(graph.dag, graph.replan_tasks)
  /\ graph' = [graph EXCEPT
       !.node = "select_ready_task",
       !.dag = IF WantsReplan THEN LocalReplanned(@, graph.replan_tasks) ELSE @,
       !.replan_tasks = IF WantsReplan THEN NoBatch ELSE @,
       !.replan_requested = FALSE]
  /\ UNCHANGED <<dag, outcome>>

\* Several ready tasks need a choice the graph has no one to ask for.
SelectReadyTask ==
  /\ At("select_ready_task")
  /\ \/ /\ Ready(graph.dag) = {}
        /\ graph' = [graph EXCEPT !.node = "synthesize", !.selected = None]
     \/ \E t \in Tasks :
          /\ Ready(graph.dag) = {t}
          /\ graph' = [graph EXCEPT !.node = "execute_through_harness", !.selected = t,
                                    !.dag = Selected(@, t)]
  /\ UNCHANGED <<dag, outcome>>

\* The Harness callback answers for a task, not necessarily the one it was given.
ExecuteThroughHarness(t, status) ==
  /\ At("execute_through_harness")
  /\ graph' = [graph EXCEPT !.node = "update_task_state",
                            !.execution = [task |-> t, status |-> status]]
  /\ UNCHANGED <<dag, outcome>>

UpdateTaskState ==
  LET t == graph.execution.task
      status == graph.execution.status
      next == Executed(graph.dag, t, status)
      requested == status \in Broken
  IN /\ At("update_task_state")
     /\ ExecutionAllowed(graph.dag, t)
     /\ graph' = [graph EXCEPT
          !.node = IF requested /\ graph.replan_tasks # NoBatch /\ next.replans < MaxLocalReplans
                     THEN "plan_or_replan"
                   ELSE IF Ready(next) # {} THEN "select_ready_task" ELSE "synthesize",
          !.dag = next, !.selected = None, !.execution = NoExecution,
          !.replan_requested = requested]
     /\ UNCHANGED <<dag, outcome>>

DAGTerminal(d) == Ready(d) = {} /\ WithStatus(d, {"PENDING"}) = {}

\* synthesize and the review node, which does nothing.
Synthesize ==
  /\ At("synthesize")
  /\ outcome' = IF DAGTerminal(graph.dag) THEN "EXECUTION_COMPLETE" ELSE "EXECUTION_PENDING"
  /\ dag' = graph.dag
  /\ graph' = NoGraph

\* run_fail_closed hands back the state the run was given.
FailClosed ==
  /\ Running
  /\ outcome' = "FAILED"
  /\ graph' = NoGraph
  /\ UNCHANGED dag

NodeNext ==
  \/ PlanOrReplan
  \/ SelectReadyTask
  \/ \E t \in Tasks, s \in ExecutionStatus : ExecuteThroughHarness(t, s)
  \/ UpdateTaskState
  \/ Synthesize
  \/ FailClosed

CallerNext ==
  \/ ~Running /\ HarnessNext /\ UNCHANGED <<graph, outcome>>
  \/ \E batch \in Replans \cup {NoBatch}, requested \in BOOLEAN : Run(batch, requested)

GraphNext == CallerNext \/ NodeNext

\* Nodes run one after the other on the caller's thread.
GraphSpec == GraphInit /\ [][GraphNext]_graphVars /\ WF_graphVars(NodeNext)

-----------------------------------------------------------------------------
(* Properties *)

GraphTypeOK ==
  /\ DAGTypeOK /\ StateShape(graph.dag)
  /\ graph \in [node : Nodes \cup {"none"}, dag : DAGStates, selected : Tasks \cup {None},
                execution : [task : Tasks, status : ExecutionStatus] \cup {NoExecution},
                replan_tasks : Replans \cup {NoBatch}, replan_requested : BOOLEAN]
  /\ outcome \in {"NONE", "EXECUTION_COMPLETE", "EXECUTION_PENDING", "FAILED"}

\* A run that does not fail has carried every task to its end: the status
\* EXECUTION_PENDING of synthesize is never reported, whatever failed, was blocked or
\* was replanned on the way.
NothingLeftPending ==
  outcome # "EXECUTION_PENDING" /\ (At("synthesize") => Unsettled(graph.dag) = {})

\* Every run returns, with the graph's own loop bounded by the tasks and the replans.
RunReturns == Running ~> ~Running
=============================================================================
