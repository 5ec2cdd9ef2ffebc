----------------------- MODULE VerificationGraphProofs -----------------------
(***************************************************************************)
(* Proofs about VerificationGraph, for any tasks, obligations, batches and *)
(* replan limit: the fixed topology around the adapter of VerificationDAG. *)
(*                                                                         *)
(* A run works on a copy, so GInv holds of two graphs; what a node hands   *)
(* to the next one is part of it.                                          *)
(***************************************************************************)
EXTENDS VerificationGraph, VerificationDAGProofs, FiniteSetTheorems

Executions == [task : Tasks, status : ExecutionStatus]

GraphType ==
  /\ graph \in [node : Nodes \cup {"none"}, dag : DAGStates, selected : Tasks \cup {None},
                execution : Executions \cup {NoExecution},
                replan_tasks : Replans \cup {NoBatch}, replan_requested : BOOLEAN]
  /\ outcome \in {"NONE", "EXECUTION_COMPLETE", "EXECUTION_PENDING", "FAILED"}

\* Both graphs are good, and a node is entered with what it reads.
GInv ==
  /\ GraphType
  /\ Good(dag) /\ Good(graph.dag)
  /\ At("update_task_state") => graph.execution \in Executions
  /\ At("synthesize") => Ready(graph.dag) = {}
  /\ outcome # "EXECUTION_PENDING"

LEMMA NoBatchType == NoBatch \in Batches /\ DOMAIN NoBatch = {}
<1> DEFINE b == [t \in {} |-> t]
<1>1. b \in [{} -> Proposal] /\ DOMAIN b = {}
  OBVIOUS
<1>2. b \in Batches
  BY <1>1 DEF Batches
<1>3. \E batch \in Batches : DOMAIN batch = {}
  BY <1>1, <1>2
<1>4. QED
  BY <1>3 DEF NoBatch

LEMMA NoGraphType ==
  /\ NoGraph \in [node : Nodes \cup {"none"}, dag : DAGStates, selected : Tasks \cup {None},
                  execution : Executions \cup {NoExecution},
                  replan_tasks : Replans \cup {NoBatch}, replan_requested : BOOLEAN]
  /\ NoGraph.node = "none" /\ Good(NoGraph.dag)
<1>1. EmptyDAG({}) \in DAGStates /\ Good(EmptyDAG({}))
  BY EmptyPrepared
<1>2. QED
  BY <1>1 DEF NoGraph

LEMMA GraphInitInv == GraphInit => GInv
<1> SUFFICES ASSUME GraphInit PROVE GInv
  OBVIOUS
<1>1. graph = NoGraph /\ outcome = "NONE" /\ Good(dag)
  BY InitializeGood DEF GraphInit
<1>2. QED
  BY <1>1, NoGraphType DEF GInv, GraphType, At

-----------------------------------------------------------------------------
(* The steps *)

LEMMA RunInv ==
  ASSUME GInv, NEW batch \in Replans \cup {NoBatch}, NEW requested \in BOOLEAN,
         Run(batch, requested)
  PROVE  GInv'
<1>1. /\ graph' = [NoGraph EXCEPT !.node = "plan_or_replan", !.dag = dag,
                                  !.replan_tasks = batch, !.replan_requested = requested]
      /\ outcome' = "NONE" /\ dag' = dag
  BY DEF Run
<1>2. graph' = [node |-> "plan_or_replan", dag |-> dag, selected |-> None,
                execution |-> NoExecution, replan_tasks |-> batch,
                replan_requested |-> requested]
  BY <1>1 DEF NoGraph
<1>3. Good(dag) /\ dag \in DAGStates
  BY DEF GInv, Good
<1>4. QED
  BY <1>1, <1>2, <1>3 DEF GInv, GraphType, At, Nodes

LEMMA PlanOrReplanInv ==
  ASSUME GInv, PlanOrReplan
  PROVE  GInv'
<1> DEFINE d == IF WantsReplan THEN LocalReplanned(graph.dag, graph.replan_tasks) ELSE graph.dag
           b == IF WantsReplan THEN NoBatch ELSE graph.replan_tasks
<1>1. /\ WantsReplan => LocalReplanAllowed(graph.dag, graph.replan_tasks)
      /\ graph' = [graph EXCEPT !.node = "select_ready_task", !.dag = d, !.replan_tasks = b,
                                !.replan_requested = FALSE]
      /\ dag' = dag /\ outcome' = outcome
  BY DEF PlanOrReplan
<1>2. GraphType /\ Good(graph.dag) /\ Good(dag)
  BY DEF GInv
<1>3. graph.replan_tasks \in Batches
  BY <1>2, NoBatchType, ReplansAssumption DEF GraphType
<1>4. Good(d)
  BY <1>1, <1>2, <1>3, BatchGood DEF LocalReplanAllowed
<1>5. b \in Replans \cup {NoBatch}
  BY <1>2 DEF GraphType
<1> HIDE DEF d, b
<1>6. d \in DAGStates
  BY <1>4 DEF Good
<1>7. GraphType' /\ graph'.node = "select_ready_task" /\ graph'.dag = d
  BY <1>1, <1>2, <1>5, <1>6 DEF GraphType, Nodes
<1>8. QED
  BY <1>1, <1>2, <1>4, <1>7 DEF GInv, At

LEMMA SelectReadyTaskInv ==
  ASSUME GInv, SelectReadyTask
  PROVE  GInv'
<1>1. GraphType /\ Good(graph.dag) /\ Good(dag) /\ dag' = dag /\ outcome' = outcome
  BY DEF GInv, SelectReadyTask
<1>2. ASSUME Ready(graph.dag) = {},
             graph' = [graph EXCEPT !.node = "synthesize", !.selected = None]
      PROVE  GInv'
  <2>1. GraphType' /\ graph'.node = "synthesize" /\ graph'.dag = graph.dag
    BY <1>1, <1>2 DEF GraphType, Nodes
  <2>2. QED
    BY <1>1, <1>2, <2>1 DEF GInv, At
<1>3. ASSUME NEW t \in Tasks, Ready(graph.dag) = {t},
             graph' = [graph EXCEPT !.node = "execute_through_harness", !.selected = t,
                                    !.dag = Selected(graph.dag, t)]
      PROVE  GInv'
  <2> DEFINE d == Selected(graph.dag, t)
  <2>1. graph.dag.status[t] = "READY"
    BY <1>3 DEF Ready, WithStatus
  <2>2. Good(d)
    BY <1>1, <2>1, SelectedGood
  <2>3. d \in DAGStates
    BY <2>2 DEF Good
  <2> HIDE DEF d
  <2>4. graph' = [graph EXCEPT !.node = "execute_through_harness", !.selected = t, !.dag = d]
    BY <1>3 DEF d
  <2>5. GraphType' /\ graph'.node = "execute_through_harness" /\ graph'.dag = d
    BY <1>1, <2>3, <2>4 DEF GraphType, Nodes
  <2>6. QED
    BY <1>1, <2>2, <2>5 DEF GInv, At
<1>4. QED
  BY <1>2, <1>3 DEF SelectReadyTask

LEMMA ExecuteInv ==
  ASSUME GInv, NEW t \in Tasks, NEW s \in ExecutionStatus, ExecuteThroughHarness(t, s)
  PROVE  GInv'
<1> DEFINE x == [task |-> t, status |-> s]
<1>1. /\ graph' = [graph EXCEPT !.node = "update_task_state", !.execution = x]
      /\ dag' = dag /\ outcome' = outcome
  BY DEF ExecuteThroughHarness
<1>2. GraphType /\ Good(graph.dag) /\ Good(dag)
  BY DEF GInv
<1>3. x \in Executions
  BY DEF Executions
<1> HIDE DEF x
<1>4. /\ GraphType' /\ graph'.node = "update_task_state" /\ graph'.dag = graph.dag
      /\ graph'.execution = x
  BY <1>1, <1>2, <1>3 DEF GraphType, Nodes
<1>5. QED
  BY <1>1, <1>2, <1>3, <1>4 DEF GInv, At

LEMMA UpdateTaskStateInv ==
  ASSUME GInv, UpdateTaskState
  PROVE  GInv'
<1> DEFINE t == graph.execution.task
           s == graph.execution.status
           d == Executed(graph.dag, t, s)
           requested == s \in Broken
           node == IF requested /\ graph.replan_tasks # NoBatch /\ d.replans < MaxLocalReplans
                     THEN "plan_or_replan"
                   ELSE IF Ready(d) # {} THEN "select_ready_task" ELSE "synthesize"
<1>1. /\ At("update_task_state") /\ ExecutionAllowed(graph.dag, t)
      /\ graph' = [graph EXCEPT !.node = node, !.dag = d, !.selected = None,
                                !.execution = NoExecution, !.replan_requested = requested]
      /\ dag' = dag /\ outcome' = outcome
  BY DEF UpdateTaskState
<1>2. GraphType /\ Good(graph.dag) /\ Good(dag) /\ t \in Tasks /\ s \in ExecutionStatus
  BY <1>1 DEF GInv, Executions
<1>3. Good(d)
  <2> DEFINE e == [graph.dag EXCEPT !.status[t] = s, !.selected = None]
  <2>1. Prepared(e) /\ Keeps(graph.dag, e)
    BY <1>1, <1>2, ExecutedPrepared
  <2>2. d = Refresh(e)
    BY DEF Executed
  <2> HIDE DEF e, d
  <2>3. QED
    BY <2>1, <2>2, PrepareAndRefresh
<1>4. d \in DAGStates
  BY <1>3 DEF Good
<1>5. /\ requested \in BOOLEAN /\ node \in {"plan_or_replan", "select_ready_task", "synthesize"}
      /\ node = "synthesize" => Ready(d) = {}
  OBVIOUS
<1> HIDE DEF d, requested, node
<1>6. GraphType' /\ graph'.node = node /\ graph'.dag = d
  BY <1>1, <1>2, <1>4, <1>5 DEF GraphType, Nodes
<1>7. QED
  BY <1>1, <1>2, <1>3, <1>5, <1>6 DEF GInv, At

LEMMA SynthesizeInv ==
  ASSUME GInv, Synthesize
  PROVE  GInv'
<1>1. Good(graph.dag) /\ Ready(graph.dag) = {} /\ dag' = graph.dag /\ graph' = NoGraph
  BY DEF GInv, Synthesize
<1>2. Unsettled(graph.dag) = {}
  BY <1>1, NoSelfWait
<1>3. WithStatus(graph.dag, {"PENDING"}) = {}
  BY <1>2 DEF Unsettled, Present, Terminal, WithStatus, ExecutionStatus
<1>4. outcome' = "EXECUTION_COMPLETE"
  BY <1>1, <1>3 DEF Synthesize, DAGTerminal
<1>5. QED
  BY <1>1, <1>4, NoGraphType DEF GInv, GraphType, At

LEMMA FailClosedInv ==
  ASSUME GInv, FailClosed
  PROVE  GInv'
<1>1. dag' = dag /\ graph' = NoGraph /\ outcome' = "FAILED"
  BY DEF FailClosed
<1>2. QED
  BY <1>1, NoGraphType DEF GInv, GraphType, At

\* Every node of a run, and every call of the adapter between runs, keeps both graphs good.
THEOREM GraphStep == GInv /\ [GraphNext]_graphVars => GInv'
<1> SUFFICES ASSUME GInv, [GraphNext]_graphVars PROVE GInv'
  OBVIOUS
<1>1. CASE NodeNext
  BY <1>1, PlanOrReplanInv, SelectReadyTaskInv, ExecuteInv, UpdateTaskStateInv, SynthesizeInv,
     FailClosedInv DEF NodeNext
<1>2. CASE HarnessNext /\ UNCHANGED <<graph, outcome>>
  <2>1. Good(dag')
    BY <1>2, HarnessStep DEF GInv
  <2>2. QED
    BY <1>2, <2>1 DEF GInv, GraphType, At
<1>3. CASE \E batch \in Replans \cup {NoBatch}, requested \in BOOLEAN : Run(batch, requested)
  BY <1>3, RunInv
<1>4. CASE UNCHANGED graphVars
  BY <1>4 DEF graphVars, GInv, GraphType, At
<1>5. QED
  BY <1>1, <1>2, <1>3, <1>4 DEF GraphNext, CallerNext

LEMMA GraphInvariant == GraphSpec => []GInv
BY GraphInitInv, GraphStep, PTL DEF GraphSpec

\* Every state a node is handed can be read back, and so can the caller's, whatever batches
\* and answers the run is given.
THEOREM GraphTypeCorrect == GraphSpec => []GraphTypeOK
<1>1. GInv => GraphTypeOK
  BY DEF GInv, GraphType, Good, GraphTypeOK, DAGTypeOK, Executions
<1>2. QED
  BY <1>1, GraphInvariant, PTL

\* A run that reaches synthesize has ended every task, for graphs of any size: with nothing
\* ready, nothing is pending.
THEOREM NothingLeftPendingHolds == GraphSpec => []NothingLeftPending
<1>1. GInv => NothingLeftPending
  BY NoSelfWait DEF GInv, NothingLeftPending
<1>2. QED
  BY <1>1, GraphInvariant, PTL

-----------------------------------------------------------------------------
(* A run goes down.  Of RunReturns, which is about fairness, this is the part about safety:
   between the call and the return of a run, every node leaves less of what the loop may
   still do: replans, then tasks that have not ended, then nodes before the next turn of
   the loop. *)

ReplansLeft(d) == IF d.replans < MaxLocalReplans THEN MaxLocalReplans - d.replans ELSE 0
NodesLeft(node) ==
  CASE node = "plan_or_replan" -> 4 [] node = "select_ready_task" -> 3
    [] node = "execute_through_harness" -> 2 [] node = "update_task_state" -> 1 [] OTHER -> 0
TasksLeft(d) == Cardinality(Unsettled(d))

Lower(g, h) ==
  \/ ReplansLeft(g.dag) < ReplansLeft(h.dag)
  \/ /\ ReplansLeft(g.dag) = ReplansLeft(h.dag)
     /\ \/ TasksLeft(g.dag) < TasksLeft(h.dag)
        \/ TasksLeft(g.dag) = TasksLeft(h.dag) /\ NodesLeft(g.node) < NodesLeft(h.node)

LEMMA NodeLower ==
  ASSUME NEW g, NEW h, ReplansLeft(g.dag) = ReplansLeft(h.dag),
         Unsettled(g.dag) = Unsettled(h.dag), NodesLeft(g.node) < NodesLeft(h.node)
  PROVE  Lower(g, h)
BY DEF Lower, TasksLeft

LEMMA RefreshReplans ==
  ASSUME NEW d \in DAGStates
  PROVE  Refresh(d).replans = d.replans
BY DEF Refresh, DAGStates

LEMMA ReplanLower ==
  ASSUME GInv, PlanOrReplan
  PROVE  Lower(graph', graph)
<1> DEFINE b == graph.replan_tasks
           d == graph.dag
<1>1. /\ GraphType /\ d \in DAGStates /\ b \in Batches /\ graph.node = "plan_or_replan"
      /\ d.replans \in Nat
  BY NoBatchType, ReplansAssumption DEF GInv, GraphType, PlanOrReplan, At, DAGStates
<1>2. CASE WantsReplan
  <2>1. d.replans < MaxLocalReplans
    BY <1>2 DEF PlanOrReplan, LocalReplanAllowed
  <2>2. graph'.dag = LocalReplanned(d, b)
    BY <1>1, <1>2 DEF PlanOrReplan, GraphType
  <2> DEFINE e == [Extended(d, b) EXCEPT !.replans = d.replans + 1]
  <2>3. e \in DAGStates
    BY <1>1, ExtendedFields
  <2>4. e.replans = d.replans + 1 /\ LocalReplanned(d, b) = Refresh(e)
    BY <1>1 DEF LocalReplanned, Extended, DAGStates
  <2> HIDE DEF e, d, b
  <2>5. graph'.dag.replans = d.replans + 1
    BY <2>2, <2>3, <2>4, RefreshReplans
  <2>6. ReplansLeft(graph'.dag) < ReplansLeft(d)
    BY <1>1, <2>1, <2>5, DAGAssumption DEF ReplansLeft
  <2>7. QED
    BY <2>6 DEF Lower, d
<1>3. CASE ~WantsReplan
  <2>1. graph'.dag = graph.dag /\ graph'.node = "select_ready_task"
    BY <1>1, <1>3 DEF PlanOrReplan, GraphType
  <2>2. NodesLeft(graph'.node) < NodesLeft(graph.node)
    BY <1>1, <2>1 DEF NodesLeft
  <2>3. QED
    BY <2>1, <2>2, NodeLower
<1>4. QED
  BY <1>2, <1>3

LEMMA SelectLower ==
  ASSUME GInv, SelectReadyTask
  PROVE  Lower(graph', graph)
<1>1. GraphType /\ graph.dag \in DAGStates /\ graph.node = "select_ready_task"
  BY DEF GInv, GraphType, SelectReadyTask, At
<1>2. /\ graph'.node \in {"synthesize", "execute_through_harness"}
      /\ graph'.dag.status = graph.dag.status /\ graph'.dag.replans = graph.dag.replans
  <2>1. CASE graph' = [graph EXCEPT !.node = "synthesize", !.selected = None]
    BY <1>1, <2>1 DEF GraphType
  <2>2. ASSUME NEW t \in Tasks,
               graph' = [graph EXCEPT !.node = "execute_through_harness", !.selected = t,
                                      !.dag = Selected(@, t)]
        PROVE  /\ graph'.node = "execute_through_harness"
               /\ graph'.dag.status = graph.dag.status /\ graph'.dag.replans = graph.dag.replans
    <3>1. graph'.node = "execute_through_harness" /\ graph'.dag = Selected(graph.dag, t)
      BY <1>1, <2>2 DEF GraphType
    <3>2. Selected(graph.dag, t).status = graph.dag.status /\ Selected(graph.dag, t).replans = graph.dag.replans
      BY <1>1 DEF Selected, DAGStates
    <3>3. QED
      BY <3>1, <3>2
  <2>3. QED
    BY <2>1, <2>2 DEF SelectReadyTask
<1>3. Unsettled(graph'.dag) = Unsettled(graph.dag) /\ ReplansLeft(graph'.dag) = ReplansLeft(graph.dag)
  BY <1>2 DEF Unsettled, Present, Terminal, WithStatus, ReplansLeft
<1>4. NodesLeft(graph'.node) < NodesLeft(graph.node)
  BY <1>1, <1>2 DEF NodesLeft
<1>5. QED
  BY <1>3, <1>4, NodeLower

LEMMA ExecuteLower ==
  ASSUME GInv, NEW t \in Tasks, NEW s \in ExecutionStatus, ExecuteThroughHarness(t, s)
  PROVE  Lower(graph', graph)
<1>1. GraphType /\ graph.node = "execute_through_harness"
  BY DEF GInv, ExecuteThroughHarness, At
<1>2. graph'.node = "update_task_state" /\ graph'.dag = graph.dag
  BY <1>1 DEF ExecuteThroughHarness, GraphType
<1>3. NodesLeft(graph'.node) < NodesLeft(graph.node)
  BY <1>1, <1>2 DEF NodesLeft
<1>4. QED
  BY <1>2, <1>3, NodeLower

\* The task that was executed has ended, and the refresh after it ends tasks but begins none.
LEMMA ExecutedLower ==
  ASSUME IsFiniteSet(Tasks), NEW d \in DAGStates, NEW t \in Tasks, NEW s \in ExecutionStatus,
         d.status[t] = "READY"
  PROVE  Executed(d, t, s).replans = d.replans /\ TasksLeft(Executed(d, t, s)) < TasksLeft(d)
<1> DEFINE a == [d.status EXCEPT ![t] = s]
           e == [d EXCEPT !.status[t] = s, !.selected = None]
<1>1. /\ a \in [Tasks -> TaskStatus \cup {"ABSENT"}]
      /\ a[t] = s /\ \A u \in Tasks \ {t} : a[u] = d.status[u]
  BY DEF DAGStates, ExecutionStatus, TaskStatus
<1>2. e = [d EXCEPT !.status = a, !.selected = None]
  BY DEF DAGStates
<1>3. Executed(d, t, s) = Refresh(e)
  BY DEF Executed
<1> HIDE DEF a, e
<1>4. e \in DAGStates /\ e.status = a /\ e.selected = None /\ e.replans = d.replans
  BY <1>1, <1>2 DEF DAGStates
<1>5. Unsettled(e) = Unsettled(d) \ {t} /\ t \in Unsettled(d)
  BY <1>1, <1>4 DEF Unsettled, Present, Terminal, WithStatus, ExecutionStatus
<1>6. Refresh(e).status = RefreshedStatus(e) /\ Refresh(e).replans = d.replans
  BY <1>4, RefreshFields, RefreshReplans
<1>7. \A u \in Tasks \ Unsettled(e) : Refresh(e).status[u] = e.status[u]
  BY <1>6 DEF RefreshedStatus
<1>8. Unsettled(Refresh(e)) \subseteq Unsettled(e)
  BY <1>7 DEF Unsettled, Present, Terminal, WithStatus
<1>9. Unsettled(Refresh(e)) \subseteq Unsettled(d) /\ Unsettled(Refresh(e)) # Unsettled(d)
  BY <1>5, <1>8
<1>10. Unsettled(d) \in SUBSET Tasks
  BY DEF Unsettled, Present
<1>11. IsFiniteSet(Unsettled(d))
  BY <1>10, FS_Subset
<1>12. /\ IsFiniteSet(Unsettled(Refresh(e)))
       /\ Cardinality(Unsettled(Refresh(e))) <= Cardinality(Unsettled(d))
       /\ Cardinality(Unsettled(Refresh(e))) # Cardinality(Unsettled(d))
  BY <1>9, <1>11, FS_Subset
<1>13. Cardinality(Unsettled(Refresh(e))) \in Nat /\ Cardinality(Unsettled(d)) \in Nat
  BY <1>11, <1>12, FS_CardinalityType
<1>14. QED
  BY <1>3, <1>6, <1>12, <1>13 DEF TasksLeft

LEMMA UpdateLower ==
  ASSUME IsFiniteSet(Tasks), GInv, UpdateTaskState
  PROVE  Lower(graph', graph)
<1> DEFINE t == graph.execution.task
           s == graph.execution.status
<1>1. /\ GraphType /\ graph.dag \in DAGStates /\ t \in Tasks /\ s \in ExecutionStatus
      /\ graph.dag.status[t] = "READY"
  BY DEF GInv, GraphType, Executions, UpdateTaskState, ExecutionAllowed
<1>2. graph'.dag = Executed(graph.dag, t, s)
  BY <1>1 DEF UpdateTaskState, GraphType
<1> HIDE DEF t, s
<1>3. graph'.dag.replans = graph.dag.replans /\ TasksLeft(graph'.dag) < TasksLeft(graph.dag)
  BY <1>1, <1>2, ExecutedLower
<1>4. QED
  BY <1>3 DEF Lower, ReplansLeft

\* A run of finitely many tasks never comes back to where it was, whatever the callback
\* answers and whatever batches it is given: until it has returned, every step of the loop
\* leaves fewer replans, or as many and fewer tasks, or as many and fewer nodes.
THEOREM RunDescends ==
  IsFiniteSet(Tasks) => (GraphSpec => [][Running /\ Running' => Lower(graph', graph)]_graphVars)
<1> SUFFICES ASSUME IsFiniteSet(Tasks)
             PROVE  GraphSpec => [][Running /\ Running' => Lower(graph', graph)]_graphVars
  OBVIOUS
<1>1. GInv /\ [GraphNext]_graphVars => [Running /\ Running' => Lower(graph', graph)]_graphVars
  <2> SUFFICES ASSUME GInv, GraphNext, Running, Running' PROVE Lower(graph', graph)
    OBVIOUS
  <2>1. NodeNext
    BY DEF GraphNext, CallerNext, Run
  <2>2. ~Synthesize /\ ~FailClosed
    BY DEF Running, Synthesize, FailClosed, NoGraph
  <2>3. QED
    BY <2>1, <2>2, ReplanLower, SelectLower, ExecuteLower, UpdateLower DEF NodeNext
<1>2. QED
  BY <1>1, GraphInvariant, PTL DEF GraphSpec
=============================================================================
