------------------------ MODULE PlanExecutionProofs ------------------------
(***************************************************************************)
(* Proofs about PlanExecution, for any number of turns, obligations, Tools *)
(* and shared capabilities, and any thresholds.                            *)
(*                                                                         *)
(* A plan holds one task without dependencies, so the execution graph of a *)
(* run is Loose: an operation changes the status of its own task only.     *)
(* The inductive invariant adds to the properties what ties a call to the  *)
(* admission it passed: its key is not acquired and its Tool is visible.   *)
(***************************************************************************)
EXTENDS PlanExecution, VerificationDAGProofs

\* What ActionRuntime reports for a task.
Outcomes == {"COMPLETED", "FAILED"}

LooseStatus == {"ABSENT", "READY", "COMPLETED", "FAILED"}

Loose(d) ==
  /\ d \in DAGStates
  /\ \A t \in Tasks : d.dependencies[t] = {} /\ d.status[t] \in LooseStatus

-----------------------------------------------------------------------------
(* The execution graph *)

\* Without dependencies a refresh makes every pending task ready and nothing else.
LEMMA RefreshLoose ==
  ASSUME NEW d \in DAGStates, d.selected = None,
         \A t \in Tasks : d.dependencies[t] = {} /\ d.status[t] \in LooseStatus \cup {"PENDING"}
  PROVE  /\ Loose(Refresh(d)) /\ Refresh(d).selected = None
         /\ \A t \in Tasks : Refresh(d).status[t] =
              IF d.status[t] = "PENDING" THEN "READY" ELSE d.status[t]
<1> DEFINE r == RefreshedStatus(d)
<1>1. ASSUME NEW t \in Unsettled(d)
      PROVE  t \notin Doomed(d)
  <2>1. t \in Tasks /\ d.dependencies[t] = {} /\ t \notin WithStatus(d, Broken)
    BY DEF Unsettled, Present, Terminal, WithStatus, ExecutionStatus, Broken
  <2>2. ClosedUnderBreaking(d, Tasks \ {t})
    BY <2>1 DEF ClosedUnderBreaking, WithStatus, Unsettled, Present
  <2>3. QED
    BY <2>2 DEF Doomed
<1>2. ASSUME NEW t \in Tasks
      PROVE  r[t] = IF d.status[t] = "PENDING" THEN "READY" ELSE d.status[t]
  <2>1. d.dependencies[t] = {} /\ d.status[t] \in LooseStatus \cup {"PENDING"}
    OBVIOUS
  <2>2. t \in Unsettled(d) <=> d.status[t] \in {"PENDING", "READY"}
    BY <2>1 DEF Unsettled, Present, Terminal, WithStatus, ExecutionStatus, LooseStatus
  <2>3. r[t] = IF t \notin Unsettled(d) THEN d.status[t] ELSE "READY"
    BY <1>1, <2>1 DEF RefreshedStatus
  <2>4. QED
    BY <2>1, <2>2, <2>3 DEF LooseStatus
<1>3. /\ Refresh(d) \in DAGStates /\ Refresh(d).status = r
      /\ Refresh(d).dependencies = d.dependencies /\ Refresh(d).selected = None
  BY RefreshFields
<1>4. QED
  BY <1>2, <1>3 DEF Loose, LooseStatus

LEMMA SelectedLoose ==
  ASSUME NEW d, Loose(d), NEW t \in Tasks
  PROVE  Loose(Selected(d, t)) /\ Selected(d, t).status = d.status /\ Selected(d, t).selected = t
BY DEF Loose, Selected, DAGStates

LEMMA ExecutedLoose ==
  ASSUME NEW d, Loose(d), NEW t \in Tasks, NEW s \in Outcomes
  PROVE  /\ Loose(Executed(d, t, s))
         /\ \A u \in Tasks : Executed(d, t, s).status[u] = IF u = t THEN s ELSE d.status[u]
<1> DEFINE a == [d.status EXCEPT ![t] = s]
           e == [d EXCEPT !.status[t] = s, !.selected = None]
<1>1. d \in DAGStates /\ \A u \in Tasks : d.dependencies[u] = {} /\ d.status[u] \in LooseStatus
  BY DEF Loose
<1>2. /\ a \in [Tasks -> TaskStatus \cup {"ABSENT"}]
      /\ \A u \in Tasks : a[u] = IF u = t THEN s ELSE d.status[u]
  BY <1>1 DEF DAGStates, TaskStatus, Outcomes
<1>3. e = [d EXCEPT !.status = a, !.selected = None]
  BY <1>1 DEF DAGStates
<1> HIDE DEF a
<1>4. /\ e \in DAGStates /\ e.status = a
      /\ e.dependencies = d.dependencies /\ e.selected = None
  BY <1>1, <1>2, <1>3 DEF DAGStates
<1>5. Executed(d, t, s) = Refresh(e)
  BY DEF Executed
<1> HIDE DEF e
<1>6. \A u \in Tasks : e.dependencies[u] = {} /\ e.status[u] \in LooseStatus
  BY <1>1, <1>2, <1>4 DEF LooseStatus, Outcomes
<1>7. QED
  BY <1>2, <1>4, <1>5, <1>6, RefreshLoose DEF LooseStatus, Outcomes

LEMMA ExtendedAlone ==
  ASSUME NEW d \in DAGStates, NEW batch \in Batches
  PROVE  LET e == Extended(d, batch) IN
         /\ e \in DAGStates /\ e.selected = None
         /\ \A u \in Tasks :
              /\ e.status[u] = IF u \in DOMAIN batch THEN "PENDING" ELSE d.status[u]
              /\ e.dependencies[u] = IF u \in DOMAIN batch THEN batch[u].dependencies
                                     ELSE d.dependencies[u]
<1> DEFINE e == Extended(d, batch)
           f == [e EXCEPT !.replans = d.replans]
<1>1. d.replans \in Nat /\ e.replans = d.replans
  BY DEF DAGStates, Extended
<1>2. e = f
  BY <1>1 DEF Extended
<1>3. /\ f \in DAGStates /\ f.selected = None
      /\ \A u \in Tasks :
           /\ f.status[u] = IF u \in DOMAIN batch THEN "PENDING" ELSE d.status[u]
           /\ f.dependencies[u] = IF u \in DOMAIN batch THEN batch[u].dependencies
                                  ELSE d.dependencies[u]
  BY <1>1, ExtendedFields
<1> HIDE DEF e, f
<1>4. QED
  BY <1>2, <1>3 DEF e

LEMMA AddedLoose ==
  ASSUME NEW d, Loose(d), NEW t \in Tasks, NEW batch \in Batches,
         DOMAIN batch = {t}, batch[t].dependencies = {}
  PROVE  /\ Loose(Added(d, batch))
         /\ \A u \in Tasks : Added(d, batch).status[u] = IF u = t THEN "READY" ELSE d.status[u]
<1> DEFINE e == Extended(d, batch)
<1>1. d \in DAGStates /\ \A u \in Tasks : d.dependencies[u] = {} /\ d.status[u] \in LooseStatus
  BY DEF Loose
<1>2. /\ e \in DAGStates /\ e.selected = None
      /\ \A u \in Tasks :
           /\ e.status[u] = IF u \in DOMAIN batch THEN "PENDING" ELSE d.status[u]
           /\ e.dependencies[u] = IF u \in DOMAIN batch THEN batch[u].dependencies
                                  ELSE d.dependencies[u]
  BY <1>1, ExtendedAlone
<1> HIDE DEF e
<1>3. \A u \in Tasks : /\ e.status[u] = IF u = t THEN "PENDING" ELSE d.status[u]
                       /\ e.dependencies[u] = {}
  BY <1>1, <1>2
<1>4. \A u \in Tasks : e.status[u] \in LooseStatus \cup {"PENDING"}
  BY <1>1, <1>3
<1>5. Added(d, batch) = Refresh(e)
  BY DEF Added, e
<1>6. /\ Loose(Refresh(e))
      /\ \A u \in Tasks : Refresh(e).status[u] =
           IF e.status[u] = "PENDING" THEN "READY" ELSE e.status[u]
  BY <1>2, <1>3, <1>4, RefreshLoose
<1>7. QED
  BY <1>1, <1>3, <1>5, <1>6 DEF LooseStatus

-----------------------------------------------------------------------------
(* The inductive invariant *)

Plans == [obligation : Obligations, key : Keys, version : 0 .. MaxVersion]

\* Between its admission and the end of its burst there is a plan, for this turn.
PlanInHand ==
  phase \in {"planned", "reflected", "burst", "calling"} => plan \in Plans /\ step \in Tasks

\* What a call relies on was checked when its task was selected.
CallAdmitted ==
  phase = "calling" =>
    /\ dag.selected = step /\ dag.status[step] = "READY"
    /\ Visible(plan.key) /\ ~MatchingAcquisitions(plan.key) /\ Capacity

\* What BreakerMasked rests on: an open breaker belongs to a hidden Tool.
CircuitMasked ==
  /\ \A u \in Tools \ {Retrieval} : health[u].state = "OPEN" => ~VisibleTool(u)
  /\ pending \subseteq {Retrieval}

ExecInv ==
  /\ Good(dag) /\ Loose(dag)
  /\ ExecTypeOK
  /\ PlanInHand /\ CallAdmitted
  /\ CallsAreCurrent /\ CircuitMasked /\ AcquiredOnce /\ RecordsAgree

LEMMA NoPlanTyped == NoPlan \notin Plans
BY DAGAssumption DEF Plans, NoPlan

LEMMA GoodShape ==
  ASSUME Good(dag)
  PROVE  DAGTypeOK
BY DEF Good, DAGTypeOK

\* A call is refused only to knowledge_retrieval: any other Tool is visible because its
\* breaker is closed.
LEMMA CallVisible ==
  ASSUME ExecInv, phase = "calling"
  PROVE  /\ SelectedTool \in Tools /\ VisibleTool(SelectedTool)
         /\ Refused => SelectedTool = Retrieval
<1>1. plan.key \in Keys
  BY DEF ExecInv, PlanInHand, Plans
<1>2. SelectedTool \in Tools
  BY <1>1 DEF SelectedTool, Tools
<1>3. VisibleTool(SelectedTool)
  BY DEF ExecInv, CallAdmitted, Visible, SelectedTool
<1>4. QED
  BY <1>2, <1>3 DEF ExecInv, CircuitMasked, Refused

LEMMA ExecutedGood ==
  ASSUME NEW d, Good(d), Loose(d), NEW t \in Tasks, d.selected = t,
         NEW s \in Outcomes
  PROVE  /\ Good(Executed(d, t, s)) /\ Loose(Executed(d, t, s))
         /\ \A u \in Tasks : Executed(d, t, s).status[u] = IF u = t THEN s ELSE d.status[u]
<1>1. ExecutionAllowed(d, t)
  BY DAGAssumption DEF Good, StateShape, ExecutionAllowed
<1>2. s \in ExecutionStatus
  BY DEF ExecutionStatus, Outcomes
<1>3. Good(Executed(d, t, s))
  <2> DEFINE e == [d EXCEPT !.status[t] = s, !.selected = None]
  <2>1. Prepared(e) /\ Keeps(d, e)
    BY <1>1, <1>2, ExecutedPrepared
  <2>2. Executed(d, t, s) = Refresh(e)
    BY DEF Executed
  <2> HIDE DEF e
  <2>3. QED
    BY <2>1, <2>2, PrepareAndRefresh
<1>4. QED
  BY <1>3, ExecutedLoose

LEMMA InitInv == ExecInit => ExecInv
<1> SUFFICES ASSUME ExecInit PROVE ExecInv
  OBVIOUS
<1>1. dag = EmptyDAG({}) /\ Good(dag)
  BY EmptyPrepared DEF ExecInit
<1>2. Loose(dag) /\ DAGTypeOK /\ \A t \in Tasks : dag.status[t] = "ABSENT"
  BY <1>1, GoodShape DEF Loose, LooseStatus, Good, EmptyDAG
<1>3. ExecTypeOK
  BY <1>2, ExecutionAssumption DEF ExecInit, ExecTypeOK, NoRow
<1>4. AcquiredOnce /\ RecordsAgree
  BY <1>2 DEF ExecInit, AcquiredOnce, RecordsAgree, NoRow
<1>5. QED
  BY <1>1, <1>2, <1>3, <1>4
     DEF ExecInit, ExecInv, PlanInHand, CallAdmitted, CallsAreCurrent, CircuitMasked

-----------------------------------------------------------------------------
(* One lemma per action *)

LEMMA TurnStep ==
  ASSUME ExecInv, NEW o \in Obligations \cup {None}, NEW k \in Keys \cup {None},
         NEW next \in Commits(BlockPending(obligations)), Turn(o, k, next)
  PROVE  ExecInv'
<1>1. /\ phase = "head" /\ phase' \in {"head", "ended", "planned"} /\ pending' = {}
      /\ UNCHANGED <<dag, available, health, ledger, answer, calls>>
  BY DEF Turn
<1>2. next \in [Obligations -> {"ABSENT", "OPEN", "CLOSED"}] /\ step + 1 \in Tasks
  BY ExecutionAssumption DEF Commits, Turn, ExecInv, ExecTypeOK
<1>3. /\ phase' = "planned" => plan' \in Plans
      /\ plan' \in Plans \cup {NoPlan}
      /\ version' \in 0 .. MaxVersion
  BY ExecutionAssumption DEF Turn, ExecInv, ExecTypeOK, Plans
<1>4. ExecTypeOK'
  BY <1>1, <1>2, <1>3, ExecutionAssumption
     DEF Turn, ExecInv, ExecTypeOK, DAGTypeOK, StateShape, Present, Plans
<1>5. PlanInHand'
  BY <1>1, <1>2, <1>3 DEF Turn, PlanInHand
<1>6. RecordsAgree'
  BY <1>1 DEF ExecInv, RecordsAgree
<1>7. AcquiredOnce' /\ CircuitMasked' /\ Good(dag)' /\ Loose(dag)'
  BY <1>1 DEF ExecInv, AcquiredOnce, CircuitMasked, VisibleTool
<1>8. QED
  BY <1>1, <1>4, <1>5, <1>6, <1>7 DEF ExecInv, CallAdmitted, CallsAreCurrent

LEMMA ReflectStep ==
  ASSUME ExecInv, NEW next \in Commits(obligations), Reflect(next)
  PROVE  ExecInv'
<1>1. /\ phase = "planned" /\ phase' = "reflected"
      /\ UNCHANGED <<dag, step, plan, available, health, ledger, answer, calls, pending>>
  BY DEF Reflect, records
<1>2. ExecTypeOK'
  BY <1>1, ExecutionAssumption
     DEF Reflect, Commits, ExecInv, ExecTypeOK, DAGTypeOK, StateShape, Present
<1>3. RecordsAgree' /\ AcquiredOnce' /\ CircuitMasked' /\ Good(dag)' /\ Loose(dag)'
  BY <1>1 DEF ExecInv, RecordsAgree, AcquiredOnce, CircuitMasked, VisibleTool
<1>4. QED
  BY <1>1, <1>2, <1>3 DEF ExecInv, PlanInHand, CallAdmitted, CallsAreCurrent

\* A step that only ends the burst.
LEMMA EndBurstStep ==
  ASSUME ExecInv, EndBurst, phase \in {"planned", "reflected", "burst"},
         UNCHANGED <<dag, step, version, obligations, records>>
  PROVE  ExecInv'
<1>1. /\ phase' \in {"head", "ended"} /\ plan' = NoPlan
      /\ UNCHANGED <<dag, step, version, obligations, available, health, ledger, answer,
                     calls, pending>>
  BY DEF EndBurst, records
<1>2. ExecTypeOK'
  BY <1>1 DEF ExecInv, ExecTypeOK, DAGTypeOK, StateShape, Present
<1>3. RecordsAgree' /\ AcquiredOnce' /\ CircuitMasked' /\ Good(dag)' /\ Loose(dag)'
  BY <1>1 DEF ExecInv, RecordsAgree, AcquiredOnce, CircuitMasked, VisibleTool
<1>4. QED
  BY <1>1, <1>2, <1>3 DEF ExecInv, PlanInHand, CallAdmitted, CallsAreCurrent

LEMMA NewTaskBatch ==
  ASSUME ExecInv, phase \in {"planned", "reflected"}
  PROVE  NewTask \in Batches /\ DOMAIN NewTask = {step} /\ NewTask[step].dependencies = {}
<1>1. step \in Tasks /\ plan.obligation \in Obligations
  BY DEF ExecInv, PlanInHand, Plans
<1>2. NewTask \in [{step} -> Proposal]
  BY <1>1, ExecutionAssumption DEF NewTask, Proposal
<1>3. {step} \in SUBSET Tasks
  BY <1>1
<1>4. QED
  BY <1>2, <1>3 DEF Batches, NewTask

LEMMA PreflightStep ==
  ASSUME ExecInv, Preflight
  PROVE  ExecInv'
<1> DEFINE d == [dag EXCEPT !.registered = @ \cup KnownObligations]
<1>1. CASE ~PlanCurrent
  BY <1>1, EndBurstStep DEF Preflight
<1>2. CASE PlanCurrent
  <2>1. /\ phase \in {"planned", "reflected"} /\ phase' = "burst"
        /\ BatchAllowed(d, NewTask) /\ dag' = Added(d, NewTask)
        /\ UNCHANGED <<plan, step, version, obligations, available, health, ledger, answer,
                       calls, pending>>
    BY <1>2 DEF Preflight, records
  <2>2. Good(d) /\ d.status = dag.status
    <3>1. KnownObligations \in SUBSET Obligations /\ Good(dag) /\ dag \in DAGStates
      BY DEF KnownObligations, ExecInv, Good
    <3>2. Good(d)
      BY <3>1, RegisteredGood
    <3>3. QED
      BY <3>1, <3>2 DEF DAGStates
  <2>3. Loose(d)
    BY <2>2 DEF ExecInv, Loose, Good, DAGStates
  <2>4. NewTask \in Batches /\ DOMAIN NewTask = {step} /\ NewTask[step].dependencies = {}
    BY <2>1, NewTaskBatch
  <2>5. step \in Tasks /\ plan \in Plans
    BY <2>1 DEF ExecInv, PlanInHand
  <2> HIDE DEF d
  <2>6. Good(dag') /\ Loose(dag')
    BY <2>1, <2>2, <2>3, <2>4, <2>5, BatchGood, AddedLoose
  <2>7. \A u \in Tasks : dag'.status[u] = IF u = step THEN "READY" ELSE dag.status[u]
    BY <2>1, <2>2, <2>3, <2>4, <2>5, AddedLoose
  <2>8. dag.status[step] = "ABSENT"
    BY <2>1, <2>2, <2>4, <2>5 DEF BatchAllowed, Present
  <2>9. ExecTypeOK'
    BY <2>1, <2>6 DEF ExecInv, ExecTypeOK, DAGTypeOK, Good
  <2>10. RecordsAgree'
    BY <2>1, <2>7, <2>8 DEF ExecInv, RecordsAgree
  <2>11. AcquiredOnce' /\ CircuitMasked'
    BY <2>1 DEF ExecInv, AcquiredOnce, CircuitMasked, VisibleTool
  <2>12. QED
    BY <2>1, <2>5, <2>6, <2>9, <2>10, <2>11
       DEF ExecInv, PlanInHand, CallAdmitted, CallsAreCurrent
<1>3. QED
  BY <1>1, <1>2

LEMMA AdmitStep ==
  ASSUME ExecInv, NEW t \in Tasks, Admit(t)
  PROVE  ExecInv'
<1> DEFINE Passes == PlanCurrent /\ Visible(plan.key) /\ ~MatchingAcquisitions(plan.key) /\ Capacity
<1>1. CASE ~Passes
  BY <1>1, EndBurstStep DEF Admit
<1>2. CASE Passes
  <2>1. /\ phase = "burst" /\ phase' = "calling" /\ t = step /\ dag.status[t] = "READY"
        /\ dag' = Selected(dag, t)
        /\ UNCHANGED <<plan, step, version, obligations, available, health, ledger, answer,
                       calls, pending>>
    BY <1>2 DEF Admit, BurstReady, Ready, WithStatus, records
  <2>2. /\ Good(dag') /\ Loose(dag')
        /\ dag'.status = dag.status /\ dag'.selected = t
    BY <2>1, SelectedGood, SelectedLoose DEF ExecInv
  <2>3. ExecTypeOK'
    BY <2>1, <2>2 DEF ExecInv, ExecTypeOK, DAGTypeOK, Good
  <2>4. RecordsAgree'
    BY <2>1, <2>2 DEF ExecInv, RecordsAgree
  <2>5. AcquiredOnce' /\ CircuitMasked' /\ PlanInHand'
    BY <2>1 DEF ExecInv, AcquiredOnce, CircuitMasked, VisibleTool, PlanInHand
  <2>6. CallAdmitted' /\ CallsAreCurrent'
    BY <1>2, <2>1, <2>2
       DEF CallAdmitted, CallsAreCurrent, PlanCurrent, Visible, VisibleTool, MatchingAcquisitions, Capacity
  <2>7. QED
    BY <2>2, <2>3, <2>4, <2>5, <2>6 DEF ExecInv
<1>3. QED
  BY <1>1, <1>2

\* What the answer leaves of the capabilities of a Tool that was hidden: nothing visible.
LEMMA HiddenKept ==
  ASSUME ExecInv, NEW a \in Answers, Call(a), NEW u \in Tools, ~VisibleTool(u)
  PROVE  ~VisibleTool(u)'
<1> DEFINE result == IF Refused THEN "blocked" ELSE a
<1>1. /\ SelectedTool \in Tools /\ VisibleTool(SelectedTool)
      /\ available' \in SourcesAfter(SelectedTool, result)
  BY CallVisible DEF Call
<1> HIDE DEF result
<1>2. CASE SelectedTool = Retrieval
  <2>1. u # Retrieval /\ ~(SourcesOf[u] \subseteq available)
    BY <1>1, <1>2 DEF VisibleTool
  <2>2. SourcesOf[u] \cap SourcesOf[Retrieval] = {}
    BY <2>1, ExecutionAssumption
  <2>3. available' \subseteq available \cup SourcesOf[Retrieval]
    BY <1>1, <1>2 DEF SourcesAfter
  <2>4. QED
    BY <2>1, <2>2, <2>3 DEF VisibleTool
<1>3. CASE SelectedTool # Retrieval
  <2>1. SourcesOf[SelectedTool] \subseteq available
    BY <1>1, <1>3 DEF VisibleTool
  <2>2. available' \subseteq available
    BY <1>1, <1>3, <2>1 DEF SourcesAfter
  <2>3. QED
    BY <2>2 DEF VisibleTool
<1>4. QED
  BY <1>2, <1>3

\* The answer of the Tool, or of its breaker: the capability goes with the first failure,
\* so the breaker opens behind it; a good answer writes the one row of its key.
LEMMA CallStep ==
  ASSUME ExecInv, NEW a \in Answers, Call(a)
  PROVE  ExecInv'
<1> DEFINE result == IF Refused THEN "blocked" ELSE a
           row == IF Refused THEN NoRow
                  ELSE [key |-> plan.key, state |-> IF a = "ok" THEN "ACQUIRED" ELSE "ATTEMPTED"]
<1>1. /\ phase = "calling" /\ plan \in Plans /\ step \in Tasks
      /\ dag.selected = step /\ dag.status[step] = "READY" /\ ledger[step] = NoRow
      /\ ~MatchingAcquisitions(plan.key) /\ calls < MaxToolCalls
  BY DEF Call, ExecInv, PlanInHand, CallAdmitted, Capacity, RecordsAgree
<1>2. SelectedTool \in Tools /\ VisibleTool(SelectedTool) /\ (Refused => SelectedTool = Retrieval)
  BY <1>1, CallVisible
<1>3. /\ ledger' = IF Refused THEN ledger ELSE [ledger EXCEPT ![step] = row]
      /\ health' = IF Refused THEN health ELSE [health EXCEPT ![SelectedTool] = Observed(@, a)]
      /\ available' \in SourcesAfter(SelectedTool, result)
      /\ pending' = IF Refused THEN pending \cup {SelectedTool} ELSE pending
      /\ answer' = [answer EXCEPT ![step] = result] /\ calls' = calls + 1
      /\ dag' = Executed(dag, step, TaskResult(result))
      /\ IF result = "ok" THEN phase' = "burst" /\ UNCHANGED plan ELSE EndBurst
      /\ UNCHANGED <<step, version, obligations>>
  BY <1>1 DEF Call
<1>4. /\ phase' \in {"burst", "head", "ended"}
      /\ phase' = "burst" => plan' = plan
      /\ plan' \in Plans \cup {NoPlan}
  BY <1>1, <1>3 DEF EndBurst
<1>5. /\ TaskResult(result) \in Outcomes /\ (TaskResult(result) = "COMPLETED" <=> result = "ok")
      /\ result \in Answers \cup {"blocked"} /\ (result = "ok" <=> ~Refused /\ a = "ok")
  BY DEF TaskResult, Outcomes
<1>6. /\ Good(dag') /\ Loose(dag')
      /\ \A u \in Tasks : dag'.status[u] = IF u = step THEN TaskResult(result) ELSE dag.status[u]
  <2>1. Good(dag) /\ Loose(dag)
    BY DEF ExecInv
  <2>2. QED
    BY <1>1, <1>3, <1>5, <2>1, ExecutedGood
<1>7. /\ row \in [key : Keys, state : {"ATTEMPTED", "ACQUIRED"}] \cup {NoRow}
      /\ row.state = "ACQUIRED" <=> result = "ok"
      /\ row = [key |-> plan.key, state |-> "ACQUIRED"] <=> result = "ok"
  BY <1>1, <1>5 DEF Plans, NoRow
<1>8. /\ \A u \in Tasks : ledger'[u] = IF u = step THEN row ELSE ledger[u]
      /\ \A u \in Tasks : answer'[u] = IF u = step THEN result ELSE answer[u]
  BY <1>1, <1>3 DEF ExecInv, ExecTypeOK
<1> HIDE DEF row, result
<1>9. ExecTypeOK'
  <2>1. DAGTypeOK'
    BY <1>6 DEF DAGTypeOK, Good
  <2>2. ledger' \in [Tasks -> [key : Keys, state : {"ATTEMPTED", "ACQUIRED"}] \cup {NoRow}]
    BY <1>3, <1>7 DEF ExecInv, ExecTypeOK
  <2>3. answer' \in [Tasks -> Answers \cup {"NONE", "blocked"}]
    BY <1>3, <1>5 DEF ExecInv, ExecTypeOK
  <2>4. Observed(health[SelectedTool], a) \in [state : {"CLOSED", "OPEN"}, failures : Nat]
    BY <1>2 DEF Observed, ExecInv, ExecTypeOK
  <2>5. health' \in [Tools -> [state : {"CLOSED", "OPEN"}, failures : Nat]]
    BY <1>2, <1>3, <2>4 DEF ExecInv, ExecTypeOK
  <2>6. available' \subseteq Sources
    <3>1. SourcesOf[SelectedTool] \subseteq Sources /\ available \subseteq Sources
      BY <1>2 DEF Sources, ExecInv, ExecTypeOK
    <3>2. QED
      BY <1>3, <3>1 DEF SourcesAfter
  <2>7. calls' \in 0 .. MaxToolCalls /\ pending' \subseteq Tools
    BY <1>1, <1>2, <1>3, ExecutionAssumption DEF ExecInv, ExecTypeOK
  <2>8. QED
    BY <1>3, <1>4, <2>1, <2>2, <2>3, <2>5, <2>6, <2>7 DEF ExecInv, ExecTypeOK, Plans
<1>10. CircuitMasked'
  <2>1. pending' \subseteq {Retrieval}
    BY <1>2, <1>3 DEF ExecInv, CircuitMasked
  <2>2. ASSUME NEW u \in Tools \ {Retrieval}, health'[u].state = "OPEN"
        PROVE  ~VisibleTool(u)'
    <3>1. CASE health[u].state = "OPEN"
      <4>1. ~VisibleTool(u)
        BY <3>1 DEF ExecInv, CircuitMasked
      <4>2. QED
        BY <4>1, HiddenKept
    <3>2. CASE health[u].state # "OPEN"
      <4>1. u = SelectedTool /\ ~Refused /\ health'[u] = Observed(health[u], a)
        BY <1>3, <2>2, <3>2 DEF ExecInv, ExecTypeOK
      <4>2. ExecutionFailure(a) /\ result = a
        BY <2>2, <3>2, <4>1 DEF Observed, result
      <4>3. available' = available \ SourcesOf[u]
        BY <1>3, <2>2, <4>1, <4>2 DEF SourcesAfter, ExecutionFailure
      <4>4. SourcesOf[u] # {} /\ u # Retrieval
        BY <2>2, ExecutionAssumption
      <4>5. QED
        BY <4>3, <4>4 DEF VisibleTool
    <3>3. QED
      BY <3>1, <3>2
  <2>3. QED
    BY <2>1, <2>2 DEF CircuitMasked
<1>11. AcquiredOnce'
  <2> SUFFICES ASSUME NEW r \in Tasks, NEW t \in Tasks,
                      ledger'[r].state = "ACQUIRED", ledger'[t] = ledger'[r]
               PROVE  r = t
    BY DEF AcquiredOnce
  <2>1. CASE r # step /\ t # step
    BY <1>8, <2>1 DEF ExecInv, AcquiredOnce
  <2>2. ASSUME NEW u \in Tasks \ {step} PROVE ~(ledger'[u] = row /\ result = "ok")
    BY <1>1, <1>7, <1>8 DEF MatchingAcquisitions
  <2>3. CASE r = step /\ t # step
    BY <1>7, <1>8, <2>2, <2>3
  <2>4. CASE r # step /\ t = step
    BY <1>7, <1>8, <2>2, <2>4
  <2>5. QED
    BY <2>1, <2>3, <2>4
<1>12. RecordsAgree'
  <2>1. \A t \in Tasks \ {step} :
           /\ ledger'[t] = ledger[t] /\ answer'[t] = answer[t] /\ dag'.status[t] = dag.status[t]
           /\ ~(dag.status[t] = "FAILED" /\ answer[t] = "NONE")
    BY <1>1, <1>6, <1>8 DEF ExecInv, RecordsAgree
  <2>2. /\ ledger'[step].state = "ACQUIRED" <=> result = "ok"
        /\ answer'[step] = result /\ result # "NONE" /\ dag'.status[step] = TaskResult(result)
    BY <1>1, <1>5, <1>6, <1>7, <1>8 DEF Answers
  <2>3. QED
    BY <1>5, <2>1, <2>2 DEF ExecInv, RecordsAgree, Outcomes
<1>13. PlanInHand' /\ CallAdmitted' /\ CallsAreCurrent'
  BY <1>1, <1>3, <1>4 DEF PlanInHand, CallAdmitted, CallsAreCurrent
<1>14. QED
  BY <1>6, <1>9, <1>10, <1>11, <1>12, <1>13 DEF ExecInv

LEMMA CallRefusedStep ==
  ASSUME ExecInv, CallRefused
  PROVE  ExecInv'
<1>1. /\ phase = "calling" /\ step \in Tasks /\ dag.selected = step
      /\ dag.status[step] = "READY" /\ phase' = "ended" /\ plan' = NoPlan
      /\ UNCHANGED <<step, version, obligations, available, health, ledger, answer, calls,
                     pending>>
  BY DEF CallRefused, records, ExecInv, PlanInHand, CallAdmitted
<1>2. /\ Good(dag') /\ Loose(dag')
      /\ \A u \in Tasks : dag'.status[u] = IF u = step THEN "FAILED" ELSE dag.status[u]
  <2>1. Good(dag) /\ Loose(dag) /\ dag' = Executed(dag, step, "FAILED")
    BY <1>1 DEF ExecInv, CallRefused
  <2>2. "FAILED" \in Outcomes
    BY DEF Outcomes
  <2>3. QED
    BY <1>1, <2>1, <2>2, ExecutedGood
<1>3. ExecTypeOK'
  BY <1>1, <1>2 DEF ExecInv, ExecTypeOK, DAGTypeOK, Good
<1>4. RecordsAgree'
  BY <1>1, <1>2 DEF ExecInv, RecordsAgree, NoRow
<1>5. AcquiredOnce' /\ CircuitMasked'
  BY <1>1 DEF ExecInv, AcquiredOnce, CircuitMasked, VisibleTool
<1>6. QED
  BY <1>1, <1>2, <1>3, <1>4, <1>5 DEF ExecInv, PlanInHand, CallAdmitted, CallsAreCurrent

LEMMA StutterStep ==
  ASSUME ExecInv, UNCHANGED execVars
  PROVE  ExecInv'
BY DEF execVars, ExecInv, ExecTypeOK, DAGTypeOK, StateShape, Present, PlanInHand, CallAdmitted,
       Visible, VisibleTool, MatchingAcquisitions, Capacity, CallsAreCurrent, CircuitMasked,
       AcquiredOnce, RecordsAgree

LEMMA ExecInvariant == ExecSpec => []ExecInv
<1>1. ExecInv /\ [ExecNext]_execVars => ExecInv'
  <2> SUFFICES ASSUME ExecInv, [ExecNext]_execVars PROVE ExecInv'
    OBVIOUS
  <2>1. CASE \E o \in Obligations \cup {None}, k \in Keys \cup {None},
                next \in Commits(BlockPending(obligations)) : Turn(o, k, next)
    BY <2>1, TurnStep
  <2>2. CASE \E next \in Commits(obligations) : Reflect(next)
    BY <2>2, ReflectStep
  <2>3. CASE Preflight
    BY <2>3, PreflightStep
  <2>4. CASE Reject \/ BurstOver
    BY <2>4, EndBurstStep DEF Reject, BurstOver
  <2>5. CASE \E t \in Tasks : Admit(t)
    BY <2>5, AdmitStep
  <2>6. CASE \E a \in Answers : Call(a)
    BY <2>6, CallStep
  <2>7. CASE CallRefused
    BY <2>7, CallRefusedStep
  <2>8. CASE UNCHANGED execVars
    BY <2>8, StutterStep
  <2>9. QED
    BY <2>1, <2>2, <2>3, <2>4, <2>5, <2>6, <2>7, <2>8 DEF ExecNext
<1>2. QED
  BY <1>1, InitInv, PTL DEF ExecSpec

-----------------------------------------------------------------------------
(* The theorems *)

\* Types, the bound on Tool calls included, whatever the turns of a run do.
THEOREM ExecTypeCorrect == ExecSpec => []ExecTypeOK
<1>1. ExecInv => ExecTypeOK
  BY DEF ExecInv
<1>2. QED
  BY <1>1, ExecInvariant, PTL

\* ActionRuntime never acquires the same data twice: the key is free at admission and
\* nothing between admission and the answer can take it.
THEOREM AcquiredOnceHolds == ExecSpec => []AcquiredOnce
<1>1. ExecInv => AcquiredOnce
  BY DEF ExecInv
<1>2. QED
  BY <1>1, ExecInvariant, PTL

\* Graph, ledger and Observation store tell the same story of every task.
THEOREM RecordsAgreeHolds == ExecSpec => []RecordsAgree
<1>1. ExecInv => RecordsAgree
  BY DEF ExecInv
<1>2. QED
  BY <1>1, ExecInvariant, PTL

\* Reflection between admission and execution never lets a stale plan reach a Tool.
THEOREM CallsAreCurrentHolds == ExecSpec => []CallsAreCurrent
<1>1. ExecInv => CallsAreCurrent
  BY DEF ExecInv
<1>2. QED
  BY <1>1, ExecInvariant, PTL

\* The capability of a Tool masks its breaker, for any threshold and any sharing of
\* capabilities: ActionRuntime refuses a call, and obligations are blocked, on account of
\* knowledge_retrieval alone.
THEOREM BreakerMaskedHolds == ExecSpec => []BreakerMasked
<1>1. ExecInv => BreakerMasked
  BY CallVisible DEF ExecInv, CircuitMasked, BreakerMasked
<1>2. QED
  BY <1>1, ExecInvariant, PTL

\* Only a Tool that is visible is called, so its answer gives no hidden Tool anything
\* back: its own capabilities it had, and those of knowledge_retrieval no other Tool uses.
THEOREM HiddenStaysHiddenHolds == ExecSpec => HiddenStaysHidden
<1> DEFINE Kept == \A u \in Tools : ~VisibleTool(u) => ~VisibleTool(u)'
<1>1. ExecInv /\ [ExecNext]_execVars => [Kept]_execVars
  <2> SUFFICES ASSUME ExecInv, ExecNext PROVE Kept
    OBVIOUS
  <2>1. ASSUME NEW a \in Answers, Call(a) PROVE Kept
    BY <2>1, HiddenKept
  <2>2. CASE ~\E a \in Answers : Call(a)
    <3>1. available' = available
      BY <2>2 DEF ExecNext, Turn, Reflect, Preflight, Reject, BurstOver, Admit, CallRefused, records
    <3>2. QED
      BY <3>1 DEF VisibleTool
  <2>3. QED
    BY <2>1, <2>2
<1>2. QED
  BY <1>1, ExecInvariant, PTL DEF ExecSpec, HiddenStaysHidden

\* A burst changes the status of the task of its own turn and of no other.
THEOREM AbandonedStayReadyHolds == ExecSpec => AbandonedStayReady
<1> DEFINE Kept == \A t \in Ready(dag) : t < step => dag'.status[t] = "READY"
<1>1. ExecInv /\ [ExecNext]_execVars => [Kept]_execVars
  <2> SUFFICES ASSUME ExecInv, ExecNext, NEW t \in Ready(dag), t < step
               PROVE  dag'.status[t] = "READY"
    OBVIOUS
  <2>1. t \in Tasks /\ dag.status[t] = "READY" /\ t # step /\ Good(dag) /\ Loose(dag)
    BY ExecutionAssumption DEF Ready, WithStatus, ExecInv, ExecTypeOK
  <2>2. CASE UNCHANGED dag
    BY <2>1, <2>2
  <2>3. CASE Preflight /\ PlanCurrent
    <3> DEFINE d == [dag EXCEPT !.registered = @ \cup KnownObligations]
    <3>1. phase \in {"planned", "reflected"} /\ dag' = Added(d, NewTask)
      BY <2>3 DEF Preflight
    <3>2. NewTask \in Batches /\ DOMAIN NewTask = {step} /\ NewTask[step].dependencies = {}
      BY <3>1, NewTaskBatch
    <3>3. step \in Tasks
      BY <3>1 DEF ExecInv, PlanInHand
    <3>4. Loose(d) /\ d.status = dag.status
      BY <2>1 DEF Loose, DAGStates, KnownObligations
    <3> HIDE DEF d
    <3>5. \A u \in Tasks : Added(d, NewTask).status[u] = IF u = step THEN "READY" ELSE d.status[u]
      BY <3>2, <3>3, <3>4, AddedLoose
    <3>6. QED
      BY <2>1, <3>1, <3>4, <3>5
  <2>4. CASE \E u \in Tasks : Admit(u) /\ dag' = Selected(dag, u)
    BY <2>1, <2>4, SelectedLoose
  <2>5. ASSUME phase = "calling", NEW s \in Outcomes,
               dag' = Executed(dag, dag.selected, s)
        PROVE  dag'.status[t] = "READY"
    <3>1. dag.selected = step /\ step \in Tasks
      BY <2>5 DEF ExecInv, CallAdmitted, PlanInHand
    <3>2. QED
      BY <2>1, <2>5, <3>1, ExecutedLoose
  <2>6. CASE (\E a \in Answers : Call(a)) \/ CallRefused
    BY <2>5, <2>6 DEF Call, CallRefused, TaskResult, Outcomes
  <2>7. QED
    BY <2>2, <2>3, <2>4, <2>6
       DEF ExecNext, Turn, Reflect, Preflight, Reject, BurstOver, Admit, records
<1>2. QED
  BY <1>1, ExecInvariant, PTL DEF ExecSpec, AbandonedStayReady
=============================================================================
