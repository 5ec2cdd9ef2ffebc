----------------------- MODULE VerificationDAGProofs -----------------------
(***************************************************************************)
(* Proofs about VerificationDAG, for any set of task identities, finite or *)
(* not, any obligations and any replan limit.                              *)
(*                                                                         *)
(* The inductive invariant is Good: besides the properties it says that    *)
(* the graph has no cycle and that no task is RUNNING.  Every operation    *)
(* edits the state into a Prepared one and refreshes it, and refreshing a  *)
(* Prepared state gives a Good one.                                        *)
(***************************************************************************)
EXTENDS VerificationDAG, TLAPS

NeverRunning(d) == WithStatus(d, {"RUNNING"}) = {}
Registered(d) == \A t \in Present(d) : d.obligation[t] \in d.registered

Good(d) ==
  /\ d \in DAGStates
  /\ StateShape(d)
  /\ ValidGraph(Present(d), d.dependencies)
  /\ NeverRunning(d)
  /\ Settled(d)

\* A state about to be refreshed: what was executed had what it needed.
Prepared(d) ==
  /\ d \in DAGStates
  /\ Registered(d)
  /\ ValidGraph(Present(d), d.dependencies)
  /\ NeverRunning(d)
  /\ \A t \in WithStatus(d, {"COMPLETED", "FAILED"}) : d.dependencies[t] \subseteq Completed(d)
  /\ d.selected = None

\* The tasks of d are in e as they were, those that ended in their final status.
Keeps(d, e) ==
  \A t \in Present(d) :
    /\ e.dependencies[t] = d.dependencies[t]
    /\ e.obligation[t] = d.obligation[t]
    /\ t \in Present(e)
    /\ t \in Terminal(d) => e.status[t] = d.status[t]

-----------------------------------------------------------------------------
(* The refresh loop *)

\* The blocked set is closed: a dependant of a doomed task is doomed.
LEMMA DoomedClosed ==
  ASSUME NEW d \in DAGStates
  PROVE  ClosedUnderBreaking(d, Doomed(d))
<1>1. WithStatus(d, Broken) \subseteq Doomed(d)
  BY DEF Doomed, ClosedUnderBreaking, WithStatus
<1>2. ASSUME NEW t \in Unsettled(d), d.dependencies[t] \cap Doomed(d) # {}
      PROVE  t \in Doomed(d)
  <2>1. t \in Tasks
    BY DEF Unsettled, Present
  <2>2. ASSUME NEW B \in SUBSET Tasks, ClosedUnderBreaking(d, B)
        PROVE  t \in B
    <3>1. Doomed(d) \subseteq B
      BY <2>2 DEF Doomed
    <3>2. d.dependencies[t] \cap B # {}
      BY <1>2, <3>1
    <3>3. QED
      BY <2>2, <3>2 DEF ClosedUnderBreaking
  <2>3. QED
    BY <2>1, <2>2 DEF Doomed
<1>3. QED
  BY <1>1, <1>2 DEF ClosedUnderBreaking

\* What Refresh does to each field.
LEMMA RefreshFields ==
  ASSUME NEW d \in DAGStates, d.selected = None
  PROVE  /\ Refresh(d) \in DAGStates
         /\ Refresh(d).status = RefreshedStatus(d)
         /\ Refresh(d).dependencies = d.dependencies
         /\ Refresh(d).obligation = d.obligation
         /\ Refresh(d).registered = d.registered
         /\ Refresh(d).selected = None
<1> DEFINE a == RefreshedStatus(d)
<1>1. a \in [Tasks -> TaskStatus \cup {"ABSENT"}]
  BY DEF RefreshedStatus, DAGStates, TaskStatus
<1>2. Refresh(d) = [d EXCEPT !.status = a, !.selected = None]
  BY DEF Refresh, DAGStates
<1>3. a = RefreshedStatus(d)
  OBVIOUS
<1> HIDE DEF a
<1>4. [d EXCEPT !.status = a, !.selected = None] \in DAGStates
  BY <1>1 DEF DAGStates
<1>5. QED
  BY <1>2, <1>3, <1>4 DEF DAGStates

LEMMA RefreshSound ==
  ASSUME NEW d, Prepared(d)
  PROVE  Good(Refresh(d)) /\ Keeps(d, Refresh(d))
<1> DEFINE r == Refresh(d)
<1>1. d \in DAGStates /\ d.selected = None
  BY DEF Prepared
<1>2. /\ r \in DAGStates /\ r.status = RefreshedStatus(d)
      /\ r.dependencies = d.dependencies /\ r.obligation = d.obligation
      /\ r.registered = d.registered /\ r.selected = None
  BY <1>1, RefreshFields
<1>3. ASSUME NEW t \in Tasks
      PROVE  r.status[t] = IF t \notin Unsettled(d) THEN d.status[t]
                           ELSE IF t \in Doomed(d) THEN "BLOCKED"
                           ELSE IF d.dependencies[t] \subseteq Completed(d) THEN "READY"
                           ELSE "PENDING"
  BY <1>2 DEF RefreshedStatus
<1> HIDE DEF r
<1>4. Present(r) = Present(d)
  BY <1>3 DEF Present, Unsettled
<1>5. Completed(r) = Completed(d)
  BY <1>3 DEF Completed, WithStatus, Unsettled, Terminal, ExecutionStatus
<1>6. WithStatus(r, Broken) \subseteq Doomed(d)
  <2>1. WithStatus(d, Broken) \subseteq Doomed(d)
    BY <1>1, DoomedClosed DEF ClosedUnderBreaking
  <2>2. ASSUME NEW t \in Tasks, r.status[t] \in Broken
        PROVE  t \in Doomed(d)
    BY <1>3, <2>1, <2>2 DEF Broken, WithStatus
  <2>3. QED
    BY <2>2 DEF WithStatus
<1>7. Settled(r)
  <2> SUFFICES ASSUME NEW t \in Present(d)
               PROVE  /\ r.status[t] \in {"READY", "COMPLETED", "FAILED"} =>
                           d.dependencies[t] \subseteq Completed(d)
                      /\ r.status[t] = "PENDING" =>
                           /\ d.dependencies[t] \cap WithStatus(r, Broken) = {}
                           /\ ~(d.dependencies[t] \subseteq Completed(d))
    BY <1>2, <1>4, <1>5 DEF Settled
  <2>1. t \in Tasks
    BY DEF Present
  <2>2. CASE t \notin Unsettled(d)
    <3>1. r.status[t] = d.status[t] /\ d.status[t] \in ExecutionStatus
      BY <1>3, <2>1, <2>2 DEF Unsettled, Terminal, WithStatus
    <3>2. r.status[t] \in {"COMPLETED", "FAILED"} => d.dependencies[t] \subseteq Completed(d)
      BY <2>1, <3>1 DEF Prepared, WithStatus
    <3>3. QED
      BY <3>1, <3>2 DEF ExecutionStatus
  <2>3. CASE t \in Unsettled(d)
    <3>1. t \notin Doomed(d) => d.dependencies[t] \cap Doomed(d) = {}
      BY <1>1, <2>3, DoomedClosed DEF ClosedUnderBreaking
    <3>2. QED
      BY <1>3, <1>6, <2>1, <2>3, <3>1
  <2>4. QED
    BY <2>2, <2>3
<1>8. NeverRunning(r)
  BY <1>3 DEF Prepared, NeverRunning, WithStatus
<1>9. StateShape(r) /\ ValidGraph(Present(r), r.dependencies)
  BY <1>2, <1>4 DEF Prepared, Registered, StateShape
<1>10. Keeps(d, r)
  <2>1. ASSUME NEW t \in Present(d), t \in Terminal(d)
        PROVE  r.status[t] = d.status[t]
    BY <1>3, <2>1 DEF Present, Unsettled
  <2>2. QED
    BY <1>2, <1>4, <2>1 DEF Keeps
<1>11. QED
  BY <1>2, <1>7, <1>8, <1>9, <1>10 DEF Good, r
-----------------------------------------------------------------------------
(* The operations *)

LEMMA EmptyPrepared ==
  ASSUME NEW O \in SUBSET Obligations
  PROVE  /\ EmptyDAG(O) \in DAGStates
         /\ Good(EmptyDAG(O))
<1>1. EmptyDAG(O) \in DAGStates
  BY DEF EmptyDAG, DAGStates
<1>2. Present(EmptyDAG(O)) = {} /\ NeverRunning(EmptyDAG(O))
  BY DEF EmptyDAG, Present, NeverRunning, WithStatus
<1>3. ValidGraph({}, EmptyDAG(O).dependencies)
  BY DEF ValidGraph, Acyclic
<1>4. StateShape(EmptyDAG(O)) /\ Settled(EmptyDAG(O))
  BY <1>2 DEF StateShape, Settled, EmptyDAG
<1>5. QED
  BY <1>1, <1>2, <1>3, <1>4 DEF Good

\* What adding a batch does to each field, whatever the replan counter becomes.
LEMMA ExtendedFields ==
  ASSUME NEW d \in DAGStates, NEW batch \in Batches, NEW n \in Nat
  PROVE  LET e == [Extended(d, batch) EXCEPT !.replans = n] IN
         /\ e \in DAGStates
         /\ \A t \in Tasks :
              /\ e.status[t] = IF t \in DOMAIN batch THEN "PENDING" ELSE d.status[t]
              /\ e.obligation[t] = IF t \in DOMAIN batch THEN batch[t].obligation
                                   ELSE d.obligation[t]
              /\ e.dependencies[t] = IF t \in DOMAIN batch THEN batch[t].dependencies
                                     ELSE d.dependencies[t]
         /\ e.dependencies = Extended(d, batch).dependencies
         /\ e.registered = d.registered
         /\ e.selected = None
<1> DEFINE a == [t \in Tasks |-> IF t \in DOMAIN batch THEN "PENDING" ELSE d.status[t]]
           b == [t \in Tasks |-> IF t \in DOMAIN batch THEN batch[t].dependencies
                                 ELSE d.dependencies[t]]
           c == [t \in Tasks |-> IF t \in DOMAIN batch THEN batch[t].obligation
                                 ELSE d.obligation[t]]
           e == [d EXCEPT !.status = a, !.dependencies = b, !.obligation = c,
                          !.selected = None, !.replans = n]
<1>1. \A t \in DOMAIN batch : batch[t] \in Proposal
  BY DEF Batches
<1>2. /\ a \in [Tasks -> TaskStatus \cup {"ABSENT"}]
      /\ b \in [Tasks -> SUBSET Tasks]
      /\ c \in [Tasks -> Obligations \cup {None}]
  BY <1>1 DEF DAGStates, TaskStatus, Proposal
<1>3. Extended(d, batch) = [d EXCEPT !.status = a, !.dependencies = b, !.obligation = c,
                                     !.selected = None]
  BY DEF Extended, OwnedStatus, DAGStates
<1>4. /\ \A t \in Tasks :
           /\ a[t] = IF t \in DOMAIN batch THEN "PENDING" ELSE d.status[t]
           /\ b[t] = IF t \in DOMAIN batch THEN batch[t].dependencies ELSE d.dependencies[t]
           /\ c[t] = IF t \in DOMAIN batch THEN batch[t].obligation ELSE d.obligation[t]
  OBVIOUS
<1> HIDE DEF a, b, c
<1>5. [Extended(d, batch) EXCEPT !.replans = n] = e
  BY <1>3 DEF DAGStates
<1>6. /\ e \in DAGStates /\ e.status = a /\ e.dependencies = b /\ e.obligation = c
      /\ e.registered = d.registered /\ e.selected = None
  BY <1>2 DEF DAGStates
<1>7. Extended(d, batch).dependencies = b
  BY <1>3 DEF DAGStates
<1> HIDE DEF e
<1>8. QED
  BY <1>4, <1>5, <1>6, <1>7

LEMMA ExtendedPrepared ==
  ASSUME NEW d, Good(d), NEW batch \in Batches, BatchAllowed(d, batch), NEW n \in Nat
  PROVE  LET e == [Extended(d, batch) EXCEPT !.replans = n] IN Prepared(e) /\ Keeps(d, e)
<1> DEFINE e == [Extended(d, batch) EXCEPT !.replans = n]
<1>1. d \in DAGStates
  BY DEF Good
<1>2. DOMAIN batch \subseteq Tasks
  BY DEF Batches
<1>3. /\ e \in DAGStates
      /\ \A t \in Tasks :
           /\ e.status[t] = IF t \in DOMAIN batch THEN "PENDING" ELSE d.status[t]
           /\ e.obligation[t] = IF t \in DOMAIN batch THEN batch[t].obligation
                                ELSE d.obligation[t]
           /\ e.dependencies[t] = IF t \in DOMAIN batch THEN batch[t].dependencies
                                  ELSE d.dependencies[t]
      /\ e.dependencies = Extended(d, batch).dependencies
      /\ e.registered = d.registered
      /\ e.selected = None
  BY <1>1, ExtendedFields
<1> HIDE DEF e
<1>4. Present(e) = Present(d) \cup DOMAIN batch
  BY <1>2, <1>3 DEF Present
<1>5. DOMAIN batch \cap Present(d) = {}
  BY DEF BatchAllowed
<1>6. ASSUME NEW t \in Present(d)
      PROVE  /\ t \in Tasks /\ e.status[t] = d.status[t]
             /\ e.dependencies[t] = d.dependencies[t] /\ e.obligation[t] = d.obligation[t]
  BY <1>3, <1>5 DEF Present
<1>7. Registered(e)
  <2>1. ASSUME NEW t \in DOMAIN batch PROVE e.obligation[t] \in e.registered
    BY <1>2, <1>3 DEF BatchAllowed
  <2>2. QED
    BY <1>3, <1>4, <1>6, <2>1 DEF Registered, Good, StateShape
<1>8. ValidGraph(Present(e), e.dependencies)
  <2>1. ValidGraph(Present(d) \cup DOMAIN batch, Extended(d, batch).dependencies)
    BY DEF BatchAllowed
  <2>2. QED
    BY <1>3, <1>4, <2>1
<1>9. NeverRunning(e)
  BY <1>3 DEF Good, NeverRunning, WithStatus
<1>10. Completed(d) \subseteq Completed(e)
  BY <1>6 DEF Completed, WithStatus, Present
<1>11. ASSUME NEW t \in WithStatus(e, {"COMPLETED", "FAILED"})
       PROVE  e.dependencies[t] \subseteq Completed(e)
  <2>1. t \in Present(d) /\ e.status[t] \in {"COMPLETED", "FAILED"}
    BY <1>3 DEF WithStatus, Present
  <2>2. d.dependencies[t] \subseteq Completed(d)
    BY <1>6, <2>1 DEF Good, Settled
  <2>3. QED
    BY <1>6, <1>10, <2>1, <2>2
<1>12. Keeps(d, e)
  BY <1>4, <1>6 DEF Keeps
<1>13. QED
  BY <1>3, <1>7, <1>8, <1>9, <1>11, <1>12 DEF Prepared, e

LEMMA ExecutedPrepared ==
  ASSUME NEW d, Good(d), NEW t \in Tasks, NEW s \in ExecutionStatus, ExecutionAllowed(d, t)
  PROVE  LET e == [d EXCEPT !.status[t] = s, !.selected = None] IN Prepared(e) /\ Keeps(d, e)
<1> DEFINE a == [d.status EXCEPT ![t] = s]
           e == [d EXCEPT !.status[t] = s, !.selected = None]
<1>1. d \in DAGStates /\ d.status[t] = "READY"
  BY DEF Good, ExecutionAllowed
<1>2. /\ a \in [Tasks -> TaskStatus \cup {"ABSENT"}]
      /\ a[t] = s /\ \A u \in Tasks \ {t} : a[u] = d.status[u]
  BY <1>1 DEF DAGStates, ExecutionStatus, TaskStatus
<1>3. e = [d EXCEPT !.status = a, !.selected = None]
  BY <1>1 DEF DAGStates
<1> HIDE DEF a
<1>4. [d EXCEPT !.status = a, !.selected = None] \in DAGStates
  BY <1>1, <1>2 DEF DAGStates
<1>5. /\ e.status = a /\ e.dependencies = d.dependencies /\ e.obligation = d.obligation
      /\ e.registered = d.registered /\ e.selected = None
  BY <1>1, <1>3 DEF DAGStates
<1>6. e \in DAGStates
  BY <1>3, <1>4
<1> HIDE DEF e
<1>7. Present(e) = Present(d)
  BY <1>1, <1>2, <1>5 DEF Present, ExecutionStatus
<1>8. Completed(d) \subseteq Completed(e)
  BY <1>1, <1>2, <1>5 DEF Completed, WithStatus
<1>9. NeverRunning(e)
  BY <1>2, <1>5 DEF Good, NeverRunning, WithStatus, ExecutionStatus
<1>10. ASSUME NEW u \in WithStatus(e, {"COMPLETED", "FAILED"})
       PROVE  e.dependencies[u] \subseteq Completed(e)
  <2>1. u \in Present(d) /\ d.status[u] \in {"READY", "COMPLETED", "FAILED"}
    BY <1>1, <1>2, <1>5 DEF WithStatus, Present
  <2>2. d.dependencies[u] \subseteq Completed(d)
    BY <2>1 DEF Good, Settled
  <2>3. QED
    BY <1>5, <1>8, <2>2
<1>11. Registered(e) /\ ValidGraph(Present(e), e.dependencies)
  BY <1>5, <1>7 DEF Good, StateShape, Registered
<1>12. Keeps(d, e)
  <2>1. ASSUME NEW u \in Present(d), u \in Terminal(d) PROVE e.status[u] = d.status[u]
    BY <1>1, <1>2, <1>5, <2>1 DEF Present, Terminal, WithStatus, ExecutionStatus
  <2>2. QED
    BY <1>5, <1>7, <2>1 DEF Keeps
<1>13. QED
  BY <1>5, <1>6, <1>9, <1>10, <1>11, <1>12 DEF Prepared, e
\* Keeping the tasks of d is transitive along the way to a Good state.
LEMMA KeepsTransitive ==
  ASSUME NEW d, NEW e, NEW f, Keeps(d, e), Keeps(e, f),
         \A t \in Terminal(d) : t \in Present(d) => t \in Terminal(e)
  PROVE  Keeps(d, f)
  BY DEF Keeps

LEMMA TerminalKept ==
  ASSUME NEW d, NEW e, Keeps(d, e)
  PROVE  \A t \in Terminal(d) : t \in Present(d) => t \in Terminal(e)
  BY DEF Keeps, Terminal, WithStatus, Present

LEMMA PrepareAndRefresh ==
  ASSUME NEW d, NEW e, Prepared(e), Keeps(d, e)
  PROVE  Good(Refresh(e)) /\ Keeps(d, Refresh(e))
  BY RefreshSound, TerminalKept, KeepsTransitive

LEMMA BatchGood ==
  ASSUME NEW d, Good(d), NEW batch \in Batches, BatchAllowed(d, batch)
  PROVE  /\ Good(Added(d, batch)) /\ Keeps(d, Added(d, batch))
         /\ Good(LocalReplanned(d, batch)) /\ Keeps(d, LocalReplanned(d, batch))
<1> DEFINE x == Extended(d, batch)
<1>1. d.replans \in Nat /\ d.replans + 1 \in Nat /\ x.replans = d.replans
  <2>1. d \in DAGStates
    BY DEF Good
  <2>2. QED
    BY <2>1 DEF Extended, DAGStates
<1>2. x = [x EXCEPT !.replans = d.replans]
  BY <1>1 DEF Extended
<1>3. [x EXCEPT !.replans = @ + 1] = [x EXCEPT !.replans = d.replans + 1]
  BY <1>1
<1>4. \A n \in Nat : Prepared([x EXCEPT !.replans = n]) /\ Keeps(d, [x EXCEPT !.replans = n])
  BY ExtendedPrepared
<1> HIDE DEF x
<1>5. Prepared(x) /\ Keeps(d, x)
  BY <1>1, <1>2, <1>4
<1>6. /\ Prepared([x EXCEPT !.replans = @ + 1])
      /\ Keeps(d, [x EXCEPT !.replans = @ + 1])
  BY <1>1, <1>3, <1>4
<1>7. QED
  BY <1>5, <1>6, PrepareAndRefresh DEF Added, LocalReplanned, x

LEMMA SelectedGood ==
  ASSUME NEW d, Good(d), NEW t \in Tasks, d.status[t] = "READY"
  PROVE  Good(Selected(d, t)) /\ Keeps(d, Selected(d, t))
<1>1. d \in DAGStates
  BY DEF Good
<1>2. /\ Selected(d, t) \in DAGStates /\ Selected(d, t).status = d.status
      /\ Selected(d, t).dependencies = d.dependencies
      /\ Selected(d, t).obligation = d.obligation
      /\ Selected(d, t).registered = d.registered /\ Selected(d, t).selected = t
  BY <1>1 DEF Selected, DAGStates
<1>3. QED
  BY <1>2 DEF Good, Keeps, StateShape, Settled, NeverRunning, Present, WithStatus, Completed,
              Terminal

LEMMA RegisteredGood ==
  ASSUME NEW d, Good(d), NEW O \in SUBSET Obligations
  PROVE  LET e == [d EXCEPT !.registered = @ \cup O] IN Good(e) /\ Keeps(d, e)
<1> DEFINE e == [d EXCEPT !.registered = @ \cup O]
<1>1. d \in DAGStates
  BY DEF Good
<1>2. /\ e \in DAGStates /\ e.status = d.status /\ e.dependencies = d.dependencies
      /\ e.obligation = d.obligation /\ e.registered = d.registered \cup O
      /\ e.selected = d.selected
  BY <1>1 DEF DAGStates
<1> HIDE DEF e
<1>3. Good(e) /\ Keeps(d, e)
  BY <1>2 DEF Good, Keeps, StateShape, Settled, NeverRunning, Present, WithStatus, Completed,
              Terminal
<1>4. QED
  BY <1>3 DEF e

-----------------------------------------------------------------------------
(* The theorems *)

LEMMA ProposedAreBatches ==
  ASSUME NEW d \in DAGStates
  PROVE  Proposed(d) \subseteq Batches
<1>1. ASSUME NEW batch \in Proposed(d) PROVE batch \in Batches
  <2>1. PICK B \in SUBSET (Tasks \ Present(d)) :
          batch \in [B -> [dependencies : SUBSET (Present(d) \cup B),
                           obligation : Obligations, status : Claims]]
    BY DEF Proposed
  <2>2. Present(d) \cup B \subseteq Tasks
    BY DEF Present
  <2>3. batch \in [B -> Proposal]
    BY <2>1, <2>2 DEF Proposal
  <2>4. QED
    BY <2>3 DEF Batches
<1>2. QED
  BY <1>1

LEMMA InitializeGood == Initialize => Good(dag)
<1> SUFFICES ASSUME NEW O \in SUBSET Obligations,
                    \/ dag = EmptyDAG(O)
                    \/ \E batch \in Proposed(EmptyDAG(O)) :
                         BatchAllowed(EmptyDAG(O), batch) /\ dag = Added(EmptyDAG(O), batch)
             PROVE  Good(dag)
  BY DEF Initialize
<1>1. Good(EmptyDAG(O)) /\ Proposed(EmptyDAG(O)) \subseteq Batches
  BY EmptyPrepared, ProposedAreBatches
<1>2. QED
  BY <1>1, BatchGood

LEMMA HarnessStep ==
  ASSUME Good(dag), HarnessNext
  PROVE  Good(dag') /\ Keeps(dag, dag')
<1>1. dag \in DAGStates
  BY DEF Good
<1>2. CASE \E O \in SUBSET Obligations : RegisterObligationIds(O)
  BY <1>2, RegisteredGood DEF RegisterObligationIds
<1>3. CASE \E batch \in Proposed(dag) : AddTasks(batch) \/ LocalReplan(batch)
  <2>1. PICK batch \in Proposed(dag) : AddTasks(batch) \/ LocalReplan(batch)
    BY <1>3
  <2>2. batch \in Batches
    BY <1>1, ProposedAreBatches
  <2>3. QED
    BY <2>1, <2>2, BatchGood DEF AddTasks, LocalReplan, LocalReplanAllowed
<1>4. CASE \E t \in Tasks : SelectReady(t)
  BY <1>4, SelectedGood DEF SelectReady
<1>5. CASE \E t \in Tasks, s \in ExecutionStatus : ApplyExecution(t, s)
  <2>1. PICK t \in Tasks, s \in ExecutionStatus :
          ExecutionAllowed(dag, t) /\ dag' = Executed(dag, t, s)
    BY <1>5 DEF ApplyExecution
  <2> DEFINE e == [dag EXCEPT !.status[t] = s, !.selected = None]
  <2>2. Prepared(e) /\ Keeps(dag, e)
    BY <2>1, ExecutedPrepared
  <2>3. dag' = Refresh(e)
    BY <2>1 DEF Executed
  <2> HIDE DEF e
  <2>4. QED
    BY <2>2, <2>3, PrepareAndRefresh
<1>6. QED
  BY <1>2, <1>3, <1>4, <1>5 DEF HarnessNext

\* The inductive invariant.
DAGInv == Good(dag)

LEMMA GoodInvariant == HarnessSpec => []DAGInv
<1>1. Initialize => DAGInv
  BY InitializeGood DEF DAGInv
<1>2. DAGInv /\ [HarnessNext]_dag => DAGInv'
  <2>1. DAGInv /\ HarnessNext => DAGInv'
    BY HarnessStep DEF DAGInv
  <2>2. DAGInv /\ UNCHANGED dag => DAGInv'
    BY DEF DAGInv
  <2>3. QED
    BY <2>1, <2>2
<1>3. QED
  BY <1>1, <1>2, PTL DEF HarnessSpec

\* Every operation of the adapter keeps the state typed and readable back.
THEOREM DAGTypeCorrect == HarnessSpec => []DAGTypeOK
<1>1. DAGInv => DAGTypeOK
  BY DEF DAGInv, Good, DAGTypeOK
<1>2. QED
  BY <1>1, GoodInvariant, PTL

\* Ready, pending and blocked agree with the dependencies after every operation, and
\* nothing runs before what it needs, for graphs of any size.
THEOREM StatusesSettledHolds == HarnessSpec => []StatusesSettled
<1>1. DAGInv => StatusesSettled
  BY DEF DAGInv, Good, StatusesSettled
<1>2. QED
  BY <1>1, GoodInvariant, PTL

\* The pending tasks of an acyclic graph include one whose dependencies have all ended.
LEMMA NoSelfWait ==
  ASSUME NEW d, Good(d), Ready(d) = {}
  PROVE  Unsettled(d) = {}
<1> DEFINE P == WithStatus(d, {"PENDING"})
<1>1. Unsettled(d) = P
  <2>1. d.status \in [Tasks -> TaskStatus \cup {"ABSENT"}]
    BY DEF Good, DAGStates
  <2>2. QED
    BY <2>1 DEF Good, NeverRunning, Unsettled, Present, Terminal, WithStatus, Ready, TaskStatus,
                ExecutionStatus
<1> SUFFICES ASSUME P # {} PROVE FALSE
  BY <1>1
<1>2. P \subseteq Present(d)
  BY DEF WithStatus, Present
<1>3. ValidGraph(Present(d), d.dependencies)
  BY DEF Good
<1>4. PICK t \in P : d.dependencies[t] \cap P = {}
  BY <1>2, <1>3 DEF ValidGraph, Acyclic
<1>5. d.dependencies[t] \subseteq Present(d)
  BY <1>2, <1>3, <1>4 DEF ValidGraph
<1>6. /\ d.dependencies[t] \cap WithStatus(d, Broken) = {}
      /\ ~(d.dependencies[t] \subseteq Completed(d))
  BY <1>2, <1>4 DEF Good, Settled, WithStatus
<1>7. PICK u \in d.dependencies[t] : u \notin Completed(d)
  BY <1>6
<1>8. u \in Tasks /\ d.status[u] \in TaskStatus \cup {"ABSENT"} /\ d.status[u] # "ABSENT"
  BY <1>5, <1>7 DEF Good, DAGStates, Present
<1>9. /\ d.status[u] # "PENDING" /\ d.status[u] # "READY"
      /\ d.status[u] # "RUNNING" /\ d.status[u] # "COMPLETED"
      /\ d.status[u] \notin Broken
  BY <1>4, <1>6, <1>7, <1>8 DEF WithStatus, Ready, Completed, Good, NeverRunning
<1>10. QED
  BY <1>8, <1>9 DEF TaskStatus, Broken

\* The graph never waits on itself: a settled status says that a task whose dependencies have
\* all ended is not pending, and an acyclic graph has such a task among the pending ones.
THEOREM PendingHasReadyHolds == HarnessSpec => []PendingHasReady
<1>1. DAGInv => PendingHasReady
  <2>1. WithStatus(dag, {"PENDING"}) \subseteq Unsettled(dag)
    BY DEF WithStatus, Unsettled, Present, Terminal, ExecutionStatus
  <2>2. QED
    BY <2>1, NoSelfWait DEF PendingHasReady, DAGInv
<1>2. QED
  BY <1>1, GoodInvariant, PTL

\* Tasks that ended keep their outcome and no task is dropped or rewired.
THEOREM HistoryKeptHolds == HarnessSpec => HistoryKept
<1> DEFINE Kept == \A t \in Present(dag) :
                     /\ dag'.dependencies[t] = dag.dependencies[t]
                     /\ dag'.obligation[t] = dag.obligation[t]
                     /\ t \in Present(dag')
                     /\ t \in Terminal(dag) => dag'.status[t] = dag.status[t]
<1>1. DAGInv /\ [HarnessNext]_dag => [Kept]_dag
  BY HarnessStep DEF DAGInv, Keeps
<1>2. QED
  BY <1>1, GoodInvariant, PTL DEF HarnessSpec, HistoryKept
=============================================================================
