------------------------ MODULE ReasonerCallsProofs ------------------------
(***************************************************************************)
(* Proofs about ReasonerCalls, for any allocation, any number of attempts, *)
(* turns, rounds and recoveries, and any usage.                            *)
(*                                                                         *)
(* LedgerInv is about the gateway alone: what the call that is under way   *)
(* will be charged (Pending) already fits the limits, because the check    *)
(* before the fork reserves one attempt and every admission of the child   *)
(* the next; what it has sent (Sent) is never more.  CallInv says where in *)
(* a turn a call is open, so that no phase changes under it.               *)
(***************************************************************************)
EXTENDS ReasonerCalls, WellFoundedInduction, TLAPS

(* What an open call will be charged, and what it has sent so far. *)
Closed == {"none", "done"}
Pending(c) == IF c.st \in Closed THEN 0 ELSE IF c.st = "locked" THEN c.shared + 1 ELSE Counted(c)
Sent(c) == IF c.st \in Closed THEN 0 ELSE IF c.st = "counted" THEN c.shared - 1 ELSE c.shared
With(f, role, n) == [f EXCEPT ![role] = @ + n]

LedgerInv ==
  /\ Total(ledger) + Pending(call) <= TotalCalls
  /\ NonReview(ledger) + (IF call.role = "review" THEN 0 ELSE Pending(call))
       <= InvestigationCalls + TerminalCalls
  /\ \A r \in Roles : wire[r] <= ledger[r] + (IF r = call.role THEN Sent(call) ELSE 0)
  /\ closing <= TerminalCalls
  /\ bud.started = NotStarted => closing = 0 /\ bud.phase # "consolidation"
  /\ bud.started # NotStarted => closing <= Total(ledger) + Sent(call) - bud.started
  /\ bud.phase = "consolidation" /\ call.st \in {"locked", "counted"} =>
       Total(ledger) + Pending(call) - bud.started <= TerminalCalls

WaitPCs == {"wait", "reflectWait", "reviewWait"}
ReviewPCs == {"reviewAsk", "reviewInvoke", "reviewWait"}
AskedPCs == {"reflectInvoke", "reflectWait", "reviewInvoke", "reviewWait"}
CallInv ==
  /\ call.st = "none" <=> turn.pc \notin WaitPCs
  /\ call.st # "none" => call.role = RoleOf
  /\ turn.pc \in ReviewPCs => bud.phase = "review"
  /\ turn.pc \in AskedPCs => turn.asked >= 1
  /\ call.st \in {"forked", "locked"} => call.shared < MaxAttempts
  /\ call.st \in {"counted", "sent"} => call.shared >= 1

IInv == TypeOK /\ CallInv /\ LedgerInv

-----------------------------------------------------------------------------
(* Sums over the roles. *)

LEMMA Sums ==
  ASSUME NEW f \in Counter
  PROVE  /\ Total(f) \in Nat /\ NonReview(f) \in Nat /\ Total(f) = NonReview(f) + f["review"]
         /\ \A r \in Roles : f[r] \in Nat
BY DEF Counter, Roles, Total, NonReview

LEMMA WithSums ==
  ASSUME NEW f \in Counter, NEW role \in Roles, NEW n \in Nat
  PROVE  /\ With(f, role, n) \in Counter
         /\ Total(With(f, role, n)) = Total(f) + n
         /\ NonReview(With(f, role, n)) = NonReview(f) + (IF role = "review" THEN 0 ELSE n)
         /\ \A r \in Roles : With(f, role, n)[r] = f[r] + (IF r = role THEN n ELSE 0)
<1>1. With(f, role, n) \in Counter /\ \A r \in Roles : With(f, role, n)[r] = f[r] + (IF r = role THEN n ELSE 0)
  BY DEF With, Counter
<1>2. QED
  BY <1>1 DEF Total, NonReview, Counter, Roles

\* An attempt that is not refused leaves room for itself in every limit.
LEMMA Unrefused ==
  ASSUME NEW b \in BudgetType, NEW role \in Roles, NEW total \in Nat, NEW reviewed \in Nat,
         Rejection(b, role, total, reviewed) = "admitted"
  PROVE  /\ total + 1 <= TotalCalls
         /\ role # "review" => total - reviewed + 1 <= InvestigationCalls + TerminalCalls
         /\ b.phase = "consolidation" /\ role # "review" => total - b.started + 1 <= TerminalCalls
<1>1. InvestigationCalls \in Nat /\ ReviewCalls \in Nat /\ TerminalCalls \in Nat /\ TotalCalls \in Nat
  BY AllocationAssumption DEF TotalCalls
<1>2. b.started \in Int
  BY DEF BudgetType, NotStarted
<1>3. ~(total >= TotalCalls)
  BY DEF Rejection
<1>4. total + 1 <= TotalCalls
  BY <1>1, <1>3
<1>5. CASE role = "review"
  BY <1>4, <1>5
<1>6. CASE role # "review" /\ b.phase = "consolidation"
  <2>1. /\ ~(total - b.started >= TerminalCalls)
        /\ ~(total - reviewed >= InvestigationCalls + TerminalCalls)
    BY <1>3, <1>6 DEF Rejection, ClosingRejection
  <2>2. QED
    BY <1>1, <1>2, <1>4, <2>1
<1>7. CASE role # "review" /\ b.phase # "consolidation"
  <2>1. ~(total - reviewed >= InvestigationCalls)
    BY <1>3, <1>7 DEF Rejection, InvestigationRejection
  <2>2. QED
    BY <1>1, <1>4, <1>7, <2>1
<1>8. QED
  BY <1>5, <1>6, <1>7

\* The charge of a call is at least what it has sent.
LEMMA PendingSent ==
  ASSUME NEW c \in CallType
  PROVE  /\ Pending(c) \in Nat /\ Counted(c) \in Nat /\ Counted(c) >= c.shared /\ c.shared \in Nat
         /\ c.st # "counted" \/ c.shared >= 1 => Sent(c) \in Nat /\ Sent(c) <= c.shared
                                                 /\ Sent(c) <= Pending(c)
BY AttemptAssumption DEF Pending, Sent, Counted, CallType, Closed

-----------------------------------------------------------------------------
(* Initial state. *)

LEMMA InitTyped == Init => TypeOK
<1> SUFFICES ASSUME Init PROVE TypeOK
  OBVIOUS
<1>1. bud \in BudgetType
  BY DEF Init, GatewayInit, NewBudget, BudgetType, LifecyclePhases
<1>2. call \in CallType /\ unread \in UsageType /\ ledger \in Counter /\ wire \in Counter /\ closing \in Nat
  BY AttemptAssumption DEF Init, GatewayInit, NoCall, NoUsage, CallType, CallStates, Roles, Outcomes,
     UsageType, Counter
<1>3. acct \in AcctType /\ turn \in TurnType /\ run \in RunType
  BY TurnAssumption DEF Init, IdleTurn, AcctType, TurnType, RunType, Reasons, Counter, PCs
<1>4. QED
  BY <1>1, <1>2, <1>3 DEF TypeOK

LEMMA InitInv == Init => IInv
<1> SUFFICES ASSUME Init PROVE IInv
  OBVIOUS
<1>1. TypeOK
  BY InitTyped
<1>2. CallInv
  BY DEF Init, GatewayInit, IdleTurn, NoCall, CallInv, WaitPCs, ReviewPCs, AskedPCs
<1>3. /\ Total(ledger) = 0 /\ NonReview(ledger) = 0 /\ Pending(call) = 0 /\ Sent(call) = 0
      /\ \A r \in Roles : wire[r] = 0 /\ ledger[r] = 0
      /\ closing = 0 /\ bud.started = NotStarted /\ bud.phase = "investigation"
      /\ call.st = "none"
  BY DEF Init, GatewayInit, NewBudget, NoCall, Total, NonReview, Roles, Pending, Sent, Closed
<1>4. InvestigationCalls \in Nat /\ ReviewCalls \in Nat /\ TerminalCalls \in Nat /\ TotalCalls \in Nat
  BY AllocationAssumption DEF TotalCalls
<1>5. LedgerInv
  BY <1>3, <1>4 DEF LedgerInv
<1>6. QED
  BY <1>1, <1>2, <1>5 DEF IInv

-----------------------------------------------------------------------------
(* Steps of the gateway. *)

\* The parent's check reserves the first attempt.
LEMMA InvokeLedger ==
  ASSUME IInv, NEW role \in Roles, Invoke(role), UNCHANGED <<ledger, wire, closing>>,
         bud'.started = bud.started, bud'.phase = bud.phase
  PROVE  LedgerInv'
<1>1. /\ bud \in BudgetType /\ ledger \in Counter /\ wire \in Counter /\ closing \in Nat
      /\ call.st = "none"
  BY DEF IInv, TypeOK, Invoke
<1>2. /\ Total(ledger) \in Nat /\ NonReview(ledger) \in Nat
      /\ Total(ledger) = NonReview(ledger) + ledger["review"]
      /\ \A r \in Roles : ledger[r] \in Nat /\ wire[r] \in Nat
  BY <1>1, Sums
<1>3. Pending(call) = 0 /\ Sent(call) = 0
  BY <1>1 DEF Pending, Sent, Closed
<1>4. ledger["review"] \in Nat
  BY <1>2 DEF Roles
<1>5. CASE Rejection(bud, role, Total(ledger), ledger["review"]) = "admitted"
  <2>1. call'.st = "forked" /\ call'.role = role /\ call'.shared = 0
    BY <1>5 DEF Invoke, NoCall
  <2>2. Pending(call') = 1 /\ Sent(call') = 0
    BY <2>1 DEF Pending, Sent, Closed, Counted
  <2>3. /\ Total(ledger) + 1 <= TotalCalls
        /\ role # "review" => Total(ledger) - ledger["review"] + 1 <= InvestigationCalls + TerminalCalls
    BY <1>1, <1>2, <1>4, <1>5, Unrefused
  <2>4. QED
    BY <1>1, <1>2, <1>3, <1>4, <2>1, <2>2, <2>3 DEF IInv, LedgerInv
<1>6. CASE Rejection(bud, role, Total(ledger), ledger["review"]) # "admitted"
  <2>1. call'.st = "done"
    BY <1>6 DEF Invoke, NoCall
  <2>2. Pending(call') = 0 /\ Sent(call') = 0
    BY <2>1 DEF Pending, Sent, Closed
  <2>3. QED
    BY <1>1, <1>2, <1>3, <2>1, <2>2 DEF IInv, LedgerInv
<1>7. QED
  BY <1>5, <1>6

\* What every case below needs of the state before the step.
LEMMA GatewayFacts ==
  ASSUME IInv
  PROVE  /\ bud \in BudgetType /\ call \in CallType /\ ledger \in Counter /\ wire \in Counter
         /\ closing \in Nat /\ call.role \in Roles /\ call.shared \in 0..MaxAttempts
         /\ call.shared \in Nat /\ bud.started \in Int
         /\ Total(ledger) \in Nat /\ NonReview(ledger) \in Nat /\ ledger["review"] \in Nat
         /\ Total(ledger) = NonReview(ledger) + ledger["review"]
         /\ \A r \in Roles : ledger[r] \in Nat /\ wire[r] \in Nat
         /\ TerminalCalls \in Nat /\ TotalCalls \in Nat /\ InvestigationCalls + TerminalCalls \in Nat
         /\ MaxAttempts \in Nat \ {0}
<1>1. /\ bud \in BudgetType /\ call \in CallType /\ ledger \in Counter /\ wire \in Counter /\ closing \in Nat
  BY DEF IInv, TypeOK
<1>2. call.role \in Roles /\ call.shared \in 0..MaxAttempts /\ MaxAttempts \in Nat \ {0}
  BY <1>1, AttemptAssumption DEF CallType
<1>3. bud.started \in Int
  BY <1>1 DEF BudgetType, NotStarted
<1>4. TerminalCalls \in Nat /\ TotalCalls \in Nat /\ InvestigationCalls + TerminalCalls \in Nat
  BY AllocationAssumption DEF TotalCalls
<1>5. ledger["review"] \in Nat
  BY <1>1, Sums DEF Roles
<1>6. QED
  BY <1>1, <1>2, <1>3, <1>4, <1>5, Sums

\* A call under the phase review is a call of Review, so the closing limit is of the Planner.
LEMMA ClosingRole ==
  ASSUME IInv, call.st # "none", bud.phase = "consolidation"
  PROVE  call.role # "review"
<1>1. turn.pc \in WaitPCs /\ call.role = RoleOf /\ turn.pc \notin ReviewPCs
  BY DEF IInv, CallInv
<1>2. QED
  BY <1>1 DEF WaitPCs, ReviewPCs, RoleOf

\* An admitted attempt fits every limit, counted on top of what its call has used.
LEMMA AdmitLedger ==
  ASSUME IInv, ChildAdmit
  PROVE  LedgerInv'
<1>1. call.st = "forked" /\ UNCHANGED <<bud, ledger, wire, closing>>
  BY DEF ChildAdmit
<1>2. Sent(call) = call.shared /\ Pending(call) = Counted(call)
  BY <1>1 DEF Sent, Pending, Closed
<1>3. Counted(call) \in Nat /\ Counted(call) >= call.shared
  BY GatewayFacts, PendingSent
<1>4. CASE Refusal(call) = "admitted"
  <2>1. call'.st = "locked" /\ call'.role = call.role /\ call'.shared = call.shared
    BY <1>1, <1>4, GatewayFacts DEF ChildAdmit, CallType
  <2>2. Pending(call') = call.shared + 1 /\ Sent(call') = call.shared
    BY <2>1 DEF Pending, Sent, Closed
  <2> DEFINE total == Total(ledger) + call.shared
             reviewed == ledger["review"] + (IF call.role = "review" THEN call.shared ELSE 0)
  <2>3. total \in Nat /\ reviewed \in Nat
    BY GatewayFacts
  <2>4. Rejection(bud, call.role, total, reviewed) = "admitted"
    BY <1>4 DEF Refusal
  <2>5. /\ total + 1 <= TotalCalls
        /\ call.role # "review" => total - reviewed + 1 <= InvestigationCalls + TerminalCalls
        /\ bud.phase = "consolidation" /\ call.role # "review" => total - bud.started + 1 <= TerminalCalls
    <3> HIDE DEF total, reviewed
    <3> QED
      BY <2>3, <2>4, GatewayFacts, Unrefused
  <2>6. bud.phase = "consolidation" => call.role # "review"
    BY <1>1, ClosingRole
  <2>7. QED
    BY <1>1, <1>2, <1>3, <2>1, <2>2, <2>5, <2>6, GatewayFacts DEF IInv, LedgerInv
<1>5. CASE Refusal(call) # "admitted"
  <2>1. call'.st = "replied" /\ call'.role = call.role /\ call'.shared = call.shared
    BY <1>1, <1>5, GatewayFacts DEF ChildAdmit, CallType
  <2>2. Pending(call') = Pending(call) /\ Sent(call') = Sent(call)
    BY <1>2, <2>1 DEF Pending, Sent, Closed, Counted
  <2>3. QED
    BY <1>1, <2>1, <2>2 DEF IInv, LedgerInv
<1>6. QED
  BY <1>4, <1>5

\* Counting changes what is counted and not what is charged or sent.
LEMMA CountLedger ==
  ASSUME IInv, ChildCount
  PROVE  LedgerInv'
<1>1. /\ call.st = "locked" /\ UNCHANGED <<bud, ledger, wire, closing>>
      /\ call'.st = "counted" /\ call'.role = call.role /\ call'.shared = call.shared + 1
  BY GatewayFacts DEF ChildCount, CallType
<1>2. Pending(call') = Pending(call) /\ Sent(call') = Sent(call)
  BY <1>1, GatewayFacts DEF Pending, Sent, Closed, Counted
<1>3. QED
  BY <1>1, <1>2 DEF IInv, LedgerInv

\* What goes out was counted before.
LEMMA SendLedger ==
  ASSUME IInv, ChildSend
  PROVE  LedgerInv'
<1>1. /\ call.st = "counted" /\ UNCHANGED <<bud, ledger>>
      /\ call'.st = "sent" /\ call'.role = call.role /\ call'.shared = call.shared
      /\ wire' = With(wire, call.role, 1)
      /\ closing' = IF bud.phase = "consolidation" THEN closing + 1 ELSE closing
  BY GatewayFacts DEF ChildSend, CallType, With
<1>2. call.shared >= 1
  BY <1>1 DEF IInv, CallInv
<1>3. Pending(call') = Pending(call) /\ Sent(call) = call.shared - 1 /\ Sent(call') = call.shared
  BY <1>1 DEF Pending, Sent, Closed, Counted
<1>4. \A r \in Roles : wire'[r] = wire[r] + (IF r = call.role THEN 1 ELSE 0)
  <2>1. wire \in Counter /\ call.role \in Roles
    BY GatewayFacts
  <2>2. \A r \in Roles : With(wire, call.role, 1)[r] = wire[r] + (IF r = call.role THEN 1 ELSE 0)
    BY <2>1, WithSums
  <2>3. QED
    BY <1>1, <2>2
<1>5. bud.phase = "consolidation" => closing + 1 <= TerminalCalls
  <2> SUFFICES ASSUME bud.phase = "consolidation" PROVE closing + 1 <= TerminalCalls
    OBVIOUS
  <2>1. bud.started # NotStarted /\ closing <= Total(ledger) + call.shared - 1 - bud.started
    BY <1>3, GatewayFacts DEF IInv, LedgerInv
  <2>2. Pending(call) = call.shared /\ Total(ledger) + Pending(call) - bud.started <= TerminalCalls
    BY <1>1, <1>2 DEF Pending, Closed, Counted, IInv, LedgerInv
  <2>3. QED
    BY <2>1, <2>2, GatewayFacts
<1>6. QED
  BY <1>1, <1>2, <1>3, <1>4, <1>5, GatewayFacts DEF IInv, LedgerInv

\* Between attempts and after the last the charge stands.
LEMMA WaitLedger ==
  ASSUME IInv, ChildRetry \/ ChildReply
  PROVE  LedgerInv'
<1>1. /\ call.st = "sent" /\ UNCHANGED <<bud, ledger, wire, closing>>
      /\ call'.st \in {"forked", "replied"} /\ call'.role = call.role /\ call'.shared = call.shared
  BY GatewayFacts DEF ChildRetry, ChildReply, CallType
<1>2. Pending(call') = Pending(call) /\ Sent(call') = Sent(call)
  BY <1>1, GatewayFacts DEF Pending, Sent, Closed, Counted
<1>3. QED
  BY <1>1, <1>2 DEF IInv, LedgerInv

\* The record takes over the charge of its call.
LEMMA ChargeLedger ==
  ASSUME IInv, call.st \in {"forked", "sent", "replied"}, ledger' = Charged, call'.st = "done",
         UNCHANGED <<bud, wire, closing>>
  PROVE  LedgerInv'
<1>1. Charged = With(ledger, call.role, Counted(call))
  BY DEF Charged, With
<1>2. Counted(call) \in Nat /\ Counted(call) >= call.shared
  BY GatewayFacts, PendingSent
<1>3. /\ Total(ledger') = Total(ledger) + Counted(call)
      /\ NonReview(ledger') = NonReview(ledger) + (IF call.role = "review" THEN 0 ELSE Counted(call))
      /\ \A r \in Roles : ledger'[r] = ledger[r] + (IF r = call.role THEN Counted(call) ELSE 0)
  <2> DEFINE n == Counted(call)
  <2>1. ledger \in Counter /\ call.role \in Roles /\ n \in Nat /\ ledger' = With(ledger, call.role, n)
    BY <1>1, <1>2, GatewayFacts
  <2> HIDE DEF n
  <2>2. /\ Total(With(ledger, call.role, n)) = Total(ledger) + n
        /\ NonReview(With(ledger, call.role, n)) = NonReview(ledger) + (IF call.role = "review" THEN 0 ELSE n)
        /\ \A r \in Roles : With(ledger, call.role, n)[r] = ledger[r] + (IF r = call.role THEN n ELSE 0)
    BY <2>1, WithSums
  <2>3. /\ Total(ledger') = Total(ledger) + n
        /\ NonReview(ledger') = NonReview(ledger) + (IF call.role = "review" THEN 0 ELSE n)
        /\ \A r \in Roles : ledger'[r] = ledger[r] + (IF r = call.role THEN n ELSE 0)
    BY <2>1, <2>2 DEF Total, NonReview
  <2>4. QED
    BY <2>3 DEF n
<1>4. Pending(call) = Counted(call) /\ Sent(call) = call.shared /\ Pending(call') = 0 /\ Sent(call') = 0
  BY DEF Pending, Sent, Closed
<1>5. QED
  BY <1>2, <1>3, <1>4, GatewayFacts DEF IInv, LedgerInv

\* A killed child charges what it counted, or holds the lock for good.
LEMMA KillLedger ==
  ASSUME IInv, Kill
  PROVE  LedgerInv'
<1>1. CASE call.st \in {"locked", "counted"}
  <2>1. /\ UNCHANGED <<bud, ledger, wire, closing>>
        /\ call'.st = "stuck" /\ call'.role = call.role /\ call'.shared = call.shared
    BY <1>1, GatewayFacts DEF Kill, CallType
  <2>2. /\ Pending(call') \in Nat /\ Pending(call') <= Pending(call)
        /\ Sent(call') = call.shared /\ Sent(call) \in Nat /\ Sent(call) <= Sent(call')
        /\ Pending(call) \in Nat
    BY <1>1, <2>1, GatewayFacts DEF Pending, Sent, Closed, Counted, IInv, CallInv
  <2>3. QED
    BY <2>1, <2>2, GatewayFacts DEF IInv, LedgerInv
<1>2. CASE call.st \in {"forked", "sent"}
  <2>1. ledger' = Charged /\ call'.st = "done" /\ UNCHANGED <<bud, wire, closing>>
    BY <1>2, GatewayFacts DEF Kill, CallType
  <2>2. QED
    BY <1>2, <2>1, ChargeLedger
<1>3. QED
  BY <1>1, <1>2 DEF Kill, Alive

\* The shape of a call through the steps of the gateway.
LEMMA GatewayCall ==
  ASSUME IInv, GatewayStep, UNCHANGED runVars
  PROVE  /\ call' \in CallType /\ call.st \notin Closed /\ call'.st # "none" /\ call'.role = call.role
         /\ call'.st \in {"forked", "locked"} => call'.shared < MaxAttempts
         /\ call'.st \in {"counted", "sent"} => call'.shared >= 1
         /\ ledger' \in Counter /\ wire' \in Counter /\ closing' \in Nat /\ unread' \in UsageType
         /\ bud' = bud
<1>1. /\ ledger \in Counter /\ wire \in Counter /\ closing \in Nat /\ unread \in UsageType
      /\ call \in CallType /\ MaxAttempts \in Nat \ {0} /\ call.role \in Roles
      /\ call.st \in {"forked", "locked"} => call.shared < MaxAttempts
      /\ call.st \in {"counted", "sent"} => call.shared >= 1
  BY GatewayFacts DEF IInv, TypeOK, CallInv
<1>2. Charged \in Counter
  <2>1. Counted(call) \in Nat
    BY GatewayFacts, PendingSent
  <2>2. QED
    BY <1>1, <2>1 DEF Charged, Counter
<1>3. CASE ChildAdmit
  BY <1>1, <1>3 DEF ChildAdmit, CallType, CallStates, Outcomes, Closed
<1>4. CASE ChildCount
  <2>1. call.st = "locked" /\ call.shared + 1 \in 0..MaxAttempts /\ call.shared \in Nat
    BY <1>1, <1>4, GatewayFacts DEF ChildCount
  <2>2. call' \in CallType /\ call'.st = "counted" /\ call'.shared = call.shared + 1 /\ call'.role = call.role
    BY <1>1, <1>4, <2>1 DEF ChildCount, CallType, CallStates
  <2>3. QED
    BY <1>1, <1>4, <2>1, <2>2 DEF ChildCount, Closed
<1>5. CASE ChildSend
  <2>1. wire' = With(wire, call.role, 1)
    BY <1>5 DEF ChildSend, With
  <2>2. wire' \in Counter
    BY <1>1, <2>1, WithSums
  <2>3. QED
    BY <1>1, <1>5, <2>2 DEF ChildSend, CallType, CallStates, Closed
<1>6. CASE ChildRetry \/ ChildReply
  BY <1>1, <1>6 DEF ChildRetry, ChildReply, CallType, CallStates, Outcomes, Closed
<1>7. CASE Collect
  <2>1. PICK u \in Usages \union {NoUsage} : unread' = [unread EXCEPT ![call.role] = AddUsages(@, u)]
    BY <1>7 DEF Collect
  <2>2. u.p \in Nat /\ u.t \in Nat
    BY <2>1, UsageAssumption DEF NoUsage
  <2>3. AddUsages(unread[call.role], u) \in [p : Nat, t : Nat]
    BY <1>1, <2>2 DEF AddUsages, UsageType
  <2>4. unread' \in UsageType
    BY <1>1, <2>1, <2>3 DEF UsageType
  <2>5. QED
    BY <1>1, <1>2, <1>7, <2>4 DEF Collect, CallType, CallStates, Closed
<1>8. CASE Kill
  BY <1>1, <1>2, <1>8 DEF Kill, Alive, CallType, CallStates, Outcomes, Closed
<1>9. QED
  BY <1>3, <1>4, <1>5, <1>6, <1>7, <1>8 DEF GatewayStep, ChildStep

LEMMA GatewayInv ==
  ASSUME IInv, GatewayStep, UNCHANGED runVars
  PROVE  IInv'
<1>1. LedgerInv'
  <2>1. CASE Collect
    <3>1. /\ call.st = "replied" /\ call'.st = "done" /\ ledger' = Charged
          /\ UNCHANGED <<bud, wire, closing>>
      BY <2>1, GatewayFacts DEF Collect, CallType
    <3>2. QED
      BY <3>1, ChargeLedger
  <2>2. QED
    BY <2>1, AdmitLedger, CountLedger, SendLedger, WaitLedger, KillLedger DEF GatewayStep, ChildStep
<1>2. TypeOK'
  BY GatewayCall DEF IInv, TypeOK, runVars
<1>3. CallInv'
  BY GatewayCall DEF IInv, CallInv, RoleOf, runVars, Closed
<1>4. QED
  BY <1>1, <1>2, <1>3 DEF IInv

-----------------------------------------------------------------------------
(* Budget and usage *)

LEMMA OverNat ==
  ASSUME NEW n \in Nat, NEW k \in Nat
  PROVE  Over(n, k) \in Nat
BY DEF Over

LEMMA UsageSet ==
  ASSUME NEW b \in BudgetType, NEW tokens \in Nat, NEW calls \in Nat
  PROVE  /\ SetRunUsage(b, tokens, calls) \in BudgetType
         /\ SetRunUsage(b, tokens, calls).phase = b.phase
         /\ SetRunUsage(b, tokens, calls).started = b.started
BY DEF SetRunUsage, BudgetType

LEMMA ConsolidationSet ==
  ASSUME NEW b \in BudgetType, NEW n \in Nat
  PROVE  /\ BeginConsolidation(b, n) \in BudgetType
         /\ BeginConsolidation(b, n).phase = "consolidation"
         /\ BeginConsolidation(b, n).started = IF b.started = NotStarted THEN n ELSE b.started
BY DEF BeginConsolidation, BudgetType, LifecyclePhases

LEMMA ReviewSet ==
  ASSUME NEW b \in BudgetType, NEW tokens \in Nat, NEW calls \in Nat
  PROVE  /\ BeginReview(b, tokens, calls) \in BudgetType
         /\ BeginReview(b, tokens, calls).phase = "review"
         /\ BeginReview(b, tokens, calls).started = b.started
<1>1. HandoffTokens(b, tokens) \in Nat /\ HandoffCalls(b, calls) \in Nat
  BY OverNat DEF HandoffTokens, HandoffCalls, BudgetType
<1>2. QED
  BY <1>1 DEF BeginReview, BudgetType, LifecyclePhases

LEMMA RecoverySet ==
  ASSUME NEW b \in BudgetType, NEW tokens \in Nat, NEW calls \in Nat
  PROVE  /\ BeginRecovery(b, tokens, calls) \in BudgetType
         /\ BeginRecovery(b, tokens, calls).phase = "investigation_recovery"
         /\ BeginRecovery(b, tokens, calls).started = b.started
<1>1. Over(tokens, b.heldTokens) \in Nat /\ Over(calls, b.heldCalls) \in Nat
  BY OverNat DEF BudgetType
<1>2. QED
  BY <1>1 DEF BeginRecovery, BudgetType, LifecyclePhases

LEMMA AcctSet ==
  ASSUME NEW a \in AcctType
  PROVE  /\ Tokens(a) \in Nat /\ a.logical \in Nat /\ a.reviews \in Nat
         /\ CountCall(a) \in AcctType /\ UncountCall(a) \in AcctType
<1>1. Tokens(a) \in Nat
  BY DEF AcctType, Counter, Tokens, Roles
<1>2. QED
  BY <1>1 DEF AcctType, CountCall, UncountCall, Less

\* Publishing reads the records of one role and leaves the phase alone.
LEMMA PublishedSet ==
  ASSUME TypeOK, NEW role \in Roles, NEW a \in AcctType, NEW b \in BudgetType, Published(role, a, b)
  PROVE  /\ acct' \in AcctType /\ unread' \in UsageType /\ bud' \in BudgetType
         /\ bud'.phase = b.phase /\ bud'.started = b.started
         /\ Publish(role, a) \in AcctType
<1>1. unread[role].p \in Nat /\ unread[role].t \in Nat
  BY DEF TypeOK, UsageType
<1>2. Publish(role, a) \in AcctType
  <2> DEFINE p == unread[role].p
             t == unread[role].t
             spent == [a.spent EXCEPT ![role] = @ + t]
  <2>1. a.prompt + p \in Nat /\ a.spent \in Counter
    BY <1>1 DEF AcctType
  <2>2. spent \in Counter
    BY <1>1, <2>1 DEF Counter
  <2>3. Publish(role, a) = [a EXCEPT !.prompt = a.prompt + p, !.spent = spent]
    BY DEF Publish, AcctType
  <2> HIDE DEF p, spent
  <2>4. QED
    BY <2>1, <2>2, <2>3 DEF AcctType
<1>3. Tokens(Publish(role, a)) \in Nat /\ a.logical \in Nat
  BY <1>2, AcctSet
<1>4. unread' \in UsageType
  BY DEF Published, TypeOK, UsageType, NoUsage
<1>5. QED
  BY <1>2, <1>3, <1>4, UsageSet DEF Published

-----------------------------------------------------------------------------
(* Steps of the roles *)

\* The rest of the state after a step, typed.
NextTyped == bud' \in BudgetType /\ acct' \in AcctType /\ unread' \in UsageType
             /\ turn' \in TurnType /\ run' \in RunType

\* A call that is over is put away.
Quiet == call' = call \/ (call.st \in Closed /\ call' = NoCall)

LEMMA QuietLedger ==
  ASSUME IInv, KeepGateway, Quiet, bud'.started = bud.started,
         \/ bud'.phase = bud.phase
         \/ call.st \in Closed /\ bud'.phase \in {"review", "investigation_recovery"}
  PROVE  LedgerInv'
<1>1. Pending(call') = Pending(call) /\ Sent(call') = Sent(call)
  BY DEF Quiet, Pending, Sent, Closed, NoCall
<1>2. call' = call \/ (Pending(call) = 0 /\ Sent(call) = 0 /\ call'.st = "none")
  BY DEF Quiet, Pending, Sent, Closed, NoCall
<1>3. UNCHANGED <<ledger, wire, closing>>
  BY DEF KeepGateway
<1>4. \A r \in Roles : wire'[r] <= ledger'[r] + (IF r = call'.role THEN Sent(call') ELSE 0)
  BY <1>1, <1>2, <1>3, GatewayFacts DEF IInv, LedgerInv
<1>5. NonReview(ledger') + (IF call'.role = "review" THEN 0 ELSE Pending(call'))
        <= InvestigationCalls + TerminalCalls
  BY <1>1, <1>2, <1>3, GatewayFacts DEF IInv, LedgerInv
<1>6. bud'.phase = "consolidation" /\ call'.st \in {"locked", "counted"} =>
        Total(ledger') + Pending(call') - bud'.started <= TerminalCalls
  BY <1>1, <1>2, <1>3 DEF IInv, LedgerInv
<1>7. QED
  BY <1>1, <1>3, <1>4, <1>5, <1>6 DEF IInv, LedgerInv

\* Consolidation begins with nothing sent in it, or goes on where it was.
LEMMA ConsolidationLedger ==
  ASSUME IInv, KeepGateway, call' = call, call.st = "none", bud'.phase = "consolidation",
         bud'.started = IF bud.started = NotStarted THEN Total(ledger) ELSE bud.started
  PROVE  LedgerInv'
<1>1. UNCHANGED <<ledger, wire, closing>> /\ bud'.started # NotStarted
  BY GatewayFacts DEF KeepGateway, NotStarted
<1>2. closing <= Total(ledger) + Sent(call) - bud'.started
  BY GatewayFacts DEF IInv, LedgerInv, Sent, Closed
<1>3. QED
  BY <1>1, <1>2 DEF IInv, LedgerInv

\* A role step: the types, the ledger and where the turn goes give the invariant.
LEMMA RoleInv ==
  ASSUME IInv, KeepGateway, NextTyped, LedgerInv',
         \/ call' = call /\ turn.pc \notin WaitPCs
         \/ call' = NoCall,
         turn'.pc \notin WaitPCs,
         turn'.pc \in ReviewPCs => bud'.phase = "review",
         turn'.pc \in AskedPCs => turn'.asked >= 1
  PROVE  IInv'
<1>1. NoCall \in CallType /\ NoCall.st = "none"
  BY AttemptAssumption DEF NoCall, CallType, CallStates, Roles, Outcomes
<1>2. call' \in CallType /\ call'.st = "none"
  BY <1>1 DEF IInv, TypeOK, CallInv
<1>3. TypeOK'
  BY <1>2 DEF IInv, TypeOK, NextTyped, KeepGateway
<1>4. CallInv'
  BY <1>2 DEF CallInv
<1>5. QED
  BY <1>3, <1>4 DEF IInv

\* Moves of the turn, typed.
LEMMA TurnSet ==
  ASSUME TypeOK, NEW pc \in PCs
  PROVE  /\ [IdleTurn EXCEPT !.pc = pc] \in TurnType
         /\ [IdleTurn EXCEPT !.pc = pc].pc = pc
         /\ [turn EXCEPT !.pc = pc] \in TurnType
         /\ [turn EXCEPT !.pc = pc].pc = pc
         /\ [turn EXCEPT !.pc = pc].asked = turn.asked
         /\ [IdleTurn EXCEPT !.pc = "after", !.triggers = turn.triggers] \in TurnType
<1>1. IdleTurn \in TurnType
  BY TurnAssumption DEF IdleTurn, TurnType, PCs
<1>2. turn \in TurnType /\ turn.triggers \in 0..TriggersPerTurn /\ "after" \in PCs
  BY DEF TypeOK, TurnType, PCs
<1>3. \A x \in TurnType : /\ [x EXCEPT !.pc = pc] \in TurnType
                          /\ [x EXCEPT !.pc = pc].pc = pc /\ [x EXCEPT !.pc = pc].asked = x.asked
  BY DEF TurnType
<1>4. [IdleTurn EXCEPT !.pc = "after", !.triggers = turn.triggers] \in TurnType
  BY <1>1, <1>2 DEF TurnType
<1>5. QED
  BY <1>1, <1>2, <1>3, <1>4

\* A step out of the turn, or on to a state that needs no more: usage may be published.
Plain == {"head", "ask", "readmit", "after", "candidate", "reflectAsk", "report", "ended"}
LEMMA PlainInv ==
  ASSUME IInv, KeepGateway, NextTyped, Quiet, call' = NoCall \/ turn.pc \notin WaitPCs,
         turn'.pc \in Plain, bud'.started = bud.started, bud'.phase = bud.phase
  PROVE  IInv'
<1>1. LedgerInv'
  BY QuietLedger
<1>2. turn'.pc \notin WaitPCs /\ turn'.pc \notin ReviewPCs /\ turn'.pc \notin AskedPCs
  BY DEF Plain, WaitPCs, ReviewPCs, AskedPCs
<1>3. call' = NoCall \/ (call' = call /\ turn.pc \notin WaitPCs)
  BY DEF Quiet
<1>4. QED
  BY <1>1, <1>2, <1>3, RoleInv

-----------------------------------------------------------------------------
(* Planner turns *)

LEMMA RoleTypes ==
  ASSUME IInv
  PROVE  /\ TypeOK /\ bud \in BudgetType /\ acct \in AcctType /\ unread \in UsageType
         /\ turn \in TurnType /\ run \in RunType /\ bud.phase \in LifecyclePhases
         /\ {"planner", "reflection", "review"} \subseteq Roles /\ Tokens(acct) \in Nat
         /\ acct.logical \in Nat /\ acct.reviews \in Nat
         /\ CountCall(acct) \in AcctType /\ UncountCall(acct) \in AcctType
BY AcctSet DEF IInv, TypeOK, BudgetType, Roles

\* Leaving the turn with the records of a role published, the call put away.
LEMMA PublishedOut ==
  ASSUME IInv, KeepGateway, Quiet, call' = NoCall \/ turn.pc \notin WaitPCs,
         NEW role \in Roles, NEW a \in AcctType, NEW b \in BudgetType, Published(role, a, b),
         b.phase = bud.phase, b.started = bud.started,
         turn' \in TurnType, turn'.pc \in Plain, run' \in RunType
  PROVE  IInv'
<1>1. /\ acct' \in AcctType /\ unread' \in UsageType /\ bud' \in BudgetType
      /\ bud'.phase = bud.phase /\ bud'.started = bud.started
  BY RoleTypes, PublishedSet
<1>2. NextTyped
  BY <1>1 DEF NextTyped
<1>3. QED
  BY <1>1, <1>2, PlainInv

LEMMA LeaveSet ==
  ASSUME IInv
  PROVE  /\ \A pc \in PCs : Leave(pc) => turn' \in TurnType /\ turn'.pc = pc
         /\ \A pc \in PCs : Goto(pc) => turn' \in TurnType /\ turn'.pc = pc /\ turn'.asked = turn.asked
         /\ Resume => turn' \in TurnType /\ turn'.pc = "after"
         /\ Inconclusive => turn' \in TurnType /\ turn'.pc \in {"ended", "report"}
         /\ Stop \/ Done => turn' \in TurnType /\ turn'.pc \in {"ended", "report"} /\ run' \in RunType
         /\ Plain \subseteq PCs
<1>1. TypeOK /\ run \in RunType /\ Plain \subseteq PCs
  BY RoleTypes DEF Plain, PCs
<1>2. \A pc \in PCs : Leave(pc) => turn' \in TurnType /\ turn'.pc = pc
  BY <1>1, TurnSet DEF Leave
<1>3. \A pc \in PCs : Goto(pc) => turn' \in TurnType /\ turn'.pc = pc /\ turn'.asked = turn.asked
  <2> SUFFICES ASSUME NEW pc \in PCs, Goto(pc)
               PROVE  turn' \in TurnType /\ turn'.pc = pc /\ turn'.asked = turn.asked
    OBVIOUS
  <2>1. /\ [turn EXCEPT !.pc = pc] \in TurnType /\ [turn EXCEPT !.pc = pc].pc = pc
        /\ [turn EXCEPT !.pc = pc].asked = turn.asked
    BY <1>1, TurnSet
  <2>2. turn' = [turn EXCEPT !.pc = pc]
    BY DEF Goto
  <2>3. QED
    BY <2>1, <2>2
<1>4. Resume => turn' \in TurnType /\ turn'.pc = "after"
  <2>1. [IdleTurn EXCEPT !.pc = "after", !.triggers = turn.triggers] \in TurnType
    BY <1>1, TurnSet DEF PCs
  <2>2. QED
    BY <2>1 DEF Resume, IdleTurn
<1>5. Inconclusive => turn' \in TurnType /\ turn'.pc \in {"ended", "report"}
  BY <1>2 DEF Inconclusive, PCs
<1>6. Stop \/ Done => turn' \in TurnType /\ turn'.pc \in {"ended", "report"} /\ run' \in RunType
  BY <1>1, <1>2, <1>5 DEF Stop, Done, PCs
<1>7. QED
  BY <1>1, <1>2, <1>3, <1>4, <1>5, <1>6

\* Every action that ends a Planner turn after its answer.
LEMMA PlannerOut ==
  ASSUME IInv, PlannerContextEnd \/ PlannerExhausted \/ PlannerFailed \/ PlannerCommit
  PROVE  IInv'
<1>1. /\ KeepGateway /\ call.st = "done" /\ call' = NoCall /\ Published("planner", acct, bud)
      /\ turn.pc = "wait"
  BY DEF PlannerContextEnd, PlannerExhausted, PlannerFailed, PlannerCommit, PlannerDone, EndCall
<1>2. turn' \in TurnType /\ turn'.pc \in Plain /\ run' \in RunType
  <2>1. CASE Stop \/ Done
    BY <2>1, LeaveSet DEF Plain
  <2>2. CASE Leave("candidate") /\ UNCHANGED run
    BY <2>2, LeaveSet, RoleTypes DEF Plain, PCs
  <2>3. CASE PlannerCommit
    <3>1. PICK ready \in BOOLEAN :
            /\ run' = [run EXCEPT !.ready = ready, !.hypothesis = TRUE]
            /\ Leave(IF Exceeds("planner", acct) THEN "ended" ELSE IF ready THEN "candidate" ELSE "after")
      BY <2>3 DEF PlannerCommit
    <3>2. run' \in RunType
      BY <3>1, RoleTypes DEF RunType
    <3>3. QED
      BY <3>1, <3>2, LeaveSet DEF Plain, PCs
  <2>4. QED
    BY <2>1, <2>2, <2>3 DEF PlannerContextEnd, PlannerExhausted, PlannerFailed
<1>3. Quiet /\ "planner" \in Roles /\ acct \in AcctType /\ bud \in BudgetType
  BY <1>1, RoleTypes DEF Quiet, Closed
<1>4. QED
  BY <1>1, <1>2, <1>3, PublishedOut

LEMMA ContextInv ==
  ASSUME IInv, PlannerContext
  PROVE  IInv'
<1>1. /\ KeepGateway /\ call.st = "done" /\ call' = NoCall /\ Published("planner", acct, bud)
  BY DEF PlannerContext, PlannerDone, EndCall
<1>2. turn' \in TurnType /\ turn'.pc \in Plain /\ run' \in RunType
  <2>1. CASE Stop
    BY <2>1, LeaveSet DEF Plain
  <2>2. CASE turn' = [turn EXCEPT !.pc = "readmit", !.rounds = @ + 1, !.targeted = FALSE] /\ UNCHANGED run
    <3>1. turn.rounds + 1 \in 0..ContextRounds
      BY RoleTypes, TurnAssumption DEF PlannerContext, TurnType
    <3>2. QED
      BY <2>2, <3>1, RoleTypes DEF TurnType, PCs, Plain
  <2>3. QED
    BY <2>1, <2>2 DEF PlannerContext
<1>3. Quiet /\ "planner" \in Roles /\ acct \in AcctType /\ bud \in BudgetType
  BY <1>1, RoleTypes DEF Quiet, Closed
<1>4. QED
  BY <1>1, <1>2, <1>3, PublishedOut

LEMMA RepairInv ==
  ASSUME IInv, PlannerRepair
  PROVE  IInv'
<1>1. KeepGateway /\ call.st = "done" /\ call' = NoCall /\ UNCHANGED <<bud, unread, acct, run>>
  BY DEF PlannerRepair, PlannerDone, EndCall
<1>2. turn' \in TurnType /\ turn'.pc = "readmit"
  BY RoleTypes DEF PlannerRepair, TurnType, PCs
<1>3. NextTyped /\ Quiet /\ turn'.pc \in Plain
  BY <1>1, <1>2, RoleTypes DEF NextTyped, Quiet, Closed, Plain
<1>4. QED
  BY <1>1, <1>3, PlainInv

\* A refused turn: nothing is kept of it but its usage.
LEMMA RefusedInv ==
  ASSUME IInv, KeepGateway, call' = call, turn.pc \notin WaitPCs, NEW why, NEW b \in BudgetType,
         TurnRefused(why, b), b.phase = bud.phase, b.started = bud.started
  PROVE  IInv'
<1> DEFINE a == IF why = "terminal_reserve_protected" THEN UncountCall(acct) ELSE acct
<1>1. a \in AcctType /\ Quiet /\ "planner" \in Roles
  BY RoleTypes DEF Quiet
<1>2. Published("planner", a, b)
  BY DEF TurnRefused
<1>3. (Leave("candidate") /\ UNCHANGED run) \/ Stop
  BY DEF TurnRefused
<1>4. turn' \in TurnType /\ turn'.pc \in Plain /\ run' \in RunType
  BY <1>3, LeaveSet, RoleTypes DEF Plain, PCs
<1> HIDE DEF a
<1>5. QED
  BY <1>1, <1>2, <1>4, PublishedOut

\* The same when consolidation has just begun.
LEMMA RefusedClosing ==
  ASSUME IInv, KeepGateway, call' = call, turn.pc = "head", NEW why, NEW b \in BudgetType,
         TurnRefused(why, b), b.phase = "consolidation",
         b.started = IF bud.started = NotStarted THEN Total(ledger) ELSE bud.started
  PROVE  IInv'
<1> DEFINE a == IF why = "terminal_reserve_protected" THEN UncountCall(acct) ELSE acct
<1>1. a \in AcctType /\ "planner" \in Roles /\ call.st = "none" /\ turn.pc \notin WaitPCs
  BY RoleTypes DEF IInv, CallInv, WaitPCs
<1>2. Published("planner", a, b)
  BY DEF TurnRefused
<1>3. (Leave("candidate") /\ UNCHANGED run) \/ Stop
  BY DEF TurnRefused
<1>4. turn' \in TurnType /\ turn'.pc \in {"candidate", "report", "ended"} /\ run' \in RunType
  BY <1>3, LeaveSet, RoleTypes DEF PCs
<1> HIDE DEF a
<1>5. /\ acct' \in AcctType /\ unread' \in UsageType /\ bud' \in BudgetType
      /\ bud'.phase = b.phase /\ bud'.started = b.started
  BY <1>1, <1>2, RoleTypes, PublishedSet
<1>6. LedgerInv'
  BY <1>1, <1>5, ConsolidationLedger
<1>7. NextTyped
  BY <1>4, <1>5 DEF NextTyped
<1>8. turn'.pc \notin WaitPCs /\ turn'.pc \notin ReviewPCs /\ turn'.pc \notin AskedPCs
  BY <1>4 DEF WaitPCs, ReviewPCs, AskedPCs
<1>9. QED
  BY <1>1, <1>6, <1>7, <1>8, RoleInv

LEMMA StartInv ==
  ASSUME IInv, StartTurn
  PROVE  IInv'
<1>1. PICK close \in BOOLEAN, projection \in BOOLEAN :
        LET b == IF close THEN BeginConsolidation(bud, Total(ledger)) ELSE bud
            why == Admission("planner", b, acct, FALSE)
        IN  IF why = "admitted"
            THEN /\ acct' = CountCall(acct) /\ bud' = Admitted(b, acct)
                 /\ turn' = [turn EXCEPT !.pc = "ask", !.asked = 0, !.rounds = 0, !.retried = FALSE,
                                         !.projection = projection, !.triggers = 0]
                 /\ UNCHANGED <<unread, run>>
            ELSE TurnRefused(why, b)
  BY DEF StartTurn
<1> DEFINE b == IF close THEN BeginConsolidation(bud, Total(ledger)) ELSE bud
           why == Admission("planner", b, acct, FALSE)
<1>2. turn.pc = "head" /\ call' = call /\ KeepGateway /\ call.st = "none" /\ turn.pc \notin WaitPCs
  BY DEF StartTurn, IInv, CallInv, WaitPCs
<1>3. /\ b \in BudgetType
      /\ close => /\ b.phase = "consolidation"
                  /\ b.started = IF bud.started = NotStarted THEN Total(ledger) ELSE bud.started
      /\ ~close => b = bud
  BY RoleTypes, GatewayFacts, ConsolidationSet
<1>4. IF why = "admitted"
      THEN /\ acct' = CountCall(acct) /\ bud' = Admitted(b, acct)
           /\ turn' = [turn EXCEPT !.pc = "ask", !.asked = 0, !.rounds = 0, !.retried = FALSE,
                                   !.projection = projection, !.triggers = 0]
           /\ UNCHANGED <<unread, run>>
      ELSE TurnRefused(why, b)
  BY <1>1
<1> HIDE DEF b, why
<1>5. CASE why = "admitted"
  <2>1. turn' \in TurnType /\ turn'.pc = "ask"
    <3>1. turn \in TurnType /\ 0 \in 0..ContextRounds /\ 0 \in 0..TriggersPerTurn
      BY RoleTypes, TurnAssumption
    <3>2. turn' = [turn EXCEPT !.pc = "ask", !.asked = 0, !.rounds = 0, !.retried = FALSE,
                               !.projection = projection, !.triggers = 0]
      BY <1>4, <1>5
    <3>3. QED
      BY <3>1, <3>2 DEF TurnType, PCs
  <2>2. bud' \in BudgetType /\ bud'.phase = b.phase /\ bud'.started = b.started
    <3>1. Tokens(acct) \in Nat /\ acct.logical \in Nat
      BY RoleTypes
    <3>2. bud' = SetRunUsage(b, Tokens(acct), acct.logical)
      BY <1>4, <1>5 DEF Admitted
    <3>3. QED
      BY <1>3, <3>1, <3>2, UsageSet
  <2>3. NextTyped
    BY <1>4, <1>5, <2>1, <2>2, RoleTypes DEF NextTyped
  <2>4. LedgerInv'
    <3>1. CASE close
      BY <1>2, <1>3, <2>2, <3>1, ConsolidationLedger
    <3>2. CASE ~close
      BY <1>2, <1>3, <2>2, <3>2, QuietLedger DEF Quiet
    <3>3. QED
      BY <3>1, <3>2
  <2>5. turn'.pc \notin WaitPCs /\ turn'.pc \notin ReviewPCs /\ turn'.pc \notin AskedPCs
    BY <2>1 DEF WaitPCs, ReviewPCs, AskedPCs
  <2>6. QED
    BY <1>2, <2>3, <2>4, <2>5, RoleInv
<1>6. CASE why # "admitted"
  <2>1. TurnRefused(why, b)
    BY <1>4, <1>6
  <2>2. CASE close
    BY <1>2, <1>3, <2>1, <2>2, RefusedClosing
  <2>3. CASE ~close
    BY <1>2, <1>3, <2>1, <2>3, RefusedInv
  <2>4. QED
    BY <2>2, <2>3
<1>7. QED
  BY <1>5, <1>6

\* The figures of a request leave the phase alone.
LEMMA RequestSet ==
  ASSUME IInv
  PROVE  /\ RequestBudget \in BudgetType /\ RequestBudget.phase = bud.phase
         /\ RequestBudget.started = bud.started
         /\ Admitted(bud, acct) \in BudgetType /\ Admitted(bud, acct).phase = bud.phase
         /\ Admitted(bud, acct).started = bud.started
<1>1. UnreadTokens \in Nat
  BY RoleTypes DEF UsageType, UnreadTokens, Roles
<1>2. /\ Tokens(acct) \in Nat /\ acct.logical \in Nat /\ Total(ledger) \in Nat
      /\ Tokens(acct) + UnreadTokens \in Nat /\ bud \in BudgetType
  BY <1>1, RoleTypes, GatewayFacts
<1>3. QED
  BY <1>2, UsageSet DEF RequestBudget, Admitted

\* An invocation is on its way, and the turn waits.
LEMMA AskInv ==
  ASSUME IInv, KeepGateway, call' = call, turn.pc \notin WaitPCs, UNCHANGED <<unread, acct, run>>,
         NEW pc \in {"invoke", "reflectInvoke", "reviewInvoke"},
         turn' = [turn EXCEPT !.pc = pc, !.asked = @ + 1],
         bud' \in BudgetType, bud'.phase = bud.phase, bud'.started = bud.started,
         pc = "reviewInvoke" => bud.phase = "review"
  PROVE  IInv'
<1>1. turn' \in TurnType /\ turn'.pc = pc /\ turn'.asked >= 1
  <2>1. pc \in PCs /\ turn \in TurnType
    BY RoleTypes DEF PCs
  <2>2. turn.asked + 1 \in Nat /\ turn.asked + 1 >= 1
    BY <2>1 DEF TurnType
  <2>3. turn' = [turn EXCEPT !.pc = pc, !.asked = turn.asked + 1]
    OBVIOUS
  <2>4. QED
    BY <2>1, <2>2, <2>3 DEF TurnType
<1>2. NextTyped
  BY <1>1, RoleTypes DEF NextTyped
<1>3. LedgerInv'
  BY QuietLedger DEF Quiet
<1>4. turn'.pc \notin WaitPCs /\ (turn'.pc \in ReviewPCs => bud'.phase = "review")
  BY <1>1 DEF WaitPCs, ReviewPCs
<1>5. QED
  BY <1>1, <1>2, <1>3, <1>4, RoleInv

LEMMA PlannerAskInv ==
  ASSUME IInv, PlannerAsk
  PROVE  IInv'
<1> DEFINE b == RequestBudget
<1>1. /\ turn.pc = "ask" /\ turn.pc \notin WaitPCs
      /\ b \in BudgetType /\ b.phase = bud.phase /\ b.started = bud.started
  BY RequestSet DEF PlannerAsk, WaitPCs
<1>2. CASE TurnRefused("terminal_reserve_protected", b) /\ call' = call /\ KeepGateway
  <2> HIDE DEF b
  <2>1. QED
    BY <1>1, <1>2, RefusedInv
<1>3. CASE /\ bud' = [b EXCEPT !.projected = @ \/ Borrows(b, "planner", turn.projection)]
           /\ turn' = [turn EXCEPT !.pc = "invoke", !.asked = @ + 1]
           /\ UNCHANGED <<ledger, unread, call, wire, closing, acct, run>>
  <2>1. /\ bud' = [b EXCEPT !.projected = @ \/ Borrows(b, "planner", turn.projection)]
        /\ turn' = [turn EXCEPT !.pc = "invoke", !.asked = @ + 1]
        /\ UNCHANGED <<ledger, unread, call, wire, closing, acct, run>>
    BY <1>3
  <2> DEFINE borrowed == b.projected \/ Borrows(b, "planner", turn.projection)
  <2>2. borrowed \in BOOLEAN
    OBVIOUS
  <2>3. bud' = [b EXCEPT !.projected = borrowed]
    BY <2>1
  <2> HIDE DEF b, borrowed
  <2>4. bud' \in BudgetType /\ bud'.phase = bud.phase /\ bud'.started = bud.started
    BY <1>1, <2>2, <2>3 DEF BudgetType
  <2>5. call' = call /\ KeepGateway /\ UNCHANGED <<unread, acct, run>>
    BY <2>1 DEF KeepGateway
  <2>6. QED
    BY <1>1, <2>1, <2>4, <2>5, AskInv
<1>4. QED
  BY <1>2, <1>3 DEF PlannerAsk

LEMMA CompactInv ==
  ASSUME IInv, PlannerCompact
  PROVE  IInv'
<1>1. /\ turn.pc \notin WaitPCs /\ KeepGateway /\ Quiet
      /\ Published("planner", UncountCall(acct), RequestBudget)
  BY DEF PlannerCompact, WaitPCs, Quiet
<1>2. turn' \in TurnType /\ turn'.pc \in Plain /\ run' \in RunType
  <2>1. CASE Stop
    BY <2>1, LeaveSet DEF Plain
  <2>2. CASE /\ run.compactions < CompactionLimit
             /\ Leave("head") /\ run' = [run EXCEPT !.compactions = @ + 1]
    <3>1. run.compactions + 1 \in 0..CompactionLimit
      BY <2>2, RoleTypes, TurnAssumption DEF RunType
    <3>2. run' \in RunType
      BY <2>2, <3>1, RoleTypes DEF RunType
    <3>3. QED
      BY <2>2, <3>2, LeaveSet DEF Plain, PCs
  <2>3. QED
    BY <2>1, <2>2 DEF PlannerCompact
<1>3. /\ "planner" \in Roles /\ UncountCall(acct) \in AcctType /\ RequestBudget \in BudgetType
      /\ RequestBudget.phase = bud.phase /\ RequestBudget.started = bud.started
  BY RoleTypes, RequestSet
<1>4. QED
  BY <1>1, <1>2, <1>3, PublishedOut

LEMMA ReadmitInv ==
  ASSUME IInv, Readmit
  PROVE  IInv'
<1>1. /\ turn.pc = "readmit" /\ turn.pc \notin WaitPCs /\ call' = call /\ KeepGateway
  BY DEF Readmit, WaitPCs
<1>2. PICK why : IF why = "admitted"
                 THEN /\ acct' = CountCall(acct) /\ bud' = Admitted(bud, acct)
                      /\ Goto("ask") /\ UNCHANGED <<unread, run>>
                 ELSE TurnRefused(why, bud)
  BY DEF Readmit
<1>3. CASE why = "admitted"
  <2>1. turn' \in TurnType /\ turn'.pc = "ask"
    BY <1>2, <1>3, LeaveSet DEF PCs
  <2>2. NextTyped /\ bud'.phase = bud.phase /\ bud'.started = bud.started
    BY <1>2, <1>3, <2>1, RequestSet, RoleTypes DEF NextTyped
  <2>3. QED
    BY <1>1, <2>1, <2>2, PlainInv DEF Quiet, Plain
<1>4. CASE why # "admitted"
  BY <1>1, <1>2, <1>4, RoleTypes, RefusedInv
<1>5. QED
  BY <1>3, <1>4

\* Turns that end or go on without a request.
LEMMA TurnInv ==
  ASSUME IInv, HeadFinalize \/ HeadStop \/ NextTurn
  PROVE  IInv'
<1>1. turn.pc \in {"head", "after", "candidate"} /\ UNCHANGED <<gatewayVars, acct>>
  BY DEF HeadFinalize, HeadStop, NextTurn
<1>2. turn' \in TurnType /\ turn'.pc \in Plain /\ run' \in RunType
  BY LeaveSet, RoleTypes DEF HeadFinalize, HeadStop, NextTurn, Plain, PCs
<1>3. NextTyped
  BY <1>1, <1>2, RoleTypes DEF NextTyped, gatewayVars
<1>4. /\ KeepGateway /\ call' = call /\ turn.pc \notin WaitPCs
      /\ bud'.phase = bud.phase /\ bud'.started = bud.started
  BY <1>1 DEF KeepGateway, gatewayVars, WaitPCs
<1>5. QED
  BY <1>2, <1>3, <1>4, PlainInv DEF Quiet

LEMMA CallProviderInv ==
  ASSUME IInv, CallProvider
  PROVE  IInv'
<1>1. /\ turn.pc \in {"invoke", "reflectInvoke", "reviewInvoke"} /\ Invoke(RoleOf)
      /\ UNCHANGED <<bud, ledger, unread, wire, closing, acct, run>>
  BY DEF CallProvider
<1> DEFINE pc == CASE turn.pc = "invoke" -> "wait" [] turn.pc = "reflectInvoke" -> "reflectWait"
                   [] OTHER -> "reviewWait"
<1>2. /\ RoleOf \in Roles /\ pc \in PCs /\ pc \in WaitPCs /\ Goto(pc)
      /\ pc \in ReviewPCs => turn.pc \in ReviewPCs
      /\ pc \in AskedPCs => turn.pc \in AskedPCs
      /\ RoleOf = IF pc = "wait" THEN "planner" ELSE IF pc = "reflectWait" THEN "reflection" ELSE "review"
  BY <1>1 DEF CallProvider, RoleOf, Roles, PCs, WaitPCs, ReviewPCs, AskedPCs
<1> HIDE DEF pc
<1>3. turn' \in TurnType /\ turn'.pc = pc /\ turn'.asked = turn.asked
  BY <1>2, LeaveSet
<1>4. LedgerInv'
  BY <1>1, <1>2, InvokeLedger
<1>5. /\ call' \in CallType /\ call'.st \in {"forked", "done"} /\ call'.role = RoleOf /\ call'.shared = 0
  <2>1. NoCall \in CallType /\ NoCall.shared = 0
    BY AttemptAssumption DEF NoCall, CallType, CallStates, Roles, Outcomes
  <2>2. \/ call' = [NoCall EXCEPT !.st = "forked", !.role = RoleOf]
        \/ call' = [NoCall EXCEPT !.st = "done", !.role = RoleOf, !.out = "limit"]
    BY <1>1 DEF Invoke
  <2> HIDE DEF NoCall
  <2>3. CASE call' = [NoCall EXCEPT !.st = "forked", !.role = RoleOf]
    BY <1>2, <2>1, <2>3 DEF CallType, CallStates
  <2>4. CASE call' = [NoCall EXCEPT !.st = "done", !.role = RoleOf, !.out = "limit"]
    BY <1>2, <2>1, <2>4 DEF CallType, CallStates, Outcomes
  <2>5. QED
    BY <2>2, <2>3, <2>4
<1>6. TypeOK'
  BY <1>1, <1>3, <1>5, RoleTypes DEF TypeOK
<1>7. RoleOf' = RoleOf
  BY <1>2, <1>3 DEF RoleOf, WaitPCs
<1>8. CallInv'
  BY <1>1, <1>2, <1>3, <1>5, <1>7, GatewayFacts DEF IInv, CallInv
<1>9. QED
  BY <1>4, <1>6, <1>8 DEF IInv

-----------------------------------------------------------------------------
(* Reflections *)

LEMMA ReflectInv ==
  ASSUME IInv, Reflect
  PROVE  IInv'
<1> DEFINE triggered == [turn EXCEPT !.triggers = @ + 1]
<1>1. /\ turn.pc = "after" /\ bud' = Admitted(bud, acct) /\ UNCHANGED <<unread, call>> /\ KeepGateway
      /\ turn' \in {triggered, [triggered EXCEPT !.pc = "reflectAsk", !.asked = 0]}
      /\ run' \in {run, [run EXCEPT !.reflections = @ + 1]}
      /\ acct' \in {acct, CountCall(acct), UncountCall(acct)}
  BY DEF Reflect
<1>2. turn.triggers + 1 \in 0..TriggersPerTurn /\ run.reflections + 1 \in 0..MaxReflections
  BY RoleTypes, TurnAssumption DEF Reflect, TurnType, RunType
<1>3. triggered \in TurnType /\ triggered.pc = "after"
  BY <1>1, <1>2, RoleTypes DEF TurnType
<1>4. run' \in RunType
  BY <1>1, <1>2, RoleTypes DEF RunType
<1> HIDE DEF triggered
<1>5. turn' \in TurnType /\ turn'.pc \in {"after", "reflectAsk"}
  <2>1. "reflectAsk" \in PCs /\ 0 \in Nat
    BY DEF PCs
  <2>2. [triggered EXCEPT !.pc = "reflectAsk", !.asked = 0] \in TurnType
    BY <1>3, <2>1 DEF TurnType
  <2>3. [triggered EXCEPT !.pc = "reflectAsk", !.asked = 0].pc = "reflectAsk"
    BY <1>3 DEF TurnType
  <2>4. QED
    BY <1>1, <1>3, <2>2, <2>3
<1>6. NextTyped /\ bud'.phase = bud.phase /\ bud'.started = bud.started
  BY <1>1, <1>4, <1>5, RoleTypes, RequestSet DEF NextTyped
<1>7. Quiet /\ turn.pc \notin WaitPCs /\ turn'.pc \in Plain
  BY <1>1, <1>5 DEF Quiet, WaitPCs, Plain
<1>8. QED
  BY <1>1, <1>6, <1>7, PlainInv

LEMMA ReflectAskInv ==
  ASSUME IInv, ReflectAsk
  PROVE  IInv'
<1>1. turn.pc = "reflectAsk" /\ turn.pc \notin WaitPCs
  BY DEF ReflectAsk, WaitPCs
<1>2. CASE /\ Published("reflection", UncountCall(acct), bud) /\ call' = call /\ KeepGateway
           /\ Leave("ended") \/ Resume
           /\ run' = [run EXCEPT !.reflections = Less(@)]
  <2>1. /\ Published("reflection", UncountCall(acct), bud) /\ call' = call /\ KeepGateway
        /\ Leave("ended") \/ Resume
        /\ run' = [run EXCEPT !.reflections = Less(@)]
    BY <1>2
  <2>2. turn' \in TurnType /\ turn'.pc \in Plain
    BY <2>1, LeaveSet DEF Plain, PCs
  <2>3. Less(run.reflections) \in 0..MaxReflections
    BY RoleTypes, TurnAssumption DEF RunType, Less
  <2>4. run' \in RunType /\ "reflection" \in Roles /\ UncountCall(acct) \in AcctType /\ bud \in BudgetType
    BY <2>1, <2>3, RoleTypes DEF RunType
  <2>5. QED
    BY <1>1, <2>1, <2>2, <2>4, PublishedOut DEF Quiet
<1>3. CASE turn' = [turn EXCEPT !.pc = "reflectInvoke", !.asked = @ + 1] /\ UNCHANGED <<gatewayVars, acct, run>>
  <2>1. KeepGateway /\ call' = call /\ UNCHANGED <<unread, acct, run>> /\ bud' = bud
    BY <1>3 DEF gatewayVars, KeepGateway
  <2>2. QED
    BY <1>1, <1>3, <2>1, RoleTypes, AskInv
<1>4. QED
  BY <1>2, <1>3 DEF ReflectAsk

LEMMA ReflectOut ==
  ASSUME IInv, ReflectAccept \/ ReflectExhausted \/ ReflectFailed
  PROVE  IInv'
<1>1. /\ turn.pc = "reflectWait" /\ call.st = "done" /\ call' = NoCall /\ KeepGateway /\ Quiet
  BY DEF ReflectAccept, ReflectExhausted, ReflectFailed, ReflectDone, EndCall, Quiet, Closed
<1>2. turn' \in TurnType /\ turn'.pc \in Plain /\ run' \in RunType
  <2>1. CASE Stop \/ Done
    BY <2>1, LeaveSet DEF Plain
  <2>2. CASE Resume /\ UNCHANGED run
    BY <2>2, LeaveSet, RoleTypes DEF Plain
  <2>3. CASE ReflectAccept
    <3>1. PICK ready \in BOOLEAN : run' = [run EXCEPT !.ready = ready /\ run.hypothesis]
      BY <2>3, RoleTypes DEF ReflectAccept, RunType
    <3>2. run' \in RunType
      BY <3>1, RoleTypes DEF RunType
    <3>3. Resume
      BY <2>3 DEF ReflectAccept
    <3>4. QED
      BY <3>2, <3>3, LeaveSet DEF Plain
  <2>4. QED
    BY <2>1, <2>2, <2>3 DEF ReflectExhausted, ReflectFailed
<1>3. PICK a \in AcctType : Published("reflection", a, bud)
  <2>1. CASE ReflectAccept
    <3> DEFINE extra == IF Exceeds("reflection", acct) THEN 0 ELSE turn.asked - 1
    <3>1. turn.asked >= 1 /\ turn.asked \in Nat
      BY <1>1, RoleTypes DEF IInv, CallInv, AskedPCs, TurnType
    <3>2. acct.logical + extra \in Nat
      BY <3>1, RoleTypes
    <3>3. Published("reflection", [acct EXCEPT !.logical = @ + extra], bud)
      BY <2>1 DEF ReflectAccept
    <3> HIDE DEF extra
    <3>4. [acct EXCEPT !.logical = @ + extra] \in AcctType
      BY <3>2, RoleTypes DEF AcctType
    <3>5. QED
      BY <3>3, <3>4
  <2>2. CASE ReflectExhausted \/ ReflectFailed
    BY <2>2, RoleTypes DEF ReflectExhausted, ReflectFailed
  <2>3. QED
    BY <2>1, <2>2
<1>4. "reflection" \in Roles /\ bud \in BudgetType
  BY RoleTypes
<1>5. QED
  BY <1>1, <1>2, <1>3, <1>4, PublishedOut

LEMMA ReflectRepairInv ==
  ASSUME IInv, ReflectRepair
  PROVE  IInv'
<1>1. KeepGateway /\ call.st = "done" /\ call' = NoCall /\ UNCHANGED <<bud, unread, acct, run>>
  BY DEF ReflectRepair, ReflectDone, EndCall
<1>2. turn' \in TurnType /\ turn'.pc = "reflectAsk"
  BY LeaveSet DEF ReflectRepair, PCs
<1>3. NextTyped /\ Quiet /\ turn'.pc \in Plain
  BY <1>1, <1>2, RoleTypes DEF NextTyped, Quiet, Closed, Plain
<1>4. QED
  BY <1>1, <1>3, PlainInv

-----------------------------------------------------------------------------
(* Review rounds *)

\* Review is entered, or is refused before its first request.
LEMMA EnterInv ==
  ASSUME IInv, turn.pc \in {"candidate", "report"}, UNCHANGED <<unread, call>>, KeepGateway,
         NEW started \in RunType, NEW out \in BOOLEAN, EnterReview(started, out),
         out => turn' \in TurnType /\ turn'.pc \in {"ended", "report"}
  PROVE  IInv'
<1> DEFINE b == BeginReview(bud, Tokens(acct), acct.logical)
<1>1. /\ turn.pc \notin WaitPCs /\ call.st \in Closed
      /\ UNCHANGED <<unread, call>> /\ KeepGateway
  BY DEF WaitPCs, IInv, CallInv, Closed
<1>2. b \in BudgetType /\ b.phase = "review" /\ b.started = bud.started
  BY RoleTypes, ReviewSet
<1>3. /\ Admitted(b, acct) \in BudgetType /\ Admitted(b, acct).phase = "review"
      /\ Admitted(b, acct).started = bud.started
  BY <1>2, RoleTypes, UsageSet DEF Admitted
<1>4. \/ run' = [started EXCEPT !.why = "handoff"] /\ out /\ UNCHANGED <<bud, acct>>
      \/ run' = started /\ out /\ bud' = Admitted(b, acct) /\ UNCHANGED acct
      \/ /\ acct' = [CountCall(acct) EXCEPT !.reviews = @ + 1]
         /\ bud' = [Admitted(b, acct) EXCEPT !.reviewUsed = acct.reviews + 1]
         /\ turn' = [turn EXCEPT !.pc = "reviewAsk", !.asked = 0] /\ run' = started
  BY DEF EnterReview
<1> HIDE DEF b
<1>5. CASE run' = [started EXCEPT !.why = "handoff"] /\ out /\ UNCHANGED <<bud, acct>>
  <2>1. run' \in RunType /\ turn' \in TurnType /\ turn'.pc \in {"ended", "report"}
    BY <1>5 DEF RunType, Reasons
  <2>2. NextTyped
    BY <1>1, <1>5, <2>1, RoleTypes DEF NextTyped
  <2>3. QED
    BY <1>1, <1>5, <2>1, <2>2, PlainInv DEF Quiet, Plain
<1>6. CASE run' = started /\ out /\ bud' = Admitted(b, acct) /\ UNCHANGED acct
  <2>1. run' \in RunType /\ turn' \in TurnType /\ turn'.pc \in {"ended", "report"}
    BY <1>6
  <2>2. NextTyped /\ LedgerInv'
    BY <1>1, <1>3, <1>6, <2>1, RoleTypes, QuietLedger DEF NextTyped, Quiet
  <2>3. QED
    BY <1>1, <2>1, <2>2, RoleInv DEF WaitPCs, ReviewPCs, AskedPCs
<1>7. CASE /\ acct' = [CountCall(acct) EXCEPT !.reviews = @ + 1]
           /\ bud' = [Admitted(b, acct) EXCEPT !.reviewUsed = acct.reviews + 1]
           /\ turn' = [turn EXCEPT !.pc = "reviewAsk", !.asked = 0] /\ run' = started
  <2>1. turn' \in TurnType /\ turn'.pc = "reviewAsk"
    BY <1>7, RoleTypes DEF TurnType, PCs
  <2>2. acct' \in AcctType
    BY <1>7, RoleTypes DEF AcctType
  <2>3. bud' \in BudgetType /\ bud'.phase = "review" /\ bud'.started = bud.started
    BY <1>3, <1>7, RoleTypes DEF BudgetType
  <2>4. NextTyped /\ LedgerInv'
    BY <1>1, <1>7, <2>1, <2>2, <2>3, RoleTypes, QuietLedger DEF NextTyped, Quiet
  <2>5. QED
    BY <1>1, <2>1, <2>3, <2>4, RoleInv DEF WaitPCs, ReviewPCs, AskedPCs
<1>8. QED
  BY <1>4, <1>5, <1>6, <1>7

LEMMA StartReviewInv ==
  ASSUME IInv, StartReview
  PROVE  IInv'
<1> DEFINE started == [run EXCEPT !.reviewRounds = @ + 1]
<1>1. /\ turn.pc \in {"candidate", "report"} /\ UNCHANGED <<unread, call>> /\ KeepGateway
      /\ run.reviewRounds < MaxReviewRounds /\ EnterReview(started, Inconclusive)
  BY DEF StartReview
<1>2. started \in RunType
  <2>1. run.reviewRounds + 1 \in 0..MaxReviewRounds
    BY <1>1, RoleTypes, TurnAssumption DEF RunType
  <2>2. QED
    BY <2>1, RoleTypes DEF RunType
<1>3. /\ Inconclusive => turn' \in TurnType /\ turn'.pc \in {"ended", "report"}
      /\ Inconclusive \in BOOLEAN
  BY LeaveSet DEF Inconclusive
<1> HIDE DEF started
<1>4. QED
  BY <1>1, <1>2, <1>3, EnterInv

LEMMA StartReportInv ==
  ASSUME IInv, StartReport
  PROVE  IInv'
<1> DEFINE started == [run EXCEPT !.report = TRUE]
<1>1. /\ turn.pc \in {"candidate", "report"} /\ UNCHANGED <<unread, call>> /\ KeepGateway
      /\ turn.pc \notin WaitPCs
  BY DEF StartReport, WaitPCs
<1>2. started \in RunType
  BY RoleTypes DEF RunType
<1>3. /\ Leave("ended") => turn' \in TurnType /\ turn'.pc = "ended"
      /\ Leave("ended") \in BOOLEAN
  BY LeaveSet DEF Leave, PCs
<1> HIDE DEF started
<1>4. CASE EnterReview(started, Leave("ended"))
  BY <1>1, <1>2, <1>3, <1>4, EnterInv
<1>5. CASE Leave("ended") /\ run' = started /\ UNCHANGED <<bud, acct>>
  <2>1. NextTyped
    BY <1>1, <1>2, <1>3, <1>5, RoleTypes DEF NextTyped
  <2>2. QED
    BY <1>1, <1>3, <1>5, <2>1, PlainInv DEF Quiet, Plain
<1>6. QED
  BY <1>4, <1>5 DEF StartReport, started

\* A refused request takes its call back; only a Candidate's publishes usage as well.
LEMMA ReviewRefusedInv ==
  ASSUME IInv, turn.pc = "reviewAsk", ReviewRefused, UNCHANGED call, KeepGateway
  PROVE  IInv'
<1> DEFINE a == [UncountCall(acct) EXCEPT !.reviews = Less(@)]
           b == [bud EXCEPT !.reviewUsed = a.reviews]
<1>1. a \in AcctType
  BY RoleTypes DEF AcctType, Less
<1>2. \/ /\ acct' = a /\ bud' = SetRunUsage(b, Tokens(a), a.logical) /\ UNCHANGED unread
         /\ Leave("ended") /\ run' = [run EXCEPT !.why = "report_refused"]
      \/ /\ Published("review", a, b) /\ Inconclusive
         /\ \E why \in Reasons : run' = [run EXCEPT !.why = why]
  BY RoleTypes DEF ReviewRefused, RunType, Reasons
<1>3. b \in BudgetType /\ b.phase = bud.phase /\ b.started = bud.started
  BY <1>1, RoleTypes DEF BudgetType, AcctType
<1> HIDE DEF a, b
<1>4. turn' \in TurnType /\ turn'.pc \in Plain /\ run' \in RunType
  <2>1. run' \in RunType
    BY <1>2, RoleTypes DEF RunType, Reasons
  <2>2. QED
    BY <1>2, <2>1, LeaveSet DEF Plain, PCs
<1>5. Quiet /\ turn.pc \notin WaitPCs /\ "review" \in Roles
  BY RoleTypes DEF Quiet, WaitPCs
<1>6. CASE acct' = a /\ bud' = SetRunUsage(b, Tokens(a), a.logical) /\ UNCHANGED unread
  <2>1. Tokens(a) \in Nat /\ a.logical \in Nat
    BY <1>1, AcctSet
  <2>2. bud' \in BudgetType /\ bud'.phase = bud.phase /\ bud'.started = bud.started
    BY <1>3, <1>6, <2>1, UsageSet
  <2>3. NextTyped
    BY <1>1, <1>4, <1>6, <2>2, RoleTypes DEF NextTyped
  <2>4. QED
    BY <1>4, <1>5, <2>2, <2>3, PlainInv
<1>7. CASE Published("review", a, b)
  BY <1>1, <1>3, <1>4, <1>5, <1>7, PublishedOut
<1>8. QED
  BY <1>2, <1>6, <1>7

LEMMA ReviewAskInv ==
  ASSUME IInv, ReviewAsk
  PROVE  IInv'
<1>1. turn.pc = "reviewAsk" /\ turn.pc \notin WaitPCs /\ bud.phase = "review"
  BY DEF ReviewAsk, WaitPCs, IInv, CallInv, ReviewPCs
<1>2. CASE ReviewRefused /\ UNCHANGED call /\ KeepGateway
  BY <1>1, <1>2, ReviewRefusedInv
<1>3. CASE turn' = [turn EXCEPT !.pc = "reviewInvoke", !.asked = @ + 1] /\ UNCHANGED <<gatewayVars, acct, run>>
  <2>1. KeepGateway /\ call' = call /\ UNCHANGED <<unread, acct, run>> /\ bud' = bud
    BY <1>3 DEF gatewayVars, KeepGateway
  <2>2. QED
    BY <1>1, <1>3, <2>1, RoleTypes, AskInv
<1>4. QED
  BY <1>2, <1>3 DEF ReviewAsk

\* The figures a Review leaves with: its repair is counted, in a report twice at most.
LEMMA ReviewedSet ==
  ASSUME IInv, turn.pc = "reviewWait"
  PROVE  /\ ReviewedAcct \in AcctType /\ turn.asked - 1 \in Nat
         /\ \A n \in Nat : [ReviewedAcct EXCEPT !.logical = @ + n] \in AcctType
<1>1. turn.asked >= 1 /\ turn.asked \in Nat
  BY RoleTypes DEF IInv, CallInv, AskedPCs, TurnType
<1>2. acct.logical + turn.asked - 1 \in Nat
  BY <1>1, RoleTypes
<1>3. ReviewedAcct = [acct EXCEPT !.logical = acct.logical + turn.asked - 1]
  BY DEF ReviewedAcct
<1>4. ReviewedAcct \in AcctType
  BY <1>2, <1>3, RoleTypes DEF AcctType
<1>5. \A x \in AcctType, n \in Nat : [x EXCEPT !.logical = @ + n] \in AcctType
  BY DEF AcctType
<1>6. QED
  BY <1>1, <1>4, <1>5

ReviewedOut == ReviewPass \/ ReviewStop \/ ReviewExhausted \/ ReviewFailed \/ ReportReviewed

\* What each of them does: the records are published, and the run is over but for its report.
LEMMA ReviewedOutSteps ==
  ASSUME IInv, ReviewedOut
  PROVE  /\ turn.pc = "reviewWait" /\ call.st = "done" /\ call' = NoCall /\ KeepGateway /\ Quiet
         /\ (Stop /\ ~run.report) \/ Done
         /\ \E a \in AcctType : /\ Published("review", a, bud)
                               /\ a.spent = acct.spent /\ a.prompt = acct.prompt
<1>1. /\ turn.pc = "reviewWait" /\ call.st = "done" /\ call' = NoCall /\ KeepGateway /\ Quiet
      /\ (Stop /\ ~run.report) \/ Done
  BY DEF ReviewedOut, ReviewPass, ReviewStop, ReviewExhausted, ReviewFailed, ReportReviewed,
     CandidateReviewed, ReviewDone, EndCall, Quiet, Closed
<1>2. ReviewedAcct.spent = acct.spent /\ ReviewedAcct.prompt = acct.prompt
  BY RoleTypes DEF ReviewedAcct, AcctType
<1>3. CASE Published("review", ReviewedAcct, bud)
  BY <1>1, <1>2, <1>3, ReviewedSet
<1>4. CASE ReportReviewed
  <2> DEFINE n == IF call.out = "ok" /\ Exceeds("review", ReviewedAcct) THEN turn.asked - 1 ELSE 0
             a == [ReviewedAcct EXCEPT !.logical = @ + n]
  <2>1. Published("review", a, bud)
    BY <1>4 DEF ReportReviewed
  <2>2. a \in AcctType
    BY <1>1, ReviewedSet
  <2>3. a.spent = acct.spent /\ a.prompt = acct.prompt
    BY <1>1, <1>2, ReviewedSet DEF AcctType
  <2> HIDE DEF a
  <2>4. QED
    BY <1>1, <2>1, <2>2, <2>3
<1>5. QED
  BY <1>3, <1>4 DEF ReviewedOut, ReviewPass, ReviewStop, ReviewExhausted, ReviewFailed

LEMMA ReviewOut ==
  ASSUME IInv, ReviewedOut
  PROVE  IInv'
<1>1. /\ turn.pc = "reviewWait" /\ call' = NoCall /\ KeepGateway /\ Quiet /\ (Stop \/ Done)
  BY ReviewedOutSteps
<1>2. PICK a \in AcctType : Published("review", a, bud)
  BY ReviewedOutSteps
<1>3. turn' \in TurnType /\ turn'.pc \in Plain /\ run' \in RunType
  BY <1>1, LeaveSet DEF Plain
<1>4. "review" \in Roles /\ bud \in BudgetType
  BY RoleTypes
<1>5. QED
  BY <1>1, <1>2, <1>3, <1>4, PublishedOut

LEMMA ReviewRepairInv ==
  ASSUME IInv, ReviewRepair
  PROVE  IInv'
<1>1. /\ KeepGateway /\ call.st = "done" /\ call' = NoCall /\ UNCHANGED <<bud, unread, acct, run>>
      /\ turn.pc = "reviewWait"
  BY DEF ReviewRepair, ReviewDone, EndCall
<1>2. turn' \in TurnType /\ turn'.pc = "reviewAsk"
  BY LeaveSet DEF ReviewRepair, PCs
<1>3. NextTyped /\ Quiet /\ bud.phase = "review"
  BY <1>1, <1>2, RoleTypes DEF NextTyped, Quiet, Closed, IInv, CallInv, ReviewPCs
<1>4. LedgerInv'
  BY <1>1, <1>3, QuietLedger
<1>5. QED
  BY <1>1, <1>2, <1>3, <1>4, RoleInv DEF WaitPCs, AskedPCs

LEMMA ReviewRejectInv ==
  ASSUME IInv, ReviewReject
  PROVE  IInv'
<1> DEFINE a == Publish("review", ReviewedAcct)
           b == BeginRecovery(bud, Tokens(a), a.logical)
<1>1. /\ turn.pc = "reviewWait" /\ call.st = "done" /\ call' = NoCall /\ KeepGateway
      /\ Published("review", ReviewedAcct, b) /\ Leave("after") /\ run.cycles < MaxRecoveryCycles
  BY DEF ReviewReject, CandidateReviewed, ReviewDone, EndCall
<1>2. turn' \in TurnType /\ turn'.pc = "after"
  BY <1>1, LeaveSet DEF PCs
<1>3. ReviewedAcct \in AcctType /\ "review" \in Roles
  BY <1>1, ReviewedSet, RoleTypes
<1>4. a \in AcctType
  <2>1. unread["review"].p \in Nat /\ unread["review"].t \in Nat
    BY RoleTypes DEF UsageType, Roles
  <2> DEFINE t == unread["review"].t
             spent == [ReviewedAcct.spent EXCEPT !["review"] = @ + t]
  <2>2. ReviewedAcct.prompt + unread["review"].p \in Nat /\ ReviewedAcct.spent \in Counter
    BY <1>3, <2>1 DEF AcctType
  <2>3. spent \in Counter
    BY <2>1, <2>2, <1>3 DEF Counter
  <2>4. a = [ReviewedAcct EXCEPT !.prompt = ReviewedAcct.prompt + unread["review"].p, !.spent = spent]
    BY <1>3 DEF Publish, AcctType
  <2> HIDE DEF spent, a
  <2>5. QED
    BY <1>3, <2>2, <2>3, <2>4 DEF AcctType
<1> HIDE DEF a
<1>5. b \in BudgetType /\ b.phase = "investigation_recovery" /\ b.started = bud.started
  <2>1. Tokens(a) \in Nat /\ a.logical \in Nat
    BY <1>4, AcctSet
  <2>2. bud \in BudgetType
    BY RoleTypes
  <2>3. QED
    BY <2>1, <2>2, RecoverySet
<1> HIDE DEF b
<1>6. /\ acct' \in AcctType /\ unread' \in UsageType /\ bud' \in BudgetType
      /\ bud'.phase = b.phase /\ bud'.started = b.started
  BY <1>1, <1>3, <1>5, RoleTypes, PublishedSet
<1>7. run' \in RunType
  <2>1. run.cycles + 1 \in 0..MaxRecoveryCycles
    BY <1>1, RoleTypes, TurnAssumption DEF RunType
  <2>2. PICK ready \in BOOLEAN : run' = [run EXCEPT !.cycles = @ + 1, !.ready = ready]
    BY DEF ReviewReject
  <2>3. QED
    BY <2>1, <2>2, RoleTypes DEF RunType
<1>8. NextTyped /\ Quiet /\ call.st \in Closed
  BY <1>1, <1>2, <1>6, <1>7 DEF NextTyped, Quiet, Closed
<1>9. LedgerInv'
  BY <1>1, <1>5, <1>6, <1>8, QuietLedger
<1>10. QED
  BY <1>1, <1>2, <1>8, <1>9, RoleInv DEF WaitPCs, ReviewPCs, AskedPCs

-----------------------------------------------------------------------------
(* The properties *)

\* Every step of a role, of a child or of its parent keeps the inductive invariant.
THEOREM StepInv == IInv /\ [Next]_vars => IInv'
<1> SUFFICES ASSUME IInv, [Next]_vars PROVE IInv'
  OBVIOUS
<1>1. CASE UNCHANGED vars
  BY <1>1 DEF vars, IInv, TypeOK, CallInv, LedgerInv, RoleOf, Total, NonReview, Pending, Sent, Counted
<1>2. CASE RoleStep
  <2>1. CASE TurnStep
    BY <2>1, StartInv, TurnInv, CallProviderInv DEF TurnStep
  <2>2. CASE PlannerStep
    BY <2>2, PlannerAskInv, CompactInv, ReadmitInv, PlannerOut, ContextInv, RepairInv DEF PlannerStep
  <2>3. CASE ReflectionStep
    BY <2>3, ReflectInv, ReflectAskInv, ReflectOut, ReflectRepairInv DEF ReflectionStep
  <2>4. CASE ReviewStep
    BY <2>4, StartReviewInv, StartReportInv, ReviewAskInv, ReviewOut, ReviewRepairInv, ReviewRejectInv
       DEF ReviewStep, ReviewedOut
  <2>5. QED
    BY <1>2, <2>1, <2>2, <2>3, <2>4 DEF RoleStep
<1>3. CASE ProviderStep
  BY <1>3, GatewayInv DEF ProviderStep
<1>4. QED
  BY <1>1, <1>2, <1>3 DEF Next

\* The inductive invariant holds in every state of a run.
THEOREM Inductive == Spec => []IInv
<1>1. Init => IInv
  BY InitInv
<1>2. IInv /\ [Next]_vars => IInv'
  BY StepInv
<1>3. QED
  BY <1>1, <1>2, PTL DEF Spec

\* The machine is well typed and its counters keep within their limits.
THEOREM RunTyped == Spec => []TypeOK
<1>1. IInv => TypeOK
  BY DEF IInv
<1>2. QED
  BY <1>1, Inductive, PTL

\* What was sent is within what is charged, so the limits of admission are limits of the wire.
THEOREM ReserveTheorem == Spec => []ReserveProtected
<1>1. IInv => ReserveProtected
  <2> SUFFICES ASSUME IInv PROVE ReserveProtected
    OBVIOUS
  <2>1. /\ Sent(call) \in Nat /\ Pending(call) \in Nat /\ Sent(call) <= Pending(call)
    BY GatewayFacts, PendingSent DEF IInv, CallInv
  <2>2. \A r \in Roles : /\ wire[r] <= ledger[r] + (IF r = call.role THEN Sent(call) ELSE 0)
                         /\ wire[r] \in Nat /\ ledger[r] \in Nat
    BY GatewayFacts DEF IInv, LedgerInv
  <2>3. /\ Total(wire) <= Total(ledger) + Sent(call)
        /\ NonReview(wire) <= NonReview(ledger) + (IF call.role = "review" THEN 0 ELSE Sent(call))
    <3>1. call.role \in Roles
      BY GatewayFacts
    <3>2. QED
      BY <2>1, <2>2, <3>1 DEF Roles, Total, NonReview
  <2>4. /\ Total(ledger) + Pending(call) <= TotalCalls
        /\ NonReview(ledger) + (IF call.role = "review" THEN 0 ELSE Pending(call))
             <= InvestigationCalls + TerminalCalls
    BY DEF IInv, LedgerInv
  <2>5. Total(wire) \in Nat /\ NonReview(wire) \in Nat
    BY Sums, GatewayFacts
  <2>6. QED
    BY <2>1, <2>3, <2>4, <2>5, GatewayFacts DEF ReserveProtected
<1>2. QED
  BY <1>1, Inductive, PTL

\* All consolidations of a run together stay within one allowance.
THEOREM ConsolidationTheorem == Spec => []ConsolidationBounded
<1>1. IInv => ConsolidationBounded
  BY DEF IInv, LedgerInv, ConsolidationBounded
<1>2. QED
  BY <1>1, Inductive, PTL

\* A call that is over has been charged for all it sent, however it ended.
THEOREM LedgerTheorem == Spec => []LedgerCoversWire
<1>1. IInv => LedgerCoversWire
  BY GatewayFacts DEF IInv, LedgerInv, LedgerCoversWire, Sent, Closed
<1>2. QED
  BY <1>1, Inductive, PTL

-----------------------------------------------------------------------------
(* The turns: how often one asks, and that no usage is left behind.  CountInv charges
   every request of a Planner turn to a context round, to its one repair or to the turn
   itself; UnreadInv says that only the role whose turn is under way can have usage that
   was not read, but for what the refused repair of a report has lost; ReportInv that a
   report is reviewed once and by nothing else. *)
Between == {"head", "after", "candidate", "report", "ended"}
TurnPCs(role) == CASE role = "planner" -> {"ask", "invoke", "wait", "readmit"}
                   [] role = "reflection" -> {"reflectAsk", "reflectInvoke", "reflectWait"}
                   [] OTHER -> ReviewPCs

Answered(t) == t.rounds + (IF t.retried THEN 1 ELSE 0)
CountInv ==
  /\ turn.pc \in {"ask", "readmit"} => turn.asked <= Answered(turn)
  /\ turn.pc \in {"invoke", "wait"} => turn.asked <= Answered(turn) + 1
  /\ turn.pc \in {"reflectAsk", "reviewAsk"} => turn.asked <= 1
  /\ turn.pc \in AskedPCs => turn.asked <= 2

Lost(r) == r = "review" /\ turn.pc = "ended" /\ run.why = "report_refused"
UnreadInv == \A r \in Roles : turn.pc \notin TurnPCs(r) => unread[r] = NoUsage \/ Lost(r)

ReportInv == run.report => turn.pc \in ReviewPCs \union {"ended"}

-----------------------------------------------------------------------------
(* Leaving and staying *)

\* Out of a turn nothing is counted any more.
LEMMA OutCount ==
  ASSUME turn'.pc \in Between
  PROVE  CountInv'
BY DEF CountInv, Between, AskedPCs

\* Publishing reads the only records there are.
LEMMA PublishedClears ==
  ASSUME IInv, UnreadInv, NEW role \in Roles, turn.pc \in TurnPCs(role) \union Between,
         turn.pc # "ended", NEW a, NEW b, Published(role, a, b)
  PROVE  UnreadInv'
<1>1. \A r \in Roles : (r # role => turn.pc \notin TurnPCs(r)) /\ ~Lost(r)
  BY DEF TurnPCs, ReviewPCs, Roles, Between, Lost
<1>2. unread' = [unread EXCEPT ![role] = NoUsage] /\ unread \in UsageType
  BY RoleTypes DEF Published
<1>3. \A r \in Roles : unread'[r] = NoUsage
  BY <1>1, <1>2 DEF UnreadInv, UsageType
<1>4. QED
  BY <1>3 DEF UnreadInv

\* A step that stays in its turn, or starts one, leaves the others without records.
LEMMA KeptUnread ==
  ASSUME UnreadInv, unread' = unread, turn.pc # "ended",
         \A r \in Roles : turn.pc \in TurnPCs(r) => turn'.pc \in TurnPCs(r)
  PROVE  UnreadInv'
BY DEF UnreadInv, Lost

-----------------------------------------------------------------------------
(* Planner turns *)

LEMMA PlannerOutTurn ==
  ASSUME IInv, UnreadInv,
         \/ PlannerCompact \/ PlannerContextEnd \/ PlannerExhausted \/ PlannerFailed \/ PlannerCommit
  PROVE  CountInv' /\ UnreadInv'
<1>1. /\ turn.pc \in TurnPCs("planner") /\ turn.pc # "ended"
      /\ \E a, b : Published("planner", a, b)
  BY DEF PlannerCompact, PlannerContextEnd, PlannerExhausted, PlannerFailed, PlannerCommit,
     PlannerDone, TurnPCs
<1>2. \E pc \in Between : Leave(pc)
  BY DEF PlannerCompact, PlannerContextEnd, PlannerExhausted, PlannerFailed, PlannerCommit,
     Stop, Done, Inconclusive, Between
<1>3. turn'.pc \in Between
  BY <1>2, LeaveSet DEF Between, PCs
<1>4. QED
  BY <1>1, <1>3, OutCount, PublishedClears, RoleTypes

\* A refused turn is left with its usage published, whatever it was refused for.
LEMMA RefusedTurn ==
  ASSUME IInv, UnreadInv, turn.pc \in TurnPCs("planner") \union Between, turn.pc # "ended",
         NEW why, NEW b, TurnRefused(why, b)
  PROVE  CountInv' /\ UnreadInv'
<1>1. \E a : Published("planner", a, b)
  BY DEF TurnRefused
<1>2. \E pc \in Between : Leave(pc)
  BY DEF TurnRefused, Stop, Inconclusive, Between
<1>3. turn'.pc \in Between
  BY <1>2, LeaveSet DEF Between, PCs
<1>4. QED
  BY <1>1, <1>3, OutCount, PublishedClears, RoleTypes

LEMMA StartTurnTurn ==
  ASSUME IInv, UnreadInv, StartTurn
  PROVE  CountInv' /\ UnreadInv'
<1>1. turn.pc = "head" /\ turn \in TurnType
  BY RoleTypes DEF StartTurn
<1>2. CASE \E why, b : TurnRefused(why, b)
  BY <1>1, <1>2, RefusedTurn DEF Between
<1>3. CASE \E projection \in BOOLEAN :
             /\ turn' = [turn EXCEPT !.pc = "ask", !.asked = 0, !.rounds = 0, !.retried = FALSE,
                                     !.projection = projection, !.triggers = 0]
             /\ unread' = unread
  <2>1. turn'.pc = "ask" /\ turn'.asked = 0 /\ turn'.rounds = 0 /\ turn'.retried = FALSE
    BY <1>1, <1>3 DEF TurnType
  <2>2. CountInv'
    BY <2>1 DEF CountInv, Answered, AskedPCs
  <2>3. \A r \in Roles : turn.pc \notin TurnPCs(r)
    BY <1>1 DEF TurnPCs, ReviewPCs
  <2>4. QED
    BY <1>1, <1>3, <2>2, <2>3, KeptUnread
<1>4. QED
  BY <1>2, <1>3 DEF StartTurn

LEMMA PlannerAskTurn ==
  ASSUME IInv, CountInv, UnreadInv, PlannerAsk
  PROVE  CountInv' /\ UnreadInv'
<1>1. turn.pc = "ask" /\ turn \in TurnType /\ turn.pc \in TurnPCs("planner")
  BY RoleTypes DEF PlannerAsk, TurnPCs
<1>2. CASE \E why, b : TurnRefused(why, b)
  BY <1>1, <1>2, RefusedTurn
<1>3. CASE turn' = [turn EXCEPT !.pc = "invoke", !.asked = @ + 1] /\ unread' = unread
  <2>1. /\ turn'.pc = "invoke" /\ turn'.asked = turn.asked + 1
        /\ turn'.rounds = turn.rounds /\ turn'.retried = turn.retried
        /\ turn.asked \in Nat /\ turn.rounds \in Nat
    BY <1>1, <1>3 DEF TurnType
  <2>2. CountInv'
    BY <1>1, <2>1 DEF CountInv, Answered, AskedPCs
  <2>3. \A r \in Roles : turn.pc \in TurnPCs(r) => turn'.pc \in TurnPCs(r)
    BY <1>1, <2>1 DEF TurnPCs, ReviewPCs, Roles
  <2>4. QED
    BY <1>1, <1>3, <2>2, <2>3, KeptUnread
<1>4. QED
  BY <1>2, <1>3 DEF PlannerAsk

\* A context round or the repair pays for one more request.
LEMMA AnsweredTurn ==
  ASSUME IInv, CountInv, UnreadInv, PlannerContext \/ PlannerRepair
  PROVE  CountInv' /\ UnreadInv'
<1>1. /\ turn.pc = "wait" /\ turn \in TurnType /\ turn.pc \in TurnPCs("planner")
      /\ turn.asked \in Nat /\ turn.rounds \in Nat
  BY RoleTypes, TurnAssumption DEF PlannerContext, PlannerRepair, PlannerDone, TurnPCs, TurnType
<1>2. turn.asked <= Answered(turn) + 1
  BY <1>1 DEF CountInv
<1>3. CASE PlannerRepair
  <2>1. /\ turn'.pc = "readmit" /\ turn'.asked = turn.asked /\ turn'.rounds = turn.rounds
        /\ turn'.retried = TRUE /\ turn.retried = FALSE /\ unread' = unread
    BY <1>1, <1>3 DEF PlannerRepair, TurnType
  <2>2. CountInv'
    BY <1>1, <1>2, <2>1 DEF CountInv, Answered, AskedPCs
  <2>3. \A r \in Roles : turn.pc \in TurnPCs(r) => turn'.pc \in TurnPCs(r)
    BY <1>1, <2>1 DEF TurnPCs, ReviewPCs, Roles
  <2>4. QED
    BY <1>1, <2>1, <2>2, <2>3, KeptUnread
<1>4. CASE PlannerContext
  <2>1. Published("planner", acct, bud)
    BY <1>4 DEF PlannerContext
  <2>2. UnreadInv'
    BY <1>1, <2>1, PublishedClears, RoleTypes
  <2>3. CASE Stop
    BY <2>2, <2>3, LeaveSet, OutCount DEF Between
  <2>4. CASE turn' = [turn EXCEPT !.pc = "readmit", !.rounds = @ + 1, !.targeted = FALSE]
    <3>1. /\ turn'.pc = "readmit" /\ turn'.asked = turn.asked /\ turn'.rounds = turn.rounds + 1
          /\ turn'.retried = turn.retried
      BY <1>1, <2>4 DEF TurnType
    <3>2. QED
      BY <1>1, <1>2, <2>2, <3>1 DEF CountInv, Answered, AskedPCs
  <2>5. QED
    BY <1>4, <2>3, <2>4 DEF PlannerContext
<1>5. QED
  BY <1>3, <1>4

LEMMA ReadmitTurn ==
  ASSUME IInv, CountInv, UnreadInv, Readmit
  PROVE  CountInv' /\ UnreadInv'
<1>1. turn.pc = "readmit" /\ turn \in TurnType /\ turn.pc \in TurnPCs("planner")
  BY RoleTypes DEF Readmit, TurnPCs
<1>2. CASE \E why, b : TurnRefused(why, b)
  BY <1>1, <1>2, RefusedTurn
<1>3. CASE Goto("ask") /\ unread' = unread
  <2>1. /\ turn'.pc = "ask" /\ turn'.asked = turn.asked /\ turn'.rounds = turn.rounds
        /\ turn'.retried = turn.retried
    BY <1>1, <1>3 DEF Goto, TurnType
  <2>2. CountInv'
    BY <1>1, <2>1 DEF CountInv, Answered, AskedPCs
  <2>3. \A r \in Roles : turn.pc \in TurnPCs(r) => turn'.pc \in TurnPCs(r)
    BY <1>1, <2>1 DEF TurnPCs, ReviewPCs, Roles
  <2>4. QED
    BY <1>1, <1>3, <2>2, <2>3, KeptUnread
<1>4. QED
  BY <1>2, <1>3 DEF Readmit

-----------------------------------------------------------------------------
(* The other steps *)

LEMMA BetweenTurn ==
  ASSUME IInv, UnreadInv, HeadFinalize \/ HeadStop \/ NextTurn
  PROVE  CountInv' /\ UnreadInv'
<1>1. turn.pc \in Between \ {"ended"} /\ unread' = unread /\ \E pc \in Between : Leave(pc)
  BY DEF HeadFinalize, HeadStop, NextTurn, Stop, Inconclusive, Between, gatewayVars
<1>2. turn'.pc \in Between
  BY <1>1, LeaveSet DEF Between, PCs
<1>3. \A r \in Roles : turn.pc \notin TurnPCs(r)
  BY <1>1 DEF TurnPCs, ReviewPCs, Between
<1>4. QED
  BY <1>1, <1>2, <1>3, OutCount, KeptUnread

LEMMA CallProviderTurn ==
  ASSUME IInv, CountInv, UnreadInv, CallProvider
  PROVE  CountInv' /\ UnreadInv'
<1> DEFINE pc == CASE turn.pc = "invoke" -> "wait" [] turn.pc = "reflectInvoke" -> "reflectWait"
                   [] OTHER -> "reviewWait"
<1>1. /\ turn.pc \in {"invoke", "reflectInvoke", "reviewInvoke"} /\ turn' = [turn EXCEPT !.pc = pc]
      /\ unread' = unread /\ turn \in TurnType
  BY RoleTypes DEF CallProvider, Goto
<1>2. /\ turn'.pc = pc /\ turn'.asked = turn.asked /\ turn'.rounds = turn.rounds
      /\ turn'.retried = turn.retried
  BY <1>1 DEF TurnType
<1>3. CountInv'
  BY <1>1, <1>2 DEF CountInv, Answered, AskedPCs
<1>4. \A r \in Roles : turn.pc \in TurnPCs(r) => turn'.pc \in TurnPCs(r)
  BY <1>1, <1>2 DEF TurnPCs, ReviewPCs, Roles
<1>5. QED
  BY <1>1, <1>3, <1>4, KeptUnread

LEMMA ReflectTurn ==
  ASSUME IInv, UnreadInv, Reflect
  PROVE  CountInv' /\ UnreadInv'
<1> DEFINE triggered == [turn EXCEPT !.triggers = @ + 1]
<1>1. /\ turn.pc = "after" /\ turn \in TurnType /\ unread' = unread
      /\ turn' \in {triggered, [triggered EXCEPT !.pc = "reflectAsk", !.asked = 0]}
  BY RoleTypes DEF Reflect
<1>2. turn'.pc = "after" \/ (turn'.pc = "reflectAsk" /\ turn'.asked = 0)
  BY <1>1 DEF TurnType
<1>3. CountInv'
  BY <1>2 DEF CountInv, AskedPCs
<1>4. \A r \in Roles : turn.pc \notin TurnPCs(r)
  BY <1>1 DEF TurnPCs, ReviewPCs
<1>5. QED
  BY <1>1, <1>3, <1>4, KeptUnread

LEMMA StartReviewTurn ==
  ASSUME IInv, UnreadInv, StartReview \/ StartReport
  PROVE  CountInv' /\ UnreadInv'
<1>1. /\ turn.pc \in {"candidate", "report"} /\ turn \in TurnType /\ unread' = unread
      /\ Inconclusive \/ turn' = [turn EXCEPT !.pc = "reviewAsk", !.asked = 0]
  BY RoleTypes DEF StartReview, StartReport, EnterReview, Inconclusive
<1>2. turn'.pc \in {"ended", "report"} \/ (turn'.pc = "reviewAsk" /\ turn'.asked = 0)
  BY <1>1, LeaveSet DEF TurnType
<1>3. CountInv'
  BY <1>2 DEF CountInv, AskedPCs
<1>4. \A r \in Roles : turn.pc \notin TurnPCs(r)
  BY <1>1 DEF TurnPCs, ReviewPCs
<1>5. QED
  BY <1>1, <1>3, <1>4, KeptUnread

\* Both agents make their requests in the same way: asked once, repaired once.
LEMMA RequestTurn ==
  ASSUME IInv, CountInv, UnreadInv, unread' = unread, NEW role \in {"reflection", "review"},
         turn.pc \in TurnPCs(role), turn'.pc \in TurnPCs(role),
         \/ /\ turn.pc \in {"reflectAsk", "reviewAsk"} /\ turn'.pc \in AskedPCs
            /\ turn'.asked = turn.asked + 1
         \/ /\ turn.asked < 2 /\ turn'.pc \in {"reflectAsk", "reviewAsk"} /\ turn'.asked = turn.asked
  PROVE  CountInv' /\ UnreadInv'
<1>1. turn.asked \in Nat
  BY RoleTypes DEF TurnType
<1>2. CountInv'
  BY <1>1 DEF CountInv, AskedPCs
<1>3. /\ \A r \in Roles : turn.pc \in TurnPCs(r) => turn'.pc \in TurnPCs(r)
      /\ turn.pc # "ended"
  BY DEF TurnPCs, ReviewPCs, Roles
<1>4. QED
  BY <1>2, <1>3, KeptUnread

\* And both leave with their records published.
LEMMA AgentOutTurn ==
  ASSUME IInv, UnreadInv, NEW role \in {"reflection", "review"}, turn.pc \in TurnPCs(role),
         NEW a, NEW b, Published(role, a, b), turn'.pc \in Between
  PROVE  CountInv' /\ UnreadInv'
<1>1. turn.pc # "ended"
  BY DEF TurnPCs, ReviewPCs
<1>2. QED
  BY <1>1, OutCount, PublishedClears, RoleTypes

LEMMA ReflectionTurn ==
  ASSUME IInv, CountInv, UnreadInv,
         ReflectAsk \/ ReflectAccept \/ ReflectRepair \/ ReflectExhausted \/ ReflectFailed
  PROVE  CountInv' /\ UnreadInv'
<1>1. turn.pc \in {"reflectAsk", "reflectWait"} /\ turn.pc \in TurnPCs("reflection") /\ turn \in TurnType
  BY RoleTypes DEF ReflectAsk, ReflectAccept, ReflectRepair, ReflectExhausted, ReflectFailed,
     ReflectDone, TurnPCs
<1>2. CASE /\ \E a, b : Published("reflection", a, b)
           /\ Leave("ended") \/ Resume \/ Stop \/ Done
  <2>1. turn'.pc \in Between
    BY <1>2, LeaveSet DEF Between, PCs
  <2>2. QED
    BY <1>1, <1>2, <2>1, AgentOutTurn
<1>3. CASE /\ turn.pc = "reflectAsk" /\ unread' = unread
           /\ turn' = [turn EXCEPT !.pc = "reflectInvoke", !.asked = @ + 1]
  <2>1. turn'.pc = "reflectInvoke" /\ turn'.asked = turn.asked + 1
    BY <1>1, <1>3 DEF TurnType
  <2>2. turn'.pc \in TurnPCs("reflection") /\ turn'.pc \in AskedPCs
    BY <2>1 DEF TurnPCs, AskedPCs
  <2>3. QED
    BY <1>1, <1>3, <2>1, <2>2, RequestTurn
<1>4. CASE ReflectRepair
  <2>1. turn.asked < 2 /\ turn'.pc = "reflectAsk" /\ turn'.asked = turn.asked /\ unread' = unread
    BY <1>1, <1>4, LeaveSet DEF ReflectRepair, PCs
  <2>2. turn'.pc \in TurnPCs("reflection")
    BY <2>1 DEF TurnPCs
  <2>3. QED
    BY <1>1, <2>1, <2>2, RequestTurn
<1>5. QED
  BY <1>2, <1>3, <1>4
     DEF ReflectAsk, ReflectAccept, ReflectExhausted, ReflectFailed, ReflectDone, gatewayVars

\* The refused repair of a report is the one way out that publishes nothing.
LEMMA ReportRefusedTurn ==
  ASSUME IInv, UnreadInv, turn.pc = "reviewAsk", unread' = unread, Leave("ended"),
         run' = [run EXCEPT !.why = "report_refused"]
  PROVE  CountInv' /\ UnreadInv'
<1>1. turn'.pc = "ended" /\ run'.why = "report_refused"
  BY LeaveSet, RoleTypes DEF RunType, PCs
<1>2. \A r \in Roles : r # "review" => unread[r] = NoUsage
  BY DEF UnreadInv, Lost, TurnPCs, ReviewPCs, Roles
<1>3. \A r \in Roles : unread'[r] = NoUsage \/ Lost(r)'
  BY <1>1, <1>2 DEF Lost
<1>4. QED
  BY <1>1, <1>3, OutCount DEF UnreadInv, Between

LEMMA ReviewTurn ==
  ASSUME IInv, CountInv, UnreadInv, ReviewAsk \/ ReviewReject \/ ReviewRepair \/ ReviewedOut
  PROVE  CountInv' /\ UnreadInv'
<1>1. turn.pc \in {"reviewAsk", "reviewWait"} /\ turn.pc \in TurnPCs("review") /\ turn \in TurnType
  BY RoleTypes, ReviewedOutSteps DEF ReviewAsk, ReviewReject, ReviewRepair, CandidateReviewed,
     ReviewDone, TurnPCs, ReviewPCs
<1>2. CASE /\ \E a, b : Published("review", a, b)
           /\ Inconclusive \/ Done \/ Stop \/ Leave("after")
  <2>1. turn'.pc \in Between
    BY <1>2, LeaveSet DEF Between, PCs
  <2>2. QED
    BY <1>1, <1>2, <2>1, AgentOutTurn
<1>3. CASE /\ turn.pc = "reviewAsk" /\ unread' = unread
           /\ turn' = [turn EXCEPT !.pc = "reviewInvoke", !.asked = @ + 1]
  <2>1. turn'.pc = "reviewInvoke" /\ turn'.asked = turn.asked + 1
    BY <1>1, <1>3 DEF TurnType
  <2>2. turn'.pc \in TurnPCs("review") /\ turn'.pc \in AskedPCs
    BY <2>1 DEF TurnPCs, ReviewPCs, AskedPCs
  <2>3. QED
    BY <1>1, <1>3, <2>1, <2>2, RequestTurn
<1>4. CASE ReviewRepair
  <2>1. turn.asked < 2 /\ turn'.pc = "reviewAsk" /\ turn'.asked = turn.asked /\ unread' = unread
    BY <1>1, <1>4, LeaveSet DEF ReviewRepair, PCs
  <2>2. turn'.pc \in TurnPCs("review")
    BY <2>1 DEF TurnPCs, ReviewPCs
  <2>3. QED
    BY <1>1, <2>1, <2>2, RequestTurn
<1>5. CASE ReviewAsk
  <2>1. CASE ReviewRefused
    BY <1>2, <1>5, <2>1, ReportRefusedTurn DEF ReviewRefused, ReviewAsk
  <2>2. QED
    BY <1>3, <1>5, <2>1 DEF ReviewAsk, gatewayVars
<1>6. CASE ReviewedOut
  BY <1>2, <1>6, ReviewedOutSteps
<1>7. QED
  BY <1>2, <1>4, <1>5, <1>6 DEF ReviewReject

\* The gateway writes records of the role that called, and only while its turn waits.
LEMMA GatewayTurn ==
  ASSUME IInv, CountInv, UnreadInv, GatewayStep, UNCHANGED runVars
  PROVE  CountInv' /\ UnreadInv'
<1>1. turn' = turn /\ run' = run
  BY DEF runVars
<1>2. CountInv'
  BY <1>1 DEF CountInv
<1>3. CASE unread' = unread
  BY <1>1, <1>2, <1>3 DEF UnreadInv, Lost
<1>4. CASE Collect
  <2>1. turn.pc \in WaitPCs /\ call.role = RoleOf /\ unread \in UsageType
    BY <1>4, RoleTypes DEF Collect, IInv, CallInv
  <2>2. turn.pc \in TurnPCs(call.role)
    BY <2>1 DEF WaitPCs, RoleOf, TurnPCs, ReviewPCs
  <2>3. \A r \in Roles : r # call.role => unread'[r] = unread[r]
    BY <1>4, <2>1 DEF Collect, UsageType
  <2>4. QED
    BY <1>1, <1>2, <2>2, <2>3 DEF UnreadInv, Lost
<1>5. QED
  BY <1>3, <1>4 DEF GatewayStep, ChildStep, ChildAdmit, ChildCount, ChildSend, ChildRetry,
     ChildReply, Kill

-----------------------------------------------------------------------------
(* The report *)

\* No step but StartReport touches the mark.
LEMMA ReportKept ==
  ASSUME IInv, Next, ~StartReport
  PROVE  run'.report = run.report
<1>1. run \in RunType
  BY RoleTypes
<1>2. Stop \/ Done => run' = run
  BY DEF Stop, Done
<1>3. \A why, b : TurnRefused(why, b) => run' = run
  BY <1>2 DEF TurnRefused
<1>4. CASE TurnStep
  BY <1>2, <1>3, <1>4
     DEF TurnStep, StartTurn, HeadFinalize, HeadStop, NextTurn, CallProvider
<1>5. CASE PlannerStep
  BY <1>1, <1>2, <1>3, <1>5
     DEF PlannerStep, PlannerAsk, PlannerCompact, Readmit, PlannerCommit, PlannerContext,
         PlannerContextEnd, PlannerRepair, PlannerExhausted, PlannerFailed, RunType
<1>6. CASE ReflectionStep
  BY <1>1, <1>2, <1>6
     DEF ReflectionStep, Reflect, ReflectAsk, ReflectAccept, ReflectRepair, ReflectExhausted,
         ReflectFailed, RunType
<1>7. CASE ReviewStep
  <2>1. CASE StartReview
    BY <1>1, <2>1 DEF StartReview, EnterReview, RunType
  <2>2. CASE ReviewAsk
    BY <1>1, <2>2 DEF ReviewAsk, ReviewRefused, RunType
  <2>3. CASE ReviewReject \/ ReviewRepair
    BY <1>1, <2>3 DEF ReviewReject, ReviewRepair, RunType
  <2>4. CASE ReviewedOut
    BY <1>2, <2>4, ReviewedOutSteps
  <2>5. QED
    BY <1>7, <2>1, <2>2, <2>3, <2>4 DEF ReviewStep, ReviewedOut
<1>8. CASE ProviderStep
  BY <1>8 DEF ProviderStep, runVars
<1>9. QED
  BY <1>4, <1>5, <1>6, <1>7, <1>8 DEF Next, RoleStep

\* Once the report is reviewed the run does nothing else.
LEMMA ReportStepInv ==
  ASSUME IInv, ReportInv, [Next]_vars
  PROVE  ReportInv'
<1>1. CASE UNCHANGED vars
  BY <1>1 DEF vars, ReportInv
<1>2. CASE StartReport
  <2>1. Leave("ended") \/ turn' = [turn EXCEPT !.pc = "reviewAsk", !.asked = 0]
    BY <1>2 DEF StartReport, EnterReview
  <2>2. turn'.pc \in {"ended", "reviewAsk"}
    BY <2>1, LeaveSet, RoleTypes DEF TurnType, PCs
  <2>3. QED
    BY <2>2 DEF ReportInv, ReviewPCs
<1>3. CASE Next /\ ~StartReport /\ ~run.report
  <2>1. run'.report = run.report
    BY <1>3, ReportKept
  <2>2. QED
    BY <1>3, <2>1 DEF ReportInv
<1>4. CASE Next /\ ~StartReport /\ run.report
  <2>1. turn.pc \in ReviewPCs \union {"ended"}
    BY <1>4 DEF ReportInv
  <2>2. turn'.pc \in ReviewPCs \union {"ended"}
    <3>1. CASE CallProvider
      BY <2>1, <3>1, LeaveSet DEF CallProvider, ReviewPCs, PCs
    <3>2. CASE ReviewAsk
      <4>1. Leave("ended") \/ turn' = [turn EXCEPT !.pc = "reviewInvoke", !.asked = @ + 1]
        BY <1>4, <3>2 DEF ReviewAsk, ReviewRefused
      <4>2. QED
        BY <4>1, LeaveSet, RoleTypes DEF TurnType, ReviewPCs, PCs
    <3>3. CASE ReviewRepair
      BY <3>3, LeaveSet DEF ReviewRepair, ReviewPCs, PCs
    <3>4. CASE ReviewedOut
      <4>1. Leave("ended")
        BY <1>4, <3>4, ReviewedOutSteps DEF Done
      <4>2. QED
        BY <4>1, LeaveSet DEF PCs
    <3>5. CASE ProviderStep
      BY <2>1, <3>5 DEF ProviderStep, runVars
    <3>6. ~(StartTurn \/ HeadFinalize \/ HeadStop \/ NextTurn) /\ ~PlannerStep /\ ~ReflectionStep
      BY <2>1 DEF ReviewPCs, StartTurn, HeadFinalize, HeadStop, NextTurn, PlannerStep, PlannerAsk,
         PlannerCompact, Readmit, PlannerCommit, PlannerContext, PlannerContextEnd, PlannerRepair,
         PlannerExhausted, PlannerFailed, PlannerDone, ReflectionStep, Reflect, ReflectAsk,
         ReflectAccept, ReflectRepair, ReflectExhausted, ReflectFailed, ReflectDone
    <3>7. ~StartReview /\ ~ReviewReject
      BY <1>4, <2>1 DEF ReviewPCs, StartReview, ReviewReject, CandidateReviewed
    <3>8. QED
      BY <1>4, <3>1, <3>2, <3>3, <3>4, <3>5, <3>6, <3>7
         DEF Next, RoleStep, TurnStep, ReviewStep, ReviewedOut
  <2>3. QED
    BY <2>2 DEF ReportInv
<1>5. QED
  BY <1>1, <1>2, <1>3, <1>4

-----------------------------------------------------------------------------
(* The properties *)

TurnInvariant == IInv /\ CountInv /\ UnreadInv /\ ReportInv

\* Every step of a role, of a child or of its parent counts its requests and keeps its records.
THEOREM TurnStepInv == TurnInvariant /\ [Next]_vars => TurnInvariant'
<1> SUFFICES ASSUME TurnInvariant, [Next]_vars PROVE TurnInvariant'
  OBVIOUS
<1>1. IInv /\ CountInv /\ UnreadInv /\ ReportInv
  BY DEF TurnInvariant
<1>2. IInv'
  BY <1>1, StepInv
<1>3. CountInv' /\ UnreadInv'
  <2>1. CASE UNCHANGED vars
    BY <1>1, <2>1 DEF vars, CountInv, UnreadInv, Lost
  <2>2. CASE TurnStep
    BY <1>1, <2>2, StartTurnTurn, BetweenTurn, CallProviderTurn DEF TurnStep
  <2>3. CASE PlannerStep
    BY <1>1, <2>3, PlannerAskTurn, PlannerOutTurn, ReadmitTurn, AnsweredTurn DEF PlannerStep
  <2>4. CASE ReflectionStep
    BY <1>1, <2>4, ReflectTurn, ReflectionTurn DEF ReflectionStep
  <2>5. CASE ReviewStep
    BY <1>1, <2>5, StartReviewTurn, ReviewTurn DEF ReviewStep, ReviewedOut
  <2>6. CASE ProviderStep
    BY <1>1, <2>6, GatewayTurn DEF ProviderStep
  <2>7. QED
    BY <2>1, <2>2, <2>3, <2>4, <2>5, <2>6 DEF Next, RoleStep
<1>4. ReportInv'
  BY <1>1, ReportStepInv
<1>5. QED
  BY <1>2, <1>3, <1>4 DEF TurnInvariant

LEMMA TurnInductive == Spec => []TurnInvariant
<1>1. Init => TurnInvariant
  BY InitInv DEF TurnInvariant, Init, GatewayInit, IdleTurn, CountInv, UnreadInv, ReportInv, AskedPCs
<1>2. QED
  BY <1>1, TurnStepInv, PTL DEF Spec

\* However a turn is left, between turns and at the end no role has usage that was not
\* read, but for the one exit of a report's Review that publishes nothing.
THEOREM PublishedTheorem == Spec => []UsagePublished
<1>1. TurnInvariant => UsagePublished
  BY DEF TurnInvariant, UnreadInv, Lost, UsagePublished, TurnPCs, ReviewPCs
<1>2. QED
  BY <1>1, TurnInductive, PTL

\* A turn is bounded for any number of context rounds: every request but the first
\* answers a round or the one repair.
THEOREM TurnTheorem == Spec => []TurnBounded
<1>1. ASSUME TurnInvariant PROVE TurnBounded
  <2>1. turn \in TurnType /\ CountInv
    BY <1>1, RoleTypes DEF TurnInvariant
  <2>2. /\ turn.asked \in Nat /\ turn.rounds \in Nat /\ turn.rounds <= ContextRounds
        /\ ContextRounds \in Nat
    BY <2>1, TurnAssumption DEF TurnType
  <2>3. QED
    BY <2>1, <2>2 DEF CountInv, Answered, TurnBounded, AskedPCs
<1>2. QED
  BY <1>1, TurnInductive, PTL

-----------------------------------------------------------------------------
(* Tokens: what the run has been billed, read or not, against its limit.  A     *)
(* request of the Planner is checked on all of it; both requests of the other   *)
(* agents are checked on what was billed when they were admitted.  Floor is what a  *)
(* run can have been billed when its next request passes the check.                 *)

Billed == Tokens(acct) + UnreadTokens
Floor == Over(TotalTokens, TerminalTokens + Need)
TokensInv ==
  /\ Billed <= Floor + 2 * MaxBill
  /\ turn.pc \in {"invoke", "wait"} /\ call.st # "done" => Billed <= Floor
  /\ turn.pc \in {"reflectAsk", "reviewAsk"} =>
       /\ turn.asked # 0 => bud.tokens <= Floor
       /\ Billed <= bud.tokens + (IF turn.asked = 0 THEN 0 ELSE MaxBill)
  /\ turn.pc \in AskedPCs =>
       /\ bud.tokens <= Floor
       /\ Billed <= bud.tokens + (IF turn.asked = 1 THEN 0 ELSE MaxBill)
                               + (IF call.st = "done" THEN MaxBill ELSE 0)

LEMMA BilledNat ==
  ASSUME IInv
  PROVE  /\ Billed \in Nat /\ UnreadTokens \in Nat /\ Tokens(acct) \in Nat /\ bud.tokens \in Nat
         /\ Floor \in Nat /\ MaxBill \in Nat /\ turn.asked \in Nat
<1>1. UnreadTokens \in Nat /\ bud.tokens \in Nat /\ turn.asked \in Nat /\ Tokens(acct) \in Nat
  BY RoleTypes DEF UsageType, UnreadTokens, Roles, BudgetType, TurnType
<1>2. TotalTokens \in Nat /\ TerminalTokens + Need \in Nat
  BY AllocationAssumption DEF TotalTokens
<1>3. Floor \in Nat
  BY <1>2, OverNat DEF Floor
<1>4. QED
  BY <1>1, <1>3, UsageAssumption DEF Billed

\* Publishing moves usage from the records to the counters and changes no sum.
LEMMA PublishedBilled ==
  ASSUME IInv, NEW role \in Roles, NEW a \in AcctType, NEW b, Published(role, a, b),
         a.spent = acct.spent
  PROVE  Billed' = Billed
<1>1. unread' = [unread EXCEPT ![role] = NoUsage] /\ acct' = Publish(role, a)
  BY DEF Published
<1>2. /\ unread \in UsageType /\ acct.spent \in Counter
      /\ \A r \in Roles : unread[r].t \in Nat /\ acct.spent[r] \in Nat
  BY RoleTypes DEF UsageType, AcctType, Counter
<1>3. \A r \in Roles : unread'[r].t = IF r = role THEN 0 ELSE unread[r].t
  BY <1>1, <1>2 DEF UsageType, NoUsage
<1>4. acct'.spent = [acct.spent EXCEPT ![role] = @ + unread[role].t]
  BY <1>1 DEF Publish, AcctType
<1>5. \A r \in Roles : acct'.spent[r] = acct.spent[r] + (IF r = role THEN unread[r].t ELSE 0)
  BY <1>2, <1>4 DEF Counter
<1>6. QED
  BY <1>2, <1>3, <1>5 DEF Billed, Tokens, UnreadTokens, Roles

\* Counting a call changes no sum either.
LEMMA CountsKeep ==
  ASSUME IInv
  PROVE  /\ CountCall(acct).spent = acct.spent /\ UncountCall(acct).spent = acct.spent
         /\ Tokens(CountCall(acct)) = Tokens(acct) /\ Tokens(UncountCall(acct)) = Tokens(acct)
BY RoleTypes DEF CountCall, UncountCall, AcctType, Tokens

\* A step out of a turn, or on to the next admission, has only to keep the sum.
LEMMA OutTokens ==
  ASSUME TokensInv, Billed' = Billed, turn'.pc \in Between \union {"ask", "readmit"}
  PROVE  TokensInv'
<1>1. Floor' = Floor
  BY DEF Floor, TotalTokens, Over
<1>2. QED
  BY <1>1 DEF TokensInv, Between, AskedPCs

LEMMA PublishedTokens ==
  ASSUME IInv, TokensInv, NEW role \in Roles, NEW a \in AcctType, NEW b, Published(role, a, b),
         a.spent = acct.spent, turn'.pc \in Between \union {"ask", "readmit"}
  PROVE  TokensInv'
BY PublishedBilled, OutTokens

\* A request that is not refused leaves itself and the terminal reserve to the run.
LEMMA PromptFits ==
  ASSUME NEW b, NEW stage, NEW projection, ~PromptRefused(b, stage, projection), b.tokens \in Nat
  PROVE  b.tokens <= Floor
<1>1. Need \in Nat \ {0} /\ TerminalTokens \in Nat /\ TotalTokens \in Nat
  BY AllocationAssumption DEF TotalTokens
<1>2. ~(Need + TerminalTokens > Over(TotalTokens, b.tokens))
  BY DEF PromptRefused
<1>3. QED
  BY <1>1, <1>2 DEF Over, Floor

LEMMA RefusedTokens ==
  ASSUME IInv, TokensInv, NEW why, NEW b, TurnRefused(why, b)
  PROVE  TokensInv'
<1> DEFINE a == IF why = "terminal_reserve_protected" THEN UncountCall(acct) ELSE acct
<1>1. Published("planner", a, b) /\ a \in AcctType /\ a.spent = acct.spent /\ "planner" \in Roles
  BY RoleTypes, CountsKeep DEF TurnRefused
<1>2. \E pc \in Between : Leave(pc)
  BY DEF TurnRefused, Stop, Inconclusive, Between
<1>3. turn'.pc \in Between
  BY <1>2, LeaveSet DEF Between, PCs
<1> HIDE DEF a
<1>4. QED
  BY <1>1, <1>3, PublishedTokens

LEMMA AdmittedTokens ==
  ASSUME IInv, TokensInv, acct' = CountCall(acct), unread' = unread, turn'.pc = "ask"
  PROVE  TokensInv'
<1>1. Billed' = Billed
  BY CountsKeep DEF Billed, UnreadTokens, Tokens
<1>2. QED
  BY <1>1, OutTokens

LEMMA TurnTokens ==
  ASSUME IInv, TokensInv, StartTurn \/ Readmit
  PROVE  TokensInv'
<1>1. CASE \E why, b : TurnRefused(why, b)
  BY <1>1, RefusedTokens
<1>2. CASE StartTurn /\ ~\E why, b : TurnRefused(why, b)
  <2>1. /\ acct' = CountCall(acct) /\ unread' = unread
        /\ \E projection \in BOOLEAN :
             turn' = [turn EXCEPT !.pc = "ask", !.asked = 0, !.rounds = 0, !.retried = FALSE,
                                  !.projection = projection, !.triggers = 0]
    BY <1>2 DEF StartTurn
  <2>2. turn'.pc = "ask"
    BY <2>1, RoleTypes DEF TurnType
  <2>3. QED
    BY <2>1, <2>2, AdmittedTokens
<1>3. CASE Readmit /\ ~\E why, b : TurnRefused(why, b)
  <2>1. acct' = CountCall(acct) /\ unread' = unread /\ Goto("ask")
    BY <1>3 DEF Readmit
  <2>2. turn'.pc = "ask"
    BY <2>1, LeaveSet DEF PCs
  <2>3. QED
    BY <2>1, <2>2, AdmittedTokens
<1>4. QED
  BY <1>1, <1>2, <1>3

LEMMA PlannerAskTokens ==
  ASSUME IInv, TokensInv, PlannerAsk
  PROVE  TokensInv'
<1> DEFINE b == RequestBudget
<1>1. CASE \E why, c : TurnRefused(why, c)
  BY <1>1, RefusedTokens
<1>2. CASE ~\E why, c : TurnRefused(why, c)
  <2>1. /\ ~PromptRefused(b, "planner", turn.projection)
        /\ turn' = [turn EXCEPT !.pc = "invoke", !.asked = @ + 1]
        /\ UNCHANGED <<unread, acct>>
    BY <1>2 DEF PlannerAsk
  <2>2. b.tokens = Billed
    BY RoleTypes DEF RequestBudget, SetRunUsage, BudgetType, Billed
  <2> HIDE DEF b
  <2>3. Billed <= Floor
    BY <2>1, <2>2, BilledNat, PromptFits
  <2>4. turn'.pc = "invoke" /\ Billed' = Billed /\ Floor' = Floor
    BY <2>1, RoleTypes DEF TurnType, Billed, UnreadTokens, Tokens, Floor, TotalTokens, Over
  <2>5. Billed' <= Floor' /\ Billed' <= Floor' + 2 * MaxBill
    BY <2>3, <2>4, BilledNat
  <2>6. QED
    BY <2>4, <2>5 DEF TokensInv, AskedPCs
<1>3. QED
  BY <1>1, <1>2

LEMMA PlannerOutTokens ==
  ASSUME IInv, TokensInv,
         \/ PlannerCompact \/ PlannerContextEnd \/ PlannerExhausted \/ PlannerFailed \/ PlannerCommit
         \/ PlannerContext
  PROVE  TokensInv'
<1>1. PICK a \in {acct, UncountCall(acct)} : \E b : Published("planner", a, b)
  BY DEF PlannerCompact, PlannerContextEnd, PlannerExhausted, PlannerFailed, PlannerCommit,
     PlannerContext
<1>2. a \in AcctType /\ a.spent = acct.spent /\ "planner" \in Roles
  BY RoleTypes, CountsKeep
<1>3. \/ \E pc \in Between : Leave(pc)
      \/ turn' = [turn EXCEPT !.pc = "readmit", !.rounds = @ + 1, !.targeted = FALSE]
  BY DEF PlannerCompact, PlannerContextEnd, PlannerExhausted, PlannerFailed, PlannerCommit,
     PlannerContext, Stop, Done, Inconclusive, Between
<1>4. turn'.pc \in Between \union {"ask", "readmit"}
  <2>1. CASE \E pc \in Between : Leave(pc)
    BY <2>1, LeaveSet DEF Between, PCs
  <2>2. CASE turn' = [turn EXCEPT !.pc = "readmit", !.rounds = @ + 1, !.targeted = FALSE]
    BY <2>2, RoleTypes DEF TurnType
  <2>3. QED
    BY <1>3, <2>1, <2>2
<1>5. QED
  BY <1>1, <1>2, <1>4, PublishedTokens

\* Steps that go to the next head or repair without usage of their own.
LEMMA QuietTokens ==
  ASSUME IInv, TokensInv, HeadFinalize \/ HeadStop \/ NextTurn \/ PlannerRepair
  PROVE  TokensInv'
<1>1. Billed' = Billed
  BY DEF HeadFinalize, HeadStop, NextTurn, PlannerRepair, gatewayVars, Billed, UnreadTokens, Tokens
<1>2. turn'.pc \in Between \union {"ask", "readmit"}
  <2>1. CASE \E pc \in Between : Leave(pc)
    BY <2>1, LeaveSet DEF Between, PCs
  <2>2. CASE PlannerRepair
    BY <2>2, RoleTypes DEF PlannerRepair, TurnType
  <2>3. QED
    BY <2>1, <2>2 DEF HeadFinalize, HeadStop, NextTurn, Stop, Inconclusive, Between
<1>3. QED
  BY <1>1, <1>2, OutTokens

LEMMA CallProviderTokens ==
  ASSUME IInv, TokensInv, CallProvider
  PROVE  TokensInv'
<1> DEFINE pc == CASE turn.pc = "invoke" -> "wait" [] turn.pc = "reflectInvoke" -> "reflectWait"
                   [] OTHER -> "reviewWait"
<1>1. /\ turn.pc \in {"invoke", "reflectInvoke", "reviewInvoke"} /\ turn' = [turn EXCEPT !.pc = pc]
      /\ UNCHANGED <<bud, unread, acct>> /\ call.st = "none"
  BY DEF CallProvider, Goto, Invoke
<1>2. /\ turn'.pc = pc /\ turn'.asked = turn.asked /\ Billed' = Billed /\ bud' = bud
      /\ Floor' = Floor
  BY <1>1, RoleTypes DEF TurnType, Billed, UnreadTokens, Tokens, Floor, TotalTokens, Over
<1>3. QED
  BY <1>1, <1>2, BilledNat DEF TokensInv, AskedPCs

-----------------------------------------------------------------------------
(* Reflection and Review *)

\* Admission is counted, and between turns every record was read.
LEMMA AdmittedRequest ==
  ASSUME IInv, UnreadInv, TokensInv, turn.pc \in Between \ {"ended"}, unread' = unread,
         acct'.spent = acct.spent, bud'.tokens = Tokens(acct),
         turn'.pc \in {"reflectAsk", "reviewAsk"}, turn'.asked = 0
  PROVE  TokensInv'
<1>1. \A r \in Roles : unread[r] = NoUsage
  BY DEF UnreadInv, Lost, Between, TurnPCs, ReviewPCs
<1>2. UnreadTokens = 0
  BY <1>1 DEF UnreadTokens, NoUsage, Roles
<1>3. Billed' = Billed /\ Floor' = Floor
  BY DEF Billed, UnreadTokens, Tokens, Floor, TotalTokens, Over
<1>4. Billed = Tokens(acct)
  BY <1>2, BilledNat DEF Billed
<1>5. QED
  BY <1>3, <1>4, BilledNat DEF TokensInv, AskedPCs

LEMMA ReflectTokens ==
  ASSUME IInv, UnreadInv, TokensInv, Reflect
  PROVE  TokensInv'
<1> DEFINE triggered == [turn EXCEPT !.triggers = @ + 1]
<1>1. /\ turn.pc = "after" /\ bud' = Admitted(bud, acct) /\ unread' = unread
      /\ \/ /\ acct' = CountCall(acct)
            /\ turn' = [triggered EXCEPT !.pc = "reflectAsk", !.asked = 0]
         \/ acct' \in {acct, UncountCall(acct)} /\ turn' = triggered
  BY DEF Reflect
<1>2. bud'.tokens = Tokens(acct)
  BY <1>1, RoleTypes DEF Admitted, SetRunUsage, BudgetType
<1>3. acct'.spent = acct.spent
  BY <1>1, CountsKeep
<1>4. CASE turn' = [triggered EXCEPT !.pc = "reflectAsk", !.asked = 0]
  <2>1. turn'.pc = "reflectAsk" /\ turn'.asked = 0
    BY <1>4, RoleTypes DEF TurnType
  <2>2. QED
    BY <1>1, <1>2, <1>3, <2>1, AdmittedRequest DEF Between
<1>5. CASE turn' = triggered
  <2>1. turn'.pc = "after"
    BY <1>1, <1>5, RoleTypes DEF TurnType
  <2>2. Billed' = Billed
    BY <1>1, <1>3 DEF Billed, UnreadTokens, Tokens
  <2>3. QED
    BY <2>1, <2>2, OutTokens DEF Between
<1>6. QED
  BY <1>1, <1>4, <1>5

LEMMA StartReviewTokens ==
  ASSUME IInv, UnreadInv, TokensInv, StartReview \/ StartReport
  PROVE  TokensInv'
<1> DEFINE b == BeginReview(bud, Tokens(acct), acct.logical)
<1>1. /\ turn.pc \in {"candidate", "report"} /\ unread' = unread
      /\ \/ Inconclusive /\ acct' = acct
         \/ /\ acct' = [CountCall(acct) EXCEPT !.reviews = @ + 1]
            /\ bud' = [Admitted(b, acct) EXCEPT !.reviewUsed = acct.reviews + 1]
            /\ turn' = [turn EXCEPT !.pc = "reviewAsk", !.asked = 0]
  BY DEF StartReview, StartReport, EnterReview, Inconclusive
<1>2. b \in BudgetType
  BY RoleTypes, ReviewSet
<1> HIDE DEF b
<1>3. CASE Inconclusive /\ acct' = acct
  <2>1. turn'.pc \in {"ended", "report"}
    BY <1>3, LeaveSet
  <2>2. Billed' = Billed
    BY <1>1, <1>3 DEF Billed, UnreadTokens, Tokens
  <2>3. QED
    BY <2>1, <2>2, OutTokens DEF Between
<1>4. CASE /\ acct' = [CountCall(acct) EXCEPT !.reviews = @ + 1]
           /\ bud' = [Admitted(b, acct) EXCEPT !.reviewUsed = acct.reviews + 1]
           /\ turn' = [turn EXCEPT !.pc = "reviewAsk", !.asked = 0]
  <2>1. turn'.pc = "reviewAsk" /\ turn'.asked = 0
    BY <1>4, RoleTypes DEF TurnType
  <2>2. bud'.tokens = Tokens(acct)
    BY <1>2, <1>4 DEF Admitted, SetRunUsage, BudgetType
  <2>3. acct'.spent = acct.spent
    BY <1>4, RoleTypes DEF CountCall, AcctType
  <2>4. QED
    BY <1>1, <2>1, <2>2, <2>3, AdmittedRequest DEF Between
<1>5. QED
  BY <1>1, <1>3, <1>4

\* A request of an agent that is not refused was checked on the figures of its admission.
LEMMA RequestTokens ==
  ASSUME IInv, CountInv, TokensInv, NEW stage, ~PromptRefused(bud, stage, FALSE),
         turn.pc \in {"reflectAsk", "reviewAsk"}, call.st # "done",
         turn'.pc \in {"reflectInvoke", "reviewInvoke"}, turn'.asked = turn.asked + 1,
         UNCHANGED <<bud, unread, call, acct>>
  PROVE  TokensInv'
<1>1. /\ Billed <= bud.tokens + (IF turn.asked = 0 THEN 0 ELSE MaxBill)
      /\ turn.asked <= 1
  BY DEF TokensInv, CountInv
<1>2. bud.tokens <= Floor
  BY BilledNat, PromptFits
<1>3. /\ Billed' = Billed /\ Floor' = Floor
      /\ bud' = bud /\ call' = call
  BY DEF Billed, UnreadTokens, Tokens, Floor, TotalTokens, Over
<1>4. QED
  BY <1>1, <1>2, <1>3, BilledNat DEF TokensInv, AskedPCs

\* One repair goes back to the check with one answer billed.
LEMMA RepairTokens ==
  ASSUME IInv, TokensInv, ReflectRepair \/ ReviewRepair
  PROVE  TokensInv'
<1>1. /\ turn.pc \in {"reflectWait", "reviewWait"} /\ turn.asked < 2 /\ turn.asked >= 1
      /\ UNCHANGED <<bud, unread, acct>>
  BY DEF ReflectRepair, ReviewRepair, ReflectDone, ReviewDone, IInv, CallInv, AskedPCs
<1>2. turn'.pc \in {"reflectAsk", "reviewAsk"} /\ turn'.asked = turn.asked
  BY LeaveSet DEF ReflectRepair, ReviewRepair, PCs
<1>3. /\ Billed' = Billed /\ Floor' = Floor /\ bud' = bud
  BY <1>1 DEF Billed, UnreadTokens, Tokens, Floor, TotalTokens, Over
<1>4. turn.asked = 1
  BY <1>1, BilledNat
<1>5. bud.tokens <= Floor /\ Billed <= bud.tokens + MaxBill
  BY <1>1, <1>4, BilledNat DEF TokensInv, AskedPCs
<1>6. QED
  BY <1>2, <1>3, <1>4, <1>5, BilledNat DEF TokensInv, AskedPCs

LEMMA ReflectionTokens ==
  ASSUME IInv, CountInv, TokensInv, ReflectAsk \/ ReflectAccept \/ ReflectExhausted \/ ReflectFailed
  PROVE  TokensInv'
<1>1. CASE ReflectAsk /\ turn' = [turn EXCEPT !.pc = "reflectInvoke", !.asked = @ + 1]
  <2>1. turn'.pc = "reflectInvoke" /\ turn'.asked = turn.asked + 1 /\ turn.pc = "reflectAsk"
    BY <1>1, RoleTypes DEF TurnType, ReflectAsk
  <2>2. call.st # "done"
    BY <2>1 DEF IInv, CallInv, WaitPCs
  <2>3. ~Leave("ended") /\ ~Resume
    BY <2>1, LeaveSet DEF PCs
  <2>4. ~PromptRefused(bud, "reflection", FALSE) /\ UNCHANGED <<bud, unread, call, acct>>
    BY <1>1, <2>3 DEF ReflectAsk, gatewayVars
  <2>5. QED
    BY <2>1, <2>2, <2>4, RequestTokens
<1>2. CASE /\ \E a \in AcctType : a.spent = acct.spent /\ \E b : Published("reflection", a, b)
           /\ Leave("ended") \/ Resume \/ Stop \/ Done
  <2>1. turn'.pc \in Between
    BY <1>2, LeaveSet DEF Between, PCs
  <2>2. QED
    BY <1>2, <2>1, PublishedTokens, RoleTypes
<1>3. CASE ReflectAccept
  <2> DEFINE a == [acct EXCEPT !.logical = @ + (IF Exceeds("reflection", acct) THEN 0 ELSE turn.asked - 1)]
  <2>1. turn.asked >= 1 /\ Resume /\ Published("reflection", a, bud)
    BY <1>3 DEF ReflectAccept, ReflectDone, IInv, CallInv, AskedPCs
  <2>2. acct.logical + (IF Exceeds("reflection", acct) THEN 0 ELSE turn.asked - 1) \in Nat
    BY <2>1, RoleTypes, BilledNat
  <2>3. a \in AcctType /\ a.spent = acct.spent
    BY <2>2, RoleTypes DEF AcctType
  <2> HIDE DEF a
  <2>4. QED
    BY <1>2, <2>1, <2>3
<1>4. CASE ReflectExhausted \/ ReflectFailed
  <2>1. Published("reflection", acct, bud) /\ (Stop \/ Done \/ Resume)
    BY <1>4 DEF ReflectExhausted, ReflectFailed
  <2>2. QED
    BY <1>2, <2>1, RoleTypes
<1>5. CASE ReflectAsk /\ Published("reflection", UncountCall(acct), bud) /\ (Leave("ended") \/ Resume)
  BY <1>2, <1>5, RoleTypes, CountsKeep
<1>6. QED
  BY <1>1, <1>3, <1>4, <1>5 DEF ReflectAsk

LEMMA ReviewTokensInv ==
  ASSUME IInv, CountInv, TokensInv, ReviewAsk \/ ReviewReject \/ ReviewedOut
  PROVE  TokensInv'
<1>1. CASE ReviewAsk /\ ~ReviewRefused
  <2>1. /\ turn' = [turn EXCEPT !.pc = "reviewInvoke", !.asked = @ + 1] /\ turn.pc = "reviewAsk"
        /\ ~PromptRefused(bud, "review", FALSE) /\ UNCHANGED <<bud, unread, call, acct>>
    BY <1>1 DEF ReviewAsk, gatewayVars
  <2>2. turn'.pc = "reviewInvoke" /\ turn'.asked = turn.asked + 1
    BY <2>1, RoleTypes DEF TurnType
  <2>3. call.st # "done"
    BY <2>1 DEF IInv, CallInv, WaitPCs
  <2>4. QED
    BY <2>1, <2>2, <2>3, RequestTokens
<1>2. CASE /\ \E a \in AcctType : a.spent = acct.spent /\ \E b : Published("review", a, b)
           /\ Inconclusive \/ Done \/ Stop \/ Leave("after")
  <2>1. turn'.pc \in Between
    BY <1>2, LeaveSet DEF Between, PCs
  <2>2. QED
    BY <1>2, <2>1, PublishedTokens, RoleTypes
<1>3. CASE ReviewReject
  <2>1. /\ turn.pc = "reviewWait" /\ Leave("after")
        /\ \E b : Published("review", ReviewedAcct, b)
    BY <1>3 DEF ReviewReject, CandidateReviewed, ReviewDone
  <2>2. ReviewedAcct \in AcctType /\ ReviewedAcct.spent = acct.spent
    BY <2>1, ReviewedSet, RoleTypes DEF ReviewedAcct, AcctType
  <2>3. QED
    BY <1>2, <2>1, <2>2
<1>4. CASE ReviewedOut
  BY <1>2, <1>4, ReviewedOutSteps
<1>5. CASE ReviewAsk /\ ReviewRefused
  <2> DEFINE a == [UncountCall(acct) EXCEPT !.reviews = Less(@)]
             b == [bud EXCEPT !.reviewUsed = a.reviews]
  <2>1. \/ Published("review", a, b) /\ Inconclusive
        \/ acct' = a /\ unread' = unread /\ Leave("ended")
    BY <1>5 DEF ReviewRefused
  <2>2. a \in AcctType /\ a.spent = acct.spent
    BY RoleTypes, CountsKeep DEF AcctType, Less
  <2> HIDE DEF a, b
  <2>3. CASE acct' = a /\ unread' = unread /\ Leave("ended")
    <3>1. Billed' = Billed
      BY <2>2, <2>3 DEF Billed, UnreadTokens, Tokens
    <3>2. turn'.pc = "ended"
      BY <2>3, LeaveSet DEF PCs
    <3>3. QED
      BY <3>1, <3>2, OutTokens DEF Between
  <2>4. QED
    BY <1>2, <2>1, <2>2, <2>3
<1>6. QED
  BY <1>1, <1>3, <1>4, <1>5

-----------------------------------------------------------------------------
(* The answer is billed *)

LEMMA GatewayTokens ==
  ASSUME IInv, TokensInv, GatewayStep, UNCHANGED runVars
  PROVE  TokensInv'
<1>1. /\ turn' = turn /\ acct' = acct /\ bud' = bud /\ Floor' = Floor
  BY DEF runVars, GatewayStep, ChildStep, ChildAdmit, ChildCount, ChildSend, ChildRetry, ChildReply,
     Collect, Kill, Floor, TotalTokens, Over
<1>2. CASE unread' = unread
  <2>1. Billed' = Billed
    BY <1>1, <1>2 DEF Billed, UnreadTokens, Tokens
  <2>2. call.st # "done"
    BY DEF GatewayStep, ChildStep, ChildAdmit, ChildCount, ChildSend, ChildRetry, ChildReply,
       Collect, Kill, Alive
  <2>3. QED
    BY <1>1, <2>1, <2>2, BilledNat DEF TokensInv
<1>3. CASE Collect
  <2>1. PICK u \in Usages \union {NoUsage} :
          unread' = [unread EXCEPT ![call.role] = AddUsages(@, u)]
    BY <1>3 DEF Collect
  <2>2. u.t \in Nat /\ u.t <= MaxBill
    BY <2>1, UsageAssumption DEF NoUsage
  <2>3. /\ call.role \in Roles /\ unread \in UsageType
        /\ \A r \in Roles : unread[r].t \in Nat
    BY RoleTypes, GatewayFacts DEF UsageType
  <2>4. \A r \in Roles : unread'[r].t = unread[r].t + (IF r = call.role THEN u.t ELSE 0)
    BY <2>1, <2>2, <2>3 DEF UsageType, AddUsages
  <2>5. UnreadTokens' = UnreadTokens + u.t
    BY <2>2, <2>3, <2>4 DEF UnreadTokens, Roles
  <2>6. Billed' = Billed + u.t
    BY <1>1, <2>2, <2>5, BilledNat DEF Billed, Tokens
  <2>7. turn.pc \in WaitPCs /\ call.st = "replied" /\ call'.st = "done"
    BY <1>3, GatewayFacts DEF Collect, CallType, IInv, CallInv
  <2>8. CASE turn.pc = "wait"
    BY <1>1, <2>2, <2>6, <2>7, <2>8, BilledNat DEF TokensInv, AskedPCs
  <2>9. CASE turn.pc \in {"reflectWait", "reviewWait"}
    BY <1>1, <2>2, <2>6, <2>7, <2>9, BilledNat DEF TokensInv, AskedPCs
  <2>10. QED
    BY <2>7, <2>8, <2>9 DEF WaitPCs
<1>4. QED
  BY <1>2, <1>3 DEF GatewayStep, ChildStep, ChildAdmit, ChildCount, ChildSend, ChildRetry,
     ChildReply, Kill

TokensInvariant == TurnInvariant /\ TokensInv

\* Every step keeps the run within what its last check left and two bills.
THEOREM TokensStepInv == TokensInvariant /\ [Next]_vars => TokensInvariant'
<1> SUFFICES ASSUME TokensInvariant, [Next]_vars PROVE TokensInvariant'
  OBVIOUS
<1>1. IInv /\ CountInv /\ UnreadInv /\ TokensInv
  BY DEF TokensInvariant, TurnInvariant
<1>2. TurnInvariant'
  BY TurnStepInv DEF TokensInvariant
<1>3. TokensInv'
  <2>1. CASE UNCHANGED vars
    BY <1>1, <2>1 DEF vars, TokensInv, Billed, UnreadTokens, Tokens, Floor, TotalTokens, Over
  <2>2. CASE TurnStep
    BY <1>1, <2>2, TurnTokens, QuietTokens, CallProviderTokens DEF TurnStep
  <2>3. CASE PlannerStep
    BY <1>1, <2>3, PlannerAskTokens, PlannerOutTokens, TurnTokens, QuietTokens DEF PlannerStep
  <2>4. CASE ReflectionStep
    BY <1>1, <2>4, ReflectTokens, ReflectionTokens, RepairTokens DEF ReflectionStep
  <2>5. CASE ReviewStep
    BY <1>1, <2>5, StartReviewTokens, ReviewTokensInv, RepairTokens DEF ReviewStep, ReviewedOut
  <2>6. CASE ProviderStep
    BY <1>1, <2>6, GatewayTokens DEF ProviderStep
  <2>7. QED
    BY <2>1, <2>2, <2>3, <2>4, <2>5, <2>6 DEF Next, RoleStep
<1>4. QED
  BY <1>2, <1>3 DEF TokensInvariant

\* Whatever is retried, repaired, killed or lost, and whatever an answer is billed, a run is
\* never billed more than two answers beyond what its last check left to requests.
THEOREM TokensTheorem == Spec => []TokensBounded
<1>1. Init => TokensInvariant
  <2> SUFFICES ASSUME Init PROVE TokensInvariant
    OBVIOUS
  <2>1. TurnInvariant
    BY InitInv DEF TurnInvariant, Init, GatewayInit, IdleTurn, CountInv, UnreadInv, ReportInv, AskedPCs
  <2>2. Billed = 0 /\ turn.pc = "head"
    BY DEF Init, GatewayInit, IdleTurn, Billed, Tokens, UnreadTokens, NoUsage, Roles
  <2>3. TokensInv
    BY <2>1, <2>2, BilledNat DEF TurnInvariant, TokensInv, AskedPCs
  <2>4. QED
    BY <2>1, <2>3 DEF TokensInvariant
<1>2. TokensInvariant /\ [Next]_vars => TokensInvariant'
  BY TokensStepInv
<1>3. TokensInvariant => TokensBounded
  BY DEF TokensInvariant, TokensInv, TokensBounded, Billed, Floor
<1>4. QED
  BY <1>1, <1>2, <1>3, PTL DEF Spec

-----------------------------------------------------------------------------
(* Every step goes down.  Of RunEnds, which is about fairness, this is the part about
   safety: a run that never ended would take infinitely many steps, and each of them
   leaves less of Variant, in the lexicographic order of tuples of natural numbers.

   A charged attempt goes below everything else, so that what an answer makes possible may
   rank higher; a call refused before it was forked is not charged and ranks below the
   request it was made for.  Reflections after one turn share a stage: each of them uses
   one of its triggers. *)

Returned(c) == c.st = "done" /\ c.out # "limit"
Stage(pc, c) ==
  CASE pc \in {"wait", "reviewWait"} /\ Returned(c) -> 13
    [] pc = "reviewAsk" -> 12
    [] pc = "reviewInvoke" -> 11
    [] pc = "reviewWait" /\ ~Returned(c) -> 10
    [] pc \in {"after", "reflectAsk", "reflectInvoke", "reflectWait"} -> 8
    [] pc = "readmit" -> 7
    [] pc = "head" -> 6
    [] pc = "ask" -> 5
    [] pc = "invoke" -> 4
    [] pc = "wait" /\ ~Returned(c) -> 3
    [] pc = "candidate" -> 2
    [] pc = "report" -> 1
    [] OTHER -> 0
ReflectStage(pc, c) ==
  CASE pc = "reflectWait" /\ Returned(c) -> 4
    [] pc = "reflectAsk" -> 3
    [] pc = "reflectInvoke" -> 2
    [] pc = "reflectWait" /\ ~Returned(c) -> 1
    [] OTHER -> 0
CallStage(c) ==
  CASE c.st = "counted" -> 6 [] c.st = "sent" -> 5 [] c.st = "forked" -> 4
    [] c.st = "locked" -> 3 [] c.st = "replied" -> 2 [] OTHER -> 0
ReviewsLeft == MaxReviewRounds - run.reviewRounds + (IF run.report THEN 0 ELSE 1)
Variant ==
  <<TotalCalls - Total(ledger), ReviewsLeft,
    CompactionLimit - run.compactions, Stage(turn.pc, call), TriggersPerTurn - turn.triggers,
    ReflectStage(turn.pc, call), MaxAttempts - call.shared, CallStage(call)>>
\* s is below t: less in some place, and not more in any place before it.
Places == 1..8
Below(s, t) == \E i \in Places : s[i] < t[i] /\ \A j \in 1 .. i - 1 : s[j] <= t[j]

LEMMA BelowPlace ==
  ASSUME NEW s, NEW t,
         \/ s[1] < t[1]
         \/ s[1] <= t[1] /\ s[2] < t[2]
         \/ s[1] <= t[1] /\ s[2] <= t[2] /\ s[3] < t[3]
         \/ s[1] <= t[1] /\ s[2] <= t[2] /\ s[3] <= t[3] /\ s[4] < t[4]
         \/ s[1] <= t[1] /\ s[2] <= t[2] /\ s[3] <= t[3] /\ s[4] <= t[4] /\ s[5] < t[5]
         \/ s[1] <= t[1] /\ s[2] <= t[2] /\ s[3] <= t[3] /\ s[4] <= t[4] /\ s[5] <= t[5]
              /\ s[6] < t[6]
         \/ s[1] <= t[1] /\ s[2] <= t[2] /\ s[3] <= t[3] /\ s[4] <= t[4] /\ s[5] <= t[5] /\ s[6] <= t[6]
              /\ s[7] < t[7]
         \/ s[1] <= t[1] /\ s[2] <= t[2] /\ s[3] <= t[3] /\ s[4] <= t[4] /\ s[5] <= t[5] /\ s[6] <= t[6]
              /\ s[7] <= t[7] /\ s[8] < t[8]
  PROVE  Below(s, t)
<1>1. ASSUME NEW i \in 1..8, s[i] < t[i], \A j \in 1 .. i - 1 : s[j] <= t[j]
      PROVE  Below(s, t)
  BY <1>1 DEF Below, Places
<1>2. CASE s[1] < t[1]
  BY <1>1, <1>2
<1>3. CASE s[1] <= t[1] /\ s[2] < t[2]
  <2>1. \A j \in 1 .. 2 - 1 : s[j] <= t[j]
    BY <1>3
  <2>2. QED
    BY <1>1, <1>3, <2>1
<1>4. CASE s[1] <= t[1] /\ s[2] <= t[2] /\ s[3] < t[3]
  <2>1. \A j \in 1 .. 3 - 1 : s[j] <= t[j]
    BY <1>4
  <2>2. QED
    BY <1>1, <1>4, <2>1
<1>5. CASE s[1] <= t[1] /\ s[2] <= t[2] /\ s[3] <= t[3] /\ s[4] < t[4]
  <2>1. \A j \in 1 .. 4 - 1 : s[j] <= t[j]
    BY <1>5
  <2>2. QED
    BY <1>1, <1>5, <2>1
<1>6. CASE s[1] <= t[1] /\ s[2] <= t[2] /\ s[3] <= t[3] /\ s[4] <= t[4] /\ s[5] < t[5]
  <2>1. \A j \in 1 .. 5 - 1 : s[j] <= t[j]
    BY <1>6
  <2>2. QED
    BY <1>1, <1>6, <2>1
<1>7. CASE s[1] <= t[1] /\ s[2] <= t[2] /\ s[3] <= t[3] /\ s[4] <= t[4] /\ s[5] <= t[5]
           /\ s[6] < t[6]
  <2>1. \A j \in 1 .. 6 - 1 : s[j] <= t[j]
    BY <1>7
  <2>2. QED
    BY <1>1, <1>7, <2>1
<1>8. CASE s[1] <= t[1] /\ s[2] <= t[2] /\ s[3] <= t[3] /\ s[4] <= t[4] /\ s[5] <= t[5]
           /\ s[6] <= t[6] /\ s[7] < t[7]
  <2>1. \A j \in 1 .. 7 - 1 : s[j] <= t[j]
    BY <1>8
  <2>2. QED
    BY <1>1, <1>8, <2>1
<1>9. CASE s[1] <= t[1] /\ s[2] <= t[2] /\ s[3] <= t[3] /\ s[4] <= t[4] /\ s[5] <= t[5]
           /\ s[6] <= t[6] /\ s[7] <= t[7] /\ s[8] < t[8]
  <2>1. \A j \in 1 .. 8 - 1 : s[j] <= t[j]
    BY <1>9
  <2>2. QED
    BY <1>1, <1>9, <2>1
<1>10. QED
  BY <1>2, <1>3, <1>4, <1>5, <1>6, <1>7, <1>8, <1>9

\* No part of it is negative: each limit is kept by the invariant.
VariantParts ==
  /\ TotalCalls - Total(ledger) \in Nat /\ Total(ledger) \in Nat
  /\ ReviewsLeft \in Nat
  /\ CompactionLimit - run.compactions \in Nat /\ run.compactions \in Nat
  /\ Stage(turn.pc, call) \in Nat
  /\ TriggersPerTurn - turn.triggers \in Nat /\ turn.triggers \in Nat
  /\ ReflectStage(turn.pc, call) \in Nat
  /\ MaxAttempts - call.shared \in Nat /\ call.shared \in Nat
  /\ CallStage(call) \in Nat
ConstantParts ==
  TotalCalls \in Nat /\ CompactionLimit \in Nat /\ TriggersPerTurn \in Nat /\ MaxAttempts \in Nat

LEMMA VariantNat == IInv => VariantParts
<1> SUFFICES ASSUME IInv PROVE VariantParts
  OBVIOUS
<1>1. TotalCalls - Total(ledger) \in Nat /\ Total(ledger) \in Nat /\ TotalCalls \in Nat
  <2>1. Total(ledger) \in Nat /\ Pending(call) \in Nat /\ TotalCalls \in Nat
    BY GatewayFacts, PendingSent, AllocationAssumption DEF TotalCalls
  <2>2. QED
    BY <2>1 DEF IInv, LedgerInv
<1>2. run \in RunType /\ turn \in TurnType /\ call.shared \in 0..MaxAttempts
  BY RoleTypes, GatewayFacts
<1>3. /\ ReviewsLeft \in Nat
      /\ CompactionLimit - run.compactions \in Nat /\ run.compactions \in Nat
      /\ TriggersPerTurn - turn.triggers \in Nat /\ turn.triggers \in Nat
      /\ MaxAttempts - call.shared \in Nat /\ call.shared \in Nat
  BY <1>2, TurnAssumption, AttemptAssumption DEF RunType, TurnType, ReviewsLeft
<1>4. Stage(turn.pc, call) \in Nat
  BY DEF Stage
<1>5. ReflectStage(turn.pc, call) \in Nat
  BY DEF ReflectStage
<1>6. CallStage(call) \in Nat
  BY DEF CallStage
<1>7. QED
  BY <1>1, <1>3, <1>4, <1>5, <1>6 DEF VariantParts

(* Where a step goes down, with what it keeps before that place. *)
Drop1 == Total(ledger') > Total(ledger)
Drop2 == Total(ledger') = Total(ledger) /\ ReviewsLeft' < ReviewsLeft
Kept2 == Total(ledger') = Total(ledger) /\ ReviewsLeft' = ReviewsLeft
Drop3 == Kept2 /\ run'.compactions > run.compactions
Kept3 == Kept2 /\ run'.compactions = run.compactions
Drop4 == Kept3 /\ Stage(turn'.pc, call') < Stage(turn.pc, call)
Kept4 == Kept3 /\ Stage(turn'.pc, call') = Stage(turn.pc, call)
Drop5 == Kept4 /\ turn'.triggers > turn.triggers
Kept5 == Kept4 /\ turn'.triggers = turn.triggers
Drop6 == Kept5 /\ ReflectStage(turn'.pc, call') < ReflectStage(turn.pc, call)
Kept6 == Kept5 /\ ReflectStage(turn'.pc, call') = ReflectStage(turn.pc, call)
Drop7 == Kept6 /\ call'.shared > call.shared
Drop8 == Kept6 /\ call'.shared = call.shared /\ CallStage(call') < CallStage(call)
Drops == Drop1 \/ Drop2 \/ Drop3 \/ Drop4 \/ Drop5 \/ Drop6 \/ Drop7 \/ Drop8

LEMMA DropBelow ==
  ASSUME VariantParts, VariantParts', ConstantParts, Drops
  PROVE  Below(Variant', Variant)
<1> DEFINE a1 == TotalCalls - Total(ledger)          b1 == TotalCalls - Total(ledger')
           a2 == ReviewsLeft                         b2 == ReviewsLeft'
           a3 == CompactionLimit - run.compactions   b3 == CompactionLimit - run'.compactions
           a4 == Stage(turn.pc, call)                b4 == Stage(turn'.pc, call')
           a5 == TriggersPerTurn - turn.triggers     b5 == TriggersPerTurn - turn'.triggers
           a6 == ReflectStage(turn.pc, call)         b6 == ReflectStage(turn'.pc, call')
           a7 == MaxAttempts - call.shared           b7 == MaxAttempts - call'.shared
           a8 == CallStage(call)                     b8 == CallStage(call')
<1>1. /\ a1 \in Int /\ a2 \in Int /\ a3 \in Int /\ a4 \in Int
      /\ a5 \in Int /\ a6 \in Int /\ a7 \in Int /\ a8 \in Int
      /\ b1 \in Int /\ b2 \in Int /\ b3 \in Int /\ b4 \in Int
      /\ b5 \in Int /\ b6 \in Int /\ b7 \in Int /\ b8 \in Int
  BY DEF VariantParts
<1>2. Variant = <<a1, a2, a3, a4, a5, a6, a7, a8>> /\ Variant' = <<b1, b2, b3, b4, b5, b6, b7, b8>>
  BY DEF Variant
<1>3. \/ b1 < a1
      \/ b1 <= a1 /\ b2 < a2
      \/ b1 <= a1 /\ b2 <= a2 /\ b3 < a3
      \/ b1 <= a1 /\ b2 <= a2 /\ b3 <= a3 /\ b4 < a4
      \/ b1 <= a1 /\ b2 <= a2 /\ b3 <= a3 /\ b4 <= a4 /\ b5 < a5
      \/ b1 <= a1 /\ b2 <= a2 /\ b3 <= a3 /\ b4 <= a4 /\ b5 <= a5 /\ b6 < a6
      \/ b1 <= a1 /\ b2 <= a2 /\ b3 <= a3 /\ b4 <= a4 /\ b5 <= a5 /\ b6 <= a6 /\ b7 < a7
      \/ b1 <= a1 /\ b2 <= a2 /\ b3 <= a3 /\ b4 <= a4 /\ b5 <= a5 /\ b6 <= a6 /\ b7 <= a7
           /\ b8 < a8
  BY DEF VariantParts, ConstantParts, Drops, Drop1, Drop2, Drop3, Drop4, Drop5, Drop6, Drop7, Drop8,
         Kept2, Kept3, Kept4, Kept5, Kept6
<1> HIDE DEF a1, a2, a3, a4, a5, a6, a7, a8, b1, b2, b3, b4, b5, b6, b7, b8
<1> DEFINE s == <<b1, b2, b3, b4, b5, b6, b7, b8>>
           t == <<a1, a2, a3, a4, a5, a6, a7, a8>>
<1>4. /\ s[1] = b1 /\ s[2] = b2 /\ s[3] = b3 /\ s[4] = b4
      /\ s[5] = b5 /\ s[6] = b6 /\ s[7] = b7 /\ s[8] = b8
      /\ t[1] = a1 /\ t[2] = a2 /\ t[3] = a3 /\ t[4] = a4
      /\ t[5] = a5 /\ t[6] = a6 /\ t[7] = a7 /\ t[8] = a8
  OBVIOUS
<1> HIDE DEF s, t
<1>5. Below(s, t)
  BY <1>3, <1>4, BelowPlace
<1>6. QED
  BY <1>2, <1>5 DEF s, t

(* Steps of the child and of its parent. *)
ChargedStep == ledger' = With(ledger, call.role, Counted(call))

LEMMA GatewayDrop ==
  ASSUME IInv, GatewayStep, UNCHANGED runVars
  PROVE  Drops
<1>1. turn' = turn /\ run' = run /\ call \in CallType /\ ledger \in Counter /\ call.role \in Roles
  BY GatewayFacts DEF runVars
<1>2. CASE ledger' = Charged
  <2>1. Counted(call) \in Nat /\ Counted(call) > 0
    BY GatewayFacts DEF Counted
  <2>2. ledger' = With(ledger, call.role, Counted(call))
    BY <1>2 DEF Charged, With
  <2>3. Total(ledger') = Total(ledger) + Counted(call)
    BY <1>1, <2>1, <2>2, WithSums
  <2>4. QED
    BY <2>1, <2>3, GatewayFacts DEF Drops, Drop1
<1>3. ASSUME ledger' = ledger, ~Returned(call), ~Returned(call')
      PROVE  Kept6
  BY <1>1, <1>3 DEF Kept6, Kept5, Kept4, Kept3, Kept2, ReviewsLeft, Stage, ReflectStage
<1>4. CASE ChildAdmit
  <2>1. ledger' = ledger /\ call.st = "forked" /\ call'.st \in {"locked", "replied"} /\ call'.shared = call.shared
    BY <1>1, <1>4 DEF ChildAdmit, CallType
  <2>2. QED
    BY <1>3, <2>1 DEF Drops, Drop8, Returned, CallStage
<1>5. CASE ChildCount
  <2>1. /\ ledger' = ledger /\ call.st = "locked" /\ call'.st = "counted" /\ call'.shared = call.shared + 1
        /\ call.shared \in Nat
    BY <1>1, <1>5, GatewayFacts DEF ChildCount, CallType
  <2>2. QED
    BY <1>3, <2>1 DEF Drops, Drop7, Returned
<1>6. CASE ChildSend
  <2>1. ledger' = ledger /\ call.st = "counted" /\ call'.st = "sent" /\ call'.shared = call.shared
    BY <1>1, <1>6 DEF ChildSend, CallType
  <2>2. QED
    BY <1>3, <2>1 DEF Drops, Drop8, Returned, CallStage
<1>7. CASE ChildRetry \/ ChildReply
  <2>1. ledger' = ledger /\ call.st = "sent" /\ call'.st \in {"forked", "replied"} /\ call'.shared = call.shared
    BY <1>1, <1>7 DEF ChildRetry, ChildReply, CallType
  <2>2. QED
    BY <1>3, <2>1 DEF Drops, Drop8, Returned, CallStage
<1>8. CASE Collect
  BY <1>2, <1>8 DEF Collect
<1>9. CASE Kill
  <2>1. CASE call.st \in {"locked", "counted"}
    <3>1. ledger' = ledger /\ call'.st = "stuck" /\ call'.shared = call.shared
      BY <1>1, <1>9, <2>1 DEF Kill, CallType
    <3>2. QED
      BY <1>3, <2>1, <3>1 DEF Drops, Drop8, Returned, CallStage
  <2>2. CASE call.st \notin {"locked", "counted"}
    BY <1>2, <1>9, <2>2 DEF Kill
  <2>3. QED
    BY <2>1, <2>2
<1>10. QED
  BY <1>4, <1>5, <1>6, <1>7, <1>8, <1>9 DEF GatewayStep, ChildStep

(* Steps of the roles. *)
Ran == run'.reviewRounds = run.reviewRounds /\ run'.report = run.report
       /\ run'.compactions = run.compactions

LEMMA StageDrop ==
  ASSUME KeepGateway, Ran, Stage(turn'.pc, call') < Stage(turn.pc, call)
  PROVE  Drops
BY DEF KeepGateway, Ran, Drops, Drop4, Kept3, Kept2, ReviewsLeft

LEMMA OutDrop ==
  ASSUME IInv, KeepGateway, Ran, turn.pc \notin {"candidate", "report", "ended"},
         turn'.pc \in {"candidate", "report", "ended"}
  PROVE  Drops
<1>1. turn.pc \in PCs
  BY RoleTypes DEF TurnType
<1>2. Stage(turn.pc, call) >= 3 /\ Stage(turn.pc, call) \in Nat
  BY <1>1 DEF Stage, PCs
<1>3. Stage(turn'.pc, call') \in {0, 1, 2}
  BY DEF Stage
<1>4. QED
  BY <1>2, <1>3, StageDrop

\* A step that ends the turn, or the run, and changes no counter of the run.
LEMMA StopDrop ==
  ASSUME IInv, KeepGateway, turn.pc \notin {"candidate", "report", "ended"},
         Stop \/ Done \/ (Leave("candidate") /\ UNCHANGED run) \/ (Inconclusive /\ Ran)
  PROVE  Drops
<1>1. turn'.pc \in {"candidate", "report", "ended"}
  BY LeaveSet DEF PCs
<1>2. Ran
  BY DEF Stop, Done, Ran
<1>3. QED
  BY <1>1, <1>2, OutDrop

LEMMA RefusedDrop ==
  ASSUME IInv, KeepGateway, turn.pc \notin {"candidate", "report", "ended"},
         NEW why, NEW b, TurnRefused(why, b)
  PROVE  Drops
BY StopDrop DEF TurnRefused

LEMMA TurnDrop ==
  ASSUME IInv, StartTurn \/ HeadFinalize \/ HeadStop \/ NextTurn
  PROVE  Drops
<1>1. KeepGateway /\ turn \in TurnType
  BY RoleTypes DEF StartTurn, HeadFinalize, HeadStop, NextTurn, KeepGateway, gatewayVars
<1>2. CASE StartTurn
  <2>1. turn.pc = "head"
    BY <1>2 DEF StartTurn
  <2>2. CASE \E why, b : TurnRefused(why, b)
    BY <1>1, <2>1, <2>2, RefusedDrop
  <2>3. CASE /\ \E projection \in BOOLEAN :
                  turn' = [turn EXCEPT !.pc = "ask", !.asked = 0, !.rounds = 0, !.retried = FALSE,
                                       !.projection = projection, !.triggers = 0]
             /\ run' = run
    <3>1. turn'.pc = "ask" /\ Ran
      BY <1>1, <2>3 DEF TurnType, Ran
    <3>2. Stage(turn'.pc, call') < Stage(turn.pc, call)
      BY <2>1, <3>1 DEF Stage
    <3>3. QED
      BY <1>1, <3>1, <3>2, StageDrop
  <2>4. QED
    BY <1>2, <2>2, <2>3 DEF StartTurn
<1>3. CASE HeadFinalize
  BY <1>1, <1>3, StopDrop DEF HeadFinalize
<1>4. CASE HeadStop
  <2>1. turn.pc \in {"head", "after", "candidate"} /\ turn'.pc \in {"ended", "report"} /\ Ran
    BY <1>4, LeaveSet DEF HeadStop, Stop, Ran
  <2>2. Stage(turn'.pc, call') < Stage(turn.pc, call)
    BY <2>1 DEF Stage
  <2>3. QED
    BY <1>1, <2>1, <2>2, StageDrop
<1>5. CASE NextTurn
  <2>1. turn.pc = "after" /\ turn'.pc = "head" /\ Ran
    BY <1>5, LeaveSet DEF NextTurn, Ran, PCs
  <2>2. Stage(turn'.pc, call') < Stage(turn.pc, call)
    BY <2>1 DEF Stage
  <2>3. QED
    BY <1>1, <2>1, <2>2, StageDrop
<1>6. QED
  BY <1>2, <1>3, <1>4, <1>5

LEMMA CallProviderDrop ==
  ASSUME IInv, CallProvider
  PROVE  Drops
<1>1. /\ turn \in TurnType /\ run' = run /\ ledger' = ledger /\ KeepGateway
      /\ turn.pc \in {"invoke", "reflectInvoke", "reviewInvoke"}
  BY RoleTypes DEF CallProvider, KeepGateway
<1>2. ~Returned(call')
  BY DEF CallProvider, Invoke, NoCall, Returned
<1>3. /\ turn.pc = "invoke" => turn'.pc = "wait"
      /\ turn.pc = "reflectInvoke" => turn'.pc = "reflectWait"
      /\ turn.pc = "reviewInvoke" => turn'.pc = "reviewWait"
      /\ turn'.triggers = turn.triggers
  BY <1>1 DEF CallProvider, Goto, TurnType
<1>4. CASE turn.pc = "reflectInvoke"
  <2>1. Stage(turn'.pc, call') = Stage(turn.pc, call)
    BY <1>3, <1>4 DEF Stage
  <2>2. ReflectStage(turn'.pc, call') < ReflectStage(turn.pc, call)
    BY <1>2, <1>3, <1>4 DEF ReflectStage
  <2>3. QED
    BY <1>1, <1>3, <2>1, <2>2 DEF Drops, Drop6, Kept5, Kept4, Kept3, Kept2, ReviewsLeft
<1>5. CASE turn.pc \in {"invoke", "reviewInvoke"}
  <2>1. Stage(turn'.pc, call') < Stage(turn.pc, call)
    BY <1>2, <1>3, <1>5 DEF Stage
  <2>2. QED
    BY <1>1, <2>1, StageDrop DEF Ran
<1>6. QED
  BY <1>1, <1>4, <1>5

LEMMA PlannerAskDrop ==
  ASSUME IInv, PlannerAsk
  PROVE  Drops
<1>1. turn.pc = "ask" /\ turn \in TurnType /\ KeepGateway
  BY RoleTypes DEF PlannerAsk, KeepGateway
<1>2. CASE \E why, b : TurnRefused(why, b)
  BY <1>1, <1>2, RefusedDrop
<1>3. CASE turn' = [turn EXCEPT !.pc = "invoke", !.asked = @ + 1] /\ run' = run
  <2>1. turn'.pc = "invoke" /\ Ran
    BY <1>1, <1>3 DEF TurnType, Ran
  <2>2. Stage(turn'.pc, call') < Stage(turn.pc, call)
    BY <1>1, <2>1 DEF Stage
  <2>3. QED
    BY <1>1, <2>1, <2>2, StageDrop
<1>4. QED
  BY <1>2, <1>3 DEF PlannerAsk

LEMMA CompactDrop ==
  ASSUME IInv, PlannerCompact
  PROVE  Drops
<1>1. turn.pc = "ask" /\ run \in RunType /\ KeepGateway
  BY RoleTypes DEF PlannerCompact, KeepGateway
<1>2. CASE Stop
  BY <1>1, <1>2, StopDrop
<1>3. CASE run' = [run EXCEPT !.compactions = @ + 1]
  <2>1. /\ run'.compactions = run.compactions + 1 /\ run.compactions \in Nat
        /\ run'.reviewRounds = run.reviewRounds /\ run'.report = run.report
    BY <1>1, <1>3, TurnAssumption DEF RunType
  <2>2. QED
    BY <1>1, <2>1 DEF KeepGateway, Drops, Drop3, Kept2, ReviewsLeft
<1>4. QED
  BY <1>2, <1>3 DEF PlannerCompact

LEMMA ReadmitDrop ==
  ASSUME IInv, Readmit
  PROVE  Drops
<1>1. turn.pc = "readmit" /\ turn \in TurnType /\ KeepGateway
  BY RoleTypes DEF Readmit, KeepGateway
<1>2. CASE \E why, b : TurnRefused(why, b)
  BY <1>1, <1>2, RefusedDrop
<1>3. CASE Goto("ask") /\ run' = run
  <2>1. turn'.pc = "ask" /\ Ran
    BY <1>3, LeaveSet DEF Ran, PCs
  <2>2. Stage(turn'.pc, call') < Stage(turn.pc, call)
    BY <1>1, <2>1 DEF Stage
  <2>3. QED
    BY <1>1, <2>1, <2>2, StageDrop
<1>4. QED
  BY <1>2, <1>3 DEF Readmit

\* What follows the answer of the Planner.
LEMMA AnsweredDrop ==
  ASSUME IInv, PlannerCommit \/ PlannerContext \/ PlannerContextEnd \/ PlannerRepair
               \/ PlannerExhausted \/ PlannerFailed
  PROVE  Drops
<1>1. /\ turn.pc = "wait" /\ call.st = "done" /\ KeepGateway
      /\ turn \in TurnType /\ run \in RunType
  BY RoleTypes DEF PlannerCommit, PlannerContext, PlannerContextEnd, PlannerRepair, PlannerExhausted,
                   PlannerFailed, PlannerDone
<1>2. CASE Stop \/ Done
  BY <1>1, <1>2, StopDrop
<1>3. CASE Leave("candidate") /\ UNCHANGED run
  BY <1>1, <1>3, StopDrop
<1>4. ASSUME call.out \in {"ok", "bad"}, Ran, turn'.pc \in {"ended", "candidate", "after", "readmit"}
      PROVE  Drops
  <2>1. Returned(call)
    BY <1>1, <1>4 DEF Returned
  <2>2. Stage(turn'.pc, call') < Stage(turn.pc, call)
    BY <1>1, <1>4, <2>1 DEF Stage
  <2>3. QED
    BY <1>1, <1>4, <2>2, StageDrop
<1>5. CASE PlannerCommit
  <2>1. PICK ready \in BOOLEAN :
          /\ run' = [run EXCEPT !.ready = ready, !.hypothesis = TRUE]
          /\ Leave(IF Exceeds("planner", acct) THEN "ended" ELSE IF ready THEN "candidate" ELSE "after")
    BY <1>5 DEF PlannerCommit
  <2>2. Ran
    BY <1>1, <2>1 DEF RunType, Ran
  <2>3. turn'.pc \in {"ended", "candidate", "after"}
    BY <2>1, LeaveSet DEF PCs
  <2>4. QED
    BY <1>4, <1>5, <2>2, <2>3 DEF PlannerCommit
<1>6. CASE PlannerContext
  <2>1. CASE turn' = [turn EXCEPT !.pc = "readmit", !.rounds = @ + 1, !.targeted = FALSE]
             /\ UNCHANGED run
    <3>1. turn'.pc = "readmit" /\ Ran
      BY <1>1, <2>1 DEF TurnType, Ran
    <3>2. QED
      BY <1>4, <1>6, <3>1 DEF PlannerContext
  <2>2. QED
    BY <1>2, <1>6, <2>1 DEF PlannerContext
<1>7. CASE PlannerRepair
  <2>1. turn'.pc = "readmit" /\ Ran
    BY <1>1, <1>7 DEF PlannerRepair, TurnType, Ran
  <2>2. QED
    BY <1>4, <1>7, <2>1 DEF PlannerRepair
<1>8. CASE PlannerFailed
  BY <1>2, <1>3, <1>8 DEF PlannerFailed
<1>9. QED
  BY <1>2, <1>5, <1>6, <1>7, <1>8 DEF PlannerContextEnd, PlannerExhausted

LEMMA ReflectDrop ==
  ASSUME IInv, Reflect
  PROVE  Drops
<1> DEFINE triggered == [turn EXCEPT !.triggers = @ + 1]
<1>1. /\ turn.pc = "after" /\ turn \in TurnType /\ run \in RunType /\ KeepGateway
      /\ turn.triggers \in Nat
  BY RoleTypes, TurnAssumption DEF Reflect, KeepGateway, TurnType
<1>2. turn' \in {triggered, [triggered EXCEPT !.pc = "reflectAsk", !.asked = 0]}
  BY DEF Reflect
<1>3. turn'.pc \in {"after", "reflectAsk"} /\ turn'.triggers = turn.triggers + 1
  BY <1>1, <1>2 DEF TurnType
<1>4. Ran
  <2>1. run' = run \/ run' = [run EXCEPT !.reflections = @ + 1]
    BY DEF Reflect
  <2>2. QED
    BY <1>1, <2>1 DEF Ran, RunType
<1>5. Stage(turn'.pc, call') = Stage(turn.pc, call)
  BY <1>1, <1>3 DEF Stage
<1>6. QED
  BY <1>1, <1>3, <1>4, <1>5 DEF Drops, Drop5, Kept4, Kept3, Kept2, ReviewsLeft, Ran, KeepGateway

\* A Reflection goes down within the stage it shares with those before and after it.
LEMMA InnerDrop ==
  ASSUME KeepGateway, Ran, turn'.triggers = turn.triggers,
         turn.pc \in {"reflectAsk", "reflectWait"}, turn'.pc \in {"after", "reflectAsk", "reflectInvoke"},
         ReflectStage(turn'.pc, call') < ReflectStage(turn.pc, call)
  PROVE  Drops
<1>1. Stage(turn'.pc, call') = Stage(turn.pc, call)
  BY DEF Stage
<1>2. QED
  BY <1>1 DEF Drops, Drop6, Kept5, Kept4, Kept3, Kept2, ReviewsLeft, KeepGateway, Ran

LEMMA ResumeDrop ==
  ASSUME IInv, KeepGateway, Ran, Resume,
         turn.pc = "reflectAsk" \/ (turn.pc = "reflectWait" /\ call.st = "done")
  PROVE  Drops
<1>1. turn'.pc = "after" /\ turn'.triggers = turn.triggers
  BY LeaveSet DEF Resume, IdleTurn
<1>2. ReflectStage(turn'.pc, call') = 0
  BY <1>1 DEF ReflectStage
<1>3. ReflectStage(turn.pc, call) \in {1, 3, 4}
  BY DEF ReflectStage
<1>4. QED
  BY <1>1, <1>2, <1>3, InnerDrop

LEMMA ReflectAskDrop ==
  ASSUME IInv, ReflectAsk
  PROVE  Drops
<1>1. turn.pc = "reflectAsk" /\ turn \in TurnType /\ run \in RunType /\ KeepGateway
  BY RoleTypes DEF ReflectAsk, KeepGateway, gatewayVars
<1>2. CASE run' = [run EXCEPT !.reflections = Less(@)] /\ (Leave("ended") \/ Resume)
  <2>1. Ran
    BY <1>1, <1>2 DEF RunType, Ran
  <2>2. QED
    BY <1>1, <1>2, <2>1, StopDrop, ResumeDrop DEF Inconclusive
<1>3. CASE turn' = [turn EXCEPT !.pc = "reflectInvoke", !.asked = @ + 1] /\ run' = run
  <2>1. turn'.pc = "reflectInvoke" /\ turn'.triggers = turn.triggers /\ Ran
    BY <1>1, <1>3 DEF TurnType, Ran
  <2>2. ReflectStage(turn'.pc, call') < ReflectStage(turn.pc, call)
    BY <1>1, <2>1 DEF ReflectStage
  <2>3. QED
    BY <1>1, <2>1, <2>2, InnerDrop
<1>4. QED
  BY <1>2, <1>3 DEF ReflectAsk

LEMMA ReflectedDrop ==
  ASSUME IInv, ReflectAccept \/ ReflectRepair \/ ReflectExhausted \/ ReflectFailed
  PROVE  Drops
<1>1. /\ turn.pc = "reflectWait" /\ call.st = "done" /\ KeepGateway
      /\ turn \in TurnType /\ run \in RunType
  BY RoleTypes DEF ReflectAccept, ReflectRepair, ReflectExhausted, ReflectFailed, ReflectDone
<1>2. CASE Stop \/ Done
  BY <1>1, <1>2, StopDrop
<1>3. CASE Resume /\ UNCHANGED run
  BY <1>1, <1>3, ResumeDrop DEF Ran
<1>4. CASE ReflectAccept
  <2>1. (\E ready : run' = [run EXCEPT !.ready = ready /\ run.hypothesis]) /\ Resume
    BY <1>4 DEF ReflectAccept
  <2>2. Ran
    BY <1>1, <2>1 DEF RunType, Ran
  <2>3. QED
    BY <1>1, <2>1, <2>2, ResumeDrop
<1>5. CASE ReflectRepair
  <2>1. turn'.pc = "reflectAsk" /\ turn'.triggers = turn.triggers /\ Ran
    BY <1>1, <1>5 DEF ReflectRepair, Goto, TurnType, Ran
  <2>2. Returned(call)
    BY <1>1, <1>5 DEF ReflectRepair, Returned
  <2>3. ReflectStage(turn'.pc, call') < ReflectStage(turn.pc, call)
    BY <1>1, <2>1, <2>2 DEF ReflectStage
  <2>4. QED
    BY <1>1, <2>1, <2>3, InnerDrop
<1>6. QED
  BY <1>2, <1>3, <1>4, <1>5 DEF ReflectExhausted, ReflectFailed

\* What EnterReview leaves of the run is what it was started with.
LEMMA EnterRun ==
  ASSUME NEW started \in RunType, NEW out, EnterReview(started, out)
  PROVE  run'.reviewRounds = started.reviewRounds /\ run'.report = started.report
<1>1. run' = started \/ run' = [started EXCEPT !.why = "handoff"]
  BY DEF EnterReview
<1>2. QED
  BY <1>1 DEF RunType

LEMMA StartReviewDrop ==
  ASSUME IInv, StartReview
  PROVE  Drops
<1> DEFINE started == [run EXCEPT !.reviewRounds = @ + 1]
<1>1. /\ run \in RunType /\ KeepGateway /\ run.reviewRounds < MaxReviewRounds
      /\ EnterReview(started, Inconclusive)
  BY RoleTypes DEF StartReview
<1>2. run.reviewRounds \in Nat /\ run.reviewRounds + 1 \in 0..MaxReviewRounds /\ MaxReviewRounds \in Nat
  BY <1>1, TurnAssumption DEF RunType
<1>3. started \in RunType /\ started.reviewRounds = run.reviewRounds + 1 /\ started.report = run.report
  BY <1>1, <1>2 DEF RunType
<1> HIDE DEF started
<1>4. run'.reviewRounds = run.reviewRounds + 1 /\ run'.report = run.report
  BY <1>1, <1>3, EnterRun
<1>5. QED
  BY <1>1, <1>2, <1>4 DEF Drops, Drop2, ReviewsLeft, KeepGateway

\* A report is reviewed once.
LEMMA StartReportDrop ==
  ASSUME IInv, ReportInv, StartReport
  PROVE  Drops
<1> DEFINE started == [run EXCEPT !.report = TRUE]
<1>1. run \in RunType /\ KeepGateway /\ ~run.report
  BY RoleTypes DEF StartReport, ReportInv, ReviewPCs
<1>2. started \in RunType /\ started.report = TRUE /\ started.reviewRounds = run.reviewRounds
  BY <1>1 DEF RunType
<1>3. EnterReview(started, Leave("ended")) \/ run' = started
  BY DEF StartReport
<1> HIDE DEF started
<1>4. run'.reviewRounds = run.reviewRounds /\ run'.report = TRUE
  BY <1>2, <1>3, EnterRun
<1>5. run.reviewRounds \in Nat /\ MaxReviewRounds \in Nat
  BY <1>1, TurnAssumption DEF RunType
<1>6. QED
  BY <1>1, <1>4, <1>5 DEF Drops, Drop2, ReviewsLeft, KeepGateway

LEMMA ReviewAskDrop ==
  ASSUME IInv, ReviewAsk
  PROVE  Drops
<1>1. turn.pc = "reviewAsk" /\ turn \in TurnType /\ run \in RunType /\ KeepGateway
  BY RoleTypes DEF ReviewAsk, KeepGateway, gatewayVars
<1>2. CASE ReviewRefused
  <2>1. Inconclusive
    BY <1>2 DEF ReviewRefused, Inconclusive
  <2>2. \E why : run' = [run EXCEPT !.why = why]
    BY <1>1, <1>2 DEF ReviewRefused, RunType
  <2>3. Ran
    BY <1>1, <2>2 DEF Ran, RunType
  <2>4. QED
    BY <1>1, <2>1, <2>3, StopDrop
<1>3. CASE turn' = [turn EXCEPT !.pc = "reviewInvoke", !.asked = @ + 1] /\ run' = run
  <2>1. turn'.pc = "reviewInvoke" /\ Ran
    BY <1>1, <1>3 DEF TurnType, Ran
  <2>2. Stage(turn'.pc, call') < Stage(turn.pc, call)
    BY <1>1, <2>1 DEF Stage
  <2>3. QED
    BY <1>1, <2>1, <2>2, StageDrop
<1>4. QED
  BY <1>2, <1>3 DEF ReviewAsk

LEMMA ReviewedDrop ==
  ASSUME IInv, ReviewReject \/ ReviewRepair \/ ReviewedOut
  PROVE  Drops
<1>1. /\ turn.pc = "reviewWait" /\ call.st = "done" /\ KeepGateway
      /\ turn \in TurnType /\ run \in RunType
  BY RoleTypes, ReviewedOutSteps DEF ReviewReject, ReviewRepair, CandidateReviewed, ReviewDone
<1>2. CASE ReviewedOut
  BY <1>1, <1>2, ReviewedOutSteps, StopDrop
<1>3. CASE ReviewReject \/ ReviewRepair
  <2>1. Returned(call)
    BY <1>1, <1>3 DEF ReviewReject, ReviewRepair, Returned
  <2>2. turn'.pc \in {"after", "reviewAsk"}
    BY <1>3, LeaveSet DEF ReviewReject, ReviewRepair, PCs
  <2>3. Ran
    <3>1. run' = run \/ \E ready : run' = [run EXCEPT !.cycles = @ + 1, !.ready = ready]
      BY <1>3 DEF ReviewReject, ReviewRepair
    <3>2. QED
      BY <1>1, <3>1 DEF RunType, Ran
  <2>4. Stage(turn'.pc, call') < Stage(turn.pc, call)
    BY <1>1, <2>1, <2>2 DEF Stage
  <2>5. QED
    BY <1>1, <2>3, <2>4, StageDrop
<1>4. QED
  BY <1>2, <1>3

(* Every step of the machine goes down. *)
LEMMA StepDrops ==
  ASSUME IInv, ReportInv, Next
  PROVE  Drops
<1>1. CASE TurnStep
  BY <1>1, TurnDrop, CallProviderDrop DEF TurnStep
<1>2. CASE PlannerStep
  BY <1>2, PlannerAskDrop, CompactDrop, ReadmitDrop, AnsweredDrop DEF PlannerStep
<1>3. CASE ReflectionStep
  BY <1>3, ReflectDrop, ReflectAskDrop, ReflectedDrop DEF ReflectionStep
<1>4. CASE ReviewStep
  BY <1>4, StartReviewDrop, StartReportDrop, ReviewAskDrop, ReviewedDrop DEF ReviewStep, ReviewedOut
<1>5. CASE ProviderStep
  BY <1>5, GatewayDrop DEF ProviderStep
<1>6. QED
  BY <1>1, <1>2, <1>3, <1>4, <1>5 DEF Next, RoleStep

\* No step of a run repeats what was done: each leaves less of Variant, which is never negative.
THEOREM VariantTheorem ==
  Spec => [](\A i \in Places : Variant[i] \in Nat) /\ [][Below(Variant', Variant)]_vars
<1>1. ConstantParts
  BY AttemptAssumption, AllocationAssumption, TurnAssumption DEF ConstantParts, TotalCalls
<1>2. IInv /\ ReportInv /\ IInv' /\ [Next]_vars => [Below(Variant', Variant)]_vars
  <2>1. ASSUME IInv, ReportInv, VariantParts', Next
        PROVE  Below(Variant', Variant)
    BY <1>1, <2>1, VariantNat, StepDrops, DropBelow
  <2>2. IInv' => VariantParts'
    BY VariantNat, PTL
  <2>3. QED
    BY <2>1, <2>2
<1>3. IInv => \A i \in Places : Variant[i] \in Nat
  <2>1. ASSUME IInv
        PROVE  /\ Variant[1] \in Nat /\ Variant[2] \in Nat /\ Variant[3] \in Nat /\ Variant[4] \in Nat
               /\ Variant[5] \in Nat /\ Variant[6] \in Nat /\ Variant[7] \in Nat /\ Variant[8] \in Nat
    BY <2>1, VariantNat DEF VariantParts, Variant
  <2>2. QED
    BY <2>1 DEF Places
<1>4. TurnInvariant => IInv /\ ReportInv
  BY DEF TurnInvariant
<1>5. QED
  BY <1>2, <1>3, <1>4, TurnInductive, PTL DEF Spec

(* And no descent is endless: every set of tuples of natural numbers has a least one. *)
\* The tuples of S whose place i is the least in S.
Lowest(S, i) == {s \in S : \A t \in S : s[i] <= t[i]}

LEMMA LeastNumber ==
  ASSUME NEW T \in SUBSET Nat, T # {}
  PROVE  \E x \in T : \A y \in T : x <= y
<1> DEFINE R == OpToRel(<, Nat)
<1>1. \E x \in T : \A y \in T : <<y, x>> \notin R
  <2>1. IsWellFoundedOn(R, Nat)
    BY NatLessThanWellFounded
  <2> HIDE DEF R
  <2>2. QED
    BY <2>1, WFMin
<1>2. \A y, x \in Nat : y < x => <<y, x>> \in R
  BY DEF OpToRel
<1> HIDE DEF R
<1>3. PICK x \in T : \A y \in T : <<y, x>> \notin R
  BY <1>1
<1>4. \A y \in T : ~(y < x)
  BY <1>2, <1>3
<1>5. QED
  BY <1>4

LEMMA LowestExists ==
  ASSUME NEW S, S # {}, NEW i \in Places, \A s \in S : s[i] \in Nat
  PROVE  Lowest(S, i) # {} /\ Lowest(S, i) \subseteq S
<1> DEFINE T == {s[i] : s \in S}
<1>1. T \in SUBSET Nat /\ T # {}
  OBVIOUS
<1>2. PICK x \in T : \A y \in T : x <= y
  BY <1>1, LeastNumber
<1>3. PICK s \in S : s[i] = x
  BY <1>2
<1>4. \A t \in S : s[i] <= t[i]
  BY <1>2, <1>3
<1>5. QED
  BY <1>3, <1>4 DEF Lowest

\* Variant cannot go down for ever: Below is well founded on tuples of natural numbers.
THEOREM BelowWellFounded ==
  ASSUME NEW S, S # {}, \A s \in S : \A i \in Places : s[i] \in Nat
  PROVE  \E m \in S : \A s \in S : ~Below(s, m)
<1> DEFINE S1 == Lowest(S, 1)   S2 == Lowest(S1, 2)  S3 == Lowest(S2, 3)  S4 == Lowest(S3, 4)
           S5 == Lowest(S4, 5)  S6 == Lowest(S5, 6)  S7 == Lowest(S6, 7)  S8 == Lowest(S7, 8)
<1>1. /\ 1 \in Places /\ 2 \in Places /\ 3 \in Places /\ 4 \in Places
      /\ 5 \in Places /\ 6 \in Places /\ 7 \in Places /\ 8 \in Places
  BY DEF Places
<1> HIDE DEF S1, S2, S3, S4, S5, S6, S7, S8
<1>2. S1 # {} /\ S1 \subseteq S
  BY <1>1, LowestExists DEF S1
<1>3. S2 # {} /\ S2 \subseteq S1
  BY <1>1, <1>2, LowestExists DEF S2
<1>4. S3 # {} /\ S3 \subseteq S2
  BY <1>1, <1>2, <1>3, LowestExists DEF S3
<1>5. S4 # {} /\ S4 \subseteq S3
  BY <1>1, <1>2, <1>3, <1>4, LowestExists DEF S4
<1>6. S5 # {} /\ S5 \subseteq S4
  BY <1>1, <1>2, <1>3, <1>4, <1>5, LowestExists DEF S5
<1>7. S6 # {} /\ S6 \subseteq S5
  BY <1>1, <1>2, <1>3, <1>4, <1>5, <1>6, LowestExists DEF S6
<1>8. S7 # {} /\ S7 \subseteq S6
  BY <1>1, <1>2, <1>3, <1>4, <1>5, <1>6, <1>7, LowestExists DEF S7
<1>9. S8 # {} /\ S8 \subseteq S7
  BY <1>1, <1>2, <1>3, <1>4, <1>5, <1>6, <1>7, <1>8, LowestExists DEF S8
<1>10. PICK m \in S8 : TRUE
  BY <1>9
<1>11. /\ m \in S /\ m \in S1 /\ m \in S2 /\ m \in S3 /\ m \in S4
       /\ m \in S5 /\ m \in S6 /\ m \in S7
  BY <1>2, <1>3, <1>4, <1>5, <1>6, <1>7, <1>8, <1>9, <1>10
\* One place: what is not above m up to it is among the lowest there, and not below.
<1>12. ASSUME NEW X, NEW i \in Places, X \subseteq S, m \in Lowest(X, i), NEW s \in X
       PROVE  ~(s[i] < m[i]) /\ (s[i] <= m[i] => s \in Lowest(X, i))
  <2>1. m[i] \in Nat /\ s[i] \in Nat /\ m \in X /\ \A t \in X : m[i] <= t[i] /\ t[i] \in Nat
    BY <1>12 DEF Lowest
  <2>2. QED
    BY <2>1 DEF Lowest
<1>13. ASSUME NEW s \in S, NEW i \in Places, s[i] < m[i], \A j \in 1 .. i - 1 : s[j] <= m[j]
       PROVE  FALSE
  <2>1. \A j \in Places : j < i => s[j] <= m[j]
    BY <1>13 DEF Places
  <2>2. i > 1 /\ s \in S1
    BY <1>1, <1>10, <1>11, <1>12, <1>13, <2>1 DEF S1, Places
  <2>3. i > 2 /\ s \in S2
    BY <1>1, <1>10, <1>11, <1>12, <1>13, <1>2, <2>1, <2>2 DEF S2, Places
  <2>4. i > 3 /\ s \in S3
    BY <1>1, <1>10, <1>11, <1>12, <1>13, <1>2, <1>3, <2>1, <2>3 DEF S3, Places
  <2>5. i > 4 /\ s \in S4
    BY <1>1, <1>10, <1>11, <1>12, <1>13, <1>2, <1>3, <1>4, <2>1, <2>4 DEF S4, Places
  <2>6. i > 5 /\ s \in S5
    BY <1>1, <1>10, <1>11, <1>12, <1>13, <1>2, <1>3, <1>4, <1>5, <2>1, <2>5 DEF S5, Places
  <2>7. i > 6 /\ s \in S6
    BY <1>1, <1>10, <1>11, <1>12, <1>13, <1>2, <1>3, <1>4, <1>5, <1>6, <2>1, <2>6 DEF S6, Places
  <2>8. i > 7 /\ s \in S7
    BY <1>1, <1>10, <1>11, <1>12, <1>13, <1>2, <1>3, <1>4, <1>5, <1>6, <1>7, <2>1, <2>7 DEF S7, Places
  <2>9. FALSE
    BY <1>1, <1>10, <1>11, <1>12, <1>13, <1>2, <1>3, <1>4, <1>5, <1>6, <1>7, <1>8, <2>1, <2>8 DEF S8, Places
  <2>10. QED
    BY <2>9
<1>14. QED
  BY <1>11, <1>13 DEF Below, Places
=============================================================================
