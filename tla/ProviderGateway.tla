-------------------------- MODULE ProviderGateway --------------------------
(***************************************************************************)
(* ProviderOperationalGateway: one call of a role, run in a forked child   *)
(* that its parent kills at the deadline, and the ledger of attempts that  *)
(* bounds what all roles together send to the provider.                    *)
(*                                                                         *)
(* The child owns the transport loop.  Before an attempt goes out it is    *)
(* admitted against the ledger and the lifecycle phase as they were at the *)
(* fork, and counted in an integer shared with the parent under its lock.  *)
(* Of a killed child nothing else reaches the parent.  A child killed      *)
(* between the acquisition and the release of the lock leaves it locked:   *)
(* the parent's own read of the integer then never returns (stuck).        *)
(*                                                                         *)
(* Abstractions.  The ledger is kept as attempts per role (the records     *)
(* sum to it) and the usage as what add_usage has not read yet; the        *)
(* envelope of a request was validated by its agent already.               *)
(***************************************************************************)
EXTENDS CallBudget

CONSTANTS MaxAttempts,  \* transport attempts of one provider call
          Usages,       \* what a call may be billed: [p |-> prompt, t |-> prompt and completion]
          MaxBill       \* the most tokens one call is billed, whatever it was estimated to need

ASSUME AttemptAssumption == MaxAttempts \in Nat \ {0}
ASSUME UsageAssumption ==
  MaxBill \in Nat /\ \A u \in Usages : u.p \in Nat /\ u.t \in Nat /\ u.t <= MaxBill

VARIABLES bud,      \* fields of the budget controller
          ledger,   \* attempts counted by the records, per role
          unread,   \* usage of the records add_usage has not read, per role
          call,     \* the provider call that is under way
          wire,     \* attempts that were sent, per role (history)
          closing   \* attempts that were sent in consolidation (history)
gatewayVars == <<bud, ledger, unread, call, wire, closing>>

NoCall == [st |-> "none", role |-> "planner", shared |-> 0, out |-> "ok"]
NoUsage == [p |-> 0, t |-> 0]
AddUsages(u, v) == [p |-> u.p + v.p, t |-> u.t + v.t]

Total(f) == f["planner"] + f["reflection"] + f["review"]
NonReview(f) == f["planner"] + f["reflection"]
UnreadTokens == unread["planner"].t + unread["reflection"].t + unread["review"].t

GatewayInit ==
  /\ bud = NewBudget
  /\ ledger = [r \in Roles |-> 0] /\ wire = [r \in Roles |-> 0] /\ closing = 0
  /\ unread = [r \in Roles |-> NoUsage]
  /\ call = NoCall

----------------------------------------------------------------------------
(* The parent checks the first attempt, then forks. *)
Invoke(role) ==
  /\ call.st = "none"
  /\ call' = IF Rejection(bud, role, Total(ledger), ledger["review"]) = "admitted"
             THEN [NoCall EXCEPT !.st = "forked", !.role = role]
             ELSE [NoCall EXCEPT !.st = "done", !.role = role, !.out = "limit"]

(* on_attempt_started in the child: admission against its copy, then the lock. *)
Refusal(c) ==
  Rejection(bud, c.role, Total(ledger) + c.shared,
            ledger["review"] + (IF c.role = "review" THEN c.shared ELSE 0))

\* Mutant: a retry is admitted by the check its call passed before the fork.
ChildAdmitOnce ==
  /\ call.st = "forked"
  /\ call' = [call EXCEPT !.st = "locked"]
  /\ UNCHANGED <<bud, ledger, unread, wire, closing>>

ChildAdmit ==
  /\ call.st = "forked"
  /\ call' = IF Refusal(call) = "admitted" THEN [call EXCEPT !.st = "locked"]
             ELSE [call EXCEPT !.st = "replied", !.out = "limit"]
  /\ UNCHANGED <<bud, ledger, unread, wire, closing>>

ChildCount ==
  /\ call.st = "locked"
  /\ call' = [call EXCEPT !.st = "counted", !.shared = @ + 1]
  /\ UNCHANGED <<bud, ledger, unread, wire, closing>>

(* The lock is released and the attempt goes out. *)
ChildSend ==
  /\ call.st = "counted"
  /\ call' = [call EXCEPT !.st = "sent"]
  /\ wire' = [wire EXCEPT ![call.role] = @ + 1]
  /\ closing' = IF bud.phase = "consolidation" THEN closing + 1 ELSE closing
  /\ UNCHANGED <<bud, ledger, unread>>

(* A transient failure is retried while attempts are left. *)
\* Mutant: one attempt too many.
ChildRetryInclusive ==
  /\ call.st = "sent" /\ call.shared <= MaxAttempts
  /\ call' = [call EXCEPT !.st = "forked"]
  /\ UNCHANGED <<bud, ledger, unread, wire, closing>>

ChildRetry ==
  /\ call.st = "sent" /\ call.shared < MaxAttempts
  /\ call' = [call EXCEPT !.st = "forked"]
  /\ UNCHANGED <<bud, ledger, unread, wire, closing>>

(* An answer, an answer that is no valid output, a final error, or its own deadline. *)
ChildReply ==
  /\ call.st = "sent"
  /\ \E out \in {"ok", "bad", "error", "deadline"} :
       call' = [call EXCEPT !.st = "replied", !.out = out]
  /\ UNCHANGED <<bud, ledger, unread, wire, closing>>

Counted(c) == IF c.shared = 0 THEN 1 ELSE c.shared
Charged == [ledger EXCEPT ![call.role] = @ + Counted(call)]

(* The parent receives the answer and writes the record with its usage. *)
Collect ==
  /\ call.st = "replied"
  /\ ledger' = Charged
  /\ call' = [call EXCEPT !.st = "done"]
  /\ \E u \in IF call.out = "ok" THEN Usages
              ELSE IF call.out = "bad" THEN Usages \union {NoUsage} ELSE {NoUsage} :
       unread' = [unread EXCEPT ![call.role] = AddUsages(@, u)]
  /\ UNCHANGED <<bud, wire, closing>>

(* The deadline of the parent: terminate, then read the shared integer for the record. *)
Alive == call.st \in {"forked", "locked", "counted", "sent"}

\* Mutant: a call that was killed is not charged.
KillUncharged ==
  /\ Alive
  /\ IF call.st \in {"locked", "counted"}
     THEN call' = [call EXCEPT !.st = "stuck"] /\ UNCHANGED ledger
     ELSE call' = [call EXCEPT !.st = "done", !.out = "deadline"] /\ UNCHANGED ledger
  /\ UNCHANGED <<bud, unread, wire, closing>>

Kill ==
  /\ Alive
  /\ IF call.st \in {"locked", "counted"}
     THEN call' = [call EXCEPT !.st = "stuck"] /\ UNCHANGED ledger
     ELSE call' = [call EXCEPT !.st = "done", !.out = "deadline"] /\ ledger' = Charged
  /\ UNCHANGED <<bud, unread, wire, closing>>

ChildStep == ChildAdmit \/ ChildCount \/ ChildSend \/ ChildRetry \/ ChildReply
GatewayStep == ChildStep \/ Collect \/ Kill
=============================================================================
