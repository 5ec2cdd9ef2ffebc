--------------------------- MODULE ReasonerCalls ---------------------------
(***************************************************************************)
(* The turns of the three reasoner roles over one gateway and one budget:  *)
(* Planner turns (PlanningSession with its context rounds and its one      *)
(* repair), Reflections, Review rounds, the Review of an inconclusive      *)
(* report, and the lifecycle phases between them.                          *)
(*                                                                         *)
(* Abstractions.  What the roles say is a choice: whether a decision leads *)
(* to a publishable Candidate, whether Review passes it and whether its    *)
(* rejection can be recovered.  Both execution modes are covered: a        *)
(* publishable state at the head of the loop may be published or           *)
(* investigated further.  Step and Tool limits, no-progress limits and the *)
(* deadline of the run are choices to stop; why a run ends is kept only as *)
(* far as the properties need it.  Need is the least a request needs: a    *)
(* larger one is refused at will, a repair also where its first was not.   *)
(***************************************************************************)
EXTENDS ProviderGateway

CONSTANTS ContextRounds,     \* CONTEXT_ROUND_LIMIT
          CompactionLimit,   \* compactions of a prompt, in the whole run
          MaxReflections,    \* max_reflection_calls
          TriggersPerTurn,   \* sites that may trigger a Reflection after a turn
          MaxReviewRounds, MaxRecoveryCycles

ASSUME TurnAssumption ==
  /\ ContextRounds \in Nat /\ CompactionLimit \in Nat /\ MaxReflections \in Nat
  /\ TriggersPerTurn \in Nat /\ MaxReviewRounds \in Nat /\ MaxRecoveryCycles \in Nat

VARIABLES acct,   \* counters of the Runtime: logical calls, Review calls, usage
          turn,   \* the turn that is under way
          run     \* progress of the run
runVars == <<acct, turn, run>>
vars == <<bud, ledger, unread, call, wire, closing, acct, turn, run>>

Tokens(a) == a.spent["planner"] + a.spent["reflection"] + a.spent["review"]
Less(n) == IF n = 0 THEN 0 ELSE n - 1

IdleTurn == [pc |-> "head", asked |-> 0, rounds |-> 0, retried |-> FALSE, targeted |-> FALSE,
             projection |-> FALSE, triggers |-> 0]

Init ==
  /\ GatewayInit
  /\ acct = [logical |-> 0, reviews |-> 0, prompt |-> 0, spent |-> [r \in Roles |-> 0]]
  /\ turn = IdleTurn
  /\ run = [ready |-> FALSE, hypothesis |-> FALSE, why |-> "other", compactions |-> 0,
            reflections |-> 0, reviewRounds |-> 0, cycles |-> 0, report |-> FALSE]

(* Within a turn; out of a turn, whose counters go with it; and out of the run. *)
Goto(pc) == turn' = [turn EXCEPT !.pc = pc]
Leave(pc) == turn' = [IdleTurn EXCEPT !.pc = pc]
Resume == turn' = [IdleTurn EXCEPT !.pc = "after", !.triggers = turn.triggers]

(* A run that passed or failed is over; an inconclusive one may have its report reviewed,
   which depends on its termination reason and on what it has collected. *)
Done == Leave("ended") /\ UNCHANGED run
Inconclusive == Leave("ended") \/ Leave("report")
Stop == Inconclusive /\ UNCHANGED run

(* add_usage of a role: every record it has not read, then the controller's figures. *)
Publish(role, a) ==
  [a EXCEPT !.prompt = @ + unread[role].p, !.spent[role] = @ + unread[role].t]
Published(role, a, b) ==
  /\ acct' = Publish(role, a)
  /\ unread' = [unread EXCEPT ![role] = NoUsage]
  /\ bud' = SetRunUsage(b, Tokens(Publish(role, a)), a.logical)
Exceeds(role, a) == UsageStop(Tokens(Publish(role, a)), a.logical)

(* admit: the figures of the run are set before the call itself is counted. *)
Admission(stage, b, a, targeted) ==
  AdmissionStop(stage, b, a.prompt, Tokens(a), a.logical, a.reviews, targeted)
Admitted(b, a) == SetRunUsage(b, Tokens(a), a.logical)
CountCall(a) == [a EXCEPT !.logical = @ + 1]
UncountCall(a) == [a EXCEPT !.logical = Less(@)]

EndCall == call' = NoCall
KeepGateway == UNCHANGED <<ledger, wire, closing>>

----------------------------------------------------------------------------
(* Planner turns. *)

(* A refused turn.  Only a refusal by a budget takes a counted call back, and only
   then a publishable state is saved; usage is published on every way out. *)
TurnRefused(why, b) ==
  LET reserve == why = "terminal_reserve_protected"
      a == IF reserve THEN UncountCall(acct) ELSE acct
  IN  /\ Published("planner", a, b)
      /\ IF reserve /\ run.ready /\ ~Exceeds("planner", a)
         THEN Leave("candidate") /\ UNCHANGED run ELSE Stop

(* The head of the loop: consolidation may begin, then the turn is admitted. *)
StartTurn ==
  /\ turn.pc = "head"
  /\ \E close, projection \in BOOLEAN :
       /\ close => ~run.ready /\ run.hypothesis /\ MayConsolidate(bud)
       /\ LET b == IF close THEN BeginConsolidation(bud, Total(ledger)) ELSE bud
              why == Admission("planner", b, acct, FALSE)
          IN  IF why = "admitted"
              THEN /\ acct' = CountCall(acct) /\ bud' = Admitted(b, acct)
                   /\ turn' = [turn EXCEPT !.pc = "ask", !.asked = 0, !.rounds = 0, !.retried = FALSE,
                                           !.projection = projection, !.triggers = 0]
                   /\ UNCHANGED <<unread, run>>
              ELSE TurnRefused(why, b)
  /\ UNCHANGED call /\ KeepGateway

(* A publishable state is published at the head: in one mode always, in both at a limit. *)
HeadFinalize ==
  /\ turn.pc = "head" /\ run.ready
  /\ Leave("candidate")
  /\ UNCHANGED <<gatewayVars, acct, run>>

(* Limits of steps, Tools and time, and progress that Review required and did not get. *)
HeadStop ==
  /\ turn.pc \in {"head", "after", "candidate"}
  /\ Stop
  /\ UNCHANGED <<gatewayVars, acct>>

(* request_budget_status: the next request is checked on what the gateway has billed. *)
RequestBudget == SetRunUsage(bud, Tokens(acct) + UnreadTokens, Total(ledger))

PlannerAsk ==
  /\ turn.pc = "ask"
  /\ \E large \in BOOLEAN :
     LET b == RequestBudget
     IN  IF large \/ PromptRefused(b, "planner", turn.projection)
         THEN TurnRefused("terminal_reserve_protected", b) /\ UNCHANGED call /\ KeepGateway
         ELSE /\ bud' = [b EXCEPT !.projected = @ \/ Borrows(b, "planner", turn.projection)]
              /\ turn' = [turn EXCEPT !.pc = "invoke", !.asked = @ + 1]
              /\ UNCHANGED <<ledger, unread, call, wire, closing, acct, run>>

(* The prompt does not fit the model: compacted at the head, twice in a run at most. *)
\* Mutant: compactions are not counted.
PlannerCompactUncounted ==
  /\ turn.pc = "ask"
  /\ Published("planner", UncountCall(acct), RequestBudget)
  /\ IF ~Exceeds("planner", UncountCall(acct)) THEN Leave("head") /\ UNCHANGED run ELSE Stop
  /\ UNCHANGED call /\ KeepGateway

PlannerCompact ==
  /\ turn.pc = "ask"
  /\ Published("planner", UncountCall(acct), RequestBudget)
  /\ IF run.compactions < CompactionLimit /\ ~Exceeds("planner", UncountCall(acct))
     THEN Leave("head") /\ run' = [run EXCEPT !.compactions = @ + 1]
     ELSE Stop
  /\ UNCHANGED call /\ KeepGateway

RoleOf == CASE turn.pc \in {"invoke", "wait"} -> "planner"
            [] turn.pc \in {"reflectInvoke", "reflectWait"} -> "reflection"
            [] OTHER -> "review"
CallProvider ==
  /\ turn.pc \in {"invoke", "reflectInvoke", "reviewInvoke"}
  /\ Invoke(RoleOf)
  /\ Goto(CASE turn.pc = "invoke" -> "wait" [] turn.pc = "reflectInvoke" -> "reflectWait"
            [] OTHER -> "reviewWait")
  /\ UNCHANGED <<bud, ledger, unread, wire, closing, acct, run>>

PlannerDone == turn.pc = "wait" /\ call.st = "done"

(* The decision is committed, once, and the turn is over. *)
PlannerCommit ==
  /\ PlannerDone /\ call.out = "ok"
  /\ Published("planner", acct, bud)
  /\ \E ready \in BOOLEAN :
       /\ run' = [run EXCEPT !.ready = ready, !.hypothesis = TRUE]
       /\ Leave(IF Exceeds("planner", acct) THEN "ended" ELSE IF ready THEN "candidate" ELSE "after")
  /\ EndCall /\ KeepGateway

(* A legal request for context bodies, resolved locally or answered with feedback. *)
PlannerContext ==
  /\ PlannerDone /\ call.out = "ok" /\ bud.phase # "consolidation"
  /\ turn.rounds < ContextRounds
  /\ Published("planner", acct, bud)
  /\ IF Exceeds("planner", acct) THEN Stop
     ELSE /\ turn' = [turn EXCEPT !.pc = "readmit", !.rounds = @ + 1, !.targeted = FALSE]
          /\ UNCHANGED run
  /\ EndCall /\ KeepGateway

(* A repeated request, one over the limit, or bodies that do not fit: the run ends. *)
PlannerContextEnd ==
  /\ PlannerDone /\ call.out = "ok" /\ bud.phase # "consolidation"
  /\ Published("planner", acct, bud) /\ Stop
  /\ EndCall /\ KeepGateway

(* A contract error, of the output, the decision or its commit: one repair per turn. *)
\* Mutant: every request may be repaired.
PlannerRepairAlways ==
  /\ PlannerDone /\ call.out \in {"ok", "bad"}
  /\ turn' = [turn EXCEPT !.pc = "readmit", !.retried = TRUE, !.targeted = TRUE]
  /\ EndCall /\ UNCHANGED <<bud, unread, acct, run>> /\ KeepGateway

PlannerRepair ==
  /\ PlannerDone /\ call.out \in {"ok", "bad"} /\ ~turn.retried
  /\ turn' = [turn EXCEPT !.pc = "readmit", !.retried = TRUE, !.targeted = TRUE]
  /\ EndCall /\ UNCHANGED <<bud, unread, acct, run>> /\ KeepGateway

(* Either way the next request of the turn is admitted and counted as a new call. *)
Readmit ==
  /\ turn.pc = "readmit"
  /\ \E late \in BOOLEAN :
       LET why == IF late THEN "global_deadline"
                  ELSE Admission("planner", bud, acct, turn.targeted)
       IN  IF why = "admitted"
           THEN /\ acct' = CountCall(acct) /\ bud' = Admitted(bud, acct)
                /\ Goto("ask") /\ UNCHANGED <<unread, run>>
           ELSE TurnRefused(why, bud)
  /\ UNCHANGED call /\ KeepGateway

PlannerExhausted ==
  /\ PlannerDone /\ call.out \in {"ok", "bad"} /\ turn.retried
  /\ Published("planner", acct, bud) /\ Stop
  /\ EndCall /\ KeepGateway

(* Deadline: a publishable state is saved.  Refused attempts and errors end the run. *)
\* Mutant: a turn that fails leaves its records unread.
PlannerFailedUnread ==
  /\ PlannerDone /\ call.out \in {"deadline", "limit", "error"}
  /\ IF call.out = "deadline" /\ run.ready THEN Leave("candidate") /\ UNCHANGED run ELSE Done
  /\ EndCall /\ UNCHANGED <<bud, unread, acct>> /\ KeepGateway

PlannerFailed ==
  /\ PlannerDone /\ call.out \in {"deadline", "limit", "error"}
  /\ Published("planner", acct, bud)
  /\ IF call.out = "deadline" /\ run.ready /\ ~Exceeds("planner", acct)
     THEN Leave("candidate") /\ UNCHANGED run ELSE Done
  /\ EndCall /\ KeepGateway

----------------------------------------------------------------------------
(* Reflections: after a turn, or after a rejection of Review. *)

NextTurn ==
  /\ turn.pc = "after"
  /\ Leave("head")
  /\ UNCHANGED <<gatewayVars, acct, run>>

(* Counted before it is admitted; a refusal by the reserve takes both counts back. *)
Reflect ==
  /\ turn.pc = "after" /\ turn.triggers < TriggersPerTurn /\ run.reflections < MaxReflections
  /\ bud' = Admitted(bud, acct)
  /\ \E late \in BOOLEAN :
     LET why == IF late THEN "global_deadline" ELSE Admission("reflection", bud, acct, FALSE)
         triggered == [turn EXCEPT !.triggers = @ + 1]
     IN  \/ /\ why = "admitted"
            /\ acct' = CountCall(acct)
            /\ turn' = [triggered EXCEPT !.pc = "reflectAsk", !.asked = 0]
            /\ run' = [run EXCEPT !.reflections = @ + 1]
         \/ /\ why = "terminal_reserve_protected"
            /\ acct' = UncountCall(acct) /\ turn' = triggered /\ UNCHANGED run
         \/ /\ why \notin {"admitted", "terminal_reserve_protected"}
            /\ turn' = triggered /\ run' = [run EXCEPT !.reflections = @ + 1] /\ UNCHANGED acct
  /\ UNCHANGED <<unread, call>> /\ KeepGateway

(* Both requests of a Reflection are checked on the figures of its admission. *)
ReflectAsk ==
  /\ turn.pc = "reflectAsk"
  /\ \E large \in BOOLEAN :
     IF large \/ PromptRefused(bud, "reflection", FALSE)
     THEN /\ Published("reflection", UncountCall(acct), bud)
          /\ IF Exceeds("reflection", acct)
             THEN Leave("ended") ELSE Resume
          /\ run' = [run EXCEPT !.reflections = Less(@)]
          /\ UNCHANGED call /\ KeepGateway
     ELSE /\ turn' = [turn EXCEPT !.pc = "reflectInvoke", !.asked = @ + 1]
          /\ UNCHANGED <<gatewayVars, acct, run>>

ReflectDone == turn.pc = "reflectWait" /\ call.st = "done"
ReflectAccept ==
  /\ ReflectDone /\ call.out = "ok"
  /\ Published("reflection", [acct EXCEPT !.logical =
                                @ + (IF Exceeds("reflection", acct) THEN 0 ELSE turn.asked - 1)], bud)
  /\ \E ready \in IF Exceeds("reflection", acct) THEN {run.ready} ELSE BOOLEAN :
       run' = [run EXCEPT !.ready = ready /\ run.hypothesis]
  /\ Resume /\ EndCall /\ KeepGateway
ReflectRepair ==
  /\ ReflectDone /\ call.out \in {"ok", "bad"} /\ turn.asked < 2
  /\ Goto("reflectAsk") /\ EndCall
  /\ UNCHANGED <<bud, unread, acct, run>> /\ KeepGateway
ReflectExhausted ==
  /\ ReflectDone /\ call.out \in {"ok", "bad"} /\ turn.asked = 2
  /\ Published("reflection", acct, bud) /\ Stop
  /\ EndCall /\ KeepGateway
(* Everything else is survived: the run goes on without the feedback. *)
ReflectFailed ==
  /\ ReflectDone /\ call.out \in {"deadline", "limit", "error"}
  /\ Published("reflection", acct, bud)
  /\ IF Exceeds("reflection", acct) THEN Done ELSE Resume /\ UNCHANGED run
  /\ EndCall /\ KeepGateway

----------------------------------------------------------------------------
(* Review: of a Candidate, in rounds, or once of the report of an inconclusive run.
   review_rounds is reviewRounds, and one more with the report. *)

(* admit("review"): the handoff of the budget, then the admission of a counted call. *)
EnterReview(started, out) ==
  LET b == BeginReview(bud, Tokens(acct), acct.logical)
      why == Admission("review", b, acct, FALSE)
  IN  IF HandoffRefused(bud, Tokens(acct), acct.logical)
      THEN out /\ run' = [started EXCEPT !.why = "handoff"] /\ UNCHANGED <<bud, acct>>
      ELSE IF why # "admitted"
      THEN out /\ run' = started /\ bud' = Admitted(b, acct) /\ UNCHANGED acct
      ELSE /\ acct' = [CountCall(acct) EXCEPT !.reviews = @ + 1]
           /\ bud' = [Admitted(b, acct) EXCEPT !.reviewUsed = acct.reviews + 1]
           /\ turn' = [turn EXCEPT !.pc = "reviewAsk", !.asked = 0]
           /\ run' = started

StartReview ==
  /\ turn.pc = "candidate" /\ run.reviewRounds < MaxReviewRounds
  /\ EnterReview([run EXCEPT !.reviewRounds = @ + 1], Inconclusive)
  /\ UNCHANGED <<unread, call>> /\ KeepGateway

(* review_inconclusive_report: a refusal, the deadline of the run too, is swallowed. *)
StartReport ==
  /\ turn.pc = "report"
  /\ \/ EnterReview([run EXCEPT !.report = TRUE], Leave("ended"))
     \/ Leave("ended") /\ run' = [run EXCEPT !.report = TRUE] /\ UNCHANGED <<bud, acct>>
  /\ UNCHANGED <<unread, call>> /\ KeepGateway

(* A request that is refused leaves the run, or its report, without a verdict.  The
   report does not call add_usage here: an answer it was billed for, whose repair is what
   was refused, stays unread.  (reviewUsed is not read again before an admission sets it.) *)
ReviewRefused ==
  LET a == [UncountCall(acct) EXCEPT !.reviews = Less(@)]
      b == [bud EXCEPT !.reviewUsed = a.reviews]
  IN  IF run.report
      THEN /\ acct' = a /\ bud' = SetRunUsage(b, Tokens(a), a.logical) /\ UNCHANGED unread
           /\ Leave("ended") /\ run' = [run EXCEPT !.why = "report_refused"]
      ELSE /\ Published("review", a, b) /\ Inconclusive
           /\ run' = [run EXCEPT !.why = IF PromptRefused(bud, "review", FALSE)
                                         THEN "review_refused" ELSE @]

ReviewAsk ==
  /\ turn.pc = "reviewAsk"
  /\ \E large \in BOOLEAN :
     IF large \/ PromptRefused(bud, "review", FALSE)
     THEN ReviewRefused /\ UNCHANGED call /\ KeepGateway
     ELSE /\ turn' = [turn EXCEPT !.pc = "reviewInvoke", !.asked = @ + 1]
          /\ UNCHANGED <<gatewayVars, acct, run>>

ReviewDone == turn.pc = "reviewWait" /\ call.st = "done"
CandidateReviewed == ReviewDone /\ ~run.report
ReviewedAcct == [acct EXCEPT !.logical = @ + turn.asked - 1]
ReviewPass ==
  /\ CandidateReviewed /\ call.out = "ok"
  /\ Published("review", ReviewedAcct, bud)
  /\ Done
  /\ EndCall /\ KeepGateway

(* A rejection: recovered once if it can be, with another Review round to come. *)
ReviewReject ==
  /\ CandidateReviewed /\ call.out = "ok"
  /\ ~Exceeds("review", ReviewedAcct)
  /\ run.reviewRounds < MaxReviewRounds /\ run.cycles < MaxRecoveryCycles
  /\ LET a == Publish("review", ReviewedAcct)
     IN  Published("review", ReviewedAcct, BeginRecovery(bud, Tokens(a), a.logical))
  /\ \E ready \in BOOLEAN : run' = [run EXCEPT !.cycles = @ + 1, !.ready = ready]
  /\ Leave("after")
  /\ EndCall /\ KeepGateway
ReviewStop ==
  /\ CandidateReviewed /\ call.out = "ok"
  /\ Published("review", ReviewedAcct, bud) /\ Stop
  /\ EndCall /\ KeepGateway
\* Mutant: a repair that fails is repaired again.
ReviewRepairTwice ==
  /\ ReviewDone /\ call.out \in {"ok", "bad"} /\ turn.asked <= 2
  /\ Goto("reviewAsk") /\ EndCall
  /\ UNCHANGED <<bud, unread, acct, run>> /\ KeepGateway

ReviewRepair ==
  /\ ReviewDone /\ call.out \in {"ok", "bad"} /\ turn.asked < 2
  /\ Goto("reviewAsk") /\ EndCall
  /\ UNCHANGED <<bud, unread, acct, run>> /\ KeepGateway
ReviewExhausted ==
  /\ CandidateReviewed /\ call.out \in {"ok", "bad"} /\ turn.asked = 2
  /\ Published("review", ReviewedAcct, bud) /\ Stop
  /\ EndCall /\ KeepGateway
ReviewFailed ==
  /\ CandidateReviewed /\ call.out \in {"deadline", "limit", "error"}
  /\ Published("review", ReviewedAcct, bud) /\ Done
  /\ EndCall /\ KeepGateway

(* The verdict on the report, or none: the status stays.  Usage over a limit is raised by
   add_usage, swallowed after an answer with the repair counted again; after an error it
   escapes the run. *)
ReportReviewed ==
  /\ ReviewDone /\ run.report /\ ~(call.out = "bad" /\ turn.asked = 1)
  /\ LET again == IF call.out = "ok" /\ Exceeds("review", ReviewedAcct) THEN turn.asked - 1 ELSE 0
     IN  Published("review", [ReviewedAcct EXCEPT !.logical = @ + again], bud)
  /\ Done
  /\ EndCall /\ KeepGateway

----------------------------------------------------------------------------
TurnStep == StartTurn \/ HeadFinalize \/ HeadStop \/ NextTurn \/ CallProvider
PlannerStep == PlannerAsk \/ PlannerCompact \/ Readmit \/ PlannerCommit \/ PlannerContext
               \/ PlannerContextEnd \/ PlannerRepair \/ PlannerExhausted \/ PlannerFailed
ReflectionStep == Reflect \/ ReflectAsk \/ ReflectAccept \/ ReflectRepair \/ ReflectExhausted
                  \/ ReflectFailed
ReviewStep == StartReview \/ StartReport \/ ReviewAsk \/ ReviewPass \/ ReviewReject \/ ReviewStop
              \/ ReviewRepair \/ ReviewExhausted \/ ReviewFailed \/ ReportReviewed
RoleStep == TurnStep \/ PlannerStep \/ ReflectionStep \/ ReviewStep
ProviderStep == GatewayStep /\ UNCHANGED runVars

Next == RoleStep \/ ProviderStep

(* The Runtime is one thread and takes its next step; the child computes, its
   transport loop is finite, and the parent collects or kills it at its timeout. *)
Spec == Init /\ [][Next]_vars /\ WF_vars(Next)

----------------------------------------------------------------------------
PCs == {"head", "ask", "invoke", "wait", "readmit", "after", "reflectAsk", "reflectInvoke",
        "reflectWait", "candidate", "reviewAsk", "reviewInvoke", "reviewWait", "report", "ended"}
CallStates == {"none", "forked", "locked", "counted", "sent", "replied", "done", "stuck"}
Outcomes == {"ok", "bad", "error", "deadline", "limit"}
LifecyclePhases == {"investigation", "consolidation", "review", "investigation_recovery"}
Counter == [Roles -> Nat]
BudgetType == [phase : LifecyclePhases, started : Nat \union {NotStarted}, reviewTokens : Nat,
               heldTokens : Nat, heldCalls : Nat, offTokens : Nat, offCalls : Nat,
               reviewUsed : Nat, projected : BOOLEAN, tokens : Nat, calls : Nat]
UsageType == [Roles -> [p : Nat, t : Nat]]
CallType == [st : CallStates, role : Roles, shared : 0..MaxAttempts, out : Outcomes]
AcctType == [logical : Nat, reviews : Nat, prompt : Nat, spent : Counter]
TurnType == [pc : PCs, asked : Nat, rounds : 0..ContextRounds, retried : BOOLEAN,
             targeted : BOOLEAN, projection : BOOLEAN, triggers : 0..TriggersPerTurn]
Reasons == {"other", "handoff", "review_refused", "report_refused"}
RunType == [ready : BOOLEAN, hypothesis : BOOLEAN, why : Reasons, report : BOOLEAN,
            compactions : 0..CompactionLimit, reflections : 0..MaxReflections,
            reviewRounds : 0..MaxReviewRounds, cycles : 0..MaxRecoveryCycles]

(* Types of the machine, and the limits its counters keep within: attempts of a
   call, context rounds, Reflections, Review rounds, recoveries, compactions. *)
TypeOK ==
  /\ bud \in BudgetType /\ ledger \in Counter /\ unread \in UsageType /\ call \in CallType
  /\ wire \in Counter /\ closing \in Nat
  /\ acct \in AcctType /\ turn \in TurnType /\ run \in RunType

(* No order of retries, kills and phases sends more attempts than the run may
   make, and what is held for Review is never sent by another role: the ledger
   is read in two processes and the counter of a killed child survives it
   (provider_gateway.py _invoke, dynamic_budget.py api_attempt_rejection). *)
ReserveProtected ==
  /\ Total(wire) <= TotalCalls
  /\ NonReview(wire) <= InvestigationCalls + TerminalCalls

(* Consolidation is entered from investigation and again from recovery; together
   both send no more than the one terminal allowance, Review's attempts in
   between counted against it (begin_consolidation, api_attempt_rejection). *)
ConsolidationBounded == closing <= TerminalCalls

(* Whatever ended it, a call is charged with every attempt it sent, so the next
   admission never reads a ledger that is behind the wire. *)
LedgerCoversWire == call.st \in {"none", "done"} => \A r \in Roles : wire[r] <= ledger[r]

(* Between turns and at the end every record was published: an error, a refusal or a
   rejected repair on the way out of a turn loses no usage (add_usage and its
   callers).  One exit does: what the Review of a report was billed for an answer
   whose repair is then refused (review_inconclusive_report), and nothing else. *)
UsagePublished ==
  turn.pc \in {"head", "after", "candidate", "report", "ended"} =>
    \A r \in Roles : unread[r] = NoUsage \/ (r = "review" /\ run.why = "report_refused")

(* A run is never billed more than two bills beyond what its last check leaves to
   requests: the request that was checked, and a repair checked on the figures of
   its turn's first (check_prompt, request_budget_status, add_usage). *)
TokensBounded ==
  Tokens(acct) + UnreadTokens <= Over(TotalTokens, TerminalTokens + Need) + 2 * MaxBill

(* A turn of the Planner asks at most once per context round, once for its repair
   and once more; Reflection and Review ask twice (PlanningSession.run, reflect,
   review). *)
TurnBounded ==
  turn.asked <= IF turn.pc \in {"ask", "invoke", "wait", "readmit"} THEN ContextRounds + 2
                ELSE IF turn.pc \in {"reflectInvoke", "reflectWait", "reviewInvoke", "reviewWait"}
                     THEN 2 ELSE turn.asked

(* Every run ends, unless the parent waits for the lock of a child it killed:
   nothing bounds the loop but the counters of its parts together. *)
RunEnds == <>(turn.pc = "ended" \/ call.st = "stuck")

(* "Review's reserved capacity remains available for the next bounded Review
   call" (dynamic_budget.py begin_investigation_recovery): with attempts and
   tokens of its reserve left, a Review request is not refused. *)
ReviewReserveAvailable ==
  run.why = "review_refused" =>
    \/ ledger["review"] >= ReviewCalls
    \/ Tokens(acct) - bud.reviewTokens + Need > ReviewTokens
=============================================================================
