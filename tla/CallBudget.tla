---------------------------- MODULE CallBudget ----------------------------
(***************************************************************************)
(* The arithmetic of DynamicBudgetController and of the admission boundary *)
(* of ProgressPolicy, as operators on the record of its fields.            *)
(*                                                                         *)
(* Abstractions.  A request needs Need tokens, prompt estimate and reserve *)
(* for its answer together; cost is left out; time appears as the deadline *)
(* of the machine that uses these operators and not as a reserve here.     *)
(* The physical size of a prompt is a choice of that machine as well.      *)
(***************************************************************************)
EXTENDS Integers

CONSTANTS InvestigationCalls, ReviewCalls, TerminalCalls,
          InvestigationTokens, ReviewTokens, TerminalTokens,
          ProjectionTokens,  \* terminal_projection_budget_tokens
          ProjectionFloor,   \* terminal_projection_review_floor
          Need

(* BudgetAllocation.resolve refuses an allocation without investigation. *)
ASSUME AllocationAssumption ==
  /\ InvestigationCalls \in Nat \ {0} /\ InvestigationTokens \in Nat \ {0}
  /\ ReviewCalls \in Nat /\ ReviewTokens \in Nat
  /\ TerminalCalls \in Nat \ {0} /\ TerminalTokens \in Nat
  /\ ProjectionTokens \in Nat /\ ProjectionFloor \in Nat /\ Need \in Nat \ {0}

Roles == {"planner", "reflection", "review"}
TotalCalls == InvestigationCalls + ReviewCalls + TerminalCalls
TotalTokens == InvestigationTokens + ReviewTokens + TerminalTokens

Over(n, m) == IF n > m THEN n - m ELSE 0

NotStarted == -1
NewBudget ==
  [phase |-> "investigation", started |-> NotStarted, reviewTokens |-> 0,
   heldTokens |-> 0, heldCalls |-> 0, offTokens |-> 0, offCalls |-> 0,
   reviewUsed |-> 0, projected |-> FALSE, tokens |-> 0, calls |-> 0]

(* The last known usage of the run, which a request without figures of its own is checked on. *)
SetRunUsage(b, tokens, calls) == [b EXCEPT !.tokens = tokens, !.calls = calls]

----------------------------------------------------------------------------
(* Consolidation: its allowance counts from the first entry of the run. *)
MayConsolidate(b) == b.phase \in {"investigation", "investigation_recovery"}

BeginConsolidation(b, physical) ==
  [b EXCEPT !.phase = "consolidation",
            !.started = IF @ = NotStarted THEN physical ELSE @]

(* Review takes ownership unless investigation overran its allocation. *)
HandoffTokens(b, tokens) ==
  IF b.phase = "investigation_recovery" THEN Over(tokens, b.offTokens) ELSE tokens
HandoffCalls(b, calls) ==
  IF b.phase = "investigation_recovery" THEN Over(calls, b.offCalls) ELSE calls
HandoffRefused(b, tokens, calls) ==
  /\ b.phase # "review"
  /\ \/ /\ HandoffTokens(b, tokens) > InvestigationTokens
        /\ \/ HandoffTokens(b, tokens) - InvestigationTokens > ProjectionTokens
           \/ ~b.projected
     \/ HandoffCalls(b, calls) >
          InvestigationCalls + (IF b.phase = "consolidation" THEN TerminalCalls ELSE 0)
BeginReview(b, tokens, calls) ==
  IF b.phase = "review" THEN b
  ELSE [b EXCEPT !.phase = "review", !.projected = FALSE,
                 !.heldTokens = HandoffTokens(b, tokens), !.heldCalls = HandoffCalls(b, calls),
                 !.offTokens = 0, !.offCalls = 0, !.reviewTokens = tokens]

(* A rejection returns ownership; what Review used is taken off from now on. *)
BeginRecovery(b, tokens, calls) ==
  [b EXCEPT !.phase = "investigation_recovery",
            !.offTokens = Over(tokens, b.heldTokens), !.offCalls = Over(calls, b.heldCalls)]

----------------------------------------------------------------------------
(* What the phase has used and may use, as the lifecycle is reported and checked. *)
PhaseTokensUsed(b, tokens) ==
  CASE b.phase = "investigation_recovery" -> Over(tokens, b.offTokens)
    [] b.phase = "review" -> Over(tokens, b.reviewTokens)
    [] OTHER -> tokens
PhaseTokens(b) ==
  CASE b.phase = "consolidation" -> InvestigationTokens + TerminalTokens
    [] b.phase = "review" -> ReviewTokens
    [] OTHER -> InvestigationTokens
PhaseTokensLeft(b, tokens) == Over(PhaseTokens(b), PhaseTokensUsed(b, tokens))
ClosingAllowance(b) ==
  LET room == Over(InvestigationCalls + TerminalCalls, b.started)
  IN  IF room < TerminalCalls THEN room ELSE TerminalCalls
PhaseCallsLeft(b, calls) ==
  CASE b.phase = "consolidation" -> Over(ClosingAllowance(b), Over(calls, b.started))
    [] b.phase = "review" -> Over(ReviewCalls, b.reviewUsed)
    [] b.phase = "investigation_recovery" -> Over(InvestigationCalls, Over(calls, b.offCalls))
    [] OTHER -> Over(InvestigationCalls, calls)

(* The terminal reserve is protected while some of the run is left. *)
ReserveReached(prompt, logical) ==
  LET tokens == Over(TotalTokens, prompt)
      calls  == Over(TotalCalls, logical)
  IN  /\ tokens > 0 /\ calls > 0
      /\ tokens <= TerminalTokens \/ calls <= TerminalCalls

(* A counted admission: the reason it is refused for, or "admitted". *)
AdmissionStop(stage, b, prompt, tokens, logical, reviews, targeted) ==
  IF /\ stage # "review" /\ ReserveReached(prompt, logical)
     /\ ~targeted /\ ~(stage = "planner" /\ b.phase = "consolidation")
                                                   THEN "terminal_reserve_protected"
  ELSE IF tokens >= TotalTokens                      THEN "max_total_tokens"
  ELSE IF logical >= TotalCalls                      THEN "max_llm_calls"
  ELSE IF stage = "review" /\ reviews >= ReviewCalls THEN "review_call_reserve_exhausted"
  ELSE "admitted"
UsageStop(tokens, logical) == tokens > TotalTokens \/ logical > TotalCalls

----------------------------------------------------------------------------
(* A rendered request against its phase and the run, before the provider is called. *)
Borrows(b, stage, projection) ==
  /\ projection /\ stage = "planner" /\ b.phase \in {"investigation", "investigation_recovery"}
  /\ Over(Need, PhaseTokensLeft(b, b.tokens)) <= ProjectionTokens
  /\ Over(TotalTokens, b.tokens) >= Need + TerminalTokens + ProjectionFloor

(* check_prompt reads the calls of Review only for the stage review. *)
PhaseExhausted(b, stage) ==
  IF b.phase = "review" /\ stage # "review" THEN ReviewCalls = 0
  ELSE PhaseCallsLeft(b, b.calls) = 0

PromptRefused(b, stage, projection) ==
  \/ Need > PhaseTokensLeft(b, b.tokens) /\ ~Borrows(b, stage, projection)
  \/ PhaseExhausted(b, stage)
  \/ b.calls >= TotalCalls
  \/ Need + TerminalTokens > Over(TotalTokens, b.tokens)

----------------------------------------------------------------------------
(* One physical attempt, against the attempts counted so far: the reason it is
   refused for, or "admitted". *)
ReviewRejection(reviewed) ==
  IF reviewed >= ReviewCalls THEN "review_call_reserve_exhausted" ELSE "admitted"
InvestigationRejection(charged) ==
  IF charged >= InvestigationCalls THEN "investigation_call_allocation_exhausted" ELSE "admitted"

\* Mutant: the allowance of consolidation counts the attempts of investigation only.
ClosingRejectionOwn(role, charged, since) ==
  IF role # "planner" THEN "consolidation_role_restricted"
  ELSE IF charged >= InvestigationCalls + TerminalCalls THEN "review_call_reserve_protected"
  ELSE "admitted"

ClosingRejection(role, charged, since) ==
  IF role # "planner" THEN "consolidation_role_restricted"
  ELSE IF since >= TerminalCalls THEN "consolidation_call_reserve_exhausted"
  ELSE IF charged >= InvestigationCalls + TerminalCalls THEN "review_call_reserve_protected"
  ELSE "admitted"

Rejection(b, role, total, reviewed) ==
  IF total >= TotalCalls THEN "max_llm_calls"
  ELSE IF role = "review" THEN ReviewRejection(reviewed)
  ELSE IF b.phase = "consolidation" THEN ClosingRejection(role, total - reviewed, total - b.started)
  ELSE InvestigationRejection(total - reviewed)
=============================================================================
