-------------------------- MODULE RunControlProofs --------------------------
(***************************************************************************)
(* Theorems about RunControl, for every number of hypotheses and every     *)
(* limit.  None of its invariants is inductive: that a run is PASS only by *)
(* a Review of what it delivers needs what holds while the Candidate is on *)
(* its way to Review, and that the counters stay within their limits needs *)
(* how far each may be when the investigation goes on.  IInv adds both.    *)
(***************************************************************************)
EXTENDS RunControl, TLAPS

PCs == {"head", "turn", "acted", "candidate", "review", "rejected", "report", "done"}
(* The run has not ended. *)
Live == PCs \ {"report", "done"}
(* The Candidate is on its way to Review, or there. *)
Submitted == {"candidate", "review"}

(* Records whose reasons and signatures are data: the model computes with neither. *)
ReflOK(r) ==
  /\ r = [calls |-> r.calls, noDelta |-> r.noDelta, signatures |-> r.signatures]
  /\ r.calls \in 0..MaxReflections /\ r.noDelta \in 0..MaxNoDelta
OutOK(o) ==
  /\ o = [pc |-> o.pc, status |-> o.status, why |-> o.why, candidate |-> o.candidate,
          decision |-> o.decision, about |-> o.about, failed |-> o.failed, class |-> o.class]
  /\ o.pc \in PCs /\ o.status \in {"PASS", "INCONCLUSIVE", "FAILED"}
  /\ o.candidate \in CandidateType /\ o.about \in CandidateType
  /\ o.decision \in {"none", "PASS", "REJECT"}
ReviewType == [rounds : 0..(MaxReviewRounds + 1), cycles : 0..MaxRecoveryCycles,
               base : CandidateType, converged : BOOLEAN]
Typed == /\ setting \in [mode : Modes, review : Reviews] /\ late \in BOOLEAN
         /\ sem \in SemType /\ loop \in LoopType /\ loop.step <= loop.limit
         /\ ReflOK(refl) /\ review \in ReviewType /\ OutOK(out)

(* What FinalizationPolicy lets through names a hypothesis. *)
Grounded(s) == s.ready => s.hyp # 0
(* While the run lives no counter has reached the value at which the code raises. *)
Room(l) == l.compactions <= CompactionLimit /\ l.stale < MaxNoProgress /\ l.repeated <= MaxDuplicates
Submission == out.candidate = Candidate(sem) /\ sem.ready
Resubmission ==
  review.base # NoBase /\ out.why # "post_commit_finalization" => out.candidate # review.base

IInv ==
  /\ Typed /\ Grounded(sem)
  /\ out.pc # "done" => review.rounds <= MaxReviewRounds
  /\ out.pc \in Live => Room(loop) /\ out.status = "FAILED"
  /\ out.pc = "turn" => loop.step < loop.limit
  /\ out.pc = "acted" => ~sem.ready
  /\ out.pc \in Submitted => Submission /\ Resubmission
  /\ PassIsReviewed
-----------------------------------------------------------------------------
(* How a run ends, and what is published. *)

Stops == out'.pc = "report" /\ out'.status # "PASS"

\* Every exception ends the run, and none of them with PASS.
LEMMA RaiseSet ==
  ASSUME NEW e, NEW o, OutOK(o), NEW n, Raise(e, o, n)
  PROVE  OutOK(out') /\ Stops
<1>1. PICK status \in {"INCONCLUSIVE", "FAILED"} : \E why, failed :
        out' = [o EXCEPT !.pc = "report", !.status = status, !.why = why, !.failed = failed]
  <2>1. CASE e \in DOMAIN Inconclusive
    <3>1. out' = [o EXCEPT !.pc = "report", !.status = "INCONCLUSIVE", !.why = Inconclusive[e],
                           !.failed = o.failed]
      BY <2>1 DEF Raise, OutOK
    <3>2. QED
      BY <3>1
  <2>2. CASE e \notin DOMAIN Inconclusive /\ e \in DOMAIN AfterReview /\ n > 0
    <3>1. out' = [o EXCEPT !.pc = "report", !.status = "INCONCLUSIVE", !.why = AfterReview[e],
                           !.failed = o.failed]
      BY <2>2 DEF Raise, OutOK
    <3>2. QED
      BY <3>1
  <2>3. CASE e \notin DOMAIN Inconclusive /\ ~(e \in DOMAIN AfterReview /\ n > 0)
    <3>1. \E why : out' = [o EXCEPT !.pc = "report", !.status = "FAILED", !.why = why, !.failed = e]
      BY <2>3 DEF Raise, OutOK
    <3>2. QED
      BY <3>1
  <2>4. QED
    BY <2>1, <2>2, <2>3
<1>2. QED
  BY <1>1 DEF OutOK, Stops, PCs

LEMMA InconcludeSet ==
  ASSUME NEW why, OutOK(out), Inconclude(why)
  PROVE  OutOK(out') /\ Stops
BY DEF Inconclude, OutOK, Stops, PCs

LEMMA MoveSet ==
  ASSUME NEW pc \in PCs, NEW o, OutOK(o)
  PROVE  /\ OutOK([o EXCEPT !.pc = pc]) /\ [o EXCEPT !.pc = pc].pc = pc
         /\ [o EXCEPT !.pc = pc].status = o.status
         /\ [o EXCEPT !.pc = pc].candidate = o.candidate /\ [o EXCEPT !.pc = pc].why = o.why
BY DEF OutOK

LEMMA JudgedSet ==
  ASSUME NEW o, OutOK(o), NEW d \in {"PASS", "REJECT"}, NEW c \in CandidateType
  PROVE  OutOK([o EXCEPT !.decision = d, !.about = c])
<1> DEFINE p == [o EXCEPT !.decision = d]
           q == [p EXCEPT !.about = c]
<1>1. OutOK(p)
  BY DEF OutOK
<1>2. [o EXCEPT !.decision = d, !.about = c] = q
  BY DEF OutOK
<1> HIDE DEF p
<1>3. OutOK(q)
  BY <1>1 DEF OutOK
<1>4. QED
  BY <1>2, <1>3

LEMMA CandidateSet ==
  ASSUME NEW s \in SemType
  PROVE  Candidate(s) \in CandidateType
BY DEF Candidate, SemType, CandidateType

\* What is published is the state as it is, and only if the policy lets it through.
LEMMA PublishSet ==
  ASSUME NEW why, NEW s \in SemType, OutOK(out), Publish(why, s)
  PROVE  /\ OutOK(out')
         /\ \/ Stops
            \/ /\ out'.pc = "candidate" /\ out'.candidate = Candidate(s) /\ s.ready
               /\ out'.why = why /\ out'.status = out.status
<1>1. CASE s.ready
  <2>1. out' = [out EXCEPT !.pc = "candidate", !.why = why, !.candidate = Candidate(s)]
    BY <1>1 DEF Publish
  <2>2. Candidate(s) \in CandidateType
    BY CandidateSet
  <2>3. QED
    BY <1>1, <2>1, <2>2 DEF OutOK, PCs
<1>2. CASE ~s.ready
  <2>1. Raise("blocked", out, review.rounds)
    BY <1>2 DEF Publish
  <2>2. QED
    BY <2>1, RaiseSet
<1>3. QED
  BY <1>1, <1>2

\* What the Runtime submits itself differs from what Review rejected.
LEMMA SubmitSet ==
  ASSUME NEW why, sem \in SemType, review \in ReviewType, OutOK(out), Submit(why)
  PROVE  /\ OutOK(out')
         /\ \/ Stops
            \/ /\ out'.pc = "candidate" /\ out'.candidate = Candidate(sem) /\ sem.ready
               /\ out'.status = out.status
               /\ review.base # NoBase => out'.candidate # review.base
<1>1. CASE ReviewProgress(sem)
  <2>1. Publish(why, sem)
    BY <1>1 DEF Submit
  <2>2. review.base # NoBase => Candidate(sem) # review.base
    BY <1>1 DEF ReviewProgress, Candidate, SemType, ReviewType, CandidateType
  <2>3. QED
    BY <2>1, <2>2, PublishSet
<1>2. CASE ~ReviewProgress(sem)
  <2>1. Raise("unchanged", [out EXCEPT !.why = why], review.rounds)
    BY <1>2 DEF Submit
  <2>2. OutOK([out EXCEPT !.why = why])
    BY DEF OutOK
  <2>3. QED
    BY <2>1, <2>2, RaiseSet
<1>3. QED
  BY <1>1, <1>2

-----------------------------------------------------------------------------
(* Reflection. *)

LEMMA DeltaSet ==
  ASSUME NEW s \in SemType, NEW d \in Deltas(s)
  PROVE  d \in SemType /\ Grounded(d)
<1>1. (IF s.hyp = 0 THEN {0} ELSE Hypotheses) \subseteq Hypotheses \union {0}
  OBVIOUS
<1>2. s.ev \in 0..MaxEvidence /\ {s.ev} \subseteq 0..MaxEvidence
  BY DEF SemType
<1>3. d \in [hyp : IF s.hyp = 0 THEN {0} ELSE Hypotheses, ev : {s.ev}, contra : BOOLEAN,
             ready : BOOLEAN, stable : {FALSE}] /\ (d.ready => d.hyp # 0)
  BY DEF Deltas
<1>4. QED
  BY <1>1, <1>2, <1>3 DEF SemType, Grounded

Answered(g, s) == /\ ReflOK(g.refl) /\ g.sem \in SemType /\ Grounded(g.sem)
                  /\ ~g.moved => g.sem = s

\* A Reflection stays within its counters, moves the state only to one the policy accepts or
\* refuses for a reason, and leaves it alone when it does not say that it moved it.
LEMMA ReflectionsSet ==
  ASSUME NEW required \in BOOLEAN, NEW s \in SemType, Grounded(s), NEW l, NEW r, ReflOK(r),
         review \in ReviewType, NEW g \in Reflections(required, s, l, r)
  PROVE  Answered(g, s)
<1> DEFINE trigger == Trigger(required, s, l)
           signature == [trigger |-> trigger, hyp |-> s.hyp, ev |-> s.ev,
                         feedback |-> IF required THEN review.rounds ELSE 0]
           held == [refl |-> r, sem |-> s, moved |-> FALSE, failed |-> FALSE]
           refused == [r EXCEPT !.signatures = @ \union {signature}]
           used == [refused EXCEPT !.calls = @ + 1]
           mayAsk == r.noDelta < MaxNoDelta /\ signature \notin r.signatures /\ r.calls < MaxReflections
<1>1. CASE g = held
  BY <1>1 DEF Answered
<1>2. CASE mayAsk /\ g # held
  <2>1. ReflOK(refused) /\ refused.calls = r.calls /\ refused.noDelta = r.noDelta
    BY DEF ReflOK
  <2> HIDE DEF refused, signature
  <2>2. ReflOK(used) /\ used.noDelta = r.noDelta
    BY <1>2, <2>1, LimitAssumption DEF ReflOK
  <2> HIDE DEF used
  <2> DEFINE more == [used EXCEPT !.noDelta = @ + 1]
             zero == [used EXCEPT !.noDelta = 0]
  <2>3. ReflOK(more) /\ ReflOK(zero)
    BY <1>2, <2>2, LimitAssumption DEF ReflOK
  <2>4. \/ g \in {[held EXCEPT !.refl = refused], [held EXCEPT !.refl = used],
                  [held EXCEPT !.refl = used, !.failed = TRUE],
                  [held EXCEPT !.refl = more], [held EXCEPT !.refl = zero]}
        \/ \E d \in Deltas(s) : g = [refl |-> zero, sem |-> d, moved |-> TRUE, failed |-> FALSE]
    BY <1>2 DEF Reflections, refused, used, signature
  <2> HIDE DEF more, zero
  <2>5. CASE g \in {[held EXCEPT !.refl = refused], [held EXCEPT !.refl = used],
                    [held EXCEPT !.refl = used, !.failed = TRUE],
                    [held EXCEPT !.refl = more], [held EXCEPT !.refl = zero]}
    BY <2>1, <2>2, <2>3, <2>5 DEF Answered
  <2>6. CASE \E d \in Deltas(s) : g = [refl |-> zero, sem |-> d, moved |-> TRUE, failed |-> FALSE]
    BY <2>3, <2>6, DeltaSet DEF Answered
  <2>7. QED
    BY <2>4, <2>5, <2>6
<1>3. g = held \/ mayAsk
  BY DEF Reflections
<1>4. QED
  BY <1>1, <1>2, <1>3

-----------------------------------------------------------------------------
(* Every step keeps the invariant. *)

LEMMA Stopped ==
  ASSUME Typed', Grounded(sem)', Stops, review'.rounds <= MaxReviewRounds
  PROVE  IInv'
BY DEF IInv, Stops, Live, Submitted, PCs, PassIsReviewed

\* A step that only ends the run.
LEMMA OnlyStops ==
  ASSUME IInv, out.pc # "done", OutOK(out'), Stops, UNCHANGED <<setting, late, sem, loop, refl, review>>
  PROVE  IInv'
<1>1. Typed' /\ Grounded(sem)' /\ review'.rounds <= MaxReviewRounds
  BY DEF IInv, Typed, OutOK, CandidateType, SemType, LoopType, ReviewType, ReflOK, Grounded
<1>2. QED
  BY <1>1, Stopped

\* A step that publishes what the Runtime submits.
LEMMA SubmitInv ==
  ASSUME IInv, out.pc \in Live, NEW why, Submit(why), UNCHANGED <<setting, late, sem, loop, refl, review>>
  PROVE  IInv'
<1>1. OutOK(out') /\ out.pc # "done" /\ sem \in SemType /\ review \in ReviewType
  BY SubmitSet DEF IInv, Typed, Live
<1>2. CASE Stops
  BY <1>1, <1>2, OnlyStops
<1>3. CASE ~Stops
  <2>1. /\ out'.pc = "candidate" /\ out'.candidate = Candidate(sem) /\ sem.ready
        /\ out'.status = out.status /\ (review.base # NoBase => out'.candidate # review.base)
    BY <1>3, SubmitSet DEF IInv, Typed
  <2>2. out'.status = "FAILED"
    BY <2>1 DEF IInv
  <2>3. Typed'
    BY <1>1 DEF IInv, Typed, OutOK, CandidateType, SemType, LoopType, ReviewType, ReflOK
  <2>4. Submission' /\ Resubmission'
    BY <2>1 DEF Submission, Resubmission, Candidate, NoBase
  <2>5. QED
    BY <2>1, <2>2, <2>3, <2>4 DEF IInv, PassIsReviewed, Submitted, Live, PCs, Room, Grounded
<1>4. QED
  BY <1>2, <1>3

LEMMA HeadInv ==
  ASSUME IInv, Head
  PROVE  IInv'
<1>1. /\ out.pc = "head" /\ OutOK(out) /\ out.pc \in Live /\ out.pc # "done"
      /\ UNCHANGED <<setting, late, sem, loop, refl, review>>
  BY DEF Head, IInv, Typed, Live, PCs
<1>2. PICK pressed \in BOOLEAN :
        \/ HeadReason(pressed) = "continue" /\ out' = [out EXCEPT !.pc = "turn"]
        \/ Submit(FinalReason[HeadReason(pressed)])
        \/ Raise(IF late THEN "deadline" ELSE "limit", out, review.rounds)
  BY DEF Head
<1>3. CASE HeadReason(pressed) = "continue" /\ out' = [out EXCEPT !.pc = "turn"]
  <2>1. loop.step < loop.limit
    BY <1>3 DEF HeadReason, IInv, Typed, LoopType
  <2>2. OutOK(out') /\ out'.pc = "turn" /\ out'.status = out.status
    BY <1>1, <1>3, MoveSet DEF PCs
  <2>3. Typed'
    BY <1>1, <2>2 DEF IInv, Typed, OutOK, CandidateType, SemType, LoopType, ReviewType, ReflOK
  <2>4. QED
    BY <1>1, <2>1, <2>2, <2>3 DEF IInv, PassIsReviewed, Submitted, Live, PCs, Room, Grounded
<1>4. CASE Submit(FinalReason[HeadReason(pressed)])
  BY <1>1, <1>4, SubmitInv
<1>5. CASE Raise(IF late THEN "deadline" ELSE "limit", out, review.rounds)
  BY <1>1, <1>5, RaiseSet, OnlyStops
<1>6. QED
  BY <1>2, <1>3, <1>4, <1>5

LEMMA TurnFailsInv ==
  ASSUME IInv, TurnFails
  PROVE  IInv'
<1>1. /\ OutOK(out) /\ out.pc \in Live /\ out.pc # "done"
      /\ UNCHANGED <<setting, late, sem, loop, refl, review>>
  BY DEF TurnFails, IInv, Typed, Live, PCs
<1>2. (\E why : Submit(why)) \/ (\E e : Raise(e, out, review.rounds))
  BY DEF TurnFails, Salvage
<1>3. CASE \E why : Submit(why)
  BY <1>1, <1>3, SubmitInv
<1>4. CASE \E e : Raise(e, out, review.rounds)
  BY <1>1, <1>4, RaiseSet, OnlyStops
<1>5. QED
  BY <1>2, <1>3, <1>4

LEMMA TurnCompactsInv ==
  ASSUME IInv, TurnCompacts
  PROVE  IInv'
<1>1. /\ out.pc = "turn" /\ OutOK(out) /\ UNCHANGED <<setting, late, sem, refl, review>>
      /\ loop' = [loop EXCEPT !.compactions = @ + 1] /\ loop \in LoopType /\ Room(loop)
      /\ review.rounds <= MaxReviewRounds
  BY DEF TurnCompacts, IInv, Typed, Live, PCs
<1>2. /\ loop' \in LoopType /\ loop'.stale = loop.stale /\ loop'.repeated = loop.repeated
      /\ loop'.step = loop.step /\ loop'.limit = loop.limit /\ loop'.compactions = loop.compactions + 1
  BY <1>1, LimitAssumption DEF LoopType, Room
<1>3. CASE loop.compactions < CompactionLimit /\ out' = [out EXCEPT !.pc = "head"]
  <2>1. OutOK(out') /\ out'.pc = "head" /\ out'.status = out.status
    BY <1>1, <1>3, MoveSet DEF PCs
  <2>2. Room(loop')
    BY <1>1, <1>2, <1>3, LimitAssumption DEF Room, LoopType
  <2>3. Typed'
    BY <1>1, <1>2, <2>1 DEF IInv, Typed, OutOK, CandidateType, SemType, LoopType, ReviewType, ReflOK
  <2>4. QED
    BY <1>1, <2>1, <2>2, <2>3 DEF IInv, PassIsReviewed, Submitted, Live, PCs, Room, Grounded
<1>4. CASE Raise("runtime", out, review.rounds)
  <2>1. OutOK(out') /\ Stops
    BY <1>1, <1>4, RaiseSet
  <2>2. Typed' /\ Grounded(sem)'
    BY <1>1, <1>2, <2>1 DEF IInv, Typed, OutOK, CandidateType, SemType, LoopType, ReviewType, ReflOK, Grounded
  <2>3. QED
    BY <1>1, <2>1, <2>2, Stopped
<1>5. QED
  BY <1>3, <1>4 DEF TurnCompacts

\* A transaction leaves a state the policy refuses, or one with a hypothesis.
LEMMA TransactionSet ==
  ASSUME NEW s \in SemType, NEW t \in Transactions(s)
  PROVE  t \in SemType /\ Grounded(t)
<1>1. s.ev \in 0..MaxEvidence /\ s.ev..MaxEvidence \subseteq 0..MaxEvidence
  BY LimitAssumption DEF SemType
<1>2. t \in [hyp : Hypotheses, ev : s.ev..MaxEvidence, contra : BOOLEAN, ready : BOOLEAN, stable : BOOLEAN]
  BY DEF Transactions
<1>3. QED
  BY <1>1, <1>2, HypothesesAssumption DEF SemType, Grounded

LEMMA TurnCommitsInv ==
  ASSUME IInv, TurnCommits
  PROVE  IInv'
<1>1. /\ out.pc = "turn" /\ OutOK(out) /\ UNCHANGED <<setting, late, refl, review>>
      /\ loop \in LoopType /\ Room(loop) /\ review.rounds <= MaxReviewRounds /\ sem \in SemType
      /\ loop.step < loop.limit /\ out.status = "FAILED"
  BY DEF TurnCommits, IInv, Typed, Live, PCs
<1>2. PICK t \in Transactions(sem), closed \in BOOLEAN :
        /\ sem' = t
        /\ loop' = [loop EXCEPT !.step = @ + 1, !.progress = Progress(sem, t, closed) /\ ~t.ready]
        /\ \/ Publish("post_commit_finalization", t)
           \/ ~t.ready /\ out' = [out EXCEPT !.pc = "acted"]
           \/ Raise("converge", out, review.rounds)
  BY DEF TurnCommits
<1>3. sem' \in SemType /\ Grounded(sem')
  BY <1>1, <1>2, TransactionSet
<1>4. /\ loop' \in LoopType /\ loop'.step <= loop'.limit /\ Room(loop')
  <2>1. (Progress(sem, t, closed) /\ ~t.ready) \in BOOLEAN
    OBVIOUS
  <2>2. loop.step + 1 \in 0..MaxSteps /\ loop.step + 1 <= loop.limit
    BY <1>1, LimitAssumption DEF LoopType
  <2>3. QED
    BY <1>1, <1>2, <2>1, <2>2 DEF LoopType, Room
<1>5. OutOK(out') => Typed' /\ Grounded(sem)'
  BY <1>1, <1>3, <1>4 DEF IInv, Typed, OutOK, CandidateType, SemType, LoopType, ReviewType, ReflOK, Grounded
<1>6. CASE Publish("post_commit_finalization", t)
  <2>1. /\ OutOK(out')
        /\ \/ Stops
           \/ /\ out'.pc = "candidate" /\ out'.candidate = Candidate(t) /\ t.ready
              /\ out'.why = "post_commit_finalization" /\ out'.status = out.status
    BY <1>1, <1>2, <1>3, <1>6, PublishSet
  <2>2. CASE Stops
    BY <1>1, <1>5, <2>1, <2>2, Stopped
  <2>3. CASE ~Stops
    <3>1. Submission' /\ Resubmission'
      BY <1>2, <2>1, <2>3 DEF Submission, Resubmission
    <3>2. QED
      BY <1>1, <1>4, <1>5, <2>1, <2>3, <3>1 DEF IInv, PassIsReviewed, Submitted, Live, PCs
  <2>4. QED
    BY <2>2, <2>3
<1>7. CASE ~t.ready /\ out' = [out EXCEPT !.pc = "acted"]
  <2>1. OutOK(out') /\ out'.pc = "acted" /\ out'.status = out.status
    BY <1>1, <1>7, MoveSet DEF PCs
  <2>2. QED
    BY <1>1, <1>2, <1>4, <1>5, <1>7, <2>1 DEF IInv, PassIsReviewed, Submitted, Live, PCs
<1>8. CASE Raise("converge", out, review.rounds)
  BY <1>1, <1>5, <1>8, RaiseSet, Stopped
<1>9. QED
  BY <1>2, <1>6, <1>7, <1>8

LEMMA ExpireInv ==
  ASSUME IInv, Expire
  PROVE  IInv'
BY DEF Expire, IInv, Typed, OutOK, CandidateType, SemType, LoopType, ReviewType, ReflOK, Grounded,
       Submission, Candidate, Resubmission, PassIsReviewed

\* Where a Reflection left the state, the run goes on or ends.
LEMMA GoesOn ==
  ASSUME IInv, OutOK(out'), out.pc # "done", out'.status = "FAILED", out'.pc = "head",
         UNCHANGED <<setting, late>>, sem' \in SemType, Grounded(sem'),
         loop' \in LoopType, loop'.step <= loop'.limit, Room(loop'), ReflOK(refl'),
         review' \in ReviewType, review'.rounds <= MaxReviewRounds
  PROVE  IInv'
<1>1. Typed'
  BY DEF IInv, Typed, OutOK, CandidateType, SemType, LoopType, ReviewType, ReflOK
<1>2. QED
  BY <1>1 DEF IInv, PassIsReviewed, Submitted, Live, PCs, Room, Grounded

LEMMA EndsAfter ==
  ASSUME IInv, OutOK(out'), Stops, out.pc # "done",
         UNCHANGED <<setting, late>>, sem' \in SemType, Grounded(sem'),
         loop' \in LoopType, loop'.step <= loop'.limit, ReflOK(refl'),
         review' \in ReviewType, review'.rounds <= MaxReviewRounds
  PROVE  IInv'
<1>1. Typed' /\ Grounded(sem)'
  BY DEF IInv, Typed, OutOK, CandidateType, SemType, LoopType, ReviewType, ReflOK, Grounded
<1>2. QED
  BY <1>1, Stopped

\* The recovery from no progress starts from a state the policy refuses: a state it allows
\* was published with its commit.
LEMMA RecoverInv ==
  ASSUME IInv, out.pc = "acted", UNCHANGED <<setting, late, review>>,
         NEW f, Answered(f, sem), ~f.moved,
         NEW l \in LoopType, l.step <= l.limit, l.repeated <= MaxDuplicates,
         l.compactions <= CompactionLimit, Recover(f, l)
  PROVE  IInv'
<1>1. /\ OutOK(out) /\ out.pc # "done" /\ out.status = "FAILED" /\ ~f.sem.ready /\ f.sem \in SemType
      /\ Grounded(f.sem) /\ ReflOK(f.refl) /\ review \in ReviewType /\ review.rounds <= MaxReviewRounds
  BY DEF IInv, Typed, Live, PCs, Answered
<1>2. PICK g \in Reflections(FALSE, f.sem, l, f.refl) :
        /\ refl' = g.refl /\ sem' = g.sem
        /\ loop' = [l EXCEPT !.stale = IF g.moved THEN 0 ELSE @]
        /\ IF g.failed THEN Raise("reflection", out, review.rounds)
           ELSE IF g.moved THEN out' = [out EXCEPT !.pc = "head"]
           ELSE IF g.sem.ready THEN Publish("semantic_no_progress_sufficient_hypothesis", g.sem)
           ELSE Raise("stuck", out, review.rounds)
  BY DEF Recover
<1>3. Answered(g, f.sem)
  BY <1>1, ReflectionsSet
<1>4. sem' \in SemType /\ Grounded(sem') /\ ReflOK(refl')
  BY <1>2, <1>3 DEF Answered
<1>5. /\ loop' \in LoopType /\ loop'.step <= loop'.limit
      /\ loop'.repeated = l.repeated /\ loop'.compactions = l.compactions
      /\ g.moved => loop'.stale = 0
  BY <1>2, LimitAssumption DEF LoopType
<1>6. review' \in ReviewType /\ review'.rounds <= MaxReviewRounds
  BY <1>1
<1>7. CASE g.moved /\ ~g.failed
  <2>1. OutOK(out') /\ out'.pc = "head" /\ out'.status = "FAILED"
    <3>1. out' = [out EXCEPT !.pc = "head"] /\ "head" \in PCs
      BY <1>2, <1>7 DEF PCs
    <3>2. QED
      BY <1>1, <3>1, MoveSet
  <2>2. Room(loop')
    BY <1>5, <1>7, LimitAssumption DEF Room
  <2>3. QED
    BY <1>1, <1>4, <1>5, <1>6, <2>1, <2>2, GoesOn
<1>8. CASE g.failed \/ ~g.moved
  <2>1. \E e : Raise(e, out, review.rounds)
    BY <1>1, <1>2, <1>3, <1>8 DEF Answered
  <2>2. OutOK(out') /\ Stops
    BY <1>1, <2>1, RaiseSet
  <2>3. QED
    BY <1>1, <1>4, <1>5, <1>6, <2>2, EndsAfter
<1>9. QED
  BY <1>7, <1>8

LEMMA ActInv ==
  ASSUME IInv, Act
  PROVE  IInv'
<1>1. /\ out.pc = "acted" /\ OutOK(out) /\ out.pc # "done" /\ out.status = "FAILED" /\ ~sem.ready
      /\ sem \in SemType /\ Grounded(sem) /\ ReflOK(refl) /\ loop \in LoopType /\ loop.step <= loop.limit
      /\ Room(loop) /\ review \in ReviewType /\ review.rounds <= MaxReviewRounds
      /\ UNCHANGED <<setting, late, review>>
  BY DEF Act, IInv, Typed, Live, PCs
<1>2. CASE Raise("runtime", out, review.rounds) /\ UNCHANGED <<sem, loop, refl>>
  BY <1>1, <1>2, RaiseSet, OnlyStops
<1>3. CASE \E b \in Bursts :
             \E f \in IF b.n > 0 THEN Reflections(FALSE, sem, [loop EXCEPT !.repeated = b.n], refl)
                      ELSE {[refl |-> refl, sem |-> sem, moved |-> FALSE, failed |-> FALSE]} :
               LET count == Count(loop.progress \/ f.moved \/ b.got)
                   l == [loop EXCEPT !.repeated = b.n, !.stale = count, !.progress = FALSE]
               IN  IF ~f.failed /\ b.n <= MaxDuplicates /\ count >= MaxNoProgress
                   THEN Recover(f, l)
                   ELSE /\ refl' = f.refl /\ sem' = f.sem /\ loop' = l
                        /\ IF f.failed THEN Raise("reflection", out, review.rounds)
                           ELSE IF b.n > MaxDuplicates THEN Raise("stuck", out, review.rounds)
                           ELSE out' = [out EXCEPT !.pc = "head"]
  <2>1. PICK b \in Bursts :
             \E f \in IF b.n > 0 THEN Reflections(FALSE, sem, [loop EXCEPT !.repeated = b.n], refl)
                      ELSE {[refl |-> refl, sem |-> sem, moved |-> FALSE, failed |-> FALSE]} :
               LET count == Count(loop.progress \/ f.moved \/ b.got)
                   l == [loop EXCEPT !.repeated = b.n, !.stale = count, !.progress = FALSE]
               IN  IF ~f.failed /\ b.n <= MaxDuplicates /\ count >= MaxNoProgress
                   THEN Recover(f, l)
                   ELSE /\ refl' = f.refl /\ sem' = f.sem /\ loop' = l
                        /\ IF f.failed THEN Raise("reflection", out, review.rounds)
                           ELSE IF b.n > MaxDuplicates THEN Raise("stuck", out, review.rounds)
                           ELSE out' = [out EXCEPT !.pc = "head"]
    BY <1>3
  <2>2. PICK f \in IF b.n > 0 THEN Reflections(FALSE, sem, [loop EXCEPT !.repeated = b.n], refl)
                   ELSE {[refl |-> refl, sem |-> sem, moved |-> FALSE, failed |-> FALSE]} :
               LET count == Count(loop.progress \/ f.moved \/ b.got)
                   l == [loop EXCEPT !.repeated = b.n, !.stale = count, !.progress = FALSE]
               IN  IF ~f.failed /\ b.n <= MaxDuplicates /\ count >= MaxNoProgress
                   THEN Recover(f, l)
                   ELSE /\ refl' = f.refl /\ sem' = f.sem /\ loop' = l
                        /\ IF f.failed THEN Raise("reflection", out, review.rounds)
                           ELSE IF b.n > MaxDuplicates THEN Raise("stuck", out, review.rounds)
                           ELSE out' = [out EXCEPT !.pc = "head"]
    BY <2>1
  <2> DEFINE count == Count(loop.progress \/ f.moved \/ b.got)
             l == [loop EXCEPT !.repeated = b.n, !.stale = count, !.progress = FALSE]
  <2>3. b.n \in 0..(MaxDuplicates + 1)
    BY <1>1, LimitAssumption DEF Bursts, LoopType, Room
  <2>4. Answered(f, sem)
    <3>1. CASE b.n > 0
      <4>1. f \in Reflections(FALSE, sem, [loop EXCEPT !.repeated = b.n], refl)
        BY <2>2, <3>1
      <4>2. QED
        BY <1>1, <4>1, ReflectionsSet
    <3>2. CASE ~(b.n > 0)
      <4>1. f = [refl |-> refl, sem |-> sem, moved |-> FALSE, failed |-> FALSE]
        BY <2>2, <3>2
      <4>2. QED
        BY <1>1, <4>1 DEF Answered
    <3>3. QED
      BY <3>1, <3>2
  <2>5. count \in 0..MaxNoProgress /\ (count >= MaxNoProgress => ~f.moved)
    BY <1>1, LimitAssumption DEF Count, LoopType, Room
  <2>6. /\ l \in LoopType /\ l.step <= l.limit /\ l.repeated = b.n /\ l.stale = count
        /\ l.compactions <= CompactionLimit
    BY <1>1, <2>3, <2>5 DEF LoopType, Room
  <2> HIDE DEF count, l
  <2>7. CASE ~f.failed /\ b.n <= MaxDuplicates /\ count >= MaxNoProgress
    <3>1. Recover(f, l)
      BY <2>2, <2>7 DEF count, l
    <3>2. QED
      BY <1>1, <2>4, <2>5, <2>6, <2>7, <3>1, RecoverInv
  <2>8. CASE ~(~f.failed /\ b.n <= MaxDuplicates /\ count >= MaxNoProgress)
    <3>1. /\ refl' = f.refl /\ sem' = f.sem /\ loop' = l
          /\ IF f.failed THEN Raise("reflection", out, review.rounds)
             ELSE IF b.n > MaxDuplicates THEN Raise("stuck", out, review.rounds)
             ELSE out' = [out EXCEPT !.pc = "head"]
      BY <2>2, <2>8 DEF count, l
    <3>2. sem' \in SemType /\ Grounded(sem') /\ ReflOK(refl') /\ loop' \in LoopType /\ loop'.step <= loop'.limit
      BY <2>4, <2>6, <3>1 DEF Answered
    <3>3. review' \in ReviewType /\ review'.rounds <= MaxReviewRounds
      BY <1>1
    <3>4. CASE f.failed \/ b.n > MaxDuplicates
      <4>1. OutOK(out') /\ Stops
        BY <1>1, <3>1, <3>4, RaiseSet
      <4>2. QED
        BY <1>1, <3>2, <3>3, <4>1, EndsAfter
    <3>5. CASE ~f.failed /\ ~(b.n > MaxDuplicates)
      <4>1. OutOK(out') /\ out'.pc = "head" /\ out'.status = "FAILED"
        <5>1. out' = [out EXCEPT !.pc = "head"] /\ "head" \in PCs
          BY <3>1, <3>5 DEF PCs
        <5>2. QED
          BY <1>1, <5>1, MoveSet
      <4>2. Room(loop')
        BY <2>3, <2>5, <2>6, <2>8, <3>1, <3>5, LimitAssumption DEF Room
      <4>3. QED
        BY <1>1, <3>2, <3>3, <4>1, <4>2, GoesOn
    <3>6. QED
      BY <3>4, <3>5
  <2>9. QED
    BY <2>7, <2>8
<1>4. QED
  BY <1>2, <1>3 DEF Act

LEMMA EnterReviewInv ==
  ASSUME IInv, EnterReview
  PROVE  IInv'
<1>1. /\ out.pc = "candidate" /\ OutOK(out) /\ out.pc # "done" /\ out.status = "FAILED"
      /\ sem \in SemType /\ Grounded(sem) /\ ReflOK(refl) /\ loop \in LoopType /\ loop.step <= loop.limit
      /\ review \in ReviewType /\ UNCHANGED <<setting, late, sem, loop, refl>>
  BY DEF EnterReview, IInv, Typed, Live, PCs
<1>2. CASE ~setting.review /\ Inconclude("review_disabled") /\ UNCHANGED review
  BY <1>1, <1>2, InconcludeSet, OnlyStops
<1>3. CASE /\ review.rounds < MaxReviewRounds
           /\ review' = [review EXCEPT !.rounds = @ + 1, !.converged = Converged(sem)]
           /\ \/ late /\ Raise("deadline", out, review'.rounds)
              \/ ~late /\ out' = [out EXCEPT !.pc = "review"]
              \/ \E e \in {"budget", "limit", "timeout"} : Raise(e, out, review'.rounds)
  <2>1. PICK converged \in BOOLEAN : review' = [review EXCEPT !.rounds = @ + 1, !.converged = converged]
    BY <1>3 DEF Converged
  <2>2. /\ review' \in ReviewType /\ review'.rounds <= MaxReviewRounds /\ review'.base = review.base
    <3>1. review.rounds + 1 \in 0..(MaxReviewRounds + 1) /\ review.rounds + 1 <= MaxReviewRounds
      BY <1>1, <1>3, LimitAssumption DEF ReviewType
    <3>2. QED
      BY <1>1, <2>1, <3>1 DEF ReviewType
  <2>3. CASE ~late /\ out' = [out EXCEPT !.pc = "review"]
    <3>1. "review" \in PCs
      BY DEF PCs
    <3>2. /\ OutOK(out') /\ out'.pc = "review" /\ out'.status = "FAILED"
          /\ out'.candidate = out.candidate /\ out'.why = out.why
      BY <1>1, <2>3, <3>1, MoveSet
    <3>3. Typed'
      BY <1>1, <2>2, <3>2 DEF IInv, Typed, OutOK, CandidateType, SemType, LoopType, ReviewType, ReflOK
    <3>4. Submission /\ Resubmission /\ Room(loop)
      BY <1>1 DEF IInv, Submitted, Live, PCs
    <3>5. Submission' /\ Resubmission'
      BY <1>1, <2>2, <3>2, <3>4 DEF Submission, Resubmission, Candidate, NoBase
    <3>6. QED
      BY <1>1, <2>2, <3>2, <3>3, <3>4, <3>5 DEF IInv, PassIsReviewed, Submitted, Live, PCs, Room, Grounded
  <2>4. CASE \E e : Raise(e, out, review'.rounds)
    <3>1. OutOK(out') /\ Stops
      BY <1>1, <2>4, RaiseSet
    <3>2. sem' \in SemType /\ Grounded(sem') /\ loop' \in LoopType /\ loop'.step <= loop'.limit /\ ReflOK(refl')
      BY <1>1
    <3>3. QED
      BY <1>1, <2>2, <3>1, <3>2, EndsAfter
  <2>5. QED
    BY <1>3, <2>3, <2>4
<1>4. QED
  BY <1>2, <1>3 DEF EnterReview

LEMMA ReviewFailsInv ==
  ASSUME IInv, ReviewFails
  PROVE  IInv'
<1>1. OutOK(out) /\ out.pc # "done" /\ UNCHANGED <<setting, late, sem, loop, refl, review>>
  BY DEF ReviewFails, IInv, Typed
<1>2. CASE \E why : Inconclude(why)
  BY <1>1, <1>2, InconcludeSet, OnlyStops
<1>3. CASE \E e : Raise(e, out, review.rounds)
  BY <1>1, <1>3, RaiseSet, OnlyStops
<1>4. CASE \E d \in {"PASS", "REJECT"} :
             Raise("limit", [out EXCEPT !.decision = d, !.about = out.candidate], review.rounds)
  <2>1. PICK d \in {"PASS", "REJECT"} :
          Raise("limit", [out EXCEPT !.decision = d, !.about = out.candidate], review.rounds)
    BY <1>4
  <2>2. OutOK([out EXCEPT !.decision = d, !.about = out.candidate])
    <3>1. out.candidate \in CandidateType
      BY <1>1 DEF OutOK
    <3>2. QED
      BY <1>1, <3>1, JudgedSet
  <2>3. OutOK(out') /\ Stops
    BY <2>1, <2>2, RaiseSet
  <2>4. QED
    BY <1>1, <2>3, OnlyStops
<1>5. QED
  BY <1>2, <1>3, <1>4 DEF ReviewFails

\* The Candidate Review passed is the one the canonical state still projects.
LEMMA ReviewPassesInv ==
  ASSUME IInv, ReviewPasses
  PROVE  IInv'
<1>1. /\ out.pc = "review" /\ OutOK(out) /\ UNCHANGED <<setting, late, sem, loop, refl, review>>
      /\ out' = [out EXCEPT !.pc = "report", !.status = "PASS", !.why = "final_review_pass",
                            !.decision = "PASS", !.about = out.candidate]
      /\ Submission /\ sem \in SemType
  BY DEF ReviewPasses, IInv, Typed, Submitted
<1>2. /\ OutOK(out') /\ out'.pc = "report" /\ out'.status = "PASS" /\ out'.decision = "PASS"
      /\ out'.about = out.candidate /\ out'.candidate = out.candidate
  BY <1>1 DEF OutOK, PCs
<1>3. Typed'
  BY <1>1, <1>2 DEF IInv, Typed, OutOK, CandidateType, SemType, LoopType, ReviewType, ReflOK
<1>4. Candidate(sem) # NoCandidate
  BY <1>1 DEF IInv, Submission, Grounded, Candidate, NoCandidate, NoBase
<1>5. PassIsReviewed'
  BY <1>1, <1>2, <1>4 DEF PassIsReviewed, Submission, Candidate, NoCandidate, NoBase
<1>6. QED
  BY <1>1, <1>2, <1>3, <1>5 DEF IInv, Submitted, Live, PCs, Grounded

LEMMA ReviewRejectsInv ==
  ASSUME IInv, ReviewRejects
  PROVE  IInv'
<1>1. /\ out.pc = "review" /\ OutOK(out) /\ UNCHANGED <<setting, late, sem, loop, refl, review>>
      /\ out' = [out EXCEPT !.pc = "rejected", !.decision = "REJECT", !.about = out.candidate]
  BY DEF ReviewRejects, IInv, Typed
<1>2. OutOK(out') /\ out'.pc = "rejected" /\ out'.status = out.status
  BY <1>1 DEF OutOK, PCs
<1>3. Typed'
  BY <1>1, <1>2 DEF IInv, Typed, OutOK, CandidateType, SemType, LoopType, ReviewType, ReflOK
<1>4. QED
  BY <1>1, <1>2, <1>3 DEF IInv, PassIsReviewed, Submitted, Live, PCs, Room, Grounded

LEMMA StartRecoveryInv ==
  ASSUME IInv, out.pc = "rejected", UNCHANGED <<setting, late>>, NEW s \in SemType, Grounded(s),
         NEW blocking \in BOOLEAN, review.cycles < MaxRecoveryCycles, StartRecovery(s, blocking)
  PROVE  IInv'
<1>1. /\ OutOK(out) /\ out.pc # "done" /\ out.status = "FAILED" /\ ReflOK(refl) /\ loop \in LoopType
      /\ loop.step <= loop.limit /\ Room(loop) /\ review \in ReviewType /\ review.rounds <= MaxReviewRounds
  BY DEF IInv, Typed, Live, PCs
<1>2. review' \in ReviewType /\ review'.rounds <= MaxReviewRounds
  <2>1. Candidate(s) \in CandidateType /\ review.cycles + 1 \in 0..MaxRecoveryCycles
    BY <1>1, CandidateSet, LimitAssumption DEF ReviewType
  <2>2. QED
    BY <1>1, <2>1 DEF StartRecovery, ReviewType
<1>3. loop' \in LoopType /\ loop'.step <= loop'.limit /\ Room(loop')
  <2> DEFINE limit == IF loop.step + RecoverySteps < MaxSteps THEN loop.step + RecoverySteps ELSE MaxSteps
  <2>1. limit \in 0..MaxSteps /\ loop.step <= limit
    BY <1>1, LimitAssumption DEF LoopType
  <2>2. loop' = [loop EXCEPT !.compactions = 0, !.limit = limit]
    BY DEF StartRecovery
  <2> HIDE DEF limit
  <2>3. 0 \in 0..(CompactionLimit + 1) /\ 0 <= CompactionLimit
    BY LimitAssumption
  <2>4. /\ loop' \in LoopType /\ loop'.step = loop.step /\ loop'.limit = limit
        /\ loop'.compactions = 0 /\ loop'.stale = loop.stale /\ loop'.repeated = loop.repeated
    BY <1>1, <2>1, <2>2, <2>3 DEF LoopType
  <2>5. QED
    BY <1>1, <2>1, <2>3, <2>4 DEF Room
<1>4. PICK f \in IF blocking THEN Reflections(TRUE, s, loop, refl)
                 ELSE {[refl |-> refl, sem |-> s, moved |-> FALSE, failed |-> FALSE]} :
        /\ refl' = f.refl /\ sem' = f.sem
        /\ IF f.failed THEN Raise("reflection", out, review.rounds)
           ELSE out' = [out EXCEPT !.pc = "head"]
  BY DEF StartRecovery
<1>5. Answered(f, s)
  <2>1. CASE blocking
    BY <1>1, <1>4, <2>1, ReflectionsSet
  <2>2. CASE ~blocking
    <3>1. f = [refl |-> refl, sem |-> s, moved |-> FALSE, failed |-> FALSE]
      BY <1>4, <2>2
    <3>2. QED
      BY <1>1, <3>1 DEF Answered
  <2>3. QED
    BY <2>1, <2>2
<1>6. sem' \in SemType /\ Grounded(sem') /\ ReflOK(refl')
  BY <1>4, <1>5 DEF Answered
<1>7. CASE f.failed
  <2>1. OutOK(out') /\ Stops
    BY <1>1, <1>4, <1>7, RaiseSet
  <2>2. QED
    BY <1>1, <1>2, <1>3, <1>6, <2>1, EndsAfter
<1>8. CASE ~f.failed
  <2>1. out' = [out EXCEPT !.pc = "head"] /\ "head" \in PCs
    BY <1>4, <1>8 DEF PCs
  <2>2. OutOK(out') /\ out'.pc = "head" /\ out'.status = "FAILED"
    BY <1>1, <2>1, MoveSet
  <2>3. QED
    BY <1>1, <1>2, <1>3, <1>6, <2>2, GoesOn
<1>9. QED
  BY <1>7, <1>8

LEMMA ApplyRejectionInv ==
  ASSUME IInv, ApplyRejection
  PROVE  IInv'
<1>1. /\ out.pc = "rejected" /\ OutOK(out) /\ out.pc # "done" /\ UNCHANGED <<setting, late>>
      /\ sem \in SemType /\ Grounded(sem) /\ ReflOK(refl) /\ loop \in LoopType /\ loop.step <= loop.limit
      /\ review \in ReviewType /\ review.rounds <= MaxReviewRounds
  BY DEF ApplyRejection, IInv, Typed
<1>2. PICK created \in BOOLEAN, blocking \in BOOLEAN :
        \/ StartRecovery(Rejected(sem, created), blocking) /\ review.cycles < MaxRecoveryCycles
        \/ /\ \E why : Inconclude(why)
           /\ sem' = Rejected(sem, created) /\ UNCHANGED <<loop, refl, review>>
  <2>1. PICK created, known, blocking, unrecoverable \in BOOLEAN :
          LET s == Rejected(sem, created)
              refusal == IF ~Recoverable(unrecoverable, created \/ known, blocking)
                         THEN IF unrecoverable THEN "review_unrecoverable" ELSE "review_recovery_unavailable"
                         ELSE IF review.rounds >= MaxReviewRounds THEN "review_bound_exhausted"
                         ELSE IF review.cycles >= MaxRecoveryCycles THEN "review_recovery_bound_exhausted"
                         ELSE "none"
          IN  IF refusal = "none" THEN StartRecovery(s, blocking)
              ELSE Inconclude(refusal) /\ sem' = s /\ UNCHANGED <<loop, refl, review>>
    BY DEF ApplyRejection
  <2>2. review.cycles \in Nat /\ MaxRecoveryCycles \in Nat
    BY <1>1, LimitAssumption DEF ReviewType
  <2>3. QED
    BY <2>1, <2>2
<1> DEFINE s == Rejected(sem, created)
<1>3. s \in SemType /\ Grounded(s)
  BY <1>1 DEF Rejected, SemType, Grounded
<1> HIDE DEF s
<1>4. CASE StartRecovery(Rejected(sem, created), blocking) /\ review.cycles < MaxRecoveryCycles
  BY <1>1, <1>3, <1>4, StartRecoveryInv DEF s
<1>5. CASE /\ \E why : Inconclude(why)
           /\ sem' = Rejected(sem, created) /\ UNCHANGED <<loop, refl, review>>
  <2>1. OutOK(out') /\ Stops
    BY <1>1, <1>5, InconcludeSet
  <2>2. /\ sem' \in SemType /\ Grounded(sem') /\ loop' \in LoopType /\ loop'.step <= loop'.limit
        /\ ReflOK(refl') /\ review' \in ReviewType /\ review'.rounds <= MaxReviewRounds
    BY <1>1, <1>3, <1>5 DEF s
  <2>3. QED
    BY <1>1, <2>1, <2>2, EndsAfter
<1>6. QED
  BY <1>2, <1>4, <1>5

\* The report neither promotes a run nor touches what it delivers.
LEMMA ReportInv ==
  ASSUME IInv, Report
  PROVE  IInv'
<1>1. /\ out.pc = "report" /\ OutOK(out) /\ UNCHANGED <<setting, late, sem>> /\ sem \in SemType
      /\ review \in ReviewType /\ review.rounds <= MaxReviewRounds /\ loop' = NoLoop /\ refl' = NoRefl
      /\ PassIsReviewed
  BY DEF Report, IInv, Typed
<1>2. review' \in ReviewType
  <2>1. NoBase \in CandidateType
    BY LimitAssumption DEF NoBase, CandidateType
  <2>2. (IF Reportable THEN review.rounds + 1 ELSE review.rounds) \in 0..(MaxReviewRounds + 1)
    BY <1>1, LimitAssumption DEF ReviewType
  <2> DEFINE n == IF Reportable THEN review.rounds + 1 ELSE review.rounds
  <2>3. review' = [review EXCEPT !.rounds = n, !.base = NoBase]
    BY <1>1 DEF Report, ReviewType
  <2> HIDE DEF n
  <2>4. QED
    BY <1>1, <2>1, <2>2, <2>3 DEF ReviewType, n
<1>3. loop' \in LoopType /\ loop'.step <= loop'.limit /\ ReflOK(refl')
  BY <1>1, LimitAssumption DEF NoLoop, NoRefl, LoopType, ReflOK
<1>4. PICK o \in ReportReviewed : \E class :
        out' = [o EXCEPT !.pc = "done", !.class = class,
                         !.status = IF class = "INCONCLUSIVE" THEN "INCONCLUSIVE" ELSE @]
  BY DEF Report
<1>4a. PICK class :
        out' = [o EXCEPT !.pc = "done", !.class = class,
                         !.status = IF class = "INCONCLUSIVE" THEN "INCONCLUSIVE" ELSE @]
  BY <1>4
<1>5. /\ OutOK(o) /\ o.candidate = out.candidate /\ o.status = out.status
      /\ o.status = "PASS" => o.decision = out.decision /\ o.about = out.about
  <2>1. NoCandidate \in CandidateType
    BY LimitAssumption DEF NoCandidate, NoBase, CandidateType
  <2>2. CASE o = out
    BY <1>1, <2>2
  <2>3. CASE \E d \in {"PASS", "REJECT"} :
               o = [out EXCEPT !.decision = d, !.about = NoCandidate] /\ out.status = "INCONCLUSIVE"
    BY <1>1, <2>1, <2>3 DEF OutOK
  <2>4. QED
    BY <1>4, <2>2, <2>3 DEF ReportReviewed, Reportable
<1> DEFINE status == IF class = "INCONCLUSIVE" THEN "INCONCLUSIVE" ELSE o.status
<1>6. status \in {"PASS", "INCONCLUSIVE", "FAILED"} /\ (status = "PASS" => o.status = "PASS")
  BY <1>5 DEF OutOK
<1>7. out' = [o EXCEPT !.pc = "done", !.class = class, !.status = status]
  BY <1>4a, <1>5 DEF OutOK
<1> HIDE DEF status
<1>8. /\ OutOK(out') /\ out'.pc = "done" /\ out'.candidate = o.candidate
      /\ out'.status = status /\ out'.decision = o.decision /\ out'.about = o.about
  BY <1>5, <1>6, <1>7 DEF OutOK, PCs
<1>9. Typed'
  BY <1>1, <1>2, <1>3, <1>8 DEF IInv, Typed, OutOK, CandidateType, SemType, LoopType, ReviewType, ReflOK
<1>10. PassIsReviewed'
  BY <1>1, <1>5, <1>6, <1>8 DEF PassIsReviewed, Candidate, NoCandidate, NoBase
<1>11. QED
  BY <1>1, <1>8, <1>9, <1>10 DEF IInv, Submitted, Live, PCs, Grounded

\* Nor does a run that is left without one.
LEMMA ReportRaisesInv ==
  ASSUME IInv, ReportRaises
  PROVE  IInv'
<1>1. /\ out.pc = "report" /\ OutOK(out) /\ UNCHANGED <<setting, late, sem>> /\ sem \in SemType
      /\ review \in ReviewType /\ review.rounds <= MaxReviewRounds /\ loop' = NoLoop /\ refl' = NoRefl
      /\ PassIsReviewed
  BY DEF ReportRaises, IInv, Typed
<1>2. review' \in ReviewType
  <2>1. NoBase \in CandidateType
    BY LimitAssumption DEF NoBase, CandidateType
  <2>2. review.rounds + 1 \in 0..(MaxReviewRounds + 1)
    BY <1>1, LimitAssumption DEF ReviewType
  <2>3. review' = [review EXCEPT !.rounds = review.rounds + 1, !.base = NoBase]
    BY <1>1 DEF ReportRaises, ReviewType
  <2>4. QED
    BY <1>1, <2>1, <2>2, <2>3 DEF ReviewType
<1>3. loop' \in LoopType /\ loop'.step <= loop'.limit /\ ReflOK(refl')
  BY <1>1, LimitAssumption DEF NoLoop, NoRefl, LoopType, ReflOK
<1>4. /\ OutOK(out') /\ out'.pc = "done" /\ out'.candidate = out.candidate
      /\ out'.status = out.status /\ out'.decision = out.decision /\ out'.about = out.about
  BY <1>1 DEF ReportRaises, OutOK, PCs
<1>5. Typed'
  BY <1>1, <1>2, <1>3, <1>4 DEF IInv, Typed, OutOK, CandidateType, SemType, LoopType, ReviewType, ReflOK
<1>6. PassIsReviewed'
  BY <1>1, <1>4 DEF PassIsReviewed, Candidate, NoCandidate, NoBase
<1>7. QED
  BY <1>1, <1>4, <1>5, <1>6 DEF IInv, Submitted, Live, PCs, Grounded

-----------------------------------------------------------------------------
(* The properties *)

LEMMA InitInv == Init => IInv
<1> SUFFICES ASSUME Init PROVE IInv
  OBVIOUS
<1>1. sem \in SemType /\ Grounded(sem) /\ loop \in LoopType /\ loop.step <= loop.limit /\ Room(loop)
  BY LimitAssumption DEF Init, NoLoop, SemType, LoopType, Grounded, Room
<1>2. NoBase \in CandidateType
  BY LimitAssumption DEF NoBase, CandidateType
<1>3. ReflOK(refl) /\ review \in ReviewType
  BY <1>2, LimitAssumption DEF Init, NoRefl, ReflOK, ReviewType
<1>4. OutOK(out) /\ out.pc = "head" /\ out.status = "FAILED" /\ review.rounds = 0
  BY <1>2 DEF Init, OutOK, NoCandidate, PCs
<1>5. Typed
  BY <1>1, <1>3, <1>4 DEF Init, Typed
<1>6. QED
  BY <1>1, <1>4, <1>5, LimitAssumption DEF IInv, PassIsReviewed, Submitted, Live, PCs

\* Every step of a run keeps the inductive invariant.
THEOREM StepInv == IInv /\ [Next]_vars => IInv'
<1> SUFFICES ASSUME IInv, [Next]_vars PROVE IInv'
  OBVIOUS
<1>1. CASE UNCHANGED vars
  BY <1>1 DEF vars, IInv, Typed, OutOK, CandidateType, SemType, LoopType, ReviewType, ReflOK, Grounded, Room,
              Submission, Candidate, Resubmission, PassIsReviewed
<1>2. CASE Next
  BY <1>1, <1>2, ExpireInv, HeadInv, TurnFailsInv, TurnCompactsInv, TurnCommitsInv, ActInv, EnterReviewInv,
     ReviewFailsInv, ReviewPassesInv, ReviewRejectsInv, ApplyRejectionInv, ReportInv, ReportRaisesInv
     DEF Next, Finished
<1>3. QED
  BY <1>1, <1>2

LEMMA Invariance == Spec => []IInv
BY InitInv, StepInv, PTL DEF Spec

\* Every counter of the run stays within its limit, over all its investigations, Reflections
\* and rounds of Review.
THEOREM TypeCorrect == Spec => []TypeOK
<1>1. IInv => TypeOK
  BY DEF IInv, Typed, TypeOK, ReflOK, OutOK, ReviewType
<1>2. QED
  BY <1>1, Invariance, PTL

\* A run is PASS only by Review's PASS of the Candidate it delivers, which the canonical state
\* still projects.
THEOREM PassOnlyReviewed == Spec => []PassIsReviewed
<1>1. IInv => PassIsReviewed
  BY DEF IInv
<1>2. QED
  BY <1>1, Invariance, PTL

\* What the Runtime submits itself after a rejection differs from what was rejected.
THEOREM ResubmissionsProgress == Spec => []ResubmissionShowsProgress
<1>1. IInv => ResubmissionShowsProgress
  BY DEF IInv, Submitted, Resubmission, ResubmissionShowsProgress
<1>2. QED
  BY <1>1, Invariance, PTL

\* The investigation does not go on once its turns without progress reached the limit.
THEOREM NoProgressEnds == Spec => []NoProgressStops
<1>1. IInv => NoProgressStops
  BY DEF IInv, Live, PCs, Room, NoProgressStops
<1>2. QED
  BY <1>1, Invariance, PTL

-----------------------------------------------------------------------------
(* Every run ends.  Each step leaves less of seven numbers, compared from the first on:
   ends that are still to come, Review rounds, recoveries, steps of this investigation,
   compactions, what is left of the turn, and the deadline.  Limits that are renewed, the
   steps and compactions of a recovery, rank below the counter that is never renewed. *)

EndsLeft(pc) == CASE pc \in Live -> 2 [] pc = "report" -> 1 [] OTHER -> 0
StagesLeft(pc) ==
  CASE pc = "acted" -> 5 [] pc = "head" -> 4 [] pc = "turn" -> 3
    [] pc = "candidate" -> 2 [] pc = "review" -> 1 [] OTHER -> 0
DeadlineLeft(b) == IF b THEN 0 ELSE 1
RoundsLeft(r) == MaxReviewRounds + 1 - r.rounds
RecoveriesLeft(r) == MaxRecoveryCycles - r.cycles
StepsLeft(l) == l.limit - l.step
CompactionsLeft(l) == CompactionLimit + 1 - l.compactions
SameLoop == StepsLeft(loop') = StepsLeft(loop) /\ CompactionsLeft(loop') = CompactionsLeft(loop)

Descends ==
  \/ EndsLeft(out'.pc) < EndsLeft(out.pc)
  \/ /\ EndsLeft(out'.pc) = EndsLeft(out.pc)
     /\ \/ RoundsLeft(review') < RoundsLeft(review)
        \/ /\ RoundsLeft(review') = RoundsLeft(review)
           /\ \/ RecoveriesLeft(review') < RecoveriesLeft(review)
              \/ /\ RecoveriesLeft(review') = RecoveriesLeft(review)
                 /\ \/ StepsLeft(loop') < StepsLeft(loop)
                    \/ /\ StepsLeft(loop') = StepsLeft(loop)
                       /\ CompactionsLeft(loop') < CompactionsLeft(loop)
                    \/ SameLoop /\ StagesLeft(out'.pc) < StagesLeft(out.pc)
                    \/ /\ SameLoop /\ StagesLeft(out'.pc) = StagesLeft(out.pc)
                       /\ DeadlineLeft(late') < DeadlineLeft(late)
\* None of them is negative.
Bounded ==
  /\ RoundsLeft(review) \in Nat /\ RecoveriesLeft(review) \in Nat
  /\ StepsLeft(loop) \in Nat /\ CompactionsLeft(loop) \in Nat

LEMMA StopDescends ==
  ASSUME out.pc \in Live, Stops
  PROVE  Descends
BY DEF Stops, Live, PCs, EndsLeft, Descends

\* A step within the turn: the counters stay, the run goes on to a later stage of it.
LEMMA StageDescends ==
  ASSUME out.pc \in Live, out'.pc \in Live, review' = review, SameLoop,
         StagesLeft(out'.pc) < StagesLeft(out.pc)
  PROVE  Descends
<1>1. ASSUME NEW pc \in Live
      PROVE  EndsLeft(pc) = 2
  BY DEF EndsLeft, Live
<1>2. RoundsLeft(review') = RoundsLeft(review) /\ RecoveriesLeft(review') = RecoveriesLeft(review)
  OBVIOUS
<1>3. QED
  <2>1. EndsLeft(out'.pc) = 2 /\ EndsLeft(out.pc) = 2
    BY <1>1
  <2>2. QED
    BY <1>2, <2>1 DEF Descends, SameLoop

LEMMA PublishMoves ==
  ASSUME OutOK(out), NEW why, NEW s, Publish(why, s)
  PROVE  Stops \/ out'.pc = "candidate"
<1>1. CASE s.ready
  BY <1>1 DEF Publish, OutOK
<1>2. CASE ~s.ready
  BY <1>2, RaiseSet DEF Publish
<1>3. QED
  BY <1>1, <1>2

LEMMA SubmitDescends ==
  ASSUME IInv, out.pc \in {"head", "turn"}, NEW why, Submit(why), loop' = loop, review' = review
  PROVE  Descends
<1>1. out.pc \in Live /\ sem \in SemType /\ review \in ReviewType /\ OutOK(out)
  BY DEF Live, PCs, IInv, Typed
<1>2. CASE out'.pc = "candidate"
  <2>1. StagesLeft(out'.pc) < StagesLeft(out.pc) /\ out'.pc \in Live
    BY <1>2 DEF StagesLeft, Live, PCs
  <2>2. QED
    BY <1>1, <2>1, StageDescends DEF SameLoop
<1>3. QED
  BY <1>1, <1>2, SubmitSet, StopDescends

LEMMA HeadDescends ==
  ASSUME IInv, Head
  PROVE  Descends
<1>1. out.pc = "head" /\ out.pc \in Live /\ OutOK(out) /\ loop' = loop /\ review' = review
  BY DEF Head, IInv, Typed, Live, PCs
<1>2. CASE out' = [out EXCEPT !.pc = "turn"]
  <2>1. out'.pc = "turn"
    BY <1>1, <1>2, MoveSet DEF PCs
  <2>2. StagesLeft(out'.pc) < StagesLeft(out.pc) /\ out'.pc \in Live
    BY <1>1, <2>1 DEF StagesLeft, Live, PCs
  <2>3. QED
    BY <1>1, <2>2, StageDescends DEF SameLoop
<1>3. CASE \E why : Submit(why)
  BY <1>1, <1>3, SubmitDescends
<1>4. CASE \E e : Raise(e, out, review.rounds)
  BY <1>1, <1>4, RaiseSet, StopDescends
<1>5. QED
  BY <1>2, <1>3, <1>4 DEF Head

LEMMA TurnFailsDescends ==
  ASSUME IInv, TurnFails
  PROVE  Descends
<1>1. out.pc = "turn" /\ out.pc \in Live /\ OutOK(out) /\ loop' = loop /\ review' = review
  BY DEF TurnFails, IInv, Typed, Live, PCs
<1>2. (\E why : Submit(why)) \/ (\E e : Raise(e, out, review.rounds))
  BY DEF TurnFails, Salvage
<1>3. QED
  BY <1>1, <1>2, SubmitDescends, RaiseSet, StopDescends

LEMMA TurnCompactsDescends ==
  ASSUME IInv, TurnCompacts
  PROVE  Descends
<1>1. /\ out.pc = "turn" /\ out.pc \in Live /\ OutOK(out) /\ review' = review /\ loop \in LoopType
      /\ loop' = [loop EXCEPT !.compactions = @ + 1]
  BY DEF TurnCompacts, IInv, Typed, Live, PCs
<1>2. CASE Raise("runtime", out, review.rounds)
  BY <1>1, <1>2, RaiseSet, StopDescends
<1>3. CASE out' = [out EXCEPT !.pc = "head"]
  <2>1. out'.pc = "head"
    BY <1>1, <1>3, MoveSet DEF PCs
  <2>2. EndsLeft(out'.pc) = EndsLeft(out.pc)
    BY <1>1, <2>1 DEF EndsLeft, Live, PCs
  <2>3. /\ loop'.step = loop.step /\ loop'.limit = loop.limit /\ loop'.compactions = loop.compactions + 1
        /\ loop.compactions \in Nat
    BY <1>1, LimitAssumption DEF LoopType
  <2>4. CompactionsLeft(loop') < CompactionsLeft(loop) /\ StepsLeft(loop') = StepsLeft(loop)
    BY <2>3, LimitAssumption DEF CompactionsLeft, StepsLeft
  <2>5. QED
    BY <1>1, <2>2, <2>4 DEF Descends
<1>4. QED
  BY <1>2, <1>3 DEF TurnCompacts

LEMMA TurnCommitsDescends ==
  ASSUME IInv, TurnCommits
  PROVE  Descends
<1>1. out.pc = "turn" /\ out.pc \in Live /\ OutOK(out) /\ review' = review /\ loop \in LoopType
  BY DEF TurnCommits, IInv, Typed, Live, PCs
<1>2. PICK t \in Transactions(sem), closed \in BOOLEAN :
        /\ loop' = [loop EXCEPT !.step = @ + 1, !.progress = Progress(sem, t, closed) /\ ~t.ready]
        /\ \/ t.ready /\ Publish("post_commit_finalization", t)
           \/ ~t.ready /\ out' = [out EXCEPT !.pc = "acted"]
           \/ Raise("converge", out, review.rounds)
  BY DEF TurnCommits
<1>3. loop'.step = loop.step + 1 /\ loop'.limit = loop.limit /\ loop.step \in Nat /\ loop.limit \in Nat
  BY <1>1, <1>2, LimitAssumption DEF LoopType
<1>4. StepsLeft(loop') < StepsLeft(loop)
  BY <1>3 DEF StepsLeft
<1>5. Stops \/ out'.pc \in {"candidate", "acted"}
  <2>1. CASE Publish("post_commit_finalization", t)
    BY <1>1, <2>1, PublishMoves
  <2>2. CASE out' = [out EXCEPT !.pc = "acted"]
    BY <1>1, <2>2, MoveSet DEF PCs
  <2>3. CASE Raise("converge", out, review.rounds)
    BY <1>1, <2>3, RaiseSet
  <2>4. QED
    BY <1>2, <2>1, <2>2, <2>3
<1>6. CASE out'.pc \in {"candidate", "acted"}
  <2>1. EndsLeft(out'.pc) = EndsLeft(out.pc)
    BY <1>1, <1>6 DEF EndsLeft, Live, PCs
  <2>2. QED
    BY <1>1, <1>4, <2>1 DEF Descends
<1>7. QED
  BY <1>1, <1>5, <1>6, StopDescends

LEMMA ActDescends ==
  ASSUME IInv, Act
  PROVE  Descends
<1>1. /\ out.pc = "acted" /\ out.pc \in Live /\ OutOK(out) /\ review' = review /\ loop \in LoopType
      /\ sem \in SemType /\ Grounded(sem) /\ ReflOK(refl) /\ review \in ReviewType
  BY DEF Act, IInv, Typed, Live, PCs
\* Whatever it counts, it counts no step and no compaction; then it goes on, publishes or ends.
<1>2. ASSUME NEW l, l.step = loop.step, l.limit = loop.limit, l.compactions = loop.compactions
      PROVE  loop' = l => SameLoop
  BY <1>2 DEF SameLoop, StepsLeft, CompactionsLeft
<1>3. ASSUME NEW n, NEW c, NEW d
      PROVE  LET l == [loop EXCEPT !.repeated = n, !.stale = c, !.progress = FALSE]
             IN  (loop' = l => SameLoop) /\ (loop' = [l EXCEPT !.stale = d] => SameLoop)
  <2> DEFINE l == [loop EXCEPT !.repeated = n, !.stale = c, !.progress = FALSE]
             k == [l EXCEPT !.stale = d]
  <2>1. /\ l.step = loop.step /\ l.limit = loop.limit /\ l.compactions = loop.compactions
        /\ k.step = loop.step /\ k.limit = loop.limit /\ k.compactions = loop.compactions
    BY <1>1 DEF LoopType
  <2> HIDE DEF l, k
  <2>2. (loop' = l => SameLoop) /\ (loop' = k => SameLoop)
    BY <1>2, <2>1
  <2>3. QED
    BY <2>2 DEF l, k
<1>4. ASSUME NEW f, NEW l, Recover(f, l)
      PROVE  /\ \E d : loop' = [l EXCEPT !.stale = d]
             /\ Stops \/ out'.pc \in {"head", "candidate"}
  <2>1. PICK g \in Reflections(FALSE, f.sem, l, f.refl) :
          /\ loop' = [l EXCEPT !.stale = IF g.moved THEN 0 ELSE @]
          /\ IF g.failed THEN Raise("reflection", out, review.rounds)
             ELSE IF g.moved THEN out' = [out EXCEPT !.pc = "head"]
             ELSE IF g.sem.ready THEN Publish("semantic_no_progress_sufficient_hypothesis", g.sem)
             ELSE Raise("stuck", out, review.rounds)
    BY <1>4 DEF Recover
  <2>2. CASE out' = [out EXCEPT !.pc = "head"]
    BY <1>1, <2>1, <2>2, MoveSet DEF PCs
  <2>3. CASE \E e : Raise(e, out, review.rounds)
    BY <1>1, <2>1, <2>3, RaiseSet
  <2>4. CASE Publish("semantic_no_progress_sufficient_hypothesis", g.sem)
    BY <1>1, <2>1, <2>4, PublishMoves
  <2>5. QED
    BY <2>1, <2>2, <2>3, <2>4
<1>5. SameLoop /\ (Stops \/ out'.pc \in {"head", "candidate"})
  <2>1. CASE Raise("runtime", out, review.rounds) /\ loop' = loop
    BY <1>1, <1>2, <2>1, RaiseSet
  <2>2. ASSUME NEW n, NEW c, NEW f,
               LET l == [loop EXCEPT !.repeated = n, !.stale = c, !.progress = FALSE]
               IN  Recover(f, l) \/ /\ loop' = l
                                    /\ \/ \E e : Raise(e, out, review.rounds)
                                       \/ out' = [out EXCEPT !.pc = "head"]
        PROVE  SameLoop /\ (Stops \/ out'.pc \in {"head", "candidate"})
    <3> DEFINE l == [loop EXCEPT !.repeated = n, !.stale = c, !.progress = FALSE]
    <3>1. (loop' = l => SameLoop) /\ \A d : loop' = [l EXCEPT !.stale = d] => SameLoop
      BY <1>3
    <3>2. Recover(f, l) \/ (loop' = l /\ ((\E e : Raise(e, out, review.rounds)) \/ out' = [out EXCEPT !.pc = "head"]))
      BY <2>2
    <3> HIDE DEF l
    <3>3. CASE Recover(f, l)
      BY <1>4, <3>1, <3>3
    <3>4. CASE loop' = l /\ \E e : Raise(e, out, review.rounds)
      BY <1>1, <3>1, <3>4, RaiseSet
    <3>5. CASE loop' = l /\ out' = [out EXCEPT !.pc = "head"]
      BY <1>1, <3>1, <3>5, MoveSet DEF PCs
    <3>6. QED
      BY <3>2, <3>3, <3>4, <3>5
  <2>3. CASE ~(Raise("runtime", out, review.rounds) /\ loop' = loop)
    <3>1. PICK b \in Bursts :
            \E f \in IF b.n > 0 THEN Reflections(FALSE, sem, [loop EXCEPT !.repeated = b.n], refl)
                     ELSE {[refl |-> refl, sem |-> sem, moved |-> FALSE, failed |-> FALSE]} :
              LET count == Count(loop.progress \/ f.moved \/ b.got)
                  l == [loop EXCEPT !.repeated = b.n, !.stale = count, !.progress = FALSE]
              IN  IF ~f.failed /\ b.n <= MaxDuplicates /\ count >= MaxNoProgress
                  THEN Recover(f, l)
                  ELSE /\ refl' = f.refl /\ sem' = f.sem /\ loop' = l
                       /\ IF f.failed THEN Raise("reflection", out, review.rounds)
                          ELSE IF b.n > MaxDuplicates THEN Raise("stuck", out, review.rounds)
                          ELSE out' = [out EXCEPT !.pc = "head"]
      BY <2>3 DEF Act
    <3>2. \E f : LET l == [loop EXCEPT !.repeated = b.n,
                     !.stale = Count(loop.progress \/ f.moved \/ b.got), !.progress = FALSE]
                 IN  Recover(f, l) \/ /\ loop' = l
                                      /\ \/ \E e : Raise(e, out, review.rounds)
                                         \/ out' = [out EXCEPT !.pc = "head"]
      BY <3>1
    <3>3. QED
      BY <2>2, <3>2
  <2>4. QED
    BY <2>1, <2>3
<1>6. CASE out'.pc \in {"head", "candidate"}
  <2>1. StagesLeft(out'.pc) < StagesLeft(out.pc) /\ out'.pc \in Live
    BY <1>1, <1>6 DEF StagesLeft, Live, PCs
  <2>2. QED
    BY <1>1, <1>5, <2>1, StageDescends
<1>7. QED
  BY <1>1, <1>5, <1>6, StopDescends

LEMMA EnterReviewDescends ==
  ASSUME IInv, EnterReview
  PROVE  Descends
<1>1. out.pc = "candidate" /\ out.pc \in Live /\ OutOK(out) /\ loop' = loop /\ review \in ReviewType
  BY DEF EnterReview, IInv, Typed, Live, PCs
<1>2. CASE Stops
  BY <1>1, <1>2, StopDescends
<1>3. CASE out' = [out EXCEPT !.pc = "review"] /\ review' = [review EXCEPT !.rounds = @ + 1, !.converged = Converged(sem)]
  <2>1. out'.pc = "review"
    BY <1>1, <1>3, MoveSet DEF PCs
  <2>2. EndsLeft(out'.pc) = EndsLeft(out.pc)
    BY <1>1, <2>1 DEF EndsLeft, Live, PCs
  <2>3. review'.rounds = review.rounds + 1 /\ review.rounds \in Nat
    BY <1>1, <1>3, LimitAssumption DEF ReviewType
  <2>4. RoundsLeft(review') < RoundsLeft(review)
    BY <2>3, LimitAssumption DEF RoundsLeft
  <2>5. QED
    BY <2>2, <2>4 DEF Descends
<1>4. \/ \E why : Inconclude(why)
      \/ \E e, n : Raise(e, out, n)
      \/ /\ out' = [out EXCEPT !.pc = "review"]
         /\ review' = [review EXCEPT !.rounds = @ + 1, !.converged = Converged(sem)]
  BY DEF EnterReview
<1>5. QED
  BY <1>1, <1>2, <1>3, <1>4, RaiseSet, InconcludeSet

LEMMA ReviewedDescends ==
  ASSUME IInv, ReviewFails \/ ReviewPasses \/ ReviewRejects
  PROVE  Descends
<1>1. out.pc = "review" /\ out.pc \in Live /\ OutOK(out) /\ loop' = loop /\ review' = review
  BY DEF ReviewFails, ReviewPasses, ReviewRejects, IInv, Typed, Live, PCs
<1>2. CASE out'.pc = "report"
  BY <1>1, <1>2 DEF Descends, EndsLeft, Live, PCs
<1>3. CASE ReviewFails
  <2>1. out.candidate \in CandidateType
    BY <1>1 DEF OutOK
  <2>2. \A d \in {"PASS", "REJECT"} : OutOK([out EXCEPT !.decision = d, !.about = out.candidate])
    BY <1>1, <2>1, JudgedSet
  <2>3. Stops
    BY <1>1, <1>3, <2>2, RaiseSet, InconcludeSet DEF ReviewFails
  <2>4. QED
    BY <1>1, <2>3, StopDescends
<1>4. CASE ReviewPasses
  BY <1>1, <1>2, <1>4 DEF ReviewPasses, OutOK
<1>5. CASE ReviewRejects
  <2>1. out'.pc = "rejected"
    BY <1>1, <1>5 DEF ReviewRejects, OutOK
  <2>2. StagesLeft(out'.pc) < StagesLeft(out.pc) /\ out'.pc \in Live
    BY <1>1, <2>1 DEF StagesLeft, Live, PCs
  <2>3. QED
    BY <1>1, <2>2, StageDescends DEF SameLoop
<1>6. QED
  BY <1>3, <1>4, <1>5

LEMMA ApplyRejectionDescends ==
  ASSUME IInv, ApplyRejection
  PROVE  Descends
<1>1. out.pc = "rejected" /\ out.pc \in Live /\ OutOK(out) /\ review \in ReviewType
  BY DEF ApplyRejection, IInv, Typed, Live, PCs
<1>2. CASE \E why : Inconclude(why)
  BY <1>1, <1>2, InconcludeSet, StopDescends
<1>3. ASSUME NEW s, NEW blocking, StartRecovery(s, blocking)
      PROVE  Descends
  <2>1. (\E e : Raise(e, out, review.rounds)) \/ out' = [out EXCEPT !.pc = "head"]
    BY <1>3 DEF StartRecovery
  <2>2. CASE out' = [out EXCEPT !.pc = "head"]
    <3>1. out'.pc = "head"
      BY <1>1, <2>2, MoveSet DEF PCs
    <3>2. EndsLeft(out'.pc) = EndsLeft(out.pc)
      BY <1>1, <3>1 DEF EndsLeft, Live, PCs
    <3>3. /\ review' = [review EXCEPT !.cycles = @ + 1, !.base = Candidate(s)]
          /\ review.cycles \in Nat
      BY <1>1, <1>3, LimitAssumption DEF StartRecovery, ReviewType
    <3>4. review'.rounds = review.rounds /\ review'.cycles = review.cycles + 1
      BY <1>1, <3>3 DEF ReviewType
    <3>5. RoundsLeft(review') = RoundsLeft(review) /\ RecoveriesLeft(review') < RecoveriesLeft(review)
      BY <3>3, <3>4, LimitAssumption DEF RoundsLeft, RecoveriesLeft
    <3>6. QED
      BY <3>2, <3>5 DEF Descends
  <2>3. QED
    BY <1>1, <2>1, <2>2, RaiseSet, StopDescends
<1>4. QED
  BY <1>2, <1>3 DEF ApplyRejection

LEMMA OutsideDescends ==
  ASSUME IInv, Expire \/ Report \/ ReportRaises
  PROVE  Descends
<1>1. CASE Expire
  <2>1. /\ late = FALSE /\ late' = TRUE /\ loop' = loop /\ review' = review /\ out' = out
    BY <1>1 DEF Expire, IInv, Typed
  <2>2. DeadlineLeft(late') < DeadlineLeft(late)
    BY <2>1 DEF DeadlineLeft
  <2>3. QED
    BY <2>1, <2>2 DEF Descends, SameLoop
<1>2. CASE Report
  <2>1. OutOK(out) /\ out.pc = "report"
    BY <1>2 DEF Report, IInv, Typed
  <2>2. out'.pc = "done"
    <3>1. PICK o \in ReportReviewed, capability \in BOOLEAN :
            LET class == TerminalOutcome(Convergence(capability))
            IN  out' = [o EXCEPT !.pc = "done", !.class = class,
                                 !.status = IF class = "INCONCLUSIVE" THEN "INCONCLUSIVE" ELSE @]
      BY <1>2 DEF Report
    <3>2. OutOK(o)
      <4>1. NoCandidate \in CandidateType
        BY LimitAssumption DEF NoCandidate, NoBase, CandidateType
      <4>2. \A d \in {"PASS", "REJECT"} : OutOK([out EXCEPT !.decision = d, !.about = NoCandidate])
        BY <2>1, <4>1, JudgedSet
      <4>3. o = out \/ \E d \in {"PASS", "REJECT"} : o = [out EXCEPT !.decision = d, !.about = NoCandidate]
        BY <3>1 DEF ReportReviewed
      <4>4. QED
        BY <2>1, <4>2, <4>3
    <3>3. QED
      BY <3>1, <3>2 DEF OutOK
  <2>3. QED
    BY <2>1, <2>2 DEF Descends, EndsLeft, Live, PCs
<1>3. CASE ReportRaises
  <2>1. out.pc = "report" /\ out'.pc = "done"
    BY <1>3 DEF ReportRaises, IInv, Typed, OutOK
  <2>2. QED
    BY <2>1 DEF Descends, EndsLeft, Live, PCs
<1>4. QED
  BY <1>1, <1>2, <1>3

\* Every run ends, whatever the models answer and whenever the deadline passes: neither a
\* Reflection, nor a recovery with its new steps and compactions, nor a Candidate published
\* again lets the loop come back to where it was.
THEOREM RunDescends == Spec => []Bounded /\ [][Descends]_vars
<1>1. IInv => Bounded
  <2>1. ASSUME IInv
        PROVE  loop \in LoopType /\ loop.step <= loop.limit /\ review \in ReviewType
    BY <2>1 DEF IInv, Typed
  <2>2. QED
    BY <2>1, LimitAssumption
       DEF Bounded, RoundsLeft, RecoveriesLeft, StepsLeft, CompactionsLeft, LoopType, ReviewType
<1>2. IInv /\ [Next]_vars => [Descends]_vars
  BY HeadDescends, TurnFailsDescends, TurnCompactsDescends, TurnCommitsDescends, ActDescends,
     EnterReviewDescends, ReviewedDescends, ApplyRejectionDescends, OutsideDescends
     DEF Next, Finished
<1>3. QED
  BY <1>1, <1>2, Invariance, PTL DEF Spec
=============================================================================
