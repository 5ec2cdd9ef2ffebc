---------------------- MODULE SemanticTransitionProofs ----------------------
(***************************************************************************)
(* Proofs about SemanticTransition, for every set of obligations, Evidence *)
(* and fact slots and every bound on the hypothesis history.               *)
(***************************************************************************)
EXTENDS SemanticTransition, FiniteSetTheorems, TLAPS

Statuses == [Obligations -> ObligationStatus \cup {Absent}]
Supports == [Obligations -> SUBSET Evidence]
Contradictions == [Evidence -> Contradiction \cup {NoContradiction}]
Sets == [Obligations -> [HypothesisIds -> EvidenceSet \cup {NoSet}]]

-----------------------------------------------------------------------------
(* The inductive invariant *)

\* A scope the history has reached by the time it stands at cur.
Behind(scope, cur) ==
  \/ scope.id < cur.id
  \/ scope.id = cur.id /\ scope.revision <= cur.revision

\* Hypotheses are numbered by their place in the history, and every relationship
\* was admitted in a scope the history has passed, for a known obligation.
Placed(st) ==
  /\ CurrentScope(st.rca).id <= Len(st.rca.hypotheses)
  /\ CurrentScope(st.rca).revision <= Len(st.rca.hypotheses)
  /\ \A f \in st.facts : Behind(f.scope, CurrentScope(st.rca)) /\ f.obligation \in Known(st.rca)

Related(st) == {f.evidence : f \in st.facts}
Agree(st) == st.rca.evidence = st.pinned /\ st.pinned = Related(st)

Earned(st) ==
  \A o \in Satisfied(st.rca), s \in Slots : s \in Required[o] =>
    \E f \in FactsOf(st, o, CurrentScope(st.rca)) : s \in f.covers /\ Proves(st, o, f)

Unsupported(st) ==
  \A o \in Obligations : st.rca.status[o] \in {Absent, "OPEN"} => st.rca.support[o] = {}

\* Every contradictory relationship of the scope is on record, and no EvidenceSet of
\* the scope that satisfies its obligation has an undecided one.
Recorded(st) ==
  \A f \in InScope(st.facts, CurrentScope(st.rca)) :
    f.relation = "CONTRADICTS" => f.evidence \in Contradicted(st.rca)
SetOf(st, o, scope) == st.sets[o][scope.id]
Settled(st, scope) ==
  \A o \in Obligations :
    SetOf(st, o, scope).scope = scope /\ SetOf(st, o, scope).semantic_status = "SATISFIES"
      => Contradicting(st, o, scope) = {}
Sound(st) ==
  HasHypothesis(st.rca) => Recorded(st) /\ Settled(st, CurrentScope(st.rca))

Consistent(st) == st \in Stores /\ Placed(st) /\ Agree(st) /\ Earned(st) /\ Unsupported(st)

\* What staging may have made of an obligation by the end of a transaction.
Staged(from) ==
  CASE from = Absent -> {Absent, "OPEN", "SATISFIED"}
    [] from = "OPEN" -> {"OPEN", "SATISFIED", "NOT_APPLICABLE_BY_CAPABILITY"}
    [] from = "SATISFIED" -> {"OPEN", "SATISFIED", "NOT_APPLICABLE_BY_CAPABILITY"}
    [] from = "BLOCKED_BY_CAPABILITY" -> {"BLOCKED_BY_CAPABILITY", "NOT_APPLICABLE_BY_CAPABILITY"}
    [] OTHER -> {from}

\* Before the hypothesis is built: nothing new is known, nothing is waived.
Unbuilt(from) ==
  CASE from = "OPEN" -> {"OPEN", "SATISFIED"}
    [] from = "SATISFIED" -> {"OPEN", "SATISFIED"}
    [] OTHER -> {from}

\* lv and st are the published stores and the copy, t the turn's control state.
Grew(lv, st, t) ==
  /\ lv.facts \subseteq st.facts
  /\ \A f \in st.facts \ lv.facts : f.scope = t.scope

\* An answer of the copy is the published one, or is earned in the scope of the turn.
AnsweredIn(lv, st, o) ==
  \/ /\ CurrentScope(st.rca) = CurrentScope(lv.rca)
     /\ lv.rca.status[o] = "SATISFIED" /\ st.rca.support[o] = lv.rca.support[o]
  \/ /\ st.rca.support[o] # {}
     /\ \A e \in st.rca.support[o] : \E f \in FactsOf(st, o, CurrentScope(st.rca)) : f.evidence = e

Answers(lv, st) == \A o \in Satisfied(st.rca) : AnsweredIn(lv, st, o)

Opened(lv, t) ==
  /\ t.kind \in Kinds
  /\ (t.kind = "INITIAL") = (~HasHypothesis(lv.rca))
  /\ Len(lv.rca.hypotheses) < MaxHypotheses
  /\ t.scope = ResolvedScope(lv.rca, t.kind)
  /\ t.supersede \subseteq Active(lv.rca)

\* A contradiction that blocked is still blocking or was named by the decision.
Kept(lv, st, t) ==
  CurrentScope(st.rca) = CurrentScope(lv.rca) =>
    \A e \in Blocking(lv.rca) \ Blocking(st.rca) : t.contradictions[e] # NoContradiction

\* Feedback that repeated the diagnosis.
Repeated(lv, st) ==
  /\ st.rca.hypotheses = lv.rca.hypotheses /\ st.facts = lv.facts
  /\ \A o \in Obligations :
       \/ st.rca.status[o] = lv.rca.status[o] /\ st.rca.support[o] = lv.rca.support[o]
       \/ lv.rca.status[o] = "SATISFIED" /\ st.rca.status[o] = "OPEN" /\ st.rca.support[o] = {}

\* Until the hypothesis is rebuilt the copy answers what the live stores ask.
Building(lv, st, t) ==
  /\ st.rca.hypotheses = lv.rca.hypotheses
  /\ \A o \in Obligations : st.rca.status[o] \in Unbuilt(lv.rca.status[o])
  /\ Answers(lv, st)

\* One more hypothesis, in the scope of the turn.
Rebuilt(lv, st, t) ==
  /\ HasHypothesis(st.rca)
  /\ Len(st.rca.hypotheses) = Len(lv.rca.hypotheses) + 1
  /\ CurrentScope(st.rca) = t.scope
  /\ \A o \in Obligations : st.rca.status[o] \in Staged(lv.rca.status[o])
  /\ Answers(lv, st)

Phase(lv, st, t) ==
  /\ t.pc = "evidence" => /\ Building(lv, st, t)
                          /\ t.kind = "KEEP_CURRENT" /\ t.cited = Blocking(lv.rca)
  /\ t.pc = "build" => /\ Building(lv, st, t)
                       /\ t.kind # "KEEP_CURRENT"
                       /\ st.facts = lv.facts /\ Satisfied(st.rca) = {}
  /\ t.pc = "proposed" => Rebuilt(lv, st, t) /\ (~t.rejected => Kept(lv, st, t))
  /\ t.pc = "publish" /\ ~t.rejected =>
       /\ Repeated(lv, st) \/ Rebuilt(lv, st, t)
       /\ Sound(st) /\ Kept(lv, st, t)

Transaction(lv, st, t) ==
  IF t.pc = "idle" THEN st = lv
  ELSE Opened(lv, t) /\ Grew(lv, st, t) /\ Phase(lv, st, t)

IInv ==
  /\ captured \in SUBSET Evidence /\ turn \in Turns
  /\ Consistent(live) /\ Sound(live) /\ Consistent(staged)
  /\ Transaction(live, staged, turn)

-----------------------------------------------------------------------------
(* Records *)

LEMMA RCAParts ==
  ASSUME NEW s \in RCAStates
  PROVE  /\ s.status \in Statuses /\ s.support \in Supports /\ s.evidence \in SUBSET Evidence
         /\ s.contradictions \in Contradictions /\ s.hypotheses \in Seq(Hypothesis)
         /\ s.records \in Seq(SUBSET Evidence) /\ s.event_count \in Nat
BY DEF RCAStates, Statuses, Supports, Contradictions

LEMMA StoreParts ==
  ASSUME NEW st \in Stores
  PROVE  /\ st.rca \in RCAStates /\ st.pinned \in SUBSET Evidence
         /\ st.facts \in SUBSET Fact /\ st.sets \in Sets
BY DEF Stores, Sets

\* A copy whose reducer state is replaced is a copy of the stores.
LEMMA StoreWith ==
  ASSUME NEW st \in Stores, NEW r \in RCAStates
  PROVE  /\ [st EXCEPT !.rca = r] \in Stores
         /\ [st EXCEPT !.rca = r].rca = r
         /\ [st EXCEPT !.rca = r].pinned = st.pinned
         /\ [st EXCEPT !.rca = r].facts = st.facts
         /\ [st EXCEPT !.rca = r].sets = st.sets
BY DEF Stores

\* The history of a state that has one ends in its current hypothesis.
LEMMA CurrentType ==
  ASSUME NEW s \in RCAStates
  PROVE  /\ Len(s.hypotheses) \in Nat
         /\ HasHypothesis(s) => /\ Len(s.hypotheses) > 0
                                /\ Current(s) \in Hypothesis
                                /\ CurrentScope(s) \in Scope
         /\ ~HasHypothesis(s) => Len(s.hypotheses) = 0 /\ CurrentScope(s) = NoScope
         /\ CurrentScope(s).id \in Nat /\ CurrentScope(s).revision \in Nat
         /\ CurrentScope(s) = [id |-> CurrentScope(s).id, revision |-> CurrentScope(s).revision]
<1>1. s.hypotheses \in Seq(Hypothesis)
  BY DEF RCAStates
<1>2. Len(s.hypotheses) \in Nat /\ (HasHypothesis(s) <=> Len(s.hypotheses) > 0)
  BY <1>1 DEF HasHypothesis
<1>3. ASSUME HasHypothesis(s) PROVE Current(s) \in Hypothesis
  BY <1>1, <1>2, <1>3 DEF Current
<1>4. ASSUME HasHypothesis(s) PROVE CurrentScope(s) \in Scope
  BY <1>3, <1>4 DEF CurrentScope, ScopeOf, Hypothesis, Scope
<1>5. \A x \in Scope : /\ x.id \in Nat /\ x.revision \in Nat
                       /\ x = [id |-> x.id, revision |-> x.revision]
  BY SemanticAssumption DEF Scope
<1>6. QED
  BY <1>2, <1>3, <1>4, <1>5 DEF CurrentScope, NoScope

LEMMA Appended ==
  ASSUME NEW s \in RCAStates, NEW t \in RCAStates, NEW h \in Hypothesis,
         t.hypotheses = Append(s.hypotheses, h)
  PROVE  /\ HasHypothesis(t) /\ Len(t.hypotheses) = Len(s.hypotheses) + 1
         /\ Current(t) = h /\ CurrentScope(t) = [id |-> h.id, revision |-> h.revision]
<1>1. s.hypotheses \in Seq(Hypothesis)
  BY DEF RCAStates
<1>2. Len(t.hypotheses) = Len(s.hypotheses) + 1 /\ Current(t) = h
  BY <1>1 DEF Current
<1>3. HasHypothesis(t)
  BY <1>1, <1>2, CurrentType
<1>4. QED
  BY <1>2, <1>3 DEF CurrentScope, ScopeOf

-----------------------------------------------------------------------------
(* Qualification *)

LEMMA FactParts ==
  ASSUME NEW st \in Stores, NEW f \in st.facts
  PROVE  /\ f \in Fact /\ f.evidence \in Evidence /\ f.obligation \in Obligations
         /\ f.scope \in Scope /\ f.covers \in SUBSET Slots
BY DEF Stores, Fact

LEMMA QualifyType ==
  ASSUME NEW st \in Stores, NEW o \in Obligations, NEW scope \in Scope
  PROVE  /\ Qualify(st, o, scope) \in EvidenceSet
         /\ Qualify(st, o, scope).scope = scope
         /\ Qualify(st, o, scope).semantic_status = "SATISFIES" =>
              Contradicting(st, o, scope) = {} /\ Complete(Coverage(st, o, scope), o)
<1> DEFINE c == Coverage(st, o, scope)
           v == IF Contradicting(st, o, scope) # {} THEN "CONTRADICTS"
                ELSE IF Complete(c, o) THEN "SATISFIES"
                ELSE IF \E f \in FactsOf(st, o, scope) : f.covers # {} THEN "PARTIAL"
                ELSE "INSUFFICIENT"
<1>1. c \in [Slots -> SUBSET Evidence]
  BY FactParts DEF Coverage, FactsOf, InScope
<1>2. v \in {"SATISFIES", "CONTRADICTS", "PARTIAL", "INSUFFICIENT"}
  OBVIOUS
<1>3. v = "SATISFIES" => Contradicting(st, o, scope) = {} /\ Complete(c, o)
  OBVIOUS
<1>4. Qualify(st, o, scope) = [scope |-> scope, coverage |-> c, semantic_status |-> v]
  BY DEF Qualify
<1> HIDE DEF c, v
<1>5. QED
  BY <1>1, <1>2, <1>3, <1>4 DEF EvidenceSet, c

Linked(st, O, scope) == UNION {{f.evidence : f \in FactsOf(st, o, scope)} : o \in O}
OpenedBy(st, O, scope) == (UNION {Contradicting(st, o, scope) : o \in O}) \ Contradicted(st.rca)
SupportFor(st, o, scope) == UNION {Coverage(st, o, scope)[s] : s \in Required[o]}

\* What qualification leaves of a copy of the stores, field by field.
IsQualified(st, O, scope, q) ==
  /\ q \in Stores /\ q.pinned = st.pinned /\ q.facts = st.facts
  /\ q.rca.hypotheses = st.rca.hypotheses
  /\ q.rca.evidence = st.rca.evidence \cup Linked(st, O, scope)
  /\ \A e \in Evidence : q.rca.contradictions[e] =
       IF e \in OpenedBy(st, O, scope) THEN OpenBlocking ELSE st.rca.contradictions[e]
  /\ \A o \in Obligations :
       IF o \in Closing(st, O, scope)
       THEN q.rca.status[o] = "SATISFIED" /\ q.rca.support[o] = SupportFor(st, o, scope)
       ELSE q.rca.status[o] = st.rca.status[o] /\ q.rca.support[o] = st.rca.support[o]
  /\ \A o \in Obligations : q.sets[o][scope.id] =
       IF o \in O THEN Qualify(st, o, scope) ELSE st.sets[o][scope.id]

LEMMA QualifiedEffect ==
  ASSUME NEW st \in Stores, NEW O \in SUBSET Obligations, NEW scope \in Scope
  PROVE  IsQualified(st, O, scope, Qualified(st, O, scope))
<1> DEFINE q == Qualified(st, O, scope)
           s == st.rca
           closing == Closing(st, O, scope)
           linked == (UNION {{f.evidence : f \in FactsOf(st, o, scope)} : o \in O}) \ s.evidence
           opened == OpenedBy(st, O, scope)
           a == [o \in Obligations |-> IF o \in closing THEN "SATISFIED" ELSE s.status[o]]
           b == [o \in Obligations |-> IF o \in closing THEN SupportFor(st, o, scope) ELSE s.support[o]]
           E == s.evidence \cup linked
           c == [e \in Evidence |-> IF e \in opened THEN OpenBlocking ELSE s.contradictions[e]]
           n == s.event_count + Cardinality(linked) + Cardinality(opened) + Cardinality(closing)
           r == [s EXCEPT !.evidence = E, !.contradictions = c, !.status = a, !.support = b,
                          !.event_count = n]
           t == [o \in Obligations |->
                   IF o \in O THEN [st.sets[o] EXCEPT ![scope.id] = Qualify(st, o, scope)]
                   ELSE st.sets[o]]
<1>1. s \in RCAStates /\ st.sets \in Sets /\ scope.id \in HypothesisIds
  BY StoreParts DEF Scope
<1>2. linked \in SUBSET Evidence /\ opened \in SUBSET Evidence /\ closing \in SUBSET Obligations
  <2>1. linked \in SUBSET Evidence
    BY FactParts DEF FactsOf, InScope
  <2>2. opened \in SUBSET Evidence
    BY FactParts DEF OpenedBy, Contradicting, FactsOf, InScope
  <2>3. QED
    BY <2>1, <2>2 DEF Closing
<1>3. Cardinality(linked) \in Nat /\ Cardinality(opened) \in Nat /\ Cardinality(closing) \in Nat
  BY <1>2, SemanticAssumption, FS_Subset, FS_CardinalityType
<1>4. \A o \in Obligations : SupportFor(st, o, scope) \in SUBSET Evidence
  <2> TAKE o \in Obligations
  <2>1. Coverage(st, o, scope) \in [Slots -> SUBSET Evidence]
    BY FactParts DEF Coverage, FactsOf, InScope
  <2>2. Required[o] \subseteq Slots
    BY SemanticAssumption
  <2>3. QED
    BY <2>1, <2>2 DEF SupportFor
<1>5. a \in Statuses /\ b \in Supports
  BY <1>1, <1>4, RCAParts DEF Statuses, Supports, ObligationStatus
<1>6. c \in Contradictions
  BY <1>1, RCAParts DEF Contradictions, OpenBlocking, Contradiction, ContradictionStatus, Severity
<1>7. t \in Sets /\ \A o \in Obligations :
        t[o][scope.id] = IF o \in O THEN Qualify(st, o, scope) ELSE st.sets[o][scope.id]
  BY <1>1, QualifyType DEF Sets
<1>8. E = s.evidence \cup Linked(st, O, scope) /\ E \in SUBSET Evidence
  BY <1>1, <1>2, RCAParts DEF Linked
<1>10. n \in Nat
  BY <1>1, <1>3, RCAParts
<1>11. q = [st EXCEPT !.rca = r, !.sets = t]
  BY DEF Qualified, OpenedBy, SupportFor
<1>12. \A o \in Obligations : IF o \in closing
         THEN a[o] = "SATISFIED" /\ b[o] = SupportFor(st, o, scope)
         ELSE a[o] = s.status[o] /\ b[o] = s.support[o]
  OBVIOUS
<1>13. \A e \in Evidence : c[e] = IF e \in opened THEN OpenBlocking ELSE s.contradictions[e]
  OBVIOUS
<1> HIDE DEF a, b, c, E, n, t, q
<1>14. r = [s EXCEPT !.evidence = E, !.contradictions = c, !.status = a, !.support = b,
                     !.event_count = n]
  OBVIOUS
<1> HIDE DEF r, s
<1>9. /\ r \in RCAStates
      /\ r.hypotheses = s.hypotheses /\ r.evidence = E /\ r.contradictions = c
      /\ r.status = a /\ r.support = b
  BY <1>1, <1>5, <1>6, <1>8, <1>10, <1>14 DEF RCAStates, Statuses, Supports, Contradictions
<1>16. q \in Stores /\ q.rca = r /\ q.pinned = st.pinned /\ q.facts = st.facts /\ q.sets = t
  BY <1>7, <1>9, <1>11 DEF Stores, Sets
<1>17. QED
  BY <1>7, <1>8, <1>9, <1>12, <1>13, <1>16 DEF s, q, IsQualified

\* An obligation that qualification closes rests on relationships that cover its slots.
IsCovered(st, scope, o) ==
  /\ \A s \in Slots : s \in Required[o] =>
       \E f \in FactsOf(st, o, scope) : /\ s \in f.covers /\ f.relation # "CONTRADICTS"
                                        /\ f.evidence \in SupportFor(st, o, scope)
  /\ SupportFor(st, o, scope) # {}
  /\ \A e \in SupportFor(st, o, scope) : \E f \in FactsOf(st, o, scope) : f.evidence = e

LEMMA ClosingCovered ==
  ASSUME NEW st \in Stores, NEW O \in SUBSET Obligations, NEW scope \in Scope,
         NEW o \in Closing(st, O, scope)
  PROVE  IsCovered(st, scope, o)
<1>1. o \in Obligations /\ Complete(Coverage(st, o, scope), o)
  BY QualifyType DEF Closing
<1>2. Required[o] \subseteq Slots /\ Required[o] # {}
  BY <1>1, SemanticAssumption
<1>3. ASSUME NEW s \in Required[o]
      PROVE  \E f \in FactsOf(st, o, scope) : /\ s \in f.covers /\ f.relation # "CONTRADICTS"
                                              /\ f.evidence \in SupportFor(st, o, scope)
  <2>1. Coverage(st, o, scope)[s] # {}
    BY <1>1 DEF Complete
  <2>2. Coverage(st, o, scope)[s] =
          {f.evidence : f \in {g \in FactsOf(st, o, scope) : s \in g.covers /\ g.relation # "CONTRADICTS"}}
    BY <1>2 DEF Coverage
  <2>3. PICK f \in FactsOf(st, o, scope) :
          s \in f.covers /\ f.relation # "CONTRADICTS" /\ f.evidence \in Coverage(st, o, scope)[s]
    BY <2>1, <2>2
  <2>4. f.evidence \in SupportFor(st, o, scope)
    BY <2>3 DEF SupportFor
  <2>5. QED
    BY <2>3, <2>4
<1>4. ASSUME NEW e \in SupportFor(st, o, scope)
      PROVE  \E f \in FactsOf(st, o, scope) : f.evidence = e
  <2>1. PICK s \in Required[o] : e \in Coverage(st, o, scope)[s]
    BY DEF SupportFor
  <2>2. QED
    BY <1>2, <2>1 DEF Coverage
<1>5. QED
  BY <1>2, <1>3, <1>4 DEF IsCovered

LEMMA QualifiedConsistent ==
  ASSUME NEW st \in Stores, NEW O \in SUBSET Obligations, NEW scope \in Scope,
         HasHypothesis(st.rca), scope = CurrentScope(st.rca),
         Placed(st), Earned(st), Unsupported(st),
         st.pinned = Related(st), st.rca.evidence \cup Linked(st, O, scope) = st.pinned
  PROVE  Consistent(Qualified(st, O, scope))
<1> DEFINE q == Qualified(st, O, scope)
<1>1. IsQualified(st, O, scope, q)
  BY QualifiedEffect
<1> HIDE DEF q
<1>2. /\ q \in Stores /\ q.pinned = st.pinned /\ q.facts = st.facts
      /\ q.rca.hypotheses = st.rca.hypotheses
      /\ q.rca.evidence = st.rca.evidence \cup Linked(st, O, scope)
  BY <1>1 DEF IsQualified
<1>3. \A o \in Obligations :
        IF o \in Closing(st, O, scope)
        THEN q.rca.status[o] = "SATISFIED" /\ q.rca.support[o] = SupportFor(st, o, scope)
        ELSE q.rca.status[o] = st.rca.status[o] /\ q.rca.support[o] = st.rca.support[o]
  BY <1>1 DEF IsQualified
<1>4. CurrentScope(q.rca) = scope
  BY <1>2 DEF CurrentScope, Current, HasHypothesis
<1>5. Known(q.rca) = Known(st.rca)
  BY <1>3 DEF Known, Absent, Closing
<1>6. Placed(q)
  BY <1>2, <1>4, <1>5 DEF Placed
<1>7. Agree(q)
  BY <1>2 DEF Agree, Related
<1>8. Earned(q)
  <2> SUFFICES ASSUME NEW o \in Satisfied(q.rca), NEW s \in Slots, s \in Required[o]
               PROVE  \E f \in FactsOf(q, o, scope) : s \in f.covers /\ Proves(q, o, f)
    BY <1>4 DEF Earned
  <2>1. o \in Obligations /\ FactsOf(q, o, scope) = FactsOf(st, o, scope)
    BY <1>2 DEF Satisfied, FactsOf
  <2>2. CASE o \in Closing(st, O, scope)
    <3>1. IsCovered(st, scope, o)
      BY <2>2, ClosingCovered
    <3>2. QED
      BY <1>3, <2>1, <2>2, <3>1 DEF Proves, IsCovered
  <2>3. CASE o \notin Closing(st, O, scope)
    <3>1. o \in Satisfied(st.rca) /\ q.rca.support[o] = st.rca.support[o]
      BY <1>3, <2>1, <2>3 DEF Satisfied
    <3>2. QED
      BY <2>1, <3>1 DEF Earned, Proves
  <2>4. QED
    BY <2>2, <2>3
<1>9. Unsupported(q)
  BY <1>3 DEF Unsupported, Absent
<1>10. QED
  BY <1>2, <1>6, <1>7, <1>8, <1>9 DEF Consistent, q

\* Nothing a contradiction says is undone: what blocked or was decided stays so.
ContradictionsKept(st, O, scope, q) ==
  /\ Contradicted(st.rca) \subseteq Contradicted(q.rca)
  /\ Blocking(st.rca) \subseteq Blocking(q.rca)
  /\ Decided(q.rca) = Decided(st.rca)
  /\ UNION {Contradicting(st, o, scope) : o \in O} \subseteq Contradicted(q.rca)

LEMMA QualifiedContradictions ==
  ASSUME NEW st \in Stores, NEW O \in SUBSET Obligations, NEW scope \in Scope,
         NEW q, q = Qualified(st, O, scope)
  PROVE  ContradictionsKept(st, O, scope, q)
<1>1. \A e \in Evidence : q.rca.contradictions[e] =
        IF e \in OpenedBy(st, O, scope) THEN OpenBlocking ELSE st.rca.contradictions[e]
  BY QualifiedEffect DEF IsQualified
<1>2. \A e \in OpenedBy(st, O, scope) : e \notin Evidence \/ st.rca.contradictions[e] = NoContradiction
  BY DEF OpenedBy, Contradicted
<1>3. OpenBlocking # NoContradiction
  BY DEF OpenBlocking, NoContradiction, Absent
<1>4. UNION {Contradicting(st, o, scope) : o \in O} \subseteq Evidence
  BY FactParts DEF Contradicting, FactsOf, InScope
<1>5. Contradicted(st.rca) \subseteq Contradicted(q.rca) /\ Blocking(st.rca) \subseteq Blocking(q.rca)
  BY <1>1, <1>2, <1>3 DEF Contradicted, Blocking
<1>6. Decided(q.rca) = Decided(st.rca)
  BY <1>1, <1>2 DEF Decided, OpenBlocking, NoContradiction, Absent
<1>7. ASSUME NEW e \in UNION {Contradicting(st, o, scope) : o \in O}
      PROVE  e \in Contradicted(q.rca)
  BY <1>1, <1>3, <1>4 DEF Contradicted, OpenedBy
<1>8. QED
  BY <1>5, <1>6, <1>7 DEF ContradictionsKept

\* Qualifying every known obligation puts the scope's contradictions on record.
LEMMA QualifiedSound ==
  ASSUME NEW st \in Stores, NEW scope \in Scope, HasHypothesis(st.rca),
         scope = CurrentScope(st.rca), Placed(st),
         NEW q, q = Qualified(st, Known(st.rca), scope)
  PROVE  Recorded(q) /\ Settled(q, scope)
<1> DEFINE O == Known(st.rca)
<1>1. O \in SUBSET Obligations
  BY DEF Known
<1>a. IsQualified(st, O, scope, q) /\ ContradictionsKept(st, O, scope, q)
  BY <1>1, QualifiedEffect, QualifiedContradictions
<1>2. /\ q.facts = st.facts /\ q.rca.hypotheses = st.rca.hypotheses
      /\ \A o \in Obligations : q.sets[o][scope.id] =
           IF o \in O THEN Qualify(st, o, scope) ELSE st.sets[o][scope.id]
  BY <1>a DEF IsQualified
<1>3. CurrentScope(q.rca) = scope
  BY <1>2 DEF CurrentScope, Current, HasHypothesis
<1>4. /\ Contradicted(st.rca) \subseteq Contradicted(q.rca) /\ Decided(q.rca) = Decided(st.rca)
      /\ UNION {Contradicting(st, o, scope) : o \in O} \subseteq Contradicted(q.rca)
  BY <1>a DEF ContradictionsKept
<1>5. \A f \in st.facts : f.obligation \in O
  BY DEF Placed
<1>6. Recorded(q)
  <2> SUFFICES ASSUME NEW f \in InScope(st.facts, scope), f.relation = "CONTRADICTS"
               PROVE  f.evidence \in Contradicted(q.rca)
    BY <1>2, <1>3 DEF Recorded
  <2>1. f \in st.facts /\ f.obligation \in O /\ f \in FactsOf(st, f.obligation, scope)
    BY <1>5 DEF InScope, FactsOf
  <2>2. CASE f.evidence \in Decided(st.rca)
    BY <1>4, <2>2 DEF Decided, Contradicted, NoContradiction, Absent
  <2>3. CASE f.evidence \notin Decided(st.rca)
    <3>1. f.evidence \in Contradicting(st, f.obligation, scope)
      BY <2>1, <2>3 DEF Contradicting
    <3>2. QED
      BY <1>4, <2>1, <3>1
  <2>4. QED
    BY <2>2, <2>3
<1>7. Settled(q, scope)
  <2> SUFFICES ASSUME NEW o \in Obligations, q.sets[o][scope.id].semantic_status = "SATISFIES"
               PROVE  Contradicting(q, o, scope) = {}
    BY DEF Settled, SetOf
  <2>1. Contradicting(q, o, scope) = Contradicting(st, o, scope)
    BY <1>2, <1>4 DEF Contradicting, FactsOf
  <2>2. CASE o \in O
    BY <1>2, <2>1, <2>2, QualifyType
  <2>3. CASE o \notin O
    BY <1>5, <2>1, <2>3 DEF Contradicting, FactsOf, InScope
  <2>4. QED
    BY <2>2, <2>3
<1>8. QED
  BY <1>6, <1>7

-----------------------------------------------------------------------------
(* Admission of a relationship *)

\* The copy with one more relationship, before the obligation is qualified.
IsAdmitted(st, f, w) ==
  /\ w \in Stores /\ w.rca = st.rca /\ w.facts = st.facts \cup {f}
  /\ Placed(w) /\ Earned(w) /\ Unsupported(w) /\ w.pinned = Related(w)
  /\ w.rca.evidence \cup Linked(w, {f.obligation}, f.scope) = w.pinned

LEMMA Admitted ==
  ASSUME NEW st \in Stores, NEW f \in Fact, Consistent(st), HasHypothesis(st.rca),
         f.scope = CurrentScope(st.rca), f.obligation \in Known(st.rca),
         NEW w, w = [st EXCEPT !.facts = @ \cup {f}, !.pinned = @ \cup {f.evidence}]
  PROVE  IsAdmitted(st, f, w)
<1>1. /\ w.rca = st.rca /\ w.facts = st.facts \cup {f} /\ w.sets = st.sets
      /\ w.pinned = st.pinned \cup {f.evidence}
  BY DEF Stores
<1>2. w \in Stores
  BY DEF Stores, Fact
<1>3. \A o \in Obligations : FactsOf(st, o, f.scope) \subseteq FactsOf(w, o, f.scope)
  BY <1>1 DEF FactsOf, InScope
<1>4. Behind(f.scope, CurrentScope(st.rca))
  BY CurrentType, StoreParts DEF Behind
<1>5. Placed(w)
  BY <1>1, <1>4 DEF Consistent, Placed
<1>6. Earned(w)
  BY <1>1, <1>3 DEF Consistent, Earned, Proves, Satisfied
<1>7. Unsupported(w)
  BY <1>1 DEF Consistent, Unsupported
<1>8. w.pinned = Related(w) /\ w.rca.evidence \cup Linked(w, {f.obligation}, f.scope) = w.pinned
  <2>1. w.pinned = Related(w)
    BY <1>1 DEF Consistent, Agree, Related
  <2>2. f \in FactsOf(w, f.obligation, f.scope)
    BY <1>1 DEF FactsOf, InScope
  <2>3. Linked(w, {f.obligation}, f.scope) \subseteq Related(w)
    BY DEF Linked, FactsOf, InScope, Related
  <2>4. f.evidence \in Linked(w, {f.obligation}, f.scope)
    <3> DEFINE E(o) == {g.evidence : g \in FactsOf(w, o, f.scope)}
    <3>1. f.evidence \in E(f.obligation)
      BY <2>2
    <3>2. Linked(w, {f.obligation}, f.scope) = UNION {E(o) : o \in {f.obligation}}
      BY DEF Linked
    <3> HIDE DEF E
    <3>3. QED
      BY <3>1, <3>2
  <2>5. QED
    BY <1>1, <2>1, <2>3, <2>4 DEF Consistent, Agree
<1>9. QED
  BY <1>1, <1>2, <1>5, <1>6, <1>7, <1>8 DEF IsAdmitted

\* A later copy of the stores whose answers are those of an earlier one.
LEMMA EarnedStays ==
  ASSUME NEW st \in Stores, NEW w \in Stores, Earned(st), w.facts = st.facts,
         CurrentScope(w.rca) = CurrentScope(st.rca),
         \A o \in Satisfied(w.rca) : o \in Satisfied(st.rca) /\ w.rca.support[o] = st.rca.support[o]
  PROVE  Earned(w)
BY DEF Earned, FactsOf, Proves, Satisfied

LEMMA PlacedStays ==
  ASSUME NEW st \in Stores, NEW w \in Stores, Placed(st), w.facts = st.facts,
         Behind(CurrentScope(st.rca), CurrentScope(w.rca)),
         CurrentScope(w.rca).id <= Len(w.rca.hypotheses),
         CurrentScope(w.rca).revision <= Len(w.rca.hypotheses),
         Known(st.rca) \subseteq Known(w.rca)
  PROVE  Placed(w)
<1>1. /\ CurrentScope(st.rca).id \in Nat /\ CurrentScope(st.rca).revision \in Nat
      /\ CurrentScope(w.rca).id \in Nat /\ CurrentScope(w.rca).revision \in Nat
  BY CurrentType, StoreParts
<1>2. \A f \in st.facts : f.scope.id \in Nat /\ f.scope.revision \in Nat
  BY FactParts, SemanticAssumption DEF Scope
<1>3. \A f \in st.facts : Behind(f.scope, CurrentScope(w.rca))
  BY <1>1, <1>2 DEF Placed, Behind
<1>4. QED
  BY <1>3 DEF Placed

\* The same facts and sets, no contradiction dropped and no decision withdrawn.
LEMMA SoundStays ==
  ASSUME NEW st \in Stores, NEW w \in Stores, Sound(st), HasHypothesis(st.rca),
         w.facts = st.facts, w.sets = st.sets,
         CurrentScope(w.rca) = CurrentScope(st.rca),
         Contradicted(st.rca) \subseteq Contradicted(w.rca),
         Decided(st.rca) \subseteq Decided(w.rca)
  PROVE  Sound(w)
<1>1. Recorded(w)
  BY DEF Sound, Recorded
<1>2. \A o \in Obligations :
        Contradicting(w, o, CurrentScope(w.rca)) \subseteq Contradicting(st, o, CurrentScope(w.rca))
  BY DEF Contradicting, FactsOf
<1>3. Settled(w, CurrentScope(w.rca))
  BY <1>2 DEF Sound, Settled, SetOf
<1>4. QED
  BY <1>1, <1>3 DEF Sound

-----------------------------------------------------------------------------
(* Reducing the copy without new Evidence *)

\* s and r agree on Evidence, and r answers only what s answers in the same scope.
Reduces(s, r) ==
  /\ r \in RCAStates /\ r.evidence = s.evidence
  /\ Known(s) \subseteq Known(r)
  /\ Behind(CurrentScope(s), CurrentScope(r))
  /\ CurrentScope(r).id <= Len(r.hypotheses) /\ CurrentScope(r).revision <= Len(r.hypotheses)
  /\ \A o \in Obligations : r.status[o] \in {Absent, "OPEN"} => r.support[o] = {}
  /\ \A o \in Satisfied(r) : /\ CurrentScope(r) = CurrentScope(s)
                             /\ o \in Satisfied(s) /\ r.support[o] = s.support[o]

LEMMA ReducedConsistent ==
  ASSUME NEW st, Consistent(st), NEW r, Reduces(st.rca, r)
  PROVE  Consistent([st EXCEPT !.rca = r])
<1> DEFINE w == [st EXCEPT !.rca = r]
<1>1. st \in Stores /\ r \in RCAStates
  BY DEF Consistent, Reduces
<1>2. w \in Stores /\ w.rca = r /\ w.pinned = st.pinned /\ w.facts = st.facts
  BY <1>1, StoreWith
<1> HIDE DEF w
<1>3. Placed(w)
  BY <1>1, <1>2, PlacedStays DEF Reduces, Consistent
<1>4. Agree(w)
  BY <1>2 DEF Reduces, Consistent, Agree, Related
<1>5. Earned(w)
  <2>1. CASE Satisfied(r) = {}
    BY <1>2, <2>1 DEF Earned
  <2>2. CASE Satisfied(r) # {}
    BY <1>1, <1>2, <2>2, EarnedStays DEF Reduces, Consistent
  <2>3. QED
    BY <2>1, <2>2
<1>6. Unsupported(w)
  BY <1>2 DEF Reduces, Unsupported
<1>7. Consistent(w)
  BY <1>2, <1>3, <1>4, <1>5, <1>6 DEF Consistent
<1>8. QED
  BY <1>7 DEF w

LEMMA SatisfiedFinite ==
  ASSUME NEW S \in SUBSET Obligations
  PROVE  Cardinality(S) \in Nat
BY SemanticAssumption, FS_Subset, FS_CardinalityType

LEMMA EvidenceFinite ==
  ASSUME NEW S \in SUBSET Evidence
  PROVE  Cardinality(S) \in Nat
BY SemanticAssumption, FS_Subset, FS_CardinalityType

IsReopened(s, r) ==
  /\ r \in RCAStates /\ r.hypotheses = s.hypotheses /\ r.evidence = s.evidence
  /\ \A o \in Obligations :
       IF o \in Satisfied(s) THEN r.status[o] = "OPEN" /\ r.support[o] = {}
       ELSE r.status[o] = s.status[o] /\ r.support[o] = s.support[o]

LEMMA ReopenedEffect ==
  ASSUME NEW s \in RCAStates
  PROVE  IsReopened(s, Reopened(s)) /\ Reopened(s).contradictions = s.contradictions
<1> DEFINE a == [o \in Obligations |-> IF o \in Satisfied(s) THEN "OPEN" ELSE s.status[o]]
           b == [o \in Obligations |-> IF o \in Satisfied(s) THEN {} ELSE s.support[o]]
           n == s.event_count + Cardinality(Satisfied(s))
           r == Reopened(s)
<1>1. n \in Nat
  BY SatisfiedFinite, RCAParts DEF Satisfied
<1>2. a \in Statuses /\ b \in Supports
  BY RCAParts DEF Statuses, Supports, ObligationStatus
<1>3. \A o \in Obligations :
        IF o \in Satisfied(s) THEN a[o] = "OPEN" /\ b[o] = {}
        ELSE a[o] = s.status[o] /\ b[o] = s.support[o]
  OBVIOUS
<1>4. r = [s EXCEPT !.status = a, !.support = b, !.event_count = n]
  BY DEF Reopened
<1> HIDE DEF a, b, n, r
<1>5. /\ r \in RCAStates /\ r.hypotheses = s.hypotheses /\ r.evidence = s.evidence
      /\ r.contradictions = s.contradictions /\ r.status = a /\ r.support = b
  BY <1>1, <1>2, <1>4 DEF RCAStates, Statuses, Supports
<1>6. QED
  BY <1>3, <1>5 DEF IsReopened, r

LEMMA InvalidatedEffect ==
  ASSUME NEW s \in RCAStates, NEW kind, kind # "KEEP_CURRENT"
  PROVE  /\ IsReopened(s, Invalidated(s, kind))
         /\ Contradicted(Invalidated(s, kind)) = {}
<1> DEFINE t == SetContradictions(s, NoContradictions)
           u == IF Contradicted(s) = {} THEN s ELSE t
<1>1. NoContradictions \in Contradictions /\ s.event_count + 1 \in Nat
  BY RCAParts DEF NoContradictions, Contradictions
<1>2. /\ t \in RCAStates /\ t.hypotheses = s.hypotheses /\ t.evidence = s.evidence
      /\ t.status = s.status /\ t.support = s.support /\ t.contradictions = NoContradictions
  BY <1>1 DEF SetContradictions, RCAStates, Contradictions
<1>3. Contradicted(u) = {}
  BY <1>2 DEF Contradicted, NoContradictions
<1>4. /\ u \in RCAStates /\ u.hypotheses = s.hypotheses /\ u.evidence = s.evidence
      /\ u.status = s.status /\ u.support = s.support
  BY <1>2
<1>5. Invalidated(s, kind) = Reopened(u)
  BY DEF Invalidated
<1> HIDE DEF u
<1>6. IsReopened(u, Reopened(u)) /\ Reopened(u).contradictions = u.contradictions
  BY <1>4, ReopenedEffect
<1>7. Satisfied(u) = Satisfied(s)
  BY <1>4 DEF Satisfied
<1>8. IsReopened(s, Reopened(u))
  BY <1>4, <1>6, <1>7 DEF IsReopened
<1>9. Contradicted(Reopened(u)) = {}
  BY <1>3, <1>6 DEF Contradicted
<1>10. QED
  BY <1>5, <1>8, <1>9

\* What the invalidation at the head of a transaction leaves.
LEMMA InvalidatedReduces ==
  ASSUME NEW st, Consistent(st), NEW kind
  PROVE  /\ Reduces(st.rca, Invalidated(st.rca, kind))
         /\ Invalidated(st.rca, kind).hypotheses = st.rca.hypotheses
         /\ kind # "KEEP_CURRENT" => Satisfied(Invalidated(st.rca, kind)) = {}
<1> DEFINE s == st.rca
           r == Invalidated(s, kind)
<1>1. s \in RCAStates
  BY StoreParts DEF Consistent
<1>2. Behind(CurrentScope(s), CurrentScope(s))
  BY <1>1, CurrentType DEF Behind
<1>3. CASE kind = "KEEP_CURRENT"
  BY <1>1, <1>2, <1>3 DEF Invalidated, Reduces, Consistent, Placed, Unsupported
<1>4. CASE kind # "KEEP_CURRENT"
  <2>1. IsReopened(s, r)
    BY <1>1, <1>4, InvalidatedEffect
  <2> HIDE DEF r
  <2>2. CurrentScope(r) = CurrentScope(s)
    BY <2>1 DEF IsReopened, CurrentScope, Current, HasHypothesis
  <2>3. Satisfied(r) = {}
    BY <2>1 DEF IsReopened, Satisfied
  <2>4. Known(s) \subseteq Known(r)
    BY <2>1 DEF IsReopened, Known, Absent
  <2>5. \A o \in Obligations : r.status[o] \in {Absent, "OPEN"} => r.support[o] = {}
    BY <2>1 DEF IsReopened, Consistent, Unsupported
  <2>6. Reduces(s, r)
    BY <1>2, <2>1, <2>2, <2>3, <2>4, <2>5 DEF IsReopened, Reduces, Consistent, Placed
  <2>7. QED
    BY <2>1, <2>3, <2>6 DEF IsReopened, r
<1>5. QED
  BY <1>3, <1>4

\* resolve_hypothesis stays in the scope or opens one that lies ahead of it.
LEMMA ScopeAhead ==
  ASSUME NEW s \in RCAStates, NEW kind \in Kinds, (kind = "INITIAL") = (~HasHypothesis(s)),
         Len(s.hypotheses) < MaxHypotheses,
         CurrentScope(s).id <= Len(s.hypotheses), CurrentScope(s).revision <= Len(s.hypotheses),
         NEW scope, scope = ResolvedScope(s, kind)
  PROVE  /\ scope \in Scope /\ Behind(CurrentScope(s), scope)
         /\ scope.id <= Len(s.hypotheses) + 1 /\ scope.revision <= Len(s.hypotheses) + 1
         /\ scope = [id |-> scope.id, revision |-> scope.revision]
         /\ kind = "KEEP_CURRENT" => scope = CurrentScope(s)
         /\ kind # "KEEP_CURRENT" => /\ ~Behind(scope, CurrentScope(s))
                                     /\ scope # CurrentScope(s)
         /\ \/ scope = CurrentScope(s)
            \/ scope.id = CurrentScope(s).id /\ scope.revision = CurrentScope(s).revision + 1
            \/ scope.id > CurrentScope(s).id /\ scope.revision = 1
<1> DEFINE c == CurrentScope(s)
           n == Len(s.hypotheses)
<1>1. /\ c.id \in Nat /\ c.revision \in Nat /\ n \in Nat
      /\ HasHypothesis(s) => c \in Scope
      /\ c = [id |-> c.id, revision |-> c.revision]
  BY CurrentType
<1> HIDE DEF c, n
<1>2. CASE kind = "KEEP_CURRENT"
  <2>1. scope = c /\ c \in Scope
    BY <1>1, <1>2 DEF ResolvedScope, c
  <2>2. QED
    BY <1>1, <1>2, <2>1 DEF c, n, Behind
<1>3. CASE kind = "REFINE"
  <2>1. c \in Scope
    BY <1>1, <1>3
  <2>2. scope = [c EXCEPT !.revision = c.revision + 1]
    BY <1>3 DEF ResolvedScope, c
  <2>3. scope = [id |-> c.id, revision |-> c.revision + 1]
    BY <1>1, <2>2
  <2>4. scope \in Scope
    BY <1>1, <2>1, <2>3, SemanticAssumption DEF Scope, c, n
  <2>5. QED
    BY <1>1, <1>3, <2>3, <2>4 DEF c, n, Behind
<1>4. CASE kind \in {"INITIAL", "REPLACE"}
  <2>1. scope = [id |-> n + 1, revision |-> 1]
    BY <1>4 DEF ResolvedScope, n
  <2>2. scope \in Scope
    BY <1>1, <2>1, SemanticAssumption DEF Scope, n
  <2>3. QED
    BY <1>1, <1>4, <2>1, <2>2 DEF c, n, Behind
<1>5. QED
  BY <1>2, <1>3, <1>4 DEF Kinds

-----------------------------------------------------------------------------
(* The steps of a transaction: opening it *)

LEMMA InvParts ==
  ASSUME IInv
  PROVE  /\ live \in Stores /\ staged \in Stores /\ turn \in Turns
         /\ live.rca \in RCAStates /\ staged.rca \in RCAStates
         /\ Consistent(live) /\ Consistent(staged) /\ Sound(live)
         /\ Placed(live) /\ Placed(staged) /\ Transaction(live, staged, turn)
BY StoreParts DEF IInv, Consistent

\* Until the hypothesis is rebuilt, a copy answers or reopens what was published.
LEMMA UnbuiltStaged == \A x \in ObligationStatus \cup {Absent} : Unbuilt(x) \subseteq Staged(x)
BY DEF Unbuilt, Staged, ObligationStatus, Absent

LEMMA InvalidatedUnbuilt ==
  ASSUME NEW lv, Consistent(lv), NEW kind, NEW o \in Obligations
  PROVE  Invalidated(lv.rca, kind).status[o] \in Unbuilt(lv.rca.status[o])
<1> DEFINE r == Invalidated(lv.rca, kind)
<1>1. lv.rca \in RCAStates /\ lv.rca.status \in Statuses
  BY StoreParts, RCAParts DEF Consistent
<1>2. kind # "KEEP_CURRENT" => IsReopened(lv.rca, r)
  BY <1>1, InvalidatedEffect
<1>3. kind = "KEEP_CURRENT" => r = lv.rca
  BY DEF Invalidated
<1> HIDE DEF r
<1>4. r.status[o] \in Unbuilt(lv.rca.status[o])
  BY <1>1, <1>2, <1>3 DEF IsReopened, Unbuilt, Statuses, ObligationStatus, Absent, Satisfied
<1>5. QED
  BY <1>4 DEF r

\* A transaction that has not reached its next hypothesis.
LEMMA BuildingStarts ==
  ASSUME NEW lv, Consistent(lv), NEW kind, NEW t,
         NEW st, st = [lv EXCEPT !.rca = Invalidated(lv.rca, kind)]
  PROVE  /\ Consistent(st) /\ Building(lv, st, t) /\ Grew(lv, st, t)
         /\ kind # "KEEP_CURRENT" => Satisfied(st.rca) = {}
         /\ st.facts = lv.facts /\ st.sets = lv.sets
<1> DEFINE r == Invalidated(lv.rca, kind)
<1>1. lv \in Stores /\ lv.rca \in RCAStates
  BY StoreParts DEF Consistent
<1>2. /\ Reduces(lv.rca, r) /\ r.hypotheses = lv.rca.hypotheses
      /\ kind # "KEEP_CURRENT" => Satisfied(r) = {}
  BY InvalidatedReduces
<1> HIDE DEF r
<1>5. st = [lv EXCEPT !.rca = r]
  BY DEF r
<1>6. Consistent(st)
  BY <1>2, <1>5, ReducedConsistent
<1>7. st.rca = r /\ st.facts = lv.facts /\ st.sets = lv.sets
  <2>1. r \in RCAStates
    BY <1>2 DEF Reduces
  <2>2. QED
    BY <1>1, <1>5, <2>1 DEF Stores
<1>8. \A o \in Obligations : st.rca.status[o] \in Unbuilt(lv.rca.status[o])
  BY <1>7, InvalidatedUnbuilt DEF r
<1>9. Answers(lv, st)
  BY <1>2, <1>7 DEF Reduces, Answers, AnsweredIn, Satisfied
<1>10. QED
  BY <1>2, <1>6, <1>7, <1>8, <1>9 DEF Building, Grew

LEMMA BeginPlannerInv ==
  ASSUME IInv, turn.pc = "idle", NEW kind \in Kinds, NEW D \in SUBSET Obligations,
         NEW c \in Citable(live.rca, live.facts), BeginPlanner(kind, D, c)
  PROVE  IInv'
<1> DEFINE pc == IF kind = "KEEP_CURRENT" THEN "evidence" ELSE "build"
           cited == IF kind = "KEEP_CURRENT" THEN Blocking(live.rca) ELSE {}
           scope == ResolvedScope(live.rca, kind)
<1>1. /\ TransitionAllowed(live.rca, kind, D)
      /\ staged' = [live EXCEPT !.rca = Invalidated(live.rca, kind)]
      /\ turn' = [Idle EXCEPT !.pc = pc, !.kind = kind, !.scope = scope, !.supersede = D,
                              !.contradictions = c, !.cited = cited]
      /\ captured' = captured /\ live' = live
  BY DEF BeginPlanner
<1>2. c \in Contradictions
  BY SemanticAssumption DEF Citable, Contradictions
<1>3. scope \in Scope
  BY <1>1, InvParts, ScopeAhead DEF TransitionAllowed, Placed
<1>4. cited \in SUBSET Evidence /\ (kind = "KEEP_CURRENT" => cited = Blocking(live.rca))
  BY DEF Blocking
<1>5. /\ pc \in {"evidence", "build"} /\ (pc = "evidence" => kind = "KEEP_CURRENT")
      /\ (pc = "build" => kind # "KEEP_CURRENT")
  OBVIOUS
<1> HIDE DEF pc, cited, scope
<1>6. /\ turn' \in Turns /\ turn'.pc = pc /\ turn'.kind = kind /\ turn'.scope = scope
      /\ turn'.supersede = D /\ turn'.cited = cited
  <2>1. turn' = [pc |-> pc, kind |-> kind, scope |-> scope, supersede |-> D,
                 contradictions |-> c, cited |-> cited, evidence |-> {}, proposals |-> 0,
                 rejected |-> FALSE]
    BY <1>1 DEF Idle
  <2>2. QED
    BY <1>2, <1>3, <1>4, <1>5, <2>1, SemanticAssumption DEF Turns, Contradictions
<1>7. Opened(live, turn')
  BY <1>1, <1>6 DEF Opened, TransitionAllowed, scope
<1>8. /\ Consistent(staged') /\ Building(live, staged', turn') /\ Grew(live, staged', turn')
      /\ kind # "KEEP_CURRENT" => Satisfied(staged'.rca) = {}
      /\ staged'.facts = live.facts
  BY <1>1, InvParts, BuildingStarts
<1>9. Phase(live, staged', turn')
  BY <1>4, <1>5, <1>6, <1>8 DEF Phase
<1>10. Transaction(live, staged', turn')
  BY <1>5, <1>6, <1>7, <1>8, <1>9 DEF Transaction
<1>11. QED
  BY <1>1, <1>6, <1>8, <1>10, InvParts DEF IInv

\* A copy with one more hypothesis, in the scope of the turn.
IsNext(lv, t, r) ==
  /\ HasHypothesis(r) /\ Len(r.hypotheses) = Len(lv.rca.hypotheses) + 1
  /\ CurrentScope(r) = t.scope
  /\ CurrentScope(r).id <= Len(r.hypotheses) /\ CurrentScope(r).revision <= Len(r.hypotheses)
  /\ Behind(CurrentScope(lv.rca), CurrentScope(r))

LEMMA AppendedPlaced ==
  ASSUME NEW lv, NEW t, Consistent(lv), Opened(lv, t),
         NEW r \in RCAStates, NEW h \in Hypothesis, r.hypotheses = Append(lv.rca.hypotheses, h),
         h.id = t.scope.id, h.revision = t.scope.revision
  PROVE  IsNext(lv, t, r)
<1>1. lv \in Stores /\ lv.rca \in RCAStates /\ Placed(lv)
  BY StoreParts DEF Consistent
<1>2. /\ t.scope.id <= Len(lv.rca.hypotheses) + 1 /\ t.scope.revision <= Len(lv.rca.hypotheses) + 1
      /\ Behind(CurrentScope(lv.rca), t.scope)
      /\ t.scope = [id |-> t.scope.id, revision |-> t.scope.revision]
  BY <1>1, ScopeAhead DEF Opened, Placed
<1>3. /\ HasHypothesis(r) /\ Len(r.hypotheses) = Len(lv.rca.hypotheses) + 1
      /\ CurrentScope(r) = [id |-> h.id, revision |-> h.revision]
  BY <1>1, Appended
<1>4. QED
  BY <1>2, <1>3 DEF IsNext

\* The delta of a Reflection over an invalidated copy s.
DeltaOf(s, new, m, h) ==
  [s EXCEPT !.status = [o \in Obligations |-> IF o \in new THEN "OPEN" ELSE @[o]],
            !.contradictions = m, !.hypotheses = Append(@, h),
            !.event_count = @ + Cardinality(new) + 2]

IsDelta(s, new, m, h, r) ==
  /\ r \in RCAStates /\ r.evidence = s.evidence /\ r.support = s.support
  /\ r.contradictions = m /\ r.hypotheses = Append(s.hypotheses, h)
  /\ \A o \in Obligations : r.status[o] = IF o \in new THEN "OPEN" ELSE s.status[o]

LEMMA DeltaEffect ==
  ASSUME NEW s \in RCAStates, NEW new \in SUBSET Obligations, NEW m \in Contradictions,
         NEW h \in Hypothesis
  PROVE  IsDelta(s, new, m, h, DeltaOf(s, new, m, h))
<1> DEFINE r == DeltaOf(s, new, m, h)
           a == [o \in Obligations |-> IF o \in new THEN "OPEN" ELSE s.status[o]]
           H == Append(s.hypotheses, h)
           n == s.event_count + Cardinality(new) + 2
<1>1. n \in Nat
  BY SatisfiedFinite, RCAParts
<1>2. a \in Statuses /\ H \in Seq(Hypothesis)
  BY RCAParts DEF Statuses, ObligationStatus
<1>3. \A o \in Obligations : a[o] = IF o \in new THEN "OPEN" ELSE s.status[o]
  OBVIOUS
<1>4. r = [s EXCEPT !.status = a, !.contradictions = m, !.hypotheses = H, !.event_count = n]
  BY DEF DeltaOf
<1>5. H = Append(s.hypotheses, h)
  OBVIOUS
<1> HIDE DEF a, H, n, r
<1>6. /\ r \in RCAStates /\ r.evidence = s.evidence /\ r.support = s.support
      /\ r.contradictions = m /\ r.hypotheses = H /\ r.status = a
  BY <1>1, <1>2, <1>4 DEF RCAStates, Statuses, Contradictions
<1>7. QED
  BY <1>3, <1>5, <1>6 DEF IsDelta, r

\* Fewer contradictory relationships are undecided, and none is in scope at all when
\* the scope is a new one.
LEMMA FreshSound ==
  ASSUME NEW st, HasHypothesis(st.rca), InScope(st.facts, CurrentScope(st.rca)) = {}
  PROVE  Sound(st)
BY DEF Sound, Recorded, Settled, Contradicting, FactsOf

LEMMA NothingAhead ==
  ASSUME NEW lv, Placed(lv), NEW scope, ~Behind(scope, CurrentScope(lv.rca))
  PROVE  InScope(lv.facts, scope) = {}
BY DEF Placed, InScope

\* Feedback that repeats the diagnosis keeps the copy as the invalidation left it.
LEMMA NoDeltaInv ==
  ASSUME IInv, NEW kind \in Kinds, NEW scope, NEW new, NEW merged, NEW material, NEW t,
         HasHypothesis(live.rca), kind # "KEEP_CURRENT" => scope.revision = 1 \/ kind = "REFINE",
         kind = "REFINE" => scope.revision # CurrentScope(live.rca).revision,
         NoDelta(live.rca, Invalidated(live.rca, kind), scope, new, merged, material),
         NEW st, st = [live EXCEPT !.rca = Invalidated(live.rca, kind)]
  PROVE  Repeated(live, st) /\ Sound(st) /\ Kept(live, st, t)
<1> DEFINE r == Invalidated(live.rca, kind)
<1>1. /\ live \in Stores /\ live.rca \in RCAStates /\ Consistent(live) /\ Sound(live)
      /\ Contradicted(live.rca) = Contradicted(r)
  BY InvParts DEF NoDelta
<1>2. Reduces(live.rca, r) /\ r.hypotheses = live.rca.hypotheses
  BY <1>1, InvalidatedReduces
<1>3. kind # "KEEP_CURRENT" => IsReopened(live.rca, r) /\ Contradicted(r) = {}
  BY <1>1, InvalidatedEffect
<1>4. kind = "KEEP_CURRENT" => r = live.rca
  BY DEF Invalidated
<1> HIDE DEF r
<1>5. st.rca = r /\ st.facts = live.facts /\ st.sets = live.sets /\ st \in Stores
  <2>1. r \in RCAStates /\ st = [live EXCEPT !.rca = r]
    BY <1>2 DEF Reduces, r
  <2>2. QED
    BY <1>1, <2>1 DEF Stores
<1>6. \A o \in Obligations :
       \/ st.rca.status[o] = live.rca.status[o] /\ st.rca.support[o] = live.rca.support[o]
       \/ live.rca.status[o] = "SATISFIED" /\ st.rca.status[o] = "OPEN" /\ st.rca.support[o] = {}
  BY <1>3, <1>4, <1>5 DEF IsReopened, Satisfied
<1>7. CurrentScope(st.rca) = CurrentScope(live.rca)
  BY <1>2, <1>5 DEF CurrentScope, Current, HasHypothesis
<1>8. kind # "KEEP_CURRENT" => Decided(live.rca) = {} /\ Blocking(live.rca) = {}
  BY <1>1, <1>3 DEF Decided, Blocking, Contradicted, OpenBlocking, NoContradiction, Absent
<1>9. Decided(live.rca) \subseteq Decided(st.rca) /\ Blocking(live.rca) \subseteq Blocking(st.rca)
  BY <1>4, <1>5, <1>8
<1>10. Sound(st)
  BY <1>1, <1>5, <1>7, <1>9, SoundStays
<1>11. QED
  BY <1>2, <1>5, <1>6, <1>9, <1>10 DEF Repeated, Kept

\* A delta that adds to the diagnosis appends one hypothesis without support.
IsRebuilt(lv, s, m, st, t) ==
  /\ Consistent(st) /\ Grew(lv, st, t) /\ Rebuilt(lv, st, t)
  /\ Kept(lv, st, t)
  /\ (\A e \in Decided(s) : m[e].status = s.contradictions[e].status) => Sound(st)

LEMMA DeltaInv ==
  ASSUME IInv, NEW t \in Turns, Opened(live, t), HasHypothesis(live.rca),
         NEW new \in SUBSET Obligations, new \cap Known(live.rca) = {},
         NEW s, s = Invalidated(live.rca, t.kind),
         NEW m \in Contradictions,
         \A e \in Evidence : m[e] = IF t.contradictions[e] # NoContradiction
                                    THEN t.contradictions[e] ELSE s.contradictions[e],
         NEW h, h = [id |-> t.scope.id, revision |-> t.scope.revision, support |-> {}],
         NEW r, r = DeltaOf(s, new, m, h),
         NEW st, st = [live EXCEPT !.rca = r]
  PROVE  IsRebuilt(live, s, m, st, t)
<1>1. live \in Stores /\ live.rca \in RCAStates /\ Consistent(live) /\ Sound(live) /\ Placed(live)
  BY InvParts
<1>2. /\ t.scope \in Scope
      /\ t.kind = "KEEP_CURRENT" => t.scope = CurrentScope(live.rca)
      /\ t.kind # "KEEP_CURRENT" => /\ ~Behind(t.scope, CurrentScope(live.rca))
                                    /\ t.scope # CurrentScope(live.rca)
  BY <1>1, ScopeAhead DEF Opened, Placed
<1>3. h \in Hypothesis /\ h.id = t.scope.id /\ h.revision = t.scope.revision
  BY <1>2 DEF Scope, Hypothesis
<1>4. /\ Reduces(live.rca, s) /\ s.hypotheses = live.rca.hypotheses
      /\ t.kind # "KEEP_CURRENT" => Satisfied(s) = {}
  BY <1>1, InvalidatedReduces
<1>5. t.kind = "KEEP_CURRENT" => s = live.rca
  BY DEF Invalidated
<1>6. s \in RCAStates
  BY <1>4 DEF Reduces
<1>8. /\ r \in RCAStates /\ r.evidence = s.evidence /\ r.support = s.support
      /\ r.contradictions = m /\ r.hypotheses = Append(s.hypotheses, h)
      /\ \A o \in Obligations : r.status[o] = IF o \in new THEN "OPEN" ELSE s.status[o]
  <2>1. IsDelta(s, new, m, h, r)
    BY <1>3, <1>6, DeltaEffect
  <2>2. QED
    BY <2>1 DEF IsDelta
<1>7. r.hypotheses = Append(live.rca.hypotheses, h)
  BY <1>4, <1>8
<1>9. /\ HasHypothesis(r) /\ Len(r.hypotheses) = Len(live.rca.hypotheses) + 1
      /\ CurrentScope(r) = t.scope
      /\ CurrentScope(r).id <= Len(r.hypotheses) /\ CurrentScope(r).revision <= Len(r.hypotheses)
      /\ Behind(CurrentScope(live.rca), CurrentScope(r))
  <2>1. IsNext(live, t, r)
    BY <1>1, <1>3, <1>7, <1>8, AppendedPlaced
  <2>2. QED
    BY <2>1 DEF IsNext
<1>10. st.rca = r /\ st.facts = live.facts /\ st.sets = live.sets /\ st \in Stores
  BY <1>1, <1>8 DEF Stores
<1>11. \A o \in Satisfied(r) : /\ CurrentScope(r) = CurrentScope(live.rca)
                               /\ o \in Satisfied(live.rca) /\ r.support[o] = live.rca.support[o]
  <2> TAKE o \in Satisfied(r)
  <2>1. o \in Satisfied(s) /\ r.support[o] = s.support[o]
    BY <1>8 DEF Satisfied
  <2>2. QED
    BY <1>2, <1>4, <1>5, <1>9, <2>1
<1>12. \A o \in Obligations : s.status[o] \in Unbuilt(live.rca.status[o])
  BY <1>1, InvalidatedUnbuilt
<1>13. \A o \in Obligations : r.status[o] \in Staged(live.rca.status[o])
  <2>1. live.rca.status \in Statuses
    BY <1>1, RCAParts
  <2>2. QED
    <3>1. ASSUME NEW o \in new PROVE r.status[o] \in Staged(live.rca.status[o])
      BY <1>8 DEF Known, Staged, Absent
    <3>2. ASSUME NEW o \in Obligations \ new PROVE r.status[o] \in Staged(live.rca.status[o])
      BY <1>8, <1>12, <2>1, UnbuiltStaged DEF Statuses
    <3>3. QED
      BY <3>1, <3>2
<1>14. \A o \in Obligations : r.status[o] \in {Absent, "OPEN"} => r.support[o] = {}
  <2> SUFFICES ASSUME NEW o \in Obligations, r.status[o] \in {Absent, "OPEN"}
               PROVE  r.support[o] = {}
    OBVIOUS
  <2>1. CASE o \in new
    <3>1. live.rca.status[o] = Absent
      BY <2>1 DEF Known
    <3>2. s.status[o] = Absent
      BY <1>12, <3>1 DEF Unbuilt, Absent
    <3>3. QED
      BY <1>4, <1>8, <3>2 DEF Reduces
  <2>2. CASE o \notin new
    BY <1>4, <1>8, <2>2 DEF Reduces
  <2>3. QED
    BY <2>1, <2>2
<1>15. Known(live.rca) \subseteq Known(r)
  BY <1>4, <1>8 DEF Reduces, Known, Absent
<1>16. Reduces(live.rca, r)
  BY <1>4, <1>8, <1>9, <1>11, <1>14, <1>15 DEF Reduces
<1>17. Consistent(st)
  BY <1>1, <1>16, ReducedConsistent
<1>18. Rebuilt(live, st, t) /\ Grew(live, st, t)
  BY <1>9, <1>10, <1>11, <1>13 DEF Rebuilt, Answers, AnsweredIn, Satisfied, Grew
<1>19. Kept(live, st, t)
  <2>1. CASE t.kind = "KEEP_CURRENT"
    <3>1. \A e \in Evidence : t.contradictions[e] = NoContradiction =>
            r.contradictions[e] = live.rca.contradictions[e]
      BY <1>5, <1>8, <2>1
    <3>2. QED
      BY <1>10, <3>1 DEF Kept, Blocking
  <2>2. CASE t.kind # "KEEP_CURRENT"
    BY <1>2, <1>9, <1>10, <2>2 DEF Kept
  <2>3. QED
    BY <2>1, <2>2
<1>20. ASSUME \A e \in Decided(s) : m[e].status = s.contradictions[e].status
       PROVE  Sound(st)
  <2>1. CASE t.kind = "KEEP_CURRENT"
    <3>1. Contradicted(live.rca) \subseteq Contradicted(r) /\ Decided(live.rca) \subseteq Decided(r)
      <4>1. \A e \in Evidence :
              \/ r.contradictions[e] = live.rca.contradictions[e]
              \/ r.contradictions[e] # NoContradiction
        BY <1>5, <1>8, <2>1
      <4>2. Contradicted(live.rca) \subseteq Contradicted(r)
        BY <4>1 DEF Contradicted
      <4>3. \A e \in Decided(live.rca) :
              r.contradictions[e].status = live.rca.contradictions[e].status
        BY <1>5, <1>8, <1>20, <2>1
      <4>4. Decided(live.rca) \subseteq Decided(r)
        BY <4>3 DEF Decided
      <4>5. QED
        BY <4>2, <4>4
    <3>2. QED
      BY <1>1, <1>2, <1>9, <1>10, <2>1, <3>1, SoundStays
  <2>2. CASE t.kind # "KEEP_CURRENT"
    <3>1. InScope(st.facts, CurrentScope(st.rca)) = {}
      BY <1>1, <1>2, <1>9, <1>10, <2>2, NothingAhead
    <3>2. QED
      BY <1>9, <1>10, <3>1, FreshSound
  <2>3. QED
    BY <2>1, <2>2
<1>21. QED
  BY <1>17, <1>18, <1>19, <1>20 DEF IsRebuilt

LEMMA StageReflectionInv ==
  ASSUME IInv, turn.pc = "idle", NEW kind \in Kinds, NEW D \in SUBSET Obligations,
         NEW new \in SUBSET Obligations, NEW c \in Citable(live.rca, live.facts),
         NEW material \in BOOLEAN, StageReflection(kind, D, new, c, material)
  PROVE  IInv'
<1> DEFINE s == Invalidated(live.rca, kind)
           scope == ResolvedScope(live.rca, kind)
           m == [e \in Evidence |-> IF c[e] # NoContradiction THEN c[e] ELSE s.contradictions[e]]
           illegal == \E e \in Decided(s) : m[e].status # s.contradictions[e].status
           h == [id |-> scope.id, revision |-> scope.revision, support |-> {}]
           r == DeltaOf(s, new, m, h)
           none == NoDelta(live.rca, s, scope, new, m, material)
<1>1. /\ HasHypothesis(live.rca) /\ TransitionAllowed(live.rca, kind, D)
      /\ new \cap Known(live.rca) = {}
      /\ staged' = [live EXCEPT !.rca = IF illegal \/ none THEN s ELSE r]
      /\ turn' = [Idle EXCEPT !.pc = "publish", !.kind = kind, !.scope = scope, !.supersede = D,
                              !.contradictions = c, !.rejected = illegal]
      /\ captured' = captured /\ live' = live
  BY DEF StageReflection, DeltaOf
<1>2. /\ live \in Stores /\ live.rca \in RCAStates /\ Consistent(live) /\ Sound(live) /\ Placed(live)
  BY InvParts
<1>3. c \in Contradictions
  BY SemanticAssumption DEF Citable, Contradictions
<1>4. /\ scope \in Scope
      /\ scope = [id |-> scope.id, revision |-> scope.revision]
  BY <1>1, <1>2, ScopeAhead DEF TransitionAllowed, Placed
<1>5. s \in RCAStates
  BY <1>2, InvalidatedReduces DEF Reduces
<1>6. m \in Contradictions /\ \A e \in Evidence :
        m[e] = IF c[e] # NoContradiction THEN c[e] ELSE s.contradictions[e]
  BY <1>3, <1>5, RCAParts DEF Contradictions
<1>7. illegal \in BOOLEAN
  OBVIOUS
<1>8. ~illegal => \A e \in Decided(s) : m[e].status = s.contradictions[e].status
  OBVIOUS
<1>9. kind = "REFINE" => scope.revision # CurrentScope(live.rca).revision
  BY <1>2, CurrentType DEF ResolvedScope
<1>10. kind # "KEEP_CURRENT" => scope.revision = 1 \/ kind = "REFINE"
  BY DEF ResolvedScope, Kinds
<1> HIDE DEF illegal, scope, m
<1>11. /\ turn' \in Turns /\ turn'.pc = "publish" /\ turn'.kind = kind /\ turn'.scope = scope
       /\ turn'.supersede = D /\ turn'.contradictions = c /\ turn'.rejected = illegal
  <2>1. turn' = [pc |-> "publish", kind |-> kind, scope |-> scope, supersede |-> D,
                 contradictions |-> c, cited |-> {}, evidence |-> {}, proposals |-> 0,
                 rejected |-> illegal]
    BY <1>1 DEF Idle
  <2>2. QED
    BY <1>3, <1>4, <1>7, <2>1, SemanticAssumption DEF Turns, Contradictions
<1>12. Opened(live, turn')
  BY <1>1, <1>11 DEF Opened, TransitionAllowed, scope
<1> SUFFICES /\ Consistent(staged') /\ Grew(live, staged', turn')
             /\ ~illegal => /\ Repeated(live, staged') \/ Rebuilt(live, staged', turn')
                            /\ Sound(staged') /\ Kept(live, staged', turn')
  BY <1>1, <1>2, <1>11, <1>12, InvParts DEF IInv, Transaction, Phase
<1>13. CASE illegal \/ none
  <2>1. staged' = [live EXCEPT !.rca = s]
    BY <1>1, <1>13
  <2>2. Consistent(staged') /\ Grew(live, staged', turn')
    BY <1>2, <2>1, BuildingStarts
  <2>3. ASSUME none
        PROVE  Repeated(live, staged') /\ Sound(staged') /\ Kept(live, staged', turn')
    BY <1>1, <1>9, <1>10, <2>1, <2>3, NoDeltaInv
  <2>4. QED
    BY <1>13, <2>2, <2>3
<1>14. CASE ~(illegal \/ none)
  <2> HIDE DEF none
  <2>1. staged' = [live EXCEPT !.rca = r]
    BY <1>1, <1>14
  <2>2. h = [id |-> turn'.scope.id, revision |-> turn'.scope.revision, support |-> {}]
    BY <1>11
  <2>3. s = Invalidated(live.rca, turn'.kind)
    BY <1>11
  <2>4. \A e \in Evidence : m[e] = IF turn'.contradictions[e] # NoContradiction
                                   THEN turn'.contradictions[e] ELSE s.contradictions[e]
    BY <1>6, <1>11
  <2> HIDE DEF s, h
  <2> DEFINE t == turn'
             st == staged'
  <2>5. t \in Turns /\ Opened(live, t)
    BY <1>11, <1>12
  <2>6. st = [live EXCEPT !.rca = r]
    BY <2>1
  <2> HIDE DEF t, st
  <2>7. IsRebuilt(live, s, m, st, t)
    BY <1>1, <1>6, <2>2, <2>3, <2>4, <2>5, <2>6, DeltaInv DEF t
  <2>8. QED
    BY <1>8, <2>7 DEF IsRebuilt, t, st
<1>15. QED
  BY <1>13, <1>14

-----------------------------------------------------------------------------
(* The steps of a transaction: staging *)

\* What qualification carries over from the copy it starts from.
IsCarried(lv, w, q, t) ==
  /\ q.rca.hypotheses = w.rca.hypotheses /\ q.facts = w.facts
  /\ CurrentScope(q.rca) = CurrentScope(w.rca)
  /\ (\A o \in Obligations : w.rca.status[o] \in Unbuilt(lv.rca.status[o])) =>
       \A o \in Obligations : q.rca.status[o] \in Unbuilt(lv.rca.status[o])
  /\ (\A o \in Obligations : w.rca.status[o] \in Staged(lv.rca.status[o])) =>
       \A o \in Obligations : q.rca.status[o] \in Staged(lv.rca.status[o])
  /\ Answers(lv, w) => Answers(lv, q)
  /\ Kept(lv, w, t) => Kept(lv, q, t)

LEMMA QualifiedCarries ==
  ASSUME NEW lv \in Stores, NEW w \in Stores, NEW O \in SUBSET Obligations, NEW scope \in Scope,
         scope = CurrentScope(w.rca), NEW q, q = Qualified(w, O, scope), NEW t
  PROVE  IsCarried(lv, w, q, t)
<1>1. IsQualified(w, O, scope, q) /\ ContradictionsKept(w, O, scope, q)
  BY QualifiedEffect, QualifiedContradictions
<1>2. q.rca.hypotheses = w.rca.hypotheses /\ q.facts = w.facts
  BY <1>1 DEF IsQualified
<1>3. CurrentScope(q.rca) = CurrentScope(w.rca)
  BY <1>2 DEF CurrentScope, Current, HasHypothesis
<1>4. \A o \in Obligations :
        IF o \in Closing(w, O, scope)
        THEN q.rca.status[o] = "SATISFIED" /\ q.rca.support[o] = SupportFor(w, o, scope)
        ELSE q.rca.status[o] = w.rca.status[o] /\ q.rca.support[o] = w.rca.support[o]
  BY <1>1 DEF IsQualified
<1>5. \A o \in Closing(w, O, scope) : w.rca.status[o] = "OPEN" /\ o \in Obligations
  BY DEF Closing
<1>6. \A x \in ObligationStatus \cup {Absent} :
        /\ "OPEN" \in Unbuilt(x) => "SATISFIED" \in Unbuilt(x)
        /\ "OPEN" \in Staged(x) => "SATISFIED" \in Staged(x)
  BY DEF ObligationStatus, Absent, Unbuilt, Staged
<1>7. \A o \in Obligations : lv.rca.status[o] \in ObligationStatus \cup {Absent}
  BY StoreParts, RCAParts DEF Statuses
<1>8. (\A o \in Obligations : w.rca.status[o] \in Unbuilt(lv.rca.status[o])) =>
        \A o \in Obligations : q.rca.status[o] \in Unbuilt(lv.rca.status[o])
  BY <1>4, <1>5, <1>6, <1>7
<1>9. (\A o \in Obligations : w.rca.status[o] \in Staged(lv.rca.status[o])) =>
        \A o \in Obligations : q.rca.status[o] \in Staged(lv.rca.status[o])
  BY <1>4, <1>5, <1>6, <1>7
<1>10. ASSUME Answers(lv, w), NEW o \in Satisfied(q.rca)
       PROVE  AnsweredIn(lv, q, o)
  <2>1. o \in Obligations /\ FactsOf(q, o, scope) = FactsOf(w, o, scope)
    BY <1>2 DEF Satisfied, FactsOf
  <2>2. CASE o \in Closing(w, O, scope)
    <3>1. q.rca.support[o] = SupportFor(w, o, scope)
      BY <1>4, <2>1, <2>2
    <3>2. /\ SupportFor(w, o, scope) # {}
          /\ \A e \in SupportFor(w, o, scope) : \E f \in FactsOf(w, o, scope) : f.evidence = e
      <4>1. IsCovered(w, scope, o)
        BY <2>2, ClosingCovered
      <4>2. QED
        BY <4>1 DEF IsCovered
    <3>3. QED
      BY <1>3, <2>1, <3>1, <3>2 DEF AnsweredIn
  <2>3. CASE o \notin Closing(w, O, scope)
    <3>1. q.rca.support[o] = w.rca.support[o] /\ o \in Satisfied(w.rca)
      BY <1>4, <2>1, <2>3 DEF Satisfied
    <3>2. AnsweredIn(lv, w, o)
      BY <1>10, <3>1 DEF Answers
    <3>3. QED
      BY <1>3, <2>1, <3>1, <3>2 DEF AnsweredIn
  <2>4. QED
    BY <2>2, <2>3
<1>11. Kept(lv, w, t) => Kept(lv, q, t)
  BY <1>1, <1>3 DEF ContradictionsKept, Kept
<1>12. QED
  BY <1>2, <1>3, <1>8, <1>9, <1>10, <1>11 DEF IsCarried, Answers

\* The scope proposals are admitted in is that of the copy's current hypothesis.
LEMMA AdmissionScope ==
  ASSUME IInv, turn.pc \in {"evidence", "proposed"}
  PROVE  /\ HasHypothesis(staged.rca) /\ turn.scope = CurrentScope(staged.rca)
         /\ turn.scope \in Scope
         /\ Known(live.rca) \subseteq Known(staged.rca)
<1>1. /\ live \in Stores /\ live.rca \in RCAStates /\ staged.rca \in RCAStates
      /\ Placed(live) /\ Transaction(live, staged, turn)
  BY InvParts
<1>2. Opened(live, turn) /\ Phase(live, staged, turn)
  BY <1>1 DEF Transaction
<1>3. turn.scope \in Scope /\ (turn.kind = "KEEP_CURRENT" => turn.scope = CurrentScope(live.rca))
  BY <1>1, <1>2, ScopeAhead DEF Opened, Placed
<1>4. \A o \in Obligations : staged.rca.status[o] \in Staged(live.rca.status[o])
  <2>1. live.rca.status \in Statuses
    BY <1>1, RCAParts
  <2>2. CASE turn.pc = "evidence"
    BY <1>2, <2>1, <2>2, UnbuiltStaged DEF Phase, Building, Statuses
  <2>3. CASE turn.pc = "proposed"
    BY <1>2, <2>3 DEF Phase, Rebuilt
  <2>4. QED
    BY <2>2, <2>3
<1>5. Known(live.rca) \subseteq Known(staged.rca)
  <2>1. \A o \in Obligations : live.rca.status[o] \in ObligationStatus \cup {Absent}
    BY <1>1, RCAParts DEF Statuses
  <2>2. \A x \in ObligationStatus \cup {Absent} : x # Absent => Absent \notin Staged(x)
    BY DEF ObligationStatus, Absent, Staged
  <2>3. QED
    BY <1>4, <2>1, <2>2 DEF Known
<1>6. CASE turn.pc = "evidence"
  <2>1. staged.rca.hypotheses = live.rca.hypotheses /\ turn.kind = "KEEP_CURRENT"
    BY <1>2, <1>6 DEF Phase, Building
  <2>2. HasHypothesis(live.rca)
    BY <1>2, <2>1 DEF Opened
  <2>3. QED
    BY <1>3, <1>5, <2>1, <2>2 DEF CurrentScope, Current, HasHypothesis
<1>7. CASE turn.pc = "proposed"
  BY <1>2, <1>3, <1>5, <1>7 DEF Phase, Rebuilt
<1>8. QED
  BY <1>6, <1>7

LEMMA AdmitEvidenceInv ==
  ASSUME IInv, NEW e \in Evidence, NEW o \in Obligations, NEW i \in Interpretations,
         AdmitEvidence(e, o, i)
  PROVE  IInv'
<1> DEFINE f == [evidence |-> e, obligation |-> o, scope |-> turn.scope,
                 relation |-> i.relation, hypothesis_relation |-> i.hypothesis_relation,
                 covers |-> i.covers]
           w == [staged EXCEPT !.facts = @ \cup {f}, !.pinned = @ \cup {e}]
<1>1. /\ turn.pc \in {"evidence", "proposed"} /\ turn.proposals < MaxProposals
      /\ o \in Known(live.rca)
      /\ staged' = Qualified(w, {o}, turn.scope)
      /\ turn' = [turn EXCEPT !.proposals = @ + 1, !.evidence = @ \cup {e}]
      /\ captured' = captured /\ live' = live
  BY DEF AdmitEvidence
<1>2. /\ live \in Stores /\ staged \in Stores /\ turn \in Turns /\ Consistent(staged)
      /\ Consistent(live) /\ Sound(live) /\ Transaction(live, staged, turn)
  BY InvParts
<1>3. /\ HasHypothesis(staged.rca) /\ turn.scope = CurrentScope(staged.rca)
      /\ turn.scope \in Scope /\ o \in Known(staged.rca)
  BY <1>1, AdmissionScope
<1>4. f \in Fact /\ f.evidence = e /\ f.scope = turn.scope /\ f.obligation = o
  BY <1>3, SemanticAssumption DEF Fact, Interpretation
<1> HIDE DEF f
<1>5. w = [staged EXCEPT !.facts = @ \cup {f}, !.pinned = @ \cup {f.evidence}]
  BY <1>4
<1> HIDE DEF w
<1>6. /\ w \in Stores /\ w.rca = staged.rca /\ w.facts = staged.facts \cup {f}
      /\ Placed(w) /\ Earned(w) /\ Unsupported(w) /\ w.pinned = Related(w)
      /\ w.rca.evidence \cup Linked(w, {o}, turn.scope) = w.pinned
  <2>1. IsAdmitted(staged, f, w)
    BY <1>2, <1>3, <1>4, <1>5, Admitted
  <2>2. QED
    BY <1>4, <2>1 DEF IsAdmitted
<1>7. Consistent(staged')
  <2>1. HasHypothesis(w.rca) /\ turn.scope = CurrentScope(w.rca)
    BY <1>3, <1>6
  <2>2. Consistent(Qualified(w, {o}, turn.scope))
    BY <1>3, <1>6, <2>1, QualifiedConsistent
  <2>3. QED
    BY <1>1, <2>2
<1>8. IsCarried(live, w, staged', turn)
  BY <1>1, <1>2, <1>3, <1>6, QualifiedCarries
<1>9. /\ turn' \in Turns /\ turn'.pc = turn.pc /\ turn'.kind = turn.kind
      /\ turn'.scope = turn.scope /\ turn'.supersede = turn.supersede
      /\ turn'.contradictions = turn.contradictions /\ turn'.cited = turn.cited
      /\ turn'.rejected = turn.rejected
  <2> DEFINE n == turn.proposals + 1
             E == turn.evidence \cup {e}
  <2>1. n \in 0..MaxProposals /\ E \in SUBSET Evidence
    BY <1>1, <1>2, SemanticAssumption DEF Turns
  <2>2. turn' = [turn EXCEPT !.proposals = n, !.evidence = E]
    BY <1>1
  <2> HIDE DEF n, E
  <2>3. QED
    BY <1>2, <2>1, <2>2 DEF Turns
<1>10. Opened(live, turn') /\ Grew(live, staged', turn')
  BY <1>1, <1>2, <1>4, <1>6, <1>8, <1>9 DEF Transaction, Opened, Grew, IsCarried
<1>11. Answers(live, staged) => Answers(live, w)
  <2>1. \A p \in Obligations : FactsOf(staged, p, turn.scope) \subseteq FactsOf(w, p, turn.scope)
    BY <1>6 DEF FactsOf, InScope
  <2>2. QED
    BY <1>3, <1>6, <2>1 DEF Answers, AnsweredIn, Satisfied
<1>12. Phase(live, staged, turn)
  BY <1>1, <1>2 DEF Transaction
<1>13. ASSUME turn.pc = "evidence" PROVE Phase(live, staged', turn')
  <2>1. Building(live, staged, turn) /\ turn.kind = "KEEP_CURRENT" /\ turn.cited = Blocking(live.rca)
    BY <1>12, <1>13 DEF Phase
  <2>2. Building(live, w, turn)
    BY <1>6, <1>11, <2>1 DEF Building
  <2>3. Building(live, staged', turn')
    BY <1>8, <2>2 DEF Building, IsCarried
  <2>4. QED
    BY <1>9, <1>13, <2>1, <2>3 DEF Phase
<1>14. ASSUME turn.pc = "proposed" PROVE Phase(live, staged', turn')
  <2>1. Rebuilt(live, staged, turn) /\ (~turn.rejected => Kept(live, staged, turn))
    BY <1>12, <1>14 DEF Phase
  <2>2. Rebuilt(live, w, turn) /\ (~turn.rejected => Kept(live, w, turn))
    BY <1>6, <1>11, <2>1 DEF Rebuilt, Kept
  <2>3. Rebuilt(live, staged', turn') /\ (~turn.rejected => Kept(live, staged', turn))
    BY <1>8, <1>9, <2>2 DEF Rebuilt, IsCarried, HasHypothesis
  <2>4. ~turn.rejected => Kept(live, staged', turn')
    BY <1>9, <2>3 DEF Kept
  <2>5. QED
    BY <1>9, <1>14, <2>3, <2>4 DEF Phase
<1>15. QED
  BY <1>1, <1>2, <1>7, <1>9, <1>10, <1>13, <1>14 DEF IInv, Transaction

LEMMA RejectProposalInv ==
  ASSUME IInv, RejectProposal
  PROVE  IInv'
<1>1. /\ turn.pc \in {"evidence", "build", "proposed"} /\ turn' = [turn EXCEPT !.rejected = TRUE]
      /\ captured' = captured /\ live' = live /\ staged' = staged
  BY DEF RejectProposal
<1>2. turn \in Turns /\ Transaction(live, staged, turn)
  BY InvParts
<1>3. /\ turn' \in Turns /\ turn'.pc = turn.pc /\ turn'.kind = turn.kind
      /\ turn'.scope = turn.scope /\ turn'.supersede = turn.supersede
      /\ turn'.cited = turn.cited /\ turn'.rejected
  BY <1>1, <1>2 DEF Turns
<1>4. Opened(live, turn) /\ Grew(live, staged, turn) /\ Phase(live, staged, turn)
  BY <1>1, <1>2 DEF Transaction
<1>5. Opened(live, turn') /\ Grew(live, staged, turn')
  BY <1>3, <1>4 DEF Opened, Grew
<1>6. Phase(live, staged, turn')
  BY <1>1, <1>3, <1>4 DEF Phase, Building, Rebuilt
<1>7. QED
  BY <1>1, <1>3, <1>5, <1>6 DEF IInv, Transaction

\* The journal entry that ends a decision changes nothing an answer rests on.
Journalled(q, w) ==
  /\ w \in Stores /\ w.pinned = q.pinned /\ w.facts = q.facts /\ w.sets = q.sets
  /\ w.rca.status = q.rca.status /\ w.rca.support = q.rca.support
  /\ w.rca.evidence = q.rca.evidence /\ w.rca.contradictions = q.rca.contradictions
  /\ w.rca.hypotheses = q.rca.hypotheses

LEMMA JournalEffect ==
  ASSUME NEW q \in Stores, NEW E \in SUBSET Evidence
  PROVE  Journalled(q, [q EXCEPT !.rca = AddSemanticRecord(@, E)])
<1> DEFINE r == AddSemanticRecord(q.rca, E)
           R == Append(q.rca.records, E)
           n == q.rca.event_count + 1
<1>1. q.rca \in RCAStates /\ R \in Seq(SUBSET Evidence) /\ n \in Nat
  BY StoreParts, RCAParts
<1>2. r = [q.rca EXCEPT !.records = R, !.event_count = n]
  BY DEF AddSemanticRecord
<1>3. [q EXCEPT !.rca = AddSemanticRecord(@, E)] = [q EXCEPT !.rca = r]
  OBVIOUS
<1> HIDE DEF R, n, r
<1>4. /\ r \in RCAStates /\ r.status = q.rca.status /\ r.support = q.rca.support
      /\ r.evidence = q.rca.evidence /\ r.contradictions = q.rca.contradictions
      /\ r.hypotheses = q.rca.hypotheses
  BY <1>1, <1>2 DEF RCAStates
<1>5. QED
  BY <1>3, <1>4 DEF Journalled, Stores

LEMMA JournalKeeps ==
  ASSUME NEW q, NEW w, Journalled(q, w)
  PROVE  /\ CurrentScope(w.rca) = CurrentScope(q.rca)
         /\ Consistent(q) => Consistent(w)
         /\ Recorded(q) /\ Settled(q, CurrentScope(q.rca)) => Sound(w)
<1>1. /\ CurrentScope(w.rca) = CurrentScope(q.rca) /\ Known(w.rca) = Known(q.rca)
      /\ Satisfied(w.rca) = Satisfied(q.rca) /\ Contradicted(w.rca) = Contradicted(q.rca)
      /\ Decided(w.rca) = Decided(q.rca)
  BY DEF Journalled, CurrentScope, Current, HasHypothesis, Known, Satisfied, Contradicted, Decided
<1>2. \A o, scope : FactsOf(w, o, scope) = FactsOf(q, o, scope)
  BY DEF Journalled, FactsOf
<1>3. ASSUME Consistent(q) PROVE Consistent(w)
  <2>1. Placed(q) => Placed(w)
    BY <1>1 DEF Placed, Journalled
  <2>2. Agree(q) => Agree(w)
    BY DEF Agree, Related, Journalled
  <2>3. Earned(q) => Earned(w)
    BY <1>1, <1>2 DEF Earned, Proves, Journalled
  <2>4. Unsupported(q) => Unsupported(w)
    BY DEF Unsupported, Journalled
  <2>5. QED
    BY <1>3, <2>1, <2>2, <2>3, <2>4 DEF Consistent, Journalled
<1>4. ASSUME Recorded(q), Settled(q, CurrentScope(q.rca)) PROVE Sound(w)
  <2>1. Recorded(w)
    BY <1>1, <1>4 DEF Recorded, Journalled
  <2>2. Settled(w, CurrentScope(w.rca))
    BY <1>1, <1>2, <1>4 DEF Settled, SetOf, Contradicting, Journalled
  <2>3. QED
    BY <2>1, <2>2 DEF Sound
<1>5. QED
  BY <1>1, <1>3, <1>4

LEMMA QualifyAndRecordInv ==
  ASSUME IInv, QualifyAndRecord
  PROVE  IInv'
<1> DEFINE O == Known(staged.rca)
           q == Qualified(staged, O, turn.scope)
<1>1. /\ turn.pc = "proposed"
      /\ staged' = [q EXCEPT !.rca = AddSemanticRecord(@, turn.evidence)]
      /\ turn' = [turn EXCEPT !.pc = "publish"]
      /\ captured' = captured /\ live' = live
  BY DEF QualifyAndRecord
<1>2. /\ live \in Stores /\ staged \in Stores /\ turn \in Turns /\ Consistent(staged)
      /\ Placed(staged) /\ Transaction(live, staged, turn)
  BY InvParts
<1>3. /\ HasHypothesis(staged.rca) /\ turn.scope = CurrentScope(staged.rca) /\ turn.scope \in Scope
  BY <1>1, AdmissionScope
<1>4. O \in SUBSET Obligations
  BY DEF Known
<1>5. staged.rca.evidence \cup Linked(staged, O, turn.scope) = staged.pinned
  <2>1. Linked(staged, O, turn.scope) \subseteq Related(staged)
    BY DEF Linked, Related, FactsOf, InScope
  <2>2. QED
    BY <1>2, <2>1 DEF Consistent, Agree
<1>6. Consistent(q)
  BY <1>2, <1>3, <1>4, <1>5, QualifiedConsistent DEF Consistent, Agree
<1>7. IsCarried(live, staged, q, turn)
  BY <1>2, <1>3, <1>4, QualifiedCarries
<1>8. Recorded(q) /\ Settled(q, turn.scope)
  BY <1>2, <1>3, QualifiedSound
<1> HIDE DEF q, O
<1>9. CurrentScope(q.rca) = turn.scope /\ q \in Stores
  BY <1>3, <1>6, <1>7 DEF IsCarried, Consistent
<1>10. turn.evidence \in SUBSET Evidence
  BY <1>2 DEF Turns
<1>11. Journalled(q, staged')
  BY <1>1, <1>9, <1>10, JournalEffect
<1>12. /\ CurrentScope(staged'.rca) = CurrentScope(q.rca) /\ Consistent(staged') /\ Sound(staged')
  BY <1>6, <1>8, <1>9, <1>11, JournalKeeps
<1>13. /\ turn' \in Turns /\ turn'.pc = "publish" /\ turn'.kind = turn.kind
       /\ turn'.scope = turn.scope /\ turn'.supersede = turn.supersede
       /\ turn'.contradictions = turn.contradictions /\ turn'.rejected = turn.rejected
  BY <1>1, <1>2 DEF Turns
<1>14. Opened(live, turn) /\ Grew(live, staged, turn) /\ Phase(live, staged, turn)
  BY <1>1, <1>2 DEF Transaction
<1>15. Opened(live, turn') /\ Grew(live, staged', turn')
  BY <1>7, <1>11, <1>13, <1>14 DEF Opened, Grew, IsCarried, Journalled
<1>16. Rebuilt(live, staged, turn) /\ (~turn.rejected => Kept(live, staged, turn))
  BY <1>1, <1>14 DEF Phase
<1>17. Rebuilt(live, q, turn) /\ (~turn.rejected => Kept(live, q, turn))
  BY <1>7, <1>16 DEF Rebuilt, IsCarried, HasHypothesis
<1>18. Rebuilt(live, staged', turn')
  <2>1. \A o, scope : FactsOf(staged', o, scope) = FactsOf(q, o, scope)
    BY <1>11 DEF FactsOf, Journalled
  <2>2. Answers(live, staged')
    BY <1>11, <1>12, <1>17, <2>1 DEF Rebuilt, Answers, AnsweredIn, Satisfied, Journalled
  <2>3. QED
    BY <1>11, <1>12, <1>13, <1>17, <2>2 DEF Rebuilt, HasHypothesis, Journalled
<1>19. ~turn.rejected => Kept(live, staged', turn')
  BY <1>11, <1>12, <1>13, <1>17 DEF Kept, Blocking, Journalled
<1>20. Phase(live, staged', turn')
  BY <1>12, <1>13, <1>18, <1>19 DEF Phase
<1>21. QED
  BY <1>1, <1>12, <1>13, <1>15, <1>20 DEF IInv, Transaction

\* The hypothesis is rebuilt: new obligations, missing capabilities, the contradiction
\* projection and one more snapshot, over a copy that only journals what it answered.
IsBuilt(st, new, gaps, h, r) ==
  /\ r \in RCAStates
  /\ r.evidence = st.rca.evidence \cup st.pinned
  /\ r.contradictions = NextContradictions
  /\ r.hypotheses = Append(st.rca.hypotheses, h)
  /\ \A o \in Obligations :
       /\ r.status[o] = IF o \in new THEN "OPEN"
                        ELSE IF o \in gaps THEN "NOT_APPLICABLE_BY_CAPABILITY"
                        ELSE st.rca.status[o]
       /\ r.support[o] = IF o \in new \cup gaps THEN {} ELSE st.rca.support[o]

BuiltFrom(s, linked, new, gaps, h) ==
  [s EXCEPT
     !.status = [o \in Obligations |-> IF o \in new THEN "OPEN"
                   ELSE IF o \in gaps THEN "NOT_APPLICABLE_BY_CAPABILITY" ELSE @[o]],
     !.support = [o \in Obligations |-> IF o \in new \cup gaps THEN {} ELSE @[o]],
     !.evidence = @ \cup linked,
     !.contradictions = NextContradictions,
     !.hypotheses = Append(@, h),
     !.event_count = @ + Cardinality(new) + Cardinality(gaps) + Cardinality(linked) + 2]

LEMMA ProjectionType ==
  ASSUME IInv
  PROVE  NextContradictions \in Contradictions
<1>1. staged.rca.contradictions \in Contradictions /\ turn.contradictions \in Contradictions
  BY InvParts, RCAParts DEF Turns, Contradictions
<1>2. OpenBlocking \in Contradiction
  BY DEF OpenBlocking, Contradiction, ContradictionStatus, Severity
<1>3. ContradictionProjection \in Contradictions
  BY <1>1, <1>2 DEF ContradictionProjection, Contradictions
<1>4. QED
  BY <1>1, <1>3 DEF NextContradictions, Contradictions

LEMMA BuildEffect ==
  ASSUME IInv, NEW s \in RCAStates, NEW new \in SUBSET Obligations,
         NEW gaps \in SUBSET Obligations, NEW h \in Hypothesis,
         s.evidence = staged.rca.evidence, s.hypotheses = staged.rca.hypotheses,
         \A o \in Obligations : s.status[o] = staged.rca.status[o] /\ s.support[o] = staged.rca.support[o]
  PROVE  IsBuilt(staged, new, gaps, h, BuiltFrom(s, staged.pinned \ s.evidence, new, gaps, h))
<1> DEFINE linked == staged.pinned \ s.evidence
           a == [o \in Obligations |-> IF o \in new THEN "OPEN"
                   ELSE IF o \in gaps THEN "NOT_APPLICABLE_BY_CAPABILITY" ELSE s.status[o]]
           b == [o \in Obligations |-> IF o \in new \cup gaps THEN {} ELSE s.support[o]]
           E == s.evidence \cup linked
           H == Append(s.hypotheses, h)
           n == s.event_count + Cardinality(new) + Cardinality(gaps) + Cardinality(linked) + 2
           r == BuiltFrom(s, linked, new, gaps, h)
<1>1. linked \in SUBSET Evidence /\ E \in SUBSET Evidence /\ E = s.evidence \cup staged.pinned
  BY InvParts, StoreParts, RCAParts
<1>2. n \in Nat
  <2>1. Cardinality(linked) \in Nat
    BY <1>1, EvidenceFinite
  <2>2. QED
    BY <2>1, SatisfiedFinite, RCAParts
<1>3. a \in Statuses /\ b \in Supports /\ H \in Seq(Hypothesis)
  BY RCAParts DEF Statuses, Supports, ObligationStatus
<1>4. NextContradictions \in Contradictions
  BY ProjectionType
<1>5. \A o \in Obligations :
        /\ a[o] = IF o \in new THEN "OPEN"
                  ELSE IF o \in gaps THEN "NOT_APPLICABLE_BY_CAPABILITY" ELSE staged.rca.status[o]
        /\ b[o] = IF o \in new \cup gaps THEN {} ELSE staged.rca.support[o]
  OBVIOUS
<1>6. H = Append(staged.rca.hypotheses, h)
  OBVIOUS
<1>7. r = [s EXCEPT !.status = a, !.support = b, !.evidence = E,
                    !.contradictions = NextContradictions, !.hypotheses = H, !.event_count = n]
  BY DEF BuiltFrom
<1> HIDE DEF linked, a, b, E, H, n, r
<1>8. /\ r \in RCAStates /\ r.evidence = E /\ r.contradictions = NextContradictions
      /\ r.hypotheses = H /\ r.status = a /\ r.support = b
  BY <1>1, <1>2, <1>3, <1>4, <1>7 DEF RCAStates, Statuses, Supports, Contradictions
<1>9. r.evidence = staged.rca.evidence \cup staged.pinned
  BY <1>1, <1>8
<1>10. IsBuilt(staged, new, gaps, h, r)
  BY <1>5, <1>6, <1>8, <1>9 DEF IsBuilt
<1>11. QED
  BY <1>10 DEF r, linked

\* The projection drops a blocking contradiction of the scope only by naming it.
LEMMA ProjectionKeeps ==
  ASSUME IInv, turn.pc = "evidence", ProposedContradictions = GroundedProposals,
         ReusedContradictions = {}, NEW e \in Blocking(live.rca),
         turn.contradictions[e] = NoContradiction
  PROVE  NextContradictions[e] = OpenBlocking
<1>1. Phase(live, staged, turn)
  BY InvParts DEF Transaction
<1>2. turn.cited = Blocking(live.rca)
  BY <1>1 DEF Phase
<1>3. e \in Evidence /\ e \in GroundedProposals
  BY <1>2 DEF Blocking, ProposedContradictions
<1>4. ContradictionProjection[e] = OpenBlocking
  BY <1>3 DEF ContradictionProjection
<1>5. QED
  BY <1>3, <1>4 DEF NextContradictions

LEMMA BuildHypothesisInv ==
  ASSUME IInv, NEW new \in SUBSET Obligations, NEW gaps \in SUBSET Obligations,
         BuildHypothesis(new, gaps)
  PROVE  IInv'
<1> DEFINE s == IF turn.kind = "KEEP_CURRENT" THEN staged.rca ELSE Reopened(staged.rca)
           h == [id |-> turn.scope.id, revision |-> turn.scope.revision,
                 support |-> DirectSupport(staged, turn.scope)]
           r == BuiltFrom(s, staged.pinned \ s.evidence, new, gaps, h)
           rejected == turn.rejected \/ ProposedContradictions # GroundedProposals
                       \/ ReusedContradictions # {}
<1>1. /\ turn.pc \in {"evidence", "build"}
      /\ new \cap Known(staged.rca) = {} /\ gaps \subseteq Active(staged.rca)
      /\ staged' = [staged EXCEPT !.rca = r]
      /\ turn' = [turn EXCEPT !.pc = "proposed", !.rejected = rejected]
      /\ captured' = captured /\ live' = live
  BY DEF BuildHypothesis, BuiltFrom
<1>2. /\ live \in Stores /\ staged \in Stores /\ turn \in Turns /\ Consistent(staged)
      /\ staged.rca \in RCAStates /\ live.rca \in RCAStates
      /\ Consistent(live) /\ Placed(live) /\ Transaction(live, staged, turn)
  BY InvParts
<1>3. Opened(live, turn) /\ Grew(live, staged, turn) /\ Phase(live, staged, turn)
  BY <1>1, <1>2 DEF Transaction
<1>4. Building(live, staged, turn)
  BY <1>1, <1>3 DEF Phase
<1>5. /\ turn.pc = "evidence" => turn.kind = "KEEP_CURRENT"
      /\ turn.pc = "build" => turn.kind # "KEEP_CURRENT" /\ Satisfied(staged.rca) = {}
  BY <1>3 DEF Phase
<1>6. /\ turn.scope \in Scope
      /\ turn.kind = "KEEP_CURRENT" => turn.scope = CurrentScope(live.rca)
      /\ turn.kind # "KEEP_CURRENT" => turn.scope # CurrentScope(live.rca)
  BY <1>2, <1>3, ScopeAhead DEF Opened, Placed
<1>7. h \in Hypothesis /\ h.id = turn.scope.id /\ h.revision = turn.scope.revision
  <2>1. DirectSupport(staged, turn.scope) \in SUBSET Evidence
    BY <1>2, FactParts DEF DirectSupport, InScope
  <2>2. QED
    BY <1>6, <2>1 DEF Scope, Hypothesis
<1>8. /\ s \in RCAStates /\ s.evidence = staged.rca.evidence
      /\ s.hypotheses = staged.rca.hypotheses
      /\ \A o \in Obligations : s.status[o] = staged.rca.status[o] /\ s.support[o] = staged.rca.support[o]
  <2>1. CASE turn.pc = "evidence"
    BY <1>2, <1>5, <2>1
  <2>2. CASE turn.pc = "build"
    BY <1>2, <1>5, <2>2, ReopenedEffect DEF IsReopened
  <2>3. QED
    BY <1>1, <2>1, <2>2
<1>9. rejected \in BOOLEAN
  BY <1>2 DEF Turns
<1>10. ~rejected => /\ ~turn.rejected /\ ProposedContradictions = GroundedProposals
                    /\ ReusedContradictions = {}
  BY <1>2 DEF Turns
<1> HIDE DEF s, h, rejected
<1>11. IsBuilt(staged, new, gaps, h, r)
  BY <1>7, <1>8, BuildEffect
<1> HIDE DEF r
<1>12. r \in RCAStates /\ r.hypotheses = Append(live.rca.hypotheses, h)
  BY <1>4, <1>11 DEF IsBuilt, Building
<1>13. IsNext(live, turn, r)
  BY <1>2, <1>3, <1>7, <1>12, AppendedPlaced
<1>14. CurrentScope(staged.rca) = CurrentScope(live.rca)
  BY <1>4 DEF Building, CurrentScope, Current, HasHypothesis
<1>15. \A o \in Satisfied(r) : /\ CurrentScope(r) = CurrentScope(staged.rca)
                               /\ turn.kind = "KEEP_CURRENT"
                               /\ o \in Satisfied(staged.rca) /\ r.support[o] = staged.rca.support[o]
  <2> TAKE o \in Satisfied(r)
  <2>1. o \in Satisfied(staged.rca) /\ r.support[o] = staged.rca.support[o]
    BY <1>11 DEF IsBuilt, Satisfied
  <2>2. turn.kind = "KEEP_CURRENT"
    BY <1>1, <1>5, <2>1
  <2>3. QED
    BY <1>6, <1>13, <1>14, <2>1, <2>2 DEF IsNext
<1>16. Reduces(staged.rca, r)
  <2>1. r.evidence = staged.rca.evidence
    BY <1>2, <1>11 DEF IsBuilt, Consistent, Agree
  <2>2. Known(staged.rca) \subseteq Known(r)
    BY <1>11 DEF IsBuilt, Known, Absent
  <2>3. \A o \in Obligations : r.status[o] \in {Absent, "OPEN"} => r.support[o] = {}
    BY <1>2, <1>11 DEF IsBuilt, Consistent, Unsupported
  <2>4. QED
    BY <1>12, <1>13, <1>14, <1>15, <2>1, <2>2, <2>3 DEF Reduces, IsNext
<1>17. Consistent(staged')
  BY <1>1, <1>2, <1>16, ReducedConsistent
<1>18. staged'.rca = r /\ staged'.facts = staged.facts
  BY <1>1, <1>2, <1>12 DEF Stores
<1>19. \A o \in Obligations : r.status[o] \in Staged(live.rca.status[o])
  <2>1. \A o \in Obligations : /\ live.rca.status[o] \in ObligationStatus \cup {Absent}
                               /\ staged.rca.status[o] \in Unbuilt(live.rca.status[o])
    BY <1>2, <1>4, RCAParts DEF Statuses, Building
  <2>2. \A x \in ObligationStatus \cup {Absent} :
          /\ Absent \in Unbuilt(x) => "OPEN" \in Staged(x)
          /\ "OPEN" \in Unbuilt(x) => "NOT_APPLICABLE_BY_CAPABILITY" \in Staged(x)
          /\ "BLOCKED_BY_CAPABILITY" \in Unbuilt(x) => "NOT_APPLICABLE_BY_CAPABILITY" \in Staged(x)
    BY DEF ObligationStatus, Absent, Unbuilt, Staged
  <2>3. ASSUME NEW o \in new PROVE r.status[o] \in Staged(live.rca.status[o])
    <3>1. staged.rca.status[o] = Absent /\ r.status[o] = "OPEN"
      BY <1>1, <1>11 DEF Known, IsBuilt
    <3>2. QED
      BY <2>1, <2>2, <3>1
  <2>4. ASSUME NEW o \in gaps \ new PROVE r.status[o] \in Staged(live.rca.status[o])
    <3>1. /\ staged.rca.status[o] \in {"OPEN", "BLOCKED_BY_CAPABILITY"}
          /\ r.status[o] = "NOT_APPLICABLE_BY_CAPABILITY"
      BY <1>1, <1>11 DEF Active, IsBuilt
    <3>2. QED
      BY <2>1, <2>2, <3>1
  <2>5. ASSUME NEW o \in Obligations \ (gaps \cup new)
        PROVE  r.status[o] \in Staged(live.rca.status[o])
    BY <1>11, <2>1, <2>5, UnbuiltStaged DEF IsBuilt
  <2>6. QED
    BY <2>3, <2>4, <2>5
<1>20. Answers(live, staged')
  BY <1>4, <1>15, <1>18 DEF Building, Answers, AnsweredIn, Satisfied, FactsOf
<1>21. /\ turn' \in Turns /\ turn'.pc = "proposed" /\ turn'.kind = turn.kind
       /\ turn'.scope = turn.scope /\ turn'.supersede = turn.supersede
       /\ turn'.contradictions = turn.contradictions /\ turn'.rejected = rejected
  BY <1>1, <1>2, <1>9 DEF Turns
<1>22. Opened(live, turn') /\ Grew(live, staged', turn')
  BY <1>3, <1>18, <1>21 DEF Opened, Grew
<1>23. Rebuilt(live, staged', turn')
  BY <1>13, <1>18, <1>19, <1>20, <1>21 DEF Rebuilt, IsNext
<1>24. ASSUME ~rejected PROVE Kept(live, staged', turn')
  <2>1. CASE turn.pc = "evidence"
    <3>1. \A e \in Blocking(live.rca) :
            turn.contradictions[e] = NoContradiction => NextContradictions[e] = OpenBlocking
      BY <1>10, <1>24, <2>1, ProjectionKeeps
    <3>2. \A e \in Blocking(live.rca) \ Blocking(r) : turn.contradictions[e] # NoContradiction
      BY <1>11, <3>1 DEF IsBuilt, Blocking
    <3>3. QED
      BY <1>18, <1>21, <3>2 DEF Kept
  <2>2. CASE turn.pc = "build"
    BY <1>5, <1>6, <1>13, <1>18, <2>2 DEF Kept, IsNext
  <2>3. QED
    BY <1>1, <2>1, <2>2
<1>25. Phase(live, staged', turn')
  BY <1>21, <1>23, <1>24 DEF Phase
<1>26. QED
  BY <1>1, <1>17, <1>21, <1>22, <1>25 DEF IInv, Transaction

-----------------------------------------------------------------------------
(* Ending a transaction *)

\* The same relationships, scope and contradictions: what was settled stays settled.
LEMMA SoundSame ==
  ASSUME NEW st \in Stores, NEW w \in Stores, Sound(st),
         HasHypothesis(w.rca) => HasHypothesis(st.rca),
         w.facts = st.facts, w.sets = st.sets,
         CurrentScope(w.rca) = CurrentScope(st.rca),
         w.rca.contradictions = st.rca.contradictions
  PROVE  Sound(w)
<1>1. Contradicted(w.rca) = Contradicted(st.rca) /\ Decided(w.rca) = Decided(st.rca)
  BY DEF Contradicted, Decided
<1>2. CASE HasHypothesis(w.rca)
  BY <1>1, <1>2, SoundStays
<1>3. CASE ~HasHypothesis(w.rca)
  BY <1>3 DEF Sound
<1>4. QED
  BY <1>2, <1>3

\* Publication supersedes the obligations the decision named and changes nothing else.
IsSuperseded(s, D, r) ==
  /\ r \in RCAStates /\ r.hypotheses = s.hypotheses /\ r.evidence = s.evidence
  /\ r.contradictions = s.contradictions /\ r.support = s.support
  /\ \A o \in Obligations : r.status[o] = IF o \in D THEN "SUPERSEDED_BY_REPLAN" ELSE s.status[o]

LEMMA SupersededEffect ==
  ASSUME NEW s \in RCAStates, NEW D \in SUBSET Obligations
  PROVE  IsSuperseded(s, D, SupersedeAll(s, D))
<1> DEFINE a == [o \in Obligations |-> IF o \in D THEN "SUPERSEDED_BY_REPLAN" ELSE s.status[o]]
           n == s.event_count + Cardinality(D)
           r == SupersedeAll(s, D)
<1>1. n \in Nat /\ a \in Statuses
  BY SatisfiedFinite, RCAParts DEF Statuses, ObligationStatus
<1>2. \A o \in Obligations : a[o] = IF o \in D THEN "SUPERSEDED_BY_REPLAN" ELSE s.status[o]
  OBVIOUS
<1>3. r = [s EXCEPT !.status = a, !.event_count = n]
  BY DEF SupersedeAll
<1> HIDE DEF a, n, r
<1>4. /\ r \in RCAStates /\ r.hypotheses = s.hypotheses /\ r.evidence = s.evidence
      /\ r.contradictions = s.contradictions /\ r.support = s.support /\ r.status = a
  BY <1>1, <1>3 DEF RCAStates, Statuses
<1>5. QED
  BY <1>2, <1>4 DEF IsSuperseded, r

IsPublished(st, D, w) ==
  /\ w \in Stores /\ w.facts = st.facts /\ w.pinned = st.pinned /\ w.sets = st.sets
  /\ IsSuperseded(st.rca, D, w.rca)
  /\ CurrentScope(w.rca) = CurrentScope(st.rca)
  /\ Consistent(w) /\ (Sound(st) => Sound(w))

LEMMA PublishedEffect ==
  ASSUME NEW st, Consistent(st), NEW D \in SUBSET Obligations, D \subseteq Active(st.rca)
  PROVE  IsPublished(st, D, [st EXCEPT !.rca = SupersedeAll(st.rca, D)])
<1> DEFINE r == SupersedeAll(st.rca, D)
           w == [st EXCEPT !.rca = r]
<1>1. st \in Stores /\ st.rca \in RCAStates
  BY StoreParts DEF Consistent
<1>2. IsSuperseded(st.rca, D, r)
  BY <1>1, SupersededEffect
<1> HIDE DEF r
<1>3. CurrentScope(r) = CurrentScope(st.rca) /\ (HasHypothesis(r) => HasHypothesis(st.rca))
  BY <1>2 DEF IsSuperseded, CurrentScope, Current, HasHypothesis
<1>4. Behind(CurrentScope(st.rca), CurrentScope(r))
  BY <1>1, <1>3, CurrentType DEF Behind
<1>5. Reduces(st.rca, r)
  <2>1. \A o \in Satisfied(r) : o \in Satisfied(st.rca) /\ r.support[o] = st.rca.support[o]
    BY <1>2 DEF IsSuperseded, Satisfied
  <2>2. Known(st.rca) \subseteq Known(r)
    BY <1>2 DEF IsSuperseded, Known, Absent
  <2>3. \A o \in Obligations : r.status[o] \in {Absent, "OPEN"} => r.support[o] = {}
    BY <1>2 DEF IsSuperseded, Consistent, Unsupported, Absent
  <2>4. QED
    BY <1>2, <1>3, <1>4, <2>1, <2>2, <2>3 DEF IsSuperseded, Reduces, Consistent, Placed
<1>6. Consistent(w)
  BY <1>5, ReducedConsistent
<1>7. /\ w \in Stores /\ w.rca = r /\ w.facts = st.facts /\ w.pinned = st.pinned /\ w.sets = st.sets
  BY <1>1, <1>2 DEF IsSuperseded, Stores
<1> HIDE DEF w
<1>8. Sound(st) => Sound(w)
  BY <1>1, <1>2, <1>3, <1>7, SoundSame DEF IsSuperseded
<1>9. QED
  BY <1>2, <1>3, <1>6, <1>7, <1>8 DEF IsPublished, w, r

\* Between transactions the copy is the published stores.
LEMMA IdleType == Idle \in Turns /\ Idle.pc = "idle"
BY SemanticAssumption DEF Idle, Turns, NoContradictions

LEMMA IdleInv ==
  ASSUME IInv, captured' \in SUBSET Evidence, turn' \in Turns, turn'.pc = "idle",
         staged' = live', Consistent(live'), Sound(live')
  PROVE  IInv'
BY DEF IInv, Transaction

LEMMA PublishInv ==
  ASSUME IInv, Publish
  PROVE  IInv' /\ IsPublished(staged, turn.supersede, live')
<1> DEFINE D == turn.supersede
<1>1. /\ turn.pc = "publish" /\ ~turn.rejected /\ D \subseteq Active(staged.rca)
      /\ live' = [staged EXCEPT !.rca = SupersedeAll(staged.rca, D)]
      /\ staged' = live' /\ turn' = Idle /\ captured' = captured
  BY DEF Publish, Publishable
<1>2. Consistent(staged) /\ turn \in Turns /\ Transaction(live, staged, turn)
  BY InvParts
<1>3. D \in SUBSET Obligations
  BY <1>2 DEF Turns
<1>4. Sound(staged)
  BY <1>1, <1>2 DEF Transaction, Phase
<1> HIDE DEF D
<1>5. IsPublished(staged, D, live')
  BY <1>1, <1>2, <1>3, PublishedEffect
<1>6. Consistent(live') /\ Sound(live')
  BY <1>4, <1>5 DEF IsPublished
<1>7. captured \in SUBSET Evidence
  BY DEF IInv
<1>8. IInv'
  BY <1>1, <1>6, <1>7, IdleType, IdleInv
<1>9. QED
  BY <1>5, <1>8 DEF D

LEMMA RollbackInv ==
  ASSUME IInv, Rollback \/ Raise
  PROVE  IInv'
<1>1. live' = live /\ staged' = live /\ turn' = Idle /\ captured' = captured
  BY DEF Rollback, Raise
<1>2. Consistent(live') /\ Sound(live') /\ captured \in SUBSET Evidence
  BY <1>1 DEF IInv
<1>3. QED
  BY <1>1, <1>2, IdleType, IdleInv

-----------------------------------------------------------------------------
(* Between transactions *)

LEMMA ObserveInv ==
  ASSUME IInv, NEW e \in Evidence, Observe(e)
  PROVE  IInv'
BY DEF IInv, Observe, Transaction

\* What a step between transactions may do to the published reducer state.
Outside(s, r) ==
  /\ r \in RCAStates /\ r.evidence = s.evidence /\ r.contradictions = s.contradictions
  /\ r.support = s.support
  /\ CurrentScope(r) = CurrentScope(s) /\ (HasHypothesis(r) => HasHypothesis(s))
  /\ Len(r.hypotheses) >= Len(s.hypotheses)

LEMMA OutsideInv ==
  ASSUME IInv, turn.pc = "idle", NEW r, Outside(live.rca, r), Known(live.rca) \subseteq Known(r),
         Satisfied(r) \subseteq Satisfied(live.rca),
         \A o \in Obligations : r.status[o] \in {Absent, "OPEN"} =>
           live.rca.status[o] \in {Absent, "OPEN"},
         live' = [live EXCEPT !.rca = r], staged' = live', captured' = captured, turn' = turn
  PROVE  /\ IInv' /\ live'.rca = r /\ live'.facts = live.facts
<1>1. /\ live \in Stores /\ live.rca \in RCAStates /\ Consistent(live) /\ Sound(live)
      /\ turn \in Turns /\ captured \in SUBSET Evidence
  BY InvParts DEF IInv
<1>2. Behind(CurrentScope(live.rca), CurrentScope(r))
  BY <1>1, CurrentType DEF Behind, Outside
<1>3. CurrentScope(r).id <= Len(r.hypotheses) /\ CurrentScope(r).revision <= Len(r.hypotheses)
  <2>1. Len(r.hypotheses) \in Nat /\ Len(live.rca.hypotheses) \in Nat
    BY <1>1, CurrentType DEF Outside
  <2>2. CurrentScope(r).id \in Nat /\ CurrentScope(r).revision \in Nat
    BY <1>1, CurrentType DEF Outside
  <2>3. QED
    BY <1>1, <2>1, <2>2 DEF Outside, Consistent, Placed
<1>4. Reduces(live.rca, r)
  BY <1>1, <1>2, <1>3 DEF Reduces, Outside, Consistent, Unsupported
<1>5. Consistent(live')
  BY <1>1, <1>4, ReducedConsistent
<1>6. /\ live'.rca = r /\ live'.facts = live.facts /\ live'.sets = live.sets /\ live' \in Stores
  BY <1>1 DEF Stores, Outside
<1>7. Sound(live')
  BY <1>1, <1>6, SoundSame DEF Outside
<1>8. IInv'
  BY <1>1, <1>5, <1>7, IdleInv
<1>9. QED
  BY <1>6, <1>8

\* Every open obligation loses its capability; the snapshot is restated.
IsBlocked(s, r) ==
  /\ Outside(s, r) /\ Len(r.hypotheses) = Len(s.hypotheses) + 1
  /\ \A o \in Obligations :
       IF s.status[o] = "OPEN"
       THEN r.status[o] \in {"BLOCKED_BY_CAPABILITY", "NOT_APPLICABLE_BY_CAPABILITY"}
       ELSE r.status[o] = s.status[o]

OpenOf(s) == {o \in Obligations : s.status[o] = "OPEN"}
BlockedFrom(s, open, h) ==
  [s EXCEPT !.status = [o \in Obligations |->
                          IF o \notin open THEN @[o]
                          ELSE IF o \in SourceObligations THEN "NOT_APPLICABLE_BY_CAPABILITY"
                          ELSE "BLOCKED_BY_CAPABILITY"],
            !.hypotheses = Append(@, h),
            !.event_count = @ + Cardinality(open) + 2]

LEMMA BlockCapabilityInv ==
  ASSUME IInv, BlockCapability
  PROVE  /\ IInv' /\ turn.pc = "idle" /\ IsBlocked(live.rca, live'.rca)
         /\ live'.facts = live.facts
<1> DEFINE s == live.rca
           open == OpenOf(s)
           a == [o \in Obligations |->
                   IF o \notin open THEN s.status[o]
                   ELSE IF o \in SourceObligations THEN "NOT_APPLICABLE_BY_CAPABILITY"
                   ELSE "BLOCKED_BY_CAPABILITY"]
           S == ActiveSupport(s)
           h == [Current(s) EXCEPT !.support = S]
           H == Append(s.hypotheses, h)
           n == s.event_count + Cardinality(open) + 2
           r == BlockedFrom(s, open, h)
<1>1. /\ turn.pc = "idle" /\ HasHypothesis(s)
      /\ live' = [live EXCEPT !.rca = r]
      /\ staged' = live' /\ captured' = captured /\ turn' = turn
  BY DEF BlockCapability, BlockedFrom, OpenOf
<1>2. s \in RCAStates
  BY InvParts
<1>3. Current(s) \in Hypothesis /\ Len(s.hypotheses) \in Nat
  BY <1>1, <1>2, CurrentType
<1>4. S \in SUBSET Evidence
  BY <1>2, <1>3, RCAParts DEF ActiveSupport, Hypothesis, Satisfied, Supports
<1>5. n \in Nat
  BY <1>2, SatisfiedFinite, RCAParts DEF OpenOf
<1>6. a \in Statuses /\ \A o \in Obligations :
        IF s.status[o] = "OPEN"
        THEN a[o] \in {"BLOCKED_BY_CAPABILITY", "NOT_APPLICABLE_BY_CAPABILITY"}
        ELSE a[o] = s.status[o]
  BY <1>2, RCAParts DEF Statuses, ObligationStatus, OpenOf
<1> HIDE DEF S
<1>7. h \in Hypothesis /\ h.id = Current(s).id /\ h.revision = Current(s).revision
  BY <1>3, <1>4 DEF Hypothesis
<1> HIDE DEF h
<1>8. H \in Seq(Hypothesis) /\ H = Append(s.hypotheses, h)
  BY <1>2, <1>7, RCAParts
<1>9. r = [s EXCEPT !.status = a, !.hypotheses = H, !.event_count = n]
  BY DEF BlockedFrom
<1> HIDE DEF a, H, n, r
<1>10. /\ r \in RCAStates /\ r.hypotheses = H /\ r.evidence = s.evidence /\ r.support = s.support
       /\ r.contradictions = s.contradictions /\ r.status = a
  BY <1>2, <1>5, <1>6, <1>8, <1>9 DEF RCAStates, Statuses
<1>11. /\ HasHypothesis(r) /\ Len(r.hypotheses) = Len(s.hypotheses) + 1
       /\ CurrentScope(r) = [id |-> h.id, revision |-> h.revision]
  BY <1>2, <1>7, <1>8, <1>10, Appended
<1>12. CurrentScope(r) = CurrentScope(s)
  BY <1>1, <1>7, <1>11 DEF CurrentScope, ScopeOf
<1>13. IsBlocked(s, r)
  BY <1>1, <1>3, <1>6, <1>10, <1>11, <1>12 DEF IsBlocked, Outside
<1>14. /\ Known(s) \subseteq Known(r) /\ Satisfied(r) \subseteq Satisfied(s)
       /\ \A o \in Obligations : r.status[o] \in {Absent, "OPEN"} =>
            s.status[o] \in {Absent, "OPEN"}
  BY <1>6, <1>10 DEF Known, Satisfied, Absent
<1>15. IInv' /\ live'.rca = r /\ live'.facts = live.facts
  BY <1>1, <1>13, <1>14, OutsideInv DEF IsBlocked
<1>16. QED
  BY <1>1, <1>13, <1>15

\* Review adds open obligations and touches nothing that was known.
IsAsked(s, r) ==
  /\ Outside(s, r) /\ r.hypotheses = s.hypotheses
  /\ \A o \in Obligations :
       \/ r.status[o] = s.status[o]
       \/ s.status[o] = Absent /\ r.status[o] = "OPEN"

AskedFrom(s, new) ==
  [s EXCEPT !.status = [o \in Obligations |-> IF o \in new THEN "OPEN" ELSE @[o]],
            !.event_count = @ + Cardinality(new)]

LEMMA ReviewGapsInv ==
  ASSUME IInv, NEW new \in SUBSET Obligations, ReviewGaps(new)
  PROVE  /\ IInv' /\ turn.pc = "idle" /\ IsAsked(live.rca, live'.rca)
         /\ live'.facts = live.facts
<1> DEFINE s == live.rca
           a == [o \in Obligations |-> IF o \in new THEN "OPEN" ELSE s.status[o]]
           n == s.event_count + Cardinality(new)
           r == AskedFrom(s, new)
<1>1. /\ turn.pc = "idle" /\ new \cap Known(s) = {}
      /\ live' = [live EXCEPT !.rca = r]
      /\ staged' = live' /\ captured' = captured /\ turn' = turn
  BY DEF ReviewGaps, AskedFrom
<1>2. s \in RCAStates
  BY InvParts
<1>3. n \in Nat /\ a \in Statuses
  BY <1>2, SatisfiedFinite, RCAParts DEF Statuses, ObligationStatus
<1>4. \A o \in Obligations :
        IF o \in new THEN a[o] = "OPEN" /\ s.status[o] = Absent ELSE a[o] = s.status[o]
  BY <1>1 DEF Known
<1>5. r = [s EXCEPT !.status = a, !.event_count = n]
  BY DEF AskedFrom
<1> HIDE DEF a, n, r
<1>6. /\ r \in RCAStates /\ r.hypotheses = s.hypotheses /\ r.evidence = s.evidence
      /\ r.support = s.support /\ r.contradictions = s.contradictions /\ r.status = a
  BY <1>2, <1>3, <1>5 DEF RCAStates, Statuses
<1>7. /\ CurrentScope(r) = CurrentScope(s) /\ (HasHypothesis(r) => HasHypothesis(s))
      /\ Len(r.hypotheses) >= Len(s.hypotheses)
  <2>1. Len(s.hypotheses) \in Nat
    BY <1>2, CurrentType
  <2>2. QED
    BY <1>6, <2>1 DEF CurrentScope, Current, HasHypothesis
<1>8. Outside(s, r) /\ IsAsked(s, r)
  BY <1>4, <1>6, <1>7 DEF Outside, IsAsked
<1>9. /\ Known(s) \subseteq Known(r) /\ Satisfied(r) \subseteq Satisfied(s)
      /\ \A o \in Obligations : r.status[o] \in {Absent, "OPEN"} =>
           s.status[o] \in {Absent, "OPEN"}
  BY <1>4, <1>6 DEF Known, Satisfied, Absent
<1>10. IInv' /\ live'.rca = r /\ live'.facts = live.facts
  BY <1>1, <1>8, <1>9, OutsideInv
<1>11. QED
  BY <1>1, <1>8, <1>10

-----------------------------------------------------------------------------
(* The invariant *)

LEMMA EmptyType ==
  /\ EmptyStores \in Stores /\ EmptyStores.rca = EmptyRCAState
  /\ EmptyRCAState \in RCAStates /\ EmptyRCAState.hypotheses = << >>
<1>1. EmptyRCAState \in RCAStates /\ EmptyRCAState.hypotheses = << >>
  BY DEF EmptyRCAState, RCAStates
<1>2. QED
  BY <1>1 DEF EmptyStores, Stores

LEMMA InitInv == Init => IInv
<1> SUFFICES ASSUME Init PROVE IInv
  OBVIOUS
<1> DEFINE s == EmptyRCAState
<1>1. /\ live = EmptyStores /\ staged = EmptyStores /\ turn = Idle /\ captured = {}
  BY DEF Init
<1>2. /\ EmptyStores.pinned = {} /\ EmptyStores.facts = {}
      /\ EmptyStores \in Stores /\ EmptyStores.rca = s /\ s \in RCAStates
      /\ s.hypotheses = << >> /\ s.evidence = {}
      /\ \A o \in Obligations : s.status[o] = Absent /\ s.support[o] = {}
  BY EmptyType DEF EmptyStores, EmptyRCAState
<1> HIDE DEF s
<1>3. ~HasHypothesis(s) /\ Len(s.hypotheses) = 0 /\ CurrentScope(s) = NoScope /\ Satisfied(s) = {}
  BY <1>2, CurrentType DEF HasHypothesis, Satisfied, Absent
<1>4. Consistent(EmptyStores)
  BY <1>2, <1>3 DEF Consistent, Placed, Agree, Related, Earned, Unsupported, NoScope
<1>5. Sound(EmptyStores)
  BY <1>2, <1>3 DEF Sound
<1>6. QED
  BY <1>1, <1>4, <1>5, IdleType DEF IInv, Transaction

\* Every step of a turn, and every step between two turns, keeps the invariant.
THEOREM StepInv == IInv /\ [Next]_vars => IInv'
<1> SUFFICES ASSUME IInv, [Next]_vars PROVE IInv'
  OBVIOUS
<1>1. CASE Begin
  <2>1. PICK c \in Citable(live.rca, live.facts), kind \in Kinds, D \in SUBSET Obligations :
          \/ BeginPlanner(kind, D, c)
          \/ \E new \in SUBSET Obligations, material \in BOOLEAN :
               StageReflection(kind, D, new, c, material)
    BY <1>1 DEF Begin
  <2>2. turn.pc = "idle"
    BY <1>1 DEF Begin
  <2>3. CASE BeginPlanner(kind, D, c)
    BY <2>2, <2>3, BeginPlannerInv
  <2>4. CASE \E new \in SUBSET Obligations, material \in BOOLEAN :
               StageReflection(kind, D, new, c, material)
    BY <2>2, <2>4, StageReflectionInv
  <2>5. QED
    BY <2>1, <2>3, <2>4
<1>2. CASE Stage
  BY <1>2, AdmitEvidenceInv, RejectProposalInv, BuildHypothesisInv, QualifyAndRecordInv DEF Stage
<1>3. CASE Publish
  BY <1>3, PublishInv
<1>4. CASE Rollback \/ Raise
  BY <1>4, RollbackInv
<1>5. CASE \E e \in Evidence : Observe(e)
  BY <1>5, ObserveInv
<1>6. CASE BlockCapability
  BY <1>6, BlockCapabilityInv
<1>7. CASE \E new \in SUBSET Obligations : ReviewGaps(new)
  BY <1>7, ReviewGapsInv
<1>8. CASE UNCHANGED vars
  BY <1>8 DEF vars, IInv, Transaction
<1>9. QED
  BY <1>1, <1>2, <1>3, <1>4, <1>5, <1>6, <1>7, <1>8 DEF Next

LEMMA Invariance == Spec => []IInv
BY InitInv, StepInv, PTL DEF Spec

-----------------------------------------------------------------------------
(* What a step may do to the published stores *)

\* Everything a published decision owes to the transaction that staged it.
Decision(lv, st, t, w) ==
  /\ Opened(lv, t) /\ Grew(lv, st, t) /\ Kept(lv, st, t)
  /\ Repeated(lv, st) \/ Rebuilt(lv, st, t)
  /\ IsPublished(st, t.supersede, w) /\ t.supersede \subseteq Active(st.rca)

LEMMA PublishedDecision ==
  ASSUME IInv, Publish
  PROVE  Decision(live, staged, turn, live')
<1>1. turn.pc = "publish" /\ ~turn.rejected /\ turn.supersede \subseteq Active(staged.rca)
  BY DEF Publish, Publishable
<1>2. Transaction(live, staged, turn)
  BY InvParts
<1>3. Opened(live, turn) /\ Grew(live, staged, turn) /\ Phase(live, staged, turn)
  BY <1>1, <1>2 DEF Transaction
<1>4. QED
  BY <1>1, <1>3, PublishInv DEF Phase, Decision

LEMMA LiveStep ==
  ASSUME IInv, [Next]_vars
  PROVE  \/ live' = live
         \/ Decision(live, staged, turn, live')
         \/ live'.facts = live.facts /\ IsBlocked(live.rca, live'.rca)
         \/ live'.facts = live.facts /\ IsAsked(live.rca, live'.rca)
<1>1. CASE Begin
  <2>1. ASSUME NEW kind, NEW D, NEW c, BeginPlanner(kind, D, c) PROVE live' = live
    BY <2>1 DEF BeginPlanner
  <2>2. ASSUME NEW kind, NEW D, NEW new, NEW c, NEW material,
               StageReflection(kind, D, new, c, material)
        PROVE  live' = live
    BY <2>2 DEF StageReflection
  <2>3. QED
    BY <1>1, <2>1, <2>2 DEF Begin
<1>2. CASE Stage
  BY <1>2 DEF Stage, AdmitEvidence, RejectProposal, BuildHypothesis, QualifyAndRecord
<1>3. CASE Publish
  BY <1>3, PublishedDecision
<1>4. CASE Rollback \/ Raise \/ (\E e \in Evidence : Observe(e)) \/ UNCHANGED vars
  BY <1>4 DEF Rollback, Raise, Observe, vars
<1>5. CASE BlockCapability
  BY <1>5, BlockCapabilityInv
<1>6. CASE \E new \in SUBSET Obligations : ReviewGaps(new)
  BY <1>6, ReviewGapsInv
<1>7. QED
  BY <1>1, <1>2, <1>3, <1>4, <1>5, <1>6 DEF Next

\* Where a published decision leaves the hypothesis scope.
LEMMA DecisionScope ==
  ASSUME IInv, NEW w, Decision(live, staged, turn, w)
  PROVE  /\ CurrentScope(w.rca) = CurrentScope(staged.rca)
         /\ CurrentScope(w.rca) # CurrentScope(live.rca) =>
              InScope(live.facts, CurrentScope(w.rca)) = {}
         /\ \/ CurrentScope(w.rca) = CurrentScope(live.rca)
            \/ /\ CurrentScope(w.rca).id = CurrentScope(live.rca).id
               /\ CurrentScope(w.rca).revision = CurrentScope(live.rca).revision + 1
            \/ CurrentScope(w.rca).id > CurrentScope(live.rca).id /\ CurrentScope(w.rca).revision = 1
<1>1. CurrentScope(w.rca) = CurrentScope(staged.rca)
  BY DEF Decision, IsPublished
<1>2. live.rca \in RCAStates /\ Placed(live) /\ Opened(live, turn)
  BY InvParts DEF Decision
<1>3. CASE Repeated(live, staged)
  BY <1>1, <1>3 DEF Repeated, CurrentScope, Current, HasHypothesis
<1>4. CASE Rebuilt(live, staged, turn)
  <2>1. CurrentScope(staged.rca) = turn.scope
    BY <1>4 DEF Rebuilt
  <2>2. /\ turn.kind = "KEEP_CURRENT" => turn.scope = CurrentScope(live.rca)
        /\ turn.kind # "KEEP_CURRENT" => ~Behind(turn.scope, CurrentScope(live.rca))
        /\ \/ turn.scope = CurrentScope(live.rca)
           \/ /\ turn.scope.id = CurrentScope(live.rca).id
              /\ turn.scope.revision = CurrentScope(live.rca).revision + 1
           \/ turn.scope.id > CurrentScope(live.rca).id /\ turn.scope.revision = 1
    BY <1>2, ScopeAhead DEF Opened, Placed
  <2>3. turn.kind # "KEEP_CURRENT" => InScope(live.facts, turn.scope) = {}
    BY <1>2, <2>2, NothingAhead
  <2>4. QED
    BY <1>1, <2>1, <2>2, <2>3
<1>5. QED
  BY <1>3, <1>4 DEF Decision

-----------------------------------------------------------------------------
(* The properties *)

\* The published stores and their staged copy are well formed at every step of a turn, rolled
\* back or published, for any number of obligations and hypotheses.
THEOREM TypeCorrect == Spec => []TypeOK
<1>1. IInv => TypeOK
  BY DEF IInv, Consistent, TypeOK
<1>2. QED
  BY <1>1, Invariance, PTL

\* At every publication the reducer links exactly the Evidence that EvidenceMemory has pinned,
\* and each of those was related to an obligation.
THEOREM LedgersAgreeHolds == Spec => []LedgersAgree
<1>1. IInv => LedgersAgree
  BY DEF IInv, Consistent, Agree, Related, LedgersAgree
<1>2. QED
  BY <1>1, Invariance, PTL

\* No revision inherits an answer: what satisfies an obligation was related to it in the current
\* revision of the current hypothesis.
THEOREM SatisfactionNotInherited == Spec => []SatisfiedInCurrentScope
<1>1. IInv => SatisfiedInCurrentScope
  BY DEF IInv, Consistent, Earned, SatisfiedInCurrentScope
<1>2. QED
  BY <1>1, Invariance, PTL

\* A candidate FinalizationPolicy lets through has met every contradictory relationship of its
\* scope, and rests on no satisfied obligation with an undecided one.
THEOREM FinalizationIsSound == Spec => []FinalizationSound
<1>1. ASSUME IInv PROVE FinalizationSound
  <2> DEFINE scope == CurrentScope(live.rca)
  <2> SUFFICES ASSUME Finalizable(live), NEW f \in InScope(live.facts, scope),
                      f.relation = "CONTRADICTS"
               PROVE  /\ f.evidence \in Contradicted(live.rca) \ Blocking(live.rca)
                      /\ f.obligation \in Satisfied(live.rca) => f.evidence \in Decided(live.rca)
    BY DEF FinalizationSound
  <2>1. /\ HasHypothesis(live.rca) /\ Blocking(live.rca) = {}
        /\ \A o \in Satisfied(live.rca) : SlotsCovered(live, o)
    BY DEF Finalizable
  <2>2. Recorded(live) /\ Settled(live, scope)
    BY <1>1, <2>1, InvParts DEF Sound
  <2>3. f.evidence \in Contradicted(live.rca)
    BY <2>2 DEF Recorded
  <2>4. ASSUME f.obligation \in Satisfied(live.rca) PROVE f.evidence \in Decided(live.rca)
    <3>1. /\ MatchingSet(live, f.obligation).scope = scope
          /\ MatchingSet(live, f.obligation).semantic_status = "SATISFIES"
      BY <2>1, <2>4 DEF SlotsCovered
    <3>2. Contradicting(live, f.obligation, scope) = {}
      BY <2>2, <2>4, <3>1 DEF Settled, SetOf, MatchingSet, Satisfied
    <3>3. f \in FactsOf(live, f.obligation, scope)
      BY DEF FactsOf
    <3>4. QED
      BY <3>2, <3>3 DEF Contradicting
  <2>5. QED
    BY <2>1, <2>3, <2>4
<1>2. QED
  BY <1>1, Invariance, PTL

OpensFresh ==
  CurrentScope(live'.rca) # CurrentScope(live.rca)
    => \A f \in live.facts : f.scope # CurrentScope(live'.rca)

\* A refined or replaced hypothesis starts in a scope that no admitted relationship of the whole
\* incident belongs to, however branches and revisions alternate.
THEOREM FreshScopeHolds == Spec => FreshScope
<1>1. ASSUME IInv, [Next]_vars PROVE OpensFresh
  <2>1. CASE live' = live
    BY <2>1 DEF OpensFresh
  <2>2. CASE Decision(live, staged, turn, live')
    BY <1>1, <2>2, DecisionScope DEF OpensFresh, InScope
  <2>3. CASE IsBlocked(live.rca, live'.rca) \/ IsAsked(live.rca, live'.rca)
    BY <2>3 DEF OpensFresh, IsBlocked, IsAsked, Outside
  <2>4. QED
    BY <1>1, <2>1, <2>2, <2>3, LiveStep
<1>2. IInv /\ [Next]_vars => [OpensFresh]_vars
  BY <1>1
<1>3. QED
  BY <1>2, Invariance, PTL DEF Spec, FreshScope, OpensFresh

DropsOnlyNamed ==
  CurrentScope(live'.rca) = CurrentScope(live.rca)
    => \A e \in Blocking(live.rca) \ Blocking(live'.rca) : turn.contradictions[e] # NoContradiction

\* While the hypothesis scope stays, a contradiction stops blocking only in a published decision
\* that named it.
THEOREM BlockingNotDroppedHolds == Spec => BlockingNotDropped
<1>1. ASSUME IInv, [Next]_vars PROVE DropsOnlyNamed
  <2>1. CASE live' = live
    BY <2>1 DEF DropsOnlyNamed
  <2>2. CASE Decision(live, staged, turn, live')
    <3>1. Blocking(live'.rca) = Blocking(staged.rca)
      BY <2>2 DEF Decision, IsPublished, IsSuperseded, Blocking
    <3>2. QED
      BY <1>1, <2>2, <3>1, DecisionScope DEF Decision, Kept, DropsOnlyNamed
  <2>3. CASE IsBlocked(live.rca, live'.rca) \/ IsAsked(live.rca, live'.rca)
    BY <2>3 DEF DropsOnlyNamed, IsBlocked, IsAsked, Outside, Blocking
  <2>4. QED
    BY <1>1, <2>1, <2>2, <2>3, LiveStep
<1>2. IInv /\ [Next]_vars => [DropsOnlyNamed]_vars
  BY <1>1
<1>3. QED
  BY <1>2, Invariance, PTL DEF Spec, BlockingNotDropped, DropsOnlyNamed

-----------------------------------------------------------------------------
(* The refinement *)

RelatedIn(facts) ==
  {[scope |-> f.scope, obligation |-> f.obligation, evidence |-> f.evidence] : f \in facts}

\* Staging stays within the lifecycle one decision may take an obligation through.
LEMMA StagedLifecycle ==
  \A x \in ObligationStatus \cup {Absent} :
    /\ Staged(x) \subseteq Canonical!Lifecycle(x)
    /\ x \in {"OPEN", "BLOCKED_BY_CAPABILITY"} => "SUPERSEDED_BY_REPLAN" \in Canonical!Lifecycle(x)
BY DEF Staged, Canonical!Lifecycle, Canonical!Closed, ObligationStatus, Absent

LEMMA CommitStep ==
  ASSUME IInv, IInv', Decision(live, staged, turn, live'), Rebuilt(live, staged, turn)
  PROVE  Canonical!Commit
<1> DEFINE D == turn.supersede
           s == live.rca
           r == live'.rca
<1>1. /\ Opened(live, turn) /\ Grew(live, staged, turn) /\ IsPublished(staged, D, live')
      /\ D \subseteq Active(staged.rca)
  BY DEF Decision
<1>2. /\ live'.facts = staged.facts /\ CurrentScope(r) = turn.scope
      /\ r.hypotheses = staged.rca.hypotheses /\ r.support = staged.rca.support
      /\ \A o \in Obligations :
           r.status[o] = IF o \in D THEN "SUPERSEDED_BY_REPLAN" ELSE staged.rca.status[o]
  BY <1>1 DEF IsPublished, IsSuperseded, Rebuilt
<1>3. s \in RCAStates /\ s.status \in Statuses /\ Unsupported(staged)
  BY InvParts, RCAParts DEF Consistent
<1>4. Len(r.hypotheses) = Len(s.hypotheses) + 1
  BY <1>2 DEF Rebuilt
<1>5. Canonical!Follows(CurrentScope(r), CurrentScope(s))
  BY DecisionScope DEF Canonical!Follows
<1>6. /\ RelatedIn(live.facts) \subseteq RelatedIn(live'.facts)
      /\ \A x \in RelatedIn(live'.facts) \ RelatedIn(live.facts) : x.scope = CurrentScope(r)
  BY <1>1, <1>2 DEF Grew, RelatedIn
<1>7. ASSUME NEW o \in Obligations
      PROVE  /\ r.status[o] \in Canonical!Lifecycle(s.status[o])
             /\ r.status[o] = "OPEN" => r.support[o] = {}
  <2>1. staged.rca.status[o] \in Staged(s.status[o]) /\ s.status[o] \in ObligationStatus \cup {Absent}
    BY <1>3 DEF Rebuilt, Statuses
  <2>2. o \in D => s.status[o] \in {"OPEN", "BLOCKED_BY_CAPABILITY"}
    BY <1>1 DEF Opened, Active
  <2>3. QED
    BY <1>2, <1>3, <2>1, <2>2, StagedLifecycle DEF Unsupported
<1>8. ASSUME NEW o \in Obligations, r.status[o] = "SATISFIED"
      PROVE  \/ /\ CurrentScope(r) = CurrentScope(s) /\ s.status[o] = "SATISFIED"
                /\ r.support[o] = s.support[o]
             \/ /\ r.support[o] # {}
                /\ \A e \in r.support[o] :
                     [scope |-> CurrentScope(r), obligation |-> o, evidence |-> e]
                       \in RelatedIn(live'.facts)
  <2>1. o \in Satisfied(staged.rca)
    BY <1>2, <1>8 DEF Satisfied
  <2>2. AnsweredIn(live, staged, o)
    BY <2>1 DEF Rebuilt, Answers
  <2>3. CurrentScope(staged.rca) = CurrentScope(r)
    BY <1>2 DEF Rebuilt
  <2>4. \A f \in FactsOf(staged, o, CurrentScope(r)) :
          [scope |-> CurrentScope(r), obligation |-> o, evidence |-> f.evidence]
            \in RelatedIn(live'.facts)
    BY <1>2 DEF FactsOf, InScope, RelatedIn
  <2>5. QED
    BY <1>2, <2>2, <2>3, <2>4 DEF AnsweredIn
<1>9. QED
  BY <1>4, <1>5, <1>6, <1>7, <1>8 DEF Canonical!Commit, Canonical!Answered, RelatedIn

LEMMA ReconsiderStep ==
  ASSUME IInv, Decision(live, staged, turn, live'), Repeated(live, staged)
  PROVE  Canonical!Reconsider
<1> DEFINE D == turn.supersede
           s == live.rca
           r == live'.rca
<1>1. Opened(live, turn) /\ IsPublished(staged, D, live')
  BY DEF Decision
<1>2. /\ live'.facts = live.facts /\ r.hypotheses = s.hypotheses /\ r.support = staged.rca.support
      /\ \A o \in Obligations :
           r.status[o] = IF o \in D THEN "SUPERSEDED_BY_REPLAN" ELSE staged.rca.status[o]
  BY <1>1 DEF IsPublished, IsSuperseded, Repeated
<1>3. CurrentScope(r) = CurrentScope(s)
  BY <1>2 DEF CurrentScope, Current, HasHypothesis
<1>4. ASSUME NEW o \in Obligations
      PROVE  \/ r.status[o] = s.status[o] /\ r.support[o] = s.support[o]
             \/ s.status[o] = "SATISFIED" /\ r.status[o] = "OPEN" /\ r.support[o] = {}
             \/ s.status[o] \in Canonical!Open /\ r.status[o] = "SUPERSEDED_BY_REPLAN"
  <2>1. o \in D => s.status[o] \in {"OPEN", "BLOCKED_BY_CAPABILITY"}
    BY <1>1 DEF Opened, Active
  <2>2. QED
    BY <1>2, <2>1 DEF Repeated, Canonical!Open
<1>5. QED
  BY <1>2, <1>3, <1>4 DEF Canonical!Reconsider

LEMMA LoseCapabilityStep ==
  ASSUME IInv, live'.facts = live.facts, IsBlocked(live.rca, live'.rca)
  PROVE  Canonical!LoseCapability
<1>1. Unsupported(live)
  BY InvParts DEF Consistent
<1>2. \A o \in Obligations :
        IF live.rca.status[o] = "OPEN"
        THEN /\ live'.rca.status[o] \in {"BLOCKED_BY_CAPABILITY", "NOT_APPLICABLE_BY_CAPABILITY"}
             /\ live'.rca.support[o] = {}
        ELSE live'.rca.status[o] = live.rca.status[o] /\ live'.rca.support[o] = live.rca.support[o]
  BY <1>1 DEF IsBlocked, Outside, Unsupported
<1>3. /\ CurrentScope(live'.rca) = CurrentScope(live.rca)
      /\ Len(live'.rca.hypotheses) = Len(live.rca.hypotheses) + 1
  BY DEF IsBlocked, Outside
<1>4. QED
  BY <1>2, <1>3 DEF Canonical!LoseCapability

LEMMA RaiseGapsStep ==
  ASSUME IInv, live'.facts = live.facts, IsAsked(live.rca, live'.rca)
  PROVE  Canonical!RaiseGaps
<1>1. Unsupported(live)
  BY InvParts DEF Consistent
<1>2. \A o \in Obligations :
        \/ live'.rca.status[o] = live.rca.status[o] /\ live'.rca.support[o] = live.rca.support[o]
        \/ /\ live.rca.status[o] = "ABSENT" /\ live'.rca.status[o] = "OPEN"
           /\ live'.rca.support[o] = {}
  BY <1>1 DEF IsAsked, Outside, Unsupported, Absent
<1>3. /\ CurrentScope(live'.rca) = CurrentScope(live.rca)
      /\ live'.rca.hypotheses = live.rca.hypotheses
  BY DEF IsAsked, Outside
<1>4. QED
  BY <1>2, <1>3 DEF Canonical!RaiseGaps

LEMMA CanonicalInit == Init => Canonical!Init
<1> SUFFICES ASSUME Init PROVE Canonical!Init
  OBVIOUS
<1>1. live.rca = EmptyRCAState /\ live.facts = {} /\ live.rca.hypotheses = << >>
  BY EmptyType DEF Init, EmptyStores
<1>2. /\ live.rca.status = [o \in Obligations |-> "ABSENT"]
      /\ live.rca.support = [o \in Obligations |-> {}]
  BY <1>1 DEF EmptyRCAState, Absent
<1>3. CurrentScope(live.rca) = NoScope /\ Len(live.rca.hypotheses) = 0
  BY <1>1, EmptyType, CurrentType DEF HasHypothesis
<1>4. QED
  BY <1>1, <1>2, <1>3 DEF Canonical!Init

\* Staging is invisible to whoever reads the published stores: each step is one atomic decision,
\* capability loss or review gap of CanonicalDiagnosis, or changes nothing there.
THEOREM RefinesCanonicalDiagnosis == Spec => ImplementsCanonicalDiagnosis
<1>1. IInv /\ IInv' /\ [Next]_vars => [Canonical!Next]_(Canonical!vars)
  <2> SUFFICES ASSUME IInv, IInv', [Next]_vars
               PROVE  Canonical!Next \/ UNCHANGED Canonical!vars
    OBVIOUS
  <2>1. CASE live' = live
    BY <2>1 DEF Canonical!vars
  <2>2. CASE Decision(live, staged, turn, live')
    BY <2>2, CommitStep, ReconsiderStep DEF Decision, Canonical!Next
  <2>3. CASE live'.facts = live.facts /\ IsBlocked(live.rca, live'.rca)
    BY <2>3, LoseCapabilityStep DEF Canonical!Next
  <2>4. CASE live'.facts = live.facts /\ IsAsked(live.rca, live'.rca)
    BY <2>4, RaiseGapsStep DEF Canonical!Next
  <2>5. QED
    BY <2>1, <2>2, <2>3, <2>4, LiveStep
<1>2. QED
  BY <1>1, CanonicalInit, Invariance, PTL DEF Spec, ImplementsCanonicalDiagnosis, Canonical!Spec

=============================================================================
