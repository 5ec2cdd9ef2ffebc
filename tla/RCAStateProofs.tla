--------------------------- MODULE RCAStateProofs ---------------------------
(***************************************************************************)
(* Proofs about RCAState, for every set of obligations and Evidence.       *)
(***************************************************************************)
EXTENDS RCAState, TLAPS

Statuses == [Obligations -> ObligationStatus \cup {Absent}]
Supports == [Obligations -> SUBSET Evidence]

-----------------------------------------------------------------------------
(* Every event maps a state record to a state record. *)

LEMMA AddObligationType ==
  ASSUME NEW s \in RCAStates, NEW o \in Obligations,
         NEW t \in ObligationStatus, NEW S \in SUBSET Evidence
  PROVE  AddObligation(s, o, t, S) \in RCAStates
<1> DEFINE a == [s.status EXCEPT ![o] = t]
           b == [s.support EXCEPT ![o] = S]
           n == s.event_count + 1
<1>1. a \in Statuses /\ b \in Supports /\ n \in Nat
  BY DEF RCAStates, Statuses, Supports
<1>2. AddObligation(s, o, t, S) = [s EXCEPT !.status = a, !.support = b, !.event_count = n]
  BY DEF AddObligation, RCAStates
<1> HIDE DEF a, b, n
<1>3. [s EXCEPT !.status = a, !.support = b, !.event_count = n] \in RCAStates
  BY <1>1 DEF RCAStates, Statuses, Supports
<1>4. QED
  BY <1>2, <1>3

LEMMA UpdateObligationType ==
  ASSUME NEW s \in RCAStates, NEW o \in Obligations,
         NEW t \in ObligationStatus, NEW S \in SUBSET Evidence
  PROVE  UpdateObligation(s, o, t, S) \in RCAStates
<1>1. UpdateObligation(s, o, t, S) = AddObligation(s, o, t, S)
  BY DEF UpdateObligation, AddObligation
<1>2. QED
  BY <1>1, AddObligationType

LEMMA ReopenType ==
  ASSUME NEW s \in RCAStates, NEW o \in Obligations
  PROVE  Reopen(s, o) \in RCAStates
<1>1. Reopen(s, o) = AddObligation(s, o, "OPEN", {})
  BY DEF Reopen, AddObligation
<1>2. QED
  BY <1>1, AddObligationType DEF ObligationStatus

LEMMA SupersedeObligationType ==
  ASSUME NEW s \in RCAStates, NEW o \in Obligations
  PROVE  SupersedeObligation(s, o) \in RCAStates
<1> DEFINE a == [s.status EXCEPT ![o] = "SUPERSEDED_BY_REPLAN"]
           n == s.event_count + 1
<1>1. a \in Statuses /\ n \in Nat
  BY DEF RCAStates, ObligationStatus, Statuses
<1>2. SupersedeObligation(s, o) = [s EXCEPT !.status = a, !.event_count = n]
  BY DEF SupersedeObligation, RCAStates
<1> HIDE DEF a, n
<1>3. [s EXCEPT !.status = a, !.event_count = n] \in RCAStates
  BY <1>1 DEF RCAStates, Statuses
<1>4. QED
  BY <1>2, <1>3

LEMMA LinkEvidenceType ==
  ASSUME NEW s \in RCAStates, NEW e \in Evidence
  PROVE  LinkEvidence(s, e) \in RCAStates
<1> DEFINE E == s.evidence \cup {e}
           n == s.event_count + 1
<1>1. E \in SUBSET Evidence /\ n \in Nat
  BY DEF RCAStates
<1>2. LinkEvidence(s, e) = [s EXCEPT !.evidence = E, !.event_count = n]
  BY DEF LinkEvidence
<1> HIDE DEF E, n
<1>3. [s EXCEPT !.evidence = E, !.event_count = n] \in RCAStates
  BY <1>1 DEF RCAStates
<1>4. QED
  BY <1>2, <1>3

LEMMA SetContradictionsType ==
  ASSUME NEW s \in RCAStates,
         NEW c \in [Evidence -> Contradiction \cup {NoContradiction}]
  PROVE  SetContradictions(s, c) \in RCAStates
<1> DEFINE n == s.event_count + 1
<1>1. n \in Nat
  BY DEF RCAStates
<1>2. SetContradictions(s, c) = [s EXCEPT !.contradictions = c, !.event_count = n]
  BY DEF SetContradictions
<1> HIDE DEF n
<1>3. [s EXCEPT !.contradictions = c, !.event_count = n] \in RCAStates
  BY <1>1 DEF RCAStates
<1>4. QED
  BY <1>2, <1>3

LEMMA AddContradictionType ==
  ASSUME NEW s \in RCAStates, NEW e \in Evidence, NEW c \in Contradiction
  PROVE  AddContradiction(s, e, c) \in RCAStates
<1> DEFINE d == [s.contradictions EXCEPT ![e] = c]
<1>1. d \in [Evidence -> Contradiction \cup {NoContradiction}]
  BY DEF RCAStates
<1>2. AddContradiction(s, e, c) = SetContradictions(s, d)
  BY DEF AddContradiction, SetContradictions, RCAStates
<1> HIDE DEF d
<1>3. QED
  BY <1>1, <1>2, SetContradictionsType

LEMMA SetHypothesisType ==
  ASSUME NEW s \in RCAStates, NEW h \in Hypothesis
  PROVE  SetHypothesis(s, h) \in RCAStates
<1> DEFINE H == Append(s.hypotheses, h)
           n == s.event_count + 1
<1>1. H \in Seq(Hypothesis) /\ n \in Nat
  BY DEF RCAStates
<1>2. SetHypothesis(s, h) = [s EXCEPT !.hypotheses = H, !.event_count = n]
  BY DEF SetHypothesis
<1> HIDE DEF H, n
<1>3. [s EXCEPT !.hypotheses = H, !.event_count = n] \in RCAStates
  BY <1>1 DEF RCAStates
<1>4. QED
  BY <1>2, <1>3

LEMMA AddSemanticRecordType ==
  ASSUME NEW s \in RCAStates, NEW E \in SUBSET Evidence
  PROVE  AddSemanticRecord(s, E) \in RCAStates
<1> DEFINE R == Append(s.records, E)
           n == s.event_count + 1
<1>1. R \in Seq(SUBSET Evidence) /\ n \in Nat
  BY DEF RCAStates
<1>2. AddSemanticRecord(s, E) = [s EXCEPT !.records = R, !.event_count = n]
  BY DEF AddSemanticRecord
<1> HIDE DEF R, n
<1>3. [s EXCEPT !.records = R, !.event_count = n] \in RCAStates
  BY <1>1 DEF RCAStates
<1>4. QED
  BY <1>2, <1>3

-----------------------------------------------------------------------------
(* The type invariant: no event sequence leaves the record type. *)

LEMMA TypeStep == ASSUME TypeOK, [Next]_vars PROVE TypeOK'
<1> USE DEF TypeOK
<1>1. ASSUME NEW o \in Obligations, NEW t \in ObligationStatus, NEW S \in SUBSET Evidence,
             DoAddObligation(o, t, S)
      PROVE  TypeOK'
  BY <1>1, AddObligationType DEF DoAddObligation
<1>2. ASSUME NEW o \in Obligations, NEW t \in ObligationStatus, NEW S \in SUBSET Evidence,
             DoUpdateObligation(o, t, S)
      PROVE  TypeOK'
  BY <1>2, UpdateObligationType DEF DoUpdateObligation
<1>3. ASSUME NEW o \in Obligations, DoSupersedeObligation(o) PROVE TypeOK'
  BY <1>3, SupersedeObligationType DEF DoSupersedeObligation
<1>4. ASSUME NEW o \in Obligations, DoReopenObligation(o) \/ DoInvalidateBranch(o)
      PROVE  TypeOK'
  BY <1>4, ReopenType DEF DoReopenObligation, DoInvalidateBranch
<1>5. ASSUME NEW e \in Evidence, DoLinkEvidence(e) PROVE TypeOK'
  BY <1>5, LinkEvidenceType DEF DoLinkEvidence
<1>6. ASSUME NEW e \in Evidence, NEW c \in Contradiction, DoContradiction(e, c) PROVE TypeOK'
  BY <1>6, AddContradictionType DEF DoContradiction
<1>7. ASSUME NEW h \in Hypothesis, NEW O \in SUBSET Obligations, NEW E \in SUBSET Evidence,
             DoSetHypothesis(h, O, E)
      PROVE  TypeOK'
  BY <1>7, SetHypothesisType DEF DoSetHypothesis
<1>8. ASSUME NEW c \in [Evidence -> Contradiction \cup {NoContradiction}], DoSetContradictions(c)
      PROVE  TypeOK'
  BY <1>8, SetContradictionsType DEF DoSetContradictions
<1>9. ASSUME NEW E \in SUBSET Evidence, DoAddSemanticRecord(E) PROVE TypeOK'
  BY <1>9, AddSemanticRecordType DEF DoAddSemanticRecord
<1>10. CASE UNCHANGED vars
  BY <1>10 DEF vars
<1>11. QED
  BY <1>1, <1>2, <1>3, <1>4, <1>5, <1>6, <1>7, <1>8, <1>9, <1>10
     DEF Next, ObligationEvent, EvidenceEvent, SnapshotEvent

\* TypeOK holds in every reachable state, for every set of obligations and Evidence.
THEOREM TypeCorrect == Spec => []TypeOK
<1>1. Init => TypeOK
  BY DEF Init, TypeOK, RCAStates, EmptyRCAState
<1>2. TypeOK /\ [Next]_vars => TypeOK'
  BY TypeStep
<1>3. QED
  BY <1>1, <1>2, PTL DEF Spec

-----------------------------------------------------------------------------
(* Integrity: every event that cites Evidence cites Evidence that is admitted, *)
(* and Evidence is never removed.                                              *)

Integrity == TypeOK /\ ReferentialIntegrity

\* An event that changes one obligation only.
ObligationChange(o, t, S) ==
  /\ rca'.status = [rca.status EXCEPT ![o] = t]
  /\ rca'.support = [rca.support EXCEPT ![o] = S]
  /\ rca'.evidence = rca.evidence
  /\ rca'.contradictions = rca.contradictions
  /\ rca'.hypotheses = rca.hypotheses
  /\ rca'.records = rca.records

LEMMA ObligationStep ==
  ASSUME Integrity, TypeOK', NEW o \in Obligations,
         NEW t \in ObligationStatus, NEW S \in SUBSET rca.evidence,
         ObligationChange(o, t, S)
  PROVE  Integrity'
<1> USE DEF Integrity, TypeOK, RCAStates, ObligationChange
<1>1. ReferentialIntegrity'
  BY DEF ReferentialIntegrity, Contradicted
<1>2. QED
  BY <1>1

\* An event that leaves the obligations alone and removes no Evidence.
LEMMA LedgerStep ==
  ASSUME Integrity, TypeOK', rca.evidence \subseteq rca'.evidence,
         rca'.support = rca.support,
         Contradicted(rca)' \subseteq rca'.evidence,
         \A i \in 1..Len(rca'.hypotheses) :
           \/ i \in 1..Len(rca.hypotheses) /\ rca'.hypotheses[i] = rca.hypotheses[i]
           \/ rca'.hypotheses[i].support \subseteq rca'.evidence,
         \A i \in 1..Len(rca'.records) :
           \/ i \in 1..Len(rca.records) /\ rca'.records[i] = rca.records[i]
           \/ rca'.records[i] \subseteq rca'.evidence
  PROVE  Integrity'
<1> USE DEF Integrity
<1>1. \A o \in Obligations : rca'.support[o] \subseteq rca'.evidence
  BY DEF ReferentialIntegrity
<1>2. \A i \in 1..Len(rca'.hypotheses) : rca'.hypotheses[i].support \subseteq rca'.evidence
  BY DEF ReferentialIntegrity
<1>3. \A i \in 1..Len(rca'.records) : rca'.records[i] \subseteq rca'.evidence
  BY DEF ReferentialIntegrity
<1>4. ReferentialIntegrity'
  BY <1>1, <1>2, <1>3 DEF ReferentialIntegrity
<1>5. QED
  BY <1>4

LEMMA IntegrityStep == ASSUME Integrity, [Next]_vars PROVE Integrity'
<1>0. TypeOK'
  BY TypeStep DEF Integrity
<1> USE DEF Integrity, TypeOK
<1>1. ASSUME NEW o \in Obligations, NEW t \in ObligationStatus, NEW S \in SUBSET Evidence,
             DoAddObligation(o, t, S)
      PROVE  Integrity'
  <2>1. ObligationChange(o, t, S)
    BY <1>1 DEF DoAddObligation, AddObligation, RCAStates, ObligationChange
  <2>2. S \in SUBSET rca.evidence
    BY <1>1 DEF DoAddObligation, AddObligationAllowed
  <2>3. QED
    BY <1>0, <2>1, <2>2, ObligationStep
<1>2. ASSUME NEW o \in Obligations, NEW t \in ObligationStatus, NEW S \in SUBSET Evidence,
             DoUpdateObligation(o, t, S)
      PROVE  Integrity'
  <2>1. ObligationChange(o, t, S)
    BY <1>2 DEF DoUpdateObligation, UpdateObligation, RCAStates, ObligationChange
  <2>2. S \in SUBSET rca.evidence
    BY <1>2 DEF DoUpdateObligation, UpdateObligationAllowed
  <2>3. QED
    BY <1>0, <2>1, <2>2, ObligationStep
<1>3. ASSUME NEW o \in Obligations, DoSupersedeObligation(o) PROVE Integrity'
  <2>1. ObligationChange(o, "SUPERSEDED_BY_REPLAN", rca.support[o])
    BY <1>3 DEF DoSupersedeObligation, SupersedeObligation, RCAStates, ObligationChange
  <2>2. rca.support[o] \in SUBSET rca.evidence
    BY DEF ReferentialIntegrity
  <2>3. QED
    BY <1>0, <2>1, <2>2, ObligationStep DEF ObligationStatus
<1>4. ASSUME NEW o \in Obligations, DoReopenObligation(o) \/ DoInvalidateBranch(o)
      PROVE  Integrity'
  <2>1. ObligationChange(o, "OPEN", {})
    BY <1>4 DEF DoReopenObligation, DoInvalidateBranch, Reopen, RCAStates, ObligationChange
  <2>2. QED
    BY <1>0, <2>1, ObligationStep DEF ObligationStatus
<1>5. ASSUME NEW e \in Evidence, DoLinkEvidence(e) PROVE Integrity'
  BY <1>0, <1>5, LedgerStep
     DEF DoLinkEvidence, LinkEvidence, RCAStates, ReferentialIntegrity, Contradicted
<1>6. ASSUME NEW e \in Evidence, NEW c \in Contradiction, DoContradiction(e, c)
      PROVE  Integrity'
  BY <1>0, <1>6, LedgerStep
     DEF DoContradiction, AddContradiction, AddContradictionAllowed, RCAStates,
         ReferentialIntegrity, Contradicted
<1>7. ASSUME NEW h \in Hypothesis, NEW O \in SUBSET Obligations, NEW E \in SUBSET Evidence,
             DoSetHypothesis(h, O, E)
      PROVE  Integrity'
  <2>1. rca'.hypotheses = Append(rca.hypotheses, h) /\ h.support \subseteq rca.evidence
    BY <1>7 DEF DoSetHypothesis, SetHypothesis, SetHypothesisAllowed, RCAStates
  <2>2. \A i \in 1..Len(rca'.hypotheses) :
          \/ i \in 1..Len(rca.hypotheses) /\ rca'.hypotheses[i] = rca.hypotheses[i]
          \/ rca'.hypotheses[i].support \subseteq rca.evidence
    BY <2>1 DEF RCAStates
  <2>3. QED
    BY <1>0, <1>7, <2>2, LedgerStep
       DEF DoSetHypothesis, SetHypothesis, RCAStates, ReferentialIntegrity, Contradicted
<1>8. ASSUME NEW c \in [Evidence -> Contradiction \cup {NoContradiction}], DoSetContradictions(c)
      PROVE  Integrity'
  BY <1>0, <1>8, LedgerStep
     DEF DoSetContradictions, SetContradictions, SetContradictionsAllowed, RCAStates, Contradicted
<1>9. ASSUME NEW E \in SUBSET Evidence, DoAddSemanticRecord(E) PROVE Integrity'
  <2>1. rca'.records = Append(rca.records, E) /\ E \subseteq rca.evidence
    BY <1>9 DEF DoAddSemanticRecord, AddSemanticRecord, AddSemanticRecordAllowed, RCAStates
  <2>2. \A i \in 1..Len(rca'.records) :
          \/ i \in 1..Len(rca.records) /\ rca'.records[i] = rca.records[i]
          \/ rca'.records[i] \subseteq rca.evidence
    BY <2>1 DEF RCAStates
  <2>3. QED
    BY <1>0, <1>9, <2>2, LedgerStep
       DEF DoAddSemanticRecord, AddSemanticRecord, RCAStates, ReferentialIntegrity, Contradicted
<1>10. CASE UNCHANGED vars
  BY <1>10 DEF vars, ReferentialIntegrity
<1>11. QED
  BY <1>1, <1>2, <1>3, <1>4, <1>5, <1>6, <1>7, <1>8, <1>9, <1>10
     DEF Next, ObligationEvent, EvidenceEvent, SnapshotEvent

LEMMA IntegrityInvariant == Spec => []Integrity
<1>1. Init => Integrity
  BY DEF Init, Integrity, TypeOK, RCAStates, EmptyRCAState, ReferentialIntegrity,
         Contradicted, Absent
<1>2. Integrity /\ [Next]_vars => Integrity'
  BY IntegrityStep
<1>3. QED
  BY <1>1, <1>2, PTL DEF Spec

\* No event sequence makes the state cite Evidence that was never admitted: the
\* obligations, contradictions, records and the whole hypothesis history.
THEOREM ReferentialIntegrityHolds == Spec => []ReferentialIntegrity
<1>1. Integrity => ReferentialIntegrity
  BY DEF Integrity
<1>2. QED
  BY <1>1, IntegrityInvariant, PTL

-----------------------------------------------------------------------------
(* What a step may never do. *)

OneEvent == rca'.event_count = rca.event_count + 1

Accumulates ==
  /\ rca.evidence \subseteq rca'.evidence
  /\ Len(rca'.hypotheses) >= Len(rca.hypotheses)
  /\ \A i \in 1..Len(rca.hypotheses) : rca'.hypotheses[i] = rca.hypotheses[i]
  /\ Len(rca'.records) >= Len(rca.records)
  /\ \A i \in 1..Len(rca.records) : rca'.records[i] = rca.records[i]

LifecycleKept ==
  \A o \in Obligations :
    /\ rca.status[o] \in {"NOT_APPLICABLE_BY_CAPABILITY", "SUPERSEDED_BY_REPLAN"}
         => rca'.status[o] = rca.status[o]
    /\ rca.status[o] = "BLOCKED_BY_CAPABILITY"
         => rca'.status[o] \notin {"OPEN", "SATISFIED", Absent}
    /\ rca.status[o] # Absent => rca'.status[o] # Absent

DecisionsKept ==
  \A e \in Evidence :
    /\ rca.contradictions[e].status \in {"RESOLVED", "EXPLAINED"}
    /\ rca'.contradictions[e] # NoContradiction
    => rca'.contradictions[e].status = rca.contradictions[e].status

GroundingKept ==
  \A o \in Obligations :
    rca'.status[o] = "SATISFIED" /\ rca'.support[o] = {} =>
      \/ rca.status[o] = Absent
      \/ rca.status[o] = "SATISFIED" /\ rca.support[o] = {}

Kept == OneEvent /\ Accumulates /\ LifecycleKept /\ DecisionsKept /\ GroundingKept

LEMMA ObligationEventKept ==
  ASSUME TypeOK, ObligationEvent
  PROVE  Kept
<1> USE DEF TypeOK
<1>1. ASSUME NEW o \in Obligations, NEW t \in ObligationStatus, NEW S,
             ObligationChange(o, t, S),
             OneEvent,
             t = "SATISFIED" => S # {} \/ rca.status[o] = Absent,
             \/ rca.status[o] = Absent
             \/ rca.status[o] \in {"OPEN", "SATISFIED"}
             \/ t \in ObligationMoves(rca.status[o])
             \/ t = "SUPERSEDED_BY_REPLAN" /\ o \in Active(rca)
      PROVE  Kept
  <2>1. Accumulates /\ DecisionsKept
    BY <1>1 DEF ObligationChange, Accumulates, DecisionsKept, RCAStates
  <2>2. ASSUME NEW q \in Obligations, q # o
        PROVE  rca'.status[q] = rca.status[q] /\ rca'.support[q] = rca.support[q]
    BY <1>1, <2>2 DEF ObligationChange, RCAStates
  <2>3. rca'.status[o] = t /\ rca'.support[o] = S
    BY <1>1 DEF ObligationChange, RCAStates
  <2>4. LifecycleKept
    BY <1>1, <2>2, <2>3 DEF LifecycleKept, ObligationMoves, ObligationStatus, Active, Absent
  <2>5. GroundingKept
    BY <1>1, <2>2, <2>3 DEF GroundingKept
  <2>6. QED
    BY <1>1, <2>1, <2>4, <2>5 DEF Kept
<1>2. ASSUME NEW o \in Obligations, NEW t \in ObligationStatus, NEW S \in SUBSET Evidence,
             DoAddObligation(o, t, S)
      PROVE  ObligationChange(o, t, S) /\ OneEvent /\ rca.status[o] = Absent
  BY <1>2 DEF DoAddObligation, AddObligation, AddObligationAllowed, RCAStates,
              ObligationChange, OneEvent
<1>3. ASSUME NEW o \in Obligations, NEW t \in ObligationStatus, NEW S \in SUBSET Evidence,
             DoUpdateObligation(o, t, S)
      PROVE  /\ ObligationChange(o, t, S) /\ OneEvent
             /\ t \in ObligationMoves(rca.status[o])
             /\ t = "SATISFIED" => S # {}
  BY <1>3 DEF DoUpdateObligation, UpdateObligation, UpdateObligationAllowed, RCAStates,
              ObligationChange, OneEvent
<1>4. ASSUME NEW o \in Obligations, DoSupersedeObligation(o)
      PROVE  /\ ObligationChange(o, "SUPERSEDED_BY_REPLAN", rca.support[o])
             /\ OneEvent /\ o \in Active(rca)
  BY <1>4 DEF DoSupersedeObligation, SupersedeObligation, SupersedeObligationAllowed,
              RCAStates, ObligationChange, OneEvent
<1>5. ASSUME NEW o \in Obligations, DoReopenObligation(o) \/ DoInvalidateBranch(o)
      PROVE  /\ ObligationChange(o, "OPEN", {}) /\ OneEvent
             /\ rca.status[o] \in {"OPEN", "SATISFIED"}
  BY <1>5 DEF DoReopenObligation, DoInvalidateBranch, ReopenObligationAllowed,
              InvalidateBranchAllowed, Reopen, RCAStates, ObligationChange, OneEvent
<1>6. "OPEN" \in ObligationStatus /\ "SUPERSEDED_BY_REPLAN" \in ObligationStatus
  BY DEF ObligationStatus
<1>7. CASE \E o \in Obligations, t \in ObligationStatus, S \in SUBSET Evidence :
             DoAddObligation(o, t, S)
  BY <1>1, <1>2, <1>7
<1>8. CASE \E o \in Obligations, t \in ObligationStatus, S \in SUBSET Evidence :
             DoUpdateObligation(o, t, S)
  BY <1>1, <1>3, <1>8
<1>9. CASE \E o \in Obligations : DoSupersedeObligation(o)
  BY <1>1, <1>4, <1>6, <1>9
<1>10. CASE \E o \in Obligations : DoReopenObligation(o) \/ DoInvalidateBranch(o)
  BY <1>1, <1>5, <1>6, <1>10
<1>11. QED
  BY <1>7, <1>8, <1>9, <1>10 DEF ObligationEvent

LEMMA EvidenceEventKept ==
  ASSUME TypeOK, EvidenceEvent
  PROVE  Kept
<1> USE DEF TypeOK
<1>1. ASSUME NEW e \in Evidence, DoLinkEvidence(e)
      PROVE  Kept
  BY <1>1 DEF DoLinkEvidence, LinkEvidence, RCAStates, Kept, OneEvent, Accumulates,
              LifecycleKept, DecisionsKept, GroundingKept, Absent
<1>2. ASSUME NEW e \in Evidence, NEW c \in Contradiction, DoContradiction(e, c)
      PROVE  Kept
  <2>1. OneEvent /\ Accumulates /\ LifecycleKept /\ GroundingKept
    BY <1>2 DEF DoContradiction, AddContradiction, RCAStates, OneEvent, Accumulates,
                LifecycleKept, GroundingKept, Absent
  <2>2. /\ rca.contradictions[e] = NoContradiction
        /\ rca'.contradictions = [rca.contradictions EXCEPT ![e] = c]
    BY <1>2 DEF DoContradiction, AddContradiction, AddContradictionAllowed, RCAStates
  <2>3. DecisionsKept
    BY <2>2 DEF DecisionsKept, RCAStates, NoContradiction, Absent
  <2>4. QED
    BY <2>1, <2>3 DEF Kept
<1>3. QED
  BY <1>1, <1>2 DEF EvidenceEvent

LEMMA SnapshotEventKept ==
  ASSUME TypeOK, SnapshotEvent
  PROVE  Kept
<1> USE DEF TypeOK
<1>1. ASSUME NEW h \in Hypothesis, NEW O \in SUBSET Obligations, NEW E \in SUBSET Evidence,
             DoSetHypothesis(h, O, E)
      PROVE  Kept
  <2>1. /\ rca'.hypotheses = Append(rca.hypotheses, h)
        /\ rca'.evidence = rca.evidence /\ rca'.records = rca.records
        /\ rca'.status = rca.status /\ rca'.contradictions = rca.contradictions
        /\ rca'.support = rca.support /\ OneEvent
    BY <1>1 DEF DoSetHypothesis, SetHypothesis, RCAStates, OneEvent
  <2>2. Accumulates
    BY <2>1 DEF Accumulates, RCAStates
  <2>3. QED
    BY <2>1, <2>2 DEF Kept, LifecycleKept, DecisionsKept, GroundingKept, Absent
<1>2. ASSUME NEW c \in [Evidence -> Contradiction \cup {NoContradiction}], DoSetContradictions(c)
      PROVE  Kept
  <2>1. OneEvent /\ Accumulates /\ LifecycleKept /\ GroundingKept
    BY <1>2 DEF DoSetContradictions, SetContradictions, RCAStates, OneEvent, Accumulates,
                LifecycleKept, GroundingKept, Absent
  <2>2. rca'.contradictions = c
    BY <1>2 DEF DoSetContradictions, SetContradictions, RCAStates
  <2>3. ASSUME NEW e \in Evidence, rca.contradictions[e].status \in {"RESOLVED", "EXPLAINED"},
               c[e] # NoContradiction
        PROVE  c[e].status = rca.contradictions[e].status
    <3>1. rca.contradictions[e] # NoContradiction
      BY <2>3 DEF NoContradiction, Absent
    <3>2. c[e].status \in ContradictionMoves(rca.contradictions[e].status)
      BY <1>2, <2>3, <3>1 DEF DoSetContradictions, SetContradictionsAllowed
    <3>3. QED
      BY <2>3, <3>2 DEF ContradictionMoves
  <2>4. QED
    BY <2>1, <2>2, <2>3 DEF Kept, DecisionsKept
<1>3. ASSUME NEW E \in SUBSET Evidence, DoAddSemanticRecord(E)
      PROVE  Kept
  <2>1. /\ rca'.records = Append(rca.records, E)
        /\ rca'.evidence = rca.evidence /\ rca'.hypotheses = rca.hypotheses
        /\ rca'.status = rca.status /\ rca'.contradictions = rca.contradictions
        /\ rca'.support = rca.support /\ OneEvent
    BY <1>3 DEF DoAddSemanticRecord, AddSemanticRecord, RCAStates, OneEvent
  <2>2. Accumulates
    BY <2>1 DEF Accumulates, RCAStates
  <2>3. QED
    BY <2>1, <2>2 DEF Kept, LifecycleKept, DecisionsKept, GroundingKept, Absent
<1>4. QED
  BY <1>1, <1>2, <1>3 DEF SnapshotEvent

LEMMA EventKept ==
  ASSUME TypeOK, [Next]_vars
  PROVE  [Kept]_vars
  BY ObligationEventKept, EvidenceEventKept, SnapshotEventKept DEF Next

\* Capability loss and replanning are final under every sequence of events.
THEOREM LifecycleMonotoneHolds == Spec => LifecycleMonotone
<1>1. TypeOK /\ [Next]_vars => [LifecycleKept]_vars
  BY EventKept DEF Kept
<1>2. QED
  BY <1>1, TypeCorrect, PTL DEF Spec, LifecycleMonotone, LifecycleKept

\* Only the event that adds an obligation can leave it satisfied without Evidence.
THEOREM SatisfiedIsGroundedHolds == Spec => SatisfiedIsGrounded
<1>1. TypeOK /\ [Next]_vars => [GroundingKept]_vars
  BY EventKept DEF Kept
<1>2. QED
  BY <1>1, TypeCorrect, PTL DEF Spec, SatisfiedIsGrounded, GroundingKept

\* The event log only grows, by one event at a time.
THEOREM AppendOnlyHolds == Spec => AppendOnly
<1>1. TypeOK /\ [Next]_vars => [OneEvent /\ Accumulates]_vars
  BY EventKept DEF Kept
<1>2. QED
  BY <1>1, TypeCorrect, PTL DEF Spec, AppendOnly, OneEvent, Accumulates

\* A decided contradiction is never rewritten while it is on record.
THEOREM DecidedContradictionsKeptHolds == Spec => DecidedContradictionsKept
<1>1. TypeOK /\ [Next]_vars => [DecisionsKept]_vars
  BY EventKept DEF Kept
<1>2. QED
  BY <1>1, TypeCorrect, PTL DEF Spec, DecidedContradictionsKept, DecisionsKept
=============================================================================
