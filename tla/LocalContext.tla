---------------------------- MODULE LocalContext ----------------------------
(***************************************************************************)
(* What the Planner sees.  ContextManager.build packs the bodies of        *)
(* retained Observations into one role request, offers what it left out    *)
(* for local recovery, and resolves the Planner's requests within a turn   *)
(* of PlanningSession; InterpretationDecision accepts a semantic decision  *)
(* only over the bodies it has to judge.                                   *)
(*                                                                         *)
(* Abstractions.  A body is a number of lines and every size is counted in *)
(* lines; the text around the bodies is what Room leaves out.  Which       *)
(* Evidence the Planner admits or cites is a choice, and a batch asks for  *)
(* one selector of each body it names.  Not modelled: the                  *)
(* features switched off, contract repairs (ReasonerCalls), the bounds of  *)
(* eight chunks, eight references and a hundred lines, which short bodies  *)
(* do not reach, and the cost of the offers in the schema.                 *)
(***************************************************************************)
EXTENDS Integers, FiniteSets, SequencesExt

CONSTANTS Observations, Contents,
          Content,       \* [Observations -> Contents]: equal bodies make one Evidence
          Lines,         \* [Contents -> Nat]
          Source,        \* contents read from a source file, whose lines are numbered
          Failed,        \* Observations of a call that failed
          Relevant,      \* contents that share a term with the hypothesis
          Levels,        \* states of pressure of the dynamic budget
          Room,          \* [level of pressure -> lines a role request has for bodies]
          Envelope,      \* lines the rest of the role request takes beyond the text
          Index,         \* lines of the index section, which may be given up
          Overhead,      \* lines of the wrapper and metadata of a body
          ReceiptCost,   \* lines of one receipt
          ItemLimit,     \* lines of a body shown unasked
          RowLimit,      \* rows of the catalog of local references
          RecentCount, SoftTarget, HardLimit,
          RepeatWindow,  \* rejected repetitions that are remembered
          RoundLimit     \* CONTEXT_ROUND_LIMIT

ASSUME BodyAssumption ==
  /\ IsFiniteSet(Observations) /\ Content \in [Observations -> Contents]
  /\ Lines \in [Contents -> Nat \ {0}]
  /\ Source \subseteq Contents   \* A source range is acquired once: a repetition is rejected.
  /\ \A o, p \in Observations : Content[o] \in Source /\ Content[p] = Content[o] => p = o
  /\ Failed \subseteq Observations /\ Relevant \subseteq Contents
ASSUME SizeAssumption ==
  /\ Levels \subseteq {"NORMAL", "PRESSURE", "HARD_PRESSURE"} /\ Room \in [Levels -> Nat]
  /\ Envelope \in Nat /\ Index \in Nat /\ Overhead \in Nat /\ ReceiptCost \in Nat
  /\ ItemLimit \in Nat \ {0} /\ RowLimit \in Nat /\ RecentCount \in Nat
  /\ SoftTarget \in Nat \ {0} /\ HardLimit \in Nat /\ HardLimit >= SoftTarget
  /\ RepeatWindow \in Nat /\ RoundLimit \in Nat

VARIABLES store,     \* the ObservationStore, in order of acquisition
          ledger,    \* admitted Evidence and what the hypothesis cites
          due,       \* what the next turn has to look at
          view,      \* interpretation_view
          turn       \* the PlanningSession of the turn
vars == <<store, ledger, due, view, turn>>

Size(o) == Lines[Content[o]]
Body(o) == 1..Size(o)
Held == ToSet(store)
At(o) == CHOOSE i \in DOMAIN store : store[i] = o

NoTurn == [pc |-> "turn", level |-> "NORMAL", closing |-> FALSE, rounds |-> 0,
           asked |-> {}, recovered |-> {}, why |-> "none"]
Init ==
  /\ store \in {s \in UNION {[1..n -> Observations] : n \in 0..Cardinality(Observations)} :
                  \A i, j \in DOMAIN s : i # j => s[i] # s[j]}
  /\ ledger = [admitted |-> {}, support |-> {}, contra |-> {}, hypothesis |-> FALSE]
  /\ due = [bootstrap |-> {}, burst |-> {}, again |-> <<>>]
  /\ view = [shown |-> <<>>, receipts |-> {}, offers |-> {}]
  /\ turn = NoTurn

----------------------------------------------------------------------------
(* The catalog of items.  A build is [local : the ranges requested, level, priority and
   covers : what Priority and Coverage say of each Observation]. *)

Local(b) == {r.obs : r \in b.local}
Earlier(p, o, b) ==
  IF (p \in Local(b)) = (o \in Local(b)) THEN At(p) < At(o) ELSE p \in Local(b)
(* Observations of one admitted fact are shown once. *)
Items(b) ==
  {o \in Held : ~ \E p \in (Held \intersect ledger.admitted) \ {o} :
                   /\ o \in ledger.admitted /\ Content[p] = Content[o] /\ Earlier(p, o, b)}

Cited(o, contents) == o \in ledger.admitted /\ Content[o] \in contents
(* requested_ids: the Evidence of the hypothesis and what the last step acquired. *)
Wanted(o) ==
  IF o \in ledger.admitted THEN Content[o] \in ledger.support
  ELSE o \in due.bootstrap \union due.burst
(* A source read that the hypothesis rests on is shown in full. *)
Rehydrated(o) == Cited(o, ledger.support) /\ Content[o] \in Source /\ Size(o) > ItemLimit
SameFact(o, S) ==
  \/ o \in S
  \/ o \in ledger.admitted /\ \E p \in S \intersect ledger.admitted : Content[p] = Content[o]
Latest == IF store = <<>> THEN {} ELSE {store[Len(store)]}
Recent == {o \in Held : At(o) > Len(store) - RecentCount}

Priority(o, b) ==
  IF o \in Local(b) THEN 0
  ELSE IF Rehydrated(o) THEN 5
  ELSE IF SameFact(o, Latest) THEN 10
  ELSE IF Cited(o, ledger.contra) THEN 12
  ELSE IF Cited(o, ledger.support) THEN 18
  ELSE IF o \in Failed THEN 30
  ELSE IF Cited(o, Relevant) /\ ledger.hypothesis THEN 38
  ELSE IF SameFact(o, Recent) THEN 45
  ELSE 90
Pinned(o, b) == b.priority[o] <= 18
Cold(o, b) == b.priority[o] = 90

(* Cold items, and under hard pressure what is not Evidence, stay out unless requested. *)
Ranked(b) ==
  {o \in Items(b) :
     \/ Wanted(o) \/ Pinned(o, b)
     \/ ~Cold(o, b) /\ ~(b.level = "HARD_PRESSURE" /\ o \notin ledger.admitted)}
Sooner(p, o, b) ==
  IF Wanted(p) # Wanted(o) THEN Wanted(p)
  ELSE IF b.priority[p] # b.priority[o] THEN b.priority[p] < b.priority[o]
  ELSE At(p) < At(o)
(* The soft bound on active items evicts neither pinned nor requested ones. *)
Kept(b) ==
  LET ranked == Ranked(b)
      must == {o \in ranked : Pinned(o, b) \/ Wanted(o)}
      optional == ranked \ must
      room(n) == n - Cardinality(must)
      least(m, n) == IF m < n THEN m ELSE n
      most(m, n) == IF m < n THEN n ELSE m
      keep == most(room(SoftTarget), least(Cardinality(optional), room(HardLimit)))
  IN  IF Cardinality(ranked) <= SoftTarget THEN ranked
      ELSE must \union {o \in optional : Cardinality({p \in optional : Sooner(p, o, b)}) < keep}

----------------------------------------------------------------------------
(* Packing. *)

Requested(o, b) == UNION {r.first .. r.last : r \in {q \in b.local : q.obs = o}}
(* The lines a body is known to show: a compacted one that is not source shows none. *)
Coverage(o, b) ==
  IF o \in Local(b) THEN Requested(o, b)
  ELSE IF Rehydrated(o) \/ Size(o) <= ItemLimit THEN Body(o)
  ELSE IF Content[o] \in Source THEN 1..ItemLimit
  ELSE {}
Cost(o, b) ==
  Overhead + IF b.covers[o] = {} THEN ItemLimit ELSE Cardinality(b.covers[o])
Costs(S, b) == MapThenSumSet(LAMBDA o : Cost(o, b), S)
Available(b) == Room[b.level] + Envelope

(* In the order of Sooner: a requested body is taken whatever is left, another one if it
   fits beside those taken before it. *)
Packed(b) ==
  LET kept == Kept(b)
  IN  CHOOSE taken \in SUBSET kept :
        \A o \in kept :
          o \in taken <=>
            \/ Wanted(o)
            \/ Costs({p \in taken : Sooner(p, o, b)}, b) + Cost(o, b) <= Available(b)
(* Only requested bodies can exceed what is available.  The index section is given up for
   them, and if that is not enough the text is. *)
Selected(b) ==
  LET packed == Packed(b) IN IF Costs(packed, b) > Available(b) + Index THEN {} ELSE packed

Fits(S, b) == Costs(S, b) + ReceiptCost * Cardinality(b.local) <= Room[b.level]
(* The complete role request decides: the last bodies go until the rest fits, the optional
   ones before any other.  A body stays that fits with what goes after it. *)
Goes(p, o, b) ==
  LET optional(q) == ~Pinned(q, b) /\ ~Wanted(q)
  IN  IF optional(p) # optional(o) THEN optional(p) ELSE Sooner(o, p, b)
Trimmed(selected, b) ==
  {o \in selected : Fits({p \in selected : ~Goes(p, o, b)}, b)}

(* Dry run: n lines of o beside the pinned and requested bodies of this build. *)
FitsBeside(o, n, selected, b) ==
  LET others == {p \in selected \ {o} : Pinned(p, b) \/ Wanted(p)}
      total == Costs(others, b) + Overhead + n
  IN  /\ total <= Available(b)
      /\ total + ReceiptCost * Cardinality(b.local) <= Room[b.level]

(* local_context_references: the repeated acquisitions first, up to the size of the index. *)
Rows ==
  LET again == ToSet(due.again)
      before(p, o) == IF (p \in again) = (o \in again) THEN At(p) < At(o) ELSE p \in again
  IN  {o \in Held : Cardinality({p \in Held : before(p, o)}) < RowLimit}
Chunks(o, b) ==
  LET c == IF Available(b) < 3 THEN 1 ELSE Available(b) \div 3
  IN  {Body(o) \intersect (k * c + 1 .. (k + 1) * c) : k \in 0 .. (Size(o) - 1) \div c}
Runs(S) ==
  {r \in S \X S : r[1] <= r[2] /\ r[1] .. r[2] \subseteq S /\ r[1] - 1 \notin S /\ r[2] + 1 \notin S}
Offer(o, r, whole) == [obs |-> o, first |-> r[1], last |-> r[2], whole |-> whole]
OffersAgain(selected, shown, b) ==  \* Mutant: a chunk is offered again with the lines it already shows.
  LET lines(o) == IF o \in DOMAIN shown THEN shown[o] ELSE {}
      open == {o \in Rows \intersect Items(b) : lines(o) # Body(o)}
      chunks(o) == {c \in Chunks(o, b) : FitsBeside(o, Cardinality(c), selected, b)}
  IN  UNION {{Offer(o, r, FALSE) : r \in UNION {Runs(c) : c \in chunks(o)}} : o \in open}
(* legal_recovery_choices: the whole body of what is not shown, or the missing lines of a chunk. *)
Offers(selected, shown, b) ==
  LET lines(o) == IF o \in DOMAIN shown THEN shown[o] ELSE {}
      open == {o \in Rows \intersect Items(b) : lines(o) # Body(o)}
      whole == {o \in open : lines(o) = {} /\ FitsBeside(o, Size(o), selected, b)}
      chunks(o) == {c \in Chunks(o, b) : FitsBeside(o, Cardinality(c), selected, b)}
      pieces(o) == UNION {Runs(c \ lines(o)) : c \in chunks(o)}
  IN  {Offer(o, <<1, Size(o)>>, TRUE) : o \in whole}
      \union UNION {{Offer(o, r, FALSE) : r \in pieces(o)} : o \in open}

Shows(shown, r) == r.obs \in DOMAIN shown /\ r.first .. r.last \subseteq shown[r.obs]
(* ContextManager.build, of the given local ranges under the given pressure *)
Build(local, level) ==
  LET asked == [local |-> local, level |-> level]
      b == [local |-> local, level |-> level, priority |-> [o \in Held |-> Priority(o, asked)],
            covers |-> [o \in Held |-> Coverage(o, asked)]]
      selected == Selected(b)
      shown == [o \in Trimmed(selected, b) |-> b.covers[o]]
  IN  [shown |-> shown, receipts |-> {r \in b.local : Shows(shown, r)},
       offers |-> Offers(selected, shown, b)]

----------------------------------------------------------------------------
(* The turn. *)

(* pending_context_targets: what was acquired for this turn and is not displayed. *)
Pending(v) ==
  IF ledger.hypothesis THEN (due.bootstrap \union (due.burst \ Failed)) \ DOMAIN v.shown ELSE {}
(* The context half of the legal surface: while anything is pending, that and all of it. *)
Askable ==
  LET offered == {f.obs : f \in view.offers}
  IN  IF turn.rounds = RoundLimit \/ turn.closing \/ ~(Pending(view) \subseteq offered) THEN {}
      ELSE IF Pending(view) # {} THEN Pending(view) ELSE offered
Selectors(o) ==
  UNION {IF f.whole THEN {[obs |-> o, first |-> f.first, last |-> f.last]}
         ELSE {[obs |-> o, first |-> i, last |-> j] : i, j \in f.first .. f.last}
         : f \in {g \in view.offers : g.obs = o}}
Batches ==
  LET legal(o) == {r \in Selectors(o) : r.first <= r.last}
      targets == IF Pending(view) # {} THEN {Askable} ELSE SUBSET Askable
  IN  UNION {Choices({legal(o) : o \in S}) : S \in targets \ {{}}}

End(why) == turn' = [turn EXCEPT !.pc = "ended", !.why = why]

(* A fresh build.  What the last view still displays of the local selections is carried.
   A closing turn has no context choice: with a body pending its command has no branch at
   all, which the consolidation surface takes for granted. *)
BeginTurn ==
  /\ turn.pc = "turn"
  /\ \E level \in Levels :
       LET v == Build(view.receipts, level)
       IN  \E closing \in BOOLEAN :
           /\ view' = v
           /\ turn' = [NoTurn EXCEPT !.pc = IF closing /\ Pending(v) # {} THEN "ended" ELSE "ask",
                                     !.why = IF closing /\ Pending(v) # {} THEN "runtime_failure" ELSE @,
                                     !.level = level, !.closing = closing]
  /\ UNCHANGED <<store, ledger, due>>

(* No legal decision is left. *)
Unavailable ==
  /\ turn.pc = "ask" /\ Pending(view) # {} /\ Askable = {}
  /\ End("context_resolution_unavailable")
  /\ UNCHANGED <<store, ledger, due, view>>

TargetsOfBatch(batch) == batch      \* Mutant: only what is asked now has to be displayed.
(* What has to be displayed for a resolution to succeed: earlier selections too. *)
Targets(batch) == view.receipts \union batch

(* resolve_context_requests, and the round PlanningSession spends on it. *)
RequestContext ==
  /\ turn.pc = "ask"
  /\ \E batch \in Batches :
       LET v == Build(view.receipts \union batch, turn.level)
           resolved == \A r \in Targets(batch) : Shows(v.shown, r)
       IN  IF batch \in turn.asked THEN End("context_request_repeated") /\ UNCHANGED view
           ELSE IF \A r \in batch : Shows(view.shown, r)
           THEN End("context_already_visible") /\ UNCHANGED view
           ELSE IF resolved
           THEN /\ view' = v
                /\ turn' = [turn EXCEPT !.rounds = @ + 1, !.asked = {}, !.recovered = @ \union batch]
           ELSE /\ UNCHANGED view
                /\ IF turn.rounds + 1 < RoundLimit
                   THEN turn' = [turn EXCEPT !.rounds = @ + 1, !.asked = @ \union {batch}]
                   ELSE End("context_packing_insufficient")
  /\ UNCHANGED <<store, ledger, due>>

(* The session is over.  Of its view only the local selections still displayed outlive it. *)
Leave(pc) ==
  /\ turn' = [NoTurn EXCEPT !.pc = pc]
  /\ view' = [shown |-> <<>>, receipts |-> view.receipts, offers |-> {}]

(* The prompt did not fit after all: the turn starts again (compaction). *)
Compact == turn.pc = "ask" /\ Leave("turn") /\ UNCHANGED <<store, ledger, due>>

(* A semantic decision.  The first one states the hypothesis and, if it has questions, has
   the displayed bodies interpreted in a turn of its own; later ones admit what they see. *)
Decide ==
  /\ turn.pc = "ask" /\ Pending(view) = {}
  /\ \E new \in SUBSET (DOMAIN view.shown \ (Failed \union ledger.admitted)) :
     \E support \in SUBSET {Content[o] : o \in ledger.admitted \union new} :
     \E contra \in SUBSET {Content[o] : o \in ledger.admitted \union new}, first \in BOOLEAN :
       /\ new # {} => ledger.hypothesis
       /\ support \intersect contra = {}
       /\ ledger' = [admitted |-> ledger.admitted \union new, support |-> support,
                     contra |-> contra, hypothesis |-> TRUE]
       /\ first => ~ledger.hypothesis /\ ~turn.closing /\ DOMAIN view.shown # {}
       /\ due' = [due EXCEPT !.bootstrap = IF first THEN DOMAIN view.shown ELSE {}, !.burst = {}]
       /\ Leave(IF first \/ turn.closing THEN "turn" ELSE "act")
  /\ UNCHANGED store

(* The at most one task of the plan: an acquisition, a repeated one that is rejected, or none. *)
Act ==
  /\ turn.pc = "act"
  /\ \/ \E o \in Observations \ Held : store' = Append(store, o) /\ due' = [due EXCEPT !.burst = {o}]
     \/ \E o \in Held : UNCHANGED store
        /\ due' = [due EXCEPT !.again = LET s == Append(@, o)
                                       IN  IF Len(s) > RepeatWindow THEN Tail(s) ELSE s]
     \/ UNCHANGED <<store, due>>
  /\ turn' = [turn EXCEPT !.pc = "turn"]
  /\ UNCHANGED <<ledger, view>>

Finished == turn.pc = "ended" /\ UNCHANGED vars

Next == BeginTurn \/ Unavailable \/ RequestContext \/ Compact \/ Decide \/ Act \/ Finished
Spec == Init /\ [][Next]_vars

----------------------------------------------------------------------------
(* Properties. *)

RequestType == [obs : Observations, first : Nat, last : Nat]
(* The view never claims a line that is not retained, offers nothing it displays, and keeps
   its two rounds; every legal request is one the ContextManager can answer, so a turn only
   ends for want of room, of a choice, or of a new idea. *)
TypeOK ==
  /\ Held \subseteq Observations /\ ledger.admitted \subseteq Held \ Failed
  /\ ledger.support \union ledger.contra \subseteq {Content[o] : o \in ledger.admitted}
  /\ due.bootstrap \union due.burst \union ToSet(due.again) \subseteq Held
  /\ \A o \in DOMAIN view.shown : o \in Held /\ view.shown[o] \subseteq Body(o)
  /\ view.receipts \subseteq RequestType
  /\ turn.pc = "ask" => \A r \in view.receipts : Shows(view.shown, r)
  /\ \A f \in view.offers : ~Shows(view.shown, f) /\ f.last <= Size(f.obs)
  /\ turn.pc \in {"turn", "ask", "act", "ended"} /\ turn.rounds \in 0..RoundLimit
  /\ turn.why \notin {"context_already_visible"}

(* "Preserve successful recovery in the same logical turn": what a round has recovered is
   displayed to the decision, whatever later rounds ask for and the packer gives up. *)
RecoveryKept == turn.pc = "ask" => \A r \in turn.recovered : Shows(view.shown, r)

=============================================================================
