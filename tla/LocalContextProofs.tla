------------------------- MODULE LocalContextProofs -------------------------
(***************************************************************************)
(* Proofs about LocalContext, for any bodies, sizes, pressures and bounds. *)
(*                                                                         *)
(* SelectionOK and OfferOK say of a request and of an offer what the view  *)
(* owes them: a request lies within a retained body, and what is offered   *)
(* is not on display, a chunk in none of its lines.  They are what makes   *)
(* every legal batch one that is not visible yet.  TurnInv ties the bodies *)
(* a turn has recovered to the receipts of its view, all of them shown.    *)
(***************************************************************************)
EXTENDS LocalContext, WellFoundedInduction, FiniteSetTheorems, SequenceTheorems, TLAPS

SelectionOK(r) ==
  /\ r \in [obs : Held, first : Nat \ {0}, last : Nat]
  /\ r.last <= Size(r.obs)
OfferOK(f, shown) ==
  /\ f \in [obs : Held, first : Nat \ {0}, last : Nat, whole : BOOLEAN]
  /\ f.first <= f.last /\ f.last <= Size(f.obs)
  /\ ~Shows(shown, f)
  /\ ~f.whole /\ f.obs \in DOMAIN shown => f.first .. f.last \intersect shown[f.obs] = {}

StoreInv ==
  /\ store \in Seq(Observations)
  /\ \A i, j \in DOMAIN store : store[i] = store[j] => i = j
LedgerInv ==
  /\ ledger \in [admitted : SUBSET Held, support : SUBSET Contents, contra : SUBSET Contents,
                 hypothesis : BOOLEAN]
  /\ ledger.admitted \intersect Failed = {}
  /\ ledger.support \union ledger.contra \subseteq {Content[o] : o \in ledger.admitted}
DueInv ==
  /\ due \in [bootstrap : SUBSET Held, burst : SUBSET Held, again : Seq(Observations)]
  /\ ToSet(due.again) \subseteq Held
ViewOK(v) ==
  /\ \A o \in DOMAIN v.shown : o \in Held /\ v.shown[o] \subseteq Body(o)
  /\ \A r \in v.receipts : SelectionOK(r)
  /\ \A f \in v.offers : OfferOK(f, v.shown)
ViewInv == ViewOK(view)
TurnType == [pc : {"turn", "ask", "act", "ended"}, level : Levels \union {"NORMAL"},
             closing : BOOLEAN, rounds : 0..RoundLimit, asked : SUBSET SUBSET RequestType,
             recovered : SUBSET RequestType,
             why : {"none", "runtime_failure", "context_resolution_unavailable",
                    "context_request_repeated", "context_packing_insufficient"}]
TurnInv ==
  /\ turn \in TurnType
  /\ turn.pc = "ask" => /\ turn.level \in Levels
                        /\ turn.recovered \subseteq view.receipts
                        /\ \A r \in view.receipts : Shows(view.shown, r)
IInv == StoreInv /\ LedgerInv /\ DueInv /\ ViewInv /\ TurnInv

-----------------------------------------------------------------------------
(* Numbers and the store *)

\* Induction over the naturals, for a set of them.
LEMMA SetInduction ==
  ASSUME NEW T \in SUBSET Nat, 0 \in T, \A n \in T : n + 1 \in T
  PROVE  T = Nat
<1> DEFINE U == Nat \ T
           R == OpToRel(<, Nat)
<1>1. SUFFICES ASSUME U # {} PROVE FALSE
  OBVIOUS
<1>2. U \subseteq Nat
  OBVIOUS
<1>3. \E x \in U : \A y \in U : <<y, x>> \notin R
  <2>1. IsWellFoundedOn(R, Nat)
    BY NatLessThanWellFounded
  <2> HIDE DEF U, R
  <2> QED
    BY <1>1, <1>2, <2>1, WFMin
<1>4. \A y, x \in Nat : y < x => <<y, x>> \in R
  BY DEF OpToRel
<1> HIDE DEF R
<1>5. PICK x \in U : \A y \in U : <<y, x>> \notin R
  BY <1>3
<1>6. x \in Nat /\ x \notin T /\ x # 0
  BY <1>5
<1>7. x - 1 \in Nat /\ (x - 1) + 1 = x /\ x - 1 < x
  BY <1>6
<1>8. x - 1 \in U
  BY <1>6, <1>7
<1> QED
  BY <1>4, <1>5, <1>6, <1>7, <1>8

LEMMA Sizes == \A o \in Observations : Content[o] \in Contents /\ Size(o) \in Nat \ {0}
BY BodyAssumption DEF Size

LEMMA HeldProperties ==
  ASSUME StoreInv
  PROVE  /\ Held \subseteq Observations /\ IsFiniteSet(Held)
         /\ \A o \in Held : At(o) \in DOMAIN store /\ store[At(o)] = o /\ At(o) \in Nat
<1>1. Held \subseteq Observations
  BY ElementOfSeq DEF StoreInv, Held, ToSet
<1>2. IsFiniteSet(Held)
  BY <1>1, FS_Subset, BodyAssumption
<1>3. ASSUME NEW o \in Held PROVE At(o) \in DOMAIN store /\ store[At(o)] = o
  <2>1. \E i \in DOMAIN store : store[i] = o
    BY DEF Held, ToSet
  <2>2. QED
    BY <2>1 DEF At
<1>4. DOMAIN store \subseteq Nat
  BY LenProperties DEF StoreInv
<1>5. QED
  BY <1>1, <1>2, <1>3, <1>4

-----------------------------------------------------------------------------
(* The order of packing is total, so packing is well defined. *)

Ordered(b) == \A o \in Held : b.priority[o] \in Nat

LEMMA SoonerOrder ==
  ASSUME StoreInv, NEW b, Ordered(b)
  PROVE  /\ \A o \in Held : ~Sooner(o, o, b)
         /\ \A p, o \in Held : p # o => (Sooner(p, o, b) <=> ~Sooner(o, p, b))
         /\ \A p, o, q \in Held : Sooner(p, o, b) /\ Sooner(o, q, b) => Sooner(p, q, b)
<1>1. ASSUME NEW o \in Held PROVE Wanted(o) \in BOOLEAN
  <2>1. CASE o \in ledger.admitted
    BY <2>1 DEF Wanted
  <2>2. CASE o \notin ledger.admitted
    BY <2>2 DEF Wanted
  <2>3. QED
    BY <2>1, <2>2
<1>2. \A o \in Held : b.priority[o] \in Nat /\ At(o) \in Nat
  BY HeldProperties DEF Ordered
<1>3. \A p, o \in Held : At(p) = At(o) => p = o
  BY HeldProperties
<1>4. QED
  BY <1>1, <1>2, <1>3 DEF Sooner

LEMMA LastExists ==
  ASSUME StoreInv, NEW b, Ordered(b), NEW K \in SUBSET Held, K # {}
  PROVE  \E l \in K : \A p \in K \ {l} : Sooner(p, l, b)
<1> DEFINE HasLast(L) == \E l \in L : \A p \in L \ {l} : Sooner(p, l, b)
           T == {n \in Nat : \A L \in SUBSET Held : Cardinality(L) = n + 1 => HasLast(L)}
<1>1. 0 \in T
  <2>1. ASSUME NEW L \in SUBSET Held, Cardinality(L) = 0 + 1 PROVE HasLast(L)
    <3>1. IsFiniteSet(L) /\ Cardinality(L) = 1
      BY <2>1, FS_Subset, HeldProperties
    <3>2. PICK x : L = {x}
      BY <3>1, FS_Singleton
    <3>3. QED
      BY <3>2
  <2>2. QED
    BY <2>1
<1>2. ASSUME NEW n \in T PROVE n + 1 \in T
  <2>1. ASSUME NEW L \in SUBSET Held, Cardinality(L) = (n + 1) + 1 PROVE HasLast(L)
    <3>1. IsFiniteSet(L)
      BY FS_Subset, HeldProperties
    <3>2. PICK x \in L : TRUE
      BY <2>1, <3>1, FS_EmptySet
    <3>3. Cardinality(L \ {x}) = n + 1
      BY <2>1, <3>1, <3>2, FS_RemoveElement
    <3>4. L \ {x} \in SUBSET Held
      OBVIOUS
    <3>5. HasLast(L \ {x})
      BY <3>3, <3>4
    <3>6. PICK l \in L \ {x} : \A p \in (L \ {x}) \ {l} : Sooner(p, l, b)
      BY <3>5
    <3>7. CASE Sooner(l, x, b)
      <4>1. ASSUME NEW p \in L \ {x} PROVE Sooner(p, x, b)
        BY <3>6, <3>7, SoonerOrder
      <4>2. QED
        BY <4>1, <3>2
    <3>8. CASE ~Sooner(l, x, b)
      <4>1. Sooner(x, l, b)
        BY <3>2, <3>6, <3>8, SoonerOrder
      <4>2. QED
        BY <4>1, <3>6
    <3>9. QED
      BY <3>7, <3>8
  <2>2. QED
    BY <2>1
<1>3. T = Nat
  <2> HIDE DEF T
  <2>1. T \in SUBSET Nat
    BY DEF T
  <2>2. QED
    BY <1>1, <1>2, <2>1, SetInduction
<1>4. IsFiniteSet(K) /\ Cardinality(K) \in Nat /\ Cardinality(K) # 0
  BY FS_Subset, HeldProperties, FS_CardinalityType, FS_EmptySet
<1>5. Cardinality(K) - 1 \in T /\ Cardinality(K) = (Cardinality(K) - 1) + 1
  BY <1>3, <1>4
<1>6. HasLast(K)
  BY <1>5
<1>7. QED
  BY <1>6
\* What Packed takes from K.
Taken(P, K, b) ==
  \A o \in K :
    o \in P <=> \/ Wanted(o)
                \/ Costs({p \in P : Sooner(p, o, b)}, b) + Cost(o, b) <= Available(b)
PacksOne(K, b) ==
  /\ \E P \in SUBSET K : Taken(P, K, b)
  /\ \A P, Q \in SUBSET K : Taken(P, K, b) /\ Taken(Q, K, b) => P = Q

\* What the last item adds does not change what was taken before it.
LEMMA PackLast ==
  ASSUME StoreInv, NEW b, Ordered(b), NEW K \in SUBSET Held, NEW l \in K,
         \A p \in K \ {l} : Sooner(p, l, b), PacksOne(K \ {l}, b)
  PROVE  PacksOne(K, b)
<1> DEFINE Prior(P, o) == {p \in P : Sooner(p, o, b)}
           Fit(P, o) == Wanted(o) \/ Costs(Prior(P, o), b) + Cost(o, b) <= Available(b)
<1>1. \A P \in SUBSET K : \A o \in K : Prior(P, o) = Prior(P \ {l}, o)
  <2>1. \A o \in K : ~Sooner(l, o, b)
    BY SoonerOrder
  <2>2. QED
    BY <2>1
<1>2. \A P, L : Taken(P, L, b) <=> \A o \in L : o \in P <=> Fit(P, o)
  BY DEF Taken
<1> HIDE DEF Prior
<1>3. \A P \in SUBSET K : \A o \in K : Fit(P, o) <=> Fit(P \ {l}, o)
  BY <1>1
<1> HIDE DEF Fit
<1>4. \A P \in SUBSET K : Taken(P, K, b) <=> /\ Taken(P \ {l}, K \ {l}, b)
                                             /\ l \in P <=> Fit(P \ {l}, l)
  <2>1. TAKE P \in SUBSET K
  <2>2. Taken(P, K, b) <=> \A o \in K : o \in P <=> Fit(P \ {l}, o)
    BY <1>2, <1>3
  <2>3. Taken(P \ {l}, K \ {l}, b) <=> \A o \in K \ {l} : o \in P <=> Fit(P \ {l}, o)
    BY <1>2
  <2>4. QED
    BY <2>2, <2>3
<1>5. \E P \in SUBSET K : Taken(P, K, b)
  <2>1. PICK P \in SUBSET (K \ {l}) : Taken(P, K \ {l}, b)
    BY DEF PacksOne
  <2>2. CASE Fit(P, l)
    <3>1. P \union {l} \in SUBSET K /\ (P \union {l}) \ {l} = P
      OBVIOUS
    <3>2. QED
      BY <1>4, <2>1, <2>2, <3>1
  <2>3. CASE ~Fit(P, l)
    <3>1. P \in SUBSET K /\ P \ {l} = P
      OBVIOUS
    <3>2. QED
      BY <1>4, <2>1, <2>3, <3>1
  <2>4. QED
    BY <2>2, <2>3
<1>6. ASSUME NEW P \in SUBSET K, NEW Q \in SUBSET K, Taken(P, K, b), Taken(Q, K, b)
      PROVE  P = Q
  <2>1. P \ {l} = Q \ {l}
    BY <1>4, <1>6 DEF PacksOne
  <2>2. l \in P <=> l \in Q
    BY <1>4, <1>6, <2>1
  <2>3. QED
    BY <2>1, <2>2
<1>7. QED
  BY <1>5, <1>6 DEF PacksOne

LEMMA PackingOfAny ==
  ASSUME StoreInv, NEW b, Ordered(b), NEW K \in SUBSET Held
  PROVE  PacksOne(K, b)
<1> DEFINE T == {n \in Nat : \A L \in SUBSET Held : Cardinality(L) = n => PacksOne(L, b)}
<1>1. 0 \in T
  <2>1. ASSUME NEW L \in SUBSET Held, Cardinality(L) = 0 PROVE PacksOne(L, b)
    <3>1. L = {}
      BY <2>1, FS_Subset, FS_EmptySet, HeldProperties
    <3>2. QED
      BY <3>1 DEF PacksOne, Taken
  <2>2. QED
    BY <2>1
<1>2. ASSUME NEW n \in T PROVE n + 1 \in T
  <2>1. ASSUME NEW L \in SUBSET Held, Cardinality(L) = n + 1 PROVE PacksOne(L, b)
    <3>1. IsFiniteSet(L) /\ L # {}
      BY <2>1, FS_Subset, FS_EmptySet, HeldProperties
    <3>2. PICK l \in L : \A p \in L \ {l} : Sooner(p, l, b)
      BY <3>1, LastExists
    <3>3. Cardinality(L \ {l}) = n /\ L \ {l} \in SUBSET Held
      BY <2>1, <3>1, FS_RemoveElement
    <3>4. PacksOne(L \ {l}, b)
      BY <3>3
    <3>5. QED
      BY <3>2, <3>4, PackLast
  <2>2. QED
    BY <2>1
<1>3. T = Nat
  <2> HIDE DEF T
  <2>1. T \in SUBSET Nat
    BY DEF T
  <2>2. QED
    BY <1>1, <1>2, <2>1, SetInduction
<1>4. Cardinality(K) \in T
  BY <1>3, FS_Subset, HeldProperties, FS_CardinalityType
<1>5. QED
  BY <1>4

LEMMA KeptHeld ==
  ASSUME NEW b
  PROVE  Kept(b) \in SUBSET Held
<1>1. Ranked(b) \in SUBSET Held
  BY DEF Ranked, Items
<1>2. QED
  BY <1>1 DEF Kept

\* What the build packs is well defined: one set of bodies is taken in the order of
\* Sooner, whatever the sizes, the pressure and the requests.
THEOREM PackingDefined ==
  ASSUME StoreInv, NEW b, Ordered(b)
  PROVE  /\ Packed(b) \in SUBSET Kept(b) /\ Taken(Packed(b), Kept(b), b)
         /\ \A P \in SUBSET Kept(b) : Taken(P, Kept(b), b) => P = Packed(b)
<1>1. PacksOne(Kept(b), b)
  BY KeptHeld, PackingOfAny
<1>2. Packed(b) = CHOOSE P \in SUBSET Kept(b) : Taken(P, Kept(b), b)
  BY DEF Packed, Taken
<1>3. QED
  BY <1>1, <1>2 DEF PacksOne
-----------------------------------------------------------------------------
(* What a build shows and offers *)

LEMMA PriorityNat == \A o, b : Priority(o, b) \in Nat
BY DEF Priority

LEMMA CoverageInBody ==
  ASSUME StoreInv, NEW b, \A r \in b.local : SelectionOK(r), NEW o \in Held
  PROVE  Coverage(o, b) \subseteq Body(o)
<1>1. Size(o) \in Nat \ {0} /\ ItemLimit \in Nat
  BY Sizes, HeldProperties, SizeAssumption
<1>2. Requested(o, b) \subseteq Body(o)
  <2>1. ASSUME NEW r \in b.local, r.obs = o PROVE r.first .. r.last \subseteq Body(o)
    <3>1. r.first \in Nat \ {0} /\ r.last \in Nat /\ r.last <= Size(o)
      BY <2>1 DEF SelectionOK
    <3>2. QED
      BY <1>1, <3>1 DEF Body
  <2>2. QED
    BY <2>1 DEF Requested
<1>3. Size(o) > ItemLimit => 1 .. ItemLimit \subseteq Body(o)
  BY <1>1 DEF Body
<1>4. QED
  BY <1>1, <1>2, <1>3 DEF Coverage

\* A run of lines is not empty and lies within its set.
LEMMA RunWithin ==
  ASSUME NEW S \in SUBSET Int, NEW r \in Runs(S)
  PROVE  /\ r[1] \in S /\ r[2] \in S /\ r[1] <= r[2]
         /\ r[1] .. r[2] \subseteq S
BY DEF Runs

LEMMA OffersAreOK ==
  ASSUME StoreInv, NEW b, NEW selected, NEW shown,
         \A o \in DOMAIN shown : o \in Held /\ shown[o] \subseteq Body(o),
         NEW f \in Offers(selected, shown, b)
  PROVE  OfferOK(f, shown)
<1> DEFINE lines(o) == IF o \in DOMAIN shown THEN shown[o] ELSE {}
           open == {o \in Rows \intersect Items(b) : lines(o) # Body(o)}
           whole == {o \in open : lines(o) = {} /\ FitsBeside(o, Size(o), selected, b)}
           chunks(o) == {c \in Chunks(o, b) : FitsBeside(o, Cardinality(c), selected, b)}
           pieces(o) == UNION {Runs(c \ lines(o)) : c \in chunks(o)}
<1>1. open \subseteq Held
  BY DEF Rows
<1>2. \/ \E o \in whole : f = Offer(o, <<1, Size(o)>>, TRUE)
      \/ \E o \in open : \E r \in pieces(o) : f = Offer(o, r, FALSE)
  BY DEF Offers
<1> HIDE DEF pieces, open
<1>3. CASE \E o \in whole : f = Offer(o, <<1, Size(o)>>, TRUE)
  <2>1. PICK o \in whole : f = Offer(o, <<1, Size(o)>>, TRUE)
    BY <1>3
  <2>2. o \in Held /\ Size(o) \in Nat \ {0} /\ lines(o) = {}
    BY <1>1, <2>1, Sizes, HeldProperties
  <2>3. f = [obs |-> o, first |-> 1, last |-> Size(o), whole |-> TRUE]
    BY <2>1 DEF Offer
  <2>4. ~Shows(shown, f)
    <3>1. 1 \in 1 .. Size(o)
      BY <2>2
    <3>2. o \in DOMAIN shown => shown[o] = {}
      BY <2>2
    <3>3. QED
      BY <2>3, <3>1, <3>2 DEF Shows
  <2>5. QED
    BY <2>2, <2>3, <2>4 DEF OfferOK
<1>4. CASE \E o \in open : \E r \in pieces(o) : f = Offer(o, r, FALSE)
  <2>a. PICK o \in open : \E r \in pieces(o) : f = Offer(o, r, FALSE)
    BY <1>4
  <2>1. PICK r \in pieces(o) : f = Offer(o, r, FALSE)
    BY <2>a
  <2>2. PICK c \in Chunks(o, b) : r \in Runs(c \ lines(o))
    BY <2>1 DEF pieces
  <2>3. o \in Held /\ Size(o) \in Nat
    BY <1>1, <2>1, Sizes, HeldProperties
  <2>4. c \subseteq Body(o)
    BY <2>2 DEF Chunks
  <2> HIDE DEF lines
  <2>b. \A i \in Body(o) : i \in Nat \ {0} /\ i <= Size(o)
    BY <2>3 DEF Body
  <2>5. c \ lines(o) \in SUBSET Int
    BY <2>4, <2>b
  <2>6. /\ r[1] \in c /\ r[2] \in c /\ r[1] <= r[2]
        /\ r[1] .. r[2] \intersect lines(o) = {}
    BY <2>2, <2>5, RunWithin
  <2>7. r[1] \in Nat \ {0} /\ r[2] \in Nat /\ r[2] <= Size(o)
    BY <2>4, <2>6, <2>b
  <2>8. f = [obs |-> o, first |-> r[1], last |-> r[2], whole |-> FALSE]
    BY <2>1 DEF Offer
  <2>9. o \in DOMAIN shown => r[1] .. r[2] \intersect shown[o] = {}
    BY <2>6 DEF lines
  <2>10. ~Shows(shown, f)
    <3>1. r[1] \in r[1] .. r[2]
      BY <2>6, <2>7
    <3>2. QED
      BY <2>8, <2>9, <3>1 DEF Shows
  <2>11. QED
    BY <2>3, <2>6, <2>7, <2>8, <2>9, <2>10 DEF OfferOK
<1>5. QED
  BY <1>2, <1>3, <1>4

Built(v, local) ==
  /\ ViewOK(v)
  /\ v.receipts = {r \in local : Shows(v.shown, r)}

\* Whatever is requested and whatever is given up, a build shows lines that are retained
\* and offers what it does not show.
LEMMA BuildIsOK ==
  ASSUME StoreInv, NEW local, \A r \in local : SelectionOK(r), NEW level
  PROVE  Built(Build(local, level), local)
<1> DEFINE asked == [local |-> local, level |-> level]
           priority == [o \in Held |-> Priority(o, asked)]
           covers == [o \in Held |-> Coverage(o, asked)]
           b == [local |-> local, level |-> level, priority |-> priority, covers |-> covers]
           selected == Selected(b)
           shown == [o \in Trimmed(selected, b) |-> b.covers[o]]
           receipts == {r \in b.local : Shows(shown, r)}
           offers == Offers(selected, shown, b)
<1>1. Build(local, level) = [shown |-> shown, receipts |-> receipts, offers |-> offers]
  BY DEF Build
<1>2. asked.local = local /\ b.local = local /\ b.priority = priority /\ b.covers = covers
  OBVIOUS
<1>3. Ordered(b)
  BY <1>2, PriorityNat DEF Ordered
<1>4. \A o \in Held : b.covers[o] \subseteq Body(o)
  BY <1>2, CoverageInBody
<1> HIDE DEF b, asked
<1>5. Trimmed(selected, b) \subseteq Held
  <2>1. Packed(b) \subseteq Held
    BY <1>3, PackingDefined, KeptHeld
  <2>2. QED
    BY <2>1 DEF Trimmed, Selected
<1>6. \A o \in DOMAIN shown : o \in Held /\ shown[o] \subseteq Body(o)
  BY <1>4, <1>5
<1> HIDE DEF shown, selected
<1>7. \A f \in offers : OfferOK(f, shown)
  BY <1>6, OffersAreOK
<1>8. receipts = {r \in local : Shows(shown, r)} /\ \A r \in receipts : SelectionOK(r)
  BY <1>2
<1> HIDE DEF receipts, offers
<1>9. QED
  BY <1>1, <1>6, <1>7, <1>8 DEF Built, ViewOK
-----------------------------------------------------------------------------
(* Legal requests *)

Fresh(r) == SelectionOK(r) /\ ~Shows(view.shown, r)

LEMMA SelectorsFresh ==
  ASSUME StoreInv, ViewInv, NEW o, NEW r \in Selectors(o), r.first <= r.last
  PROVE  Fresh(r)
<1>1. PICK f \in view.offers :
        /\ f.obs = o
        /\ r \in IF f.whole THEN {[obs |-> o, first |-> f.first, last |-> f.last]}
                 ELSE {[obs |-> o, first |-> i, last |-> j] : i, j \in f.first .. f.last}
  BY DEF Selectors
<1>2. OfferOK(f, view.shown)
  BY DEF ViewInv, ViewOK
<1>3. /\ f.obs \in Held /\ f.first \in Nat \ {0} /\ f.last \in Nat /\ f.first <= f.last
      /\ Size(o) \in Nat /\ f.last <= Size(o)
  BY <1>1, <1>2, Sizes, HeldProperties DEF OfferOK
<1>4. CASE f.whole
  <2>1. r = [obs |-> o, first |-> f.first, last |-> f.last]
    BY <1>1, <1>4
  <2>2. ~Shows(view.shown, r)
    BY <1>1, <1>2, <2>1 DEF OfferOK, Shows
  <2>3. QED
    BY <1>1, <1>3, <2>1, <2>2 DEF Fresh, SelectionOK
<1>5. CASE ~f.whole
  <2>1. PICK i \in f.first .. f.last : \E j \in f.first .. f.last :
          r = [obs |-> o, first |-> i, last |-> j]
    BY <1>1, <1>5
  <2>2. PICK j \in f.first .. f.last : r = [obs |-> o, first |-> i, last |-> j]
    BY <2>1
  <2>3. i \in f.first .. f.last /\ i \in i .. j
    BY <1>3, <2>1, <2>2
  <2>4. o \in DOMAIN view.shown => i \notin view.shown[o]
    BY <1>1, <1>2, <1>5, <2>3 DEF OfferOK
  <2>5. ~Shows(view.shown, r)
    BY <2>2, <2>3, <2>4 DEF Shows
  <2>6. SelectionOK(r)
    <3>1. i \in Nat \ {0} /\ j \in Nat /\ j <= Size(o)
      BY <1>3, <2>1, <2>2
    <3>2. QED
      BY <1>1, <1>3, <2>2, <3>1 DEF SelectionOK
  <2>7. QED
    BY <2>5, <2>6 DEF Fresh
<1>6. QED
  BY <1>4, <1>5

\* A legal batch asks for something, and only for lines the view does not show: the
\* ContextManager never has to answer that a request is already visible.
THEOREM BatchesFresh ==
  ASSUME StoreInv, ViewInv, NEW batch \in Batches
  PROVE  batch # {} /\ (\A r \in batch : Fresh(r)) /\ turn.rounds # RoundLimit
<1> DEFINE legal(o) == {r \in Selectors(o) : r.first <= r.last}
           targets == IF Pending(view) # {} THEN {Askable} ELSE SUBSET Askable
<1>1. PICK S \in targets \ {{}} : batch \in Choices({legal(o) : o \in S})
  BY DEF Batches
<1>2. S # {} /\ S \subseteq Askable
  BY <1>1
<1> HIDE DEF targets
<1>3. turn.rounds # RoundLimit
  BY <1>2 DEF Askable
<1> DEFINE Ts == {legal(o) : o \in S}
<1>4. PICK f \in [Ts -> UNION Ts] : (\A t \in Ts : f[t] \in t) /\ batch = {f[t] : t \in Ts}
  <2> HIDE DEF Ts
  <2>1. batch \in Choices(Ts)
    BY <1>1 DEF Ts
  <2>2. QED
    BY <2>1 DEF Choices, Range
<1>5. batch # {}
  <2>1. PICK o \in S : TRUE
    BY <1>2
  <2>2. f[legal(o)] \in batch
    BY <1>4, <2>1
  <2>3. QED
    BY <2>2
<1>6. ASSUME NEW r \in batch PROVE Fresh(r)
  <2>1. PICK t \in Ts : r = f[t] /\ r \in t
    BY <1>4
  <2>2. PICK o \in S : t = legal(o)
    BY <2>1
  <2>3. r \in Selectors(o) /\ r.first <= r.last
    BY <2>1, <2>2
  <2>4. QED
    BY <2>3, SelectorsFresh
<1>7. QED
  BY <1>3, <1>5, <1>6
-----------------------------------------------------------------------------
(* The inductive invariant *)

LEMMA SelectionTyped ==
  ASSUME StoreInv, NEW S, \A r \in S : SelectionOK(r)
  PROVE  S \in SUBSET RequestType
BY HeldProperties DEF SelectionOK, RequestType

\* A view that was right stays so while the store only grows.
LEMMA ViewCarries ==
  ASSUME NEW v, ViewOK(v), view' = v, Held \subseteq Held'
  PROVE  ViewInv'
BY DEF ViewInv, ViewOK, SelectionOK, OfferOK

LEMMA StoresKept ==
  ASSUME IInv, UNCHANGED <<store, ledger, due>>
  PROVE  StoreInv' /\ LedgerInv' /\ DueInv' /\ Held' = Held
BY DEF IInv, StoreInv, LedgerInv, DueInv, Held

LEMMA InitInvariant == Init => IInv
<1> SUFFICES ASSUME Init PROVE IInv
  OBVIOUS
<1>1. StoreInv
  <2>1. Cardinality(Observations) \in Nat
    BY BodyAssumption, FS_CardinalityType
  <2>2. store \in UNION {[1..n -> Observations] : n \in Nat}
    BY <2>1 DEF Init
  <2>3. store \in Seq(Observations)
    BY <2>2, SeqDef
  <2>4. QED
    BY <2>3 DEF Init, StoreInv
<1>2. LedgerInv
  BY DEF Init, LedgerInv
<1>3. DueInv
  BY DEF Init, DueInv, ToSet
<1>4. ViewInv
  BY DEF Init, ViewInv, ViewOK
<1>5. TurnInv
  BY SizeAssumption DEF Init, TurnInv, TurnType, NoTurn
<1>6. QED
  BY <1>1, <1>2, <1>3, <1>4, <1>5 DEF IInv

LEMMA TurnTyped ==
  ASSUME IInv
  PROVE  /\ NoTurn \in TurnType /\ turn \in TurnType
         /\ RoundLimit \in Nat
BY SizeAssumption DEF IInv, TurnInv, TurnType, NoTurn

LEMMA EndInvariant ==
  ASSUME IInv, NEW why \in {"context_resolution_unavailable", "context_request_repeated",
                            "context_packing_insufficient"},
         End(why), UNCHANGED <<store, ledger, due, view>>
  PROVE  IInv'
<1>1. ViewInv'
  BY StoresKept, ViewCarries DEF IInv, ViewInv
<1>2. TurnInv'
  <2>1. turn' = [turn EXCEPT !.pc = "ended", !.why = why]
    BY DEF End
  <2>2. turn' \in TurnType /\ turn'.pc = "ended"
    BY <2>1, TurnTyped DEF TurnType
  <2>3. QED
    BY <2>2 DEF TurnInv, TurnType
<1>3. QED
  BY <1>1, <1>2, StoresKept DEF IInv

LEMMA BeginTurnInvariant == IInv /\ BeginTurn => IInv'
<1> SUFFICES ASSUME IInv, BeginTurn PROVE IInv'
  OBVIOUS
<1>1. UNCHANGED <<store, ledger, due>>
  BY DEF BeginTurn
<1>2. PICK level \in Levels : \E closing \in BOOLEAN :
        LET v == Build(view.receipts, level)
        IN  /\ view' = v
            /\ turn' = [NoTurn EXCEPT !.pc = IF closing /\ Pending(v) # {} THEN "ended" ELSE "ask",
                                      !.why = IF closing /\ Pending(v) # {} THEN "runtime_failure" ELSE @,
                                      !.level = level, !.closing = closing]
  BY DEF BeginTurn
<1> DEFINE v == Build(view.receipts, level)
<1>3. PICK closing \in BOOLEAN :
        /\ view' = v
        /\ turn' = [NoTurn EXCEPT !.pc = IF closing /\ Pending(v) # {} THEN "ended" ELSE "ask",
                                  !.why = IF closing /\ Pending(v) # {} THEN "runtime_failure" ELSE @,
                                  !.level = level, !.closing = closing]
  BY <1>2
<1>4. Built(v, view.receipts)
  BY BuildIsOK DEF IInv, ViewInv, ViewOK
<1> HIDE DEF v
<1>5. ViewInv'
  BY <1>1, <1>3, <1>4, StoresKept, ViewCarries DEF Built
<1>6. TurnInv'
  <2>1. turn' = [pc |-> IF closing /\ Pending(v) # {} THEN "ended" ELSE "ask", level |-> level,
                 closing |-> closing, rounds |-> 0, asked |-> {}, recovered |-> {},
                 why |-> IF closing /\ Pending(v) # {} THEN "runtime_failure" ELSE "none"]
    BY <1>3 DEF NoTurn
  <2>2. turn' \in TurnType /\ turn'.level \in Levels /\ turn'.recovered = {}
    BY <2>1, SizeAssumption DEF TurnType
  <2>3. \A r \in view'.receipts : Shows(view'.shown, r)
    BY <1>3, <1>4 DEF Built
  <2>4. QED
    BY <2>2, <2>3 DEF TurnInv, TurnType
<1>7. QED
  BY <1>1, <1>5, <1>6, StoresKept DEF IInv

LEMMA RequestInvariant == IInv /\ RequestContext => IInv'
<1> SUFFICES ASSUME IInv, RequestContext PROVE IInv'
  OBVIOUS
<1>1. UNCHANGED <<store, ledger, due>> /\ turn.pc = "ask"
  BY DEF RequestContext
<1>2. PICK batch \in Batches :
       LET v == Build(view.receipts \union batch, turn.level)
           resolved == \A r \in Targets(batch) : Shows(v.shown, r)
       IN  IF batch \in turn.asked THEN End("context_request_repeated") /\ UNCHANGED view
           ELSE IF \A r \in batch : Shows(view.shown, r)
           THEN End("context_already_visible") /\ UNCHANGED view
           ELSE IF resolved
           THEN /\ view' = v
                /\ turn' = [turn EXCEPT !.rounds = @ + 1, !.asked = {}, !.recovered = @ \union batch]
           ELSE /\ UNCHANGED view
                /\ IF turn.rounds + 1 < RoundLimit
                   THEN turn' = [turn EXCEPT !.rounds = @ + 1, !.asked = @ \union {batch}]
                   ELSE End("context_packing_insufficient")
  BY DEF RequestContext
<1> DEFINE local == view.receipts \union batch
           v == Build(local, turn.level)
<1>3. /\ batch # {} /\ (\A r \in batch : SelectionOK(r) /\ ~Shows(view.shown, r))
      /\ turn.rounds # RoundLimit
  BY BatchesFresh DEF IInv, Fresh
<1>4. Built(v, local)
  <2>1. \A r \in local : SelectionOK(r)
    BY <1>3 DEF IInv, ViewInv, ViewOK
  <2>2. QED
    BY <2>1, BuildIsOK DEF IInv
<1>5. batch \in SUBSET RequestType
  BY <1>3, SelectionTyped DEF IInv
<1> HIDE DEF v
<1>6. \/ End("context_request_repeated") /\ UNCHANGED view
      \/ /\ \A r \in local : Shows(v.shown, r)
         /\ view' = v
         /\ turn' = [turn EXCEPT !.rounds = @ + 1, !.asked = {}, !.recovered = @ \union batch]
      \/ /\ UNCHANGED view
         /\ turn' = [turn EXCEPT !.rounds = @ + 1, !.asked = @ \union {batch}]
      \/ End("context_packing_insufficient") /\ UNCHANGED view
  BY <1>2, <1>3 DEF v, Targets
<1>7. CASE End("context_request_repeated") /\ UNCHANGED view
  BY <1>1, <1>7, EndInvariant
<1>8. CASE End("context_packing_insufficient") /\ UNCHANGED view
  BY <1>1, <1>8, EndInvariant
<1>9. turn.rounds + 1 \in 0..RoundLimit
  BY <1>3, TurnTyped DEF TurnType
<1>10. CASE /\ \A r \in local : Shows(v.shown, r)
            /\ view' = v
            /\ turn' = [turn EXCEPT !.rounds = @ + 1, !.asked = {}, !.recovered = @ \union batch]
  <2>1. ViewInv'
    BY <1>1, <1>4, <1>10, StoresKept, ViewCarries DEF Built
  <2>2. view'.receipts = local
    BY <1>4, <1>10 DEF Built
  <2>3. turn' \in TurnType /\ turn'.level \in Levels /\ turn'.recovered = turn.recovered \union batch
    BY <1>1, <1>5, <1>9, <1>10, TurnTyped DEF IInv, TurnInv, TurnType
  <2>4. turn'.recovered \subseteq view'.receipts
    BY <1>1, <2>2, <2>3 DEF IInv, TurnInv
  <2>5. \A r \in view'.receipts : Shows(view'.shown, r)
    BY <1>10, <2>2
  <2>6. TurnInv'
    BY <2>3, <2>4, <2>5 DEF TurnInv, TurnType
  <2>7. QED
    BY <1>1, <2>1, <2>6, StoresKept DEF IInv
<1>11. CASE /\ UNCHANGED view
            /\ turn' = [turn EXCEPT !.rounds = @ + 1, !.asked = @ \union {batch}]
  <2>1. ViewInv'
    BY <1>1, <1>11, StoresKept, ViewCarries DEF IInv, ViewInv
  <2>2. turn' \in TurnType /\ turn'.level = turn.level /\ turn'.recovered = turn.recovered
    BY <1>5, <1>9, <1>11, TurnTyped DEF TurnType
  <2>3. TurnInv'
    BY <1>1, <1>11, <2>2 DEF IInv, TurnInv, TurnType
  <2>4. QED
    BY <1>1, <2>1, <2>3, StoresKept DEF IInv
<1>12. QED
  BY <1>6, <1>7, <1>8, <1>10, <1>11
LEMMA LeaveViewTurn ==
  ASSUME IInv, NEW pc \in {"turn", "act"}, Leave(pc), Held \subseteq Held'
  PROVE  ViewInv' /\ TurnInv'
<1> DEFINE v == [shown |-> <<>>, receipts |-> view.receipts, offers |-> {}]
<1>1. ViewOK(v)
  BY DEF IInv, ViewInv, ViewOK
<1>2. ViewInv'
  <2>1. view' = v
    BY DEF Leave
  <2> HIDE DEF v
  <2>2. QED
    BY <1>1, <2>1, ViewCarries
<1>3. turn' = [pc |-> pc, level |-> "NORMAL", closing |-> FALSE, rounds |-> 0, asked |-> {},
               recovered |-> {}, why |-> "none"]
  BY DEF Leave, NoTurn
<1>4. TurnInv'
  BY <1>3, SizeAssumption DEF TurnInv, TurnType
<1>5. QED
  BY <1>2, <1>4

LEMMA DecideInvariant == IInv /\ Decide => IInv'
<1> SUFFICES ASSUME IInv, Decide PROVE IInv'
  OBVIOUS
<1>1. store' = store /\ Held' = Held
  BY DEF Decide, Held
<1>2. PICK new \in SUBSET (DOMAIN view.shown \ (Failed \union ledger.admitted)) :
      \E support \in SUBSET {Content[o] : o \in ledger.admitted \union new} :
      \E contra \in SUBSET {Content[o] : o \in ledger.admitted \union new}, first \in BOOLEAN :
       /\ ledger' = [admitted |-> ledger.admitted \union new, support |-> support,
                     contra |-> contra, hypothesis |-> TRUE]
       /\ due' = [due EXCEPT !.bootstrap = IF first THEN DOMAIN view.shown ELSE {}, !.burst = {}]
       /\ Leave(IF first \/ turn.closing THEN "turn" ELSE "act")
  BY DEF Decide
<1>3. PICK support \in SUBSET {Content[o] : o \in ledger.admitted \union new},
           contra \in SUBSET {Content[o] : o \in ledger.admitted \union new}, first \in BOOLEAN :
       /\ ledger' = [admitted |-> ledger.admitted \union new, support |-> support,
                     contra |-> contra, hypothesis |-> TRUE]
       /\ due' = [due EXCEPT !.bootstrap = IF first THEN DOMAIN view.shown ELSE {}, !.burst = {}]
       /\ Leave(IF first \/ turn.closing THEN "turn" ELSE "act")
  BY <1>2
<1>4. DOMAIN view.shown \subseteq Held /\ ledger.admitted \subseteq Held /\ Held \subseteq Observations
  BY HeldProperties DEF IInv, ViewInv, ViewOK, LedgerInv
<1>5. StoreInv'
  BY <1>1 DEF IInv, StoreInv
<1>6. LedgerInv'
  <2>1. ledger.admitted \union new \in SUBSET Held
    BY <1>4
  <2>2. {Content[o] : o \in ledger.admitted \union new} \subseteq Contents
    BY <1>4, Sizes
  <2>3. (ledger.admitted \union new) \intersect Failed = {}
    BY DEF IInv, LedgerInv
  <2>4. QED
    BY <1>1, <1>3, <2>1, <2>2, <2>3 DEF LedgerInv
<1>7. DueInv'
  <2>1. due'.again = due.again /\ due' \in [bootstrap : SUBSET Held, burst : SUBSET Held,
                                            again : Seq(Observations)]
    BY <1>3, <1>4 DEF IInv, DueInv
  <2>2. QED
    BY <1>1, <2>1 DEF IInv, DueInv
<1>8. ViewInv' /\ TurnInv'
  BY <1>1, <1>3, LeaveViewTurn
<1>9. QED
  BY <1>5, <1>6, <1>7, <1>8 DEF IInv

\* An acquisition adds to what is held; a repetition is remembered in a window.
LEMMA AppendHeld ==
  ASSUME StoreInv, NEW o \in Observations \ Held, store' = Append(store, o)
  PROVE  StoreInv' /\ Held' = Held \union {o}
<1>1. /\ store' \in Seq(Observations) /\ Len(store') = Len(store) + 1
      /\ \A i \in 1 .. Len(store) : store'[i] = store[i]
      /\ store'[Len(store) + 1] = o
  BY AppendProperties DEF StoreInv
<1>2. /\ DOMAIN store = 1 .. Len(store) /\ DOMAIN store' = 1 .. Len(store')
      /\ Len(store) \in Nat
  BY <1>1, LenProperties DEF StoreInv
<1>3. \A i \in DOMAIN store : store[i] # o
  BY DEF Held, ToSet
<1>4. \A i, j \in DOMAIN store' : store'[i] = store'[j] => i = j
  BY <1>1, <1>2, <1>3 DEF StoreInv
<1>5. Held' = Held \union {o}
  <2>1. ASSUME NEW i \in DOMAIN store' PROVE store'[i] \in Held \union {o}
    BY <1>1, <1>2 DEF Held, ToSet
  <2>2. ASSUME NEW p \in Held \union {o} PROVE \E i \in DOMAIN store' : store'[i] = p
    BY <1>1, <1>2 DEF Held, ToSet
  <2>3. QED
    BY <2>1, <2>2 DEF Held, ToSet
<1>6. QED
  BY <1>1, <1>4, <1>5 DEF StoreInv

LEMMA WindowKept ==
  ASSUME NEW s \in Seq(Observations), NEW o \in Observations
  PROVE  LET t == Append(s, o)
             w == IF Len(t) > RepeatWindow THEN Tail(t) ELSE t
         IN  w \in Seq(Observations) /\ ToSet(w) \subseteq ToSet(s) \union {o}
<1> DEFINE t == Append(s, o)
<1>1. /\ t \in Seq(Observations) /\ t # <<>> /\ Len(t) = Len(s) + 1
      /\ \A i \in 1 .. Len(s) : t[i] = s[i]
      /\ t[Len(s) + 1] = o
  BY AppendProperties
<1>2. DOMAIN s = 1 .. Len(s) /\ DOMAIN t = 1 .. Len(t) /\ Len(s) \in Nat
  BY <1>1, LenProperties
<1> HIDE DEF t
<1>3. ToSet(t) \subseteq ToSet(s) \union {o}
  BY <1>1, <1>2 DEF ToSet
<1>4. Tail(t) \in Seq(Observations) /\ ToSet(Tail(t)) \subseteq ToSet(t)
  <2>1. /\ Tail(t) \in Seq(Observations) /\ Len(Tail(t)) = Len(t) - 1
        /\ \A i \in 1 .. Len(Tail(t)) : Tail(t)[i] = t[i + 1]
    BY <1>1, HeadTailProperties
  <2>2. DOMAIN Tail(t) = 1 .. Len(Tail(t))
    BY <2>1, LenProperties
  <2>3. QED
    BY <1>1, <1>2, <2>1, <2>2 DEF ToSet
<1>5. QED
  BY <1>1, <1>3, <1>4 DEF t

LEMMA ActInvariant == IInv /\ Act => IInv'
<1> SUFFICES ASSUME IInv, Act PROVE IInv'
  OBVIOUS
<1>1. /\ turn.pc = "act" /\ turn' = [turn EXCEPT !.pc = "turn"]
      /\ ledger' = ledger /\ view' = view
  BY DEF Act
<1>2. TurnInv'
  <2>1. turn' \in TurnType /\ turn'.pc = "turn"
    BY <1>1, TurnTyped DEF TurnType
  <2>2. QED
    BY <2>1 DEF TurnInv, TurnType
<1>3. StoreInv' /\ Held \subseteq Held' /\ DueInv'
  <2>1. CASE \E o \in Observations \ Held :
               store' = Append(store, o) /\ due' = [due EXCEPT !.burst = {o}]
    <3>1. PICK o \in Observations \ Held :
               store' = Append(store, o) /\ due' = [due EXCEPT !.burst = {o}]
      BY <2>1
    <3>2. StoreInv' /\ Held' = Held \union {o}
      BY <3>1, AppendHeld DEF IInv
    <3>3. QED
      BY <3>1, <3>2 DEF IInv, DueInv
  <2>2. CASE \E o \in Held : UNCHANGED store
               /\ due' = [due EXCEPT !.again = LET s == Append(@, o)
                                               IN  IF Len(s) > RepeatWindow THEN Tail(s) ELSE s]
    <3>1. PICK o \in Held : UNCHANGED store
               /\ due' = [due EXCEPT !.again = LET s == Append(@, o)
                                               IN  IF Len(s) > RepeatWindow THEN Tail(s) ELSE s]
      BY <2>2
    <3> DEFINE t == Append(due.again, o)
               w == IF Len(t) > RepeatWindow THEN Tail(t) ELSE t
    <3>2. due \in [bootstrap : SUBSET Held, burst : SUBSET Held, again : Seq(Observations)]
      BY DEF IInv, DueInv
    <3>3. due' = [due EXCEPT !.again = w]
      BY <3>1
    <3>4. w \in Seq(Observations) /\ ToSet(w) \subseteq ToSet(due.again) \union {o}
      BY <3>2, WindowKept, HeldProperties DEF IInv
    <3> HIDE DEF w
    <3>5. due' \in [bootstrap : SUBSET Held, burst : SUBSET Held, again : Seq(Observations)]
      BY <3>2, <3>3, <3>4
    <3>6. due'.again = w
      BY <3>2, <3>3
    <3>7. Held' = Held
      BY <3>1 DEF Held
    <3>8. QED
      BY <3>1, <3>4, <3>5, <3>6, <3>7 DEF IInv, DueInv, StoreInv
  <2>3. CASE UNCHANGED <<store, due>>
    BY <2>3 DEF IInv, StoreInv, DueInv, Held
  <2>4. QED
    BY <2>1, <2>2, <2>3 DEF Act
<1>4. LedgerInv'
  BY <1>1, <1>3 DEF IInv, LedgerInv
<1>5. ViewInv'
  BY <1>1, <1>3, ViewCarries DEF IInv, ViewInv
<1>6. QED
  BY <1>2, <1>3, <1>4, <1>5 DEF IInv

LEMMA StepInvariant == IInv /\ [Next]_vars => IInv'
<1> SUFFICES ASSUME IInv, [Next]_vars PROVE IInv'
  OBVIOUS
<1>1. CASE BeginTurn
  BY <1>1, BeginTurnInvariant
<1>2. CASE Unavailable
  <2>1. End("context_resolution_unavailable") /\ UNCHANGED <<store, ledger, due, view>>
    BY <1>2 DEF Unavailable
  <2>2. QED
    BY <2>1, EndInvariant
<1>3. CASE RequestContext
  BY <1>3, RequestInvariant
<1>4. CASE Compact
  <2>1. Leave("turn") /\ UNCHANGED <<store, ledger, due>>
    BY <1>4 DEF Compact
  <2>2. QED
    BY <2>1, StoresKept, LeaveViewTurn DEF IInv
<1>5. CASE Decide
  BY <1>5, DecideInvariant
<1>6. CASE Act
  BY <1>6, ActInvariant
<1>7. CASE UNCHANGED vars
  <2>1. UNCHANGED <<store, ledger, due>> /\ view' = view /\ turn' = turn
    BY <1>7 DEF vars
  <2>2. ViewInv' /\ TurnInv'
    BY <2>1, StoresKept, ViewCarries DEF IInv, ViewInv, TurnInv
  <2>3. QED
    BY <2>1, <2>2, StoresKept DEF IInv
<1>8. QED
  BY <1>1, <1>2, <1>3, <1>4, <1>5, <1>6, <1>7 DEF Next, Finished

LEMMA Inductive == Spec => []IInv
<1>1. QED
  BY InitInvariant, StepInvariant, PTL DEF Spec

-----------------------------------------------------------------------------
(* What the runs check, for any bodies and bounds *)

\* The view never claims a line that is not retained and offers nothing it displays, and
\* no legal request is refused because it is already visible.
THEOREM TypeCorrect == Spec => []TypeOK
<1>1. IInv => TypeOK
  <2> SUFFICES ASSUME IInv PROVE TypeOK
    OBVIOUS
  <2>1. Held \subseteq Observations
    BY HeldProperties DEF IInv
  <2>2. view.receipts \subseteq RequestType
    BY SelectionTyped DEF IInv, ViewInv, ViewOK
  <2>3. \A f \in view.offers : ~Shows(view.shown, f) /\ f.last <= Size(f.obs)
    BY DEF IInv, ViewInv, ViewOK, OfferOK
  <2>4. /\ turn.pc \in {"turn", "ask", "act", "ended"} /\ turn.rounds \in 0..RoundLimit
        /\ turn.why \notin {"context_already_visible"}
    BY TurnTyped DEF TurnType
  <2>5. QED
    BY <2>1, <2>2, <2>3, <2>4
    DEF TypeOK, IInv, LedgerInv, DueInv, ViewInv, ViewOK, TurnInv
<1>2. QED
  BY <1>1, Inductive, PTL

\* What a round has recovered is a receipt of the view, and at a decision every receipt
\* is displayed: a later round that would give it up does not resolve.
THEOREM RecoveryTheorem == Spec => []RecoveryKept
<1>1. IInv => RecoveryKept
  BY DEF IInv, TurnInv, RecoveryKept
<1>2. QED
  BY <1>1, Inductive, PTL
=============================================================================
