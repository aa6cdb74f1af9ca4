---------------------------- MODULE GenGC_proofs ----------------------------
(***************************************************************************)
(* For every layout of the heap, every number of roots, objects and cards,  *)
(* the variables of the collector keep their types.                         *)
(***************************************************************************)
EXTENDS GenGC, NatLemmas, TLAPS

\* TypeOK in parts: what an action leaves UNCHANGED keeps its part.
CardDomain == CardsOf(Addr \ Nursery)
DeckDomain == DecksOf(Addr \ Nursery)

HeapType == /\ id \in [Addr -> Ids \cup {NoId}]
            /\ slot \in [Addr -> [Slots -> Value]]
            /\ fwd \in [Addr -> Value]
RootType == root \in [Roots -> Value] /\ lit \in [CodeBlocks -> Value]
CardType == /\ cards \in [CardDomain -> SUBSET card_mark_mask]
            /\ decks \in [DeckDomain -> SUBSET card_mark_mask]
RsType   == points_to_nursery \subseteq CodeBlocks /\ points_to_aging \subseteq CodeBlocks
GenType  == semi \in {0, 1} /\ heap \in 1..Heaps
CtlType  == op \in GcOps /\ stage \in Stages /\ pending \in Pendings
TodoType == /\ rootsTodo \subseteq Roots /\ codeTodo \subseteq CodeBlocks
            /\ slotsTodo \subseteq Addr \X Slots
ScanType == /\ TodoType
            /\ gray \subseteq Addr /\ marked \subseteq Addr
            /\ decksTodo \subseteq DeckDomain /\ cardsTodo \subseteq CardDomain

\* The parts make up TypeOK.
LEMMA TypeParts ==
  TypeOK <=> HeapType /\ RootType /\ CardType /\ RsType /\ GenType /\ CtlType /\ ScanType
BY DEF TypeOK, HeapType, RootType, CardType, RsType, GenType, CtlType, ScanType,
       TodoType, CardDomain, DeckDomain

\* The same after a step.
LEMMA TypePartsNext ==
  ASSUME HeapType', RootType', CardType', RsType', GenType', CtlType', ScanType'
  PROVE  TypeOK'
BY DEF TypeOK, HeapType, RootType, CardType, RsType, GenType, CtlType, ScanType,
       TodoType, CardDomain, DeckDomain

\* The least of a set of addresses, cards or decks is one of them.
LEMMA MinOfIn ==
  ASSUME NEW S, S \subseteq Nat, S # {}
  PROVE  MinOf(S) \in S
BY LeastNat DEF MinOf

\* The generations lie in the heap.
LEMMA Layout ==
  /\ Addr \subseteq Nat /\ NULL \notin Addr /\ Nursery \subseteq Addr /\ Young \subseteq Addr
  /\ \A i \in {0, 1} : Aging[i] \subseteq Addr \ Nursery
  /\ \A h \in 1..Heaps : Tenured[h] \subseteq Addr \ Nursery
<1>1. Young \subseteq Nat /\ Old \subseteq Nat
  BY ConstantsAssumption DEF Young, Old
<1>2. \A h \in 1..Heaps : Tenured[h] \subseteq Old /\ Tenured[h] \cap Nursery = {}
  BY LayoutAssumption DEF Old, Young
<1>3. \A i \in {0, 1} : Aging[i] \subseteq Young /\ Aging[i] \cap Nursery = {}
  BY LayoutAssumption DEF Young
<1> QED
  BY <1>1, <1>2, <1>3, ConstantsAssumption DEF Addr, Young

\* aging and tenured are two of them.
LEMMA Generations ==
  ASSUME GenType
  PROVE  /\ aging \subseteq Addr \ Nursery /\ aging_semispace \subseteq Addr \ Nursery
         /\ tenured \subseteq Addr \ Nursery
         /\ Target \subseteq Addr /\ CardGen \subseteq Addr \ Nursery
<1>1. semi \in {0, 1} /\ 1 - semi \in {0, 1} /\ heap \in 1..Heaps
  BY DEF GenType
<1>2. /\ aging \subseteq Addr \ Nursery /\ aging_semispace \subseteq Addr \ Nursery
      /\ tenured \subseteq Addr \ Nursery
  BY <1>1, Layout DEF aging, aging_semispace, tenured
<1> QED
  BY <1>2 DEF Target, CardGen

\* The cards and decks of a generation belong to the heap.
LEMMA CardsOfGen ==
  ASSUME NEW gen, gen \subseteq Addr \ Nursery
  PROVE  /\ CardsOf(gen) \subseteq CardDomain /\ DecksOf(gen) \subseteq DeckDomain
         /\ \A d : CardsOfDeck(d, gen) \subseteq CardsOf(gen)
BY DEF CardsOf, DecksOf, CardsOfDeck, CardDomain, DeckDomain

\* Following forwarding pointers stays in the heap.
LEMMA FollowType ==
  ASSUME HeapType, NEW p \in Addr
  PROVE  Follow(p) \in Addr
<1>1. ASSUME NEW q \in Addr PROVE Hop(q) \in Addr
  BY DEF Hop, HeapType, Value
<1> QED
  BY <1>1 DEF Follow

\* What fixup_data returns, and what it allots and pushes, is in the heap.
LEMMA FixupType ==
  ASSUME HeapType, GenType, ScanType, NEW p \in Value, NEW n, fixup_data(p, n)
  PROVE  /\ New(p, n) \in Value
         /\ NeedsCopy(p) => New(p, n) \in Addr /\ p \in Addr /\ Follow(p) \in Addr
         /\ Pushed(p, n) \subseteq Addr
<1>1. p # NULL => p \in Addr /\ Follow(p) \in Addr /\ Resolved(p) \in Addr
  BY FollowType DEF Value, Resolved
<1>2. NeedsCopy(p) => n \in Addr
  <2>1. Free(Target) \subseteq Addr
    BY Generations, Layout DEF Free
  <2>2. NeedsCopy(p) => n \in Free(Target)
    BY DEF fixup_data, BlockFor, Blocks
  <2> QED
    BY <2>1, <2>2
<1>3. New(p, n) \in Value
  BY <1>1, <1>2 DEF New, Value
<1>4. NeedsCopy(p) => p # NULL /\ New(p, n) = n
  BY DEF NeedsCopy, New
<1>5. p # NULL => New(p, n) \in Addr
  BY <1>1, <1>2 DEF New
<1>6. Pushed(p, n) \subseteq Addr
  BY <1>5 DEF Pushed
<1> QED
  BY <1>1, <1>2, <1>3, <1>4, <1>6

\* The heap keeps its type when fixup_data copies an object.
LEMMA FixupKeepsType ==
  ASSUME TypeOK, NEW p \in Value, NEW n, fixup_data(p, n)
  PROVE  /\ id' \in [Addr -> Ids \cup {NoId}] /\ fwd' \in [Addr -> Value]
         /\ SlotsAfter(p, n) \in [Addr -> [Slots -> Value]]
         /\ gray' \subseteq Addr /\ marked' \subseteq Addr
<1>0. HeapType /\ GenType /\ ScanType
  BY TypeParts
<1>1. /\ New(p, n) \in Value
      /\ NeedsCopy(p) => New(p, n) \in Addr /\ p \in Addr /\ Follow(p) \in Addr
      /\ Pushed(p, n) \subseteq Addr
  BY <1>0, FixupType
<1>2. id' \in [Addr -> Ids \cup {NoId}]
  BY <1>0, <1>1 DEF fixup_data, HeapType
<1>3. fwd' \in [Addr -> Value]
  BY <1>0, <1>1 DEF fixup_data, HeapType
<1>4. SlotsAfter(p, n) \in [Addr -> [Slots -> Value]]
  BY <1>0, <1>1 DEF SlotsAfter, HeapType
<1>5. gray' \subseteq Addr /\ marked' \subseteq Addr
  BY <1>0, <1>1 DEF fixup_data, ScanType
<1> QED
  BY <1>2, <1>3, <1>4, <1>5

\* Emptying a generation.
LEMMA FlushType ==
  ASSUME HeapType, NEW gen, Flush(gen)
  PROVE  HeapType'
<1>1. NULL \in Value
  BY DEF Value
<1> QED
  BY <1>1 DEF Flush, HeapType

\* Clearing the cards and decks of a generation.
LEMMA ClearCardsType ==
  ASSUME CardType, NEW gen, ClearCards(gen)
  PROVE  CardType'
BY DEF ClearCards, CardType

\* A full collection starts.
LEMMA StartMarkType ==
  ASSUME NEW o \in {"FULL", "COMPACT", "GROWING_DATA_HEAP"}, StartMark(o),
         CtlType, pending' \in Pendings
  PROVE  CtlType' /\ ScanType'
BY DEF StartMark, CtlType, ScanType, TodoType, GcOps, Stages, VisitStages, MarkStages

\* gc returns.
LEMMA EndGCType ==
  ASSUME EndGC, CtlType, ScanType, pending' \in Pendings
  PROVE  CtlType' /\ ScanType'
BY DEF EndGC, todoVars, CtlType, ScanType, TodoType, GcOps, Stages

\* The data heap is replaced by a larger one.
LEMMA GrowType ==
  ASSUME Grow, GenType, UNCHANGED semi
  PROVE  GenType'
BY ConstantsAssumption DEF Grow, GenType

\* A stage starts, with its roots, decks or code blocks to visit.
LEMMA EnterType ==
  ASSUME TypeOK, NEW st \in VisitStages,
         \/ EnterRoots(st)
         \/ EnterCards(st, tenured, N) \/ EnterCards(st, tenured, A)
         \/ EnterCards(st, aging, N)
         \/ EnterCode(st, {}) \/ EnterCode(st, points_to_nursery)
         \/ EnterCode(st, points_to_aging)
  PROVE  /\ stage' \in Stages /\ TodoType'
         /\ decksTodo' \subseteq DeckDomain /\ cardsTodo' \subseteq CardDomain
<1>0. GenType /\ RsType
  BY TypeParts
<1>1. stage' = st /\ st \in Stages
  BY DEF EnterRoots, EnterCards, EnterCode, Stages
<1>2. DecksOf(aging) \subseteq DeckDomain /\ DecksOf(tenured) \subseteq DeckDomain
  BY <1>0, Generations, CardsOfGen
<1>3. decksTodo' \subseteq DeckDomain /\ cardsTodo' = {}
  BY <1>2 DEF EnterRoots, EnterCards, EnterCode, MaskedDecks
<1>4. TodoType'
  BY <1>0 DEF EnterRoots, EnterCards, EnterCode, TodoType, RsType
<1> QED
  BY <1>1, <1>3, <1>4

\* Marking the card and the deck of a slot.
LEMMA WriteBarrierType ==
  ASSUME CardType, NEW a \in Addr, write_barrier(a)
  PROVE  CardType'
<1>1. CASE a \in Nursery
  BY <1>1 DEF write_barrier, cardVars, CardType
<1>2. CASE a \notin Nursery
  BY <1>2 DEF write_barrier, CardType
<1> QED
  BY <1>1, <1>2

\* A new object, in the nursery or in tenured space.
LEMMA NewObjectType ==
  ASSUME TypeOK, Fresh # {}, NEW a \in Addr, NEW r \in Roots, NEW q \in Roots,
         NewObject(a, r, q), pending' \in Pendings
  PROVE  HeapType' /\ RootType' /\ RsType' /\ GenType' /\ CtlType' /\ ScanType'
<1>0. HeapType /\ RootType /\ RsType /\ GenType /\ CtlType /\ ScanType
  BY TypeParts
<1>1. MinOf(Fresh) \in Ids
  <2>1. Fresh \subseteq Ids /\ Ids \subseteq Nat
    BY ConstantsAssumption DEF Fresh
  <2> QED
    BY <2>1, MinOfIn
<1>2. HeapType'
  BY <1>0, <1>1 DEF NewObject, HeapType, RootType
<1>3. RootType'
  BY <1>0 DEF NewObject, RootType, Value
<1>4. RsType' /\ GenType' /\ CtlType' /\ ScanType'
  BY <1>0 DEF NewObject, rsVars, genVars, scanVars, todoVars, RsType, GenType, CtlType,
              ScanType, TodoType
<1> QED
  BY <1>2, <1>3, <1>4

\* Visiting one root, literal or slot.
LEMMA VisitType ==
  ASSUME TypeOK,
         \/ \E r \in Roots : VisitRoot(r)
         \/ \E c \in CodeBlocks : VisitLiteral(c)
         \/ \E a \in Addr, s \in Slots : VisitSlot(a, s)
  PROVE  TypeOK'
<1>0. HeapType /\ RootType /\ CardType /\ RsType /\ GenType /\ CtlType /\ ScanType
  BY TypeParts
<1>1. ASSUME NEW p \in Value, NEW n, fixup_data(p, n)
      PROVE  CardType' /\ RsType' /\ GenType' /\ CtlType'
  BY <1>0, <1>1 DEF fixup_data, cardVars, rsVars, genVars, CardType, RsType, GenType, CtlType
<1>2. ASSUME NEW r \in Roots, VisitRoot(r) PROVE TypeOK'
  <2> DEFINE p == root[r]
  <2>0. PICK n \in BlockFor(p) : /\ fixup_data(p, n) /\ slot' = SlotsAfter(p, n)
                                 /\ root' = [root EXCEPT ![r] = New(p, n)]
    BY <1>2 DEF VisitRoot
  <2>1. p \in Value /\ fixup_data(p, n)
    BY <1>0, <2>0 DEF RootType
  <2>2. New(p, n) \in Value
    BY <1>0, <2>1, FixupType
  <2>3. root' = [root EXCEPT ![r] = New(p, n)] /\ slot' = SlotsAfter(p, n) /\ lit' = lit
    BY <1>2, <2>0 DEF VisitRoot
  <2>4. TodoType' /\ decksTodo' = decksTodo /\ cardsTodo' = cardsTodo
    BY <1>0, <1>2 DEF VisitRoot, fixup_data, ScanType, TodoType
  <2> HIDE DEF p
  <2>5. HeapType' /\ gray' \subseteq Addr /\ marked' \subseteq Addr
    BY <2>1, <2>3, FixupKeepsType DEF HeapType
  <2>6. RootType'
    BY <1>0, <2>2, <2>3 DEF RootType
  <2> QED
    BY <1>0, <1>1, <2>1, <2>4, <2>5, <2>6, TypePartsNext DEF ScanType
<1>3. ASSUME NEW c \in CodeBlocks, VisitLiteral(c) PROVE TypeOK'
  <2> DEFINE p == lit[c]
  <2>0. PICK n \in BlockFor(p) : /\ fixup_data(p, n) /\ slot' = SlotsAfter(p, n)
                                 /\ lit' = [lit EXCEPT ![c] = New(p, n)]
    BY <1>3 DEF VisitLiteral
  <2>1. p \in Value /\ fixup_data(p, n)
    BY <1>0, <2>0 DEF RootType
  <2>2. New(p, n) \in Value
    BY <1>0, <2>1, FixupType
  <2>3. lit' = [lit EXCEPT ![c] = New(p, n)] /\ slot' = SlotsAfter(p, n) /\ root' = root
    BY <1>3, <2>0 DEF VisitLiteral
  <2>4. TodoType' /\ decksTodo' = decksTodo /\ cardsTodo' = cardsTodo
    BY <1>0, <1>3 DEF VisitLiteral, fixup_data, ScanType, TodoType
  <2> HIDE DEF p
  <2>5. HeapType' /\ gray' \subseteq Addr /\ marked' \subseteq Addr
    BY <2>1, <2>3, FixupKeepsType DEF HeapType
  <2>6. RootType'
    BY <1>0, <2>2, <2>3 DEF RootType
  <2> QED
    BY <1>0, <1>1, <2>1, <2>4, <2>5, <2>6, TypePartsNext DEF ScanType
<1>4. ASSUME NEW a \in Addr, NEW s \in Slots, VisitSlot(a, s) PROVE TypeOK'
  <2> DEFINE p == slot[a][s]
  <2>0. PICK n \in BlockFor(p) :
          fixup_data(p, n) /\ slot' = [SlotsAfter(p, n) EXCEPT ![a][s] = New(p, n)]
    BY <1>4 DEF VisitSlot
  <2>1. p \in Value /\ fixup_data(p, n)
    BY <1>0, <2>0 DEF HeapType
  <2>2. New(p, n) \in Value
    BY <1>0, <2>1, FixupType
  <2>3. slot' = [SlotsAfter(p, n) EXCEPT ![a][s] = New(p, n)] /\ UNCHANGED rootVars
    BY <1>4, <2>0 DEF VisitSlot
  <2>4. TodoType' /\ decksTodo' = decksTodo /\ cardsTodo' = cardsTodo
    BY <1>0, <1>4 DEF VisitSlot, fixup_data, ScanType, TodoType
  <2> HIDE DEF p
  <2>5. /\ id' \in [Addr -> Ids \cup {NoId}] /\ fwd' \in [Addr -> Value]
        /\ SlotsAfter(p, n) \in [Addr -> [Slots -> Value]]
        /\ gray' \subseteq Addr /\ marked' \subseteq Addr
    BY <2>1, FixupKeepsType
  <2>6. slot' \in [Addr -> [Slots -> Value]]
    BY <2>2, <2>3, <2>5
  <2>7. RootType'
    BY <1>0, <2>3 DEF RootType, rootVars
  <2> QED
    BY <1>0, <1>1, <2>1, <2>4, <2>5, <2>6, <2>7, TypePartsNext DEF ScanType, HeapType
<1> QED
  BY <1>2, <1>3, <1>4

\* The other steps of the collector.
LEMMA CollectorType ==
  ASSUME TypeOK, CollectorStep
  PROVE  TypeOK'
<1>0. HeapType /\ RootType /\ CardType /\ RsType /\ GenType /\ CtlType /\ ScanType
  BY TypeParts
<1>1. ASSUME NEW d \in DecksOf(Addr), OpenDeck(d) PROVE TypeOK'
  <2>1. CardType'
    BY <1>0, <1>1 DEF OpenDeck, CardType
  <2>2. cardsTodo' \subseteq CardDomain
    BY <1>0, <1>1, Generations, CardsOfGen DEF OpenDeck
  <2>3. HeapType' /\ RootType' /\ RsType' /\ GenType' /\ CtlType'
    BY <1>0, <1>1 DEF OpenDeck, heapVars, rootVars, rsVars, genVars,
                      HeapType, RootType, RsType, GenType, CtlType
  <2>4. ScanType'
    BY <1>0, <1>1, <2>2 DEF OpenDeck, todoVars, ScanType, TodoType
  <2> QED
    BY <2>1, <2>3, <2>4, TypePartsNext
<1>2. ASSUME NEW c \in CardsOf(Addr), OpenCard(c) PROVE TypeOK'
  <2>1. CardType'
    BY <1>0, <1>2 DEF OpenCard, CardType
  <2>2. slotsTodo' \subseteq Addr \X Slots
    BY <1>0, <1>2, Generations DEF OpenCard, SlotsOf, Allotted
  <2>3. HeapType' /\ RootType' /\ RsType' /\ GenType' /\ CtlType'
    BY <1>0, <1>2 DEF OpenCard, heapVars, rootVars, rsVars, genVars,
                      HeapType, RootType, RsType, GenType, CtlType
  <2>4. ScanType'
    BY <1>0, <1>2, <2>2 DEF OpenCard, ScanType, TodoType
  <2> QED
    BY <2>1, <2>3, <2>4, TypePartsNext
<1>2a. ASSUME NEW c \in CardsOf(Addr), CloseCard(c) PROVE TypeOK'
  <2>1. HeapType' /\ RootType' /\ CardType' /\ RsType' /\ GenType' /\ CtlType'
    BY <1>0, <1>2a DEF CloseCard, heapVars, rootVars, cardVars, rsVars, genVars,
                       HeapType, RootType, CardType, RsType, GenType, CtlType
  <2>2. cardsTodo' \subseteq cardsTodo /\ decksTodo' \subseteq decksTodo
    BY <1>2a DEF CloseCard
  <2>3. ScanType'
    BY <1>0, <1>2a, <2>2 DEF CloseCard, ScanType, TodoType, todoVars
  <2> QED
    BY <2>1, <2>3, TypePartsNext
<1>3. ASSUME NEW a \in Addr, ScanGray(a) PROVE TypeOK'
  <2>1. HeapType' /\ RootType' /\ CardType' /\ RsType' /\ GenType' /\ CtlType'
    BY <1>0, <1>3 DEF ScanGray, heapVars, rootVars, cardVars, rsVars, genVars,
                      HeapType, RootType, CardType, RsType, GenType, CtlType
  <2>2. ScanType'
    BY <1>0, <1>3 DEF ScanGray, SlotsOf, ScanType, TodoType
  <2> QED
    BY <2>1, <2>2, TypePartsNext
<1>4. CASE NextStage
  <2>1. /\ stage' \in Stages /\ TodoType'
        /\ decksTodo' \subseteq DeckDomain /\ cardsTodo' \subseteq CardDomain
    <3>1. {"n_tcards", "n_acards", "n_code", "n_trace", "a_code", "a_mark", "a_trace",
           "t_tcards", "t_code", "t_mark", "f_mark"} \subseteq VisitStages
      BY DEF VisitStages, NurseryStages, ToAgingStages, ToTenuredStages, MarkStages
    <3> QED
      BY <1>4, <3>1, EnterType DEF NextStage
  <2>2. HeapType' /\ RootType' /\ CardType' /\ RsType' /\ GenType'
    BY <1>0, <1>4 DEF NextStage, heapVars, rootVars, cardVars, rsVars, genVars,
                      HeapType, RootType, CardType, RsType, GenType
  <2>3. CtlType' /\ ScanType'
    BY <1>0, <1>4, <2>1 DEF NextStage, CtlType, ScanType
  <2> QED
    BY <2>2, <2>3, TypePartsNext
<1>5. CASE SwapSemispaces
  <2>1. "a_roots" \in VisitStages
    BY DEF VisitStages, ToAgingStages
  <2>2. /\ stage' \in Stages /\ TodoType'
        /\ decksTodo' \subseteq DeckDomain /\ cardsTodo' \subseteq CardDomain
    BY <1>5, <2>1, EnterType DEF SwapSemispaces
  <2>3. HeapType' /\ CardType'
    BY <1>0, <1>5, FlushType, ClearCardsType DEF SwapSemispaces
  <2>4. RootType' /\ RsType' /\ GenType'
    BY <1>0, <1>5 DEF SwapSemispaces, rootVars, rsVars, RootType, RsType, GenType
  <2>5. CtlType' /\ ScanType'
    BY <1>0, <1>5, <2>2 DEF SwapSemispaces, CtlType, ScanType, GcOps
  <2> QED
    BY <2>3, <2>4, <2>5, TypePartsNext
<1>6. CASE StartGcAgain
  <2>1. "a_tcards" \in VisitStages /\ "t_roots" \in VisitStages
    BY DEF VisitStages, ToTenuredStages
  <2>2. HeapType' /\ RootType' /\ CardType' /\ RsType' /\ GenType'
    BY <1>0, <1>6 DEF StartGcAgain, heapVars, rootVars, cardVars, rsVars, genVars,
                      HeapType, RootType, CardType, RsType, GenType
  <2>3. CASE op \in {"NURSERY", "AGING"}
    <3>1. /\ op' = "TO_TENURED" /\ gray' = {}
          /\ EnterCards("a_tcards", tenured, A) \/ EnterRoots("t_roots")
          /\ UNCHANGED <<marked, pending>>
      BY <1>6, <2>3 DEF StartGcAgain
    <3>2. /\ stage' \in Stages /\ TodoType'
          /\ decksTodo' \subseteq DeckDomain /\ cardsTodo' \subseteq CardDomain
      BY <2>1, <3>1, EnterType
    <3> QED
      BY <1>0, <2>2, <3>1, <3>2, TypePartsNext DEF CtlType, ScanType, GcOps
  <2>4. CASE op \notin {"NURSERY", "AGING"}
    <3>1. /\ stage' = "critical_error"
          /\ UNCHANGED <<op, todoVars, gray, decksTodo, cardsTodo, marked, pending>>
      BY <1>6, <2>4 DEF StartGcAgain
    <3> QED
      BY <1>0, <2>2, <3>1, TypePartsNext DEF CtlType, ScanType, TodoType, todoVars, Stages
  <2> QED
    BY <2>3, <2>4
<1>7. CASE FinishNursery
  <2>1. HeapType'
    BY <1>0, <1>7, FlushType DEF FinishNursery
  <2>2. CtlType' /\ ScanType'
    BY <1>0, <1>7, EndGCType DEF FinishNursery, CtlType
  <2>3. RootType' /\ CardType' /\ RsType' /\ GenType'
    BY <1>0, <1>7 DEF FinishNursery, rootVars, cardVars, genVars,
                      RootType, CardType, RsType, GenType
  <2> QED
    BY <2>1, <2>2, <2>3, TypePartsNext
<1>8. ASSUME CheckFragmentation, UNCHANGED pending
      PROVE  CtlType' /\ ScanType'
  <2>1. StartMark("FULL") \/ EndGC
    BY <1>8 DEF CheckFragmentation
  <2>2. pending' \in Pendings
    BY <1>0, <1>8 DEF CtlType
  <2> QED
    BY <1>0, <2>1, <2>2, StartMarkType, EndGCType
<1>9. CASE FinishAging
  <2>1. HeapType'
    BY <1>0, <1>9, FlushType DEF FinishAging
  <2>2. CtlType' /\ ScanType'
    BY <1>8, <1>9 DEF FinishAging
  <2>3. RootType' /\ CardType' /\ RsType' /\ GenType'
    BY <1>0, <1>9 DEF FinishAging, ClearRememberedSet, rootVars, cardVars, genVars,
                      RootType, CardType, RsType, GenType
  <2> QED
    BY <2>1, <2>2, <2>3, TypePartsNext
<1>10. CASE FinishToTenured
  <2>1. HeapType' /\ CardType'
    BY <1>0, <1>10, FlushType, ClearCardsType DEF FinishToTenured
  <2>2. CtlType' /\ ScanType'
    BY <1>8, <1>10 DEF FinishToTenured
  <2>3. RootType' /\ RsType' /\ GenType'
    BY <1>0, <1>10 DEF FinishToTenured, ClearRememberedSet, rootVars, genVars,
                       RootType, RsType, GenType
  <2> QED
    BY <2>1, <2>2, <2>3, TypePartsNext
<1>11. CASE FinishMark
  <2>1. HeapType' /\ CardType'
    BY <1>0, <1>11, FlushType, ClearCardsType DEF FinishMark
  <2>2. RootType' /\ RsType' /\ GenType' /\ CtlType' /\ ScanType'
    BY <1>0, <1>11 DEF FinishMark, ClearRememberedSet, rootVars, genVars, scanVars, todoVars,
                       RootType, RsType, GenType, CtlType, ScanType, TodoType, Stages
  <2> QED
    BY <2>1, <2>2, TypePartsNext
<1>12. CASE Sweep
  <2>1. HeapType'
    BY <1>0, <1>12, FlushType DEF Sweep
  <2>2. RootType' /\ CardType' /\ RsType' /\ GenType' /\ CtlType' /\ ScanType'
    BY <1>0, <1>12 DEF Sweep, rootVars, cardVars, rsVars, genVars, scanVars, todoVars, RootType,
                       CardType, RsType, GenType, CtlType, ScanType, TodoType, Stages
  <2> QED
    BY <2>1, <2>2, TypePartsNext
<1>13. ASSUME Grow, UNCHANGED <<semi, pending>>
       PROVE  GenType' /\ CtlType' /\ ScanType'
  <2>1. pending' \in Pendings /\ StartMark("GROWING_DATA_HEAP")
    BY <1>0, <1>13 DEF CtlType, Grow
  <2> QED
    BY <1>0, <1>13, <2>1, GrowType, StartMarkType
<1>14. ASSUME EndGC, UNCHANGED <<semi, heap, pending>>
       PROVE  GenType' /\ CtlType' /\ ScanType'
  BY <1>0, <1>14, EndGCType DEF CtlType, GenType
<1>15. CASE AfterSweep
  <2>1. /\ UNCHANGED <<heapVars, rootVars, cardVars, rsVars, semi, pending>>
        /\ \/ Grow
           \/ EndGC /\ UNCHANGED heap
           \/ op' = "COMPACT" /\ stage' = "f_compact" /\ UNCHANGED <<scanVars, heap>>
    BY <1>15 DEF AfterSweep
  <2>2. HeapType' /\ RootType' /\ CardType' /\ RsType'
    BY <1>0, <2>1 DEF heapVars, rootVars, cardVars, rsVars, HeapType, RootType, CardType, RsType
  <2>3. CASE op' = "COMPACT" /\ stage' = "f_compact" /\ UNCHANGED <<scanVars, heap>>
    BY <1>0, <2>1, <2>2, <2>3, TypePartsNext
       DEF scanVars, todoVars, GenType, CtlType, ScanType, TodoType, Stages, GcOps
  <2> QED
    BY <1>13, <1>14, <2>1, <2>2, <2>3, TypePartsNext
<1>16. CASE AfterCompact
  <2>1. /\ UNCHANGED <<heapVars, rootVars, cardVars, rsVars, semi, pending>>
        /\ Grow \/ (EndGC /\ UNCHANGED heap)
    BY <1>16 DEF AfterCompact
  <2>2. HeapType' /\ RootType' /\ CardType' /\ RsType'
    BY <1>0, <2>1 DEF heapVars, rootVars, cardVars, rsVars, HeapType, RootType, CardType, RsType
  <2> QED
    BY <1>13, <1>14, <2>1, <2>2, TypePartsNext
<1>17. CASE Compact
  <2>1. PICK f \in Slides(marked) : CompactHeap(f)
    BY <1>17 DEF Compact
  <2>2. marked \subseteq Addr /\ tenured \subseteq Addr /\ f \in [marked -> tenured]
    BY <1>0, Generations DEF ScanType, Slides
  <2>3. HeapType' /\ RootType'
    <3> DEFINE Moved(p) == IF p \in marked THEN f[p] ELSE p
               From(a) == CHOOSE b \in marked : f[b] = a
               Taken == {f[b] : b \in marked}
    <3>1. ASSUME NEW p \in Value PROVE Moved(p) \in Value
      BY <2>2 DEF Value
    <3>2. ASSUME NEW a \in Taken PROVE From(a) \in Addr
      BY <2>2
    <3>3. NULL \in Value
      BY DEF Value
    <3>4. /\ id' = [a \in Addr |-> IF a \in Taken THEN id[From(a)] ELSE NoId]
          /\ slot' = [a \in Addr |-> IF a \in Taken
                                     THEN [s \in Slots |-> Moved(slot[From(a)][s])]
                                     ELSE [s \in Slots |-> NULL]]
          /\ fwd' = [a \in Addr |-> NULL]
          /\ root' = [r \in Roots |-> Moved(root[r])]
          /\ lit' = [c \in CodeBlocks |-> Moved(lit[c])]
      BY <2>1 DEF CompactHeap
    <3> HIDE DEF Moved, From, Taken
    <3>5. id' \in [Addr -> Ids \cup {NoId}]
      BY <1>0, <3>2, <3>4 DEF HeapType
    <3>6. slot' \in [Addr -> [Slots -> Value]]
      BY <1>0, <3>1, <3>2, <3>3, <3>4 DEF HeapType
    <3>7. fwd' \in [Addr -> Value] /\ RootType'
      BY <1>0, <3>1, <3>3, <3>4 DEF RootType
    <3> QED
      BY <3>5, <3>6, <3>7 DEF HeapType
  <2>4. CardType' /\ RsType' /\ GenType'
    BY <1>0, <1>17 DEF Compact, cardVars, rsVars, genVars, CardType, RsType, GenType
  <2>5. CtlType' /\ ScanType'
    <3>1. CASE EndGC
      BY <1>0, <1>17, <3>1, EndGCType DEF Compact, CtlType
    <3>2. CASE stage' = "f_compacted" /\ UNCHANGED <<op, scanVars>>
      BY <1>0, <1>17, <3>2
         DEF Compact, scanVars, todoVars, CtlType, ScanType, TodoType, Stages
    <3> QED
      BY <1>17, <3>1, <3>2 DEF Compact
  <2> QED
    BY <2>3, <2>4, <2>5, TypePartsNext
<1> QED
  BY <1>1, <1>2, <1>2a, <1>3, <1>4, <1>5, <1>6, <1>7, <1>9, <1>10, <1>11, <1>12, <1>15, <1>16,
     <1>17, VisitType DEF CollectorStep

\* gc is entered.
LEMMA StartGCType ==
  ASSUME TypeOK, NEW o \in {"NURSERY", "FULL", "COMPACT"}, StartGC(o), pending' \in Pendings
  PROVE  CtlType' /\ ScanType'
<1>0. CtlType /\ ScanType
  BY TypeParts
<1>1. CASE o = "NURSERY"
  <2>1. "n_roots" \in VisitStages
    BY DEF VisitStages, NurseryStages
  <2>2. op' = "NURSERY" /\ gray' = {} /\ EnterRoots("n_roots") /\ marked' = marked
    BY <1>1 DEF StartGC
  <2>3. /\ stage' \in Stages /\ TodoType'
        /\ decksTodo' \subseteq DeckDomain /\ cardsTodo' \subseteq CardDomain
    BY <2>1, <2>2, EnterType
  <2> QED
    BY <1>0, <2>2, <2>3 DEF CtlType, ScanType, GcOps
<1>2. CASE o # "NURSERY"
  BY <1>0, <1>2, StartMarkType DEF StartGC
<1> QED
  BY <1>1, <1>2

\* The steps of the program.
LEMMA MutatorType ==
  ASSUME TypeOK, MutatorStep
  PROVE  TypeOK'
<1>0. HeapType /\ RootType /\ CardType /\ RsType /\ GenType /\ CtlType /\ ScanType
  BY TypeParts
<1>1. ASSUME NEW o \in {"NURSERY", "FULL", "COMPACT"}, StartGC(o), pending' \in Pendings,
             UNCHANGED <<heapVars, rootVars, cardVars, rsVars, genVars>>
      PROVE  TypeOK'
  <2>1. HeapType' /\ RootType' /\ CardType' /\ RsType' /\ GenType'
    BY <1>0, <1>1 DEF heapVars, rootVars, cardVars, rsVars, genVars,
                      HeapType, RootType, CardType, RsType, GenType
  <2> QED
    BY <1>1, <2>1, StartGCType, TypePartsNext
<1>2. ASSUME NEW r \in Roots, NEW q \in Roots, allot_object(r, q) PROVE TypeOK'
  <2>1. CASE Free(Nursery) # {}
    <3>1. Free(Nursery) \subseteq Nat /\ Free(Nursery) \subseteq Addr
      BY Layout DEF Free
    <3>2. MinOf(Free(Nursery)) \in Addr
      BY <2>1, <3>1, MinOfIn
    <3>3. /\ NewObject(MinOf(Free(Nursery)), r, q) /\ Fresh # {}
          /\ pending' \in Pendings /\ UNCHANGED cardVars
      BY <1>2, <2>1 DEF allot_object, Pendings
    <3>4. HeapType' /\ RootType' /\ RsType' /\ GenType' /\ CtlType' /\ ScanType'
      BY <3>2, <3>3, NewObjectType
    <3>5. CardType'
      BY <1>0, <3>3 DEF cardVars, CardType
    <3> QED
      BY <3>4, <3>5, TypePartsNext
  <2>2. CASE Free(Nursery) = {}
    BY <1>1, <1>2, <2>2 DEF allot_object, Pendings
  <2> QED
    BY <2>1, <2>2
<1>3. ASSUME NEW r \in Roots, NEW q \in Roots, allot_large_object(r, q) PROVE TypeOK'
  <2>1. ASSUME NEW n \in Blocks(tenured), Fresh # {}, NewObject(n, r, q), write_barrier(n),
               pending' = "none"
        PROVE  TypeOK'
    <3>1. Free(tenured) \subseteq Addr
      BY <1>0, Generations, Layout DEF Free
    <3>2. n \in Addr
      BY <2>1, <3>1 DEF Blocks
    <3>3. HeapType' /\ RootType' /\ RsType' /\ GenType' /\ CtlType' /\ ScanType'
      BY <2>1, <3>2, NewObjectType DEF Pendings
    <3>4. CardType'
      BY <1>0, <2>1, <3>2, WriteBarrierType
    <3> QED
      BY <3>3, <3>4, TypePartsNext
  <2>2. ASSUME Grow, pending' = "grown", UNCHANGED <<heapVars, rootVars, cardVars, rsVars, semi>>
        PROVE  TypeOK'
    <3>1. HeapType' /\ RootType' /\ CardType' /\ RsType'
      BY <1>0, <2>2 DEF heapVars, rootVars, cardVars, rsVars,
                        HeapType, RootType, CardType, RsType
    <3>2. GenType'
      BY <1>0, <2>2, GrowType
    <3>3. CtlType' /\ ScanType'
      BY <1>0, <2>2, StartMarkType DEF Grow, Pendings
    <3> QED
      BY <3>1, <3>2, <3>3, TypePartsNext
  <2>3. \/ /\ \E n \in Blocks(tenured) : NewObject(n, r, q) /\ write_barrier(n)
           /\ Fresh # {} /\ pending' = "none"
        \/ /\ StartGC("COMPACT") /\ pending' = "compacted"
           /\ UNCHANGED <<heapVars, rootVars, cardVars, rsVars, genVars>>
        \/ /\ Grow /\ pending' = "grown"
           /\ UNCHANGED <<heapVars, rootVars, cardVars, rsVars, semi>>
    BY <1>3 DEF allot_large_object
  <2> QED
    BY <1>1, <2>1, <2>2, <2>3 DEF Pendings
<1>4. ASSUME UNCHANGED <<heapVars, lit, cardVars, rsVars, genVars, op, stage, scanVars, pending>>,
             NEW r \in Roots, NEW v \in Value, root' = [root EXCEPT ![r] = v]
      PROVE  TypeOK'
  <2>1. RootType'
    BY <1>0, <1>4 DEF RootType
  <2>2. HeapType' /\ CardType' /\ RsType' /\ GenType' /\ CtlType' /\ ScanType'
    BY <1>0, <1>4 DEF heapVars, cardVars, rsVars, genVars, scanVars, todoVars, HeapType,
                      CardType, RsType, GenType, CtlType, ScanType, TodoType
  <2> QED
    BY <2>1, <2>2, TypePartsNext
<1>5. ASSUME NEW r \in Roots, NEW q \in Roots, MoveRoot(r, q) PROVE TypeOK'
  BY <1>0, <1>4, <1>5 DEF MoveRoot, RootType
<1>6. ASSUME NEW r \in Roots, DropRoot(r) PROVE TypeOK'
  BY <1>4, <1>6 DEF DropRoot, Value
<1>7. ASSUME NEW r \in Roots, NEW q \in Roots, NEW s \in Slots, ReadSlot(r, q, s) PROVE TypeOK'
  <2>1. root[q] \in Addr
    BY <1>0, <1>7 DEF ReadSlot, RootType, Value
  <2>2. slot[root[q]][s] \in Value
    BY <1>0, <2>1 DEF HeapType
  <2> QED
    BY <1>4, <1>7, <2>2 DEF ReadSlot
<1>8. ASSUME NEW r \in Roots, NEW q \in Roots, NEW s \in Slots, set_slot(q, s, r) PROVE TypeOK'
  <2>1. root[q] \in Addr /\ root[r] \in Value
    BY <1>0, <1>8 DEF set_slot, RootType, Value
  <2>2. HeapType'
    BY <1>0, <1>8, <2>1 DEF set_slot, HeapType
  <2>3. CardType'
    BY <1>0, <1>8, <2>1, WriteBarrierType DEF set_slot
  <2>4. RootType' /\ RsType' /\ GenType' /\ CtlType' /\ ScanType'
    BY <1>0, <1>8 DEF set_slot, rootVars, rsVars, genVars, scanVars, todoVars, RootType,
                      RsType, GenType, CtlType, ScanType, TodoType
  <2> QED
    BY <2>2, <2>3, <2>4, TypePartsNext
<1>9. ASSUME NEW c \in CodeBlocks, NEW r \in Roots, StoreLiteral(c, r) PROVE TypeOK'
  <2>1. RootType' /\ RsType'
    BY <1>0, <1>9 DEF StoreLiteral, RootType, RsType
  <2>2. HeapType' /\ CardType' /\ GenType' /\ CtlType' /\ ScanType'
    BY <1>0, <1>9 DEF StoreLiteral, heapVars, cardVars, genVars, scanVars, todoVars,
                      HeapType, CardType, GenType, CtlType, ScanType, TodoType
  <2> QED
    BY <2>1, <2>2, TypePartsNext
<1>10. ASSUME NEW o \in {"NURSERY", "FULL", "COMPACT"}, CollectPrimitive(o) PROVE TypeOK'
  BY <1>0, <1>1, <1>10 DEF CollectPrimitive, CtlType
<1>11. ASSUME NEW r \in Roots, NEW q \in Roots, become(q, r) PROVE TypeOK'
  <2>1. CASE pending = "none"
    BY <1>1, <1>11, <2>1 DEF become, Pendings
  <2>2. CASE pending # "none"
    <3> DEFINE Became(p) == IF p = root[q] THEN root[r] ELSE p
    <3>1. \A p \in Value : Became(p) \in Value
      BY <1>0 DEF RootType
    <3>2. /\ root' = [x \in Roots |-> Became(root[x])]
          /\ lit' = [c \in CodeBlocks |-> Became(lit[c])]
          /\ slot' = [a \in Addr |-> [s \in Slots |-> Became(slot[a][s])]]
          /\ points_to_nursery' = CodeBlocks /\ points_to_aging' = CodeBlocks
          /\ pending' = "none" /\ UNCHANGED <<id, fwd, genVars, op, stage, scanVars>>
      BY <1>11, <2>2 DEF become
    <3>3. CardType'
      BY <1>0, <1>11, <2>2 DEF become, CardType
    <3> HIDE DEF Became
    <3>4. HeapType' /\ RootType'
      BY <1>0, <3>1, <3>2 DEF HeapType, RootType
    <3>5. RsType' /\ GenType' /\ CtlType' /\ ScanType'
      BY <1>0, <3>2 DEF genVars, scanVars, todoVars, RsType, GenType, CtlType, Pendings,
                        ScanType, TodoType
    <3> QED
      BY <3>3, <3>4, <3>5, TypePartsNext
  <2> QED
    BY <2>1, <2>2
<1> QED
  BY <1>2, <1>3, <1>5, <1>6, <1>7, <1>8, <1>9, <1>10, <1>11 DEF MutatorStep

\* The initial state has its types.
LEMMA InitType == Init => TypeOK
<1> SUFFICES ASSUME Init PROVE TypeOK
  OBVIOUS
<1>0. NULL \in Value /\ 1 \in 1..Heaps
  BY ConstantsAssumption DEF Value
<1>1. HeapType /\ RootType
  BY <1>0 DEF Init, HeapType, RootType
<1>2. CardType /\ RsType /\ GenType /\ CtlType /\ ScanType
  BY <1>0 DEF Init, CardType, CardDomain, DeckDomain, RsType, GenType, CtlType, ScanType,
              TodoType, GcOps, Stages, Pendings
<1> QED
  BY <1>1, <1>2, TypeParts

\* A stuttering step keeps the types.
LEMMA TypeStutter ==
  ASSUME TypeOK, UNCHANGED vars
  PROVE  TypeOK'
<1>1. /\ HeapType' /\ RootType' /\ CardType' /\ RsType' /\ GenType' /\ CtlType' /\ ScanType'
  BY TypeParts DEF vars, heapVars, rootVars, cardVars, rsVars, genVars, scanVars, todoVars,
     HeapType, RootType, CardType, RsType, GenType, CtlType, ScanType, TodoType
<1> QED
  BY <1>1, TypePartsNext

\* The variables keep their types: no pointer ever leaves the heap.
THEOREM TypeCorrect == Spec => []TypeOK
<1>1. TypeOK /\ [Next]_vars => TypeOK'
  BY TypeStutter, CollectorType, MutatorType DEF Next
<1> QED
  BY <1>1, InitType, PTL DEF Spec
=============================================================================
