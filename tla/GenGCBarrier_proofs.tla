------------------------ MODULE GenGCBarrier_proofs -------------------------
(***************************************************************************)
(* WriteBarrierHolds for every layout of the heap and any number of         *)
(* objects, from the inductive invariant NoSlotForgotten.                   *)
(***************************************************************************)
EXTENDS GenGCBarrier, GenGC_proofs

Inv == TypeOK /\ NoSlotForgotten

\* The generations are disjoint, and so are their cards and decks.
LEMMA Disjointness ==
  ASSUME TypeOK
  PROVE  /\ semi \in {0, 1} /\ heap \in 1..Heaps
         /\ tenured = Tenured[heap] /\ aging = Aging[semi]
         /\ tenured \subseteq Addr \ Nursery /\ aging \subseteq Addr \ Nursery
         /\ aging_semispace \subseteq Addr \ Nursery
         /\ tenured \cap aging = {} /\ tenured \cap aging_semispace = {}
         /\ aging \cap aging_semispace = {} /\ tenured \cap Young = {}
         /\ NULL \notin Addr /\ Addr \subseteq Nat
         /\ \A h \in 1..Heaps : Tenured[h] \cap Young = {}
         /\ \A g, h \in 1..Heaps : g # h => Tenured[g] \cap Tenured[h] = {}
         /\ \A a \in aging, b \in tenured : addr_to_deck(a) # addr_to_deck(b)
         /\ \A a, b : addr_to_card(a) = addr_to_card(b) => addr_to_deck(a) = addr_to_deck(b)
<1>0. GenType
  BY TypeParts
<1>1. /\ semi \in {0, 1} /\ 1 - semi \in {0, 1} /\ heap \in 1..Heaps
      /\ tenured = Tenured[heap] /\ aging = Aging[semi] /\ aging_semispace = Aging[1 - semi]
  BY <1>0 DEF GenType, tenured, aging, aging_semispace
<1>2. \A i \in {0, 1} : Aging[i] \subseteq Young
  BY DEF Young
<1>3. tenured \cap Young = {}
  BY <1>1, LayoutAssumption
<1>4. aging \cap aging_semispace = {}
  BY <1>1, LayoutAssumption
<1>5. ASSUME NEW a \in aging, NEW b \in tenured PROVE addr_to_deck(a) # addr_to_deck(b)
  <2>1. addr_to_deck(a) \in DecksOf(Aging[semi]) /\ addr_to_deck(b) \in DecksOf(Tenured[heap])
    BY <1>1 DEF DecksOf
  <2> QED
    BY <1>1, <2>1, LayoutAssumption
<1>6. \A a, b : addr_to_card(a) = addr_to_card(b) => addr_to_deck(a) = addr_to_deck(b)
  BY DEF addr_to_deck
<1> QED
  BY <1>0, <1>1, <1>2, <1>3, <1>4, <1>5, <1>6, Generations, Layout, LayoutAssumption

\* Cards of different generations are different.
LEMMA CardsDisjoint ==
  ASSUME TypeOK
  PROVE  \A a \in aging, b \in tenured : addr_to_card(a) # addr_to_card(b)
BY Disjointness

\* The pointer that fixup_data returns lies where the collector wants its objects,
\* and a copied object is gray.
LEMMA FixupResult ==
  ASSUME TypeOK, NEW p \in Value, NEW n, fixup_data(p, n)
  PROVE  /\ NeedsCopy(p) => /\ New(p, n) \in Target /\ id[New(p, n)] = NoId
                            /\ New(p, n) \in gray'
         /\ stage \in NurseryStages \cup ToAgingStages =>
              New(p, n) \notin Nursery /\ (Clean(p) => New(p, n) = p)
         /\ stage \in ToTenuredStages \cup MarkStages => Clean(New(p, n))
         /\ gray \subseteq gray' /\ marked \subseteq marked'
         /\ \A a \in marked' : a \in marked \/ (a \in gray' /\ stage \in MarkStages /\ a \in tenured)
<1>0. HeapType /\ GenType /\ ScanType
  BY TypeParts
<1>1. NeedsCopy(p) => New(p, n) \in Free(Target) /\ New(p, n) = n /\ p # NULL
  <2>1. NeedsCopy(p) => n \in Free(Target) /\ p # NULL
    BY DEF fixup_data, NeedsCopy, BlockFor, Blocks
  <2> QED
    BY <2>1 DEF New
<1>2. NeedsCopy(p) => New(p, n) \in Pushed(p, n)
  BY <1>1 DEF Pushed
<1>3. gray' = gray \cup Pushed(p, n)
      /\ marked' = IF stage \in MarkStages THEN marked \cup Pushed(p, n) ELSE marked
  BY DEF fixup_data
<1>4. p # NULL /\ ~NeedsCopy(p) => New(p, n) = Resolved(p) /\ Kept(New(p, n))
  BY DEF New, NeedsCopy
<1>5. p = NULL => New(p, n) = NULL
  BY DEF New, NeedsCopy
<1>6. CASE stage \in NurseryStages
  <2>1. Target = aging /\ \A q : Kept(q) <=> q \notin Nursery
    BY <1>6 DEF Target, Kept, NurseryStages, ToAgingStages
  <2>2. New(p, n) \notin Nursery
    BY <1>1, <1>4, <1>5, <2>1, Disjointness, Layout, Zenon DEF Free
  <2>3. Clean(p) /\ p # NULL => New(p, n) = p
    <3>1. Clean(p) /\ p # NULL => p \notin Nursery
      BY Disjointness DEF Clean
    <3>2. Clean(p) /\ p # NULL => Resolved(p) = p /\ ~NeedsCopy(p)
      BY <2>1, <3>1 DEF Resolved, NeedsCopy
    <3> QED
      BY <1>4, <3>2
  <2>4. stage \notin ToTenuredStages \cup MarkStages
    BY <1>6 DEF NurseryStages, ToTenuredStages, MarkStages
  <2>5. Clean(p) => New(p, n) = p
    BY <1>5, <2>3
  <2> QED
    BY <1>1, <1>2, <1>3, <2>2, <2>4, <2>5 DEF Free, MarkStages, NurseryStages
<1>7. CASE stage \in ToAgingStages
  <2>1. Target = aging /\ \A q : Kept(q) <=> q \in aging \cup tenured
    BY <1>7 DEF Target, Kept, NurseryStages, ToAgingStages
  <2>2. New(p, n) \notin Nursery
    BY <1>1, <1>4, <1>5, <2>1, Disjointness, Layout, Zenon DEF Free
  <2>3. Clean(p) /\ p # NULL => New(p, n) = p
    <3>1. Clean(p) /\ p # NULL => Resolved(p) = p /\ ~NeedsCopy(p)
      BY <2>1 DEF Resolved, NeedsCopy, Clean
    <3> QED
      BY <1>4, <3>1
  <2>4. stage \notin ToTenuredStages \cup MarkStages
    BY <1>7 DEF ToAgingStages, ToTenuredStages, MarkStages
  <2>5. Clean(p) => New(p, n) = p
    BY <1>5, <2>3
  <2> QED
    BY <1>1, <1>2, <1>3, <2>2, <2>4, <2>5 DEF Free
<1>8. CASE stage \in ToTenuredStages \cup MarkStages
  <2>1. stage \notin NurseryStages \cup ToAgingStages
    BY <1>8 DEF NurseryStages, ToAgingStages, ToTenuredStages, MarkStages
  <2>2. Target = tenured /\ \A q : Kept(q) <=> q \in tenured
    BY <2>1 DEF Target, Kept
  <2>3. Clean(New(p, n))
    BY <1>1, <1>4, <1>5, <2>2 DEF Clean, Free
  <2>4. \A a \in Pushed(p, n) : a \in tenured
    BY <1>1, <1>4, <2>2 DEF Pushed, Free
  <2> QED
    BY <1>1, <1>2, <1>3, <2>1, <2>3, <2>4 DEF Free
<1> QED
  BY <1>6, <1>7, <1>8 DEF fixup_data, VisitStages

\* Visiting one pointer: the slots that change refer to where they should now, and
\* the copied object is gray.
LEMMA VisitKeeps ==
  ASSUME Inv, NEW p \in Value, NEW n, fixup_data(p, n),
         \A b \in Addr, t \in Slots :
           \/ slot'[b][t] = slot[b][t] /\ (Queued(b, t) => Queued(b, t)')
           \/ NeedsCopy(p) /\ b = New(p, n)
           \/ slot[b][t] = p /\ slot'[b][t] = New(p, n)
  PROVE  NoSlotForgotten'
<1>0. TypeOK /\ HeapType
  BY TypeParts DEF Inv
<1>1. /\ UNCHANGED <<cards, decks, semi, heap, op, stage, decksTodo, cardsTodo>>
      /\ stage \in VisitStages
  BY DEF fixup_data, cardVars, genVars
<1>2. tenured' = tenured /\ aging' = aging
  BY <1>1 DEF tenured, aging
<1>3. /\ \A v : Clean(v)' <=> Clean(v)
      /\ \A b, bit : Marked(b, bit)' <=> Marked(b, bit)
      /\ \A b, bit : OnDeck(b, bit)' <=> OnDeck(b, bit)
  BY <1>1, <1>2 DEF Clean, Marked, OnDeck
<1>4. /\ NeedsCopy(p) => New(p, n) \in Target /\ New(p, n) \in gray'
      /\ stage \in NurseryStages \cup ToAgingStages =>
           New(p, n) \notin Nursery /\ (Clean(p) => New(p, n) = p)
      /\ stage \in ToTenuredStages \cup MarkStages => Clean(New(p, n))
      /\ gray \subseteq gray'
      /\ \A a \in marked' : a \in marked \/ (a \in gray' /\ stage \in MarkStages /\ a \in tenured)
  BY <1>0, FixupResult
<1>5. /\ NeedsCopy(p) => \A b \in Addr : b # New(p, n) => id'[b] = id[b]
      /\ ~NeedsCopy(p) => id' = id
  BY <1>0 DEF fixup_data, HeapType
<1>6. /\ Target = aging => stage \in NurseryStages \cup ToAgingStages \/ aging = tenured
      /\ Target = aging \/ Target = tenured
      /\ stage \notin NurseryStages \cup ToAgingStages => Target = tenured
      /\ stage \in NurseryStages \cup ToAgingStages => Target = aging
  BY DEF Target
<1>7. /\ tenured \subseteq Addr /\ aging \subseteq Addr /\ tenured \cap aging = {}
      /\ heap \in 1..Heaps /\ tenured = Tenured[heap] /\ aging = Aging[semi] /\ semi \in {0, 1}
  BY <1>0, Disjointness
<1>8. ASSUME NEW b \in Allotted(tenured)', NEW t \in Slots
      PROVE  TenuredSlot(b, t)'
  <2>1. b \in tenured /\ b \in Addr /\ id'[b] # NoId
    BY <1>2, <1>7 DEF Allotted
  <2>2. CASE NeedsCopy(p) /\ b = New(p, n)
    <3>1. stage \notin NurseryStages \cup ToAgingStages /\ b \in gray'
      BY <1>4, <1>6, <1>7, <2>1, <2>2
    <3> QED
      BY <1>1, <3>1 DEF TenuredSlot, VisitStages, NurseryStages, ToAgingStages, MarkStages,
         ToTenuredStages
  <2>3. ASSUME ~NeedsCopy(p) \/ b # New(p, n) PROVE b \in Allotted(tenured) /\ TenuredSlot(b, t)
    <3>1. b \in Allotted(tenured)
      BY <1>5, <2>1, <2>3 DEF Allotted
    <3> QED
      BY <3>1 DEF Inv, NoSlotForgotten
  <2>4. CASE slot'[b][t] = slot[b][t] /\ (Queued(b, t) => Queued(b, t)')
             /\ (~NeedsCopy(p) \/ b # New(p, n))
    BY <1>1, <1>3, <1>4, <2>3, <2>4
       DEF TenuredSlot, VisitStages, NurseryStages, ToAgingStages, MarkStages, ToTenuredStages
  <2>5. CASE slot[b][t] = p /\ slot'[b][t] = New(p, n) /\ (~NeedsCopy(p) \/ b # New(p, n))
    <3>1. CASE stage \in NurseryStages
      <4>1. Clean(New(p, n)) \/ Marked(b, A)
        BY <1>4, <2>3, <2>5, <3>1 DEF TenuredSlot
      <4>2. New(p, n) \notin Nursery
        BY <1>4, <3>1
      <4> QED
        BY <1>1, <1>3, <2>5, <3>1, <4>1, <4>2 DEF TenuredSlot, NurseryStages, ToAgingStages,
           MarkStages, Promoting
    <3>2. CASE stage \in ToAgingStages
      <4>1. Clean(New(p, n))
        BY <1>4, <2>3, <2>5, <3>2 DEF TenuredSlot
      <4> QED
        BY <1>1, <1>3, <2>5, <3>2, <4>1 DEF TenuredSlot, NurseryStages, ToAgingStages,
           MarkStages, Promoting
    <3>3. CASE stage \in ToTenuredStages \cup MarkStages
      <4>1. Clean(New(p, n))
        BY <1>4, <3>3
      <4> QED
        BY <1>1, <1>3, <2>5, <3>3, <4>1, Zenon DEF TenuredSlot, NurseryStages, ToAgingStages,
           MarkStages, Promoting, ToTenuredStages
    <3> QED
      BY <1>1, <3>1, <3>2, <3>3 DEF VisitStages
  <2> QED
    BY <2>1, <2>2, <2>4, <2>5
<1>9. ASSUME NEW b \in Allotted(aging)', NEW t \in Slots
      PROVE  AgingSlot(b, t)'
  <2>1. b \in aging /\ b \in Addr /\ id'[b] # NoId
    BY <1>2, <1>7 DEF Allotted
  <2>2. CASE NeedsCopy(p) /\ b = New(p, n)
    <3>1. b \in gray' /\ stage \in NurseryStages \cup ToAgingStages
      BY <1>4, <1>6, <1>7, <2>1, <2>2
    <3> QED
      BY <1>1, <3>1 DEF AgingSlot, NurseryStages, ToAgingStages
  <2>3. ASSUME ~NeedsCopy(p) \/ b # New(p, n) PROVE AgingSlot(b, t)
    <3>1. b \in Allotted(aging)
      BY <1>5, <2>1, <2>3 DEF Allotted
    <3> QED
      BY <3>1 DEF Inv, NoSlotForgotten
  <2>4. CASE slot'[b][t] = slot[b][t] /\ (Queued(b, t) => Queued(b, t)')
             /\ (~NeedsCopy(p) \/ b # New(p, n))
    BY <1>1, <1>3, <1>4, <2>3, <2>4, Zenon DEF AgingSlot
  <2>5. CASE slot'[b][t] = New(p, n)
    <3>1. stage \in NurseryStages \cup ToAgingStages => slot'[b][t] \notin Nursery
      BY <1>4, <2>5
    <3> QED
      BY <1>1, <3>1 DEF AgingSlot, VisitStages, NurseryStages, ToAgingStages, ToTenuredStages,
         MarkStages
  <2> QED
    BY <2>1, <2>2, <2>4, <2>5
<1>10. ScanOrder' /\ OpInv'
  BY <1>1, <1>2 DEF Inv, NoSlotForgotten, ScanOrder, OpInv, CardGen
<1>11. SpaceInv'
  <2>1. ASSUME NEW h \in 1..Heaps, h > heap PROVE Allotted(Tenured[h])' = {}
    <3>1. Tenured[h] \cap Target = {} /\ Tenured[h] \subseteq Addr
      <4>1. h # heap
        BY <1>7, <2>1, ConstantsAssumption
      <4>2. Tenured[h] \cap aging = {} /\ Tenured[h] \cap tenured = {}
        BY <1>0, <1>7, <4>1, Disjointness DEF Young
      <4> QED
        BY <1>6, <4>2, Layout
    <3>2. \A b \in Tenured[h] : id'[b] = id[b]
      BY <1>4, <1>5, <3>1
    <3> QED
      BY <2>1, <3>2 DEF Inv, NoSlotForgotten, SpaceInv, Allotted
  <2>2. stage \in MarkStages \cup {"f_marked", "f_swept", "f_compact"} => marked' \subseteq tenured
    BY <1>4 DEF Inv, NoSlotForgotten, SpaceInv
  <2> QED
    BY <1>1, <1>2, <2>1, <2>2 DEF SpaceInv
<1> QED
  BY <1>8, <1>9, <1>10, <1>11 DEF NoSlotForgotten

\* A root, a literal or a slot is visited.
LEMMA VisitsKeep ==
  ASSUME Inv,
         \/ \E r \in Roots : VisitRoot(r)
         \/ \E c \in CodeBlocks : VisitLiteral(c)
         \/ \E a \in Addr, s \in Slots : VisitSlot(a, s)
  PROVE  NoSlotForgotten'
<1>0. TypeOK /\ HeapType /\ RootType
  BY TypeParts DEF Inv
<1>1. ASSUME NEW p \in Value, NEW n, fixup_data(p, n), NEW b \in Addr, ~(NeedsCopy(p) /\ b = New(p, n))
      PROVE  SlotsAfter(p, n)[b] = slot[b]
  <2>1. CASE NeedsCopy(p)
    BY <1>0, <1>1, <2>1 DEF SlotsAfter, HeapType
  <2>2. CASE ~NeedsCopy(p)
    BY <2>2 DEF SlotsAfter
  <2> QED
    BY <2>1, <2>2
<1>2. ASSUME NEW p \in Value, NEW n, fixup_data(p, n), slot' = SlotsAfter(p, n), slotsTodo' = slotsTodo
      PROVE  NoSlotForgotten'
  <2>1. \A b \in Addr, t \in Slots :
           \/ slot'[b][t] = slot[b][t] /\ (Queued(b, t) => Queued(b, t)')
           \/ NeedsCopy(p) /\ b = New(p, n)
           \/ slot[b][t] = p /\ slot'[b][t] = New(p, n)
    BY <1>1, <1>2 DEF Queued
  <2> QED
    BY <1>2, <2>1, VisitKeeps
<1>3. ASSUME NEW r \in Roots, VisitRoot(r) PROVE NoSlotForgotten'
  <2>1. root[r] \in Value
    BY <1>0 DEF RootType
  <2> QED
    BY <1>2, <1>3, <2>1 DEF VisitRoot
<1>4. ASSUME NEW c \in CodeBlocks, VisitLiteral(c) PROVE NoSlotForgotten'
  <2>1. lit[c] \in Value
    BY <1>0 DEF RootType
  <2> QED
    BY <1>2, <1>4, <2>1 DEF VisitLiteral
<1>5. ASSUME NEW a \in Addr, NEW s \in Slots, VisitSlot(a, s) PROVE NoSlotForgotten'
  <2> DEFINE p == slot[a][s]
  <2>0. PICK n \in BlockFor(p) :
          fixup_data(p, n) /\ slot' = [SlotsAfter(p, n) EXCEPT ![a][s] = New(p, n)]
    BY <1>5 DEF VisitSlot
  <2>1. p \in Value /\ fixup_data(p, n)
    BY <1>0, <2>0 DEF HeapType
  <2>2. SlotsAfter(p, n) \in [Addr -> [Slots -> Value]] /\ New(p, n) \in Value
    <3>1. HeapType /\ GenType /\ ScanType
      BY <1>0, TypeParts
    <3> QED
      BY <1>0, <2>1, <3>1, FixupKeepsType, FixupType
  <2>3. /\ slot' = [SlotsAfter(p, n) EXCEPT ![a][s] = New(p, n)]
        /\ slotsTodo' = slotsTodo \ {<<a, s>>}
    BY <1>5, <2>0 DEF VisitSlot
  <2> HIDE DEF p
  <2>4. ASSUME NEW b \in Addr, NEW t \in Slots, ~(NeedsCopy(p) /\ b = New(p, n)),
               b # a \/ t # s
        PROVE  slot'[b][t] = slot[b][t] /\ (Queued(b, t) => Queued(b, t)')
    <3>1. slot'[b][t] = SlotsAfter(p, n)[b][t]
      BY <2>2, <2>3, <2>4
    <3>2. SlotsAfter(p, n)[b] = slot[b]
      BY <1>1, <2>1, <2>4
    <3> QED
      BY <2>3, <2>4, <3>1, <3>2 DEF Queued
  <2>5. slot[a][s] = p /\ slot'[a][s] = New(p, n)
    BY <2>2, <2>3 DEF p
  <2> QED
    BY <2>1, <2>4, <2>5, VisitKeeps
<1> QED
  BY <1>3, <1>4, <1>5

\* The least of a set of cards or decks is below the others.
LEMMA MinOfLeast ==
  ASSUME NEW S, S \subseteq Nat, S # {}
  PROVE  MinOf(S) \in S /\ \A x \in S : MinOf(S) <= x
BY LeastNat, Zenon DEF MinOf

\* Cards and decks are natural numbers.
LEMMA CardNumbers ==
  /\ \A a \in Addr : addr_to_card(a) \in Nat /\ addr_to_deck(a) \in Nat
  /\ \A a \in Addr : addr_to_deck(a) = addr_to_card(a) \div CardsPerDeck
  /\ CardDomain \subseteq Nat /\ DeckDomain \subseteq Nat
<1>1. \A a \in Addr : addr_to_card(a) \in Nat /\ addr_to_deck(a) \in Nat
  BY Layout, ConstantsAssumption DEF addr_to_card, addr_to_deck
<1> QED
  BY <1>1 DEF addr_to_deck, CardDomain, DeckDomain, CardsOf, DecksOf

\* visit_cards takes the mark off a deck and turns to its marked cards.
LEMMA OpenDeckKeeps ==
  ASSUME Inv, NEW d \in DecksOf(Addr), OpenDeck(d)
  PROVE  NoSlotForgotten'
<1>0. TypeOK /\ CardType /\ ScanType /\ ScanOrder /\ SpaceInv /\ OpInv
  BY TypeParts DEF Inv, NoSlotForgotten
<1>1. /\ UNCHANGED <<id, slot, cards, semi, heap, op, stage, slotsTodo, gray, marked>>
      /\ stage \in CardStages /\ cardsTodo = {} /\ decksTodo # {} /\ d = MinOf(decksTodo)
      /\ decksTodo' = decksTodo \ {d}
      /\ decks' = [decks EXCEPT ![d] = @ \ CardUnmask]
      /\ cardsTodo' = {c \in CardsOfDeck(d, CardGen) : CardMask \in cards[c]}
  BY DEF OpenDeck, heapVars, genVars, todoVars
<1>2. d \in decksTodo /\ \A e \in decksTodo : d <= e
  BY <1>0, <1>1, MinOfLeast, CardNumbers, Zenon DEF ScanType
<1>3. d \in DecksOf(CardGen) /\ d \in DeckDomain
  BY <1>0, <1>1, <1>2 DEF ScanOrder, ScanType
<1>4. tenured' = tenured /\ aging' = aging /\ CardGen' = CardGen
  BY <1>1 DEF tenured, aging, CardGen
<1>5. ASSUME NEW a \in CardGen, OnDeck(a, CardMask)
      PROVE  OnDeck(a, CardMask)'
  <2>1. addr_to_deck(a) \in decksTodo /\ CardMask \in cards[addr_to_card(a)]
    BY <1>1, <1>5 DEF OnDeck
  <2>2. addr_to_deck(a) = d => addr_to_card(a) \in cardsTodo'
    BY <1>1, <2>1 DEF CardsOfDeck
  <2>3. CardMask' = CardMask
    BY <1>1 DEF CardMask
  <2> QED
    BY <1>1, <2>1, <2>2, <2>3 DEF OnDeck
<1>6. ASSUME NEW e \in DeckDomain, NEW bit, e # d \/ bit \notin CardUnmask
      PROVE  bit \in decks[e] => bit \in decks'[e]
  BY <1>0, <1>1, <1>3, <1>6 DEF CardType
<1>7. \A a \in tenured \cup aging : addr_to_deck(a) \in DeckDomain
  BY <1>0, Disjointness DEF DeckDomain, DecksOf
<1>8. \A v : Clean(v)' <=> Clean(v)
  BY <1>4 DEF Clean
<1>9. ASSUME NEW a \in Allotted(tenured)', NEW s \in Slots PROVE TenuredSlot(a, s)'
  <2>1. a \in tenured /\ a \in Allotted(tenured) /\ TenuredSlot(a, s)
    BY <1>1, <1>4, Zenon DEF Allotted, Inv, NoSlotForgotten
  <2>2. CASE stage = "n_tcards"
    <3>1. CardUnmask = {N} /\ CardMask = N /\ CardGen = tenured /\ N # A
      BY <2>2 DEF CardUnmask, CardMask, CardGen, N, A
    <3>2. Marked(a, A) => Marked(a, A)'
      BY <1>1, <1>6, <1>7, <2>1, <3>1, Zenon DEF Marked
    <3>3. CardMask' = N
      BY <1>1, <2>2 DEF CardMask
    <3>4. OnDeck(a, N) => OnDeck(a, N)'
      BY <1>5, <2>1, <3>1, <3>3
    <3> QED
      BY <1>1, <1>8, <2>1, <2>2, <3>2, <3>4, Zenon DEF TenuredSlot, Queued, NurseryStages,
         ToAgingStages, MarkStages, Promoting
  <2>3. CASE stage = "n_acards"
    <3>1. CardGen = aging
      BY <2>3 DEF CardGen
    <3>2. addr_to_deck(a) # d
      BY <1>0, <1>3, <2>1, <3>1, Disjointness DEF DecksOf
    <3>3. Marked(a, A) => Marked(a, A)'
      BY <1>1, <1>6, <1>7, <2>1, <3>2 DEF Marked
    <3> QED
      BY <1>1, <1>8, <2>1, <2>3, <3>3, Zenon DEF TenuredSlot, Queued, NurseryStages,
         ToAgingStages, MarkStages, Promoting
  <2>4. CASE stage = "a_tcards"
    <3>1. CardMask = A /\ CardGen = tenured /\ CardMask' = A
      BY <1>1, <2>4, Zenon DEF CardMask, CardGen
    <3>2. OnDeck(a, A) => OnDeck(a, A)'
      BY <1>5, <2>1, <3>1
    <3> QED
      BY <1>1, <1>8, <2>1, <2>4, <3>2, Zenon DEF TenuredSlot, Queued, NurseryStages,
         ToAgingStages, MarkStages, Promoting
  <2>5. CASE stage = "t_tcards"
    BY <1>1, <1>8, <2>1, <2>5, Zenon DEF TenuredSlot, Queued, NurseryStages,
         ToAgingStages, MarkStages, Promoting
  <2> QED
    BY <1>1, <2>2, <2>3, <2>4, <2>5 DEF CardStages
<1>10. ASSUME NEW a \in Allotted(aging)', NEW s \in Slots PROVE AgingSlot(a, s)'
  <2>1. a \in aging /\ AgingSlot(a, s)
    BY <1>1, <1>4, Zenon DEF Allotted, Inv, NoSlotForgotten
  <2>2. CASE stage = "n_tcards"
    <3>1. CardGen = tenured
      BY <2>2 DEF CardGen
    <3>2. addr_to_deck(a) # d
      BY <1>0, <1>3, <2>1, <3>1, Disjointness DEF DecksOf
    <3>3. Marked(a, N) => Marked(a, N)'
      BY <1>1, <1>6, <1>7, <2>1, <3>2 DEF Marked
    <3> QED
      BY <1>1, <2>1, <2>2, <3>3, Zenon DEF AgingSlot, Queued, ToAgingStages
  <2>3. CASE stage = "n_acards"
    <3>1. CardMask = N /\ CardGen = aging /\ CardMask' = N
      BY <1>1, <2>3, Zenon DEF CardMask, CardGen
    <3>2. OnDeck(a, N) => OnDeck(a, N)'
      BY <1>5, <2>1, <3>1
    <3> QED
      BY <1>1, <2>1, <2>3, <3>2, Zenon DEF AgingSlot, Queued, ToAgingStages
  <2>4. CASE stage \in {"a_tcards", "t_tcards"}
    BY <1>1, <2>1, <2>4, Zenon DEF AgingSlot, ToAgingStages
  <2> QED
    BY <1>1, <2>2, <2>3, <2>4, Zenon DEF CardStages
<1>11. ScanOrder'
  <2>1. decksTodo' \subseteq DecksOf(CardGen) /\ cardsTodo' \subseteq CardsOf(CardGen)
    BY <1>0, <1>1 DEF ScanOrder, CardsOfDeck, CardsOf
  <2>2. ASSUME NEW e \in decksTodo', NEW c \in cardsTodo' PROVE c \div CardsPerDeck < e
    <3>1. c \div CardsPerDeck = d
      BY <1>1 DEF CardsOfDeck, addr_to_deck
    <3>2. d <= e /\ d # e /\ d \in Nat /\ e \in Nat
      BY <1>0, <1>1, <1>2, <1>3, CardNumbers DEF ScanType
    <3> QED
      BY <3>1, <3>2
  <2> QED
    BY <1>4, <2>1, <2>2 DEF ScanOrder
<1>12. SpaceInv' /\ OpInv'
  BY <1>0, <1>1, <1>4, Zenon DEF SpaceInv, OpInv, Allotted
<1> QED
  BY <1>9, <1>10, <1>11, <1>12 DEF NoSlotForgotten

\* visit_card takes the mark off a card and turns to the slots of its objects.
LEMMA OpenCardKeeps ==
  ASSUME Inv, NEW c \in CardsOf(Addr), OpenCard(c)
  PROVE  NoSlotForgotten'
<1>0. TypeOK /\ CardType /\ ScanType /\ ScanOrder /\ SpaceInv /\ OpInv
  BY TypeParts DEF Inv, NoSlotForgotten
<1>1. /\ UNCHANGED <<id, slot, decks, semi, heap, op, stage, gray, marked, decksTodo, cardsTodo>>
      /\ stage \in CardStages /\ slotsTodo = {} /\ cardsTodo # {} /\ c = MinOf(cardsTodo)
      /\ cards' = [cards EXCEPT ![c] = @ \ CardUnmask]
      /\ slotsTodo' = SlotsOf({a \in Allotted(CardGen) : addr_to_card(a) = c})
  BY DEF OpenCard, heapVars, genVars, Visited
<1>2. c \in cardsTodo /\ c \in CardsOf(CardGen) /\ c \in CardDomain
  BY <1>0, <1>1, MinOfLeast, CardNumbers, Zenon DEF ScanType, ScanOrder
<1>3. tenured' = tenured /\ aging' = aging /\ CardGen' = CardGen
  BY <1>1 DEF tenured, aging, CardGen
<1>4. ASSUME NEW e \in CardDomain, NEW bit, e # c \/ bit \notin CardUnmask
      PROVE  bit \in cards[e] => bit \in cards'[e]
  BY <1>0, <1>1, <1>2, <1>4 DEF CardType
<1>5. \A a \in tenured \cup aging : addr_to_card(a) \in CardDomain
  BY <1>0, Disjointness DEF CardDomain, CardsOf
<1>6. \A v : Clean(v)' <=> Clean(v)
  BY <1>3 DEF Clean
<1>7. ASSUME NEW a \in Allotted(CardGen), NEW s \in Slots, NEW bit, OnDeck(a, bit)
      PROVE  Queued(a, s)' \/ OnDeck(a, bit)'
  <2>1. addr_to_card(a) = c => Queued(a, s)'
    BY <1>1 DEF SlotsOf, Queued
  <2>2. addr_to_card(a) \in CardDomain
    BY <1>5 DEF Allotted, CardGen
  <2>3. addr_to_card(a) # c => OnDeck(a, bit)'
    BY <1>1, <1>4, <1>7, <2>2 DEF OnDeck
  <2> QED
    BY <2>1, <2>3
<1>8. \A a \in Addr, s \in Slots : ~Queued(a, s)
  BY <1>1 DEF Queued
<1>9. ASSUME NEW a \in Allotted(tenured)', NEW s \in Slots PROVE TenuredSlot(a, s)'
  <2>1. a \in tenured /\ a \in Allotted(tenured) /\ TenuredSlot(a, s) /\ a \in Addr
    BY <1>0, <1>1, <1>3, Disjointness, Zenon DEF Allotted, Inv, NoSlotForgotten
  <2>2. CASE stage = "n_tcards"
    <3>1. CardUnmask = {N} /\ CardGen = tenured /\ N # A
      BY <2>2 DEF CardUnmask, CardGen, N, A
    <3>2. Marked(a, A) => Marked(a, A)'
      BY <1>1, <1>4, <1>5, <2>1, <3>1, Zenon DEF Marked
    <3>3. OnDeck(a, N) => Queued(a, s)' \/ OnDeck(a, N)'
      BY <1>7, <2>1, <3>1
    <3> QED
      BY <1>1, <1>6, <1>8, <2>1, <2>2, <3>2, <3>3 DEF TenuredSlot, NurseryStages,
         ToAgingStages, MarkStages, Promoting
  <2>3. CASE stage = "n_acards"
    <3>1. CardGen = aging
      BY <2>3 DEF CardGen
    <3>2. addr_to_card(a) # c
      BY <1>0, <1>2, <2>1, <3>1, CardsDisjoint DEF CardsOf
    <3>3. Marked(a, A) => Marked(a, A)'
      BY <1>1, <1>4, <1>5, <2>1, <3>2, Zenon DEF Marked
    <3> QED
      BY <1>1, <1>6, <1>8, <2>1, <2>3, <3>3 DEF TenuredSlot, NurseryStages,
         ToAgingStages, MarkStages, Promoting
  <2>4. CASE stage = "a_tcards"
    <3>1. CardGen = tenured
      BY <2>4 DEF CardGen
    <3>2. OnDeck(a, A) => Queued(a, s)' \/ OnDeck(a, A)'
      BY <1>7, <2>1, <3>1
    <3> QED
      BY <1>1, <1>6, <1>8, <2>1, <2>4, <3>2 DEF TenuredSlot, NurseryStages,
         ToAgingStages, MarkStages, Promoting
  <2>5. CASE stage = "t_tcards"
    BY <1>1, <1>6, <1>8, <2>1, <2>5 DEF TenuredSlot, NurseryStages,
         ToAgingStages, MarkStages, Promoting
  <2> QED
    BY <1>1, <2>2, <2>3, <2>4, <2>5 DEF CardStages
<1>10. ASSUME NEW a \in Allotted(aging)', NEW s \in Slots PROVE AgingSlot(a, s)'
  <2>1. a \in aging /\ a \in Allotted(aging) /\ AgingSlot(a, s) /\ a \in Addr
    BY <1>0, <1>1, <1>3, Disjointness, Zenon DEF Allotted, Inv, NoSlotForgotten
  <2>2. CASE stage = "n_tcards"
    <3>1. CardGen = tenured
      BY <2>2 DEF CardGen
    <3>2. addr_to_card(a) # c
      BY <1>0, <1>2, <2>1, <3>1, CardsDisjoint DEF CardsOf
    <3>3. Marked(a, N) => Marked(a, N)'
      BY <1>1, <1>4, <1>5, <2>1, <3>2, Zenon DEF Marked
    <3> QED
      BY <1>1, <2>1, <2>2, <3>3 DEF AgingSlot, ToAgingStages
  <2>3. CASE stage = "n_acards"
    <3>1. CardGen = aging
      BY <2>3 DEF CardGen
    <3>2. OnDeck(a, N) => Queued(a, s)' \/ OnDeck(a, N)'
      BY <1>7, <2>1, <3>1
    <3> QED
      BY <1>1, <1>8, <2>1, <2>3, <3>2 DEF AgingSlot, ToAgingStages
  <2>4. CASE stage \in {"a_tcards", "t_tcards"}
    BY <1>1, <2>1, <2>4 DEF AgingSlot, ToAgingStages
  <2> QED
    BY <1>1, <2>2, <2>3, <2>4 DEF CardStages
<1>11. ScanOrder' /\ SpaceInv' /\ OpInv'
  BY <1>0, <1>1, <1>3 DEF ScanOrder, SpaceInv, OpInv, Allotted
<1> QED
  BY <1>9, <1>10, <1>11 DEF NoSlotForgotten

\* A card is done.  Where visit_cards returns early, no object lies further on.
LEMMA CloseCardKeeps ==
  ASSUME Inv, NEW c \in CardsOf(Addr), CloseCard(c)
  PROVE  NoSlotForgotten'
<1>0. TypeOK /\ CardType /\ ScanType /\ ScanOrder /\ SpaceInv /\ OpInv
  BY TypeParts DEF Inv, NoSlotForgotten
<1>1. /\ UNCHANGED <<id, slot, cards, decks, semi, heap, op, stage, gray, marked, slotsTodo>>
      /\ stage \in CardStages /\ cardsTodo # {} /\ c = MinOf(cardsTodo) /\ CardMask \notin cards[c]
  BY DEF CloseCard, heapVars, genVars, cardVars, todoVars
<1>2. PICK end \in AtEnd(c) : /\ cardsTodo' = IF end THEN {} ELSE cardsTodo \ {c}
                              /\ decksTodo' = IF end THEN {} ELSE decksTodo
  BY DEF CloseCard
<1>3. c \in cardsTodo /\ (\A x \in cardsTodo : c <= x) /\ c \in Nat
  BY <1>0, <1>1, MinOfLeast, CardNumbers, Zenon DEF ScanType
<1>4. tenured' = tenured /\ aging' = aging /\ CardGen' = CardGen /\ CardGen \subseteq Addr
  BY <1>0, <1>1, Disjointness DEF tenured, aging, CardGen
<1>5. ASSUME NEW a \in Allotted(CardGen), OnDeck(a, CardMask)
      PROVE  OnDeck(a, CardMask)'
  <2>1. a \in Addr /\ a \in Nat /\ addr_to_card(a) \in Nat
        /\ addr_to_deck(a) = addr_to_card(a) \div CardsPerDeck
    BY <1>4, CardNumbers, Layout DEF Allotted
  <2>2. addr_to_card(a) # c
    BY <1>1, <1>5 DEF OnDeck
  <2>3. CASE ~end
    BY <1>1, <1>2, <1>5, <2>2, <2>3, Zenon DEF OnDeck, CardMask
  <2>4. CASE end
    <3>1. ~(a + 1 >= (c + 1) * CardSize)
      BY <1>2, <2>4, Zenon DEF AtEnd
    <3>2. a < (c + 1) * CardSize
      BY <1>3, <2>1, <3>1, ConstantsAssumption
    <3>3. addr_to_card(a) <= c
      BY <1>3, <2>1, <3>2, DivLess, ConstantsAssumption, Zenon DEF addr_to_card
    <3>4. addr_to_card(a) \notin cardsTodo
      BY <1>3, <2>1, <2>2, <3>3
    <3>5. addr_to_deck(a) \in decksTodo
      BY <1>5, <3>4 DEF OnDeck
    <3>6. c \div CardsPerDeck < addr_to_deck(a)
      BY <1>0, <1>1, <1>3, <3>5 DEF ScanOrder
    <3>7. addr_to_card(a) \div CardsPerDeck <= c \div CardsPerDeck
      BY <1>3, <2>1, <3>3, DivMono, ConstantsAssumption
    <3>8. addr_to_deck(a) \in Nat /\ c \div CardsPerDeck \in Nat
      BY <1>3, <2>1, CardNumbers, DivBounds, ConstantsAssumption
    <3> QED
      BY <2>1, <3>6, <3>7, <3>8
  <2> QED
    BY <2>3, <2>4
<1>6. /\ \A v : Clean(v)' <=> Clean(v)
      /\ \A a, bit : Marked(a, bit)' <=> Marked(a, bit)
      /\ \A a, s : Queued(a, s)' <=> Queued(a, s)
  BY <1>1, <1>4 DEF Clean, Marked, Queued
<1>7. ASSUME NEW a \in Allotted(tenured)', NEW s \in Slots PROVE TenuredSlot(a, s)'
  <2>1. a \in tenured /\ a \in Allotted(tenured) /\ TenuredSlot(a, s)
    BY <1>1, <1>4, Zenon DEF Allotted, Inv, NoSlotForgotten
  <2>2. stage = "n_tcards" => CardMask = N /\ CardMask' = N /\ CardGen = tenured
    BY <1>1, Zenon DEF CardMask, CardGen
  <2>3. stage = "a_tcards" => CardMask = A /\ CardMask' = A /\ CardGen = tenured
    BY <1>1 DEF CardMask, CardGen
  <2>4. /\ stage = "n_tcards" /\ OnDeck(a, N) => OnDeck(a, N)'
        /\ stage = "a_tcards" /\ OnDeck(a, A) => OnDeck(a, A)'
    BY <1>5, <2>1, <2>2, <2>3
  <2> QED
    BY <1>1, <1>6, <2>1, <2>4, Zenon DEF TenuredSlot, CardStages, NurseryStages,
         ToAgingStages, MarkStages, Promoting
<1>8. ASSUME NEW a \in Allotted(aging)', NEW s \in Slots PROVE AgingSlot(a, s)'
  <2>1. a \in aging /\ a \in Allotted(aging) /\ AgingSlot(a, s)
    BY <1>1, <1>4 DEF Allotted, Inv, NoSlotForgotten
  <2>2. stage = "n_acards" => CardMask = N /\ CardMask' = N /\ CardGen = aging
    BY <1>1 DEF CardMask, CardGen
  <2>3. stage = "n_acards" /\ OnDeck(a, N) => OnDeck(a, N)'
    BY <1>5, <2>1, <2>2
  <2> QED
    BY <1>1, <1>6, <2>1, <2>3, Zenon DEF AgingSlot, CardStages, ToAgingStages
<1>9. ScanOrder'
  BY <1>0, <1>1, <1>2, <1>4 DEF ScanOrder
<1>10. SpaceInv' /\ OpInv'
  BY <1>0, <1>1, <1>4 DEF SpaceInv, OpInv, Allotted
<1> QED
  BY <1>7, <1>8, <1>9, <1>10 DEF NoSlotForgotten

\* The slots of a gray object are queued.
LEMMA ScanGrayKeeps ==
  ASSUME Inv, NEW g \in Addr, ScanGray(g)
  PROVE  NoSlotForgotten'
<1>0. TypeOK /\ ScanOrder /\ SpaceInv /\ OpInv
  BY DEF Inv, NoSlotForgotten
<1>1. /\ UNCHANGED <<id, slot, cards, decks, semi, heap, op, stage, marked, decksTodo, cardsTodo>>
      /\ stage \in TraceStages /\ slotsTodo = {}
      /\ gray' = gray \ {g} /\ slotsTodo' = SlotsOf({g})
  BY DEF ScanGray, heapVars, genVars, cardVars, Visited
<1>2. tenured' = tenured /\ aging' = aging
  BY <1>1 DEF tenured, aging
<1>3. \A v : Clean(v)' <=> Clean(v)
  BY <1>2 DEF Clean
<1>4. ASSUME NEW a, NEW s \in Slots, a \in gray \/ Queued(a, s)
      PROVE  a \in gray' \/ Queued(a, s)'
  BY <1>1, <1>4 DEF Queued, SlotsOf
<1>5. \A a \in Allotted(tenured)', s \in Slots : TenuredSlot(a, s) /\ a \in Allotted(tenured)
  BY <1>1, <1>2 DEF Allotted, Inv, NoSlotForgotten
<1>6. \A a \in Allotted(tenured)', s \in Slots : TenuredSlot(a, s)'
  <2>1. TAKE a \in Allotted(tenured)', s \in Slots
  <2>2. \A bit : Marked(a, bit)' <=> Marked(a, bit)
    BY <1>1, Zenon DEF Marked
  <2> QED
    BY <1>1, <1>3, <1>4, <1>5, <2>2 DEF TenuredSlot, TraceStages, NurseryStages,
         ToAgingStages, MarkStages, Promoting
<1>7. \A a \in Allotted(aging)', s \in Slots : AgingSlot(a, s)
  BY <1>1, <1>2 DEF Allotted, Inv, NoSlotForgotten
<1>8. \A a \in Allotted(aging)', s \in Slots : AgingSlot(a, s)'
  BY <1>1, <1>4, <1>7 DEF AgingSlot, TraceStages, ToAgingStages
<1>9. ScanOrder' /\ SpaceInv' /\ OpInv'
  BY <1>0, <1>1, <1>2, Zenon DEF ScanOrder, SpaceInv, OpInv, Allotted, CardGen
<1> QED
  BY <1>6, <1>8, <1>9 DEF NoSlotForgotten

\* A stage is done and the next one begins.
LEMMA NextStageKeeps ==
  ASSUME Inv, NextStage
  PROVE  NoSlotForgotten'
<1>0. TypeOK /\ ScanOrder /\ SpaceInv /\ OpInv
  BY DEF Inv, NoSlotForgotten
<1>1. /\ UNCHANGED <<id, slot, cards, decks, semi, heap, op, gray, marked>>
      /\ slotsTodo = {} /\ decksTodo = {} /\ cardsTodo = {} /\ slotsTodo' = {} /\ cardsTodo' = {}
  BY DEF NextStage, heapVars, genVars, cardVars, StageDone, Visited, EnterCards, EnterCode
<1>2. tenured' = tenured /\ aging' = aging
  BY <1>1 DEF tenured, aging
<1>3. /\ \A v : Clean(v)' <=> Clean(v)
      /\ \A a, bit : Marked(a, bit)' <=> Marked(a, bit)
      /\ \A a, s : ~Queued(a, s) /\ ~Queued(a, s)'
      /\ \A a, bit : ~OnDeck(a, bit)
  BY <1>1, <1>2, Zenon DEF Clean, Marked, Queued, OnDeck
<1>4. ASSUME NEW gen, NEW a \in gen, NEW bit, decksTodo' = MaskedDecks(gen, bit), Marked(a, bit)
      PROVE  OnDeck(a, bit)'
  BY <1>1, <1>4 DEF MaskedDecks, OnDeck, Marked, DecksOf
<1>5. \A a \in Allotted(tenured)', s \in Slots : a \in tenured /\ TenuredSlot(a, s)
  BY <1>1, <1>2 DEF Allotted, Inv, NoSlotForgotten
<1>6. \A a \in Allotted(aging)', s \in Slots : a \in aging /\ AgingSlot(a, s)
  BY <1>1, <1>2 DEF Allotted, Inv, NoSlotForgotten
<1>7. SpaceInv' /\ OpInv'
  <2>1. \/ stage \in NurseryStages /\ stage' \in NurseryStages
        \/ stage \in ToAgingStages /\ stage' \in ToAgingStages
        \/ stage \in ToTenuredStages /\ stage' \in ToTenuredStages
        \/ stage \in MarkStages /\ stage' \in MarkStages
    BY DEF NextStage, EnterCards, EnterCode, NurseryStages, ToAgingStages, ToTenuredStages,
           MarkStages
  <2> QED
    BY <1>0, <1>1, <1>2, <2>1 DEF SpaceInv, OpInv, Allotted, NurseryStages, ToAgingStages,
       ToTenuredStages, MarkStages
<1> DEFINE Slot == /\ \A a \in Allotted(tenured)', s \in Slots : TenuredSlot(a, s)'
                   /\ \A a \in Allotted(aging)', s \in Slots : AgingSlot(a, s)'
<1>8. SUFFICES Slot /\ ScanOrder'
  BY <1>7 DEF NoSlotForgotten
<1> USE DEF NurseryStages, ToAgingStages, MarkStages, Promoting, CardStages
<1>9. CASE stage = "n_roots" /\ EnterCards("n_tcards", tenured, N)
  <2>1. stage' = "n_tcards" /\ decksTodo' = MaskedDecks(tenured, N) /\ CardGen' = tenured
    BY <1>2, <1>9 DEF EnterCards, CardGen
  <2> QED
    BY <1>1, <1>3, <1>4, <1>5, <1>6, <1>9, <2>1, Zenon
       DEF TenuredSlot, AgingSlot, ScanOrder, MaskedDecks
<1>10. CASE stage = "n_tcards" /\ EnterCards("n_acards", aging, N)
  <2>1. stage' = "n_acards" /\ decksTodo' = MaskedDecks(aging, N) /\ CardGen' = aging
    BY <1>2, <1>10 DEF EnterCards, CardGen
  <2> QED
    BY <1>1, <1>3, <1>4, <1>5, <1>6, <1>10, <2>1, Zenon
       DEF TenuredSlot, AgingSlot, ScanOrder, MaskedDecks
<1>11. CASE stage = "t_roots" /\ EnterCards("t_tcards", tenured, A)
  <2>1. stage' = "t_tcards" /\ decksTodo' = MaskedDecks(tenured, A) /\ CardGen' = tenured
    BY <1>2, <1>11 DEF EnterCards, CardGen
  <2> QED
    BY <1>1, <1>3, <1>5, <1>6, <1>11, <2>1, Zenon
       DEF TenuredSlot, AgingSlot, ScanOrder, MaskedDecks
<1>12. CASE \/ stage = "n_acards" /\ stage' = "n_code"
            \/ stage = "n_code"   /\ stage' = "n_trace"
            \/ stage = "a_tcards" /\ stage' = "a_code"
            \/ stage = "a_code"   /\ stage' = "a_mark"
            \/ stage = "a_roots"  /\ stage' = "a_trace"
            \/ stage = "t_tcards" /\ stage' = "t_code"
            \/ stage = "t_code"   /\ stage' = "t_mark"
            \/ stage = "f_roots"  /\ stage' = "f_mark"
  <2>1. \A a \in Allotted(tenured)', s \in Slots : TenuredSlot(a, s)'
    <3>1. TAKE a \in Allotted(tenured)', s \in Slots
    <3>2. TenuredSlot(a, s) /\ ~Queued(a, s) /\ ~OnDeck(a, A) /\ ~OnDeck(a, N)
      BY <1>3, <1>5
    <3>3. slot' = slot /\ gray' = gray /\ marked' = marked
      BY <1>1
    <3>4. (Clean(slot[a][s])' <=> Clean(slot[a][s])) /\ (Marked(a, A)' <=> Marked(a, A))
      BY <1>3, <3>3
    <3> QED
      BY <1>12, <3>2, <3>3, <3>4 DEF TenuredSlot
  <2>2. \A a \in Allotted(aging)', s \in Slots : AgingSlot(a, s)'
    BY <1>1, <1>3, <1>6, <1>12 DEF AgingSlot
  <2>3. ScanOrder'
    BY <1>12 DEF ScanOrder
  <2> QED
    BY <2>1, <2>2, <2>3
<1> QED
  BY <1>9, <1>10, <1>11, <1>12 DEF NextStage, EnterCode

\* A collection that found no room is followed by a wider one.
LEMMA StartGcAgainKeeps ==
  ASSUME Inv, StartGcAgain
  PROVE  NoSlotForgotten'
<1>0. TypeOK /\ ScanOrder /\ SpaceInv /\ OpInv
  BY DEF Inv, NoSlotForgotten
<1>1. UNCHANGED <<id, slot, cards, decks, semi, heap, marked>>
  BY DEF StartGcAgain, heapVars, genVars, cardVars
<1>2. tenured' = tenured /\ aging' = aging
  BY <1>1 DEF tenured, aging
<1>3. /\ \A v : Clean(v)' <=> Clean(v)
      /\ \A a \in Allotted(tenured)', s \in Slots : a \in tenured /\ TenuredSlot(a, s)
      /\ \A h \in 1..Heaps : h > heap' => Allotted(Tenured[h])' = {}
  BY <1>0, <1>1, <1>2 DEF Clean, Allotted, Inv, NoSlotForgotten, SpaceInv
<1> USE DEF NurseryStages, ToAgingStages, MarkStages, Promoting, CardStages
<1>4. CASE op = "NURSERY"
  <2>1. /\ op' = "TO_TENURED" /\ stage' = "a_tcards" /\ cardsTodo' = {}
        /\ decksTodo' = MaskedDecks(tenured, A) /\ stage \in NurseryStages
    BY <1>0, <1>4 DEF StartGcAgain, EnterCards, OpInv
  <2>2. \A a \in tenured : Marked(a, A) => OnDeck(a, A)'
    BY <1>1, <2>1 DEF MaskedDecks, OnDeck, Marked, DecksOf
  <2>3. CardGen' = tenured
    BY <1>2, <2>1 DEF CardGen
  <2>4. \A a \in Allotted(tenured)', s \in Slots : TenuredSlot(a, s)'
    BY <1>1, <1>3, <2>1, <2>2 DEF TenuredSlot
  <2>5. \A a \in Allotted(aging)', s \in Slots : AgingSlot(a, s)'
    BY <2>1 DEF AgingSlot
  <2> QED
    BY <1>3, <2>1, <2>3, <2>4, <2>5, Zenon
       DEF NoSlotForgotten, ScanOrder, SpaceInv, OpInv, MaskedDecks
<1>5. CASE op = "AGING"
  <2>1. op' = "TO_TENURED" /\ stage' = "t_roots" /\ stage \in ToAgingStages
    BY <1>0, <1>5 DEF StartGcAgain, EnterRoots, OpInv
  <2>2. \A a \in Allotted(tenured)', s \in Slots : TenuredSlot(a, s)'
    BY <1>1, <1>3, <2>1 DEF TenuredSlot
  <2>3. \A a \in Allotted(aging)', s \in Slots : AgingSlot(a, s)'
    BY <2>1 DEF AgingSlot
  <2> QED
    BY <1>3, <2>1, <2>2, <2>3 DEF NoSlotForgotten, ScanOrder, SpaceInv, OpInv
<1>6. CASE op \notin {"NURSERY", "AGING"}
  <2>1. op' = op /\ stage' = "critical_error"
    BY <1>6 DEF StartGcAgain
  <2> QED
    BY <1>3, <1>6, <2>1, Zenon
       DEF NoSlotForgotten, ScanOrder, SpaceInv, OpInv, TenuredSlot, AgingSlot
<1> QED
  BY <1>4, <1>5, <1>6

LaterHeapsEmpty == \A h \in 1..Heaps : h > heap => Allotted(Tenured[h]) = {}

\* A collection ends, or a full one begins, when the slots in tenured space are
\* clean and those in aging space do not refer to the nursery.
LEMMA CleanEnd ==
  ASSUME heap' \in 1..Heaps, LaterHeapsEmpty', marked' = {},
         stage' \in {"mutator", "f_roots"}, op' \notin {"NURSERY", "AGING"},
         \A a \in Allotted(tenured)', s \in Slots : Clean(slot[a][s])',
         \A a \in Allotted(aging)', s \in Slots : slot'[a][s] \notin Nursery
  PROVE  NoSlotForgotten'
<1>1. tenured' \cap Nursery = {} /\ NULL \notin Nursery
  BY Layout, Zenon DEF tenured
<1>2. \A v : Clean(v)' => v \notin Nursery
  BY <1>1 DEF Clean
<1> QED
  BY <1>2, Zenon
     DEF NoSlotForgotten, TenuredSlot, AgingSlot, ScanOrder, SpaceInv, OpInv, LaterHeapsEmpty,
     NurseryStages, ToAgingStages, MarkStages, Promoting, CardStages

\* The same for a step that calls StartMark or EndGC.
LEMMA CheckKeeps ==
  ASSUME heap' \in 1..Heaps, LaterHeapsEmpty',
         EndGC \/ \E o \in {"FULL", "GROWING_DATA_HEAP", "COMPACT"} : StartMark(o),
         \A a \in Allotted(tenured)', s \in Slots : Clean(slot[a][s])',
         \A a \in Allotted(aging)', s \in Slots : slot'[a][s] \notin Nursery
  PROVE  NoSlotForgotten'
<1>1. stage' \in {"mutator", "f_roots"} /\ op' \notin {"NURSERY", "AGING"} /\ marked' = {}
  BY DEF EndGC, StartMark
<1> QED
  BY <1>1, CleanEnd

\* Flushing memory adds no object and changes no object outside of it.
LEMMA FlushEffect ==
  ASSUME TypeOK, NEW gen, Flush(gen)
  PROVE  /\ \A a \in Addr : id'[a] # NoId => a \notin gen /\ id'[a] = id[a] /\ slot'[a] = slot[a]
         /\ heap' = heap /\ SpaceInv => LaterHeapsEmpty'
<1>1. \A a \in Addr : id'[a] # NoId => a \notin gen /\ id'[a] = id[a] /\ slot'[a] = slot[a]
  BY DEF Flush
<1>2. \A h \in 1..Heaps : Tenured[h] \subseteq Addr
  BY Layout
<1> QED
  BY <1>1, <1>2 DEF LaterHeapsEmpty, SpaceInv, Allotted

\* collect_nursery, collect_aging and collect_to_tenured end.
LEMMA MinorEndKeeps ==
  ASSUME Inv, FinishNursery \/ FinishAging \/ FinishToTenured
  PROVE  NoSlotForgotten'
<1>0. /\ TypeOK /\ SpaceInv /\ HeapType /\ heap \in 1..Heaps
      /\ tenured \subseteq Addr /\ aging \subseteq Addr /\ aging \subseteq Young
  BY TypeParts, Disjointness, Zenon DEF Inv, NoSlotForgotten, Young
<1>1. UNCHANGED <<semi, heap>> /\ slotsTodo = {} /\ gray = {}
  BY DEF FinishNursery, FinishAging, FinishToTenured, genVars, StageDone, Visited, TraceStages
<1>2. tenured' = tenured /\ aging' = aging
  BY <1>1 DEF tenured, aging
<1>3. \A v : Clean(v)' <=> Clean(v)
  BY <1>2 DEF Clean
<1>4. \E gen : Flush(gen)
  BY DEF FinishNursery, FinishAging, FinishToTenured
<1>5. /\ \A a \in Addr : id'[a] # NoId => id'[a] = id[a] /\ slot'[a] = slot[a]
      /\ LaterHeapsEmpty'
  BY <1>0, <1>1, <1>4, FlushEffect
<1>6. /\ \A a \in Allotted(tenured)', s \in Slots : TenuredSlot(a, s) /\ slot'[a] = slot[a]
      /\ \A a \in Allotted(aging)', s \in Slots : AgingSlot(a, s) /\ slot'[a] = slot[a]
  BY <1>0, <1>2, <1>5 DEF Allotted, Inv, NoSlotForgotten
<1>7. CASE FinishNursery
  <2>1. /\ stage = "n_trace" /\ stage' = "mutator" /\ op' = "NONE" /\ UNCHANGED <<cards, decks>>
    BY <1>7 DEF FinishNursery, EndGC, cardVars
  <2>2. \A a \in Allotted(tenured)', s \in Slots : TenuredSlot(a, s)'
    <3>1. \A a \in Allotted(tenured)', s \in Slots : Marked(a, A)' <=> Marked(a, A)
      BY <2>1 DEF Marked
    <3>2. TAKE a \in Allotted(tenured)', s \in Slots
    <3>3. slot[a][s] \notin Nursery /\ (Clean(slot[a][s]) \/ Marked(a, A)) /\ slot'[a] = slot[a]
      BY <1>6, <2>1 DEF TenuredSlot, NurseryStages
    <3>4. slot'[a][s] \notin Nursery /\ (Clean(slot[a][s])' \/ Marked(a, A)')
      BY <1>3, <3>1, <3>3
    <3> QED
      BY <2>1, <3>4 DEF TenuredSlot, NurseryStages, ToAgingStages, MarkStages, Promoting
  <2>3. \A a \in Allotted(aging)', s \in Slots : AgingSlot(a, s)'
    BY <1>1, <1>6, <2>1, Zenon DEF AgingSlot, ToAgingStages, Queued
  <2> QED
    BY <1>5, <2>1, <2>2, <2>3 DEF NoSlotForgotten, ScanOrder, SpaceInv, OpInv, LaterHeapsEmpty,
       MarkStages, CardStages
<1>8. CASE FinishAging \/ FinishToTenured
  <2>1. stage \in {"a_trace", "t_mark"} /\ (EndGC \/ StartMark("FULL"))
    BY <1>8 DEF FinishAging, FinishToTenured, CheckFragmentation
  <2>2. \A a \in Allotted(tenured)', s \in Slots : Clean(slot[a][s])'
    BY <1>1, <1>3, <1>6, <2>1, Zenon DEF TenuredSlot, ToAgingStages, Promoting, Queued
  <2>3. \A a \in Allotted(aging)', s \in Slots : slot'[a][s] \notin Nursery
    <3>1. CASE stage = "a_trace"
      BY <1>1, <1>6, <3>1 DEF AgingSlot, ToAgingStages, Queued
    <3>2. CASE stage = "t_mark"
      <4>1. Flush(Young)
        BY <1>8, <3>2 DEF FinishAging, FinishToTenured
      <4> QED
        BY <1>0, <1>2, <4>1, FlushEffect DEF Allotted
    <3> QED
      BY <2>1, <3>1, <3>2
  <2> QED
    BY <1>0, <1>1, <1>5, <2>1, <2>2, <2>3, CheckKeeps
<1> QED
  BY <1>7, <1>8

\* The first half of collect_aging ends: the other semispace is empty.
LEMMA SwapKeeps ==
  ASSUME Inv, SwapSemispaces
  PROVE  NoSlotForgotten'
<1>0. /\ TypeOK /\ SpaceInv /\ heap \in 1..Heaps
      /\ tenured \subseteq Addr /\ aging_semispace \subseteq Addr
  BY Disjointness DEF Inv, NoSlotForgotten
<1>1. /\ stage = "a_mark" /\ slotsTodo = {} /\ gray = {} /\ heap' = heap
      /\ op' = "AGING" /\ stage' = "a_roots" /\ Flush(aging_semispace) /\ semi' = 1 - semi
  BY DEF SwapSemispaces, StageDone, Visited, TraceStages, EnterRoots
<1>2. tenured' = tenured /\ aging' = aging_semispace
  BY <1>1 DEF tenured, aging, aging_semispace
<1>3. \A v : Clean(v)' <=> Clean(v)
  BY <1>2 DEF Clean
<1>4. Allotted(aging)' = {}
  BY <1>0, <1>1, <1>2, FlushEffect DEF Allotted
<1>5. \A a \in Allotted(tenured)', s \in Slots : TenuredSlot(a, s) /\ slot'[a] = slot[a]
  BY <1>0, <1>1, <1>2, FlushEffect DEF Allotted, Inv, NoSlotForgotten
<1>6. \A a \in Allotted(tenured)', s \in Slots : TenuredSlot(a, s)'
  BY <1>1, <1>3, <1>5, Zenon
     DEF TenuredSlot, NurseryStages, ToAgingStages, MarkStages, Promoting, Queued
<1>7. LaterHeapsEmpty'
  BY <1>0, <1>1, FlushEffect, Zenon
<1> QED
  BY <1>1, <1>4, <1>6, <1>7 DEF NoSlotForgotten, ScanOrder, SpaceInv, OpInv, LaterHeapsEmpty,
     CardStages, MarkStages, ToAgingStages

\* Marking ends, and what is not marked is swept.
LEMMA MarkSweepKeeps ==
  ASSUME Inv, FinishMark \/ Sweep
  PROVE  NoSlotForgotten'
<1>0. /\ TypeOK /\ SpaceInv /\ OpInv /\ heap \in 1..Heaps /\ tenured \subseteq Addr
      /\ aging \subseteq Addr /\ aging \subseteq Young
  BY Disjointness, Zenon DEF Inv, NoSlotForgotten, Young
<1>1. UNCHANGED <<semi, heap, op, marked, slotsTodo, gray>>
  BY DEF FinishMark, Sweep, genVars, scanVars, todoVars
<1>2. tenured' = tenured /\ aging' = aging
  BY <1>1 DEF tenured, aging
<1>3. \A v : Clean(v)' <=> Clean(v)
  BY <1>2 DEF Clean
<1> USE DEF NurseryStages, ToAgingStages, MarkStages, Promoting, CardStages
<1>4. CASE FinishMark
  <2>1. stage = "f_mark" /\ stage' = "f_marked" /\ Flush(Young) /\ gray = {} /\ slotsTodo = {}
    BY <1>4 DEF FinishMark, StageDone, Visited, TraceStages
  <2>2. Allotted(aging)' = {} /\ LaterHeapsEmpty'
    BY <1>0, <1>1, <1>2, <2>1, FlushEffect DEF Allotted
  <2>3. \A a \in Allotted(tenured)', s \in Slots : TenuredSlot(a, s) /\ slot'[a] = slot[a]
    BY <1>0, <1>2, <2>1, FlushEffect DEF Allotted, Inv, NoSlotForgotten
  <2>4. \A a \in Allotted(tenured)', s \in Slots : TenuredSlot(a, s)'
    <3>1. TAKE a \in Allotted(tenured)', s \in Slots
    <3>2. a \in marked => Clean(slot[a][s])
      BY <2>1, <2>3 DEF TenuredSlot, Queued
    <3>3. a \in marked' => Clean(slot[a][s])'
      BY <1>1, <1>3, <2>3, <3>2
    <3> QED
      BY <2>1, <3>3 DEF TenuredSlot
  <2> QED
    BY <1>0, <1>1, <1>2, <2>1, <2>2, <2>4
       DEF NoSlotForgotten, ScanOrder, SpaceInv, OpInv, LaterHeapsEmpty
<1>5. CASE Sweep
  <2>1. stage = "f_marked" /\ stage' = "f_swept" /\ Flush(tenured \ marked)
    BY <1>5 DEF Sweep
  <2>2. LaterHeapsEmpty' /\ \A a \in Allotted(aging)' : a \in Allotted(aging)
    BY <1>0, <1>1, <1>2, <2>1, FlushEffect, Zenon DEF Allotted
  <2>3. \A a \in Allotted(tenured)', s \in Slots :
          TenuredSlot(a, s) /\ slot'[a] = slot[a] /\ a \in marked
    BY <1>0, <1>2, <2>1, FlushEffect DEF Allotted, Inv, NoSlotForgotten
  <2>4. \A a \in Allotted(tenured)', s \in Slots : TenuredSlot(a, s)'
    <3>1. TAKE a \in Allotted(tenured)', s \in Slots
    <3>2. Clean(slot[a][s]) /\ a \in marked
      BY <2>1, <2>3 DEF TenuredSlot
    <3>3. Clean(slot[a][s])' /\ a \in marked'
      BY <1>1, <1>3, <2>3, <3>2
    <3> QED
      BY <2>1, <3>3 DEF TenuredSlot
  <2>5. \A a \in Allotted(aging)', s \in Slots : AgingSlot(a, s)'
    <3>1. \A a \in Allotted(aging)', s \in Slots : AgingSlot(a, s)
      BY <2>2 DEF Inv, NoSlotForgotten
    <3> QED
      BY <2>1, <3>1, Zenon DEF AgingSlot
  <2> QED
    BY <1>0, <1>1, <1>2, <2>1, <2>2, <2>4, <2>5, Zenon
       DEF NoSlotForgotten, ScanOrder, SpaceInv, OpInv, LaterHeapsEmpty
<1> QED
  BY <1>4, <1>5

\* The heap grows: its new tenured space is empty.
LEMMA GrowKeeps ==
  ASSUME Inv, Grow, UNCHANGED <<id, slot, semi>>,
         \A a \in Allotted(aging), s \in Slots : slot[a][s] \notin Nursery
  PROVE  NoSlotForgotten'
<1>0. TypeOK /\ heap \in 1..Heaps /\ SpaceInv
  BY Disjointness, Zenon DEF Inv, NoSlotForgotten
<1>1. heap' = heap + 1 /\ heap < Heaps /\ StartMark("GROWING_DATA_HEAP") /\ aging' = aging
  BY DEF Grow, aging
<1>2. heap' \in 1..Heaps /\ heap' > heap /\ \A h \in 1..Heaps : h > heap' => h > heap
  BY <1>0, <1>1, ConstantsAssumption
<1>3. LaterHeapsEmpty' /\ Allotted(tenured)' = {}
  BY <1>0, <1>2 DEF SpaceInv, LaterHeapsEmpty, Allotted, tenured
<1>4. Allotted(aging)' = Allotted(aging)
  BY <1>1 DEF Allotted
<1> QED
  BY <1>1, <1>2, <1>3, <1>4, CheckKeeps

\* The decision after a sweep and after a compaction.
LEMMA FullEndKeeps ==
  ASSUME Inv, AfterSweep \/ AfterCompact
  PROVE  NoSlotForgotten'
<1>0. TypeOK /\ SpaceInv /\ OpInv /\ heap \in 1..Heaps
  BY Disjointness DEF Inv, NoSlotForgotten
<1>1. stage \in {"f_swept", "f_compacted"} /\ UNCHANGED <<id, slot, semi>>
  BY DEF AfterSweep, AfterCompact, heapVars
<1> USE DEF NurseryStages, ToAgingStages, MarkStages, Promoting, CardStages
<1>2. /\ \A a \in Allotted(tenured), s \in Slots : Clean(slot[a][s])
      /\ \A a \in Allotted(aging), s \in Slots : slot[a][s] \notin Nursery /\ AgingSlot(a, s)
    BY <1>1 DEF Inv, NoSlotForgotten, TenuredSlot, AgingSlot
<1>3. CASE Grow
  BY <1>1, <1>2, <1>3, GrowKeeps
<1>4. ASSUME heap' = heap
      PROVE  /\ tenured' = tenured /\ aging' = aging
             /\ Allotted(tenured)' = Allotted(tenured) /\ Allotted(aging)' = Allotted(aging)
             /\ LaterHeapsEmpty' /\ \A v : Clean(v)' <=> Clean(v)
  <2>1. tenured' = tenured /\ aging' = aging
    BY <1>1, <1>4 DEF tenured, aging
  <2> QED
    BY <1>0, <1>1, <1>4, <2>1 DEF Allotted, LaterHeapsEmpty, SpaceInv, Clean
<1>5. CASE EndGC /\ heap' = heap
  <2>1. /\ \A a \in Allotted(tenured)', s \in Slots : Clean(slot[a][s])'
        /\ \A a \in Allotted(aging)', s \in Slots : slot'[a][s] \notin Nursery
    BY <1>1, <1>2, <1>4, <1>5
  <2> QED
    BY <1>0, <1>4, <1>5, <2>1, CheckKeeps
<1>6. CASE /\ stage = "f_swept" /\ op' = "COMPACT" /\ stage' = "f_compact"
           /\ UNCHANGED <<scanVars, heap>>
  <2>1. marked' = marked
    BY <1>6 DEF scanVars
  <2>2. \A a \in Allotted(tenured)', s \in Slots : TenuredSlot(a, s)'
    <3>1. \A a \in Allotted(tenured), s \in Slots : a \in marked
      BY <1>6 DEF Inv, NoSlotForgotten, TenuredSlot
    <3> QED
      BY <1>1, <1>2, <1>4, <1>6, <2>1, <3>1 DEF TenuredSlot
  <2>3. \A a \in Allotted(aging)', s \in Slots : AgingSlot(a, s)'
    BY <1>2, <1>4, <1>6, Zenon DEF AgingSlot
  <2> QED
    BY <1>0, <1>4, <1>6, <2>1, <2>2, <2>3, Zenon
       DEF NoSlotForgotten, ScanOrder, SpaceInv, OpInv, LaterHeapsEmpty
<1> QED
  BY <1>3, <1>5, <1>6 DEF AfterSweep, AfterCompact

\* Compaction: an object stays in tenured space, and so does what its slots refer to.
LEMMA CompactKeeps ==
  ASSUME Inv, Compact
  PROVE  NoSlotForgotten'
<1>0. /\ TypeOK /\ HeapType /\ SpaceInv /\ heap \in 1..Heaps /\ tenured = Tenured[heap]
      /\ tenured \subseteq Addr /\ aging \subseteq Addr /\ tenured \cap aging = {}
  BY TypeParts, Disjointness, Zenon DEF Inv, NoSlotForgotten
<1>1. stage \in {"f_marked", "f_compact"} /\ UNCHANGED <<semi, heap>>
  BY DEF Compact, genVars
<1>2. marked \subseteq tenured
  BY <1>0, <1>1 DEF SpaceInv
<1>3. tenured' = tenured /\ aging' = aging /\ \A v : Clean(v)' <=> Clean(v)
  BY <1>1 DEF tenured, aging, Clean
<1>4. PICK f \in Slides(marked) : CompactHeap(f)
  BY DEF Compact
<1>5. \A b \in marked : f[b] \in tenured
  BY <1>4 DEF Slides
<1> DEFINE Moved(p) == IF p \in marked THEN f[p] ELSE p
           From(a) == CHOOSE b \in marked : f[b] = a
           Taken == {f[b] : b \in marked}
<1>6. /\ id' = [a \in Addr |-> IF a \in Taken THEN id[From(a)] ELSE NoId]
      /\ slot' = [a \in Addr |-> IF a \in Taken
                                 THEN [s \in Slots |-> Moved(slot[From(a)][s])]
                                 ELSE [s \in Slots |-> NULL]]
  BY <1>4, Zenon DEF CompactHeap
<1>7. \A a \in Taken : From(a) \in marked /\ a \in tenured
  BY <1>5
<1>8. \A v : Clean(v) => Clean(Moved(v))
  BY <1>5 DEF Clean
<1> HIDE DEF Moved, From, Taken
<1>9. ASSUME NEW a \in Addr, id'[a] # NoId
      PROVE  /\ a \in Taken /\ a \in tenured
             /\ From(a) \in marked /\ From(a) \in Allotted(tenured)
             /\ \A s \in Slots : slot'[a][s] = Moved(slot[From(a)][s])
  <2>1. a \in Taken /\ id'[a] = id[From(a)]
    BY <1>6, <1>9, Zenon
  <2>2. \A s \in Slots : slot'[a][s] = Moved(slot[From(a)][s])
    BY <1>6, <2>1, Zenon
  <2> QED
    BY <1>2, <1>7, <1>9, <2>1, <2>2, Zenon DEF Allotted
<1>10. \A a \in Allotted(tenured)', s \in Slots : Clean(slot[a][s])'
  <2>1. TAKE a \in Allotted(tenured)', s \in Slots
  <2>2. a \in Addr /\ id'[a] # NoId
    BY <1>0, <1>3, <2>1 DEF Allotted
  <2>3. TenuredSlot(From(a), s) /\ From(a) \in marked
    BY <1>9, <2>1, <2>2, Zenon DEF Inv, NoSlotForgotten
  <2>4. Clean(slot[From(a)][s])
    BY <1>1, <2>3 DEF TenuredSlot
  <2> QED
    BY <1>3, <1>8, <1>9, <2>1, <2>2, <2>4
<1>11. Allotted(aging)' = {}
  BY <1>0, <1>3, <1>9, Zenon DEF Allotted
<1>12. LaterHeapsEmpty'
  <2>1. ASSUME NEW h \in 1..Heaps, h > heap PROVE Tenured[h] \subseteq Addr /\ Tenured[h] \cap tenured = {}
    <3>1. h # heap
      BY <1>0, <2>1, ConstantsAssumption
    <3> QED
      BY <1>0, <3>1, Layout, LayoutAssumption, Zenon
  <2> QED
    BY <1>1, <1>9, <2>1, Zenon DEF LaterHeapsEmpty, Allotted
<1>13. CASE EndGC
  BY <1>0, <1>1, <1>10, <1>11, <1>12, <1>13, CheckKeeps, Zenon
<1>14. CASE stage' = "f_compacted" /\ op = "COMPACT" /\ op' = op
  BY <1>10, <1>11, <1>12, <1>14, Zenon
     DEF NoSlotForgotten, TenuredSlot, ScanOrder, SpaceInv, OpInv,
     LaterHeapsEmpty, NurseryStages, ToAgingStages, MarkStages, Promoting, CardStages
<1> QED
  BY <1>13, <1>14 DEF Compact

\* Every step of the collector.
LEMMA CollectorKeeps ==
  ASSUME Inv, CollectorStep
  PROVE  NoSlotForgotten'
BY VisitsKeep, OpenDeckKeeps, OpenCardKeeps, CloseCardKeeps, ScanGrayKeeps, NextStageKeeps,
   SwapKeeps, StartGcAgainKeeps, MinorEndKeeps, MarkSweepKeeps, FullEndKeeps, CompactKeeps
   DEF CollectorStep

\* Nothing is claimed of slots when a full collection starts: it visits all of them.
LEMMA MarkStarts ==
  ASSUME NEW o \in {"FULL", "COMPACT", "GROWING_DATA_HEAP"}, StartMark(o), LaterHeapsEmpty'
  PROVE  NoSlotForgotten'
<1>1. stage' = "f_roots" /\ op' = o /\ marked' = {}
  BY DEF StartMark
<1> QED
  BY <1>1, Zenon
     DEF NoSlotForgotten, TenuredSlot, AgingSlot, ScanOrder, SpaceInv, OpInv, LaterHeapsEmpty,
     NurseryStages, ToAgingStages, MarkStages, Promoting, CardStages

\* The program allots, stores and marks: a slot is as it was, with marks as they were,
\* or has all its marks.
LEMMA MutatorWrites ==
  ASSUME Inv, stage = "mutator", UNCHANGED <<semi, heap, op, stage>>, LaterHeapsEmpty',
         \A a \in tenured \cup aging, s \in Slots :
           \/ /\ id'[a] = id[a] /\ slot'[a][s] = slot[a][s]
              /\ \A bit \in card_mark_mask : Marked(a, bit) => Marked(a, bit)'
           \/ \A bit \in card_mark_mask : Marked(a, bit)'
  PROVE  NoSlotForgotten'
<1>1. tenured' = tenured /\ aging' = aging /\ \A v : Clean(v)' <=> Clean(v)
  BY Zenon DEF tenured, aging, Clean
<1>2. N \in card_mark_mask /\ A \in card_mark_mask
  BY Zenon DEF card_mark_mask
<1> USE DEF NurseryStages, ToAgingStages, MarkStages, Promoting, CardStages
<1>3. ASSUME NEW a \in Allotted(tenured)', NEW s \in Slots PROVE TenuredSlot(a, s)'
  <2>1. a \in tenured /\ id'[a] # NoId
    BY <1>1 DEF Allotted
  <2>2. CASE \A bit \in card_mark_mask : Marked(a, bit)'
    BY <1>2, <2>2, Zenon DEF TenuredSlot
  <2>3. CASE /\ id'[a] = id[a] /\ slot'[a][s] = slot[a][s]
             /\ \A bit \in card_mark_mask : Marked(a, bit) => Marked(a, bit)'
    <3>1. TenuredSlot(a, s)
      BY <2>1, <2>3, Zenon DEF Inv, NoSlotForgotten, Allotted
    <3> QED
      BY <1>1, <1>2, <2>3, <3>1, Zenon DEF TenuredSlot
  <2> QED
    BY <2>1, <2>2, <2>3, Zenon
<1>4. ASSUME NEW a \in Allotted(aging)', NEW s \in Slots PROVE AgingSlot(a, s)'
  <2>1. a \in aging /\ id'[a] # NoId
    BY <1>1 DEF Allotted
  <2>2. CASE \A bit \in card_mark_mask : Marked(a, bit)'
    BY <1>2, <2>2, Zenon DEF AgingSlot
  <2>3. CASE /\ id'[a] = id[a] /\ slot'[a][s] = slot[a][s]
             /\ \A bit \in card_mark_mask : Marked(a, bit) => Marked(a, bit)'
    <3>1. AgingSlot(a, s)
      BY <2>1, <2>3, Zenon DEF Inv, NoSlotForgotten, Allotted
    <3> QED
      BY <1>2, <2>3, <3>1, Zenon DEF AgingSlot
  <2> QED
    BY <2>1, <2>2, <2>3, Zenon
<1> QED
  BY <1>3, <1>4, Zenon DEF Inv, NoSlotForgotten, ScanOrder, SpaceInv, OpInv, LaterHeapsEmpty

\* The write barrier marks the object at w and takes no mark away.
LEMMA BarrierMarks ==
  ASSUME TypeOK, NEW w \in Addr, write_barrier(w), NEW a \in tenured \cup aging,
         NEW bit \in card_mark_mask
  PROVE  /\ Marked(a, bit) => Marked(a, bit)'
         /\ a = w => Marked(a, bit)'
<1>0. CardType /\ a \in Addr \ Nursery
  BY TypeParts, Disjointness
<1>1. addr_to_card(a) \in CardDomain /\ addr_to_deck(a) \in DeckDomain
  BY <1>0 DEF CardDomain, DeckDomain, CardsOf, DecksOf
<1>2. CASE w \in Nursery
  BY <1>0, <1>2 DEF write_barrier, cardVars, Marked
<1>3. CASE w \notin Nursery
  <2>1. /\ cards' = [cards EXCEPT ![addr_to_card(w)] = card_mark_mask]
        /\ decks' = [decks EXCEPT ![addr_to_deck(w)] = card_mark_mask]
    BY <1>3 DEF write_barrier
  <2>2. bit \in cards[addr_to_card(a)] \/ addr_to_card(a) = addr_to_card(w)
           => bit \in cards'[addr_to_card(a)]
    BY <1>0, <1>1, <2>1 DEF CardType
  <2>3. bit \in decks[addr_to_deck(a)] \/ addr_to_deck(a) = addr_to_deck(w)
           => bit \in decks'[addr_to_deck(a)]
    BY <1>0, <1>1, <2>1 DEF CardType
  <2> QED
    BY <2>2, <2>3 DEF Marked
<1> QED
  BY <1>2, <1>3

\* A new object is put at w, an address of the nursery or of tenured space.
LEMMA NewObjectKeeps ==
  ASSUME Inv, stage = "mutator", NEW w \in Nursery \cup tenured, NEW r \in Roots, NEW q \in Roots,
         NewObject(w, r, q), (w \in Nursery /\ UNCHANGED cardVars) \/ write_barrier(w)
  PROVE  NoSlotForgotten'
<1>0. /\ TypeOK /\ HeapType /\ SpaceInv /\ heap \in 1..Heaps /\ tenured = Tenured[heap]
      /\ tenured \subseteq Addr \ Nursery /\ aging \subseteq Addr \ Nursery /\ w \in Addr
  BY TypeParts, Disjointness, Layout, Zenon DEF Inv, NoSlotForgotten
<1>1. /\ UNCHANGED <<semi, heap, op, stage>>
      /\ \A a \in Addr : a # w => id'[a] = id[a] /\ slot'[a] = slot[a]
  BY <1>0, Zenon DEF NewObject, genVars, HeapType
<1>2. LaterHeapsEmpty'
  <2>1. ASSUME NEW h \in 1..Heaps, h > heap PROVE Tenured[h] \subseteq Addr /\ w \notin Tenured[h]
    <3>1. h # heap
      BY <1>0, <2>1, ConstantsAssumption
    <3> QED
      BY <1>0, <3>1, Layout, LayoutAssumption
  <2> QED
    BY <1>0, <1>1, <2>1, Zenon DEF LaterHeapsEmpty, SpaceInv, Allotted
<1>3. ASSUME NEW a \in tenured \cup aging, NEW s \in Slots
      PROVE  \/ /\ id'[a] = id[a] /\ slot'[a][s] = slot[a][s]
                /\ \A bit \in card_mark_mask : Marked(a, bit) => Marked(a, bit)'
             \/ \A bit \in card_mark_mask : Marked(a, bit)'
  <2>1. CASE w \in Nursery /\ UNCHANGED cardVars
    BY <1>0, <1>1, <2>1, Zenon DEF Marked, cardVars
  <2>2. CASE write_barrier(w)
    BY <1>0, <1>1, <2>2, BarrierMarks, Zenon
  <2> QED
    BY <2>1, <2>2, Zenon
<1> QED
  BY <1>1, <1>2, <1>3, MutatorWrites, Zenon

\* Every step of the program.
LEMMA MutatorKeeps ==
  ASSUME Inv, MutatorStep
  PROVE  NoSlotForgotten'
<1>0. /\ stage = "mutator" /\ TypeOK /\ RootType /\ HeapType /\ CardType /\ SpaceInv
      /\ heap \in 1..Heaps
      /\ tenured \subseteq Addr \ Nursery /\ aging \subseteq Addr \ Nursery
  <2>1. stage = "mutator"
    BY Zenon DEF MutatorStep, allot_object, allot_large_object, MoveRoot, become,
           ReadSlot, set_slot, DropRoot, StoreLiteral, CollectPrimitive, Idle
  <2> QED
    BY <2>1, TypeParts, Disjointness, Zenon DEF Inv, NoSlotForgotten
<1> USE DEF NurseryStages, ToAgingStages, MarkStages, Promoting, CardStages
<1>1. ASSUME UNCHANGED <<id, heap>> PROVE LaterHeapsEmpty'
  BY <1>0, <1>1, Zenon DEF LaterHeapsEmpty, SpaceInv, Allotted
<1>2. ASSUME NEW o \in {"NURSERY", "FULL", "COMPACT"}, StartGC(o),
             UNCHANGED <<heapVars, cardVars, genVars>>
      PROVE  NoSlotForgotten'
  <2>1. CASE o # "NURSERY"
    BY <1>1, <1>2, <2>1, MarkStarts DEF StartGC, heapVars, genVars
  <2>2. CASE o = "NURSERY"
    <3>1. op' = "NURSERY" /\ stage' = "n_roots"
      BY <1>2, <2>2 DEF StartGC, EnterRoots
    <3>2. UNCHANGED <<id, slot, cards, decks, semi, heap>>
      BY <1>2 DEF heapVars, cardVars, genVars
    <3>3. tenured' = tenured /\ aging' = aging /\ (\A v : Clean(v)' <=> Clean(v))
          /\ \A a, bit : Marked(a, bit)' <=> Marked(a, bit)
      BY <3>2 DEF tenured, aging, Clean, Marked
    <3>4. \A a \in Allotted(tenured)', s \in Slots : TenuredSlot(a, s)
      BY <3>2, <3>3 DEF Inv, NoSlotForgotten, Allotted
    <3>5. \A a \in Allotted(aging)', s \in Slots : AgingSlot(a, s)
      BY <3>2, <3>3 DEF Inv, NoSlotForgotten, Allotted
    <3>6. \A a \in Allotted(tenured)', s \in Slots : TenuredSlot(a, s)'
      BY <1>0, <3>1, <3>2, <3>3, <3>4, Zenon DEF TenuredSlot
    <3>7. \A a \in Allotted(aging)', s \in Slots : AgingSlot(a, s)'
      BY <1>0, <3>1, <3>2, <3>3, <3>5, Zenon DEF AgingSlot
    <3>8. LaterHeapsEmpty'
      BY <1>1, <3>2
    <3> QED
      BY <3>1, <3>6, <3>7, <3>8 DEF NoSlotForgotten, ScanOrder, SpaceInv, OpInv, LaterHeapsEmpty
  <2> QED
    BY <2>1, <2>2
<1>3. ASSUME Grow, UNCHANGED id PROVE NoSlotForgotten'
  <2>1. heap' = heap + 1 /\ StartMark("GROWING_DATA_HEAP")
    BY <1>3 DEF Grow
  <2>2. \A h \in 1..Heaps : h > heap' => h > heap
    BY <1>0, <2>1, ConstantsAssumption
  <2>3. LaterHeapsEmpty'
    BY <1>0, <1>3, <2>2, Zenon DEF LaterHeapsEmpty, SpaceInv, Allotted
  <2> QED
    BY <2>1, <2>3, MarkStarts
<1>4. ASSUME UNCHANGED <<heapVars, cardVars, genVars, op, stage>> PROVE NoSlotForgotten'
  <2>1. UNCHANGED <<id, slot, cards, decks, semi, heap, op, stage>>
    BY <1>4 DEF heapVars, cardVars, genVars
  <2>2. \A a, bit : Marked(a, bit)' <=> Marked(a, bit)
    BY <2>1, Zenon DEF Marked
  <2> QED
    BY <1>0, <1>1, <2>1, <2>2, MutatorWrites, Zenon
<1>5. ASSUME NEW gen, gen \subseteq Addr, Free(gen) # {} PROVE MinOf(Free(gen)) \in gen
  <2>1. Free(gen) \subseteq Nat /\ Free(gen) \subseteq gen
    BY <1>5, Layout, Zenon DEF Free
  <2> QED
    BY <1>5, <2>1, MinOfIn
<1>6. ASSUME NEW r \in Roots, NEW q \in Roots, allot_object(r, q) PROVE NoSlotForgotten'
  <2>1. CASE Free(Nursery) # {}
    <3>1. MinOf(Free(Nursery)) \in Nursery
      BY <1>5, <2>1, Layout, Zenon
    <3> QED
      BY <1>0, <1>6, <2>1, <3>1, NewObjectKeeps DEF allot_object
  <2>2. CASE Free(Nursery) = {}
    BY <1>2, <1>6, <2>2 DEF allot_object
  <2> QED
    BY <2>1, <2>2
<1>7. ASSUME NEW r \in Roots, NEW q \in Roots, allot_large_object(r, q) PROVE NoSlotForgotten'
  <2>1. CASE \E n \in Blocks(tenured) : NewObject(n, r, q) /\ write_barrier(n)
    <3>1. PICK n \in Blocks(tenured) : NewObject(n, r, q) /\ write_barrier(n)
      BY <2>1
    <3>2. n \in tenured
      BY <3>1 DEF Blocks, Free
    <3> QED
      BY <1>0, <3>1, <3>2, NewObjectKeeps
  <2>2. CASE StartGC("COMPACT") /\ UNCHANGED <<heapVars, cardVars, genVars>>
    BY <1>2, <2>2
  <2>3. CASE Grow /\ UNCHANGED heapVars
    BY <1>3, <2>3 DEF heapVars
  <2> QED
    BY <1>7, <2>1, <2>2, <2>3 DEF allot_large_object
<1>8. ASSUME NEW r \in Roots, NEW q \in Roots, become(q, r) PROVE NoSlotForgotten'
  <2>1. CASE pending = "none"
    BY <1>2, <1>8, <2>1, Zenon DEF become
  <2>2. CASE pending # "none"
    <3>1. /\ cards' = [c \in DOMAIN cards |->
               IF c \in CardsOf(aging \cup tenured) THEN card_mark_mask ELSE cards[c]]
          /\ decks' = [d \in DOMAIN decks |->
               IF d \in DecksOf(aging \cup tenured) THEN card_mark_mask ELSE decks[d]]
          /\ UNCHANGED <<id, semi, heap, op, stage>>
      BY <1>8, <2>2, Zenon DEF become, genVars
    <3>2. \A a \in tenured \cup aging, bit \in card_mark_mask : Marked(a, bit)'
      <4>1. TAKE a \in tenured \cup aging, bit \in card_mark_mask
      <4>2. addr_to_card(a) \in DOMAIN cards /\ addr_to_deck(a) \in DOMAIN decks
        BY <1>0 DEF CardType, CardDomain, DeckDomain, CardsOf, DecksOf
      <4> QED
        BY <3>1, <4>2, Zenon DEF Marked, CardsOf, DecksOf
    <3> QED
      BY <1>0, <1>1, <3>1, <3>2, MutatorWrites, Zenon
  <2> QED
    BY <2>1, <2>2
<1>9. ASSUME NEW r \in Roots, NEW q \in Roots, NEW t \in Slots, set_slot(q, t, r)
      PROVE  NoSlotForgotten'
  <2>1. root[q] \in Addr /\ write_barrier(root[q])
    BY <1>0, <1>9 DEF RootType, set_slot, Value
  <2>2. /\ UNCHANGED <<id, semi, heap, op, stage>>
        /\ \A a \in Addr : a # root[q] => slot'[a] = slot[a]
    BY <1>0, <1>9 DEF set_slot, genVars, HeapType
  <2>3. ASSUME NEW a \in tenured \cup aging, NEW s \in Slots
        PROVE  \/ /\ id'[a] = id[a] /\ slot'[a][s] = slot[a][s]
                  /\ \A bit \in card_mark_mask : Marked(a, bit) => Marked(a, bit)'
               \/ \A bit \in card_mark_mask : Marked(a, bit)'
    BY <1>0, <2>1, <2>2, BarrierMarks, Zenon
  <2> QED
    BY <1>0, <1>1, <2>2, <2>3, MutatorWrites
<1>10. ASSUME NEW r \in Roots, NEW q \in Roots,
              \/ MoveRoot(r, q) \/ DropRoot(r)
              \/ \E s \in Slots : ReadSlot(r, q, s)
              \/ \E c \in CodeBlocks : StoreLiteral(c, r)
       PROVE  NoSlotForgotten'
  BY <1>4, <1>10 DEF MoveRoot, DropRoot, ReadSlot, StoreLiteral
<1>11. ASSUME NEW o \in {"NURSERY", "FULL", "COMPACT"}, CollectPrimitive(o) PROVE NoSlotForgotten'
  BY <1>2, <1>11 DEF CollectPrimitive
<1> QED
  BY <1>6, <1>7, <1>8, <1>9, <1>10, <1>11 DEF MutatorStep

\* A step that changes nothing.
LEMMA SlotsStutter ==
  ASSUME Inv, UNCHANGED vars
  PROVE  NoSlotForgotten'
<1>1. UNCHANGED <<id, slot, cards, decks, semi, heap, op, stage, slotsTodo, gray, decksTodo,
                  cardsTodo, marked>>
  BY DEF vars, heapVars, cardVars, genVars, scanVars, todoVars
<1>2. tenured' = tenured /\ aging' = aging /\ CardGen' = CardGen
  BY <1>1 DEF tenured, aging, CardGen
<1>3. /\ Allotted(tenured)' = Allotted(tenured) /\ Allotted(aging)' = Allotted(aging)
      /\ \A h \in 1..Heaps : Allotted(Tenured[h])' = Allotted(Tenured[h])
      /\ \A v : Clean(v)' <=> Clean(v)
      /\ \A a, bit : (Marked(a, bit)' <=> Marked(a, bit)) /\ (OnDeck(a, bit)' <=> OnDeck(a, bit))
      /\ \A a, s : Queued(a, s)' <=> Queued(a, s)
  BY <1>1, <1>2, Zenon DEF Allotted, Clean, Marked, OnDeck, Queued
<1>4. \A a \in Allotted(tenured), s \in Slots : TenuredSlot(a, s) => TenuredSlot(a, s)'
  <2>1. TAKE a \in Allotted(tenured), s \in Slots
  <2>2. stage' = stage /\ slot' = slot /\ gray' = gray /\ marked' = marked
    BY <1>1
  <2>3. /\ Clean(slot[a][s])' <=> Clean(slot[a][s])
        /\ Marked(a, A)' <=> Marked(a, A)
        /\ Marked(a, N)' <=> Marked(a, N)
        /\ OnDeck(a, A)' <=> OnDeck(a, A)
        /\ OnDeck(a, N)' <=> OnDeck(a, N)
        /\ Queued(a, s)' <=> Queued(a, s)
    BY <1>3, <2>2
  <2> QED
    BY <2>2, <2>3, Zenon DEF TenuredSlot
<1>5. \A a \in Allotted(aging), s \in Slots : AgingSlot(a, s) => AgingSlot(a, s)'
  BY <1>1, <1>3 DEF AgingSlot
<1>6. ScanOrder' /\ SpaceInv' /\ OpInv'
  BY <1>1, <1>2, <1>3, Zenon DEF Inv, NoSlotForgotten, ScanOrder, SpaceInv, OpInv
<1> QED
  BY <1>3, <1>4, <1>5, <1>6 DEF Inv, NoSlotForgotten

\* Initially there are no objects.
LEMMA SlotsInit == Init => NoSlotForgotten
<1> SUFFICES ASSUME Init PROVE NoSlotForgotten
  OBVIOUS
<1>1. TypeOK
  BY InitType
<1>2. ASSUME NEW gen, gen \subseteq Addr PROVE Allotted(gen) = {}
  BY <1>2 DEF Init, Allotted
<1>3. tenured \subseteq Addr /\ aging \subseteq Addr /\ \A h \in 1..Heaps : Tenured[h] \subseteq Addr
  BY <1>1, Disjointness, Layout
<1> QED
  BY <1>2, <1>3, Zenon
     DEF Init, NoSlotForgotten, ScanOrder, SpaceInv, OpInv, CardStages, MarkStages

\* In every layout of the heap, a slot that refers to a younger generation is
\* found by the collection that is running, or by the next one.
THEOREM NoSlotForgottenTheorem == Spec => []NoSlotForgotten
<1>1. Inv /\ [Next]_vars => Inv'
  BY TypeStutter, CollectorType, MutatorType, SlotsStutter, CollectorKeeps, MutatorKeeps
     DEF Next, Inv
<1>2. Init => Inv
  BY InitType, SlotsInit DEF Inv
<1>3. Inv => NoSlotForgotten
  BY DEF Inv
<1> QED
  BY <1>1, <1>2, <1>3, PTL DEF Spec

\* Whenever the program runs, every slot of an aging or tenured object that refers
\* to a younger generation lies on a card and a deck marked for that generation.
THEOREM WriteBarrierTheorem == Spec => []WriteBarrierHolds
<1>1. TypeOK /\ NoSlotForgotten => WriteBarrierHolds
  <2> SUFFICES ASSUME TypeOK, NoSlotForgotten, stage = "mutator" PROVE WriteBarrierHolds
    BY DEF WriteBarrierHolds
  <2>1. tenured \cap aging = {} /\ NULL \notin aging
    BY Disjointness, Zenon
  <2>2. \A a \in Allotted(tenured), s \in Slots :
          /\ slot[a][s] \in Nursery => Marked(a, N)
          /\ slot[a][s] \in aging => Marked(a, A)
    BY <2>1, Zenon DEF NoSlotForgotten, TenuredSlot, Clean
  <2>3. \A a \in Allotted(aging), s \in Slots : slot[a][s] \in Nursery => Marked(a, N)
    BY DEF NoSlotForgotten, AgingSlot
  <2> QED
    BY <2>2, <2>3, Zenon DEF WriteBarrierHolds, Allotted
<1> QED
  BY <1>1, TypeCorrect, NoSlotForgottenTheorem, PTL

\* No step leaves the nursery mark on a card or a deck without the aging mark.
LEMMA NestedStep ==
  ASSUME TypeOK, CardsNested, Next
  PROVE  CardsNested'
<1>0. DOMAIN cards = CardDomain /\ DOMAIN decks = DeckDomain /\ DOMAIN cards' = CardDomain
      /\ DOMAIN decks' = DeckDomain
  <2>1. TypeOK'
    BY CollectorType, MutatorType DEF Next
  <2> QED
    BY <2>1 DEF TypeOK, CardDomain, DeckDomain
<1>1. ASSUME UNCHANGED cardVars PROVE CardsNested'
  BY <1>1 DEF CardsNested, cardVars
<1>2. ASSUME NEW gen, ClearCards(gen) PROVE CardsNested'
  BY <1>2, Zenon DEF CardsNested, ClearCards
<1>3. ASSUME NEW a, write_barrier(a) PROVE CardsNested'
  BY <1>0, <1>1, <1>3 DEF CardsNested, write_barrier, card_mark_mask
<1>4. ASSUME NEW d, OpenDeck(d) PROVE CardsNested'
  BY <1>0, <1>4 DEF CardsNested, OpenDeck, CardUnmask, card_mark_mask, N, A
<1>5. ASSUME NEW c, OpenCard(c) PROVE CardsNested'
  BY <1>0, <1>5 DEF CardsNested, OpenCard, CardUnmask, card_mark_mask, N, A
<1>6. CASE CollectorStep
  <2>1. ASSUME \/ \E r \in Roots : VisitRoot(r)
               \/ \E c \in CodeBlocks : VisitLiteral(c)
               \/ \E a \in Addr, sl \in Slots : VisitSlot(a, sl)
               \/ \E a \in Addr : ScanGray(a)
               \/ \E c \in CardsOf(Addr) : CloseCard(c)
               \/ NextStage \/ StartGcAgain \/ FinishNursery \/ FinishAging
               \/ Sweep \/ AfterSweep \/ Compact \/ AfterCompact
        PROVE  UNCHANGED cardVars
    BY <2>1, Zenon
       DEF VisitRoot, VisitLiteral, VisitSlot, fixup_data, ScanGray, CloseCard, NextStage, StartGcAgain,
                FinishNursery, FinishAging, Sweep, AfterSweep, Compact, AfterCompact
  <2>2. CASE SwapSemispaces \/ FinishToTenured \/ FinishMark
    BY <1>2, <2>2 DEF SwapSemispaces, FinishToTenured, FinishMark
  <2> QED
    BY <1>1, <1>4, <1>5, <1>6, <2>1, <2>2 DEF CollectorStep
<1>7. CASE MutatorStep
  <2>1. ASSUME NEW r \in Roots, NEW q \in Roots, allot_object(r, q) \/ allot_large_object(r, q)
        PROVE  CardsNested'
    BY <1>1, <1>3, <2>1 DEF allot_object, allot_large_object
  <2>2. ASSUME NEW r \in Roots, NEW q \in Roots, become(q, r) PROVE CardsNested'
    <3>1. CASE pending = "none"
      BY <1>1, <2>2, <3>1, Zenon DEF become
    <3>2. CASE pending # "none"
      BY <2>2, <3>2, Zenon DEF become, CardsNested, card_mark_mask
    <3> QED
      BY <3>1, <3>2
  <2>3. ASSUME NEW r \in Roots, NEW q \in Roots, NEW sl \in Slots, set_slot(q, sl, r)
        PROVE  CardsNested'
    BY <1>3, <2>3 DEF set_slot
  <2>4. ASSUME NEW r \in Roots, NEW q \in Roots,
               \/ MoveRoot(r, q) \/ DropRoot(r)
               \/ \E sl \in Slots : ReadSlot(r, q, sl)
               \/ \E c \in CodeBlocks : StoreLiteral(c, r)
               \/ \E o \in {"NURSERY", "FULL", "COMPACT"} : CollectPrimitive(o)
        PROVE  UNCHANGED cardVars
    BY <2>4 DEF MoveRoot, DropRoot, ReadSlot, StoreLiteral, CollectPrimitive
  <2>5. ASSUME NEW o \in {"NURSERY", "FULL", "COMPACT"}, CollectPrimitive(o)
        PROVE  UNCHANGED cardVars
    BY <2>5 DEF CollectPrimitive
  <2> QED
    BY <1>1, <1>7, <2>1, <2>2, <2>3, <2>4, <2>5 DEF MutatorStep
<1> QED
  BY <1>6, <1>7 DEF Next

\* A card or a deck that is marked for the nursery is marked for aging space.
THEOREM CardsNestedTheorem == Spec => []CardsNested
<1>1. TypeOK /\ CardsNested /\ [Next]_vars => CardsNested'
  <2>1. CardsNested /\ UNCHANGED vars => CardsNested'
    BY DEF CardsNested, vars, cardVars
  <2> QED
    BY <2>1, NestedStep
<1>2. Init => CardsNested
  BY DEF Init, CardsNested
<1> QED
  BY <1>1, <1>2, TypeCorrect, PTL DEF Spec
=============================================================================
