------------------------------- MODULE GenGC -------------------------------
(***************************************************************************)
(* The generational collector of the Factor VM (vm/gc.cpp and the four      *)
(* collectors it drives) together with the part of the mutator that it      *)
(* depends on: allocation, slot access and the card-marking write barrier.  *)
(*                                                                          *)
(* Every object has the same size, one cell, so a generation is a set of    *)
(* cell addresses.  The collectors run in small steps, one visited slot at  *)
(* a time, because running out of room in the middle of a collection        *)
(* (must_start_gc_again) leaves pointers half updated, and the next, wider  *)
(* collection starts from there.                                            *)
(***************************************************************************)
EXTENDS Integers, FiniteSets

CONSTANTS Nursery,     \* the cells of the nursery
          Aging,       \* Aging[0] and Aging[1]: the two aging semispaces
          Tenured,     \* Tenured[h]: tenured space after h - 1 heap growths
          Heaps,       \* bound: how many tenured spaces there are
          CardSize,    \* cells per card
          CardsPerDeck,
          Roots,       \* data roots, stacks, special objects, spill slots
          CodeBlocks,  \* code blocks held by the call stack of a context
          Slots,       \* the slots of an object
          Ids,         \* bound: the contents that tell objects apart
          NULL         \* an immediate value: nothing for the collector

VARIABLES
  id,        \* what an object is: copied with it, unlike its address
  slot,      \* slot[a]: the slots of the object at a
  fwd,       \* fwd[a]: forwarding pointer in the header of a, or NULL
  root,      \* the value of every root
  lit,       \* the literal embedded in every code block
  cards,     \* the mark bits of every card
  decks,     \* the mark bits of every deck
  points_to_nursery,  \* code blocks in the two remembered sets
  points_to_aging,
  semi,      \* Aging[semi] is data->aging, the other one aging_semispace
  heap,      \* Tenured[heap] is data->tenured
  op,        \* current_gc->op
  stage,     \* how far the collection has got; "mutator" outside of one
  rootsTodo, \* roots, code blocks and slots still to visit in this stage
  codeTodo,
  slotsTodo,
  gray,      \* copied or marked objects whose slots were not visited yet
  decksTodo, \* decks and cards that visit_cards has still to look at
  cardsTodo,
  marked,    \* mark bits of tenured space
  pending    \* what allot_large_object does when the collection returns

heapVars == <<id, slot, fwd>>
rootVars == <<root, lit>>
cardVars == <<cards, decks>>
rsVars   == <<points_to_nursery, points_to_aging>>
genVars  == <<semi, heap>>
todoVars == <<rootsTodo, codeTodo, slotsTodo>>
scanVars == <<todoVars, gray, decksTodo, cardsTodo, marked>>
vars == <<heapVars, rootVars, cardVars, rsVars, genVars, op, stage, scanVars,
          pending>>

NoId == 0
Young == Nursery \cup Aging[0] \cup Aging[1]
Old   == UNION {Tenured[h] : h \in 1..Heaps}
Addr  == Young \cup Old
Value == Addr \cup {NULL}

\* card_points_to_nursery and card_points_to_aging
N == "points_to_nursery"
A == "points_to_aging"
card_mark_mask == {N, A}

addr_to_card(a) == a \div CardSize
addr_to_deck(a) == addr_to_card(a) \div CardsPerDeck
CardsOf(gen) == {addr_to_card(a) : a \in gen}
DecksOf(gen) == {addr_to_deck(a) : a \in gen}
CardsOfDeck(d, gen) == {addr_to_card(a) : a \in {b \in gen : addr_to_deck(b) = d}}

ASSUME ConstantsAssumption ==
  /\ Heaps \in Nat \ {0}
  /\ CardSize \in Nat \ {0} /\ CardsPerDeck \in Nat \ {0}
  /\ Nursery \subseteq Nat /\ IsFiniteSet(Nursery)
  /\ Aging \in [{0, 1} -> SUBSET Nat] /\ Tenured \in [1..Heaps -> SUBSET Nat]
  /\ \A i \in {0, 1} : IsFiniteSet(Aging[i])
  /\ \A h \in 1..Heaps : IsFiniteSet(Tenured[h])
  /\ Ids \subseteq Nat \ {NoId}
  /\ NULL \notin Nat

\* The constructor of data_heap gives every generation decks of its own: sizes
\* are rounded up to deck_size.
ASSUME LayoutAssumption ==
  /\ \A h \in 1..Heaps : Tenured[h] \cap Young = {}
  /\ \A g, h \in 1..Heaps : g # h => Tenured[g] \cap Tenured[h] = {}
  /\ \A i \in {0, 1} : Nursery \cap Aging[i] = {}
  /\ Aging[0] \cap Aging[1] = {}
  /\ DecksOf(Aging[0]) \cap DecksOf(Aging[1]) = {}
  /\ \A h \in 1..Heaps, i \in {0, 1} : DecksOf(Tenured[h]) \cap DecksOf(Aging[i]) = {}
  /\ \A g, h \in 1..Heaps : g # h => DecksOf(Tenured[g]) \cap DecksOf(Tenured[h]) = {}

aging    == Aging[semi]
aging_semispace == Aging[1 - semi]
tenured  == Tenured[heap]

Free(gen) == {a \in gen : id[a] = NoId}
MinOf(S) == CHOOSE a \in S : \A b \in S : a <= b

\* Where allot may put an object of gen: the nursery and aging space take the next
\* address, the free list of tenured space a piece of any of its blocks.
Blocks(gen) == {a \in Free(gen) : gen = tenured \/ \A b \in Free(gen) : a <= b}

\* The number of free cells of tenured space against the size of the two
\* younger generations.
\* Variant: the reserve forgets aging space.
HighWaterMarkNurseryOnly == Cardinality(Nursery)
high_water_mark == Cardinality(Nursery) + Cardinality(Aging[0])
free_space == Cardinality(Free(tenured))
low_memory_p == free_space <= high_water_mark

\* The longest contiguous run depends on the state of the free list; all that is
\* known of it is that it is no longer than all the free space together.
high_fragmentation_p == IF low_memory_p THEN {TRUE} ELSE BOOLEAN
can_allot_p(n) == IF free_space >= n THEN BOOLEAN ELSE {FALSE}

--------------------------------------------------------------------------
(* What a collector does with one pointer: fixup_data of its copier.        *)

NurseryStages == {"n_roots", "n_tcards", "n_acards", "n_code", "n_trace"}
ToAgingStages == {"a_roots", "a_trace"}
ToTenuredStages == {"a_tcards", "a_code", "a_mark",
                    "t_roots", "t_tcards", "t_code", "t_mark"}
MarkStages == {"f_roots", "f_mark"}
CardStages == {"n_tcards", "n_acards", "a_tcards", "t_tcards"}
TraceStages == {"n_trace", "a_mark", "a_trace", "t_mark", "f_mark"}
VisitStages == NurseryStages \cup ToAgingStages \cup ToTenuredStages \cup MarkStages

\* The generation that a collector copies to, and the addresses that its
\* fixup_data returns unchanged.
Target == IF stage \in NurseryStages \cup ToAgingStages THEN aging ELSE tenured
Kept(p) == CASE stage \in NurseryStages -> p \notin Nursery
             [] stage \in ToAgingStages -> p \in aging \cup tenured
             [] OTHER -> p \in tenured

\* An object forwarded by a collection that failed can be forwarded again by the
\* one that follows: nursery, aging space, the other semispace, tenured space.
Hop(p) == IF fwd[p] = NULL THEN p ELSE fwd[p]
\* Variant: fixup_data follows one forwarding pointer.
FollowOnce(p) == Hop(p)
Follow(p) == Hop(Hop(Hop(p)))

Resolved(p) == IF Kept(p) THEN p ELSE Follow(p)
NeedsCopy(p) == p # NULL /\ ~Kept(Resolved(p))

\* The block that fixup_data allots to copy the object of p to.
BlockFor(p) == IF NeedsCopy(p) THEN Blocks(Target) ELSE {NULL}

\* The pointer that fixup_data returns for p, when it allots the block n.
New(p, n) == CASE p = NULL -> NULL
               [] NeedsCopy(p) -> n
               [] OTHER -> Resolved(p)

\* Variants: immediates are pushed; an object is pushed each time it is met.
PushedImmediate(p, n) ==
  {a \in {New(p, n)} : NeedsCopy(p) \/ (stage \in MarkStages /\ a \notin marked)}
PushedAgain(p, n) == {a \in {New(p, n)} : p # NULL /\ (NeedsCopy(p) \/ stage \in MarkStages)}

\* The mark stack gets a copied object, and in a full collection one that is
\* marked for the first time.
Pushed(p, n) ==
  {a \in {New(p, n)} : /\ p # NULL
                       /\ NeedsCopy(p) \/ (stage \in MarkStages /\ a \notin marked)}

\* Variant: only the header is copied.
SlotsNotCopied(p, n) == slot
SlotsAfter(p, n) ==
  IF NeedsCopy(p) THEN [slot EXCEPT ![New(p, n)] = slot[Follow(p)]] ELSE slot

fixup_data(p, n) ==
  /\ stage \in VisitStages
  /\ n \in BlockFor(p)
  /\ id' = IF NeedsCopy(p) THEN [id EXCEPT ![New(p, n)] = id[Follow(p)]] ELSE id
  /\ fwd' = IF NeedsCopy(p) THEN [fwd EXCEPT ![Follow(p)] = New(p, n)] ELSE fwd
  /\ gray' = gray \cup Pushed(p, n)
  /\ marked' = IF stage \in MarkStages THEN marked \cup Pushed(p, n) ELSE marked
  /\ UNCHANGED <<cardVars, rsVars, genVars, op, stage, decksTodo, cardsTodo, pending>>

\* Roots, code blocks and gray objects are visited in any order; decks, cards and
\* the slots of their objects in the order of their addresses.
FirstSlot(S) == CHOOSE x \in S : \A y \in S : x[1] <= y[1]

\* Variant: the new pointer is not stored in the root.
VisitRootNotStored(r) ==
  /\ r \in rootsTodo
  /\ rootsTodo' = rootsTodo \ {r}
  /\ \E n \in BlockFor(root[r]) :
       /\ fixup_data(root[r], n)
       /\ slot' = SlotsAfter(root[r], n)
  /\ UNCHANGED <<rootVars, codeTodo, slotsTodo>>

VisitRoot(r) ==
  /\ r \in rootsTodo
  /\ rootsTodo' = rootsTodo \ {r}
  /\ \E n \in BlockFor(root[r]) :
       /\ fixup_data(root[r], n)
       /\ root' = [root EXCEPT ![r] = New(root[r], n)]
       /\ slot' = SlotsAfter(root[r], n)
  /\ UNCHANGED <<lit, codeTodo, slotsTodo>>

VisitLiteral(c) ==
  /\ c \in codeTodo
  /\ codeTodo' = codeTodo \ {c}
  /\ \E n \in BlockFor(lit[c]) :
       /\ fixup_data(lit[c], n)
       /\ lit' = [lit EXCEPT ![c] = New(lit[c], n)]
       /\ slot' = SlotsAfter(lit[c], n)
  /\ UNCHANGED <<root, rootsTodo, slotsTodo>>

VisitSlot(a, s) ==
  /\ slotsTodo # {} /\ <<a, s>> = FirstSlot(slotsTodo)
  /\ slotsTodo' = slotsTodo \ {<<a, s>>}
  /\ \E n \in BlockFor(slot[a][s]) :
       /\ fixup_data(slot[a][s], n)
       /\ slot' = [SlotsAfter(slot[a][s], n) EXCEPT ![a][s] = New(slot[a][s], n)]
  /\ UNCHANGED <<rootVars, rootsTodo, codeTodo>>

Visited == rootsTodo = {} /\ codeTodo = {} /\ slotsTodo = {}

\* A pointer of the current stage whose object must move and finds no room:
\* must_start_gc_again.
OutOfRoom ==
  /\ stage \in VisitStages
  /\ Free(Target) = {}
  /\ \/ \E r \in rootsTodo : NeedsCopy(root[r])
     \/ \E c \in codeTodo : NeedsCopy(lit[c])
     \/ \E as \in slotsTodo : NeedsCopy(slot[as[1]][as[2]])

--------------------------------------------------------------------------
(* visit_cards, visit_mark_stack and cheneys_algorithm.                     *)

CardMask == IF stage \in {"n_tcards", "n_acards"} THEN N ELSE A
\* Variant: the nursery collection takes the other mark off tenured cards.
CardUnmaskOther == IF stage = "n_tcards" THEN {A} ELSE card_mark_mask
CardUnmask == IF stage = "n_tcards" THEN {N} ELSE card_mark_mask
CardGen == IF stage = "n_acards" THEN aging ELSE tenured

Allotted(gen) == {a \in gen : id[a] # NoId}
SlotsOf(objs) == objs \X Slots

OpenDeck(d) ==
  /\ stage \in CardStages /\ Visited /\ cardsTodo = {}
  /\ decksTodo # {} /\ d = MinOf(decksTodo)
  /\ decksTodo' = decksTodo \ {d}
  /\ decks' = [decks EXCEPT ![d] = @ \ CardUnmask]
  /\ cardsTodo' = {c \in CardsOfDeck(d, CardGen) : CardMask \in cards[c]}
  /\ UNCHANGED <<heapVars, rootVars, cards, rsVars, genVars, op, stage, todoVars,
                 gray, marked, pending>>

\* visit_card, up to the visit of the objects on the card.
OpenCard(c) ==
  /\ stage \in CardStages /\ Visited
  /\ cardsTodo # {} /\ c = MinOf(cardsTodo) /\ CardMask \in cards[c]
  /\ cards' = [cards EXCEPT ![c] = @ \ CardUnmask]
  /\ slotsTodo' = SlotsOf({a \in Allotted(CardGen) : addr_to_card(a) = c})
  /\ UNCHANGED <<heapVars, rootVars, decks, rsVars, genVars, op, stage, rootsTodo,
                 codeTodo, gray, decksTodo, cardsTodo, marked, pending>>

\* Variant: a card whose last object ends before the card does is taken for the end.
AtEndOfCard(c) == {\A a \in Allotted(CardGen) : addr_to_card(a) = c => a + 1 < (c + 1) * CardSize}
\* Whether visit_card finds the end of the generation: no object reaches the end of
\* the card.  Where the generation starts with no object the walk may stop at what
\* is there, a free block of tenured space or the memory of an empty aging space.
AtEnd(c) ==
  IF \E a \in Allotted(CardGen) : a + 1 >= (c + 1) * CardSize THEN {FALSE}
  ELSE IF id[MinOf(CardGen)] # NoId THEN {TRUE} ELSE BOOLEAN

\* The end of visit_card; at the end of the generation visit_cards returns and
\* leaves the other cards, and the decks, as they are.
CloseCard(c) ==
  /\ stage \in CardStages /\ Visited
  /\ cardsTodo # {} /\ c = MinOf(cardsTodo) /\ CardMask \notin cards[c]
  /\ \E end \in AtEnd(c) :
       /\ cardsTodo' = IF end THEN {} ELSE cardsTodo \ {c}
       /\ decksTodo' = IF end THEN {} ELSE decksTodo
  /\ UNCHANGED <<heapVars, rootVars, cardVars, rsVars, genVars, op, stage, todoVars,
                 gray, marked, pending>>

ScanGray(a) ==
  /\ stage \in TraceStages /\ Visited
  /\ a \in gray
  /\ gray' = gray \ {a}
  /\ slotsTodo' = SlotsOf({a})
  /\ UNCHANGED <<heapVars, rootVars, cardVars, rsVars, genVars, op, stage, rootsTodo,
                 codeTodo, decksTodo, cardsTodo, marked, pending>>

--------------------------------------------------------------------------
(* The order of the stages.  A stage ends when nothing is left to visit.    *)

StageDone == /\ stage \in VisitStages /\ Visited
             /\ decksTodo = {} /\ cardsTodo = {}
             /\ stage \in TraceStages => gray = {}

\* Variants: the last deck is left out; the mask is compared with ==
\* instead of &.
MaskedDecksButLast(gen, mask) ==
  {d \in DecksOf(gen) : mask \in decks[d] /\ \E e \in DecksOf(gen) : d < e}
MaskedDecksExact(gen, mask) == {d \in DecksOf(gen) : decks[d] = {mask}}
\* The decks that visit_cards will look into.
MaskedDecks(gen, mask) == {d \in DecksOf(gen) : mask \in decks[d]}

EnterRoots(st) ==
  /\ stage' = st
  /\ rootsTodo' = Roots /\ codeTodo' = {} /\ slotsTodo' = {}
  /\ decksTodo' = {} /\ cardsTodo' = {}

EnterCards(st, gen, mask) ==
  /\ stage' = st
  /\ rootsTodo' = {} /\ codeTodo' = {} /\ slotsTodo' = {}
  /\ decksTodo' = MaskedDecks(gen, mask) /\ cardsTodo' = {}

EnterCode(st, blocks) ==
  /\ stage' = st
  /\ rootsTodo' = {} /\ codeTodo' = blocks /\ slotsTodo' = {}
  /\ decksTodo' = {} /\ cardsTodo' = {}

\* The stages of collect_nursery, collect_aging, collect_to_tenured and
\* collect_mark_impl in which the collection moves on without a side effect.
NextStage ==
  /\ StageDone
  /\ \/ stage = "n_roots"  /\ EnterCards("n_tcards", tenured, N)
     \/ stage = "n_tcards" /\ EnterCards("n_acards", aging, N)
     \/ stage = "n_acards" /\ EnterCode("n_code", points_to_nursery)
     \/ stage = "n_code"   /\ EnterCode("n_trace", {})
     \/ stage = "a_tcards" /\ EnterCode("a_code", points_to_aging)
     \/ stage = "a_code"   /\ EnterCode("a_mark", {})
     \/ stage = "a_roots"  /\ EnterCode("a_trace", {})
     \/ stage = "t_roots"  /\ EnterCards("t_tcards", tenured, A)
     \/ stage = "t_tcards" /\ EnterCode("t_code", points_to_aging)
     \/ stage = "t_code"   /\ EnterCode("t_mark", {})
     \/ stage = "f_roots"  /\ EnterCode("f_mark", {})
  /\ UNCHANGED <<heapVars, rootVars, cardVars, rsVars, genVars, op, gray, marked, pending>>

\* flush: the cells of gen hold nothing any more.
Flush(gen) ==
  /\ id' = [a \in Addr |-> IF a \in gen THEN NoId ELSE id[a]]
  /\ slot' = [a \in Addr |-> IF a \in gen THEN [s \in Slots |-> NULL] ELSE slot[a]]
  /\ fwd' = [a \in Addr |-> IF a \in gen THEN NULL ELSE fwd[a]]

\* clear_cards and clear_decks.
ClearCards(gen) ==
  /\ cards' = [c \in DOMAIN cards |-> IF c \in CardsOf(gen) THEN {} ELSE cards[c]]
  /\ decks' = [d \in DOMAIN decks |-> IF d \in DecksOf(gen) THEN {} ELSE decks[d]]

\* The end of gc.  The mark bits are cleared before their next use.
EndGC == /\ stage' = "mutator" /\ op' = "NONE"
         /\ marked' = {}
         /\ UNCHANGED <<todoVars, gray, decksTodo, cardsTodo>>

FinishNursery ==
  /\ stage = "n_trace" /\ StageDone
  /\ Flush(Nursery)
  /\ points_to_nursery' = {}
  /\ EndGC
  /\ UNCHANGED <<rootVars, cardVars, points_to_aging, genVars, pending>>

\* collect_mark_impl up to visit_all_roots; the code blocks are those that
\* visit_context_code_blocks marks.
StartMark(o) ==
  /\ op' = o /\ stage' = "f_roots"
  /\ rootsTodo' = Roots /\ codeTodo' = CodeBlocks /\ slotsTodo' = {}
  /\ decksTodo' = {} /\ cardsTodo' = {}
  /\ gray' = {} /\ marked' = {}

\* After an aging or to_tenured collection: a full one if tenured space has become
\* too fragmented, and otherwise the end of gc.
CheckFragmentation ==
  \E fragmented \in high_fragmentation_p :
    IF fragmented THEN StartMark("FULL") ELSE EndGC

\* Between the two halves of collect_aging.
SwapSemispaces ==
  /\ stage = "a_mark" /\ StageDone
  /\ op' = "AGING"
  /\ semi' = 1 - semi
  /\ Flush(aging_semispace) /\ ClearCards(aging_semispace)
  /\ EnterRoots("a_roots")
  /\ UNCHANGED <<rootVars, rsVars, heap, gray, marked, pending>>

ClearRememberedSet == points_to_nursery' = {} /\ points_to_aging' = {}

\* What the semispace that is not in use still holds is never looked at again:
\* reset_aging comes before its next use.
FinishAging ==
  /\ stage = "a_trace" /\ StageDone
  /\ Flush(Nursery \cup aging_semispace)
  /\ ClearRememberedSet
  /\ CheckFragmentation
  /\ UNCHANGED <<rootVars, cardVars, genVars, pending>>

FinishToTenured ==
  /\ stage = "t_mark" /\ StageDone
  /\ Flush(Young) /\ ClearCards(aging)
  /\ ClearRememberedSet
  /\ CheckFragmentation
  /\ UNCHANGED <<rootVars, genVars, pending>>

\* The end of collect_mark_impl: reset_tenured, reset_aging, reset_nursery.
FinishMark ==
  /\ stage = "f_mark" /\ StageDone
  /\ stage' = "f_marked"
  /\ Flush(Young) /\ ClearCards(tenured \cup aging)
  /\ ClearRememberedSet
  /\ UNCHANGED <<rootVars, genVars, op, scanVars, pending>>

Sweep ==
  /\ stage = "f_marked" /\ op = "FULL"
  /\ stage' = "f_swept"
  /\ Flush(tenured \ marked)
  /\ UNCHANGED <<rootVars, cardVars, rsVars, genVars, op, scanVars, pending>>

\* collect_growing_data_heap: the new heap has a tenured space of its own, and
\* marking copies every live object out of the old one.
Grow ==
  /\ heap < Heaps
  /\ heap' = heap + 1
  /\ StartMark("GROWING_DATA_HEAP")

\* The rest of collect_full.
AfterSweep ==
  /\ stage = "f_swept"
  /\ \/ low_memory_p /\ Grow
     \/ /\ ~low_memory_p
        /\ \E fragmented \in high_fragmentation_p :
             IF fragmented
             THEN /\ op' = "COMPACT" /\ stage' = "f_compact"
                  /\ UNCHANGED scanVars
             ELSE EndGC
        /\ UNCHANGED heap
  /\ UNCHANGED <<heapVars, rootVars, cardVars, rsVars, semi, pending>>

\* Sliding compaction keeps the order of the live objects and leaves no gap
\* between them.
Slides(objs) ==
  {f \in [objs -> tenured] :
     /\ \A a, b \in objs : a < b => f[a] < f[b]
     /\ \A a \in objs, t \in tenured : t < f[a] => \E b \in objs : f[b] = t}

CompactHeap(f) ==
  LET Moved(p) == IF p \in marked THEN f[p] ELSE p
      From(a) == CHOOSE b \in marked : f[b] = a
      Taken == {f[b] : b \in marked}
  IN /\ id' = [a \in Addr |-> IF a \in Taken THEN id[From(a)] ELSE NoId]
     /\ slot' = [a \in Addr |-> IF a \in Taken
                                THEN [s \in Slots |-> Moved(slot[From(a)][s])]
                                ELSE [s \in Slots |-> NULL]]
     /\ fwd' = [a \in Addr |-> NULL]
     /\ root' = [r \in Roots |-> Moved(root[r])]
     /\ lit' = [c \in CodeBlocks |-> Moved(lit[c])]

\* collect_compact_impl, at the end of a full collection that found tenured space
\* too fragmented, of a compacting one, and of one that grows the heap.
Compact ==
  /\ \/ stage = "f_marked" /\ op \in {"COMPACT", "GROWING_DATA_HEAP"}
     \/ stage = "f_compact"
  /\ \E f \in Slides(marked) : CompactHeap(f)
  /\ IF stage = "f_marked" /\ op = "COMPACT"
     THEN stage' = "f_compacted" /\ UNCHANGED <<op, scanVars>>
     ELSE EndGC
  /\ UNCHANGED <<cardVars, rsVars, genVars, pending>>

\* The rest of collect_compact.  The free space is one block now.
AfterCompact ==
  /\ stage = "f_compacted"
  /\ IF low_memory_p THEN Grow
     ELSE EndGC /\ UNCHANGED heap
  /\ UNCHANGED <<heapVars, rootVars, cardVars, rsVars, semi, pending>>

\* The catch clause of gc and start_gc_again.  The first half of collect_aging runs
\* as a to_tenured collection, so that running out of room there is an error.
StartGcAgain ==
  /\ OutOfRoom
  /\ CASE op = "NURSERY" -> /\ op' = "TO_TENURED" /\ gray' = {}
                            /\ EnterCards("a_tcards", tenured, A)
       [] op = "AGING" -> /\ op' = "TO_TENURED" /\ gray' = {}
                          /\ EnterRoots("t_roots")
       [] OTHER -> /\ stage' = "critical_error"
                   /\ UNCHANGED <<op, todoVars, gray, decksTodo, cardsTodo>>
  /\ UNCHANGED <<heapVars, rootVars, cardVars, rsVars, genVars, marked, pending>>

--------------------------------------------------------------------------
(* The mutator.                                                             *)

Idle == stage = "mutator" /\ pending = "none"

\* gc, entered by a primitive or by an allocation that found no room.
StartGC(o) ==
  IF o = "NURSERY"
  THEN op' = o /\ gray' = {} /\ EnterRoots("n_roots") /\ UNCHANGED marked
  ELSE StartMark(o)

Fresh == Ids \ {id[a] : a \in {b \in Addr : fwd[b] = NULL}}

\* A new object at a, its slots filled with the value of root q, is put in root r.
NewObject(a, r, q) ==
  /\ id' = [id EXCEPT ![a] = MinOf(Fresh)]
  /\ slot' = [slot EXCEPT ![a] = [s \in Slots |-> root[q]]]
  /\ root' = [root EXCEPT ![r] = a]
  /\ UNCHANGED <<fwd, lit, rsVars, genVars, op, stage, scanVars>>

allot_object(r, q) ==
  /\ stage = "mutator" /\ pending \in {"none", "small"}
  /\ Fresh # {}
  /\ IF Free(Nursery) # {}
     THEN /\ NewObject(MinOf(Free(Nursery)), r, q)
          /\ pending' = "none" /\ UNCHANGED cardVars
     ELSE /\ StartGC("NURSERY") /\ pending' = "small"
          /\ UNCHANGED <<heapVars, rootVars, cardVars, rsVars, genVars>>

\* Variant: only the aging mark is set.
write_barrier_AgingOnly(a) ==
  IF a \in Nursery THEN UNCHANGED cardVars
  ELSE /\ cards' = [cards EXCEPT ![addr_to_card(a)] = @ \cup {A}]
       /\ decks' = [decks EXCEPT ![addr_to_deck(a)] = @ \cup {A}]

\* The write barrier marks the card and the deck of the slot.  The cards of the
\* nursery are marked too, and nothing ever looks at them.
write_barrier(a) ==
  IF a \in Nursery THEN UNCHANGED cardVars
  ELSE /\ cards' = [cards EXCEPT ![addr_to_card(a)] = card_mark_mask]
       /\ decks' = [decks EXCEPT ![addr_to_deck(a)] = card_mark_mask]

\* An object as large as the nursery goes to tenured space: compact if there is no
\* room for it besides the reserve for promotion, then grow.
allot_large_object(r, q) ==
  LET Allot == /\ \E n \in Blocks(tenured) : NewObject(n, r, q) /\ write_barrier(n)
               /\ pending' = "none"
      Collect(o, p) == /\ StartGC(o) /\ pending' = p
                       /\ UNCHANGED <<heapVars, rootVars, cardVars, rsVars, genVars>>
  IN /\ stage = "mutator" /\ Fresh # {}
     /\ \/ /\ pending = "none"
           /\ \E fits \in can_allot_p(1 + high_water_mark) :
                IF fits THEN Allot ELSE Collect("COMPACT", "compacted")
        \/ /\ pending = "compacted"
           /\ IF free_space >= 1 + high_water_mark THEN Allot
              ELSE /\ Grow /\ pending' = "grown"
                   /\ UNCHANGED <<heapVars, rootVars, cardVars, rsVars, semi>>
        \/ pending = "grown" /\ Allot

MoveRoot(r, q) ==
  /\ Idle /\ r # q
  /\ root' = [root EXCEPT ![r] = root[q]]
  /\ UNCHANGED <<heapVars, lit, cardVars, rsVars, genVars, op, stage, scanVars, pending>>

DropRoot(r) ==
  /\ Idle /\ root[r] # NULL
  /\ root' = [root EXCEPT ![r] = NULL]
  /\ UNCHANGED <<heapVars, lit, cardVars, rsVars, genVars, op, stage, scanVars, pending>>

ReadSlot(r, q, s) ==
  /\ Idle /\ root[q] # NULL
  /\ root' = [root EXCEPT ![r] = slot[root[q]][s]]
  /\ UNCHANGED <<heapVars, lit, cardVars, rsVars, genVars, op, stage, scanVars, pending>>

set_slot(q, s, r) ==
  /\ Idle /\ root[q] # NULL
  /\ slot' = [slot EXCEPT ![root[q]][s] = root[r]]
  /\ write_barrier(root[q])
  /\ UNCHANGED <<id, fwd, rootVars, rsVars, genVars, op, stage, scanVars, pending>>

\* Variant: the block is put in one remembered set only.
StoreLiteralNurseryOnly(c, r) ==
  /\ Idle
  /\ lit' = [lit EXCEPT ![c] = root[r]]
  /\ points_to_nursery' = points_to_nursery \cup {c}
  /\ UNCHANGED <<heapVars, root, cardVars, points_to_aging, genVars, op, stage, scanVars,
                 pending>>

\* Code is compiled or updated with a new literal: code_heap::write_barrier.
StoreLiteral(c, r) ==
  /\ Idle
  /\ lit' = [lit EXCEPT ![c] = root[r]]
  /\ points_to_nursery' = points_to_nursery \cup {c}
  /\ points_to_aging' = points_to_aging \cup {c}
  /\ UNCHANGED <<heapVars, root, cardVars, genVars, op, stage, scanVars, pending>>

\* minor-gc, (full) gc and compact-gc.
CollectPrimitive(o) ==
  /\ Idle /\ StartGC(o)
  /\ UNCHANGED <<heapVars, rootVars, cardVars, rsVars, genVars, pending>>

\* primitive_become: after a minor collection every reference to the object in
\* root q becomes one to the object in root r, and every card is marked.  Those of
\* the nursery and of the other semispace are cleared before anything reads them.
become(q, r) ==
  /\ stage = "mutator" /\ root[q] # NULL /\ root[r] # NULL /\ root[q] # root[r]
  /\ \/ /\ pending = "none"
        /\ StartGC("NURSERY") /\ pending' = "become"
        /\ UNCHANGED <<heapVars, rootVars, cardVars, rsVars, genVars>>
     \/ /\ pending = "become"
        /\ LET Became(p) == IF p = root[q] THEN root[r] ELSE p
           IN /\ root' = [x \in Roots |-> Became(root[x])]
              /\ lit' = [c \in CodeBlocks |-> Became(lit[c])]
              /\ slot' = [a \in Addr |-> [s \in Slots |-> Became(slot[a][s])]]
        /\ cards' = [c \in DOMAIN cards |->
                       IF c \in CardsOf(aging \cup tenured) THEN card_mark_mask ELSE cards[c]]
        /\ decks' = [d \in DOMAIN decks |->
                       IF d \in DecksOf(aging \cup tenured) THEN card_mark_mask ELSE decks[d]]
        /\ points_to_nursery' = CodeBlocks /\ points_to_aging' = CodeBlocks
        /\ pending' = "none"
        /\ UNCHANGED <<id, fwd, genVars, op, stage, scanVars>>

--------------------------------------------------------------------------

Init ==
  /\ id = [a \in Addr |-> NoId]
  /\ slot = [a \in Addr |-> [s \in Slots |-> NULL]]
  /\ fwd = [a \in Addr |-> NULL]
  /\ root = [r \in Roots |-> NULL] /\ lit = [c \in CodeBlocks |-> NULL]
  /\ cards = [c \in CardsOf(Addr \ Nursery) |-> {}]
  /\ decks = [d \in DecksOf(Addr \ Nursery) |-> {}]
  /\ points_to_nursery = {} /\ points_to_aging = {}
  /\ semi = 0 /\ heap = 1
  /\ op = "NONE" /\ stage = "mutator"
  /\ rootsTodo = {} /\ codeTodo = {} /\ slotsTodo = {}
  /\ gray = {} /\ decksTodo = {} /\ cardsTodo = {} /\ marked = {}
  /\ pending = "none"

CollectorStep ==
  \/ \E r \in Roots : VisitRoot(r)
  \/ \E c \in CodeBlocks : VisitLiteral(c)
  \/ \E a \in Addr, s \in Slots : VisitSlot(a, s)
  \/ \E d \in DecksOf(Addr) : OpenDeck(d)
  \/ \E c \in CardsOf(Addr) : OpenCard(c) \/ CloseCard(c)
  \/ \E a \in Addr : ScanGray(a)
  \/ NextStage \/ SwapSemispaces \/ StartGcAgain
  \/ FinishNursery \/ FinishAging \/ FinishToTenured
  \/ FinishMark \/ Sweep \/ AfterSweep \/ Compact \/ AfterCompact

MutatorStep ==
  \/ \E r, q \in Roots : \/ allot_object(r, q) \/ allot_large_object(r, q)
                         \/ MoveRoot(r, q) \/ become(q, r)
                         \/ \E s \in Slots : ReadSlot(r, q, s) \/ set_slot(q, s, r)
  \/ \E r \in Roots : DropRoot(r) \/ \E c \in CodeBlocks : StoreLiteral(c, r)
  \/ \E o \in {"NURSERY", "FULL", "COMPACT"} : CollectPrimitive(o)

Next == CollectorStep \/ MutatorStep

Spec == Init /\ [][Next]_vars /\ WF_vars(CollectorStep)

--------------------------------------------------------------------------
(* Properties.                                                              *)

Stages == VisitStages \cup {"mutator", "f_marked", "f_swept", "f_compact",
                            "f_compacted", "critical_error"}
GcOps == {"NONE", "NURSERY", "AGING", "TO_TENURED", "FULL", "COMPACT",
          "GROWING_DATA_HEAP"}
Pendings == {"none", "small", "compacted", "grown", "become"}

\* The variables of the collector keep their types, in particular no pointer
\* leaves the heap.
TypeOK ==
  /\ id \in [Addr -> Ids \cup {NoId}]
  /\ slot \in [Addr -> [Slots -> Value]]
  /\ fwd \in [Addr -> Value]
  /\ root \in [Roots -> Value] /\ lit \in [CodeBlocks -> Value]
  /\ cards \in [CardsOf(Addr \ Nursery) -> SUBSET card_mark_mask]
  /\ decks \in [DecksOf(Addr \ Nursery) -> SUBSET card_mark_mask]
  /\ points_to_nursery \subseteq CodeBlocks /\ points_to_aging \subseteq CodeBlocks
  /\ semi \in {0, 1} /\ heap \in 1..Heaps
  /\ op \in GcOps /\ stage \in Stages /\ pending \in Pendings
  /\ rootsTodo \subseteq Roots /\ codeTodo \subseteq CodeBlocks
  /\ slotsTodo \subseteq Addr \X Slots
  /\ gray \subseteq Addr /\ marked \subseteq Addr
  /\ decksTodo \subseteq DecksOf(Addr \ Nursery)
  /\ cardsTodo \subseteq CardsOf(Addr \ Nursery)

\* "if card_points_to_nursery is set, card_points_to_aging must also be set", for
\* decks too: the scan for one bit finds every card that the other one marks.
CardsNested == /\ \A c \in DOMAIN cards : N \in cards[c] => A \in cards[c]
               /\ \A d \in DOMAIN decks : N \in decks[d] => A \in decks[d]

Marked(a, bit) == bit \in cards[addr_to_card(a)] /\ bit \in decks[addr_to_deck(a)]

\* Whenever the program runs, a slot of an aging or tenured object, live or dead,
\* that refers to a younger generation lies on a card and a deck marked for that
\* generation: check_data_heap.
WriteBarrierHolds ==
  stage = "mutator" =>
    /\ \A a \in Allotted(aging \cup tenured), s \in Slots :
         slot[a][s] \in Nursery => Marked(a, N)
    /\ \A a \in Allotted(tenured), s \in Slots :
         slot[a][s] \in aging => Marked(a, A)

\* "First card should start with an object": a card of aging space is visited only
\* when there are objects in aging space.
FirstCardStartsWithObject ==
  stage = "n_acards" /\ cardsTodo # {} => Allotted(aging) # {}

\* The same for the literals of code blocks: one that refers to the nursery or to
\* aging space has its block in the remembered set (code_heap::write_barrier).
RememberedSetHolds ==
  stage = "mutator" =>
    \A c \in CodeBlocks : /\ lit[c] \in Nursery => c \in points_to_nursery
                          /\ lit[c] \in aging => c \in points_to_aging

\* Whenever the program runs, every root, every literal and every slot of every
\* object in the heap, dead ones included since a marked card has them visited,
\* refers to an object that is there, in a space in use, and not to a
\* forwarding pointer.
HeapClosed ==
  stage = "mutator" =>
    LET Present(p) == /\ p \in Nursery \cup aging \cup tenured
                      /\ id[p] # NoId /\ fwd[p] = NULL
        Sound(p) == p = NULL \/ Present(p)
    IN /\ \A r \in Roots : Sound(root[r])
       /\ \A c \in CodeBlocks : Sound(lit[c])
       /\ \A a \in Allotted(Addr), s \in Slots : Present(a) /\ Sound(slot[a][s])

\* "Nothing else should fail mid-collection due to insufficient space in the target
\* generation": start_gc_again never meets an op it cannot widen.
NothingElseFails == stage # "critical_error"

\* Three hops always reach the object: the loop over forwarding pointers in
\* fixup_data ends, at an object that was not forwarded.
ForwardingEnds ==
  \A a \in Addr : id[a] # NoId => fwd[Follow(a)] = NULL

\* A collection ends and the program runs again.
CollectionEnds == (stage # "mutator") ~> (stage = "mutator")

=============================================================================
