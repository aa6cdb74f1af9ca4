---------------------------- MODULE TenuredSpace ----------------------------
(***************************************************************************)
(* tenured_space (vm/tenured_space.hpp): the free-list allocator together   *)
(* with its object_start_map, which remembers for every card the first      *)
(* object that starts on it, and the walk of visit_cards that relies on it  *)
(* to find the objects on a marked card.                                    *)
(***************************************************************************)
EXTENDS Integers, FiniteSets, FiniteSetsExt

CONSTANTS Size, FreeListCount, PageSize,  \* see FreeList
          CardSize,                       \* units per card
          ImageSizes                      \* sizes of the object in the image

VARIABLES fl, allotted,  \* see FreeList
          starts         \* object_start_offsets, in units

F == INSTANCE FreeList

vars == <<fl, allotted, starts>>

Cards == 0..(Size \div CardSize) - 1
CardStart(c) == c * CardSize
addr_to_card(a) == a \div CardSize

\* More than any offset, as 0xff is in the code.
card_starts_inside_object == CardSize

clear_object_start_offsets == [c \in Cards |-> card_starts_inside_object]

\* Variant: the last object allotted is remembered, not the first of the card.
RecordedLast(st, bs) ==
  [c \in Cards |->
     LET here == {F!Addr(b) % CardSize : b \in {d \in bs : addr_to_card(F!Addr(d)) = c}}
     IN IF here = {} THEN st[c] ELSE Max(here)]
\* record_object_start_offset for each of the blocks bs.
Recorded(st, bs) ==
  [c \in Cards |->
     Min({st[c]} \cup {F!Addr(b) % CardSize : b \in {d \in bs : addr_to_card(F!Addr(d)) = c}})]

\* Variant: the mask is not shifted, an object that ends on the card is taken for
\* one that starts there.
SweptFromZero(c, live) ==
  LET mask == {i \in 0..CardSize - 1 : F!Covered(live, CardStart(c) + i)}
  IN IF starts[c] = card_starts_inside_object THEN starts[c]
     ELSE Min(mask \cup {card_starts_inside_object})
\* The start moves on to the next marked unit, if there is one on the card.
update_card_for_sweep(c, live) ==
  LET mask == {i \in 0..CardSize - 1 : F!Covered(live, CardStart(c) + i)}
      rest == {i \in mask : i >= starts[c]}
  IN IF starts[c] = card_starts_inside_object THEN starts[c]
     ELSE Min(rest \cup {card_starts_inside_object})

--------------------------------------------------------------------------

\* A loaded image: load_data_heap, then the starts that fixup_heaps records.
Init == \E n \in ImageSizes :
          /\ fl = F!initial_free_list(n) /\ allotted = {<<0, n>>}
          /\ starts = Recorded(clear_object_start_offsets, allotted)

Allot(n) == \E f \in F!allot(fl, n) :
              /\ fl' = f.list
              /\ allotted' = allotted \cup {f.block}
              /\ starts' = Recorded(starts, {f.block})

Sweep(live) == /\ F!Sweep(live)
               /\ starts' = [c \in Cards |-> update_card_for_sweep(c, live)]

Compact(live) == /\ F!Compact(live)
                 /\ starts' = Recorded(clear_object_start_offsets, allotted')

Next == \/ \E n \in 1..Size : Allot(n)
        \/ \E live \in SUBSET allotted : Sweep(live) \/ Compact(live)

Spec == Init /\ [][Next]_vars

--------------------------------------------------------------------------
(* visit_cards, for a set of marked cards.                                  *)

NoObject == -1
OnCard(b, c) == F!Addr(b) < CardStart(c + 1) /\ F!End(b) > CardStart(c)
ObjectAt(a) == CHOOSE b \in allotted : F!Addr(b) = a
FirstAt(a) == LET later == {F!Addr(b) : b \in allotted} \cap a..Size
              IN IF later = {} THEN NoObject ELSE Min(later)

\* Variant: the search begins at the card itself.
StartsUpTo(c) == {d \in Cards : d <= c /\ starts[d] # card_starts_inside_object}
\* The cards before c on which an object starts.
StartsBefore(c) == {d \in Cards : d < c /\ starts[d] # card_starts_inside_object}
find_object_containing_card(c) ==
  IF c = 0 THEN 0
  ELSE LET d == Max(StartsBefore(c)) IN CardStart(d) + starts[d]

\* The object that the walk of card c begins at: start, the one at which the walk of
\* an earlier card stopped, unless it ends before the card.
WalkFrom(c, start) ==
  IF start = NoObject THEN find_object_containing_card(c)
  ELSE IF F!End(ObjectAt(start)) < CardStart(c) THEN find_object_containing_card(c)
  ELSE start

\* visit_card: the objects visited, and the one to go on from.
visit_card(c, start) ==
  LET from == WalkFrom(c, start)
      visited == {b \in allotted : from <= F!Addr(b) /\ F!Addr(b) < CardStart(c + 1)}
      reaching == {b \in visited : F!End(b) >= CardStart(c + 1)}
  IN [visited |-> visited,
      start |-> IF reaching = {} THEN FirstAt(Max({from, CardStart(c + 1)}))
                ELSE F!Addr(CHOOSE b \in reaching : TRUE)]

\* What has been visited, as pairs of a card and an object, when the scan is past
\* card c; it ends where visit_card finds no further object.
visit_cards(marked) ==
  LET scan[c \in Cards \cup {-1}] ==
        IF c = -1 THEN [visited |-> {}, start |-> NoObject, end |-> FALSE]
        ELSE LET before == scan[c - 1]
                 v == visit_card(c, before.start)
             IN IF before.end \/ c \notin marked THEN before
                ELSE [visited |-> before.visited \cup ({c} \X v.visited),
                      start |-> v.start,
                      end |-> v.start = NoObject]
  IN scan[Max(Cards)].visited

--------------------------------------------------------------------------
(* Properties.                                                              *)

StartsWithObject == \E b \in allotted : F!Addr(b) = 0

\* The map knows the first object that starts on every card, after allocation from
\* cut pages, which goes downwards, after a sweep and after a compaction.
StartsExact ==
  \A c \in Cards :
    LET first == FirstAt(CardStart(c))
    IN starts[c] = IF first \in CardStart(c)..CardStart(c + 1) - 1 THEN first - CardStart(c)
                   ELSE card_starts_inside_object

\* Whichever cards are marked, visit_cards visits every object that lies on one of
\* them, although it searches backwards from a card, continues walks from card to card
\* and gives up at the end of the generation.
ScanMeetsObjects ==
  StartsWithObject =>
    \A marked \in SUBSET Cards :
      {cb \in marked \X allotted : OnCard(cb[2], cb[1])} \subseteq visit_cards(marked)

\* "First card should start with an object": the search for the objects of a card
\* that has any does not run off the beginning of the map.
SearchStaysInMap ==
  \A c \in Cards : (c > 0 /\ \E b \in allotted : OnCard(b, c)) => StartsBefore(c) # {}
=============================================================================
