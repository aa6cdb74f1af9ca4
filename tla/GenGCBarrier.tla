---------------------------- MODULE GenGCBarrier ----------------------------
(***************************************************************************)
(* Why the write barrier is enough: the inductive invariant behind          *)
(* WriteBarrierHolds.  At every moment of a collection, a slot that still   *)
(* refers to a younger generation is one that the collection will come to:  *)
(* its card is marked and is going to be scanned, or its object is gray, or *)
(* the slot is queued.                                                      *)
(***************************************************************************)
EXTENDS GenGC

Clean(v) == v \in tenured \cup {NULL}
Queued(a, s) == <<a, s>> \in slotsTodo

\* The card of a is still to be visited by the scan for bit.
OnDeck(a, bit) == /\ bit \in cards[addr_to_card(a)]
                  /\ addr_to_card(a) \in cardsTodo \/ addr_to_deck(a) \in decksTodo

Promoting == {"a_code", "a_mark", "t_roots", "t_tcards", "t_code", "t_mark"}

\* A slot of an object in tenured space.
TenuredSlot(a, s) ==
  /\ stage \in NurseryStages \cup {"mutator"} =>
       Clean(slot[a][s]) \/ Marked(a, A)
  /\ stage \in {"mutator", "n_roots"} =>
       slot[a][s] \notin Nursery \/ Marked(a, N)
  /\ stage = "n_tcards" =>
       slot[a][s] \notin Nursery \/ Queued(a, s) \/ OnDeck(a, N)
  /\ stage \in {"n_acards", "n_code", "n_trace"} => slot[a][s] \notin Nursery
  /\ stage = "a_tcards" =>
       Clean(slot[a][s]) \/ a \in gray \/ Queued(a, s) \/ OnDeck(a, A)
  /\ stage \in Promoting => Clean(slot[a][s]) \/ a \in gray \/ Queued(a, s)
  /\ stage \in ToAgingStages \cup {"f_compacted"} => Clean(slot[a][s])
  /\ stage \in MarkStages /\ a \in marked =>
       Clean(slot[a][s]) \/ a \in gray \/ Queued(a, s)
  /\ stage = "f_marked" /\ a \in marked => Clean(slot[a][s])
  /\ stage \in {"f_swept", "f_compact"} => a \in marked /\ Clean(slot[a][s])

\* A slot of an object in aging space.
AgingSlot(a, s) ==
  /\ stage = "mutator" => slot[a][s] \notin Nursery \/ Marked(a, N)
  /\ stage \in {"n_roots", "n_tcards"} =>
       slot[a][s] \notin Nursery \/ a \in gray \/ Marked(a, N)
  /\ stage = "n_acards" =>
       slot[a][s] \notin Nursery \/ a \in gray \/ Queued(a, s) \/ OnDeck(a, N)
  /\ stage \in {"n_code", "n_trace"} \cup ToAgingStages =>
       slot[a][s] \notin Nursery \/ a \in gray \/ Queued(a, s)
  /\ stage \notin {"f_marked", "f_swept", "f_compact", "f_compacted"}

\* A scan visits decks and cards of one generation, in the order of their addresses.
ScanOrder ==
  stage \in CardStages =>
    /\ decksTodo \subseteq DecksOf(CardGen) /\ cardsTodo \subseteq CardsOf(CardGen)
    /\ \A d \in decksTodo, c \in cardsTodo : c \div CardsPerDeck < d

\* A tenured space that is not in use yet is empty, and only tenured objects have
\* mark bits.
SpaceInv ==
  /\ \A h \in 1..Heaps : h > heap => Allotted(Tenured[h]) = {}
  /\ stage \in MarkStages \cup {"f_marked", "f_swept", "f_compact"} => marked \subseteq tenured

\* The op that start_gc_again widens belongs to the running stage.
OpInv == /\ op = "NURSERY" => stage \in NurseryStages
         /\ op = "AGING" => stage \in ToAgingStages

\* Every slot that refers to a younger generation will be found by the collection
\* that is running, or by the next one.
NoSlotForgotten ==
  /\ \A a \in Allotted(tenured), s \in Slots : TenuredSlot(a, s)
  /\ \A a \in Allotted(aging), s \in Slots : AgingSlot(a, s)
  /\ ScanOrder /\ SpaceInv /\ OpInv
=============================================================================
