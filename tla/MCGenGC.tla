------------------------------ MODULE MCGenGC -------------------------------
(* GenGC with no bound on the number of steps.  The nursery has room for two  *)
(* objects and aging space for one: with both live, a nursery collection and  *)
(* the aging collection after it move one and run out of room for the other.  *)
(* Promoted objects may lie anywhere in tenured space, on two cards of one    *)
(* deck before the heap has grown and on three cards of two decks after.      *)
EXTENDS GenGCBarrier, TLC

CONSTANTS r1, r2

MCNursery == 48..49
MCAging == [i \in {0, 1} |-> IF i = 0 THEN {32} ELSE {40}]
MCTenured == [h \in 1..2 |-> IF h = 1 THEN 0..3 ELSE 16..20]
MCIds == 1..2
MCSymmetry == Permutations({r1, r2})

\* Of the primitives that collect only minor-gc is called: full and compacting
\* collections begin where tenured space is fragmented or a large object does not
\* fit, which can be at any time.
MCMutatorStep ==
  \/ \E r, q \in Roots : \/ allot_object(r, q) \/ allot_large_object(r, q)
                         \/ MoveRoot(r, q) \/ become(q, r)
                         \/ \E s \in Slots : ReadSlot(r, q, s) \/ set_slot(q, s, r)
  \/ \E r \in Roots : DropRoot(r)
  \/ CollectPrimitive("NURSERY")

MCNext == CollectorStep \/ MCMutatorStep
MCSpec == Init /\ [][MCNext]_vars
=============================================================================
