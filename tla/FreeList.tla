------------------------------ MODULE FreeList ------------------------------
(***************************************************************************)
(* free_list_allocator (vm/free_list.hpp), the allocator of tenured space,  *)
(* of the code heap and of callback stubs.  Addresses and sizes are counted *)
(* in units of data_alignment.  A block is a pair <<address, size>>.        *)
(*                                                                          *)
(* The free lists are one set of blocks: the bucket of a small block is its *)
(* size, and large_blocks is ordered by size.                               *)
(***************************************************************************)
EXTENDS Integers, FiniteSets, FiniteSetsExt

CONSTANTS Size,           \* of the region, which starts at 0
          FreeListCount,  \* sizes below this one have a bucket of their own
          PageSize        \* allocation_page_size

ASSUME FreeListAssumption ==
  /\ Size \in Nat \ {0}
  /\ FreeListCount \in Nat \ {0}
  /\ PageSize \in Nat /\ PageSize >= FreeListCount

VARIABLES fl,        \* the free lists: the blocks in them and the two counters
          allotted   \* the blocks in use

vars == <<fl, allotted>>

Blocks == (0..Size - 1) \X (1..Size)
Addr(b) == b[1]
Length(b) == b[2]
End(b) == b[1] + b[2]

TotalLength(bs) == MapThenSumSet(Length, bs)

largest_free_block(l) == Max({Length(b) : b \in l.blocks} \cup {0})
can_allot_p(l, n) == largest_free_block(l) >= Max({n, PageSize})

\* add_to_free_list for each of the blocks bs, and taking b out again.
Added(l, bs) == [blocks |-> l.blocks \cup bs,
                 count |-> l.count + Cardinality(bs),
                 space |-> l.space + TotalLength(bs)]
\* Variant: the space taken is not subtracted.
RemovedUncounted(l, b) == [blocks |-> l.blocks \ {b}, count |-> l.count - 1, space |-> l.space]
Removed(l, b) == [blocks |-> l.blocks \ {b},
                  count |-> l.count - 1,
                  space |-> l.space - Length(b)]
Empty == [blocks |-> {}, count |-> 0, space |-> 0]

\* Variants: an empty rest is kept; the rest starts one unit early.
RestAlways(b, n) == {<<Addr(b) + n, Length(b) - n>>}
RestOverlaps(b, n) ==
  IF Length(b) = n THEN {} ELSE {<<Addr(b) + n - 1, Length(b) - n>>}
\* split_free_block: what is left of b when n units of it are used.
Rest(b, n) == IF Length(b) = n THEN {} ELSE {<<Addr(b) + n, Length(b) - n>>}

Small(n) == n < FreeListCount
Bucket(l, n) == {b \in l.blocks : Length(b) = n}

\* lower_bound in large_blocks: the smallest block that is large enough.
LargeEnough(l, n) == {b \in l.blocks : ~Small(Length(b)) /\ Length(b) >= n}
BestFit(l, n) == {b \in LargeEnough(l, n) :
                    \A c \in LargeEnough(l, n) : Length(b) <= Length(c)}

\* The page that is cut up when the bucket of n is empty: the smallest multiple of
\* n that is at least PageSize.
Pieces(n) == (PageSize + n - 1) \div n
Page(n) == Pieces(n) * n
\* Variant: the first piece of the page is lost.
CarvedFromSecond(b, n) == {<<Addr(b) + k * n, n>> : k \in 1..Pieces(n) - 1}
Carved(b, n) == {<<Addr(b) + k * n, n>> : k \in 0..Pieces(n) - 1}
LastPiece(b, n) == <<Addr(b) + (Pieces(n) - 1) * n, n>>

\* find_free_block: the blocks it may return, each with the free lists it leaves.
\* No block is the NULL that is returned when there is no room.
Found(b, l) == [block |-> b, list |-> l]
find_free_block(l, n) ==
  IF ~Small(n) THEN {Found(b, Removed(l, b)) : b \in BestFit(l, n)}
  ELSE IF Bucket(l, n) # {} THEN {Found(b, Removed(l, b)) : b \in Bucket(l, n)}
  ELSE LET Cut(b) == Added(Removed(l, b), Rest(b, Page(n)) \cup Carved(b, n))
       IN {Found(LastPiece(b, n), Removed(Cut(b), LastPiece(b, n))) :
             b \in BestFit(l, Page(n))}

allot(l, n) == {Found(<<Addr(f.block), n>>, Added(f.list, Rest(f.block, n))) :
                  f \in find_free_block(l, n)}

\* sweep: the maximal runs of unmarked units become the free blocks.  An address
\* is marked when a block of live covers it.
Covered(bs, a) == \E b \in bs : Addr(b) <= a /\ a < End(b)
Lines(bs) == {a \in 0..Size - 1 : Covered(bs, a)}
Gaps(live) ==
  {g \in Blocks : /\ End(g) <= Size
                  /\ \A a \in Addr(g)..End(g) - 1 : ~Covered(live, a)
                  /\ Addr(g) = 0 \/ Covered(live, Addr(g) - 1)
                  /\ End(g) = Size \/ Covered(live, End(g))}
\* Variant: the dead blocks are freed one by one.
SweptUnmerged(live) == Added(fl, allotted \ live)
Swept(live) == Added(Empty, Gaps(live))

\* initial_free_list: one block after the first occupied units.
initial_free_list(occupied) ==
  IF occupied = Size THEN Empty ELSE Added(Empty, {<<occupied, Size - occupied>>})

--------------------------------------------------------------------------
(* The allocator as a state machine.                                        *)

Init == fl = initial_free_list(0) /\ allotted = {}

Allot(n) == \E f \in allot(fl, n) : /\ fl' = f.list
                                    /\ allotted' = allotted \cup {f.block}

\* free does not merge the block with its neighbours.
Free(b) == /\ b \in allotted
           /\ fl' = Added(fl, {b})
           /\ allotted' = allotted \ {b}

\* sweep, when the blocks of live are the ones that marking has reached.
Sweep(live) == /\ live \subseteq allotted
               /\ fl' = Swept(live)
               /\ allotted' = live

\* compact: a live block moves to the address that compute_forwarding and
\* forward_block give it, the number of marked units before it.
Forward(live, b) == Cardinality({a \in Lines(live) : a < Addr(b)})
Compact(live) == /\ live \subseteq allotted
                 /\ fl' = initial_free_list(Cardinality(Lines(live)))
                 /\ allotted' = {<<Forward(live, b), Length(b)>> : b \in live}

Next == \/ \E n \in 1..Size : Allot(n)
        \/ \E b \in allotted : Free(b)
        \/ \E live \in SUBSET allotted : Sweep(live) \/ Compact(live)

Spec == Init /\ [][Next]_vars

--------------------------------------------------------------------------
(* Properties.                                                              *)

\* Every block has a size and starts in the region, and the counters of add_to_free_list
\* are not negative: in particular split_free_block leaves no empty block.
BlocksTypeOK == /\ fl.blocks \subseteq Blocks /\ fl.count \in Nat /\ fl.space \in Nat
                /\ allotted \subseteq Blocks

Disjoint(b, c) == End(b) <= Addr(c) \/ End(c) <= Addr(b)

\* No two blocks overlap, free or in use, and none leaves the region: what allot
\* returns is never memory that something else is using.
NoOverlap ==
  /\ \A b \in fl.blocks \cup allotted : End(b) <= Size
  /\ \A b, c \in fl.blocks \cup allotted : b # c => Disjoint(b, c)
  /\ fl.blocks \cap allotted = {}

\* The blocks cover the whole region, so that walking it from header to header
\* (iterate, next_allocated_object_after) meets every object: no unit leaks when a
\* block is split or a page is cut up.
NoLeak == \A a \in 0..Size - 1 : Covered(fl.blocks \cup allotted, a)

\* free_block_count and free_space agree with the blocks in the lists, through
\* splitting, page cutting, sweeping and compaction.
CountersAgree == /\ fl.count = Cardinality(fl.blocks)
                 /\ fl.space = TotalLength(fl.blocks)

\* allot_large_object allots without looking at the result once can_allot_p has
\* answered yes, and a collection that leaves tenured space fragmented is followed by
\* a wider one.  Where allot finds no large block of n units, can_allot_p promised
\* none, and after a sweep no n neighbouring units are unused, whatever splits, cut
\* pages and separate frees came before.
RoomFound ==
  [][\A n \in FreeListCount..Size :
       \/ allot(fl', n) # {}
       \/ /\ ~can_allot_p(fl', n)
          /\ \/ \A a \in 0..Size - n : \E u \in a..a + n - 1 : Covered(allotted', u)
             \/ ~Sweep(allotted')]_vars
=============================================================================
