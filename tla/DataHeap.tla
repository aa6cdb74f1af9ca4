------------------------------ MODULE DataHeap ------------------------------
(***************************************************************************)
(* The reserve that tenured space keeps for promotion (high_water_mark),    *)
(* with objects of different sizes and the free lists of FreeList: the      *)
(* allocation of large objects, promotion in a collection, and what a       *)
(* collection does when the reserve has become too small.                   *)
(*                                                                          *)
(* GenGC has the pointers and one size; this module has the sizes and no    *)
(* pointers.  What is live is any set of objects.  Where the heap would     *)
(* grow, the behaviour ends: one heap is the bound.                         *)
(***************************************************************************)
EXTENDS Integers, FiniteSets, FiniteSetsExt

CONSTANTS Size, FreeListCount, PageSize,  \* see FreeList
          NurserySize, AgingSize,
          ImageSizes,    \* of the object in the image
          ObjectSizes,   \* of the objects that are promoted
          LargeSizes     \* of those that are allotted in tenured space

ASSUME DataHeapAssumption ==
  /\ NurserySize \in Nat \ {0} /\ AgingSize \in Nat \ {0}
  /\ \A n \in ImageSizes : n \in Nat \ {0} /\ Size - n > NurserySize + AgingSize
  /\ ObjectSizes \subseteq 1..NurserySize - 1
  /\ LargeSizes \subseteq NurserySize..Size

VARIABLES fl, allotted,  \* tenured space, see FreeList
          stage,         \* "mutator", or how far the collection has got
          left,          \* young objects that this collection may still promote, in units
          promoted,      \* what has been promoted, and so marked, while marking
          want           \* size of the large object that waits for it, or 0

F == INSTANCE FreeList

vars == <<fl, allotted, stage, left, promoted, want>>

high_water_mark == NurserySize + AgingSize
low_memory_p == fl.space <= high_water_mark
\* Variant: total instead of contiguous free space.
FragmentationByTotal == low_memory_p
high_fragmentation_p == F!largest_free_block(fl) <= high_water_mark

\* A loaded image (load_data_heap).
Init == /\ \E n \in ImageSizes : fl = F!initial_free_list(n) /\ allotted = {<<0, n>>}
        /\ stage = "mutator" /\ left = 0 /\ promoted = {} /\ want = 0

\* gc begins; the young generations may be full, and all of them live.
StartGC(s) == /\ stage' = s /\ left' = high_water_mark /\ promoted' = {}
              /\ UNCHANGED <<fl, allotted>>
EndGC == stage' = "mutator" /\ left' = 0 /\ promoted' = {}

\* primitive_minor_gc, primitive_full_gc and primitive_compact_gc.
Collect(s) == stage = "mutator" /\ want = 0 /\ StartGC(s) /\ UNCHANGED want

\* collect_nursery copies to aging space; when that is full, collect_aging follows.
collect_nursery ==
  /\ stage = "nursery"
  /\ EndGC \/ (stage' = "from_tenured" /\ UNCHANGED <<left, promoted>>)
  /\ UNCHANGED <<fl, allotted, want>>

\* fixup_data copies an object of n units to tenured space.  In each of these stages
\* start_gc_again has nothing left to try.
Promote(n) ==
  /\ stage \in {"from_tenured", "to_tenured", "mark", "mark_compact"} /\ n <= left
  /\ IF F!allot(fl, n) = {}
     THEN stage' = "critical_error" /\ UNCHANGED <<fl, allotted, left, promoted>>
     ELSE \E f \in F!allot(fl, n) :
            /\ fl' = f.list /\ allotted' = allotted \cup {f.block}
            /\ left' = left - n
            /\ promoted' = IF stage \in {"mark", "mark_compact"} THEN promoted \cup {f.block}
                           ELSE {}
            /\ UNCHANGED stage
  /\ UNCHANGED want

\* The second half of collect_aging, to the semispace: when that is full,
\* collect_to_tenured follows, with what is left.
CopyToAging ==
  /\ stage = "from_tenured"
  /\ \/ stage' = "to_tenured" /\ UNCHANGED <<left, promoted>>
     \/ IF high_fragmentation_p
        THEN stage' = "mark" /\ left' = Min({left, AgingSize}) /\ UNCHANGED promoted
        ELSE EndGC
  /\ UNCHANGED <<fl, allotted, want>>

EndToTenured ==
  /\ stage = "to_tenured"
  /\ IF high_fragmentation_p THEN stage' = "mark" /\ left' = 0 /\ UNCHANGED promoted
     ELSE EndGC
  /\ UNCHANGED <<fl, allotted, want>>

Grow == stage' = "grown" /\ left' = 0 /\ promoted' = {}

\* collect_full after marking: collect_sweep_impl, and the compaction of what the
\* sweep leaves.
FinishFull(live) ==
  /\ stage = "mark"
  /\ promoted \subseteq live
  /\ F!Sweep(live)
  /\ IF low_memory_p' THEN Grow
     ELSE IF high_fragmentation_p' THEN stage' = "compact" /\ left' = 0 /\ promoted' = {}
     ELSE EndGC
  /\ UNCHANGED want

CompactSwept == stage = "compact" /\ F!Compact(allotted) /\ EndGC /\ UNCHANGED want

\* collect_compact after marking.
FinishCompact(live) ==
  /\ stage = "mark_compact"
  /\ promoted \subseteq live
  /\ F!Compact(live)
  /\ IF high_fragmentation_p' THEN Grow ELSE EndGC
  /\ UNCHANGED want

required_free(n) == n + high_water_mark

allot_large_object(n) ==
  LET Allot == \E f \in F!allot(fl, n) :
                 /\ fl' = f.list /\ allotted' = allotted \cup {f.block}
                 /\ want' = 0 /\ UNCHANGED <<stage, left, promoted>>
  IN /\ stage = "mutator" /\ want \in {0, n}
     /\ IF F!can_allot_p(fl, required_free(n)) THEN Allot
        ELSE IF want = 0 THEN StartGC("mark_compact") /\ want' = n
        ELSE Grow /\ UNCHANGED <<fl, allotted, want>>

Next == \/ \E s \in {"nursery", "mark", "mark_compact"} : Collect(s)
        \/ \E n \in ObjectSizes : Promote(n)
        \/ collect_nursery \/ CopyToAging \/ EndToTenured \/ CompactSwept
        \/ \E live \in SUBSET allotted : FinishFull(live) \/ FinishCompact(live)
        \/ \E n \in LargeSizes : allot_large_object(n)

Spec == Init /\ [][Next]_vars

--------------------------------------------------------------------------
(* Properties.                                                              *)

\* "Nothing else should fail mid-collection due to insufficient space in the target
\* generation": whatever the young generations hold can be promoted.
PromotionFits == stage # "critical_error"

\* "tenured space must have enough contiguous free space to fit the entire contents
\* of the aging space and nursery", when the program runs and, for what is still to
\* be promoted, during a collection.
ReserveContiguous ==
  F!largest_free_block(fl) >= IF stage = "mutator" THEN high_water_mark ELSE left

\* The assertion with which gc begins and ends: a free block larger than the young
\* generations.
NotFragmented == stage = "mutator" => ~high_fragmentation_p
=============================================================================
