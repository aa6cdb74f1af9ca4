# A TLA+ model of the Factor VM

This directory holds a formal model of the Factor virtual machine (`src/vm`),
with the configurations that model-check it with TLC and proofs that TLAPS
checks. It starts at the part on which everything else stands, memory: the
generational garbage collector, the write barrier, and the free-list allocator
of tenured space and of the code heap.

Contents: [inventory](#the-system), [modules](#the-modules),
[runs](#what-is-checked), [proofs](#what-is-proved),
[limits](#what-the-model-leaves-out), [plan](#plan).

## The system

The VM is a C++ program of about 15,000 lines that runs compiled Factor code.
All Factor threads run on one operating-system thread and give up control
themselves. The VM is entered by primitives, by inline collection checks, by
callbacks from C and at safepoints.

| Part | State | Operations | What is hard about it | What should hold |
|---|---|---|---|---|
| Collector (`gc.cpp`, `*_collector.cpp`, `compaction.cpp`, `slot_visitor.hpp`) | current op, mark stack, forwarding pointers, mark bits | minor, full and compacting collection; escalation when a generation is full; growth | a collection can fail half way and a wider one starts from there | the program cannot tell that a collection happened; collections end; nothing is left that refers to a moved object |
| Generations (`data_heap.*`, `*_space.hpp`, `bump_allocator.hpp`, `allot.hpp`) | nursery, two aging semispaces, tenured space, reserve for promotion | allocation of small and large objects, flush, growth | the reserve has to survive promotion, large objects and fragmentation | promotion never runs out of room |
| Write barrier (`write_barrier.hpp`, `vm.hpp`) | two mark bits per card and per deck | set-slot, large-object barrier, mark-all after `become` | marks are cleared generation by generation, by scans that may stop early | every old-to-young pointer is on a marked card |
| Remembered sets (`code_heap.*`) | two sets of code blocks | store of a literal, clearing | cleared at different times by different collections | every literal that refers to a young object is remembered |
| Free-list allocator (`free_list.hpp`, `mark_bits.hpp`) | buckets of small blocks, large blocks, two counters | allot, free, sweep, compact | exact fits, page carving, counters kept apart from the lists | blocks partition the region; the counters agree; promises are kept |
| Object start map (`object_start_map.*`) | first object of every card | record, sweep, compact, search | bit shifts after a sweep, search backwards | the search returns an object boundary at or before the card |
| Code heap, inline caches, JIT (`code_heap.*`, `code_blocks.*`, `inline_cache.cpp`, `jit.cpp`, `quotations.cpp`) | code blocks, call sites, code roots | compile, relocate, patch a call site, free a cache | compiling can collect the caller that is then patched | a call site refers to live code |
| Contexts and callbacks (`contexts.*`, `callbacks.*`, `callstack.*`) | active and spare contexts, callback ids, stubs | enter and leave a callback, switch context | nesting, reuse of contexts, stubs freed by the program | no context is used by two owners |
| Safepoints and signals (`safepoints.cpp`, `sampling_profiler.*`, `os-*.cpp`) | guard page, flags, sample counters | handlers of the operating system, the safepoint in the VM thread | handlers interrupt the VM thread at any instruction | no request is lost, samples are counted once |
| Image (`image.*`) | saved heaps | save after a compaction, load and relocate | relocation of every pointer by an offset | a loaded image is the saved object graph |
| Console (`io.cpp`, `os-unix.cpp`) | stdin thread, two pipes | read, interrupt | two threads and a pipe | no input is lost or read twice |
| Numbers (`math.cpp`, `bignum.cpp`) | none | arithmetic | overflow at the fixnum boundary, carries | equals integer arithmetic |
| Threads and concurrency (`basis/threads`, `basis/concurrency`) | run queue, sleep queue, waiting threads, owners | suspend, resume, locks, semaphores, mailboxes, timeouts | a thread that was resumed runs later, a timeout can come first | mutual exclusion, no lost wake-up |

The generations meet the write barrier and the remembered sets in every
collection, which is why one module, `GenGC`, has them all. The free list
answers two questions of the collector (is there a run of free memory as large
as the reserve; is there room for this object), which `GenGC` leaves open.
`DataHeap` puts the free list and the reserve together, and `TenuredSpace` the free
list and the object start map.

## The modules

| Module | Models |
|---|---|
| `GenGC` | the collector, the generations, the write barrier, the remembered sets, and the operations of the program that touch the heap |
| `GenGCBarrier` | `GenGC` with the inductive invariant of the write barrier |
| `ObjectMemory`, `Reachability` | what a program may assume: an object graph with no collector |
| `GenGCMemory` | the refinement mapping from `GenGC` to `ObjectMemory` |
| `FreeList` | `free_list_allocator` |
| `TenuredSpace` | `tenured_space`: `FreeList` with the object start map, and the walk of `visit_cards` |
| `DataHeap` | `FreeList` with the reserve for promotion, for objects of several sizes |
| `MCGenGC`, `MCGenGCCards`, `MCGenGCRoom`, `MCGenGCMemory` | small instances for TLC |
| `GenGC_proofs`, `GenGCBarrier_proofs`, `FreeList_proofs`, `NatLemmas` | proofs |

### GenGC

The heap is a set of cells; every object occupies one. `id` is what an object
is, `slot` its slots, `fwd` the forwarding pointer in its header. A generation
is a set of addresses, and tenured space has one set for every growth of the
heap (`Heaps` bounds how many).

`stage` is the program counter of `gc()`. The letters name the function:

| Stages | Code |
|---|---|
| `n_roots`, `n_tcards`, `n_acards`, `n_code`, `n_trace` | `collect_nursery` |
| `a_tcards`, `a_code`, `a_mark` | first half of `collect_aging`, which runs as a to-tenured collection |
| `a_roots`, `a_trace` | second half, after the swap of the semispaces |
| `t_roots`, `t_tcards`, `t_code`, `t_mark` | `collect_to_tenured` |
| `f_roots`, `f_mark`, `f_marked` | `collect_mark_impl` |
| `f_swept`, `f_compact`, `f_compacted` | what `collect_full` and `collect_compact` do after it |
| `critical_error` | `start_gc_again` found nothing wider to try |

One action visits one root, one literal or one slot (`VisitRoot`,
`VisitLiteral`, `VisitSlot`; all three use `fixup_data`, which is the copier of
the running stage). An object that moves gets the next cell of the nursery or of
aging space, or any free cell of tenured space (`Blocks`, `BlockFor`): which block
the free list hands out depends on its history, and `GenGC` allows them all.
`OpenDeck`, `OpenCard` and `CloseCard` are the loops of
`visit_cards` and `visit_card` with their early return. `ScanGray` takes an
object off the mark stack or moves the scan pointer of Cheney's algorithm.
`StartGcAgain` is the catch clause of `gc()`: it may happen at any visit whose
object has to move and finds no room, and it leaves the heap as it is.
`FinishNursery`, `FinishAging`, `FinishToTenured`, `FinishMark`, `Sweep`,
`AfterSweep`, `Compact` and `AfterCompact` are the ends of the collectors with
everything they reset, and `CheckFragmentation` is the test after an aging or
to-tenured collection.

The program has `allot_object`, `allot_large_object`, `set_slot`, `become`,
`StoreLiteral`, the three collection primitives, and moves between roots.
`pending` is what the program does when a collection it started returns, so that
`allot_large_object` can compact, look again and grow.

Points at which the model says more than the code seems to, or less:

* The objects copied by a nursery collection that fails are abandoned with it
  (`gray` is emptied): Cheney's scan pointer is a local variable. The mark stack
  is empty when `collect_aging` starts.
* The heap grows only after a mark, when the nursery and aging space are empty,
  so the new heap can keep their addresses; only tenured space gets new ones.
* The free space after a compaction is one block, so `high_fragmentation_p` is
  `low_memory_p` there, and `can_allot_p` a comparison with the free space. At
  other times both depend on the free list, and any answer that the amount of free
  space allows is possible.
* When an object is copied to the card that is being visited, the code may visit
  it in the same walk; the model leaves it to the trace, which comes later in the
  same collection.
* `visit_card` on a generation whose first block is free, or on an empty aging
  space, reads what is there. Where the walk stops then is a free choice
  (`AtEnd`); the slots that it reads in an empty aging space are not modelled. That
  the state is reached is shown by the run `aging_scan`.
* The cards of the nursery are never read, and not modelled; those of the unused
  semispace are cleared before they are read.

### FreeList

Addresses and sizes are in units of `data_alignment`. The buckets and the set of
large blocks are one set: the bucket of a block is its size. `find_free_block`
returns every block that the C++ containers may yield, with the lists it leaves
behind, so that page carving, a call of the function inside itself, is an ordinary
case. `sweep` takes the maximal unmarked runs, and `compact` moves a block to the
number of marked lines before it, as `mark_bits` computes them.

### TenuredSpace

`starts` is `object_start_offsets`. `Allot`, `Sweep` and `Compact` are those of
`FreeList` with what `tenured_space` and `collect_compact_impl` do to the map.
`update_card_for_sweep` has the marked units of the card as a set; the shift by the
old offset is the restriction to units from that offset on. `visit_cards` is a
function of the marked cards: the fold of `visit_card` over them in order, with
the object carried from card to card and the early return.

### DataHeap

`stage` is again the program counter of `gc()`, coarser than in `GenGC`: what is
live is any set of objects, and `left` bounds how much the collection may still
promote. `collect_aging` changes the op while it promotes from tenured space, so
that a failure in `Promote` has nowhere to go in any stage. Behaviours end where the
heap would grow.

## What is checked

All runs use two workers; each takes less than three minutes.

| Run | Module, config | Distinct states | Shows |
|---|---|---|---|
| `collector` | `MCGenGC` | 808,164 | the safety invariants, for behaviours of any length |
| `collector_cards` | `MCGenGCCards` | 979,070 | old objects on any card: the scan of marked cards misses none, also where it returns early |
| `collector_room` | `MCGenGCRoom` | 759,848 | no collection finds tenured space full, before and after growth |
| `collector_invisible` | `MCGenGCMemory` | 79,100 | the collector implements `ObjectMemory`; collections end |
| `aging_scan` | `MCGenGC`, `MCGenGCScan.cfg` | until the violation | a card of an empty aging space is visited |
| `free_list` | `FreeList` | 13,122 | the allocator keeps its region in order |
| `start_map` | `TenuredSpace` | 4,642 | the start map is exact and scans meet every object |
| `start_map_search` | `TenuredSpace`, `TenuredSpaceSearch.cfg` | until the violation | the search can leave the map |
| `reserve` | `DataHeap` | 3,920 | the reserve survives promotion and large objects |
| `reserve_exact` | `DataHeap`, `DataHeapExact.cfg` | until the violation | the assertion of `gc()` fails after an exact fit |
| `reserve_pages` | `DataHeap`, `DataHeapPage.cfg` | until the violation | small objects may find no room in the reserve |

The properties:

* `CardsNested`: a card marked for the nursery is marked for aging space, the
  comment in `write_barrier.hpp`.
* `WriteBarrierHolds`: what `data_heap_checker.cpp` checks at run time.
* `NoSlotForgotten`: the same during a collection: a slot that still refers to a
  younger generation is queued, or its object is gray, or its card and deck are
  still ahead of the scan. A weaker statement, that a marked card lies on a marked
  deck, is false in the code: `visit_cards` returns at the end of a generation and
  leaves marked cards behind on decks whose mark it has taken off. They hold no
  pointer to a younger generation, and `NoSlotForgotten` says so.
* `HeapClosed`: between collections every root, slot and literal, also of dead
  objects, refers to an object that is there. Dead objects matter because a marked
  card has them visited. It says nothing of what a walk over an empty aging space
  takes for slots; `aging_scan` is about that.
* `ForwardingEnds`: the loop over forwarding pointers ends after at most three
  hops. Three are needed when a nursery and an aging collection fail in a row.
* `NothingElseFails`: `critical_error` in `start_gc_again` is not reached, with
  objects of one size, in the first heap and in the one that has grown; `reserve`
  and `reserve_pages` are about objects of several sizes.
* `RememberedSetHolds`: `WriteBarrierHolds` for literals in code.
* `CollectorInvisible`: refinement of `ObjectMemory`.
* `CollectionEnds`: liveness, see below.
* `NoOverlap`, `NoLeak`, `CountersAgree`: the free list's blocks and counters.
* `RoomFound`: where `allot` finds no block for a large object, `can_allot_p` has
  not promised one, and if the step was a sweep then there is no unused stretch of
  that length: the heap grows only when it has to.
* `StartsExact`: the start map holds the first object of every card, after any
  sequence of allocations, sweeps and compactions.
* `ScanMeetsObjects`: for every set of marked cards, `visit_cards` visits every
  object that lies on one of them. It assumes that the space starts with an object,
  as `find_object_containing_card` does; `start_map_search` shows that the code does
  not ensure it.
* `ReserveContiguous`: the largest free block holds the young generations, and
  during a collection what is still to be promoted. The objects of this run are too
  large for the buckets; with small ones the statement does not carry over, which
  `reserve_pages` shows.

**Bounds.** In `collector` the nursery has two cells and an aging semispace one,
so that two live objects are enough for the nursery collection and the aging
collection after it to fail half way, which makes the three hops. Tenured space has four cells on two cards and the
grown one five on three cards and two decks, and objects are promoted to any of
them. There is no bound on the number of steps. The program does not call the
full-gc and compact-gc primitives in this run: full and compacting collections
begin where tenured space is fragmented or a large object does not fit, which the
model allows at any time. Roots are symmetric.
`collector_cards` has three objects and a tenured space of six cells on three cards
and two decks that does not grow, so that marked cards with objects lie on both
sides of a deck boundary, and runs the first five steps of the program.
`collector_room` has seven objects and a tenured space one cell larger than its
reserve of two, the tightest the constructor allows; they fill the grown space of
six as well. It runs the first twelve steps. `collector_invisible` has a code block
and three objects. The program makes an object, a collection of any kind follows,
then it makes a second object, takes any step, collects, takes any step, and ends
with a full collection that frees what it does not reach (`MaxSteps` is 7; the
steps of the collector, and the end of an operation that waited for it, are not
counted). These last two runs fill tenured space from below (`FilledFromBelow`):
how many objects fit and what the program sees do not depend on their addresses.
In all three runs with a bound the program may stop, so deadlock is not an error
there. `free_list` has nine units, buckets
for sizes below three and a page of five, so that a page is a multiple of a size
(one) and is not (two), and every sequence of operations is explored; a full region
in which nothing is freed may stop. `start_map` has the same region on three
cards, so that objects span two card boundaries and cut pages are used downwards
across one, and an image with one object, within a card or across a boundary.
`reserve` has a nursery of four units, aging space of two and tenured space of twelve:
room for one large object next to the reserve, or for none after promotion, so
that every way out of a collection is taken, growth included. Its promoted objects
have no bucket (two and three units, buckets below two); `reserve_pages` has objects
of one unit and a page of four.

**Fairness.** `WF_vars(CollectorStep)`: a collection is a call of `gc()`, which
runs on the only VM thread and is not interrupted by the program. Nothing is
assumed of the program.

**Disagreements.** Four runs are ones that TLC must refute.

* `aging_scan`: the comment "First card should start with an object"
  (`object_start_map.cpp:21`) states what `visit_card` relies on. `become` marks all
  cards, also those of an aging space with nothing in it. The next nursery
  collection opens the first of them and takes the start of the space for an object.
  The run reaches this with two objects in tenured space, one `become` and one nursery
  collection.
* `start_map_search`: the same comment, for tenured space. A sweep that frees the
  first objects leaves cards before the first live object with no start, and the
  search for that object's card runs through all of them. A debug build stops at the
  assertion; a release build reads before the array. It needs a program whose first
  tenured object dies, which nothing in the VM prevents.
* `reserve_exact`: `gc()` asserts `largest_free_block > high_water_mark`;
  `allot_large_object` leaves `=` when the fit is exact. Only the assertion is
  affected: `ReserveContiguous` holds.
* `reserve_pages`: "Nothing else should fail mid-collection" (`gc.cpp:55`). The
  last part of the reserve, smaller than a page, cannot be cut up for small objects.
  In the code this takes young generations filled to within a page with live small
  objects, and a largest free block within a page of the reserve.

## What is proved

| Theorem | Module | States |
|---|---|---|
| `TypeCorrect` | `GenGC_proofs` | `Spec => []TypeOK` |
| `NoSlotForgottenTheorem` | `GenGCBarrier_proofs` | `Spec => []NoSlotForgotten` |
| `WriteBarrierTheorem` | `GenGCBarrier_proofs` | `Spec => []WriteBarrierHolds` |
| `CardsNestedTheorem` | `GenGCBarrier_proofs` | `Spec => []CardsNested` |
| `PartitionInvariant` | `FreeList_proofs` | `Spec => []Partition` |
| `NoOverlapTheorem` | `FreeList_proofs` | `Spec => []NoOverlap` |
| `NoLeakTheorem` | `FreeList_proofs` | `Spec => []NoLeak` |

The assumptions are those of the modules, which TLC evaluates in every run:
finite, pairwise disjoint generations of natural-number addresses, decks that
belong to one generation (`data_heap`'s constructor aligns every generation to
`deck_size`), and for the free list a page that is no smaller than the buckets
(1024 bytes against 32 * 16).

*The write barrier.* `WriteBarrierHolds` speaks of the moments at which the
program runs and is not inductive. During a collection the marks are taken off
before the objects are visited, scans stop early, objects appear in a generation
that has already been scanned, and the collection can be abandoned for a wider
one. `NoSlotForgotten` says for every stage where a slot that still refers to a
younger generation can be: ahead of the scan, on the card that is open, in a gray
object, or in the queue. It needs the order of the scan (`ScanOrder`, without
which the early return could skip a deck), that later heaps are empty
(`SpaceInv`), and that the op which `start_gc_again` looks at belongs to the
running stage (`OpInv`). The proof has one lemma for each group of actions:
visiting a pointer, opening and closing cards, moving between stages, the ends of
the collectors, escalation, growth, compaction, and the program's stores.

*The free list.* `Partition` says that blocks are well-formed, disjoint and
cover the region. The lemmas show that a split, a cut page, the gaps between
marked blocks, and the blocks slid down by a compaction each tile the interval
they come from. Compaction rests on `RankProperties`: the number of marked lines
before a block, the address that `forward_block` computes, keeps the order of the
blocks and their distances.

Model-checked only: liveness (`CollectionEnds`); `CollectorInvisible`, `HeapClosed`
and `ForwardingEnds`, which need induction over paths in the heap or a much
larger invariant; `NothingElseFails`, `CountersAgree` and
`ReserveContiguous`, which are about cardinalities and sums; `RoomFound`, which is
about the maximal free runs of a sweep; `StartsExact` and `ScanMeetsObjects`.

## What the model leaves out

* Sizes of objects in `GenGC`: every object has one cell, so no object spans two
  cards and the object start map is not needed. `TenuredSpace` and `DataHeap` have
  sizes and no pointers.
* Growth of the heap in `DataHeap`, and the start map of aging space.
* Code blocks are not collected or moved in `GenGC`: `Sweep` and `Compact` are the
  data heap's part of `collect_full` and `collect_compact_impl`, without the sweep of
  the code heap, code roots and callbacks. `VisitRoot` has no derived pointers of
  spill slots.
* The choice between nursery and tenured space by size (`allot_object`) is the
  choice between two actions.
* `gc_events`, printing, and the checks of debug builds.
* `PROJECT.json` lists every other part of the system and why it is not there yet.

## Plan

In this order:

1. `Threads`, then `Locks`, `Semaphores`, `RwLocks`, `Mailboxes` over it:
   mutual exclusion, lost wake-ups, a timeout against a notification; an abstract
   lock that the mailbox-based promises implement.
2. `Safepoint`: signal handlers against the VM thread; no interrupt is lost.
3. `CodeHeap` and `InlineCache`: code roots through sweep and compaction, the
   patched call site, remembered sets; composed with `GenGC`'s stages.
4. `Contexts`: callbacks and the pool of contexts.
5. `Image`, `Console`, `MarkBits`, `Fixnum` and `Bignum`: relocation, the stdin
   pipes, and algorithms against reference definitions on small words.

Abstract specifications: `ObjectMemory` (done), a mutual-exclusion specification
for `Locks`, a channel for `Mailboxes`, a saved graph for `Image`.

Proofs, after the runs agree: `CountersAgree` and `RoomFound` of the free list;
`HeapClosed` for `GenGC` (forwarding pointers added to `NoSlotForgotten`); the
start map (`StartsExact`) and the reserve; the safety of `InlineCache` and
`Contexts`; the step simulation of `Mailboxes`.
