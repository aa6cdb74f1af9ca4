---------------------------- MODULE MCGenGCRoom -----------------------------
(* A tenured space just large enough for the collector to start with, filled *)
(* by promotion and by large objects: does a collection ever find no room?   *)
(* There are enough objects to fill the heap that has grown to twice the     *)
(* size, too.                                                                *)
EXTENDS GenGC

CONSTANTS r1, MaxSteps

VARIABLE steps

MCNursery == {48}
MCAging == [i \in {0, 1} |-> IF i = 0 THEN {32} ELSE {40}]
MCTenured == [h \in 1..2 |-> IF h = 1 THEN 0..2 ELSE 16..21]
MCIds == 1..7

\* Bound: tenured space is filled from below.  Where the objects lie makes no
\* difference to how many of them fit.
FilledFromBelow ==
  \A a \in tenured' : id[a] = NoId /\ id'[a] # NoId =>
    \A b \in tenured' : b < a => id'[b] # NoId

\* The objects are a list, which grows and shrinks at its head or is dropped.
MCMutatorStep ==
  \/ \E r \in Roots : \/ allot_object(r, r) \/ allot_large_object(r, r) \/ DropRoot(r)
                      \/ \E s \in Slots : ReadSlot(r, r, s)
  \/ CollectPrimitive("NURSERY")

MCInit == Init /\ steps = 0
MCNext == \/ CollectorStep /\ FilledFromBelow /\ UNCHANGED steps
          \/ steps < MaxSteps /\ MCMutatorStep /\ FilledFromBelow /\ steps' = steps + 1
MCSpec == MCInit /\ [][MCNext]_<<vars, steps>>
=============================================================================
