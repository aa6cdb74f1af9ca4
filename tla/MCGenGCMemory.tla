--------------------------- MODULE MCGenGCMemory ----------------------------
(* Three objects, a code block and every operation, between collections of   *)
(* every kind; the steps of the collector are not counted.                   *)
EXTENDS GenGCMemory

CONSTANTS r1, r2, c1, MaxSteps

VARIABLE steps

MCNursery == 48..49
MCAging == [i \in {0, 1} |-> IF i = 0 THEN {32} ELSE {40}]
MCTenured == [h \in 1..2 |-> IF h = 1 THEN 0..4 ELSE 16..22]
MCIds == 1..3

\* Bound: tenured space is filled from below.  The program does not see addresses.
FilledFromBelow ==
  \A a \in tenured' : id[a] = NoId /\ id'[a] # NoId =>
    \A b \in tenured' : b < a => id'[b] # NoId

\* An object gets old in one of the collections, another one is new when the
\* program works on both, before and after a second collection; the last one
\* frees what it does not reach.
MCMutatorStep ==
  CASE steps = 0 -> allot_object(r1, r2)
    [] steps = 2 -> \E q \in Roots : allot_object(r2, q)
    [] steps \in {3, 5} -> MutatorStep
    [] steps \in {1, 4} -> \E o \in {"NURSERY", "FULL", "COMPACT"} : CollectPrimitive(o)
    [] OTHER -> CollectPrimitive("FULL")

\* An operation that waits for a collection goes on after it.
MCInit == Init /\ steps = 0
MCNext ==
  \/ CollectorStep /\ FilledFromBelow /\ UNCHANGED steps
  \/ /\ pending = "none" /\ steps < MaxSteps
     /\ MCMutatorStep /\ FilledFromBelow /\ steps' = steps + 1
  \/ pending # "none" /\ MutatorStep /\ FilledFromBelow /\ UNCHANGED steps
MCSpec == MCInit /\ [][MCNext]_<<vars, steps>> /\ WF_vars(CollectorStep)
=============================================================================
