---------------------------- MODULE GenGCMemory -----------------------------
(***************************************************************************)
(* The program cannot tell that there is a collector: GenGC implements      *)
(* ObjectMemory.  An address stands for the object found there after        *)
(* following the forwarding pointers.                                       *)
(***************************************************************************)
EXTENDS GenGC

R == INSTANCE Reachability

ObjectAt(p) == IF p = NULL THEN NULL ELSE id[Follow(p)]
AbsRoot == [r \in Roots |-> ObjectAt(root[r])]
AbsLit == [c \in CodeBlocks |-> ObjectAt(lit[c])]

\* The slots of every object that was not forwarded elsewhere, garbage included.
AbsObjects ==
  LET Home(i) == CHOOSE a \in Addr : id[a] = i /\ fwd[a] = NULL
      there == {id[a] : a \in {b \in Allotted(Addr) : fwd[b] = NULL}}
  IN [i \in there |-> [s \in Slots |-> ObjectAt(slot[Home(i)][s])]]

AbsGraph ==
  LET objs == AbsObjects
      held == {ObjectAt(root[r]) : r \in Roots} \cup {ObjectAt(lit[c]) : c \in CodeBlocks}
  IN [i \in R!Reach(held, objs) |-> objs[i]]

Memory == INSTANCE ObjectMemory WITH root <- AbsRoot, lit <- AbsLit, graph <- AbsGraph

\* Whatever the collector does is invisible to the program: its steps leave every
\* root, literal and slot of every live object as it was, through promotion,
\* collections that fail half way, compaction and growth of the heap.
CollectorInvisible == Memory!Spec
=============================================================================
