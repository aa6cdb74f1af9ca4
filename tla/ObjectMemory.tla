---------------------------- MODULE ObjectMemory ----------------------------
(***************************************************************************)
(* What a Factor program may assume of its memory: objects that never move, *)
(* never vanish while something refers to them, and hold in their slots     *)
(* what was last stored there.  There is no collector here.  An object that *)
(* nothing refers to any more is forgotten at once.                         *)
(***************************************************************************)
EXTENDS Reachability

CONSTANTS Roots, CodeBlocks, Ids, NULL

VARIABLES root,  \* the object that each root refers to, or NULL
          lit,   \* the literal of each code block
          graph  \* graph[i]: the slots of the object i; its domain is what exists

vars == <<root, lit, graph>>

Referenced(rt, lt) == {rt[r] : r \in Roots} \cup {lt[c] : c \in CodeBlocks}

\* The program is left with roots rt, literals lt and what they reach in g.
Become(rt, lt, g) ==
  /\ root' = rt /\ lit' = lt
  /\ graph' = [i \in Reach(Referenced(rt, lt), g) |-> g[i]]

Init == /\ root = [r \in Roots |-> NULL] /\ lit = [c \in CodeBlocks |-> NULL]
        /\ graph = [i \in {} |-> [s \in Slots |-> NULL]]

Allot(r, q) ==
  \E i \in Ids \ DOMAIN graph :
    Become([root EXCEPT ![r] = i], lit,
           [j \in DOMAIN graph \cup {i} |->
              IF j = i THEN [s \in Slots |-> root[q]] ELSE graph[j]])

SetRoot(r, v) == Become([root EXCEPT ![r] = v], lit, graph)

SetSlot(q, s, v) ==
  root[q] # NULL /\ Become(root, lit, [graph EXCEPT ![root[q]][s] = v])

SetLiteral(c, v) == Become(root, [lit EXCEPT ![c] = v], graph)

Replace(q, r) ==
  LET R(v) == IF v = root[q] THEN root[r] ELSE v
  IN /\ root[q] # NULL /\ root[r] # NULL
     /\ Become([x \in Roots |-> R(root[x])], [c \in CodeBlocks |-> R(lit[c])],
               [i \in DOMAIN graph |-> [s \in Slots |-> R(graph[i][s])]])

Next ==
  \/ \E r, q \in Roots : SetRoot(r, root[q]) \/ Allot(r, q) \/ Replace(q, r)
  \/ \E r, q \in Roots, s \in Slots :
       \/ SetSlot(q, s, root[r])
       \/ root[q] # NULL /\ SetRoot(r, graph[root[q]][s])
  \/ \E r \in Roots : SetRoot(r, NULL) \/ \E c \in CodeBlocks : SetLiteral(c, root[r])

Spec == Init /\ [][Next]_vars
=============================================================================
