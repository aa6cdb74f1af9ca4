---------------------------- MODULE Reachability ----------------------------
(* Reachability in a graph of objects: g[i][s] is what slot s of object i   *)
(* refers to.                                                               *)
EXTENDS Integers, FiniteSets

CONSTANT Slots

\* Everything that can be reached from the values in S through the slots in g.
Reach(S, g) ==
  LET Step(T) == T \cup ({g[i][s] : i \in T, s \in Slots} \cap DOMAIN g)
      within[n \in 0..Cardinality(DOMAIN g)] ==
        IF n = 0 THEN S \cap DOMAIN g ELSE Step(within[n - 1])
  IN within[Cardinality(DOMAIN g)]
=============================================================================
