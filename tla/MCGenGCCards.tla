---------------------------- MODULE MCGenGCCards ----------------------------
(* Two old objects anywhere on the three cards and two decks of a tenured     *)
(* space, a young one, and stores: what the scan of marked cards meets, and   *)
(* what it leaves when it returns early.                                      *)
EXTENDS GenGCBarrier, TLC

CONSTANTS r1, r2, MaxSteps

VARIABLE steps

MCNursery == {48}
MCAging == [i \in {0, 1} |-> IF i = 0 THEN {32} ELSE {40}]
MCTenured == [h \in {1} |-> 0..5]
MCIds == 1..3
MCSymmetry == Permutations({r1, r2})

MCMutatorStep ==
  \/ \E r, q \in Roots : \/ allot_object(r, q) \/ allot_large_object(r, q) \/ become(q, r)
                         \/ \E s \in Slots : set_slot(q, s, r)
  \/ CollectPrimitive("NURSERY")

MCInit == Init /\ steps = 0
MCNext == \/ CollectorStep /\ UNCHANGED steps
          \/ steps < MaxSteps /\ MCMutatorStep /\ steps' = steps + 1
MCSpec == MCInit /\ [][MCNext]_<<vars, steps>>
=============================================================================
