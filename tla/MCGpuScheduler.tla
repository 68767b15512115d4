-------------------------- MODULE MCGpuScheduler ----------------------------
EXTENDS GpuScheduler, TLC

CONSTANTS j1, j2, j3, g1, g2

(* j1 comes first and takes one of the two devices, j2 needs both, j3 none. *)
MCNeed == [j \in Jobs |-> IF j = j1 THEN 1 ELSE IF j = j2 THEN 2 ELSE 0]
MCOrder == [j \in Jobs |-> IF j = j1 THEN 1 ELSE IF j = j2 THEN 2 ELSE 3]
MCOrders == {MCOrder}
(* One job needs both devices, two need one each; an administrator may put *)
(* the last of them before all others.                                     *)
MCNeedBothOrOne == [j \in Jobs |-> IF j = j1 THEN 2 ELSE 1]
MCOrdersPatched == {MCOrder, [MCOrder EXCEPT ![j3] = 0]}
MCQueueOf == [j \in Jobs |-> "default"]
MCListensOn == [w \in Workers |-> "default"]
MCSymmetry == Permutations(Gpus) \cup Permutations(Workers)
=============================================================================
