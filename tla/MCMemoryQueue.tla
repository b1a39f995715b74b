---------------------------- MODULE MCMemoryQueue ----------------------------
(* Instances of MemoryQueue for TLC: the budgets of its disturbances. *)
EXTENDS MemoryQueue

Each == [d \in Disturbances |-> 1]
OneRebuild == [d \in Disturbances |-> IF d = "rebuild" THEN 1 ELSE 0]
=============================================================================
