---------------------------- MODULE DayClaims ----------------------------
(* What the parallel planning of Phase 3 promises about the days of a trip,
   whatever workers, steering messages and repairs do:
     - a plan is accepted for a day only if no point of interest in it is in
       the plan another day holds, unless that other plan is one that was put
       back after a replacement failed;
     - a plan withdrawn for a replacement is replaced or put back: the run
       never ends with a day that had a plan and has none.
   Phase3Orchestrator implements it. *)
EXTENDS FiniteSets

CONSTANTS Days, Plans, NoPlan

VARIABLES
  held,      \* the accepted plan of each day, or NoPlan
  before,    \* the plan a withdrawn day goes back to, or NoPlan
  restored,  \* days whose plan was put back
  over       \* the run has ended

vars == <<held, before, restored, over>>

Init == /\ held = [d \in Days |-> NoPlan]
        /\ before = [d \in Days |-> NoPlan]
        /\ restored = {}
        /\ over = FALSE

Disjoint(d, plan) ==
  \A e \in Days \ ({d} \cup restored) :
    held[e] # NoPlan => held[e].pois \cap plan.pois = {}

Accept(d, plan) ==
  /\ Disjoint(d, plan)
  /\ held' = [held EXCEPT ![d] = plan]
  /\ before' = [before EXCEPT ![d] = NoPlan]
  /\ restored' = restored \ {d}
  /\ UNCHANGED over

Withdraw(S) ==
  /\ before' = [d \in Days |-> IF d \in S THEN held[d] ELSE before[d]]
  /\ held' = [d \in Days |-> IF d \in S THEN NoPlan ELSE held[d]]
  /\ restored' = restored \ S
  /\ UNCHANGED over

Restore(S) ==
  /\ \A d \in S : before[d] # NoPlan
  /\ held' = [d \in Days |-> IF d \in S THEN before[d] ELSE held[d]]
  /\ before' = [d \in Days |-> IF d \in S THEN NoPlan ELSE before[d]]
  /\ restored' = restored \cup S
  /\ UNCHANGED over

End == /\ \A d \in Days : before[d] = NoPlan
       /\ over' = TRUE
       /\ UNCHANGED <<held, before, restored>>

Next == \/ \E d \in Days, plan \in Plans : Accept(d, plan)
        \/ \E S \in SUBSET Days : Withdraw(S) \/ Restore(S)
        \/ End

Spec == Init /\ [][Next]_vars
=============================================================================
