-------------------------- MODULE MCContextHistory --------------------------
(* Instances of ContextHistory for TLC: the budgets of its disturbances. *)
EXTENDS ContextHistory, TLC

None == [d \in Disturbances |-> 0]

OnlyTool == [None EXCEPT !["tool"] = 1]
Backtracks == [None EXCEPT !["tool"] = 1, !["route"] = 1, !["fallback"] = 1]
Faults == [None EXCEPT !["tool"] = 1, !["cancel"] = 2, !["crash"] = 1, !["summary"] = 1]

Summaries == [None EXCEPT !["summary"] = 1]
Routes == [None EXCEPT !["route"] = 1]
Cancels == [None EXCEPT !["cancel"] = 1]
Collisions == [None EXCEPT !["tool"] = 1, !["cancel"] = 1, !["crash"] = 1]

RunSymmetry == Permutations(Runs)
=============================================================================
