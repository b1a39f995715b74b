---------------------------- MODULE MCPlanPhases ----------------------------
(* Trips of up to two days and skeleton lists chosen so that ids and names *)
(* repeat, swap and collide across rewrites.                               *)
EXTENDS PlanPhases

Skeleton(id, name, days) == [id |-> id, name |-> name, days |-> days]

SomeDrafts ==
    { <<Skeleton("a", "x", 2)>>,
      <<Skeleton("a", "b", 2), Skeleton("b", "x", 2)>>,
      <<Skeleton("a", "x", 1), Skeleton("b", "x", 0)>> }

(* A choice by name, as plans written before ids were required hold it.    *)
SomeRestored ==
    { [FreshPlan EXCEPT !.phase = 2, !.step = "lock", !.dest = TRUE, !.dates = 2,
                        !.brief = "full", !.chosen = "x",
                        !.skeletons = <<Skeleton("c", "x", 2)>>] }
=============================================================================
