------------------------------ MODULE MCPhase3 ------------------------------
(* Two days that compete for two points; one of them is locked for the first
   day or for the second, and a day has room for one. *)
EXTENDS Phase3Orchestrator

CONSTANTS a, b

MCPlans == {[pois |-> {a}, cost |-> 1, fits |-> TRUE], [pois |-> {b}, cost |-> 1, fits |-> TRUE],
            [pois |-> {b}, cost |-> 2, fits |-> FALSE], [pois |-> {a, b}, cost |-> 2, fits |-> TRUE]}

MCSkeletons ==
  {<<[locked |-> <<a>>, cand |-> <<b>>], [locked |-> <<>>, cand |-> <<a, b>>]>>,
   <<[locked |-> <<>>, cand |-> <<a, b>>], [locked |-> <<b, a>>, cand |-> <<>>]>>}
=============================================================================
