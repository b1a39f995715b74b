-------------------------- MODULE WorkerContract --------------------------
(* What a day worker hands to the orchestrator (DayWorkerResult with the file
   it left in the candidate store).  Phase3Orchestrator assumes it of every
   worker, DayWorker is checked to keep it. *)
EXTENDS Integers

CONSTANTS
  NDays,   \* days of the trip
  Pois,    \* points of interest
  Plans,   \* day plans a worker may submit
  NoPlan   \* no plan

ASSUME DaysAssumption == NDays \in Nat \ {0}
ASSUME NoPlanAssumption == NoPlan \notin Plans

Days == 1..NDays

NoRequest == [kind |-> "none", poi |-> NoPlan, to |-> 0]
Requests ==
  {NoRequest}
  \cup [kind : {"INFEASIBLE_DAY", "OVERLOADED"}, poi : {NoPlan}, to : {0}]
  \cup [kind : {"SUGGEST_MOVE"}, poi : Pois, to : Days]

(* Success with the plan in the newest file of the day; a failure with or
   without a file (a worker may submit and then time out, fail, or report that
   the skeleton does not work for its day). *)
Outcomes ==
  [plan : Plans, wrote : {TRUE}, request : {NoRequest}]
  \cup [plan : {NoPlan}, wrote : BOOLEAN, request : Requests]
=============================================================================
