---------------------------- MODULE MCDayWorker ----------------------------
(* One worker, two plans, one key that every tool can be asked for, answers of
   one or two calls. *)
EXTENDS DayWorker, TLC

CONSTANTS p, q

\* no property tells the two plans apart
PlanSymmetry == Permutations({p, q})
=============================================================================
