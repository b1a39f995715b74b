------------------------ MODULE Phase3Orchestrator ------------------------
(* One run of agent/phase3/orchestrator.py: day workers in parallel, then one
   after the other for the days that failed, steering messages that arrive at
   any time, renegotiation of the skeleton, global validation and one round of
   repairs.

   Grain: a worker is one await of the orchestrator (DayWorker models what it
   does inside).  In the two stages in which workers run side by side its start,
   its end and the collection of its result are steps of their own; in the
   serial stages nothing but a steering message can come in between, and one
   step runs the worker and handles its result.

   Data: a plan is the set of points of interest in it, its cost and whether it passes
   the checks of a single day (time, transport, pace).  kept is what load_latest_candidates(accepted_only) reads:
   the plan of the day's newest candidate file if its status is accepted. *)
EXTENDS WorkerContract, Sequences, FiniteSets, SequencesExt

CONSTANTS
  Skeletons,   \* selected skeletons: day -> [locked, cand], lists of Pois
  MaxCore,     \* core activities a day may have (pace)
  Budget,      \* what all activities may cost
  MaxWorkers,  \* Phase3ParallelConfig.max_workers
  MaxSteer     \* bound: steering messages during the run

ASSUME PlansAssumption ==
  Plans \subseteq [pois : SUBSET Pois, cost : Nat, fits : BOOLEAN]
ASSUME SkeletonsAssumption ==
  Skeletons \subseteq [Days -> [locked : Seq(Pois), cand : Seq(Pois)]]
ASSUME NumbersAssumption ==
  /\ MaxCore \in Nat /\ Budget \in Nat /\ MaxSteer \in Nat
  /\ MaxWorkers \in Nat \ {0}

VARIABLES
  stage,     \* where run() is
  work,      \* day -> its worker: "queued", "active", "finished", "idle"
  result,    \* day -> outcome of a worker that is not handled yet
  batch,     \* the days of the done_set being collected
  todo,      \* days the current stage still has to run
  failures,  \* days to retry, in order
  kept,      \* day -> plan of the newest candidate file, if accepted
  won,       \* successes: day -> plan
  board,     \* the blackboard: [owner of each point, cost of each day]
  undo,      \* redispatch_rollbacks / repair_prev_attempts: day -> plan or NoPlan
  request,   \* day -> replan request of its last failed worker
  skeleton,  \* the run's copy of the skeleton
  locked,    \* _locked_pois_by_day
  inbox,     \* steer queue: sets of days the messages name
  sent,      \* steering messages so far
  redo,      \* _steer_redispatch_days
  final,     \* dayplans: what is handed over
  restored,  \* history: days whose current plan was put back by a rollback
  owed       \* history: days a message promised to change, no worker since

workers == <<work, result, batch>>
plans == <<kept, won, board, undo, restored>>
steering == <<inbox, sent, redo>>
frame == <<skeleton, locked>>
vars == <<stage, workers, todo, failures, plans, request, frame, steering, final, owed>>

Lost == [plan |-> NoPlan, wrote |-> FALSE, request |-> NoRequest]

-----------------------------------------------------------------------------
(* The skeleton and the blackboard *)

\* split_skeleton_to_day_tasks and _compile_day_tasks: at most MaxCore locked
\* points a day, each owned by the first day that locks it
Locked(sk) ==
  LET top(d) == Range(SubSeq(sk[d].locked, 1, IF Len(sk[d].locked) < MaxCore
                                              THEN Len(sk[d].locked) ELSE MaxCore))
  IN  [d \in Days |-> top(d) \ UNION {top(e) : e \in 1..(d - 1)}]

Seeded(lock) ==
  [owner |-> [p \in Pois |-> IF \E d \in Days : p \in lock[d]
                             THEN CHOOSE d \in Days : p \in lock[d] ELSE 0],
   cost |-> [d \in Days |-> 0]]

CanClaimAny(b, d, plan) ==
  FoldFunctionOnSet(+, 0, b.cost, Days \ {d}) + plan.cost <= Budget
\* Phase3Blackboard.try_accept_dayplan: no point another day owns, and within
\* the budget together with the other days
CanClaim(b, d, plan) ==
  /\ \A p \in plan.pois : b.owner[p] \in {0, d}
  /\ FoldFunctionOnSet(+, 0, b.cost, Days \ {d}) + plan.cost <= Budget

Claimed(b, d, plan) ==
  [owner |-> [p \in Pois |-> IF p \in plan.pois THEN d ELSE b.owner[p]],
   cost |-> [b.cost EXCEPT ![d] = plan.cost]]

Released(b, S) ==
  [owner |-> [p \in Pois |-> IF b.owner[p] \in S THEN 0 ELSE b.owner[p]],
   cost |-> [d \in Days |-> IF d \in S THEN 0 ELSE b.cost[d]]]

InOrder == [d \in Days |-> d]
\* the elements of s that are in S, in the order of s
Filtered(s, S) == FoldLeft(LAMBDA acc, e : IF e \in S THEN Append(acc, e) ELSE acc, <<>>, s)

\* renegotiate_skeleton: a day is changed once; a move needs room on its target
Swapped(sk, d, q) ==
  LET without(s) == Filtered(s, Pois \ {q.poi})
      src == sk[d]
      dst == sk[q.to]
      hard == q.poi \in Range(src.locked)
  IN  [sk EXCEPT
        ![d] = IF hard THEN [src EXCEPT !.locked = without(src.locked)]
                       ELSE [src EXCEPT !.cand = without(src.cand)],
        ![q.to] = IF hard
                  THEN [locked |-> IF q.poi \in Range(dst.locked) THEN dst.locked
                                   ELSE Append(dst.locked, q.poi),
                        cand |-> without(dst.cand)]
                  ELSE IF q.poi \in Range(dst.cand) \cup Range(dst.locked) THEN dst
                  ELSE [dst EXCEPT !.cand = Append(dst.cand, q.poi)]]

Slots(sk, d) == IF Len(sk[d].locked) < MaxCore THEN MaxCore - Len(sk[d].locked) ELSE 0

\* days renegotiation may touch: half of them, but a move needs two
MostAffected(reqs) ==
  LET half == (NDays + 1) \div 2
      moves == \E d \in Days : reqs[d].kind = "SUGGEST_MOVE"
  IN  IF moves /\ NDays >= 2 /\ half < 2 THEN 2 ELSE half

\* one replan request q of day d, on the skeleton and the days changed so far
AmendDay(acc, d, q, most) ==
  LET fits(S) == Cardinality(acc.days \cup S) <= most
  IN  IF d \in acc.days THEN acc
      ELSE IF q.kind = "OVERLOADED" /\ fits({d})
              /\ Len(acc.sk[d].cand) > Slots(acc.sk, d)
      THEN [sk |-> [acc.sk EXCEPT ![d].cand = SubSeq(@, 1, Slots(acc.sk, d))],
            days |-> acc.days \cup {d}]
      ELSE IF q.kind = "SUGGEST_MOVE" /\ q.to # d /\ fits({d, q.to})
              /\ q.to \notin acc.days
              /\ q.poi \in Range(acc.sk[d].locked) \cup Range(acc.sk[d].cand)
              /\ Slots(acc.sk, q.to) > 0
      THEN [sk |-> Swapped(acc.sk, d, q), days |-> acc.days \cup {d, q.to}]
      ELSE acc

Amended(reqs) ==
  FoldLeft(LAMBDA acc, d : AmendDay(acc, d, reqs[d], MostAffected(reqs)),
           [sk |-> skeleton, days |-> {}], InOrder)

-----------------------------------------------------------------------------
(* Pieces the stages share *)

Ok(d, o) == o.plan # NoPlan /\ CanClaim(board, d, o.plan)

\* _accept_worker_dayplan: the blackboard decides, the file's status follows
Settle(d, o) ==
  /\ kept' = [kept EXCEPT ![d] = IF Ok(d, o) THEN o.plan
                                 ELSE IF o.wrote THEN NoPlan ELSE @]
  /\ board' = IF Ok(d, o) THEN Claimed(board, d, o.plan) ELSE board
  /\ undo' = [undo EXCEPT ![d] = IF Ok(d, o) THEN NoPlan ELSE @]
  /\ restored' = IF Ok(d, o) THEN restored \ {d} ELSE restored

\* and a success joins the successes
Gain(d, o) == Settle(d, o) /\ won' = [won EXCEPT ![d] = IF Ok(d, o) THEN o.plan ELSE @]

\* _invalidate_day_for_redispatch for every day of S
Invalidate(S) ==
  /\ undo' = [d \in Days |-> IF d \in S THEN kept[d] ELSE undo[d]]
  /\ kept' = [d \in Days |-> IF d \in S THEN NoPlan ELSE kept[d]]
  /\ won' = [d \in Days |-> IF d \in S THEN NoPlan ELSE won[d]]
  /\ board' = Released(board, S)
  /\ restored' = restored \ S

RollBackMemory(d) ==
  /\ undo[d] # NoPlan
  /\ won' = [won EXCEPT ![d] = undo[d]]
  /\ board' = IF CanClaim(board, d, undo[d]) THEN Claimed(board, d, undo[d]) ELSE board
  /\ undo' = [undo EXCEPT ![d] = NoPlan]
  /\ restored' = restored \cup {d}
  /\ UNCHANGED kept
\* _handle_redispatch_failure: file and memory go back to the old plan; the
\* blackboard too, unless another day has claimed one of its points meanwhile
RollBack(d) ==
  /\ undo[d] # NoPlan
  /\ kept' = [kept EXCEPT ![d] = undo[d]]
  /\ won' = [won EXCEPT ![d] = undo[d]]
  /\ board' = IF CanClaim(board, d, undo[d]) THEN Claimed(board, d, undo[d]) ELSE board
  /\ undo' = [undo EXCEPT ![d] = NoPlan]
  /\ restored' = restored \cup {d}

Won(w) == {d \in Days : w[d] # NoPlan}

\* the days a message is for; without a day, all that are not planned yet
Targets(names, done) ==
  Days \cap (IF names # {} THEN names ELSE IF Days \ done # {} THEN Days \ done ELSE Days)

\* _drain_steering, with the days already planned and those being planned: the
\* first are redispatched, a day not planned yet only gets a hint.  fresh: the
\* days a worker was started for in the same step
Drain(done, active, fresh) ==
  LET named == UNION {Targets(m, done) : m \in inbox}
  IN  /\ redo' = redo \cup (named \cap (done \cup active))
      /\ owed' = (owed \ fresh) \cup named
      /\ inbox' = {}
      /\ UNCHANGED sent

DrainLate(fresh) == Drain(Won(won), {}, fresh)
\* the same in the last stages, where every message is answered as not applied
DrainTerminal(fresh) ==
  /\ inbox' = {}
  /\ owed' = owed \ fresh
  /\ UNCHANGED <<sent, redo>>

First(S) == CHOOSE d \in S : \A e \in S : d <= e

Init ==
  /\ stage = "collect"
  /\ work = [d \in Days |-> "queued"]
  /\ result = [d \in Days |-> Lost]
  /\ batch = {} /\ todo = {} /\ failures = <<>>
  /\ kept = [d \in Days |-> NoPlan]
  /\ won = [d \in Days |-> NoPlan]
  /\ undo = [d \in Days |-> NoPlan]
  /\ skeleton \in Skeletons
  /\ locked = Locked(skeleton)
  /\ board = Seeded(locked)
  /\ request = [d \in Days |-> NoRequest]
  /\ inbox = {} /\ sent = 0 /\ redo = {}
  /\ final = [d \in Days |-> NoPlan]
  /\ restored = {} /\ owed = {}

-----------------------------------------------------------------------------
(* The parallel stage *)

Active == {d \in Days : work[d] = "active"}

\* _run_with_semaphore
StartWorker(d) ==
  /\ stage = "collect" /\ work[d] = "queued"
  /\ Cardinality(Active) < MaxWorkers
  /\ work' = [work EXCEPT ![d] = "active"]
  /\ owed' = owed \ {d}
  /\ UNCHANGED <<stage, result, batch, todo, failures, plans, request, frame, steering, final>>

FinishWorker(d, o) ==
  /\ stage = "collect" /\ work[d] = "active"
  /\ work' = [work EXCEPT ![d] = "finished"]
  /\ result' = [result EXCEPT ![d] = o]
  /\ UNCHANGED <<stage, batch, todo, failures, plans, request, frame, steering, final, owed>>

\* asyncio.wait returns: everything finished so far is one done_set
TakeBatch ==
  /\ stage = "collect" /\ batch = {}
  /\ batch' = {d \in Days : work[d] = "finished"}
  /\ batch' # {}
  /\ UNCHANGED <<stage, work, result, todo, failures, plans, request, frame, steering, final, owed>>

\* one result of the done_set; after the last one the steering queue is drained
Collect(d) ==
  /\ stage = "collect" /\ d \in batch
  /\ Gain(d, result[d])
  /\ work' = [work EXCEPT ![d] = "idle"]
  /\ result' = [result EXCEPT ![d] = Lost]
  /\ batch' = batch \ {d}
  /\ request' = [request EXCEPT ![d] = result[d].request]
  /\ failures' = IF Ok(d, result[d]) THEN failures ELSE Append(failures, d)
  /\ IF batch = {d} THEN Drain(Won(won'), Active, {}) ELSE UNCHANGED <<steering, owed>>
  /\ UNCHANGED <<stage, todo, frame, final>>

\* all results are in: days planned but named by a steering message are
\* withdrawn and join the days to retry
EndCollect ==
  LET again == redo \cap Won(won)
  IN  /\ stage = "collect" /\ \A d \in Days : work[d] = "idle"
      /\ Invalidate(again)
      /\ failures' = failures \o Filtered(InOrder, again)
      /\ redo' = {}
      /\ stage' = "retry"
      /\ UNCHANGED <<workers, todo, request, frame, inbox, sent, final, owed>>

-----------------------------------------------------------------------------
(* The serial stages *)

\* a serial worker of day d ends with o; a failure of a withdrawn day puts its
\* old plan back at once (retry)
Retry(o) ==
  LET d == Head(failures)
  IN  /\ stage = "retry" /\ failures # <<>> /\ request[d] = NoRequest
      /\ failures' = Tail(failures)
      /\ IF Ok(d, o) \/ undo[d] = NoPlan
         THEN /\ Gain(d, o)
              /\ request' = [request EXCEPT ![d] = o.request]
         ELSE RollBack(d) /\ UNCHANGED request
      /\ Drain(Won(won), {d}, {d})
      /\ UNCHANGED <<stage, workers, todo, frame, final>>

SkipRequeued ==
  /\ stage = "retry" /\ failures # <<>> /\ request[Head(failures)] # NoRequest
  /\ failures' = Append(Tail(failures), Head(failures))
  /\ UNCHANGED <<stage, workers, todo, plans, request, frame, steering, final, owed>>
\* a day whose skeleton does not work is not retried on the same skeleton
SkipRetry ==
  /\ stage = "retry" /\ failures # <<>> /\ request[Head(failures)] # NoRequest
  /\ failures' = Tail(failures)
  /\ UNCHANGED <<stage, workers, todo, plans, request, frame, steering, final, owed>>

EndRetry ==
  LET named == UNION {Targets(m, Won(won)) : m \in inbox}
      late == redo \cup (named \cap Won(won))
  IN  /\ stage = "retry" /\ failures = <<>>
      /\ Invalidate(late \cap Won(won))
      /\ todo' = late
      /\ redo' = {} /\ inbox' = {}
      /\ owed' = owed \cup named
      /\ stage' = "late"
      /\ UNCHANGED <<workers, failures, request, frame, sent, final>>

\* a success leaves error_code of the worker before as it was
Late(o) ==
  LET d == First(todo)
      asked == IF request[d] # NoRequest THEN request[d]
               ELSE [kind |-> "INFEASIBLE_DAY", poi |-> NoPlan, to |-> 0]
  IN  /\ stage = "late" /\ todo # {}
      /\ todo' = todo \ {d}
      /\ Gain(d, o)
      /\ request' = [request EXCEPT ![d] = IF Ok(d, o) THEN @
                                           ELSE IF o.request = NoRequest THEN NoRequest
                                           ELSE asked]
      /\ DrainTerminal({d})
      /\ UNCHANGED <<stage, workers, failures, frame, final>>

\* days withdrawn in this stage and not planned again go back, in order
Undo ==
  LET left == {d \in Days : undo[d] # NoPlan}
  IN  /\ stage \in {"late", "redo"} /\ todo = {} /\ left # {}
      /\ RollBack(First(left))
      /\ request' = [request EXCEPT ![First(left)] = NoRequest]
      /\ UNCHANGED <<stage, workers, todo, failures, frame, steering, final, owed>>

EndLate ==
  /\ stage = "late" /\ todo = {} /\ \A d \in Days : undo[d] = NoPlan
  /\ stage' = "negotiate"
  /\ UNCHANGED <<workers, todo, failures, plans, request, frame, steering, final, owed>>

\* the skeleton is changed for the days whose worker asked for it, and the days
\* that touches are withdrawn and planned again
Negotiate ==
  LET outcome == Amended(request)
  IN  /\ stage = "negotiate"
      /\ Invalidate(outcome.days)
      /\ skeleton' = outcome.sk
      /\ locked' = IF outcome.days = {} THEN locked ELSE Locked(outcome.sk)
      /\ todo' = outcome.days
      /\ request' = [d \in Days |-> NoRequest]
      /\ stage' = "redo"
      /\ UNCHANGED <<workers, failures, steering, final, owed>>

\* mutant: a day is planned again until a worker succeeds
RedoUntilPlanned(o) ==
  LET d == First(todo)
  IN  /\ stage = "redo" /\ todo # {}
      /\ todo' = IF Ok(d, o) THEN todo \ {d} ELSE todo
      /\ Gain(d, o)
      /\ DrainTerminal({d})
      /\ UNCHANGED <<stage, workers, failures, request, frame, final>>

Redo(o) ==
  LET d == First(todo)
  IN  /\ stage = "redo" /\ todo # {}
      /\ todo' = todo \ {d}
      /\ Gain(d, o)
      /\ DrainTerminal({d})
      /\ UNCHANGED <<stage, workers, failures, request, frame, final>>

-----------------------------------------------------------------------------
(* Validation and repair *)

LocalIssues(f) ==
  {d \in Days : f[d] # NoPlan /\ (~f[d].fits \/ ~(locked[d] \subseteq f[d].pois))}

\* every day but the first of those that have a point in common
CrossIssues(f) ==
  {d \in Days : f[d] # NoPlan /\ \E e \in 1..(d - 1) :
                  f[e] # NoPlan /\ f[e].pois \cap f[d].pois # {}}

Delivery == IF Won(kept) # {} THEN kept ELSE won

Validate ==
  LET local == LocalIssues(Delivery) \ CrossIssues(Delivery)
  IN  /\ stage = "redo" /\ todo = {} /\ \A d \in Days : undo[d] = NoPlan
      /\ final' = Delivery
      /\ todo' = IF local # {} THEN local ELSE CrossIssues(Delivery)
      /\ work' = [d \in Days |-> IF d \in local THEN "queued" ELSE "idle"]
      /\ stage' = IF local # {} THEN "local" ELSE "serial"
      /\ UNCHANGED <<result, batch, failures, plans, request, frame, steering, owed>>

\* _run_repair_worker up to the worker: the day's claims are given up, its file
\* and its place in the delivery are not
StartRepair(d) ==
  /\ \/ stage = "local" /\ work[d] = "queued"
     \/ stage = "serial" /\ todo # {} /\ d = First(todo) /\ work[d] = "idle"
  /\ work' = [work EXCEPT ![d] = "active"]
  /\ undo' = [undo EXCEPT ![d] = kept[d]]
  /\ board' = Released(board, {d})
  /\ restored' = restored \ {d}
  /\ owed' = owed \ {d}
  /\ UNCHANGED <<stage, result, batch, todo, failures, kept, won, request, frame, steering, final>>

\* the worker's plan is accepted or not while other repairs still run
EndRepair(d, o) ==
  /\ stage = "local" /\ work[d] = "active"
  /\ Settle(d, o)
  /\ work' = [work EXCEPT ![d] = "finished"]
  /\ UNCHANGED <<stage, result, batch, todo, failures, won, request, frame, steering, final, owed>>

ReclaimedAnyway(b, S) ==
  FoldLeft(LAMBDA acc, d : IF d \in S THEN Claimed(acc, d, final[d]) ELSE acc, b, InOrder)
\* _apply_repair_result for the days of S in order: replaced, or put back
Reclaimed(b, S) ==
  FoldLeft(LAMBDA acc, d : IF d \in S /\ final[d] # NoPlan /\ CanClaim(acc, d, final[d])
                           THEN Claimed(acc, d, final[d]) ELSE acc,
           b, InOrder)

ApplyLocal ==
  LET failed == {d \in todo : undo[d] # NoPlan}
      kept2 == [d \in Days |-> IF d \in failed THEN undo[d] ELSE kept[d]]
      final2 == [d \in Days |-> IF d \in todo \ failed THEN kept[d] ELSE final[d]]
  IN  /\ stage = "local" /\ \A d \in todo : work[d] = "finished"
      /\ kept' = kept2
      /\ final' = final2
      /\ board' = Reclaimed(board, failed)
      /\ undo' = [d \in Days |-> NoPlan]
      /\ restored' = restored \cup failed
      /\ work' = [d \in Days |-> "idle"]
      /\ todo' = CrossIssues(final2) \ todo
      /\ stage' = "serial"
      /\ DrainTerminal({})
      /\ UNCHANGED <<result, batch, failures, won, request, frame>>

SerialRepair(o) ==
  LET d == First(todo)
      ok == Ok(d, o)
  IN  /\ stage = "serial" /\ todo # {} /\ work[d] = "active"
      /\ kept' = IF ok THEN [kept EXCEPT ![d] = o.plan] ELSE [kept EXCEPT ![d] = undo[d]]
      /\ final' = IF ok THEN [final EXCEPT ![d] = o.plan] ELSE final
      /\ board' = IF ok THEN Claimed(board, d, o.plan) ELSE Reclaimed(board, {d})
      /\ undo' = [undo EXCEPT ![d] = NoPlan]
      /\ restored' = IF ok THEN restored ELSE restored \cup {d}
      /\ work' = [work EXCEPT ![d] = "idle"]
      /\ todo' = todo \ {d}
      /\ DrainTerminal({})
      /\ UNCHANGED <<stage, result, batch, failures, won, request, frame>>

Finish ==
  /\ stage = "serial" /\ todo = {}
  /\ stage' = "done"
  /\ UNCHANGED <<workers, todo, failures, plans, request, frame, steering, final, owed>>

-----------------------------------------------------------------------------
\* POST /steer while the run goes on.  A message names no day or one day, which
\* the trip need not have; one that names two acts like two drained together
Steer(names) ==
  /\ stage # "done" /\ sent < MaxSteer
  /\ sent' = sent + 1
  /\ inbox' = inbox \cup {names}
  /\ UNCHANGED <<stage, workers, todo, failures, plans, request, frame, redo, final, owed>>

RunStep ==
  \/ TakeBatch \/ EndCollect \/ SkipRetry \/ EndRetry \/ Undo \/ EndLate
  \/ Negotiate \/ Validate \/ ApplyLocal \/ Finish
  \/ \E d \in Days : StartWorker(d) \/ Collect(d) \/ StartRepair(d)
  \/ \E o \in Outcomes : Retry(o) \/ Late(o) \/ Redo(o) \/ SerialRepair(o)
  \/ \E d \in Days, o \in Outcomes : FinishWorker(d, o) \/ EndRepair(d, o)

Next == RunStep \/ \E names \in {{}} \cup {{d} : d \in 1..(NDays + 1)} : Steer(names)

\* every worker ends, at the latest by asyncio.timeout, and run() goes on
Fairness == WF_vars(RunStep)

Spec == Init /\ [][Next]_vars /\ Fairness

-----------------------------------------------------------------------------
TypeOK ==
  /\ stage \in {"collect", "retry", "late", "negotiate", "redo", "local", "serial", "done"}
  /\ work \in [Days -> {"queued", "active", "finished", "idle"}]
  /\ result \in [Days -> Outcomes]
  /\ batch \subseteq Days /\ todo \subseteq Days /\ failures \in Seq(Days)
  /\ {kept, won, undo, final} \subseteq [Days -> Plans \cup {NoPlan}]
  /\ board \in [owner : [Pois -> 0..NDays], cost : [Days -> 0..Budget]]
  /\ request \in [Days -> Requests]
  /\ skeleton \in [Days -> [locked : Seq(Pois), cand : Seq(Pois)]]
  /\ locked \in [Days -> SUBSET Pois]
  /\ inbox \subseteq SUBSET (1..(NDays + 1)) /\ sent \in 0..MaxSteer
  /\ redo \subseteq Days /\ restored \subseteq Days /\ owed \subseteq Days

\* what is left of the run: its stages, then the work of the current one.  A
\* worker of a parallel stage has its start, its end and the collection of its
\* result before it; a serial day its worker, and a withdrawn one its rollback
WorkIn(states) == Cardinality({d \in Days : work[d] \in states})

StagesLeft ==
  CASE stage = "collect" -> 7 [] stage = "retry" -> 6 [] stage = "late" -> 5
    [] stage = "negotiate" -> 4 [] stage = "redo" -> 3 [] stage = "local" -> 2
    [] stage = "serial" -> 1 [] OTHER -> 0

WorkLeft ==
  CASE stage \in {"collect", "local"} ->
         WorkIn({"queued"}) + WorkIn({"queued", "active"})
           + 2 * WorkIn({"queued", "active", "finished"}) + (IF batch = {} THEN 1 ELSE 0)
    [] stage = "retry" -> Len(failures)
    [] stage \in {"late", "redo"} ->
         Cardinality(todo) + Cardinality({d \in Days : undo[d] # NoPlan})
    [] stage = "serial" -> Cardinality(todo) + Cardinality({d \in todo : work[d] = "idle"})
    [] OTHER -> 0

Left == <<StagesLeft, WorkLeft>>

Below(new, old) ==
  /\ new \in Nat \X Nat
  /\ new[1] < old[1] \/ (new[1] = old[1] /\ new[2] < old[2])

(* The promise of DayClaims, for every interleaving of workers, steering,
   renegotiation and repairs.  A day whose claims are given up for a repair
   counts as withdrawn until its worker's plan is accepted or its old plan is
   put back. *)
Claims == INSTANCE DayClaims WITH
  held <- [d \in Days |-> IF stage \in {"local", "serial"} /\ undo[d] # NoPlan
                          THEN NoPlan ELSE kept[d]],
  before <- undo,
  over <- stage = "done"
ImplementsClaims == Claims!Spec

(* The candidate files and the list of successes are written in different
   places, by acceptances, withdrawals and rollbacks.  Until the delivery is
   read from the files they never disagree, so no day that succeeded is missing
   from it and no day that failed is in it; afterwards the delivery agrees with
   the files again once all repairs are applied. *)
PlansAgree ==
  /\ stage \notin {"local", "serial", "done"} => kept = won
  /\ stage = "done" => final = kept

(* Every point in an accepted plan is claimed by its day on the blackboard,
   unless that plan was put back after another day took the point. *)
ClaimsBacked ==
  \A d \in Days \ restored :
    kept[d] # NoPlan /\ (stage \in {"local", "serial"} => undo[d] = NoPlan) =>
      \A p \in kept[d].pois : board.owner[p] = d

(* A day that was planned when a steering message for it was drained is really
   planned again: the flag set in the parallel or the retry stage is consumed
   before renegotiation and the last stages. *)
FlagsConsumed == stage \in {"late", "negotiate", "redo", "local", "serial", "done"} => redo = {}

(* Whatever workers answer and whenever messages come, the run ends: no day is
   withdrawn, retried or repaired for ever. *)
RunEnds == <>(stage = "done")

(* Every step of the run brings what is left of it down, and a message leaves it
   as it is: redispatches, renegotiation, rollbacks and repairs never bring the
   run back to where it was, however messages and failures meet. *)
RunAdvances ==
  [][Below(Left', Left) \/ (sent' = sent + 1 /\ Left' = Left)]_vars

(* _drain_steering says of a day not planned yet that the message is kept "for
   the following retry/redispatch" (orchestrator.py:694): a worker for the day
   starts after the user was told it would be changed. *)
SteerHonoured == stage = "done" => owed = {}
=============================================================================
