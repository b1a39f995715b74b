----------------------------- MODULE DayWorker -----------------------------
(* The loop of one day worker (agent/phase3/day_worker.py, run_day_worker) with
   the part of tools/engine.py that runs its calls: rounds of a model answer
   and a batch of calls, the guards that force an early plan, what failing
   tools switch off, the submission of a plan, the text fallback, and a timeout
   or an exception at any await.

   Data: a plan is a member of Plans; NoPlan in a submission or a text stands
   for one that does not parse or does not pass the checks.  A lookup is a
   tool and the key it asks for. *)
EXTENDS WorkerContract, Sequences, FiniteSets, SequencesExt

CONSTANTS
  Me,           \* task.day
  MaxIter,      \* max_iterations
  MaxSame,      \* _MAX_SAME_QUERY
  MaxRecovery,  \* _MAX_POI_RECOVERY
  Keys,         \* queries, points and routes asked for
  MaxCalls,     \* bound: calls of one answer
  Silent        \* an answer without text

ASSUME MeAssumption == Me \in Days
ASSUME LimitsAssumption ==
  /\ MaxIter \in Nat /\ MaxCalls \in Nat \ {0}
  /\ MaxSame \in Nat /\ MaxRecovery \in Nat
ASSUME KeysAssumption == IsFiniteSet(Keys)
ASSUME SilentAssumption == Silent \notin Plans \cup {NoPlan}

VARIABLES
  pc,         \* "ask" before a model call, "act" in execute_batch, "done"
  iter,       \* iterations
  repair,     \* emit_repair_attempted / repair_round_pending: "none", "pending", "used"
  forced,     \* forced_emit_mode
  same,       \* repeated_query_counts
  chain,      \* poi_recovery_counts
  noRoute,    \* failed_route_fingerprints
  xhsOff,     \* xiaohongshu_disabled
  submitted,  \* submitted_dayplan
  file,       \* the plan in this attempt's candidate file
  said,       \* plan in the last assistant message that has text
  batch,      \* calls of execute_batch; their results are read together
  out,        \* DayWorkerResult
  how,        \* history: what ended the worker
  ran         \* history: lookups executed in batches without a submission

guards == <<repair, forced, same, chain>>
tools == <<noRoute, xhsOff, ran>>
output == <<submitted, file, out, how>>
vars == <<pc, iter, guards, tools, output, said, batch>>

Lookup == [tool : {"web_search", "get_poi_info", "calculate_route"}, key : Keys]
Note == [tool : {"xiaohongshu"}, key : Keys]
Submission == [tool : {"submit"}, plan : Plans \cup {NoPlan}]
Report == [tool : {"report"}, request : Requests \ {NoRequest}]
Calls == Lookup \cup Note \cup Submission \cup Report

\* _tool_recovery_key: searches and points share their keys, a route has its own
RecoveryKeys == Keys \X {"place", "route"}
RecoveryKey(call) ==
  <<call.key, IF call.tool = "calculate_route" THEN "route" ELSE "place">>

Has(calls, tool) == \E i \in DOMAIN calls : calls[i].tool = tool
Texts == Plans \cup {NoPlan, Silent}

TypeOK ==
  /\ pc \in {"ask", "act", "done"}
  /\ iter \in Nat
  /\ repair \in {"none", "pending", "used"}
  /\ forced \in BOOLEAN /\ xhsOff \in BOOLEAN
  /\ same \in [Lookup -> Nat] /\ ran \in [Lookup -> Nat]
  /\ chain \in [RecoveryKeys -> Nat]
  /\ noRoute \subseteq Keys
  /\ {submitted, file, said} \subseteq Plans \cup {NoPlan}
  /\ batch \subseteq Calls
  /\ out \in Outcomes
  /\ how \in {"running", "self", "report", "timeout", "exception"}

-----------------------------------------------------------------------------
(* The convergence guards: the calls of an answer are counted one after the
   other until a count passes its limit. *)

CountedLoose(c, call) ==
  IF c.over \/ call \notin Lookup THEN c
  ELSE LET n == c.same[call] + 1
       IN  [over |-> n > MaxSame + 1, chain |-> c.chain,
            same |-> [c.same EXCEPT ![call] = n]]

\* one call: the query's count, then, if it is within its limit, the key's
Counted(c, call) ==
  IF c.over \/ call \notin Lookup THEN c
  ELSE LET n == c.same[call] + 1
           k == c.chain[RecoveryKey(call)] + 1
       IN  IF n > MaxSame
           THEN [c EXCEPT !.same[call] = n, !.over = TRUE]
           ELSE [over |-> k > MaxRecovery,
                 same |-> [c.same EXCEPT ![call] = n],
                 chain |-> [c.chain EXCEPT ![RecoveryKey(call)] = k]]

Counts(calls) ==
  FoldLeft(Counted, [over |-> FALSE, same |-> same, chain |-> chain], calls)

\* the call reaches tool_engine.execute_batch
Reaches(call) ==
  /\ call.tool \notin {"submit", "report"}
  /\ call.tool = "calculate_route" => call.key \notin noRoute
  /\ call.tool = "xiaohongshu" => ~xhsOff

\* where an answer submits a plan that passes the checks
Valid(call) == call.plan # NoPlan
Submitted(calls) == {i \in DOMAIN calls : calls[i].tool = "submit" /\ Valid(calls[i])}

\* the request of the first report of an answer
Reported(calls) == calls[Min({i \in DOMAIN calls : calls[i].tool = "report"})].request

-----------------------------------------------------------------------------
Init ==
  /\ pc = "ask" /\ iter = 0 /\ repair = "none" /\ forced = FALSE
  /\ same = [l \in Lookup |-> 0] /\ ran = [l \in Lookup |-> 0]
  /\ chain = [k \in RecoveryKeys |-> 0]
  /\ noRoute = {} /\ xhsOff = FALSE
  /\ submitted = NoPlan /\ file = NoPlan /\ said = NoPlan /\ batch = {}
  /\ out = [plan |-> NoPlan, wrote |-> FALSE, request |-> NoRequest]
  /\ how = "running"

Result(plan, request) == [plan |-> plan, wrote |-> file' # NoPlan, request |-> request]

\* the worker returns
End(reason, plan, request) ==
  /\ pc' = "done" /\ how' = reason
  /\ out' = Result(plan, request)

\* the condition of the while loop, and the granted round it uses up
Round ==
  /\ pc = "ask"
  /\ iter < MaxIter \/ repair = "pending"
  /\ iter' = iter + 1

Spent == IF repair = "pending" THEN "used" ELSE repair

RepairAlways == TRUE

RepairLeft == repair = "none"

\* the plan that was submitted, whatever the last text says
Deliver ==
  /\ submitted # NoPlan
  /\ UNCHANGED <<submitted, file>>
  /\ End("self", submitted, NoRequest)

TextFallbackUnstored(text) ==
  /\ submitted = NoPlan
  /\ UNCHANGED <<submitted, file>>
  /\ End("self", IF text \in Plans THEN text ELSE NoPlan, NoRequest)

\* _accept_text_fallback_dayplan: a plan in a text is checked and stored as a
\* submitted one is
TextFallback(text) ==
  /\ submitted = NoPlan
  /\ file' = IF text \in Plans THEN text ELSE file
  /\ UNCHANGED submitted
  /\ End("self", IF text \in Plans THEN text ELSE NoPlan, NoRequest)

Heard(text) == said' = IF text = Silent THEN said ELSE text

\* an answer without calls ends the worker, unless it has no plan and the one
\* repair round is left
AnswerText(text) ==
  /\ Round /\ Heard(text)
  /\ \/ Deliver /\ repair' = Spent
     \/ /\ text \in Plans \/ ~RepairLeft
        /\ TextFallback(text) /\ repair' = Spent
     \/ /\ submitted = NoPlan /\ text \notin Plans /\ RepairLeft
        /\ repair' = "pending" /\ UNCHANGED <<pc, output>>
  /\ UNCHANGED <<forced, same, chain, tools, batch>>

CountCalls(calls) ==
  LET c == Counts(calls)
  IN  same' = c.same /\ chain' = c.chain /\ forced' = (forced \/ c.over)

\* forced emit: every call of an answer without a submission is skipped
SkipCalls(text, calls) ==
  /\ Round /\ Heard(text) /\ repair' = Spent
  /\ CountCalls(calls)
  /\ forced' /\ ~Has(calls, "submit")
  /\ UNCHANGED <<pc, tools, output, batch>>

\* a report that the skeleton does not work ends the worker before any other
\* call of the answer runs
ReportInfeasible(text, calls) ==
  /\ Round /\ Heard(text) /\ repair' = Spent
  /\ CountCalls(calls)
  /\ ~forced' \/ Has(calls, "submit")
  /\ Has(calls, "report")
  /\ UNCHANGED <<submitted, file, tools, batch>>
  /\ End("report", NoPlan, Reported(calls))

\* submissions are checked and stored at once, the other calls go to the engine
RunCalls(text, calls) ==
  /\ Round /\ Heard(text) /\ repair' = Spent
  /\ CountCalls(calls)
  /\ ~forced' \/ Has(calls, "submit")
  /\ ~Has(calls, "report")
  /\ LET stored == Submitted(calls)
     IN  /\ file' = IF stored = {} THEN file ELSE calls[Max(stored)].plan
         /\ submitted' = IF stored = {} THEN submitted ELSE calls[Max(stored)].plan
  /\ batch' = {call \in Range(calls) : Reaches(call)}
  /\ pc' = IF batch' = {} THEN "ask" ELSE "act"
  /\ ran' = [l \in Lookup |->
               IF Has(calls, "submit") \/ ~Reaches(l) THEN ran[l]
               ELSE ran[l] + Cardinality({i \in DOMAIN calls : calls[i] = l})]
  /\ UNCHANGED <<noRoute, xhsOff, out, how>>

\* ToolEngine.execute: what the worker tells apart of a result
ResultsOf(call) ==
  CASE call.tool = "calculate_route" -> {"other", "NO_ROUTE"}
    [] call.tool = "xiaohongshu" -> {"other", "unavailable"}
    [] OTHER -> {"other"}

\* execute_batch returns: a route without result is not looked up again, and
\* the first auth failure switches the xiaohongshu tools off
EndBatch ==
  /\ pc = "act"
  /\ \E failed \in SUBSET {call \in batch : ResultsOf(call) # {"other"}} :
       /\ noRoute' = noRoute \cup {call.key : call \in {c \in failed : c.tool = "calculate_route"}}
       /\ xhsOff' = (xhsOff \/ \E call \in failed : call.tool = "xiaohongshu")
  /\ pc' = "ask" /\ batch' = {}
  /\ UNCHANGED <<iter, guards, output, said, ran>>

\* the loop is over: the submitted plan, else a plan in the last text
Exhausted ==
  /\ pc = "ask" /\ iter >= MaxIter /\ repair # "pending"
  /\ Deliver \/ TextFallback(said)
  /\ UNCHANGED <<iter, guards, tools, said, batch>>

\* asyncio.timeout or an exception at an await: a failure, the file stays
Break ==
  /\ pc # "done"
  /\ UNCHANGED <<iter, guards, tools, submitted, file, said, batch>>
  /\ \E reason \in {"timeout", "exception"} : End(reason, NoPlan, NoRequest)

Answers == UNION {[1..n -> Calls] : n \in 1..MaxCalls}

Next ==
  \/ \E text \in Texts :
       \/ AnswerText(text)
       \/ \E calls \in Answers :
            \/ SkipCalls(text, calls)
            \/ ReportInfeasible(text, calls)
            \/ RunCalls(text, calls)
  \/ EndBatch
  \/ Exhausted
  \/ Break

Spec == Init /\ [][Next]_vars

-----------------------------------------------------------------------------
(* Properties *)

(* What the orchestrator assumes of a worker (Outcomes), and more: the plan a
   worker hands over is the one in its file, so that the orchestrator, which
   reads the files, and the worker speak of the same plan; and a worker that is
   not cut off hands over every plan it stored, whatever it said afterwards. *)
ContractKept ==
  pc = "done" =>
    /\ out \in Outcomes
    /\ out.plan # NoPlan => out.plan = file
    /\ how = "self" /\ file # NoPlan => out.plan = file

(* The budget the prompt announces (_MAX_SAME_QUERY, _MAX_POI_RECOVERY) is kept
   in all answers that do not submit a plan: a query runs at most MaxSame
   times, and a key is looked up at most MaxRecovery times by all tools. *)
LookupsBounded ==
  /\ \A l \in Lookup : ran[l] <= MaxSame
  /\ \A k \in RecoveryKeys :
       FoldFunctionOnSet(+, 0, ran, {l \in Lookup : RecoveryKey(l) = k}) <= MaxRecovery

(* The one repair round is all a worker gets beyond max_iterations, whenever it
   is granted and whatever the answer to it is. *)
RoundsBounded == iter <= MaxIter + 1
=============================================================================
