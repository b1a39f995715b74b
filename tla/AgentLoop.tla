----------------------------- MODULE AgentLoop -----------------------------
(* The agent loop of one session, run after run: agent/loop.py with the modules
   it drives (agent/execution/*, agent/steering.py, agent/phase3/parallel.py),
   the tool engine's batch, a provider's stream with its retries, and what
   /chat, /continue, /cancel and /steer do to a run in progress.

   Data: a plan is what the phase router, the repair hints and the parallel
   gate look at; an entry of the runtime messages is a group of tool calls, one
   tool result or a notice; user messages, texts and what was sent with an
   earlier request are dropped.  Phase 1 is left out: its only step, to phase 2,
   goes the way of the others.  The day orchestrator only starts and hands over
   here; Phase3Orchestrator models it. *)
EXTENDS Integers, Sequences, FiniteSets, SequencesExt, FiniteSetsExt

CONSTANTS
  Queries,        \* search queries
  HistorySize,    \* SearchHistoryTracker.max_size
  MaxIterations,  \* AgentLoopLimits.max_iterations
  MaxRetries,     \* max_conn_retries
  QueueSize,      \* MAX_STEER_QUEUE_SIZE
  Answers,        \* bound: the tool calls one answer of the model may hold
  Restored,       \* plans a session may begin with
  MaxRuns         \* bound: runs of the session

ASSUME BoundsAssumption ==
  /\ {HistorySize, MaxIterations, QueueSize} \subseteq Nat \ {0}
  /\ {MaxRetries, MaxRuns} \subseteq Nat

\* An ordinary call is known by what the loop does with it.
Search(q) == [tool |-> "web_search", arg |-> q]
Call(tool) == [tool |-> tool, arg |-> "none"]
Write == Call("set_plan_field")
Refused == Call("refused_write")
Backtrack == Call("request_backtrack")
Commit(days) == [tool |-> "commit_days", arg |-> days]
Calls == {Search(q) : q \in Queries} \cup {Write, Refused, Backtrack}
           \cup {Commit(days) : days \in {"some", "all"}}
ASSUME AnswersAssumption == Answers \subseteq Seq(Calls)

VARIABLES
  pc,        \* where the loop is: see TypeOK
  plan,      \* the session's TravelPlanState
  offered,   \* tools: <<phase, step>> of get_tools_for_phase
  messages,  \* runtime messages since the last request
  recent,    \* SearchHistoryTracker.recent_queries
  iter,      \* iteration
  hints,     \* repair_hints_used
  progress,  \* agent.progress
  turn,      \* the LLM turn in progress
  batch,     \* the tool batch in progress
  cancel,    \* _cancel_event is set
  queue,     \* messages in _steer_queue
  resume,    \* continuation context of _current_run, "none" without one
  terms,     \* what the run in progress was started with
  runs,      \* history: runs started
  owed,      \* history: accepted steering messages without an acknowledgement
  searched,  \* history: times each query was executed, up to 3
  late       \* history: what was started after the run's cancel

session == <<plan, offered, messages, recent, resume>>
control == <<cancel, queue, owed>>
loop == <<iter, hints, progress, turn, batch>>
vars == <<pc, session, control, loop, terms, runs, searched, late>>

-----------------------------------------------------------------------------
(* The plan. *)
Plans == [phase : 2..4, step : {"brief", "skeleton", "lock"},
          skeleton : {"none", "short", "fits"}, stay : BOOLEAN,
          days : {"none", "some", "all"}]

ASSUME RestoredAssumption == Restored \subseteq Plans

Step(p) == IF p.phase = 2 /\ p.skeleton = "none" THEN "skeleton" ELSE "lock"
Synced(p) == [p EXCEPT !.step = Step(p)]

Inferred(p) ==
  IF p.skeleton # "fits" \/ ~p.stay THEN 2
  ELSE IF p.days # "all" THEN 3 ELSE 4

ToolsOf(p) == <<p.phase, IF p.phase = 2 THEN p.step ELSE "any">>

\* What one successful plan writer may leave of the plan.
Saved(p) ==
  CASE p.phase = 2 -> {[p EXCEPT !.skeleton = s] : s \in {"short", "fits"}}
                        \cup {[p EXCEPT !.stay = TRUE]}
    [] p.phase = 3 -> {[p EXCEPT !.days = d] : d \in {"some", "all"}}
    [] OTHER -> {p}

\* request_backtrack to phase 2: the phase's products and step are reset.
NoPlan == [phase |-> 2, step |-> "brief", skeleton |-> "none",
           stay |-> FALSE, days |-> "none"]

After(call, p) ==
  CASE call.tool = "commit_days" -> {[p EXCEPT !.days = call.arg]}
    [] call.tool = "request_backtrack" -> {NoPlan}
    [] OTHER -> Saved(p)

\* A run has a time budget by the phase it starts in; whether it may plan the
\* days in parallel is for the settings and the words of its first message.
NoTerms == [timed |-> FALSE, parallel |-> FALSE]

ParallelNow ==
  terms.parallel /\ plan.phase = 3 /\ plan.days = "none" /\ plan.skeleton # "none"

-----------------------------------------------------------------------------
(* Runtime messages. *)
Entry(role, n) == [role |-> role, n |-> n]
Notice == Entry("notice", 0)

Closed(msgs, i) ==
  \A k \in 1..msgs[i].n :
    i + k \in DOMAIN msgs /\ msgs[i + k] = Entry("result", k)
OpenGroups(msgs) ==
  {i \in DOMAIN msgs : msgs[i].role = "calls" /\ ~Closed(msgs, i)}
Strays(msgs) ==
  {i \in DOMAIN msgs :
    /\ msgs[i].role = "result"
    /\ ~\E j \in 1..(i - 1) :
          /\ msgs[j].role = "calls" /\ i - j <= msgs[j].n
          /\ \A k \in (j + 1)..i : msgs[k] = Entry("result", k - j)}

-----------------------------------------------------------------------------
(* What happens to a call before it is executed. *)
Occurrences(history, q) == Cardinality({i \in DOMAIN history : history[i] = q})

Latest(h) ==
  IF Len(h) > HistorySize THEN SubSeq(h, Len(h) - HistorySize + 1, Len(h)) ELSE h
Pushed(history, q) == Latest(Append(history, q))

\* mutant: one search too many
RedundantLate(history, q) == Occurrences(history, q) >= 3
Redundant(history, q) == Occurrences(history, q) >= 2

\* pre_execution_skip_result: every look at a search is remembered
Skipped(call, history) ==
  \/ call.tool = "refused_write"
  \/ call.tool = "web_search" /\ Redundant(history, call.arg)
Seen(call, history) ==
  IF call.tool = "web_search" THEN Pushed(history, call.arg) ELSE history
ParallelRead(call) == call.tool = "web_search"

\* The history after a look at n searches, from a call on.
Looked(calls, at, n, history) ==
  Latest(history \o [k \in 1..n |-> calls[at + k - 1].arg])

\* The scan for a parallel group takes its next call.
Joins(calls, at, n, history) ==
  /\ at + n <= Len(calls) /\ ParallelRead(calls[at + n])
  /\ ~Skipped(calls[at + n], Looked(calls, at, n, history))

\* It begins with the call already looked at, and looks at the one it stops at.
Scan(calls, at, history) ==
  LET n == Min({k \in 0..Len(calls) : ~Joins(calls, at, k, history)})
      seen == Looked(calls, at, n, history)
  IN  [group |-> [k \in 1..n |-> at + k - 1],
       seen |-> IF at + n <= Len(calls) THEN Seen(calls[at + n], seen) ELSE seen]

NoTurn == [attempt |-> 0, text |-> "none", calls |-> <<>>, emitted |-> FALSE]
NoBatch == [calls |-> <<>>, at |-> 1, ready |-> <<>>, saw |-> FALSE,
            back |-> FALSE, auto |-> FALSE, progress |-> "no_output"]
BatchOf(calls, auto) ==
  [NoBatch EXCEPT !.calls = calls, !.auto = auto, !.progress = progress]

\* Work begun after the cancel: requests, sequential calls, groups of searches
\* and runs of the day orchestrator.
Nothing == [requests |-> 0, calls |-> 0, reads |-> 0, plannings |-> 0]
Started(work) == late' = IF cancel THEN [late EXCEPT ![work] = @ + 1] ELSE late

TypeOK ==
  /\ pc \in {"idle", "top", "plan", "steer", "ask", "stream", "batch", "exec", "leave"}
  /\ plan \in Plans
  /\ offered \in (2..4) \X {"brief", "skeleton", "lock", "any"}
  /\ \A i \in DOMAIN messages :
       messages[i] \in [role : {"calls", "result", "notice"}, n : Nat]
  /\ recent \in Seq(Queries) /\ Len(recent) <= HistorySize
  /\ iter \in 0..MaxIterations
  /\ progress \in {"no_output", "partial_text", "partial_tool_call",
                   "tools_read_only", "tools_with_writes"}
  /\ batch.at \in 1..(Len(batch.calls) + 1)
  /\ turn.attempt \in 0..(MaxRetries + 1)
  /\ queue \in 0..QueueSize /\ owed \in Int
  /\ searched \in [Queries -> 0..3]

Init ==
  /\ pc = "idle" /\ plan \in Restored /\ offered = ToolsOf(plan)
  /\ messages = <<>> /\ recent = <<>> /\ resume = "none"
  /\ iter = 0 /\ hints = {} /\ progress = "no_output"
  /\ turn = NoTurn /\ batch = NoBatch
  /\ cancel = FALSE /\ queue = 0 /\ owed = 0
  /\ runs = 0 /\ searched = [q \in Queries |-> 0]
  /\ terms = NoTerms /\ late = Nothing

-----------------------------------------------------------------------------
(* Requests of the client. *)
StartRun ==
  /\ pc = "idle" /\ runs < MaxRuns
  /\ runs' = runs + 1
  /\ pc' = "top" /\ iter' = 0 /\ hints' = {} /\ progress' = "no_output"
  /\ turn' = NoTurn /\ batch' = NoBatch /\ cancel' = FALSE /\ queue' = 0
  /\ terms' \in {[timed |-> plan.phase # 3, parallel |-> b] : b \in BOOLEAN}
  /\ resume' = "none"
  /\ UNCHANGED <<messages, recent, owed, searched, late>>

Chat ==
  /\ StartRun
  /\ plan' = Synced(plan) /\ offered' = ToolsOf(Synced(plan))

\* /continue answers 400 for a context it does not know
Continue ==
  /\ resume # "none"
  /\ StartRun
  /\ plan' = plan /\ offered' = ToolsOf(plan)

Cancel ==
  /\ pc # "idle" /\ ~cancel
  /\ cancel' = TRUE
  /\ UNCHANGED <<pc, session, loop, queue, owed, runs, terms, searched, late>>

Steer ==
  /\ pc # "idle" /\ queue < QueueSize     \* else 429
  /\ queue' = queue + 1 /\ owed' = owed + 1
  /\ UNCHANGED <<pc, session, loop, cancel, runs, terms, searched, late>>

-----------------------------------------------------------------------------
(* The end of a run.  The queue is closed: what is left in it is rejected with
   an acknowledgement, or logged if the client has gone. *)
\* mutant: the queue is thrown away
AckQueueSilent == queue' = 0 /\ UNCHANGED owed

AckQueue == owed' = owed - queue /\ queue' = 0

Close(offer) ==
  /\ pc' = "idle"
  /\ AckQueue
  /\ resume' = offer
  /\ messages' = <<>>
  /\ turn' = NoTurn /\ batch' = NoBatch /\ hints' = {} /\ iter' = 0
  /\ progress' = "no_output" /\ cancel' = FALSE
  /\ terms' = NoTerms /\ late' = Nothing
  /\ UNCHANGED <<plan, offered, recent, runs, searched>>

Finish == Close("none")
StopCancelled == cancel /\ Close("none")

\* apply_continuation_context
StopFailed ==
  Close(IF progress \in {"partial_text", "tools_read_only"} /\ turn.text # "none"
        THEN progress ELSE "none")

\* run_timeout; a run that starts in phase 3 has none
TimeOut == pc # "idle" /\ terms.timed /\ Close("none")

\* the client goes away while a chunk is being sent
Disconnect == pc # "idle" /\ Close("none")

-----------------------------------------------------------------------------
(* The top of an iteration. *)
StartBatch(calls, auto) ==
  /\ messages' = Append(messages, Entry("calls", Len(calls)))
  /\ batch' = BatchOf(calls, auto)
  /\ pc' = "batch"

\* The day orchestrator starts before the loop looks at the cancel event.
RunPhase3 ==
  /\ pc = "top" /\ ParallelNow
  /\ pc' = "plan"
  /\ Started("plannings")
  /\ UNCHANGED <<session, control, loop, runs, terms, searched>>

\* It drains the queue itself and hands over the days it has.
HandOver ==
  /\ pc = "plan"
  /\ \/ Finish
     \/ \E days \in {"some", "all"} :
          /\ StartBatch(IF days = "all" THEN <<Commit(days)>>
                        ELSE <<Commit(days), Commit(days)>>, TRUE)
          /\ AckQueue
          /\ UNCHANGED <<plan, offered, recent, resume, cancel, iter, hints,
                         progress, turn, runs, terms, searched, late>>

EnterIteration ==
  /\ pc = "top" /\ ~ParallelNow
  /\ IF iter = MaxIterations THEN Finish
     ELSE /\ pc' = "steer"
          /\ UNCHANGED <<session, control, loop, runs, terms, searched, late>>

\* mutant: iterations are not counted
DrainSteeringUncounted ==
  /\ pc = "steer"
  /\ IF cancel THEN StopCancelled
     ELSE /\ messages' = messages \o [i \in 1..queue |-> Notice]
          /\ AckQueue
          /\ pc' = "ask" /\ progress' = "no_output"
          /\ UNCHANGED <<plan, offered, recent, resume, iter, hints, turn, batch,
                         cancel, runs, terms, searched, late>>

DrainSteering ==
  /\ pc = "steer"
  /\ IF cancel THEN StopCancelled
     ELSE /\ messages' = messages \o [i \in 1..queue |-> Notice]
          /\ AckQueue
          /\ pc' = "ask" /\ iter' = iter + 1 /\ progress' = "no_output"
          /\ UNCHANGED <<plan, offered, recent, resume, hints, turn, batch,
                         cancel, runs, terms, searched, late>>

-----------------------------------------------------------------------------
(* One LLM turn. *)
Ask ==
  /\ pc = "ask"
  /\ messages' = <<>>
  /\ turn' = [NoTurn EXCEPT !.attempt = 1]
  /\ pc' = "stream"
  /\ Started("requests")
  /\ UNCHANGED <<plan, offered, recent, resume, control, iter, hints,
                 progress, batch, runs, terms, searched>>

Receive(t, p) ==
  /\ pc = "stream" /\ ~cancel
  /\ turn' = t /\ progress' = p
  /\ UNCHANGED <<pc, session, control, iter, hints, batch, runs, terms, searched, late>>

ReceiveText ==
  /\ turn.text = "none" /\ ~turn.emitted
  /\ \E text \in {"plain", "artifact"} :
       Receive([turn EXCEPT !.text = text],
               IF progress = "no_output" THEN "partial_text" ELSE progress)

\* the calls of an answer are sent together, when it has a finish reason
ReceiveCalls ==
  /\ ~turn.emitted
  /\ \E calls \in Answers :
       Receive([turn EXCEPT !.calls = @ \o calls, !.emitted = TRUE],
               "partial_tool_call")

Retry == turn.attempt <= MaxRetries /\ turn.text = "none"

\* mutant: attempts are not counted
ConnectionFailsUncounted ==
  /\ pc = "stream"
  /\ IF Retry
     THEN /\ turn' = [turn EXCEPT !.emitted = FALSE]
          /\ UNCHANGED <<pc, session, control, iter, hints, progress, batch, runs,
                         terms, searched, late>>
     ELSE StopFailed

\* the request goes out again without a look at the cancel event
ConnectionFails ==
  /\ pc = "stream"
  /\ IF Retry
     THEN /\ turn' = [turn EXCEPT !.attempt = @ + 1, !.emitted = FALSE]
          /\ Started("requests")
          /\ UNCHANGED <<pc, session, control, iter, hints, progress, batch, runs,
                         terms, searched>>
     ELSE StopFailed

StreamFails == pc = "stream" /\ StopFailed
StreamCancelled == pc = "stream" /\ StopCancelled

-----------------------------------------------------------------------------
(* An answer without calls ends the run unless it tells something the plan
   lacks and its hint was not used yet. *)
Unused(topic, times) ==
  LET left == {n \in 1..times : <<topic, n>> \notin hints}
  IN  IF left = {} THEN {} ELSE {<<topic, Min(left)>>}

MismatchHint ==
  IF plan.phase = 2 /\ plan.skeleton = "short" THEN Unused("mismatch", 1) ELSE {}

\* the lock step lacks several fields; the stay stands for them
StepHint ==
  IF /\ plan.phase = 2 /\ turn.text = "artifact"
     /\ plan.step = "skeleton" \/ (plan.step = "lock" /\ ~plan.stay)
  THEN Unused(plan.step, 2) ELSE {}

DailyHint ==
  IF plan.phase = 3 /\ turn.text = "artifact" /\ plan.days # "all"
  THEN Unused("daily", 1) ELSE {}

HintKeys ==
  IF MismatchHint # {} THEN MismatchHint ELSE StepHint \cup DailyHint

EndTurn ==
  /\ pc = "stream" /\ ~cancel
  /\ IF turn.calls # <<>>
     THEN /\ StartBatch(turn.calls, FALSE)
          /\ turn' = NoTurn
          /\ UNCHANGED <<plan, offered, recent, resume, control, iter, hints,
                         progress, runs, terms, searched, late>>
     ELSE IF HintKeys = {} THEN Finish
     ELSE /\ hints' = hints \cup HintKeys
          /\ messages' = Append(messages, Notice)
          /\ pc' = "top"
          /\ UNCHANGED <<plan, offered, recent, resume, control, iter,
                         progress, turn, batch, runs, terms, searched, late>>

-----------------------------------------------------------------------------
(* One tool batch. *)
More == batch.at <= Len(batch.calls) /\ batch.ready = <<>> /\ ~batch.back
Current == batch.calls[batch.at]

AfterRead(p) == IF p = "tools_with_writes" THEN p ELSE "tools_read_only"
Progressed(call, p) ==
  IF ParallelRead(call) THEN AfterRead(p) ELSE "tools_with_writes"

\* execute_batch runs the group concurrently, without a look at the cancel event;
\* its results come back in order
ReadGroup ==
  /\ pc = "batch" /\ More
  /\ ~Skipped(Current, recent) /\ ParallelRead(Current)
  /\ \E scan \in {Scan(batch.calls, batch.at, Seen(Current, recent))} :
       /\ recent' = scan.seen
       /\ searched' = [q \in Queries |-> 
            Min({3, searched[q] + Occurrences([i \in DOMAIN scan.group |->
                                      batch.calls[scan.group[i]].arg], q)})]
       /\ batch' = [batch EXCEPT !.ready = scan.group,
                                 !.at = @ + Len(scan.group)]
       /\ IF scan.group = <<>> THEN late' = late ELSE Started("reads")
  /\ UNCHANGED <<pc, plan, offered, messages, resume, control, iter, hints,
                 progress, turn, runs, terms>>

AnswerRead ==
  /\ pc = "batch" /\ batch.ready # <<>>
  /\ messages' = Append(messages, Entry("result", Head(batch.ready)))
  /\ batch' = [batch EXCEPT !.ready = Tail(@), !.progress = AfterRead(@)]
  /\ UNCHANGED <<pc, plan, offered, recent, resume, control, iter, hints,
                 progress, turn, runs, terms, searched, late>>

\* mutant: a skipped call gets no tool message
AnswerSkippedSilent ==
  /\ pc = "batch" /\ More /\ Skipped(Current, recent)
  /\ recent' = Seen(Current, recent)
  /\ batch' = [batch EXCEPT !.at = @ + 1, !.progress = Progressed(Current, @)]
  /\ UNCHANGED <<pc, plan, offered, messages, resume, control, iter, hints, progress,
                 turn, runs, terms, searched, late>>

AnswerSkipped ==
  /\ pc = "batch" /\ More /\ Skipped(Current, recent)
  /\ recent' = Seen(Current, recent)
  /\ messages' = Append(messages, Entry("result", batch.at))
  /\ batch' = [batch EXCEPT !.at = @ + 1, !.progress = Progressed(Current, @)]
  /\ UNCHANGED <<pc, plan, offered, resume, control, iter, hints, progress,
                 turn, runs, terms, searched, late>>

\* mutant: no check before a call
StartCallUnchecked ==
  /\ pc = "batch" /\ More
  /\ ~Skipped(Current, recent) /\ ~ParallelRead(Current)
  /\ pc' = "exec"
  /\ UNCHANGED <<session, control, loop, runs, terms, searched, late>>

StartCall ==
  /\ pc = "batch" /\ More
  /\ ~Skipped(Current, recent) /\ ~ParallelRead(Current)
  /\ IF cancel THEN StopCancelled
     ELSE /\ pc' = "exec"
          /\ UNCHANGED <<session, control, loop, runs, terms, searched, late>>

ExecuteCall ==
  /\ pc = "exec"
  /\ pc' = "batch"
  /\ messages' = Append(messages, Entry("result", batch.at))
  /\ Started("calls")
  /\ LET done == [batch EXCEPT !.at = @ + 1, !.progress = Progressed(Current, @)] IN
       \/ /\ batch' = done /\ UNCHANGED plan       \* the tool reports an error
       \/ /\ Current.tool = "request_backtrack" => plan.phase > 2
          /\ plan' \in After(Current, plan)
          /\ batch' = [done EXCEPT !.saw = TRUE,
                                   !.back = Current.tool = "request_backtrack"]
  /\ UNCHANGED <<offered, recent, resume, control, iter, hints, progress,
                 turn, runs, terms, searched>>

-----------------------------------------------------------------------------
(* The end of a batch: at most one phase transition, and a rebuild of the
   messages after it or after a change of the phase 2 step. *)
Rebuilt(p) ==
  /\ plan' = p /\ offered' = ToolsOf(p)
  /\ messages' = <<>>

Kept(p) == plan' = p /\ UNCHANGED <<offered, messages>>

\* mutant: a change of the phase 2 step rebuilds nothing
SettlePhaseOnly ==
  LET synced == IF batch.saw THEN Synced(plan) ELSE plan
      moved == Synced([synced EXCEPT !.phase = Inferred(plan)])
  IN  IF batch.back THEN Rebuilt(plan)
      ELSE \/ batch.saw /\ moved.phase # plan.phase /\ Rebuilt(moved)
           \/ Kept(synced)

\* detect_phase_transition; the gate may refuse a phase
Settle ==
  LET synced == IF batch.saw THEN Synced(plan) ELSE plan
      moved == Synced([synced EXCEPT !.phase = Inferred(plan)])
  IN  IF batch.back THEN Rebuilt(plan)
      ELSE \/ batch.saw /\ moved.phase # plan.phase /\ Rebuilt(moved)
           \/ IF synced.step # plan.step /\ ~batch.auto
              THEN Rebuilt(synced) ELSE Kept(synced)

EndBatch ==
  /\ pc = "batch" /\ ~More /\ batch.ready = <<>> /\ ~batch.auto
  /\ Settle
  /\ progress' = batch.progress /\ batch' = NoBatch /\ turn' = NoTurn
  /\ pc' = "top"
  /\ UNCHANGED <<recent, resume, control, iter, hints, runs, terms, searched, late>>

\* run_parallel_phase3_and_decide: the run goes on only in phase 4
EndCommit ==
  /\ pc = "batch" /\ ~More /\ batch.ready = <<>> /\ batch.auto
  /\ IF ~batch.saw THEN Finish
     ELSE /\ Settle
          /\ progress' = batch.progress /\ batch' = NoBatch /\ turn' = NoTurn
          /\ pc' = IF plan'.phase = 4 /\ iter < MaxIterations
                   THEN "steer" ELSE "leave"
          /\ UNCHANGED <<recent, resume, control, iter, hints, runs, terms, searched, late>>

Leave == pc = "leave" /\ Finish

-----------------------------------------------------------------------------
Work == \/ RunPhase3 \/ HandOver \/ EnterIteration \/ DrainSteering \/ Ask
        \/ ReceiveText \/ ReceiveCalls \/ ConnectionFails \/ StreamFails
        \/ StreamCancelled \/ EndTurn
        \/ ReadGroup \/ AnswerRead \/ AnswerSkipped \/ StartCall \/ ExecuteCall
        \/ EndBatch \/ EndCommit \/ Leave

Next == \/ Chat \/ Continue \/ Cancel \/ Steer \/ TimeOut \/ Disconnect \/ Work

\* The event loop runs a stream's own steps; clients owe nothing.
Spec == Init /\ [][Next]_vars /\ WF_vars(Work)

-----------------------------------------------------------------------------
(* What is left of a run: the iterations, the stages of the one in progress,
   and in a stage the attempts of the stream or the work of the batch.  A first
   search that its second look makes redundant leaves the group empty: the loop
   comes back to the same call and skips it. *)
Stage ==
  CASE pc = "ask" -> 7
    [] pc = "stream" -> 6
    [] pc \in {"batch", "exec"} /\ ~batch.auto -> 5
    [] pc = "top" -> 4
    [] pc = "plan" -> 3
    [] pc \in {"batch", "exec"} /\ batch.auto -> 2
    [] pc \in {"steer", "leave"} -> 1
    [] OTHER -> 0

StreamLeft ==
  2 * (MaxRetries + 1 - turn.attempt)
    + (IF turn.emitted THEN 0 ELSE 1) + (IF turn.text = "none" THEN 1 ELSE 0)

LookLeft ==
  IF pc = "exec" THEN 0
  ELSE IF More /\ ~Skipped(Current, recent) THEN 2 ELSE 1

BatchLeft ==
  4 * (Len(batch.calls) - batch.at + 1) + 2 * Len(batch.ready) + LookLeft

Left ==
  IF pc = "stream" THEN StreamLeft
  ELSE IF pc \in {"batch", "exec"} THEN BatchLeft ELSE 0

Rank == <<MaxIterations - iter, Stage, Left>>

Below(new, old) ==
  \E i \in 1..3 : /\ new[i] \in Nat /\ new[i] < old[i]
                  /\ \A j \in 1..(i - 1) : new[j] = old[j]

-----------------------------------------------------------------------------
(* Every assistant message with tool calls is followed by their results, in
   order and each once, with no notice, steering or other group in between.
   Only a run that is stopped in a batch leaves a group open. *)
GroupsUnbroken ==
  /\ Strays(messages) = {}
  /\ pc \notin {"batch", "exec"} => OpenGroups(messages) = {}

(* While the history of queries has not dropped any, no query is executed a
   third time, whatever groups and batches its searches come in. *)
SearchedAtMostTwice ==
  Len(recent) < HistorySize => \A q \in Queries : searched[q] <= 2

(* A request offers the tools of the phase and step the plan is in, through
   writes, gates, backtracks, step changes and the parallel commit. *)
ToolsMatchPlan == pc \in {"ask", "stream"} => offered = ToolsOf(plan)

(* A cancel ends a run soon, though the orchestrator, a provider's retries and
   groups of searches do not look at it.  If it finds a request under way, that
   request and its repetitions are all that goes out; if it finds a batch, one
   call, the searches of that batch and one planning of the days may still start,
   but no request, and the days of that planning are not written. *)
CancelHeeded ==
  /\ late.requests <= MaxRetries + 1 /\ late.calls <= 1 /\ late.plannings <= 1
  /\ late.requests > 0 => late.calls = 0 /\ late.reads = 0 /\ late.plannings = 0
  /\ late.plannings > 0 => pc \notin {"exec", "ask", "stream"}

(* Every steering message that was accepted waits in the queue until it is
   acknowledged: as applied, or as rejected when the run ends. *)
SteersAnswered ==
  owed = queue /\ (pc = "idle" => queue = 0)

(* Hints, retries, backtracks and parallel runs never keep a run going for ever. *)
RunEnds == (pc # "idle") ~> (pc = "idle")

(* Every step the loop itself takes brings what is left of the run down, or
   ends the run: no hint, retry, backtrack, parallel run or emptied group of
   searches brings a run back to where it was. *)
RunAdvances ==
  [][pc # "idle" =>
       \/ pc' = "idle" \/ Below(Rank', Rank)
       \/ (Cancel \/ Steer) /\ Rank' = Rank]_vars

(* A provider sends its request again only if nothing of the first answer has
   been passed on (docs/agent/slices/llm-providers.md). *)
RetryOnlyBeforeOutput ==
  [][turn'.attempt > turn.attempt /\ pc = "stream"
       => turn.text = "none" /\ turn.calls = <<>>]_vars

(* A search is skipped as redundant only after its query ran twice
   (tests/test_agent_loop.py). *)
SkippedAfterTwo ==
  [][\A q \in Queries :
       AnswerSkipped /\ Current = Search(q) => searched[q] >= 2]_vars

(* The cancel event is looked at before an iteration and before tools are
   executed (PROJECT_OVERVIEW.md). *)
CancelCheckedFirst ==
  [][cancel => late'.plannings = late.plannings /\ late'.reads = late.reads]_vars
=============================================================================
