# Verification of the travel agent's session runtime

TLA+ models of `travel_agent_pro`, the TLC runs that check them on small
instances, and TLAPS proofs of theorems about them for all instances.
Paths are relative to `src/`; `backend/` stands for `src/backend/`.

| file | what it is |
|------|------------|
| `ContextHistory.tla` | one chat session: runs, runtime message lists, the rows of `messages`, cursor and context epoch |
| `AgentLoop.tla` | the loop of a session's agent, run after run: requests, batches, rebuilds, cancel, steering, continuation |
| `TripPlan.tla`, `PlanPhases.tla` | the plan tools and the phase router as operators; a plan's life through gates, backtracks and deliverables |
| `DayClaims.tla` | what the parallel planning of days promises (abstract) |
| `WorkerContract.tla` | what a day worker hands to the orchestrator (assumed by one module, kept by the other) |
| `Phase3Orchestrator.tla` | one run of the Phase 3 orchestrator; implements `DayClaims` |
| `DayWorker.tla` | the loop of one day worker; keeps `WorkerContract` |
| `MemoryQueue.tla` | background memory extraction of one session: latest-wins scheduler and consumed count |
| `ProfileMemory.tla` | the profile and working memory of a user under concurrent extractions and edits |
| `RecallPipeline.tla`, `MemoryRecall.tla` | the pure stages of recall as operators; recall turns, vector index and trip archive |
| `MC*.tla`, `CH_*`, `AL_*`, `PG_*`, `P3_*`, `WK_*`, `MQ_*`, `MM_*`, `RC_*.cfg` | the instances for TLC |
| `*_proofs.tla` | theorems about the module of that name, and their proofs; `Memory_proofs.tla` is about `MemoryQueue` and `MemoryRecall` |
| `FoldLemmas.tla` | what the proofs need of folds, sums and finite sets |
| `PROJECT.json` | components, runs, mutants, definition-to-source map, findings, hazards, theorems |

## 1. Inventory of the system

A FastAPI process serves a chat with a travel-planning agent. Every session
has one plan with a phase (1 destination, 2 skeleton, 3 daily plans,
4 delivery) and, in phase 2, a step. Everything runs on one asyncio event
loop: code between two awaits is atomic, anything may happen at an await, and
there is no lock per session. Data is kept in one SQLite file behind **one**
`aiosqlite` connection, in `plan.json` per session, and in JSON/JSONL files of
memories.

| component (code) | state | operations | interacts with | hard behaviour | what must hold |
|---|---|---|---|---|---|
| Message history (`backend/api/orchestration/chat/finalization.py`, `session/persistence.py`, `storage/message_store.py`) | `next_history_seq`, `current_context_epoch`, `_next_rebuild_reason`, `history_persisted`/`history_seq` on messages, rows of `messages` | flush, persist, restore | agent loop (callback before a rebuild), chat stream, database | cursor read before an await and written after it; cancellation inside the insert; crash | rows numbered without gap, epochs in order, no message twice, none lost |
| Runtime view (`agent/loop.py`, `agent/execution/message_rebuild.py`, `loop_events.py`, `phase_transition.py`) | the message list of a run | rebuild on phase change, backtrack and step change; summary | history (flush first), plan | list replaced in place while flushes are pending | the request stays in view; what was shown is stored |
| Chat stream (`chat/stream.py`, `backtrack_fallback.py`, `stream_runtime.py`) | position in the generator, `session["messages"]` | fallback backtrack, finalisation, safety net in `finally` | history, plan, client | timeout and disconnect at any await | saves on every exit |
| HTTP routes (`api/routes/*.py`) | `sessions` | chat, continue, cancel, steer, backtrack, create, delete | all of the above | two requests on one session overlap | no request breaks another's run |
| Run control (`run.py`, `agent/steering.py`, `chat/steering.py`) | current run, cancel event, steering queue, continuation | continue, cancel, steer | chat stream | run slot shared by overlapping runs | an accepted steer is applied or dropped aloud; a continuable run continues |
| Phase router, backtrack, plan state (`phase/`, `state/`) | phase, step, backtrack history, `plan.json` | infer and sync phase, prepare and execute backtrack | tools, stream | phase derived from contents, step derived again on restore | a backtrack clears what is downstream |
| Tool batch (`agent/execution/tool_batches.py`) | batch, results | parallel reads, ordered writes, guardrails, skip after write/backtrack | loop, hooks | calls after a backtrack are skipped | every call gets its result |
| Shared database (`storage/*.py`) | one connection, open transaction | insert, commit, rollback | every store and session | another task's commit or rollback ends your transaction | what is marked as stored is stored |
| Memory jobs (`memory/async_jobs.py`, `api/orchestration/memory/*.py`) | running job, waiting snapshot, idle event, consumed count | submit, gate, extract, count | chat route, memory store, task stream | latest-wins slot; failing jobs; count against a list that is replaced | newest snapshot is processed, nothing twice, failures retried |
| Agent loop (`agent/loop.py`, `agent/execution/llm_turn.py`) | iteration, hints used, offered tools, runtime messages | ask, receive, retry, repair, batch, settle | provider, tools, Phase 3, steering | cancel, timeout and disconnect at any await | whole groups of calls, tools of the true phase, an end |
| Day worker (`agent/phase3/day_worker.py`) | rounds, lookup counts, candidate file | look up, submit, report infeasible, time out | orchestrator, tools | cut off between its file and its answer | the file and the answer agree, budgets kept |
| Memory store (`memory/v3_store.py`, `policy.py`, `profile_normalization.py`, `api/orchestration/memory/extraction.py`) | profile.json, working memory | merge, promote, save, confirm, reject | jobs, memory routes | whole files written from snapshots; threads that outlive a timeout | unique ids, sensitive items wait, counts earned |
| Recall and archive (`memory/manager.py`, `recall_*.py`, `episode_slices.py`, `embedding_sidecar.py`) | episodes, slices, vector index | gate, plan, retrieve, rerank, archive, warm | chat, jobs, stream | late vectors, overlapping archives, failing models | only what was asked for; an archived trip once |
| Phase 3 orchestrator (`agent/phase3/`) | day tasks, attempts, candidates, blackboard | dispatch, retry, validate, renegotiate, commit | loop, plan, candidate files | concurrent workers, redispatch and rollback | one plan per day, no POI in two days |
| Deliverables (`chat/deliverables.py`, `session/deliverables.py`) | two files, pointer with version | freeze, replace, clear | stream, quality gate | three writes, failure between them | the pointer names existing files |
| Hooks and gates (`api/orchestration/agent/hooks.py`, `harness/`) | retry counters | summary, quality gate, soft judge | loop, plan | list edited in a hook | a gate blocks at most its retries |
| Context manager, telemetry, providers, tools, configuration, frontend, evals | caches, counters | prompts, traces, wire formats | – | – | not state the other parts rely on |

The hazards in `PROJECT.json` list, line by line, where this code can go wrong
in ways a test hardly reaches, and which property watches each of them.

## 2. The models

All modules describe code on one event loop: one step of a model runs from one
await that can suspend to the next. Where the model's steps are coarser, its
section says why nothing is lost.

### ContextHistory

| model | code |
|---|---|
| `plan`, `disk` | `session["plan"]` (phase, step, whether the step is up to date) and `plan.json` |
| `sess` | `next_history_seq`, `current_context_epoch`, `_next_rebuild_reason`, `session["messages"]` |
| `marked` | the `history_persisted` flags, which live on shared message objects |
| `rows`, `txn` | committed rows, and rows inserted on the connection and not committed |
| `run[r]` | one `/chat` generator: place, message list, the stage before the batch, pending move, its insert under way |

`Begin`, `BuildView` (request, recall), `StartBatch`, `Answer`, `RepairHint`,
`StopLoop` (loop), `EndReadBatch`, `EndWriteBatch`, `EndBacktrackBatch` (tool
batch and transition detection), `Rebuild`, `Summarise`, then `BeginFlush` /
`EmptyFlush` / `FlushDone` / `FlushConflict` for each of the four places that
flush, `Fallback`, `MessageFallbacks`, and the disturbances `Cancel`,
`CancelFlush`, `Timeout`, `TimeoutFlush`, `OtherCommit` (another task commits
on the shared connection), `RouteBacktrack`, `Crash`, `Restore`. A flush is two
actions because the code reads cursor, epoch and reason before
`await deps.persist_messages` and writes the cursor after it.

Abstracted: message contents (a message is a number and one of four kinds), a
tool batch (one step with three outcomes), which phase a plan's contents imply
(a choice among those `infer_phase` can answer), trace rows and everything sent
to the client.

### AgentLoop

| model | code |
|---|---|
| `pc` | where `AgentLoop.run` and the stream around it are |
| `plan`, `offered` | what router, hints and parallel gate read of the plan; phase and step of the tools offered |
| `messages` | groups of calls, results and notices since the last request |
| `recent`, `searched` | `SearchHistoryTracker.recent_queries`; how often each query really ran |
| `iter`, `hints`, `progress`, `turn`, `batch` | locals of the run |
| `terms` | what a run was started with: a time budget, which a run that starts in phase 3 has not (`chat/stream.py:103`), and leave to plan the days in parallel |
| `late` | history: requests, calls, groups of searches and plannings begun after the run's cancel |
| `cancel`, `queue`, `resume` | `_cancel_event`, `_steer_queue`, the continuation context of `_current_run` |

`Chat`, `Continue`, `Cancel`, `Steer`, `TimeOut`, `Disconnect` are what a client
does; `RunPhase3`, `HandOver`, `EnterIteration`, `DrainSteering`, `Ask`, `ReceiveText`,
`ReceiveCalls`, `ConnectionFails`, `StreamFails`, `StreamCancelled`, `EndTurn`,
`ReadGroup`, `AnswerRead`, `AnswerSkipped`, `StartCall`, `ExecuteCall`,
`EndBatch`, `EndCommit`, `Leave` are the loop's own. `Scan` finds the parallel
group at the head of a batch: the calls that join it one after the other
(`Joins`) and the history after so many looks (`Looked`). `Settle` is what follows
a batch: inference of the phase behind its gate, rebuild, new tools. A run of the
Phase 3 orchestrator is its start (`RunPhase3`) and the commit of what it has
(`HandOver`); cancels and steering come in between.

`CancelHeeded` counts what begins after a cancel, because more than one thing may.
The loop starts the orchestrator before it looks at the event
(`agent/loop.py:398-421`), and neither orchestrator nor workers read it, so a cancel
in the batch that brings the plan to phase 3 is followed by a whole planning; a
provider repeats its request without a look (`llm/openai_provider.py:461-469`); the
searches of a batch are executed without one (`tool_batches.py:506-605`). What the
looks that are there guarantee is a bound: one request and its repetitions if the
cancel finds one under way, and otherwise one call, the searches of that batch and
one planning, whose days are not written because the commit does look. How many
requests the workers of that planning make is DayWorker's `RoundsBounded`.

### TripPlan and PlanPhases

`TripPlan` has one operator per plan tool, its refusals as a guard beside it, and
the router: `InferPhase`, `InferPhase2Step`, `SyncPhaseState`, `ClearDownstream`,
`BacktrackTo`, `Reconciled` (what becomes of a selection when skeletons are
rewritten). `PlanPhases` runs them: which tools a phase and step offer, the gate
at the end of a batch (`EndBatch`, `GateAnswers`, its retries), the three ways
back (tool, route, text), `generate_summary`, the soft judge, and the frozen
files (`GenerateSummary`, `JudgeAnswers`, `TaskChunk`, `Forget`, `EndRun`,
`WriteFails`). `feedback` counts the drafts the judge has sent back in this run.
`draft` is `_pending_phase4_deliverables`, `verdict` the judge's
answer kept in the session; `files` maps each file to the call whose text it
holds. Lists are empty or not, skeletons keep id, name and number of days; what
a validator or judge finds is a choice. `TravelPlans` is the set of all plans; a
session begins with a new plan or one of `Restored`.

### Phase3Orchestrator, DayClaims, WorkerContract, DayWorker

`stage` is the place in `run()`: parallel `collect`, `retry`, `late` (days
flagged by steering), `negotiate`, `redo`, `local` and `serial` repairs. `kept` is what the
candidate files say, `won` the successes in memory, `board` the blackboard of
claims and costs, `undo` the rollback records, `inbox`/`redo` the steering queue
and its flags, `final` the days handed over. In the two stages where workers run
side by side, start, end and collection of each are steps of their own; in the
serial stages only a steering message can come in between, so running a worker
and handling its result is one step.

`DayClaims` states what the stages promise together: a plan is accepted only
if it shares no point with a day held by another plan, a withdrawn day is
replaced or put back before the end. `Claims == INSTANCE DayClaims WITH ...` maps
`held` to the accepted files (a day under repair counts as withdrawn), `before`
to `undo`, `over` to the last stage, and `ImplementsClaims == Claims!Spec` is
checked as a property and proved. The exception both state, days put back by a rollback,
is the code's: `_handle_redispatch_failure` puts a plan back although another
day may have taken one of its points meanwhile.

A worker is one await of the orchestrator that returns some member of
`Outcomes` (`WorkerContract`); `DayWorker` models the loop that returns it
(rounds, budgets of lookups, forced submission, recovery from failing tools, one
repair, text fallback, timeout at any await) and is checked to keep the contract.
The orchestrator is the assume side, the worker the guarantee side.

### MemoryQueue

`job`, `pending`, `idle` are `running_task`, `pending_snapshot`, `_idle_event`;
`consumed` is `last_consumed_user_count`; `hist` is the part of
`session["messages"]` with the role USER; `turn[s]` is a `/chat` request.
`Submit` is `MemoryJobScheduler.submit`; `GateSkips`, `GateFails`, `GatePasses`,
`ExtractionDone`, `ExtractionFails` are the outcomes of `_run_memory_job`, each
with the `finally` block that starts the waiting snapshot (`FinishJob`);
`BeginTurn`, `BeginRun`, `Rebuild`, `Summarise`, `EndTurn`, `AbandonTurn` are
what the turn does to the list; `Restart` loses everything but stored requests.

A list taken apart by a summary or put together by a restart is described by
the places it takes (`InOrder`, `Picked`).

Abstracted: message texts (a request is its number, an application event, which
has the role USER too, is 0), the character limit (`Clips`), the two extraction
routes. The number of requests a restart finds stored is any subset: how they
get there is ContextHistory.

### ProfileMemory

`profile` is `profile.json`, `working` the sessions' working memory files;
`job[s]` an extraction run with its snapshot and what is left of the model's
answer (`Decide`, `ReportItems`, `MergeNext`, `PutItem`, `ReportNotes`,
`SaveNote`, `RouteFails`, `Finish`); `edit` a user's request between load and
save (`Ask`, `SaveEdit`); `orphan` a write whose coroutine was cancelled by the
timeout and whose thread may still land (`LandLate`); `Crash` may fall between
the two writes of a move between buckets. `Merge`, `Classify`, `Upsert`, `Count`
are the functions of `profile_normalization.py`, `policy.py` and `v3_store.py`.
`Parsed` keeps of an answer what is `Convertible`. A text is one of a few slots
and values. A profile a session finds at its start (`Earlier`) is one that
`sanitize_v3_profile_item` leaves, each item reported once (`EarlierAssumption`).

### RecallPipeline and MemoryRecall

`RecallPipeline` translates the stages as operators: `ShortCircuit` (rules over
signals), `ParsedGate`, `ParsedPlan`, `HeuristicPlan`, `DualOf`, the three
lanes, `Fused`, `Reranked`, and `SliceKeys` of an archive. A text is the set of
its terms, scores are the code's formulas in hundredths, a record's age stands
for recency with the id as tie-break, so the orders have no ties, as in the code;
the slices of a trip are equally old and come by id (`SlicePlace`). Word lists are
categories of signals; what an embedding model puts near a message is a choice
among `Themes`.

`MemoryRecall` runs them: one turn (`Ask`, `Gate`, `GateUnanswered`, `Query`,
`LoadProfile`, `LoadSlices`, `FetchRows`, `Rank`, `RankWithoutVectors`,
`Inject`) against an extraction, archiving runs (`EndRun`, `ListEpisodes`,
`AppendEpisode`, `AppendSlice`, `ArchiveFails`), `WarmLands` (a thread stores a
vector), `Replan` and `ComeBack` (a restart). From the last load to its end a turn is
synchronous: only threads step there (`LoopFree`). The answers of gate and query
model read and write nothing of the other actors, so their steps come first.
`plan` indexes the versions the trip's plan goes through. The vector index is
modelled as configured with `warm_on_write`. Left out: a provider that fails
between the two sources of one retrieval, and the rotation of trip ids.

### Composition

The modules share no variables. They meet in contracts: Phase3Orchestrator and
DayWorker in `WorkerContract`; AgentLoop treats an orchestrator's run as one wait
after which it commits some days or all; ContextHistory takes as a choice the phases
PlanPhases computes; MemoryQueue and ContextHistory keep each its part of
`session["messages"]`; MemoryQueue's job is one run of ProfileMemory.

## 3. Runs

`CHECK_DEADLOCK FALSE` everywhere: the bounds end every behaviour, and a
session with no request is a legal end.

| run | question | result |
|---|---|---|
| `CH_sequential` | One request after the other, every kind of rebuild and backtrack, no fault: is every message stored (`HistoryComplete`), is the cursor right between flushes (`CursorFresh`), does an epoch keep its phase while only the loop moves it (`LoopKeepsPhase`), does a reason stand on the first row (`ReasonOnFirstRow`)? | holds |
| `CH_faults` | Two requests in flight with cancellations, a summary, crash and restore: are rows numbered without gap (`Contiguous`), epochs in order (`EpochsOrdered`), nothing stored twice (`NoDuplicateMessage`) or flagged without a row (`MarkedHasRow`)? Also the inductive `IInv`, of which `TypeOK` is a part | holds |
| `AL_loop` | Two runs of a session, cancelled, timed out, disconnected or steered anywhere: are groups of calls whole (`GroupsUnbroken`), no search run a third time (`SearchedAtMostTwice`), the offered tools the plan's (`ToolsMatchPlan`), is what begins after a cancel bounded (`CancelHeeded`), steering answered (`SteersAnswered`), does every step of the loop bring what is left of a run down (`RunAdvances`), and does every run end (`RunEnds`)? | holds |
| `PG_plan` | One plan with every tool, gate, backtrack, draft and one fault: is no phase reached unearned (`PhaseEarned`), does a selection keep its meaning (`RewriteKeepsChoice`), are frozen deliverables backed by files and unblocked (`DeliverablesBacked`)? | holds |
| `PG_v_frozen` | Are deliverables frozen in Phase 4 only (`FrozenInPhase4`)? | violated: the draft of an interrupted run is frozen after a backtrack |
| `P3_run` | Two days, two points, every answer of every worker, two steering messages: does the orchestrator implement `DayClaims` (`ImplementsClaims`), do files, memory and delivery agree (`PlansAgree`) and blackboard and plans (`ClaimsBacked`), are flagged days planned again (`FlagsConsumed`), does every step bring what is left down (`RunAdvances`), does it end (`RunEnds`)? | holds |
| `WK_worker` | One worker, every sequence of answers, cut off anywhere: `ContractKept`, `LookupsBounded`, `RoundsBounded` | holds |
| `MQ_scheduler` | Overlapping turns, rebuild, summary, client that leaves, restart: does the snapshot submitted last wait (`NewestWaits`) and get its job (`NewestIsStarted`), is no request extracted twice (`NoDoubleExtraction`)? | holds |
| `MM_memory` | Two sessions extract into one profile while the user edits it, with one timeout, failure or crash: `IdsUnique`, `SensitiveNeedsUser`, `CountEarned`, `DoneMeansSaved` | holds |
| `MM_v_working` | Are the working memory items reported as saved in the file (`WorkingSaved`)? | violated: all have the empty id and replace each other |
| `RC_recall` | A recall turn against extraction, archiving runs, warming threads, a failure, a restart with another model: `OnlyWhatWasAsked`, `FallbackSearches`, `FreshVectors`, `ArchiveOnce` | holds |
| `RC_v_final` | Is the archived episode that of the finished trip (`EpisodeIsFinal`)? | violated: the first run that ends in Phase 4 fixes it |

The lines the violated properties come from are quoted under `findings`.

**Boundaries of what holds.** These properties are stated in the modules, each
with a line of the repository's documents it comes from; TLC refutes them, and
the runs above are posed on this side of each. To see a counterexample, put
the property into a copy of the cfg named, with the constants given.

| property | module, cfg | constants changed | what happens |
|---|---|---|---|
| `RequestInView` | ContextHistory, `CH_sequential` | `Runs = {r1}`, `LastPhase = 3`, `MaxMsgs = 5`, `MaxEpoch = 2`, `Budget <- None` | the message carried over a rebuild is the last with the role USER: the turn context; it is also the text in which `user_defers_parallel_phase3` looks for the user's wish to wait (`agent/phase3/parallel.py:147`), so AgentLoop leaves that to a choice (`terms`) |
| `HistoryComplete` | the same | `Budget <- Summaries` | a summary drops messages that were not stored yet |
| `HistoryComplete` | the same | `Budget <- Cancels` | rows inserted and not committed go with the conflict of the next flush |
| `LoopKeepsPhase` | the same | `Budget <- Cancels` | cancelled between the move and its rebuild, the last flush writes the new phase into the old epoch |
| `LoopKeepsPhase` | the same | a budget of one crash | restored, the epoch is that of the last row, the phase that of `plan.json` |
| `HistoryComplete`, `LoopKeepsPhase` | the same | `Runs = {r1, r2}`, `MaxMsgs = 4` | two flushes begin at one cursor and the refused one's view is rebuilt; a second run labels with the phase the first has moved to |
| `CursorFresh` | the same | `Budget <- Cancels` | cancelled inside commit, the rows land and the cursor stays |
| `EveryEpochTagged` | the same | `Budget <- None` | a flush without rows takes the reason |
| `OnePhasePerEpoch` | the same | `Budget <- Routes` | POST /backtrack opens no epoch |
| `OneStepPerEpoch` | the same | `Budget <- OnlyTool` | a backtrack's rows get the new step |
| `RetriedInNextExtraction` | MemoryQueue, `MQ_scheduler` | `Slots = {s1}`, `Window = 3`, `Budget <- OneRebuild` | a rebuild took the message out of the list |
| `SteerHonoured` | Phase3Orchestrator, `P3_run` | `MaxSteer = 1` | after the retry stage a failed day is promised a change no worker makes |
| `RetryOnlyBeforeOutput` | AgentLoop, `AL_loop` | – | a provider repeats a request after its calls were passed on |
| `CancelCheckedFirst` | AgentLoop, `AL_loop` | – | cancelled in the batch that brings the plan to phase 3, the loop plans the days before it looks (PROJECT_OVERVIEW.md:189 has the looks before an iteration and before tools) |
| `SkippedAfterTwo` | AgentLoop, `AL_loop` | – | the first call of a parallel group is remembered twice |
| `PhaseSupported` | PlanPhases, `PG_v_frozen` | `Targets = {0, 1, 2, 3}` | a backtrack to phase 0 is accepted and cannot be loaded again |
| `PhaseEarned` | PlanPhases, `PG_plan` | `Overlap = TRUE` | a backtrack while the gate's judge is asked |
| `DeliverablesBacked` | PlanPhases, `PG_plan` | `MaxFaults = 2` | interrupted after the freeze, then a failed rewrite: the files are gone, the plan stays frozen |

`NoDoubleExtraction` is stated for histories that were not summarised: a
summary is an event with the role USER in front of the last messages; it moves
requests behind the consumed count, and a request is extracted twice.

**Bounds**, and why they are enough:

- *ContextHistory*: 4 or 6 durable messages, 2 or 3 rebuilds, one or two runs,
  3 or 4 phases, two steps, each disturbance once or twice. A rebuild needs a
  request and a batch, two racing flushes need two messages, a stale cursor one
  cancelled flush and one more; every kind of rebuild happens in three epochs.
- *AgentLoop*: two queries, answers of four searches (one of one query, three of
  another) or of a refused backtrack, a refused call and a write, two iterations,
  one retry, two runs, a queue of one, a history of six. Two such answers of a
  provider that repeats itself are eight searches: the history is full, and before
  it is, five looks fit, so that without the count of equal queries a third
  execution would happen. The second iteration meets a rebuilt view and used hints,
  the second run the history of the first; a search that was looked at once comes
  again and leaves its group empty; a cancel is followed by two requests, by a call
  and a planning, and by searches and a planning.
- *PlanPhases*: trips of one or two days and reversed ranges, three lists of
  skeletons whose ids and names repeat, swap and collide, two drafts, one gate
  retry, one fault. A plan can go through all phases, back and forward again.
- *Phase3Orchestrator*: two days that compete for two points, one locked for
  either, plans that are too dear, too full or overlapping, two workers, two
  steering messages: one flags a day, one more arrives while it is replanned.
- *DayWorker*: three rounds, two calls per answer, one key every tool can ask
  for, the code's limits of two equal queries and three recoveries.
- *MemoryQueue*: three turns are the fewest in which a waiting snapshot is
  replaced; `Window` 2 makes the limit of 8 bite with three messages.
- *ProfileMemory*: two runs, one edit, one fault; an ordinary, a sensitive and a
  denied slot; a hypothesis two runs report crosses the threshold of promotion.
- *MemoryRecall*: one turn, two writes (ends of runs or an extraction), one
  fault, four messages that take the four ways of the rules, three query
  answers, two versions of the plan.

Symmetry is used for interchangeable runs, sessions, models or plans, and only
where no liveness is checked (`CH_faults`, `WK_worker`, `MM_memory`, `RC_*`).

**Fairness.** ContextHistory, PlanPhases, DayWorker, ProfileMemory and
MemoryRecall have none: their properties are safety.

- *AgentLoop*: `WF_vars(Work)`. Every step of `Work` is the event loop resuming
  the stream's own generator; requests to a provider end by answer, error or
  timeout. Clients owe nothing: no fairness of `Chat`, `Cancel` or `Steer`.
- *Phase3Orchestrator*: `WF_vars(RunStep)`. Every worker ends, at the latest by
  `asyncio.timeout` (`backend/agent/phase3/day_worker.py:1577`), and `run()` goes
  on; steering is bounded only by `MaxSteer`.
- *MemoryQueue*: weak fairness of the steps of a running job: gate and extraction
  are awaited under `asyncio.wait_for`
  (`backend/api/orchestration/memory/extraction.py:162`, `:260`) and the
  `finally` block has no await. Nothing is assumed of clients, turns or restarts,
  and `NewestIsStarted` counts a restart as an end of the obligation.

Every property of a passing run has a mutant in `PROJECT.json`: a plausible bug
in one mapped definition that makes TLC find the property violated. The mutated
forms stand in the modules directly before the definition they change.

## 4. Proofs

All proofs are checked to the last leaf; no fact is assumed but the constants'
assumptions, which TLC evaluates in the runs. The theorems hold for every value
of the constants: any number of runs, days, points, sessions, messages, calls in
an answer, and any of the bounds the runs need.

| module | theorem | what it says | hypotheses |
|---|---|---|---|
| `ContextHistory_proofs` | `Invariance`, `TypeCorrect`, `HistoryContiguous`, `HistoryOrdered` | `[]IInv`, `[]TypeOK`, `[]Contiguous`, `[]EpochsOrdered` | |
| | `SavedInvariance`, `StoredAtMostOnce`, `FlaggedIsStored`, `ReasonsFirst` | `[](SavedInv /\ ReasonInv)`, `[]NoDuplicateMessage`, `[]MarkedHasRow`, `[]ReasonOnFirstRow` | |
| | `CursorKept` | `[]CursorFresh` | no cancellation |
| | `NothingLost` | `[]HistoryComplete` | one request at a time, no cancellation, crash or summary |
| | `LoopKeepsThePhase` | `[]LoopKeepsPhase` | one request at a time, no cancellation or crash |
| `Memory_proofs` | `QueueTypeCorrect`, `QueueLatestWins`, `QueueInvariance`, `ExtractedOnce` | `[]TypeOK`, `[]NewestWaits`, `[]PlaceInv`, `[]NoDoubleExtraction` | |
| | `RecallHolds`, `VectorsFresh`, `ArchivedOnce`, `WordsSearch`, `AskedOnly` | `[]RecallInv`, `[]FreshVectors`, `[]ArchiveOnce`, `[]FallbackSearches`, `[]OnlyWhatWasAsked` | |
| | `Reranking`, `RankedFew` (lemmas) | what reranking leaves of the lanes' records: nothing contradicted, no duplicates, at most n | records of one source, apart in the order |
| `Phase3Orchestrator_proofs` | `Invariance`, `TypeCorrect`, `FilesAgree`, `ClaimsHeld`, `FlagsCleared`, `RunsAdvance` | `[]IInv`, `[]TypeOK`, `[]PlansAgree`, `[]ClaimsBacked`, `[]FlagsConsumed`, `RunAdvances` (an action property) | |
| | `ClaimsPromise` | `Spec => ImplementsClaims`, the refinement of `DayClaims` | |
| | `DeliveryDisjoint` | no two delivered days share a point, those a rollback put back excepted | |
| `DayWorker_proofs` | `Invariance`, `KeepsContract`, `BudgetsKept`, `RoundsKept` | `[]IInv`, `[]ContractKept`, `[]LookupsBounded`, `[]RoundsBounded` | |
| `AgentLoop_proofs` | `Invariance`, `TypeCorrect`, `GroupsStayWhole`, `SearchesBounded`, `ToolsFit`, `CancelStops`, `SteersKnown`, `RunsAdvance` | `[]IInv`, `[]TypeOK`, `[]GroupsUnbroken`, `[]SearchedAtMostTwice`, `[]ToolsMatchPlan`, `[]CancelHeeded`, `[]SteersAnswered`, `RunAdvances` (an action property) | |
| `PlanPhases_proofs` | `TypeCorrect`, `ChoiceKeepsMeaning` | `[]TypeOK`, `RewriteKeepsChoice` (an action property) | |
| | `PhasesEarned` | `[]PhaseEarned` | one request at a time, restored plans earned theirs |
| | `BlockedNeverFrozen` | no deliverables frozen from a draft the judge blocked | |
| | `FrozenIsBacked` | `[]DeliverablesBacked` | at most one fault |
| `ProfileMemory_proofs` | `Invariance`, `OneItemPerId`, `UserDecidesSensitive`, `CountsHonest`, `DoneIsDone` | `[]IInv`, `[]IdsUnique`, `[]SensitiveNeedsUser`, `[]CountEarned`, `[]DoneMeansSaved` | |

A hypothesis is there where the property fails without it: the counterexamples
are in the table of section 3 (that a crash loses what was not flushed, and that
a restored plan which had not earned its phase still has not, goes without
saying). The runs that check these properties satisfy the hypotheses.

**Assumptions on constants.** ContextHistory: `RunsAssumption` ("noRun" is no
run), `PhaseAssumption` (at least two phases), `StepAssumption` (the first and
the last step exist), `BoundAssumption`. DayWorker: `KeysAssumption` (finitely
many things to ask for, so that lookups of one key can be summed),
`MeAssumption`, `LimitsAssumption`, `SilentAssumption`. AgentLoop and PlanPhases:
`RestoredAssumption` (a session begins with a plan, and without frozen
deliverables), `DraftsAssumption`, `AnswersAssumption` (what a model sends are
lists of calls). ProfileMemory: `AnswersAssumption`, `EarlierAssumption` (the
profile a process finds holds items as `sanitize_v3_profile_item` leaves them, apart by id).
RecallPipeline and MemoryRecall: `CatalogAssumption` (no place of the catalog has
an empty canonical name), `RecordsAssumption` (texts have finitely many terms, the
items of `profile.json` are profile records with an age below 100, and of two items
one comes first). The others say that numbers are numbers, that there is a day to
plan, a plan to archive and a model to embed with, and that the value for "no plan"
is not a plan.

**The invariants, and why each is needed.**

- *Rows and epochs* (`IInv`). `Contiguous` and `EpochsOrdered` are not
  inductive: a flush that is under way holds a cursor and an epoch that may be
  out of date. No cursor, in the session or in a flush, is past the end of the
  rows (`CursorsBehind`), so a batch either starts exactly at the end or collides
  with the unique index on its first row; and a flush whose cursor is still the
  end read an epoch that no row is ahead of (`EpochsBehind`). Rows inserted and
  not committed continue the committed ones (`TxnBehind`), so that a commit by
  another task, a cancellation between insert and commit, and a crash all leave
  a prefix (`Numbered`).
- *Messages* (`SavedInv`). A message is stored once because a flush that can
  still land has no stored message in its batch and the session's flags are
  then up to date (`FlagsFresh`): whoever stored one of them moved the end of
  the rows. This needs that lists and batches have a durable message once
  (`MessagesDistinct`). `ReasonInv` says the same of reasons: one that is
  pending, or in a flush that can land, has no row of its epoch before it.
- *Nothing lost* (`CalmInv`, `SoleInv`, `CompleteInv`). Without cancellations the
  session's cursor is the end of the rows whenever it is read, and a single run's
  flush has that cursor, so no flush conflicts. What is not stored is then in the
  view of the run that will still flush it, and a rebuild flushes before it
  replaces the view.
- *Phases of epochs* (`PhaseInv`). The label a run will write is the phase of the
  rows of the current epoch (`Keeps`); a run that saw the plan move still labels
  with the phase it came from until its rebuild has opened an epoch.
- *Extraction* (`PlaceInv`). `NoDoubleExtraction` is about places: the consumed
  count means the first places of whatever list the session has by then. Without
  a summary a request has one place, the same in every list that has it
  (`OnePlace`), places of extracted requests are consumed (`Behind`), and the
  window of a running extraction has none of them (`Ahead`). `NewestWaits` is
  inductive as it stands.
- *Orchestrator* (`IInv`). Files, memory and blackboard are compared at other
  places than they are changed, so the invariant says where each day is: a day
  that has or gets a worker has no plan yet (`Unplanned`, `ToRetry`), and in the
  repair rounds what its file, its place in the delivery and its old plan are
  (`LocalDay`, `SerialDay`).
- *Refinement*. The mapping counts a day under repair as withdrawn. Each action
  is shown to be one of `Accept`, `Withdraw`, `Restore`, `End` or a stutter; an
  acceptance is allowed because every point of an accepted plan is claimed by
  its day (`ClaimsBacked`) and the blackboard accepts no claimed point.
- *Day worker* (`IInv`). The file holds what was submitted last until the worker
  ends (`Filed`), the round beyond the limit is the repair (`RepairOnce`), and no
  lookup ran that the guards have not counted, for one query and summed over the
  queries of one key (`Looked`). For an answer of any length this
  rests on a lemma on the fold `Counts`: it adds one per call it counts.
- *Agent loop* (`IInv`). In a batch the last group is the only open one and has
  exactly the results of the calls before the next, minus those of the parallel
  group not answered yet (`GroupInv`, `Answered`); tools fit unless the batch has
  backtracked (`ToolsInv`); a search that ran is in the history (`SearchInv`); what
  begins after a cancel does so in places from which the loop comes to no place where
  it could begin again: to "ask" and "exec" it comes by a look only, from a planning
  never to its top, and a request that is repeated uses up an attempt (`CancelInv`).
  That `Scan`, which is one expression, finds what the loop over the calls finds is
  shown by induction over the calls that join (`Scanning`, with `KeptInTwo`: keeping
  the end of a history twice is keeping it once).
- *The end of an agent run* (`RunAdvances`). The rank is lexicographic: iterations left,
  the stage of the iteration, and in a stage the attempts and pieces of the stream
  (`StreamLeft`) or the calls and results of the batch (`BatchLeft`). A hint and a
  batch go back to the top of the loop, but to a later stage of the same iteration;
  `DrainSteering` alone begins one. A search that the second look makes redundant
  sends the loop of `execute_tool_batch` back to the same call with an empty group;
  that this happens once needs a lemma (`SkippedAgain`): what is skipped at one
  look is skipped at the next, although the history may drop an entry between. Only
  `Cancel` and `Steer` keep the rank.
- *The end of an orchestrator's run* (`RunAdvances`). Stages left, then the work of
  the stage: in the parallel stages the days not started, not ended and not
  collected, in the retries the list of failures, in the redispatches the days to
  plan and those still withdrawn, in the serial repairs the days and their workers.
  A redispatch flag grows nothing of this: it is read at the end of a stage, into
  the list of the next. That a collected day had a finished worker is `Unplanned`.
  `Steer` keeps the rank, whatever the message names.
- *Plans* (`IInv`). While the gate's judge is asked, its target is what the
  router infers from the plan as it is (`EarnedInv`); a draft that was blocked
  is kept with the word of the judge until it is dropped (`PapersInv`); a draft
  still there after it was frozen was left by an interruption (`FilesInv`).
- *Profile* (`IInv`). Whatever may be written over the file, that is the file,
  the snapshots of runs, the user's edit and the late write of a timed-out
  thread, is sound as a whole: ids apart and carrying their bucket, dropped items
  absent, sensitive ones confirmed, counts earned (`FilesInv`, `CopyInv`). Two
  sound profiles overwrite each other soundly, because confirmations and merged
  reports only grow. `WorkInv` says what of an answer is unhandled at each place
  of a run.

- *Recall* (`RecallInv`). A finished turn is judged by what it read steps before:
  the profile, the slices, the plan, the stored vectors. `FreshVectors` needs that
  every row there is, in the index, in a thread, in what a turn fetched, is the
  vector of the text and model it names (`RowsHold`), however late it lands;
  then a row that passes `ValidRow` can only be the record's own. `FallbackSearches`
  needs that a turn which goes on by the words of its message has words a plan can
  be read off (`Decided`): the gate's fallback and the manager read them with the
  same decision. `OnlyWhatWasAsked` needs that what was loaded is of one source, at
  the place asked for and has one order (`Searches`), and then lemmas along the
  pipeline: a lane returns records it was given (`SymbolicFinds`, `LexicalFinds`,
  `SemanticFinds`), fusion returns what a lane returned (`FusedOf`), scores are
  numbers (`Scores`), and in an order without ties at most n records are ranked up
  to n (`RankedFew`) and one of every duplicate group is left (`Reranking`).
- *Archive* (`ArchiveHolds`, part of `RecallInv`). `ArchiveOnce` is not inductive:
  a call that ends must have stored all its slices. A slice of a call's plan is in
  the file or still in the call's list, a call that has come to its slices has
  found or stored the trip's episode (`CallSound`), and the ids of what is stored
  differ; calls that overlap only add to the files.

The proof about recall changed the model. With ages that slices of different
versions of a plan could share, and duplicate groups that did not name the source,
two records could tie and both stay; the code's sort keys end in the id and its
groups are of one source. `SlicePlace`, `DuplicateGroup` and `RecordsAssumption` say so.

**Folds.** The models compute over lists and days with the folds of the
community modules, which choose their recursive function. `FoldLemmas` proves
what is needed of them: every set of numbers has a least element
(`LeastElement`) and, if it is finite, a largest (`Largest`), so a set of numbers that holds 0 and with each its successor
holds all (`AllNumbers`), a fold over a finite set exists (`FoldExists`) and has
what each of its steps keeps (`PickedInduction`); then sums over sets
(`Summing`, `SumGrows`, `OneMore`) and filters (`Sifting`). The property that is
carried along is given as a set of numbers or of values, so each use stays first
order.

**Only model-checked.** `RunEnds` (AgentLoop, Phase3Orchestrator) and
`NewestIsStarted`, liveness under fairness, which the proof system cannot
express; of both `RunEnds` the part that is an action property, a rank of natural
numbers every step lowers, is proved (`RunsAdvance`), and that a run always has a
next step is left to TLC. The refuted properties of section 3 have a counterexample as their
result. Every other property of a passing run is a theorem, under the hypothesis
the table names.

## 5. Not modelled, and the plan

What could be added, in this order:

1. What overlapping requests and backtracks do keep of `HistoryComplete` and
   `PhaseEarned`, stated with what they may break named.
2. A model of the writes of all stores on the one connection, for rollbacks across
   sessions.

Not modelled, with the reason:

- **One connection for all sessions**: ContextHistory has commits by other tasks,
  but not another session's rollback, which discards rows inserted and not
  committed. A model needs the writes of all stores on the connection.
- **Two overlapping runs in AgentLoop**: cancel event, steering queue and current
  run are shared by them; ContextHistory has overlapping runs for the history
  only. Deletion of a session during a run states no promise to check.
- **Torn writes** of a file and rollback of an operating system crash: below the
  models' grain, one write call is one step.
- **Queues of task events** to browsers, which drop what is late; a view.
- **Texts**: prompts, token estimates and compaction, reflection and progress
  notes, the rules of validators and guardrails, word lists, wire formats of
  providers. Where their outcome steers the control it is a choice in the models.
- **External lookups**, telemetry, configuration, the React frontend and offline
  evaluation: services outside the program, diagnostics, views and scripts that
  no run reads back.
