--------------------------- MODULE ContextHistory ---------------------------
(***************************************************************************)
(* The message history of one chat session: the runtime message list that  *)
(* each run of the agent works on, the rows of the SQLite table `messages`,*)
(* and the session fields that tie them together (`next_history_seq`,      *)
(* `current_context_epoch`, `_next_rebuild_reason`).                       *)
(*                                                                         *)
(* Covered: POST /chat from the request to the end of its generator, the   *)
(* three kinds of runtime rebuild (phase change, backtrack, Phase 2 step   *)
(* change), the four places that flush messages (rebuild, backtrack        *)
(* fallback, finalisation, the safety net in `finally`), summaries of the  *)
(* history, POST /backtrack, cancellation and timeout at any await, crash  *)
(* and restore.                                                            *)
(*                                                                         *)
(* The event loop is cooperative: an action runs from one await that can   *)
(* really suspend to the next.  A flush with rows is two actions (before   *)
(* and after the database answers); a flush without rows never suspends    *)
(* and is one.  Messages are numbers; number 0 is the transient            *)
(* <turn_context>, every other one is durable.  The system message, which  *)
(* is never stored, is left out.                                           *)
(***************************************************************************)
EXTENDS Integers, Sequences, FiniteSets

CONSTANTS
    Runs,        \* slots for /chat requests: how many can be in flight at once
    LastPhase,   \* the phases are 1..LastPhase (SUPPORTED_PHASES: 4 of them)
    Steps,       \* the steps of Phase 2 that are distinguished
    MaxMsgs,     \* bound: durable messages ever created
    MaxEpoch,    \* bound: rebuilds start only below this epoch
    Budget       \* bound: how often each disturbance may still happen

Disturbances == {"cancel", "crash", "summary", "route", "fallback", "tool"}

ASSUME RunsAssumption == "noRun" \notin Runs
ASSUME PhaseAssumption == LastPhase \in Nat /\ LastPhase >= 2
ASSUME StepAssumption == {"brief", "lock"} \subseteq Steps /\ "noStep" \notin Steps
ASSUME BoundAssumption == /\ MaxMsgs \in Nat
                          /\ MaxEpoch \in Nat
                          /\ Budget \in [Disturbances -> Nat]

VARIABLES
    plan,    \* session["plan"]: phase, phase2_step, and whether the step is in sync
    disk,    \* plan.json
    live,    \* whether the session is in the process's `sessions`
    sess,    \* session: cursor, epoch, reason of the pending rebuild, messages
    made,    \* durable messages created so far are 1..made
    marked,  \* messages whose history_persisted flag is set
    rows,    \* committed rows of the table `messages`
    txn,     \* rows inserted on the shared connection and not committed
    run,     \* the state of each /chat generator
    budget   \* what is left of Budget

vars == <<plan, disk, live, sess, made, marked, rows, txn, run, budget>>

-----------------------------------------------------------------------------
(* Data *)

Phases == 1..LastPhase
Kinds == {"user", "app", "asst", "turn"}
Reasons == {"none", "phase_forward", "backtrack", "phase2_step_change"}
Labels == Steps \cup {"noStep"}
Goals == {"rebuild", "fallback", "final", "safe"}
PCs == {"off", "recall", "loop", "batch", "shift", "rebuild",
        "tail", "fallback", "settled", "final", "safe", "flush"}

Entry == [id : Nat, kind : Kinds]
Turn == [id |-> 0, kind |-> "turn"]

Stage == [phase : Phases, step : Steps, synced : BOOLEAN]

(* One insert of persist_messages: what it read before it awaited. *)
Flush == [goal : Goals, cursor : Nat, epoch : Nat, batch : Seq(Entry),
          reason : Reasons, phase : Phases, step : Labels]

Row == [seq : Nat, id : Nat, kind : Kinds, epoch : Nat,
        phase : Phases, step : Labels, reason : Reasons]

Move == [from : Phases, to : Phases, step : Steps, why : Reasons]

Idle == [pc |-> "off", view |-> <<>>, orig |-> Turn, user |-> 0, start |-> 1,
         at |-> [phase |-> 1, step |-> "brief", synced |-> TRUE],
         move |-> [from |-> 1, to |-> 1, step |-> "brief", why |-> "none"],
         target |-> 1,
         flush |-> [goal |-> "safe", cursor |-> 0, epoch |-> 0, batch |-> <<>>,
                    reason |-> "none", phase |-> 1, step |-> "noStep"]]

RunState == [pc : PCs, view : Seq(Entry), orig : Entry, user : Nat,
             start : Phases, at : Stage, move : Move, target : Phases,
             flush : Flush]

(* The entries of a list at the positions in I, in their order. *)
Rank(i, I) == Cardinality({j \in I : j < i})
Nth(k, I) == CHOOSE i \in I : Rank(i, I) = k - 1
Pick(view, I) == [k \in 1..Cardinality(I) |-> view[Nth(k, I)]]

(* clean_persisted_session_messages: what is neither system nor transient.  *)
Durable(view) == Pick(view, {i \in DOMAIN view : view[i].kind # "turn"})

(* The messages persist_messages would write: durable and not yet written.  *)
Unsaved(view) == Pick(view, {i \in DOMAIN view : /\ view[i].kind # "turn"
                                                 /\ view[i].id \notin marked})

(* extract_original_user_message: the last message whose role is USER.  A   *)
(* turn context and an application event have that role too.                *)
UserRole == {"user", "app", "turn"}
OriginalUserMessage(view) ==
    LET at == {i \in DOMAIN view : view[i].kind \in UserRole}
    IN  IF at = {} THEN Turn
        ELSE view[CHOOSE i \in at : \A j \in at : j <= i]

(* infer_phase2_step_from_state, as far as the phase decides it. *)
StepsOf(phase) == IF phase = 2 THEN Steps
                  ELSE IF phase < 2 THEN {"brief"} ELSE {"lock"}

(* The outcomes of sync_phase_state: the step is a function of the plan's   *)
(* content, so it moves only if the content changed since the last sync.    *)
Synced(p) == {[phase |-> p.phase, step |-> s, synced |-> TRUE] :
                 s \in IF p.synced THEN {p.step} ELSE StepsOf(p.phase)}

(* BacktrackService.execute: clear_downstream resets the step for targets   *)
(* up to Phase 2 and nothing recomputes it.                                 *)
BackedTo(p, to) == [phase  |-> to,
                    step   |-> IF to <= 2 THEN "brief" ELSE p.step,
                    synced |-> FALSE]

(* The phases infer_phase can answer: Phase 1 means no destination, which   *)
(* no plan past Phase 1 has unless it was taken back.                       *)
Inferred(p) == IF p.phase = 1 THEN Phases ELSE Phases \ {1}

(* The phases detect_backtrack has patterns for. *)
BacktrackPatterns == {1, 3}

SeqsOf(S) == {r.seq : r \in S}
IdsOf(S) == {r.id : r \in S}

(* next_history_seq and current_context_epoch as restore computes them.     *)
NextSeq(S) == IF S = {} THEN 0
              ELSE 1 + (CHOOSE m \in SeqsOf(S) : \A k \in SeqsOf(S) : k <= m)
LastEpoch(S) == IF S = {} THEN 0
                ELSE CHOOSE m \in {r.epoch : r \in S} :
                        \A k \in {r.epoch : r \in S} : k <= m

(* Mutant: the reason is written on every row of the batch. *)
BatchRowsAllTagged(f) ==
    {[seq   |-> f.cursor + i - 1, id |-> f.batch[i].id, kind |-> f.batch[i].kind,
      epoch |-> f.epoch, phase |-> f.phase, step |-> f.step,
      reason |-> f.reason] : i \in DOMAIN f.batch}

(* The rows of one batch: consecutive numbers from the cursor it read, and  *)
(* the rebuild reason on the first row only.                                *)
BatchRows(f) ==
    {[seq   |-> f.cursor + i - 1, id |-> f.batch[i].id, kind |-> f.batch[i].kind,
      epoch |-> f.epoch, phase |-> f.phase, step |-> f.step,
      reason |-> IF i = 1 THEN f.reason ELSE "none"] : i \in DOMAIN f.batch}

(* Mutant: no unique index. *)
FitsAlways(f) == TRUE

(* UNIQUE(session_id, history_seq), which sees uncommitted rows as well.    *)
Fits(f) == \A r \in BatchRows(f) : \A q \in rows \cup txn : q.seq # r.seq

HistoryView(S) == [i \in 1..NextSeq(S) |->
                     LET r == CHOOSE q \in S : q.seq = i - 1
                     IN  [id |-> r.id, kind |-> r.kind]]

Spend(what) == /\ budget[what] > 0
               /\ budget' = [budget EXCEPT ![what] = @ - 1]

-----------------------------------------------------------------------------
Init ==
    /\ plan = [phase |-> 1, step |-> "brief", synced |-> TRUE]
    /\ disk = plan
    /\ live = TRUE
    /\ sess = [cursor |-> 0, epoch |-> 0, reason |-> "none", msgs |-> <<>>]
    /\ made = 0
    /\ marked = {}
    /\ rows = {}
    /\ txn = {}
    /\ run = [r \in Runs |-> Idle]
    /\ budget = Budget

-----------------------------------------------------------------------------
(* The request and the agent loop *)

(* POST /chat up to its first await: the plan is synchronised, the history  *)
(* and the phase are captured.                                              *)
Begin(r) ==
    /\ live /\ run[r].pc = "off" /\ made < MaxMsgs
    /\ plan' \in Synced(plan)
    /\ run' = [run EXCEPT ![r] = [Idle EXCEPT !.pc = "recall",
                                             !.view = Durable(sess.msgs),
                                             !.start = plan.phase]]
    /\ UNCHANGED <<disk, live, sess, made, marked, rows, txn, budget>>

(* After the trace row and the memory recall: the runtime view is built and *)
(* AgentLoop.run picks the message it will carry over rebuilds.             *)
BuildView(r) ==
    /\ run[r].pc = "recall" /\ made < MaxMsgs
    /\ LET view == run[r].view \o <<[id |-> made + 1, kind |-> "user"], Turn>>
       IN  run' = [run EXCEPT ![r].pc = "loop", ![r].view = view,
                              ![r].user = made + 1,
                              ![r].orig = OriginalUserMessage(view)]
    /\ made' = made + 1
    /\ UNCHANGED <<plan, disk, live, sess, marked, rows, txn, budget>>

(* The model answers with tool calls: the stage before the batch is noted,  *)
(* the batch's messages are appended.                                       *)
StartBatch(r) ==
    /\ run[r].pc = "loop" /\ made < MaxMsgs
    /\ run' = [run EXCEPT ![r].pc = "batch", ![r].at = plan,
                           ![r].view = Append(@, [id |-> made + 1, kind |-> "asst"])]
    /\ made' = made + 1
    /\ UNCHANGED <<plan, disk, live, sess, marked, rows, txn, budget>>

(* The model answers with text: the loop ends. *)
Answer(r) ==
    /\ run[r].pc = "loop" /\ made < MaxMsgs
    /\ run' = [run EXCEPT ![r].pc = "tail",
                           ![r].view = Append(@, [id |-> made + 1, kind |-> "asst"])]
    /\ made' = made + 1
    /\ UNCHANGED <<plan, disk, live, sess, marked, rows, txn, budget>>

(* The answer claims what the plan does not hold: the loop goes on with a   *)
(* transient repair hint.                                                   *)
RepairHint(r) ==
    /\ run[r].pc = "loop" /\ made < MaxMsgs
    /\ run' = [run EXCEPT ![r].view = @ \o <<[id |-> made + 1, kind |-> "asst"], Turn>>]
    /\ made' = made + 1
    /\ UNCHANGED <<plan, disk, live, sess, marked, rows, txn, budget>>

(* An LLM error, a failing rebuild, the iteration limit or the cancel flag. *)
StopLoop(r) ==
    /\ run[r].pc \in {"loop", "rebuild"}
    /\ run' = [run EXCEPT ![r].pc = "tail"]
    /\ UNCHANGED <<plan, disk, live, sess, made, marked, rows, txn, budget>>

(* Mutant: the messages are rebuilt without the callback that flushes them. *)
DetectUnflushed(r, now, why) ==
    LET at == run[r].at
        move == [from |-> at.phase, to |-> now.phase, step |-> at.step,
                 why |-> IF why = "backtrack" THEN why
                         ELSE IF now.phase # at.phase THEN "phase_forward"
                         ELSE "phase2_step_change"]
    IN  IF why # "backtrack" /\ now.phase = at.phase /\ now.step = at.step
        THEN run' = [run EXCEPT ![r].pc = "loop"]
        ELSE /\ sess.epoch < MaxEpoch
             /\ run' = [run EXCEPT ![r].pc = "rebuild", ![r].move = move]

(* detect_phase_transition on the stage before the batch and the one now:   *)
(* a change asks for a rebuild, and a phase change goes before a step one.  *)
Detect(r, now, why) ==
    LET at == run[r].at
        move == [from |-> at.phase, to |-> now.phase, step |-> at.step,
                 why |-> IF why = "backtrack" THEN why
                         ELSE IF now.phase # at.phase THEN "phase_forward"
                         ELSE "phase2_step_change"]
    IN  IF why # "backtrack" /\ now.phase = at.phase /\ now.step = at.step
        THEN run' = [run EXCEPT ![r].pc = "loop"]
        ELSE /\ sess.epoch < MaxEpoch
             /\ run' = [run EXCEPT ![r].pc = "shift", ![r].move = move]

(* A batch that wrote no plan field, or one during which the phase moved    *)
(* already: the router is not asked.                                        *)
EndReadBatch(r) ==
    /\ run[r].pc = "batch"
    /\ Detect(r, plan, "none")
    /\ UNCHANGED <<plan, disk, live, sess, made, marked, rows, txn, budget>>

(* A plan writer succeeded: the plan is saved with the stage it has, then   *)
(* the router recomputes the stage in memory only.                          *)
EndWriteBatch(r) ==
    /\ run[r].pc = "batch" /\ plan.phase = run[r].at.phase
    /\ \E phase \in Inferred(plan) : \E step \in StepsOf(phase) :
          /\ plan' = [phase |-> phase, step |-> step, synced |-> TRUE]
          /\ Detect(r, plan', "none")
    /\ disk' = [plan EXCEPT !.synced = FALSE]
    /\ UNCHANGED <<live, sess, made, marked, rows, txn, budget>>

(* request_backtrack succeeded: the plan is moved back and saved. *)
EndBacktrackBatch(r) ==
    /\ run[r].pc = "batch" /\ Spend("tool")
    /\ \E to \in 1..(plan.phase - 1) :
          /\ plan' = BackedTo(plan, to)
          /\ Detect(r, plan', "backtrack")
    /\ disk' = plan'
    /\ UNCHANGED <<live, sess, made, marked, rows, txn>>

(* The new runtime view.  Phase changes carry a durable handoff note or     *)
(* backtrack notice, step changes nothing durable at all.                   *)
Rebuild(r) ==
    LET move == run[r].move
        notice == [id |-> made + 1, kind |-> IF move.to < move.from THEN "app" ELSE "asst"]
    IN  /\ run[r].pc = "rebuild"
        /\ \/ /\ move.why = "phase2_step_change"
              /\ run' = [run EXCEPT ![r].pc = "loop", ![r].view = <<run[r].orig, Turn>>]
              /\ made' = made
           \/ /\ move.why # "phase2_step_change" /\ made < MaxMsgs
              /\ run' = [run EXCEPT ![r].pc = "loop",
                                     ![r].view = <<run[r].orig, notice, Turn>>]
              /\ made' = made + 1
        /\ UNCHANGED <<plan, disk, live, sess, marked, rows, txn, budget>>

(* on_before_llm over the prompt budget: the history becomes the user-role  *)
(* messages with a preference signal, a summary and the last four.  The     *)
(* system message counts among what can be summarised.                      *)
Summarise(r) ==
    LET view == run[r].view
        recent == {i \in DOMAIN view : i > Len(view) - 4}
    IN  /\ run[r].pc = "loop" /\ made < MaxMsgs /\ Spend("summary")
        /\ \E keep \in SUBSET {i \in DOMAIN view : view[i].kind \in UserRole} :
              /\ Len(view) + 1 - Cardinality(keep) > 2
              /\ run' = [run EXCEPT ![r].view =
                            Pick(view, keep) \o <<[id |-> made + 1, kind |-> "app"]>>
                            \o Pick(view, recent \ keep)]
        /\ made' = made + 1
        /\ UNCHANGED <<plan, disk, live, sess, marked, rows, txn>>

-----------------------------------------------------------------------------
(* Flushing *)

(* Mutant: every flush is labelled with the plan's stage. *)
LabelNow(r, goal) == [phase |-> plan.phase, step |-> plan.step]

(* The label the rows get: a phase change reads the step of the plan as it  *)
(* is after the change, a step change the one before it, every other flush  *)
(* the stage of the plan.                                                   *)
Label(r, goal) ==
    LET move == run[r].move
    IN  IF goal # "rebuild" THEN [phase |-> plan.phase, step |-> plan.step]
        ELSE [phase |-> move.from,
              step  |-> IF move.why = "phase2_step_change" THEN move.step
                        ELSE IF move.from = 2 THEN plan.step ELSE "noStep"]

(* persist_unflushed_messages up to its await: cursor, epoch and pending    *)
(* reason are read from the session, the unsaved messages are numbered.     *)
Prepared(r, goal) ==
    [goal |-> goal, cursor |-> sess.cursor, epoch |-> sess.epoch,
     batch |-> Unsaved(run[r].view), reason |-> sess.reason,
     phase |-> Label(r, goal).phase, step |-> Label(r, goal).step]

GoTo(r, pc) == [run EXCEPT ![r].pc = pc, ![r].view = Durable(@),
                           ![r].flush = Idle.flush]

(* The end of the generator: session["messages"] is replaced. *)
Close(r, s) == /\ sess' = [s EXCEPT !.msgs = Durable(run[r].view)]
               /\ run' = [run EXCEPT ![r] = Idle]

(* What the caller of a successful flush does in the same step.  s is the   *)
(* session with the cursor written back.                                    *)
Succeed(r, f, s) ==
    \/ /\ f.goal = "rebuild"
       /\ sess' = [s EXCEPT !.epoch = f.epoch + 1, !.reason = run[r].move.why]
       /\ run' = GoTo(r, "rebuild")
       /\ plan' = plan
    \/ /\ f.goal = "fallback" /\ run[r].target < plan.phase
       /\ sess' = s
       /\ run' = GoTo(r, "settled")
       /\ plan' = BackedTo(plan, run[r].target)
    \/ /\ f.goal = "fallback" /\ run[r].target >= plan.phase   \* ValueError
       /\ sess' = s
       /\ run' = GoTo(r, "safe")
       /\ plan' = plan
    \/ /\ f.goal = "final"
       /\ sess' = s
       /\ run' = GoTo(r, "safe")
       /\ plan' = plan
    \/ /\ f.goal = "safe"
       /\ Close(r, s)
       /\ plan' = plan

(* The two flushes that save the plan first. *)
Saves(goal) == goal \in {"final", "safe"}

(* Where a run stands when it calls each flush. *)
CallsFrom(goal) == IF goal = "rebuild" THEN {"shift"}
                   ELSE IF goal = "safe" THEN {"safe"}
                   ELSE IF goal = "fallback" THEN {"fallback"}
                   ELSE {"tail", "settled", "final"}

Calls(r, goal) ==
    /\ run[r].pc \in CallsFrom(goal)
    /\ disk' = IF Saves(goal) THEN plan ELSE disk

(* A flush with rows: it suspends in executemany or in commit. *)
BeginFlush(r, goal) ==
    LET f == Prepared(r, goal)
    IN  /\ Calls(r, goal) /\ f.batch # <<>>
        /\ sess' = [sess EXCEPT !.reason = "none"]
        /\ run' = [run EXCEPT ![r].pc = "flush", ![r].view = Durable(@),
                              ![r].flush = f]
        /\ UNCHANGED <<plan, live, made, marked, rows, txn, budget>>

(* A flush without rows: nothing suspends, the caller goes on. *)
EmptyFlush(r, goal) ==
    LET f == Prepared(r, goal)
    IN  /\ Calls(r, goal) /\ f.batch = <<>>
        /\ Succeed(r, f, [sess EXCEPT !.reason = "none"])
        /\ UNCHANGED <<live, made, marked, rows, txn, budget>>

(* maybe_apply_backtrack_fallback: the user's text asks for an earlier      *)
(* phase and the run did not move the plan.  It yields before it flushes.   *)
Fallback(r) ==
    /\ run[r].pc = "tail" /\ plan.phase = run[r].start /\ Spend("fallback")
    /\ \E to \in BacktrackPatterns \cap (1..(plan.phase - 1)) :
          run' = [run EXCEPT ![r].pc = "fallback", ![r].target = to]
    /\ UNCHANGED <<plan, disk, live, sess, made, marked, rows, txn>>

(* Mutant: the cursor is not written back. *)
FlushDoneForgetsCursor(r) ==
    LET f == run[r].flush
    IN  /\ run[r].pc = "flush" /\ Fits(f)
        /\ rows' = rows \cup txn \cup BatchRows(f)
        /\ txn' = {}
        /\ marked' = marked \cup {f.batch[i].id : i \in DOMAIN f.batch}
        /\ Succeed(r, f, sess)
        /\ UNCHANGED <<disk, live, made, budget>>

(* Mutant: the rows are numbered by the database, after the await. *)
FlushDoneNumbersLate(r) ==
    LET f == [run[r].flush EXCEPT !.cursor = NextSeq(rows)]
    IN  /\ run[r].pc = "flush" /\ Fits(f)
        /\ rows' = rows \cup txn \cup BatchRows(f)
        /\ txn' = {}
        /\ marked' = marked \cup {f.batch[i].id : i \in DOMAIN f.batch}
        /\ Succeed(r, f, [sess EXCEPT !.cursor = f.cursor + Len(f.batch)])
        /\ UNCHANGED <<disk, live, made, budget>>

(* The database answered: executemany and commit went through.  The commit  *)
(* is the connection's, so it takes what a cancelled flush had left along.  *)
FlushDone(r) ==
    LET f == run[r].flush
    IN  /\ run[r].pc = "flush" /\ Fits(f)
        /\ rows' = rows \cup txn \cup BatchRows(f)
        /\ txn' = {}
        /\ marked' = marked \cup {f.batch[i].id : i \in DOMAIN f.batch}
        /\ Succeed(r, f, [sess EXCEPT !.cursor = f.cursor + Len(f.batch)])
        /\ UNCHANGED <<disk, live, made, budget>>

(* Mutant: the messages are marked although the insert failed. *)
FlushConflictMarks(r) ==
    LET f == run[r].flush
    IN  /\ run[r].pc = "flush" /\ ~Fits(f)
        /\ txn' = {}
        /\ marked' = marked \cup {f.batch[i].id : i \in DOMAIN f.batch}
        /\ \/ /\ f.goal = "rebuild" /\ run' = GoTo(r, "rebuild") /\ sess' = sess
           \/ /\ f.goal \in {"fallback", "final"} /\ run' = GoTo(r, "safe") /\ sess' = sess
           \/ /\ f.goal = "safe" /\ Close(r, sess)
        /\ UNCHANGED <<plan, disk, live, made, rows, budget>>

(* A number is taken: rollback, and the exception goes to the caller, which *)
(* swallows it (rebuild, safe) or unwinds to the safety net.                *)
FlushConflict(r) ==
    LET f == run[r].flush
    IN  /\ run[r].pc = "flush" /\ ~Fits(f)
        /\ txn' = {}
        /\ \/ /\ f.goal = "rebuild" /\ run' = GoTo(r, "rebuild") /\ sess' = sess
           \/ /\ f.goal \in {"fallback", "final"} /\ run' = GoTo(r, "safe") /\ sess' = sess
           \/ /\ f.goal = "safe" /\ Close(r, sess)
        /\ UNCHANGED <<plan, disk, live, made, marked, rows, budget>>

(* _apply_message_fallbacks after a backtrack: a trip fact in the user's    *)
(* text can make the router move the plan once more.                        *)
MessageFallbacks(r) ==
    /\ run[r].pc \in {"tail", "settled"} /\ plan.phase < run[r].start
    /\ \E phase \in Inferred(plan) : \E step \in StepsOf(phase) :
          plan' = [phase |-> phase, step |-> step, synced |-> TRUE]
    /\ run' = [run EXCEPT ![r].pc = "final"]
    /\ UNCHANGED <<disk, live, sess, made, marked, rows, txn, budget>>

-----------------------------------------------------------------------------
(* Disturbances *)

(* The client goes away outside a flush: recall is before the generator's   *)
(* try block, the safety net is its last step, all else leads to it.        *)
Cancel(r) ==
    /\ run[r].pc \notin {"off", "flush"} /\ Spend("cancel")
    /\ \/ /\ run[r].pc = "recall"
          /\ run' = [run EXCEPT ![r] = Idle] /\ sess' = sess
       \/ /\ run[r].pc = "safe" /\ Close(r, sess)
       \/ /\ run[r].pc \notin {"recall", "safe"}
          /\ run' = [run EXCEPT ![r].pc = "safe"] /\ sess' = sess
    /\ UNCHANGED <<plan, disk, live, made, marked, rows, txn>>

(* The statement a cancelled flush was waiting for runs all the same; what  *)
(* came after it does not.  Interrupted in executemany it leaves its rows   *)
(* uncommitted, in commit committed, in rollback rolled back; none of the   *)
(* three marks a message or moves the cursor.                               *)
Abandoned(f) ==
    \/ Fits(f) /\ rows' = rows /\ txn' = txn \cup BatchRows(f)
    \/ Fits(f) /\ rows' = rows \cup txn \cup BatchRows(f) /\ txn' = {}
    \/ ~Fits(f) /\ rows' = rows /\ txn' \in {txn, {}}

CancelFlush(r) ==
    LET f == run[r].flush
    IN  /\ run[r].pc = "flush" /\ Spend("cancel")
        /\ Abandoned(f)
        /\ \/ /\ f.goal = "safe" /\ Close(r, sess)
           \/ /\ f.goal # "safe" /\ run' = GoTo(r, "safe") /\ sess' = sess
        /\ UNCHANGED <<plan, disk, live, made, marked>>

(* run_timeout covers the loop only: the run goes on with its tail. *)
Timeout(r) ==
    /\ run[r].pc \in {"loop", "batch", "shift", "rebuild"} /\ Spend("cancel")
    /\ run' = [run EXCEPT ![r].pc = "tail"]
    /\ UNCHANGED <<plan, disk, live, sess, made, marked, rows, txn>>

TimeoutFlush(r) ==
    /\ run[r].pc = "flush" /\ run[r].flush.goal = "rebuild" /\ Spend("cancel")
    /\ Abandoned(run[r].flush)
    /\ run' = GoTo(r, "tail")
    /\ UNCHANGED <<plan, disk, live, sess, made, marked>>

(* Any other write on the shared connection commits what lies there.  (That  *)
(* a failing write of another session rolls it back is not modelled here.)  *)
OtherCommit ==
    /\ txn # {}
    /\ rows' = rows \cup txn
    /\ txn' = {}
    /\ UNCHANGED <<plan, disk, live, sess, made, marked, run, budget>>

(* POST /backtrack, which no run has to know of. *)
RouteBacktrack ==
    /\ live /\ Spend("route")
    /\ \E to \in 1..(plan.phase - 1) : plan' = BackedTo(plan, to)
    /\ disk' = plan'
    /\ UNCHANGED <<live, sess, made, marked, rows, txn, run>>

(* The process dies; a commit it was waiting for may have happened. *)
Crash ==
    /\ live /\ Spend("crash")
    /\ live' = FALSE
    /\ run' = [r \in Runs |-> Idle]
    /\ \/ rows' = rows
       \/ \E r \in Runs :
             /\ run[r].pc = "flush" /\ Fits(run[r].flush)
             /\ rows' = rows \cup txn \cup BatchRows(run[r].flush)
    /\ txn' = {}
    /\ UNCHANGED <<plan, disk, sess, made, marked>>

(* Mutant: the context epoch starts again. *)
RestoreFirstEpoch ==
    /\ ~live
    /\ live' = TRUE
    /\ plan' \in Synced(disk)
    /\ sess' = [cursor |-> NextSeq(rows), epoch |-> 0,
                reason |-> "none", msgs |-> HistoryView(rows)]
    /\ marked' = IdsOf(rows)
    /\ UNCHANGED <<disk, made, rows, txn, run, budget>>

(* Mutant: the restored messages are not flagged as persisted. *)
RestoreUnmarked ==
    /\ ~live
    /\ live' = TRUE
    /\ plan' \in Synced(disk)
    /\ sess' = [cursor |-> NextSeq(rows), epoch |-> LastEpoch(rows),
                reason |-> "none", msgs |-> HistoryView(rows)]
    /\ marked' = {}
    /\ UNCHANGED <<disk, made, rows, txn, run, budget>>

(* restore_session: plan from disk, everything else from the rows. *)
Restore ==
    /\ ~live
    /\ live' = TRUE
    /\ plan' \in Synced(disk)
    /\ sess' = [cursor |-> NextSeq(rows), epoch |-> LastEpoch(rows),
                reason |-> "none", msgs |-> HistoryView(rows)]
    /\ marked' = IdsOf(rows)
    /\ UNCHANGED <<disk, made, rows, txn, run, budget>>

-----------------------------------------------------------------------------
RunStep(r) ==
    \/ Begin(r) \/ BuildView(r) \/ StartBatch(r) \/ Answer(r)
    \/ RepairHint(r) \/ StopLoop(r)
    \/ EndReadBatch(r) \/ EndWriteBatch(r) \/ EndBacktrackBatch(r)
    \/ Rebuild(r) \/ Summarise(r)
    \/ \E goal \in Goals : BeginFlush(r, goal) \/ EmptyFlush(r, goal)
    \/ FlushDone(r) \/ FlushConflict(r)
    \/ Fallback(r) \/ MessageFallbacks(r)
    \/ Cancel(r) \/ CancelFlush(r) \/ Timeout(r) \/ TimeoutFlush(r)

Next ==
    \/ \E r \in Runs : RunStep(r)
    \/ OtherCommit \/ RouteBacktrack \/ Crash \/ Restore

Spec == Init /\ [][Next]_vars

-----------------------------------------------------------------------------
(* Properties *)

SessState == [cursor : Nat, epoch : Nat, reason : Reasons, msgs : Seq(Entry)]

(* Every variable stays within the shapes above. *)
TypeOK ==
    /\ plan \in Stage /\ disk \in Stage
    /\ live \in BOOLEAN
    /\ sess \in SessState
    /\ made \in Nat
    /\ marked \subseteq Nat
    /\ rows \subseteq Row /\ txn \subseteq Row
    /\ run \in [Runs -> RunState]
    /\ budget \in [Disturbances -> Nat]

InFlight == {r \in Runs : run[r].pc = "flush"}
Quiet == live /\ \A r \in Runs : run[r].pc = "off"

(* history_seq numbers the rows 0, 1, 2, ... without a gap and without a    *)
(* repetition, whatever runs, cancellations and crashes interleave: the     *)
(* cursor is read before the await and written back after it, only the      *)
(* unique index keeps two flushes apart.                                    *)
Contiguous ==
    /\ SeqsOf(rows) = 0..(NextSeq(rows) - 1)
    /\ \A a, b \in rows : a.seq = b.seq => a = b

(* The rows of an older context epoch precede those of a newer one: a       *)
(* flush that read the old epoch can never land behind the rows of the next *)
(* one, so the segments derived from the rows are intervals of the history. *)
EpochsOrdered == \A a, b \in rows : a.seq < b.seq => a.epoch <= b.epoch

(* No message is stored twice, although up to four flushes of a run and the *)
(* flushes of the next runs see the same message object.                    *)
NoDuplicateMessage == \A a, b \in rows : a.id = b.id => a = b

(* A message flagged history_persisted, which no flush will write again,    *)
(* has its row.                                                             *)
MarkedHasRow == live => marked \subseteq IdsOf(rows)

(* Between flushes the session's cursor is the number the next row must     *)
(* have: otherwise every later flush runs into the unique index.            *)
CursorFresh == live /\ InFlight = {} => sess.cursor = NextSeq(rows)

(* When no run is active, every durable message ever shown to the model has *)
(* its row.                                                                 *)
HistoryComplete == Quiet => 1..made \subseteq IdsOf(rows)

(* The rows of one epoch were written for one phase.                        *)
OnePhasePerEpoch == \A a, b \in rows : a.epoch = b.epoch => a.phase = b.phase

(* The same, as long as nobody but the agent loop moved the plan back: its  *)
(* rebuilds flush the rows of the phase that ends before they open an epoch. *)
LoopKeepsPhase ==
    budget["route"] = Budget["route"] /\ budget["fallback"] = Budget["fallback"]
        => OnePhasePerEpoch

(* The rows that one epoch has of Phase 2 were written for one of its steps. *)
OneStepPerEpoch ==
    \A a, b \in rows : a.epoch = b.epoch /\ a.phase = 2 /\ b.phase = 2
                        => a.step = b.step

(* A rebuild reason stands on the first row of its epoch and nowhere else.  *)
ReasonOnFirstRow ==
    \A a, b \in rows : a.reason # "none" /\ a.epoch = b.epoch => a.seq <= b.seq

(* The first row of every epoch but the initial one says why it began.      *)
EveryEpochTagged ==
    \A a \in rows : a.epoch > 0 =>
        \E b \in rows : b.epoch = a.epoch /\ b.reason # "none"

(* While the loop runs, the user's request is in the runtime view.          *)
RequestInView ==
    \A r \in Runs : run[r].pc = "loop" =>
        \E i \in DOMAIN run[r].view : run[r].view[i].id = run[r].user

-----------------------------------------------------------------------------
(* The inductive invariant behind Contiguous and EpochsOrdered *)

Numbered(S) == /\ SeqsOf(S) = 0..(NextSeq(S) - 1)
               /\ NextSeq(S) \in Nat
               /\ \A a, b \in S : a.seq = b.seq => a = b

(* Uncommitted rows continue the committed ones. *)
TxnBehind == \A t \in txn : \A q \in rows : q.seq < t.seq

(* No cursor, in the session or in a flush under way, is past the rows.     *)
CursorsBehind ==
    /\ sess.cursor <= NextSeq(rows)
    /\ \A r \in InFlight : /\ run[r].flush.cursor <= NextSeq(rows)
                            /\ run[r].flush.batch # <<>>

(* A flush that can still land read an epoch no row is ahead of. *)
EpochsBehind ==
    /\ \A a, b \in rows \cup txn : a.seq < b.seq => a.epoch <= b.epoch
    /\ live => \A a \in rows \cup txn : a.epoch <= sess.epoch
    /\ \A r \in InFlight : run[r].flush.cursor = NextSeq(rows) =>
          /\ run[r].flush.epoch <= sess.epoch
          /\ \A a \in rows : a.epoch <= run[r].flush.epoch

(* A session that is not loaded has no run, and nothing uncommitted.        *)
Unloaded == ~live => txn = {} /\ \A r \in Runs : run[r].pc = "off"

IInv == /\ TypeOK /\ Unloaded
        /\ Numbered(rows) /\ Numbered(rows \cup txn)
        /\ TxnBehind /\ CursorsBehind /\ EpochsBehind

=============================================================================
