---------------------------- MODULE MemoryQueue ----------------------------
(***************************************************************************)
(* The background extraction of memories of one session: the scheduler     *)
(* that runs one job at a time and keeps only the newest waiting snapshot  *)
(* (MemoryJobScheduler), and the job itself, which asks a gate and then an *)
(* extractor and remembers in last_consumed_user_count how many of the     *)
(* session's user messages have been dealt with.                           *)
(*                                                                         *)
(* A turn (POST /chat) captures session["messages"], submits a snapshot    *)
(* and, when it ends, replaces session["messages"].  Only messages with    *)
(* the role USER matter, and only their identities: n is the request of    *)
(* the n-th turn, 0 stands for application events, which have that role    *)
(* too.  Not modelled: what the extractor writes, the event stream to the  *)
(* browser, the limit of 120 rows of a restored history, the deletion of a *)
(* session; when a message gets its row is the subject of ContextHistory.   *)
(***************************************************************************)
EXTENDS Integers, Sequences, SequencesExt

CONSTANTS
    Slots,      \* how many turns of the session can be in flight at once
    Window,     \* extraction_max_user_messages (8)
    Clips,      \* whether messages can be long enough for the character limit
    MaxTurns,   \* bound: turns ever begun
    Budget      \* bound: how often each of Disturbances may happen

(* A client that leaves before the run begins, a rebuild or a summary of a  *)
(* turn's messages, a restart of the process.                               *)
Disturbances == {"abandon", "rebuild", "summary", "restart"}

ASSUME WindowAssumption == Window \in Nat \ {0}
ASSUME ClipsAssumption == Clips \in BOOLEAN
ASSUME BoundsAssumption == MaxTurns \in Nat /\ Budget \in [Disturbances -> Nat]

VARIABLES
    hist,       \* session["messages"]: the messages with role USER
    turn,       \* per slot: the list the turn works on and how far it is
    sent,       \* turns begun so far
    latest,     \* the turn that submitted last
    job,        \* running_task: its stage, its snapshot, the start of its window
    pending,    \* pending_snapshot; <<>> is None
    idle,       \* _idle_event
    consumed,   \* last_consumed_user_count
    extracted,  \* history: messages an extraction finished with, in this process
    owed,       \* history: messages whose extraction failed and was not repeated
    budget      \* what is left of Budget

vars == <<hist, turn, sent, latest, job, pending, idle, consumed,
          extracted, owed, budget>>

scheduler == <<latest, job, pending, idle, consumed, extracted, owed>>

session == <<hist, turn, sent, budget>>

Spend(kind) ==
    budget[kind] > 0 /\ budget' = [budget EXCEPT ![kind] = @ - 1]

-----------------------------------------------------------------------------
NoTurn == [list |-> <<>>, at |-> "none"]
NoJob == [stage |-> "none", snap |-> <<>>, from |-> 1]
Gating(snap) == [stage |-> "gate", snap |-> snap, from |-> 1]

Larger(a, b) == IF a >= b THEN a ELSE b

(* The elements of a finite set of numbers in order: there is one such list. *)
InOrder(S) ==
    {f \in [1..Cardinality(S) -> S] : \A i, k \in DOMAIN f : i < k => f[i] < f[k]}

(* The messages of list at the places f names.                              *)
Picked(list, f) == [i \in DOMAIN f |-> list[f[i]]]

(* The messages of the extraction window: a suffix of the snapshot.         *)
InWindow(j) == {j.snap[i] : i \in j.from..Len(j.snap)}

(* Mutant: the window ignores what was consumed. *)
WindowStartsAll(snap, count) ==
    {i \in 1..Len(snap) : Len(snap) - i < Window}

(* build_extraction_user_window: what lies behind the consumed count, cut   *)
(* to the last Window messages and, if they are long, to fewer.  Nothing    *)
(* behind the count: an empty window.                                       *)
WindowStarts(snap, count) ==
    LET open == {i \in 1..Len(snap) : i > count /\ Len(snap) - i < Window}
    IN  IF open = {} THEN {Len(snap) + 1}
        ELSE IF Clips THEN open
        ELSE {CHOOSE i \in open : \A k \in open : i <= k}

Init ==
    /\ hist = <<>>
    /\ turn = [s \in Slots |-> NoTurn]
    /\ sent = 0 /\ latest = 0
    /\ job = NoJob /\ pending = <<>> /\ idle = TRUE
    /\ consumed = 0
    /\ extracted = {} /\ owed = {}
    /\ budget = Budget

-----------------------------------------------------------------------------
(* Turns *)

(* The request: the history is captured, the trace rows are awaited.        *)
BeginTurn(s) ==
    /\ turn[s] = NoTurn /\ sent < MaxTurns
    /\ sent' = sent + 1
    /\ turn' = [turn EXCEPT ![s] = [list |-> Append(hist, sent + 1), at |-> "open"]]
    /\ UNCHANGED <<hist, budget, scheduler>>

(* Mutant: the snapshot that waits is kept. *)
SubmitKeepsFirst(s) ==
    LET snap == turn[s].list
    IN  /\ turn[s].at = "open"
        /\ turn' = [turn EXCEPT ![s].at = "submitted"]
        /\ latest' = Last(snap)
        /\ idle' = FALSE
        /\ IF job.stage = "none"
           THEN job' = Gating(snap) /\ UNCHANGED pending
           ELSE /\ pending' = IF pending = <<>> THEN snap ELSE pending
                /\ UNCHANGED job
        /\ UNCHANGED <<hist, sent, consumed, extracted, owed, budget>>

(* MemoryJobScheduler.submit: start, or replace the snapshot that waits.    *)
Submit(s) ==
    LET snap == turn[s].list
    IN  /\ turn[s].at = "open"
        /\ turn' = [turn EXCEPT ![s].at = "submitted"]
        /\ latest' = Last(snap)
        /\ idle' = FALSE
        /\ IF job.stage = "none"
           THEN job' = Gating(snap) /\ UNCHANGED pending
           ELSE pending' = snap /\ UNCHANGED job
        /\ UNCHANGED <<hist, sent, consumed, extracted, owed, budget>>

(* The memory is recalled and the run begins.                               *)
BeginRun(s) ==
    /\ turn[s].at = "submitted"
    /\ turn' = [turn EXCEPT ![s].at = "run"]
    /\ UNCHANGED <<hist, sent, budget, scheduler>>

(* The phase or the step changes: the turn works on rebuilt messages, whose *)
(* user message is the turn context, which is not kept.  What is left is    *)
(* nothing, or the event that tells of a backtrack.                         *)
Rebuild(s) ==
    /\ turn[s].at = "run" /\ Spend("rebuild")
    /\ \E left \in {<<>>, <<0>>} :
          turn' = [turn EXCEPT ![s].list = left]
    /\ UNCHANGED <<hist, sent, scheduler>>

(* Over the prompt budget: the messages with a preference signal, the       *)
(* summary, and what is left of the last four messages.                     *)
Summarise(s) ==
    LET list == turn[s].list
    IN  /\ turn[s].at = "run" /\ Spend("summary")
        /\ \E keep \in SUBSET DOMAIN list : \E n \in 0..Len(list) :
              /\ n <= 4
              /\ \E f \in InOrder(keep), g \in InOrder((DOMAIN list \ keep) \ 1..(Len(list) - n)) :
                    turn' = [turn EXCEPT ![s].list = Picked(list, f) \o <<0>> \o Picked(list, g)]
        /\ UNCHANGED <<hist, sent, scheduler>>

(* The turn ends: session["messages"] is what it worked on.                 *)
EndTurn(s) ==
    /\ turn[s].at = "run"
    /\ hist' = turn[s].list
    /\ turn' = [turn EXCEPT ![s] = NoTurn]
    /\ UNCHANGED <<sent, budget, scheduler>>

(* The client goes away before the run begins: session["messages"] stays.   *)
AbandonTurn(s) ==
    /\ turn[s].at \in {"open", "submitted"} /\ Spend("abandon")
    /\ turn' = [turn EXCEPT ![s] = NoTurn]
    /\ UNCHANGED <<hist, sent, scheduler>>

-----------------------------------------------------------------------------
(* The job *)

(* Mutant: the snapshot that waits is dropped. *)
FinishJobIdle ==
    /\ job' = NoJob
    /\ pending' = <<>>
    /\ idle' = TRUE

(* The finally block of MemoryJobScheduler._run: the snapshot that waits is *)
(* started, whether the runner returned or raised.                          *)
FinishJob ==
    /\ job' = IF pending = <<>> THEN NoJob ELSE Gating(pending)
    /\ pending' = <<>>
    /\ idle' = (pending = <<>>)

Consume == consumed' = Larger(consumed, Len(job.snap))

(* The gate found nothing to extract: the snapshot counts as consumed.      *)
GateSkips ==
    /\ job.stage = "gate"
    /\ Consume
    /\ FinishJob
    /\ UNCHANGED <<session, latest, extracted, owed>>

(* The gate timed out, failed, or an exception left the runner.             *)
GateFails ==
    /\ job.stage = "gate"
    /\ FinishJob
    /\ UNCHANGED <<session, latest, consumed, extracted, owed>>

(* The gate asks for an extraction: its window is cut.                      *)
GatePasses ==
    /\ job.stage = "gate"
    /\ \E i \in WindowStarts(job.snap, consumed) :
          job' = [job EXCEPT !.stage = "extract", !.from = i]
    /\ UNCHANGED <<session, latest, pending, idle, consumed, extracted, owed>>

(* The extraction succeeded, or had nothing to save, or an empty window.    *)
ExtractionDone ==
    /\ job.stage = "extract"
    /\ Consume
    /\ extracted' = extracted \cup InWindow(job)
    /\ owed' = owed \ InWindow(job)
    /\ FinishJob
    /\ UNCHANGED <<session, latest>>

(* A timeout, an exception or a route that failed: the count stays, so that *)
(* the next job can try again.                                              *)
ExtractionFails ==
    /\ job.stage = "extract" /\ InWindow(job) # {}
    /\ owed' = owed \cup InWindow(job)
    /\ FinishJob
    /\ UNCHANGED <<session, latest, consumed, extracted>>

(* The process restarts: nothing of the scheduler survives, the session's   *)
(* messages are the requests that had got a row, whichever they were.       *)
Restart ==
    /\ Spend("restart")
    /\ \E kept \in SUBSET (1..sent) : hist' \in InOrder(kept)
    /\ turn' = [s \in Slots |-> NoTurn]
    /\ job' = NoJob /\ pending' = <<>> /\ idle' = TRUE
    /\ latest' = 0 /\ consumed' = 0 /\ extracted' = {} /\ owed' = {}
    /\ UNCHANGED sent

-----------------------------------------------------------------------------
JobStep == GateSkips \/ GateFails \/ GatePasses \/ ExtractionDone \/ ExtractionFails

Next ==
    \/ \E s \in Slots : \/ BeginTurn(s) \/ Submit(s) \/ BeginRun(s)
                        \/ Rebuild(s) \/ Summarise(s)
                        \/ EndTurn(s) \/ AbandonTurn(s)
    \/ JobStep
    \/ Restart

(* Gate and extractor are bounded by wait_for (30 s and 40 s), so a job     *)
(* that runs goes on.  Nothing is assumed of clients and restarts.          *)
Spec == Init /\ [][Next]_vars /\ WF_vars(JobStep)

-----------------------------------------------------------------------------
(* Properties *)

Ids == 0..sent

(* Every variable stays within its shape; no message is ahead of its turn.  *)
TypeOK ==
    /\ hist \in Seq(Ids)
    /\ turn \in [Slots -> [list : Seq(Ids),
                           at : {"none", "open", "submitted", "run"}]]
    /\ sent \in Nat /\ latest \in Ids
    /\ job \in [stage : {"none", "gate", "extract"}, snap : Seq(Ids), from : Nat \ {0}]
    /\ pending \in Seq(Ids)
    /\ idle \in BOOLEAN
    /\ consumed \in Nat
    /\ extracted \subseteq Ids /\ owed \subseteq Ids
    /\ budget \in [Disturbances -> Nat]

(* What waits is the newest snapshot, and it waits for a job: a snapshot    *)
(* submitted during a job is neither started beside it nor outlived by an   *)
(* older one.  The idle event tells the truth.                              *)
NewestWaits ==
    /\ pending # <<>> => job.stage # "none" /\ Last(pending) = latest
    /\ idle <=> job.stage = "none"

(* As long as no history is summarised, no request is extracted twice in    *)
(* one process, although messages are known by their place in a list that   *)
(* turns replace, and rebuilds and abandoned turns shorten.  (A summary is  *)
(* an event with the role USER in front of the last messages and moves them *)
(* behind the count: then it happens.)                                      *)
NoDoubleExtraction ==
    job.stage = "extract" /\ budget["summary"] = Budget["summary"] =>
        InWindow(job) \cap extracted \subseteq {0}

(* A snapshot that waits gets its job, unless a newer one replaces it or    *)
(* the process restarts.                                                    *)
NewestIsStarted ==
    \A k \in 1..MaxTurns :
        (pending # <<>> /\ Last(pending) = k)
            ~> (job.stage = "gate" /\ Last(job.snap) = k) \/ latest # k

(* What an extraction failed on is in the window of the next one.           *)
RetriedInNextExtraction == job.stage = "extract" => owed \subseteq InWindow(job)

=============================================================================
