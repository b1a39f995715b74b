----------------------------- MODULE PlanPhases -----------------------------
(***************************************************************************)
(* The life of one plan through the phases: the plan tools inside runs of  *)
(* the agent loop, the router's inference and the gate hook at the end of  *)
(* a batch, backtracks by tool, by route and by the user's text, and the   *)
(* deliverables of Phase 4 from generate_summary over the soft judge to    *)
(* the frozen files.                                                       *)
(*                                                                         *)
(* A run may be interrupted at every await of a draft's way (cancel,       *)
(* timeout, disconnect) and a write of a file may fail, MaxFaults times.   *)
(***************************************************************************)
EXTENDS TripPlan

CONSTANTS
    Restored,     \* plans an older plan.json may hold at the start
    Targets,      \* to_phase values a backtrack may ask for
    MaxRetries,   \* quality_gate.max_retries
    Noted,        \* the list fields a call may fill; others it may only empty (bound)
    MaxCalls,     \* generate_summary calls in one behaviour (bound)
    MaxFaults,    \* interruptions and failed writes (bound)
    Overlap       \* POST /backtrack may arrive while a run is under way

ASSUME PhasesAssumption ==
    /\ Targets \subseteq Int
    /\ Noted \subseteq ListFields
    /\ MaxRetries \in Nat /\ MaxCalls \in Nat /\ MaxFaults \in Nat
    /\ Overlap \in BOOLEAN

(* Sessions begin without deliverables.                                    *)
ASSUME RestoredAssumption ==
    \A p \in Restored : p \in TravelPlans /\ p.phase \in 1..4 /\ p.frozen = 0

VARIABLES
    plan,        \* the session's plan
    pc,          \* where the run is
    wrote,       \* the batch under way has written the plan
    target,      \* the phase the gate's judge is asked about
    draft,       \* _pending_phase4_deliverables: the call it came from, 0 for none
    verdict,     \* _phase4_deliverables_quality
    calls,       \* generate_summary calls so far
    refused,     \* calls whose draft the judge blocked
    files,       \* per deliverable file the call whose text it holds, 0 for none
    retries,     \* quality_gate_retries per judged edge
    feedback,    \* feedback given for generate_summary in Phase 4
    startPhase,  \* phase_before_run
    faults

vars == <<plan, pc, wrote, target, draft, verdict, calls, refused, files,
          retries, feedback, startPhase, faults>>

paperVars == <<draft, verdict, calls, refused, files, feedback>>

FileNames == {"travel_plan.md", "checklist.md"}
NoFiles   == [f \in FileNames |-> 0]
Edges     == {<<2, 3>>, <<3, 4>>}
NoVerdict == [call |-> 0, status |-> "none"]
FeedbackLimit == IF MaxRetries < 1 THEN 1 ELSE MaxRetries

Init ==
    /\ plan \in {FreshPlan} \cup Restored
    /\ pc = "idle"
    /\ wrote = FALSE
    /\ target = 0
    /\ draft = 0
    /\ verdict = NoVerdict
    /\ calls = 0
    /\ refused = {}
    /\ files = NoFiles
    /\ retries = [e \in Edges |-> 0]
    /\ feedback = 0
    /\ startPhase = plan.phase
    /\ faults = 0

-----------------------------------------------------------------------------
(* A batch of tool calls *)

BeginRun ==
    /\ pc = "idle"
    /\ pc' = "run"
    /\ startPhase' = plan.phase
    /\ feedback' = 0
    /\ UNCHANGED <<plan, wrote, target, draft, verdict, calls, refused, files, retries, faults>>

(* The tools a phase, and a step of Phase 2, offers.                       *)
Offered(tool) ==
    LET step == plan.step IN
    CASE tool = "basics"     -> plan.phase \in {1, 2}
      [] tool = "brief"      -> plan.phase = 2
      [] tool = "append"     -> plan.phase \in {1, 2}
      [] tool = "candidates" -> plan.phase = 2
      [] tool = "exclusions" -> plan.phase = 2 /\ step # "brief"
      [] tool = "skeletons"  -> plan.phase = 2 /\ step # "brief"
      [] tool = "transports" -> plan.phase = 3 \/ (plan.phase = 2 /\ step = "lock")
      [] tool = "transport"  -> plan.phase \in {3, 4} \/ (plan.phase = 2 /\ step = "lock")
      [] tool = "stays"      -> plan.phase = 2 /\ step = "lock"
      [] tool = "stay"       -> plan.phase = 3 \/ (plan.phase = 2 /\ step = "lock")
      [] tool = "notes"      -> plan.phase = 3 \/ (plan.phase = 2 /\ step = "lock")
      [] tool = "days"       -> plan.phase = 3
      [] tool = "summary"    -> plan.phase = 4

InBatch(tool) == pc = "run" /\ Offered(tool)

(* A successful write: the plan is replaced, saved, and the batch has      *)
(* written.                                                                *)
Write(p) ==
    /\ plan' = p
    /\ p.lists \subseteq Noted
    /\ wrote' = TRUE
    /\ UNCHANGED <<pc, target, startPhase, paperVars, retries, faults>>

WriteBasics ==
    /\ InBatch("basics")
    /\ \E dest, city \in BOOLEAN, dates \in DatesGiven \cup {NoDates} :
          /\ dest \/ city \/ dates # NoDates
          /\ Write(UpdateTripBasics(plan, dest, dates, city))

WriteBrief == InBatch("brief") /\ \E b \in {"bare", "full"} : Write(SetTripBrief(plan, b))

WriteNotes ==
    \/ InBatch("append") /\ \E p \in {AddPreferences(plan), AddConstraints(plan)} : Write(p)
    \/ \E filled \in BOOLEAN :
         \/ /\ InBatch("candidates")
            /\ \E p \in {SetCandidatePool(plan, filled), SetShortlist(plan, filled)} : Write(p)
         \/ InBatch("exclusions") /\ Write(SetExcludedCandidates(plan, filled))
         \/ InBatch("transports") /\ Write(SetTransportOptions(plan, filled))
         \/ InBatch("stays")      /\ Write(SetAccommodationOptions(plan, filled))
         \/ /\ InBatch("notes")
            /\ \E p \in {SetRisks(plan, filled), SetAlternatives(plan, filled)} : Write(p)

WriteSkeletons ==
    /\ InBatch("skeletons")
    /\ \E list \in Drafts : SkeletonsAccepted(plan, list) /\ Write(SetSkeletonPlans(plan, list))

WriteChoice ==
    \/ /\ InBatch("skeletons")
       /\ \E key \in Ids(plan.skeletons) :
             SkeletonSelectable(plan, key) /\ Write(SelectSkeleton(plan, key))
    \/ InBatch("transport") /\ Write(SelectTransport(plan))
    \/ InBatch("stay") /\ Write(SetAccommodation(plan))

WriteDays ==
    /\ InBatch("days")
    /\ \/ \E day \in 1..MaxDays : DayInRange(plan, day) /\ Write(SaveDayPlan(plan, day))
       \/ \E n \in 1..MaxDays : CompleteCoverage(plan, 1..n) /\ Write(ReplaceAllDayPlans(plan, 1..n))

(* request_backtrack ends the batch; the stream's handler clears the files *)
(* when it sees the result.  The router is not asked.                      *)
ToolBacktrack ==
    /\ pc = "run" /\ plan.phase \in 2..4
    /\ \E to \in Targets :
          /\ CanBacktrack(plan, to)
          /\ plan' = BacktrackTo(plan, to)
    /\ files' = NoFiles
    /\ wrote' = FALSE
    /\ UNCHANGED <<pc, target, startPhase, draft, verdict, calls, refused, feedback, retries, faults>>

-----------------------------------------------------------------------------
(* The end of a batch: inference and gate *)

DayCountError(p) ==
    /\ p.dates # NoDates /\ p.days # {}
    /\ \/ Cardinality(p.days) > p.dates
       \/ Cardinality(p.days) >= p.dates /\ p.days # 1..p.dates

(* Other hard constraints (times, budget, transport, pace) need days.      *)
HardErrors(p) == {DayCountError(p)} \cup (IF p.days = {} THEN {} ELSE BOOLEAN)

(* A trip too short for the place is refused; the budget may be too small. *)
FeasibilityAnswers(p) ==
    IF p.dates # NoDates /\ p.dates < MinDays THEN {FALSE} ELSE BOOLEAN

Moved(p, to) == SyncPhaseState([p EXCEPT !.phase = to])

EndBatch ==
    /\ pc = "run" /\ wrote
    /\ LET p == SyncPhaseState(plan)
           to == InferPhase(p)
           edge == <<p.phase, to>>
       IN  \/ /\ to = p.phase
              /\ plan' = p /\ UNCHANGED <<pc, target>>
           \/ \E error \in HardErrors(p), feasible \in FeasibilityAnswers(p) :
                 /\ to # p.phase
                 /\ (edge = <<1, 2>> /\ ~feasible) \/ error
                 /\ plan' = p /\ UNCHANGED <<pc, target>>
           \/ /\ to # p.phase
              /\ FALSE \in HardErrors(p) /\ ~DayCountError(p)
              /\ edge = <<1, 2>> => TRUE \in FeasibilityAnswers(p)
              /\ IF edge \in Edges
                 THEN pc' = "gate" /\ target' = to /\ plan' = p
                 ELSE plan' = Moved(p, to) /\ UNCHANGED <<pc, target>>
    /\ wrote' = FALSE
    /\ UNCHANGED <<startPhase, paperVars, retries, faults>>

MayBlockOnceMore(count) == count <= MaxRetries
MayBlock(count) == count < MaxRetries

(* The judge answers, badly, well or not at all.  What was inferred before *)
(* the wait is applied after it.                                           *)
GateAnswers ==
    /\ pc = "gate"
    /\ pc' = "run" /\ target' = 0
    /\ LET edge == <<plan.phase, target>>
           count == IF edge \in Edges THEN retries[edge] ELSE 0
       IN  \E answer \in {"error", "good", "poor"} :
             IF answer = "poor" /\ MayBlock(count)
             THEN /\ retries' = [e \in Edges |-> IF e = edge THEN count + 1 ELSE retries[e]]
                  /\ UNCHANGED plan
             ELSE /\ plan' = Moved(plan, target)
                  /\ retries' = [e \in Edges |->
                                   IF e = edge /\ answer # "error" THEN 0 ELSE retries[e]]
    /\ UNCHANGED <<wrote, startPhase, paperVars, faults>>

-----------------------------------------------------------------------------
(* Deliverables *)

(* The summary tool refuses a frozen plan; the validation hook may refuse  *)
(* the text, which changes nothing.  Otherwise the stream's handler keeps  *)
(* the draft and the soft judge is asked.                                  *)
GenerateSummary ==
    /\ InBatch("summary")
    /\ plan.frozen = 0
    /\ calls < MaxCalls
    /\ calls' = calls + 1
    /\ draft' = calls'
    /\ pc' = "judging"
    /\ wrote' = TRUE
    /\ UNCHANGED <<plan, target, startPhase, verdict, refused, files, feedback, retries, faults>>

JudgeAnswers ==
    /\ pc = "judging"
    /\ \E poor \in (IF plan.days = {} THEN {FALSE} ELSE BOOLEAN) :
         LET blocked == poor /\ feedback < FeedbackLimit IN
         /\ verdict' = [call |-> draft, status |-> IF blocked THEN "blocked" ELSE "approved"]
         /\ refused' = IF blocked THEN refused \cup {draft} ELSE refused
         /\ feedback' = IF blocked THEN feedback + 1 ELSE feedback
    /\ pc' = "judged"
    /\ UNCHANGED <<plan, wrote, target, startPhase, draft, calls, files, retries, faults>>

(* finalize_pending_phase4_deliverables, up to the write of the files.     *)
Mismatch == verdict.call # 0 /\ verdict.call # draft

DropsDraft == draft # 0 /\ ~Mismatch /\ verdict.status = "blocked"

FreezesForced(force) == draft # 0 /\ (verdict.status = "approved" \/ force)

Freezes(force) ==
    /\ draft # 0 /\ ~Mismatch
    /\ verdict.status # "blocked"
    /\ verdict.status = "approved" \/ force

(* An attempt to finalize leads to state next when nothing is to be        *)
(* written, and to the write otherwise.                                    *)
Finalize(force, next) ==
    /\ IF Freezes(force)
       THEN /\ plan' = [plan EXCEPT !.frozen = draft]
            /\ files' = [f \in FileNames |-> draft]
            /\ pc' = IF force THEN "frozenAtEnd" ELSE "frozen"
            /\ UNCHANGED <<draft, verdict>>
       ELSE /\ pc' = next
            /\ draft'   = IF DropsDraft THEN 0 ELSE draft
            /\ verdict' = IF DropsDraft THEN NoVerdict ELSE verdict
            /\ UNCHANGED <<plan, files>>
    /\ UNCHANGED <<wrote, target, startPhase, calls, refused, feedback, retries, faults>>

(* The stream sees the judge's last task chunk, or any other hook's.       *)
TaskChunk ==
    \/ pc = "judged" /\ Finalize(FALSE, "run")
    \/ pc = "run" /\ draft # 0 /\ Finalize(FALSE, "run")

(* The draft is forgotten after the trace has its artifacts.               *)
Forget ==
    /\ pc \in {"frozen", "frozenAtEnd"}
    /\ pc' = IF pc = "frozen" THEN "run" ELSE "closing"
    /\ draft' = 0
    /\ verdict' = NoVerdict
    /\ UNCHANGED <<plan, wrote, target, startPhase, calls, refused, files, feedback, retries, faults>>

(* The loop is done: whatever is pending is finalized by force.            *)
StopLoop ==
    /\ pc = "run" /\ ~wrote
    /\ Finalize(TRUE, "closing")

(* A failed write of either file removes both and fails the run.           *)
WriteFails ==
    /\ pc \in {"judged", "run"} /\ Freezes(pc = "run")
    /\ pc = "run" => ~wrote \/ Freezes(FALSE)
    /\ faults < MaxFaults /\ faults' = faults + 1
    /\ files' = NoFiles
    /\ pc' = "closing"
    /\ wrote' = FALSE
    /\ UNCHANGED <<plan, target, startPhase, draft, verdict, calls, refused, feedback, retries>>

-----------------------------------------------------------------------------
(* The end of a run, and the ways back that are no tool *)

FilesAtEnd == IF plan.phase < startPhase /\ plan.frozen = 0 THEN NoFiles ELSE files

EndRun ==
    /\ pc = "closing"
    /\ pc' = "idle"
    /\ files' = FilesAtEnd
    /\ startPhase' = plan.phase
    /\ UNCHANGED <<plan, wrote, target, draft, verdict, calls, refused, feedback, retries, faults>>

(* The user's text asks for a phase back and the run did not move itself.  *)
Fallback ==
    /\ pc = "closing" /\ plan.phase = startPhase
    /\ \E to \in Targets :
          /\ CanBacktrack(plan, to)
          /\ plan' = BacktrackTo(plan, to)
    /\ files' = NoFiles
    /\ UNCHANGED <<pc, wrote, target, startPhase, draft, verdict, calls, refused, feedback, retries, faults>>

(* A cancel, timeout or disconnect at one of the run's awaits: what the    *)
(* session holds stays.  After a timeout the run is still finalized.       *)
Interrupt ==
    /\ pc \in {"run", "judging", "judged", "frozen", "frozenAtEnd", "gate"}
    /\ faults < MaxFaults /\ faults' = faults + 1
    /\ pc' \in {"idle", "closing"}
    /\ wrote' = FALSE
    /\ target' = 0
    /\ startPhase' = IF pc' = "idle" THEN plan.phase ELSE startPhase
    /\ UNCHANGED <<plan, paperVars, retries>>

RouteBacktrack ==
    /\ pc = "idle" \/ Overlap
    /\ \E to \in Targets :
          /\ CanBacktrack(plan, to)
          /\ plan' = BacktrackTo(plan, to)
    /\ files' = NoFiles
    /\ startPhase' = IF pc = "idle" THEN plan'.phase ELSE startPhase
    /\ UNCHANGED <<pc, wrote, target, draft, verdict, calls, refused, feedback, retries, faults>>

Next ==
    \/ BeginRun \/ WriteBasics \/ WriteBrief \/ WriteNotes \/ WriteSkeletons
    \/ WriteChoice \/ WriteDays \/ ToolBacktrack
    \/ EndBatch \/ GateAnswers
    \/ GenerateSummary \/ JudgeAnswers \/ TaskChunk \/ Forget
    \/ StopLoop \/ WriteFails
    \/ EndRun \/ Fallback \/ Interrupt \/ RouteBacktrack

Spec == Init /\ [][Next]_vars

-----------------------------------------------------------------------------
(* Properties *)

(* The plan, the session and the run keep their shape.                     *)
TypeOK ==
    /\ plan \in TravelPlans /\ plan.phase \in (1..4) \cup Targets
    /\ plan.frozen \in 0..MaxCalls /\ draft \in 0..MaxCalls
    /\ files \in [FileNames -> 0..MaxCalls]
    /\ retries \in [Edges -> 0..MaxRetries]

(* A plan is in Phase 3 or 4 only with a destination, dates, a lodging and *)
(* a skeleton choice that a skeleton answers, one of which covers the trip *)
(* or leaves its days open; in Phase 4 its days are exactly the trip's:    *)
(* whatever order tools, blocked gates, retries and ways back come in      *)
(* (router.py 83-94, the gate hook, _PHASE_DOWNSTREAM).                    *)
PhaseEarned ==
    /\ plan.phase >= 3 =>
         /\ plan.dest /\ plan.dates # NoDates /\ plan.stay
         /\ \E i \in Answering(plan.skeletons, plan.chosen) :
               plan.skeletons[i].days \in {NoDays, plan.dates}
    /\ plan.phase = 4 => plan.days = 1..plan.dates

(* A selection that outlives a rewrite of the skeletons is answered by     *)
(* exactly one new skeleton, and that one has the id or the name of the    *)
(* one skeleton it meant before (phase2_tools.py 291-361).                 *)
RewriteKeepsChoice ==
    [][ (plan'.skeletons # plan.skeletons /\ NoChoice \notin {plan.chosen, plan'.chosen})
        => /\ Cardinality(Answering(plan.skeletons, plan.chosen)) = 1
           /\ Cardinality(Answering(plan'.skeletons, plan'.chosen)) = 1
           /\ LET was == plan.skeletons[First(Answering(plan.skeletons, plan.chosen))]
                  now == plan'.skeletons[First(Answering(plan'.skeletons, plan'.chosen))]
              IN  now.id = was.id \/ now.name = was.name ]_plan

(* A plan that says its deliverables are frozen has both files, of one and *)
(* the same draft, and the judge did not block that draft: also after one  *)
(* interrupted run or failed write and any backtrack                       *)
(* (chat/deliverables.py, session/deliverables.py, chat_routes.py 162).    *)
DeliverablesBacked ==
    plan.frozen # 0 =>
        /\ \A f \in FileNames : files[f] = plan.frozen
        /\ plan.frozen \notin refused

(* PROJECT_OVERVIEW.md 405: deliverables hold what Phase 4 froze.          *)
FrozenInPhase4 == plan.frozen # 0 => plan.phase = 4

(* models.py 704: a plan of any other phase cannot be loaded again.        *)
PhaseSupported == plan.phase \in 1..4
=============================================================================
