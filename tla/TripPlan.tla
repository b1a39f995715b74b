------------------------------ MODULE TripPlan ------------------------------
(***************************************************************************)
(* The travel plan as the tools write it (state/models.py,                 *)
(* state/plan_writers.py, tools/plan_tools/*.py) and as the phase router   *)
(* reads it (phase/router.py): one operator per plan tool, from a plan to  *)
(* the plan after a successful call, with the tool's refusals as a guard   *)
(* operator beside it where there are any.                                 *)
(*                                                                         *)
(* Kept: every field the router, the tools or a backtrack decide by, the   *)
(* identity of skeletons, which days exist.  Abstracted: the contents of   *)
(* lists, activities, texts, money; a list is empty or not.                *)
(***************************************************************************)
EXTENDS Integers, Sequences, FiniteSets

CONSTANTS
    MaxDays,     \* the longest trip
    MinDays,     \* what the feasibility check asks of a destination
    Drafts       \* skeleton lists a set_skeleton_plans call may bring

ASSUME DaysAssumption == MaxDays \in Nat /\ MinDays \in Nat /\ MinDays <= MaxDays

NoDates  == -1    \* plan.dates is None
NoDays   == 0     \* a skeleton without the key "days"
NoChoice == "none"

(* A date range by its total_days; 0 stands for every range whose end lies *)
(* before its start, which no parser or tool refuses.                      *)
DatesGiven == 0..MaxDays

ListFields == {"candidate_pool", "shortlist", "excluded_candidates",
               "transport_options", "selected_transport",
               "accommodation_options", "risks", "alternatives"}

(* What clear_downstream keeps of the lists on the way back to a phase.    *)
KeptLists(to) ==
    CASE to >= 3 -> ListFields
      [] to = 2  -> {"candidate_pool", "shortlist", "excluded_candidates"}
      [] OTHER   -> {}

Skeletons == [id : STRING, name : STRING, days : Nat]
ASSUME DraftsAssumption == \A list \in Drafts : list \in Seq(Skeletons)

(* What a plan may hold; its phase may be any number a backtrack names.    *)
TravelPlans ==
    [phase : Int, step : {"brief", "candidate", "skeleton", "lock"},
     dest : BOOLEAN, dates : {NoDates} \cup DatesGiven,
     brief : {"none", "bare", "full"}, lists : SUBSET ListFields,
     skeletons : Seq(Skeletons), chosen : STRING \cup {NoChoice}, stay : BOOLEAN,
     days : SUBSET (1..MaxDays), frozen : Nat]

FreshPlan ==
    [phase |-> 1, step |-> "brief", dest |-> FALSE, dates |-> NoDates,
     brief |-> "none", lists |-> {}, skeletons |-> <<>>, chosen |-> NoChoice,
     stay |-> FALSE, days |-> {}, frozen |-> 0]

-----------------------------------------------------------------------------
(* Reading the plan *)

Ids(list)   == {list[i].id : i \in DOMAIN list}

(* Where in a skeleton list a selection, an id or a name, is answered.     *)
ById(list, key)   == {i \in DOMAIN list : list[i].id = key}
ByName(list, key) == {i \in DOMAIN list : list[i].name = key}
Answering(list, key) == ById(list, key) \cup ByName(list, key)

First(S) == CHOOSE i \in S : \A j \in S : i <= j

(* The router looks at the first skeleton that answers, and lets a list    *)
(* without one, or a skeleton without days, pass.                          *)
SkeletonDaysMatch(p) ==
    LET found == Answering(p.skeletons, p.chosen)
    IN  \/ found = {}
        \/ p.skeletons[First(found)].days \in {NoDays, p.dates}

InferPhase2Step(p) ==
    IF p.phase < 2 THEN "brief"
    ELSE IF p.phase > 2 THEN "lock"
    ELSE IF p.dates = NoDates \/ p.brief = "none" THEN "brief"
    ELSE IF p.chosen # NoChoice
         THEN IF p.skeletons # <<>> /\ Answering(p.skeletons, p.chosen) = {}
              THEN "skeleton" ELSE "lock"
    ELSE IF p.skeletons # <<>> THEN "skeleton"
    ELSE IF p.lists \cap {"shortlist", "candidate_pool"} # {} \/ p.brief = "full"
         THEN "candidate"
    ELSE "brief"

(* The brief gets the destination and the dates from Phase 2 on.           *)
Hydrated(p) ==
    IF p.phase >= 2 /\ p.dest /\ p.brief = "none" THEN [p EXCEPT !.brief = "bare"] ELSE p

SyncPhaseState(p) ==
    LET q == Hydrated(p) IN [q EXCEPT !.step = InferPhase2Step(q)]

PhaseFrom(p, phase2Done) ==
    IF ~p.dest THEN 1
    ELSE IF p.dates = NoDates \/ p.chosen = NoChoice \/ ~p.stay \/ ~phase2Done THEN 2
    ELSE IF Cardinality(p.days) < p.dates THEN 3
    ELSE 4

InferPhaseNoSkeletonCheck(p) == PhaseFrom(p, TRUE)

InferPhase(p) == PhaseFrom(p, SkeletonDaysMatch(p))

-----------------------------------------------------------------------------
(* Moving back *)

ClearDownstream(p, to) ==
    LET p3 == IF to <= 3 THEN [p EXCEPT !.days = {}, !.frozen = 0] ELSE p
        p2 == IF to <= 2 THEN [p3 EXCEPT !.step = "brief", !.skeletons = <<>>,
                                         !.chosen = NoChoice, !.stay = FALSE]
                         ELSE p3
        p1 == IF to <= 1 THEN [p2 EXCEPT !.dest = FALSE, !.dates = NoDates,
                                         !.brief = "none"]
                         ELSE p2
    IN  [p1 EXCEPT !.lists = @ \cap KeptLists(to)]

CanBacktrack(p, to) == to < p.phase
BacktrackTo(p, to)  == [ClearDownstream(p, to) EXCEPT !.phase = to]

-----------------------------------------------------------------------------
(* Phase 1 and 2: basics and brief *)

UpdateTripBasics(p, dest, dates, city) ==
    [p EXCEPT !.dest = @ \/ dest,
              !.dates = IF dates = NoDates THEN @ ELSE dates,
              !.brief = IF city /\ @ = "none" THEN "bare" ELSE @]

(* Fields are merged; goal and pace together make the brief full, and a    *)
(* later call may blank one of them again.                                 *)
SetTripBrief(p, fields) == [p EXCEPT !.brief = fields]

(* Preferences and constraints are only appended to, no backtrack clears   *)
(* them, and nothing below is decided by them.                             *)
AddPreferences(p) == p
AddConstraints(p) == p

(* A list is replaced as a whole, by an empty one too.                     *)
Put(p, field, filled) ==
    [p EXCEPT !.lists = IF filled THEN @ \cup {field} ELSE @ \ {field}]

SetCandidatePool(p, filled)        == Put(p, "candidate_pool", filled)
SetShortlist(p, filled)            == Put(p, "shortlist", filled)
SetExcludedCandidates(p, filled)   == Put(p, "excluded_candidates", filled)
SetTransportOptions(p, filled)     == Put(p, "transport_options", filled)
SelectTransport(p)                 == Put(p, "selected_transport", TRUE)
SetAccommodationOptions(p, filled) == Put(p, "accommodation_options", filled)
SetRisks(p, filled)                == Put(p, "risks", filled)
SetAlternatives(p, filled)         == Put(p, "alternatives", filled)

SetAccommodation(p) == [p EXCEPT !.stay = TRUE]

-----------------------------------------------------------------------------
(* Phase 2: skeletons *)

DayCountOk(p, s) == p.dates = NoDates \/ s.days = NoDays \/ s.days = p.dates

(* Ids are unique in one list; a name may repeat, or be another one's id.  *)
SkeletonsAccepted(p, list) ==
    /\ Cardinality(Ids(list)) = Len(list)
    /\ \A i \in DOMAIN list : DayCountOk(p, list[i])

(* The selection goes where the one old skeleton it meant is found again,  *)
(* by its id first, and is dropped when that is in doubt on either side.   *)
ReconciledAnyMatch(p, new) ==
    LET old   == Answering(p.skeletons, p.chosen)
        named == ByName(new, p.chosen)
    IN  IF p.chosen \in Ids(new) THEN p.chosen
        ELSE IF old # {} /\ named # {} THEN new[First(named)].id
        ELSE NoChoice

Reconciled(p, new) ==
    LET old   == Answering(p.skeletons, p.chosen)
        named == ByName(new, p.chosen)
        heir  == IF Cardinality(old) # 1 THEN NoChoice
                 ELSE IF old \subseteq ById(p.skeletons, p.chosen) /\ p.chosen \in Ids(new)
                      THEN p.chosen
                 ELSE IF old \subseteq ByName(p.skeletons, p.chosen) /\ Cardinality(named) = 1
                      THEN new[First(named)].id
                 ELSE NoChoice
    IN  IF Cardinality(Answering(new, heir)) = 1 THEN heir ELSE NoChoice

SetSkeletonPlans(p, new) ==
    [p EXCEPT !.skeletons = new,
              !.chosen = IF @ = NoChoice THEN @ ELSE Reconciled(p, new)]

SkeletonSelectable(p, key) ==
    \E i \in DOMAIN p.skeletons : p.skeletons[i].id = key /\ DayCountOk(p, p.skeletons[i])

SelectSkeleton(p, key) == [p EXCEPT !.chosen = key]

-----------------------------------------------------------------------------
(* Phase 3: days *)

DayInRange(p, day) == day >= 1 /\ (p.dates = NoDates \/ day <= p.dates)

(* mode create wants a new day, replace_existing an old one: either way    *)
(* the day is there afterwards, once.                                      *)
SaveDayPlan(p, day) == [p EXCEPT !.days = @ \cup {day}]

CompleteCoverage(p, days) == p.dates = NoDates \/ days = 1..p.dates
ReplaceAllDayPlans(p, days) == [p EXCEPT !.days = days]
=============================================================================
