------------------------- MODULE PlanPhases_proofs -------------------------
(* Proofs about PlanPhases: what the plan, its phase, its choice of a skeleton
   and the files of its deliverables keep through every tool, gate, backtrack
   and interruption. *)
EXTENDS PlanPhases, FoldLemmas

\* a choice means one of the plan's skeletons
ChoiceAnswered(p) == p.chosen # NoChoice => Answering(p.skeletons, p.chosen) # {}

\* what PhaseEarned asks of a plan that goes to the phase n
Earned(p, n) ==
  /\ n >= 3 =>
       /\ p.dest /\ p.dates # NoDates /\ p.stay
       /\ \E i \in Answering(p.skeletons, p.chosen) :
             p.skeletons[i].days \in {NoDays, p.dates}
  /\ n = 4 => p.days = 1..p.dates

Shape ==
  /\ plan \in TravelPlans /\ plan.phase \in (1..4) \cup Targets /\ plan.phase <= 4
  /\ pc \in {"idle", "run", "gate", "judging", "judged", "frozen", "frozenAtEnd", "closing"}
  /\ target \in 0..4 /\ (pc = "gate" => target # 0)
  /\ pc = "judging" => draft # 0
  /\ calls \in 0..MaxCalls /\ draft \in 0..calls
  /\ plan.frozen <= calls /\ refused \subseteq 1..calls
  /\ files \in [FileNames -> 0..MaxCalls]
  /\ retries \in [Edges -> 0..MaxRetries]
  /\ faults \in 0..MaxFaults

EarnedInv ==
  /\ ChoiceAnswered(plan) /\ Earned(plan, plan.phase)
  /\ pc = "gate" => target = InferPhase(plan) /\ ~DayCountError(plan)

\* a draft the judge blocked has the judge's word with it until it is dropped
PapersInv ==
  /\ draft # 0 /\ draft \in refused => verdict.call = draft /\ verdict.status = "blocked"
  /\ pc = "judging" => draft \notin refused
  /\ pc \in {"judging", "judged"} => plan.frozen = 0
  /\ plan.frozen \notin refused

\* a draft that is kept after it was frozen is left by an interruption
FilesInv ==
  /\ plan.frozen # 0 => \A f \in FileNames : files[f] = plan.frozen
  /\ draft # 0 /\ plan.frozen # 0 /\ pc \notin {"frozen", "frozenAtEnd"} => faults >= 1

IInv == Shape /\ EarnedInv /\ PapersInv /\ FilesInv


(* Bringing the step and the brief up to date changes nothing else. *)
LEMMA Syncing ==
  ASSUME NEW p \in TravelPlans
  PROVE  /\ SyncPhaseState(p) \in TravelPlans
         /\ \E step, brief : SyncPhaseState(p) = [p EXCEPT !.brief = brief, !.step = step]
<1>1. PICK brief \in {"none", "bare", "full"} : Hydrated(p) = [p EXCEPT !.brief = brief]
  <2>1. p = [p EXCEPT !.brief = p.brief] /\ p.brief \in {"none", "bare", "full"}
    BY DEF TravelPlans
  <2>2. Hydrated(p) \in {p, [p EXCEPT !.brief = "bare"]}
    BY DEF Hydrated
  <2> QED BY <2>1, <2>2
<1> DEFINE q == [p EXCEPT !.brief = brief]
           step == InferPhase2Step(q)
<1>2. step \in {"brief", "candidate", "skeleton", "lock"}
  BY DEF InferPhase2Step
<1>3. SyncPhaseState(p) = [q EXCEPT !.step = step]
  BY <1>1 DEF SyncPhaseState
<1> HIDE DEF step
<1>4. [q EXCEPT !.step = step] = [p EXCEPT !.brief = brief, !.step = step]
  BY DEF TravelPlans
<1>5. [p EXCEPT !.brief = brief, !.step = step] \in TravelPlans
  BY <1>2 DEF TravelPlans
<1> QED BY <1>3, <1>4, <1>5

(* The first of several positions is one of them. *)
LEMMA FirstIsOne == ASSUME NEW S \in SUBSET Nat, S # {} PROVE First(S) \in S
<1>1. \E x \in S : \A y \in S : x <= y
  BY LeastElement
<1> QED BY <1>1 DEF First

(* The skeletons a choice may mean are places of the list. *)
LEMMA AnsweringPlaces ==
  ASSUME NEW list \in Seq(Skeletons), NEW key
  PROVE  Answering(list, key) \subseteq DOMAIN list /\ Answering(list, key) \in SUBSET Nat
<1>1. DOMAIN list \subseteq Nat
  OBVIOUS
<1> QED BY <1>1 DEF Answering, ById, ByName

(* The phase the router infers from a plan is one the plan has earned: its
   choice is answered, and no hard constraint on its days is broken. *)
LEMMA Inference ==
  ASSUME NEW p \in TravelPlans, ChoiceAnswered(p)
  PROVE  /\ InferPhase(p) \in 1..4
         /\ ~DayCountError(p) => Earned(p, InferPhase(p))
<1>1. InferPhase(p) \in 1..4
  BY DEF InferPhase, PhaseFrom
<1>2. p.dates \in Int /\ p.dest \in BOOLEAN /\ p.stay \in BOOLEAN /\ p.days \in SUBSET (1..MaxDays)
      /\ p.skeletons \in Seq(Skeletons) /\ (p.dates # NoDates => p.dates \in Nat)
  BY DaysAssumption DEF TravelPlans, NoDates, DatesGiven
<1>3. IsFiniteSet(p.days) /\ Cardinality(p.days) \in Nat
  <2>1. IsFiniteSet(1..MaxDays)
    BY DaysAssumption, FS_Interval
  <2>2. IsFiniteSet(p.days)
    BY <1>2, <2>1, FS_Subset
  <2> QED BY <2>2, FS_CardinalityType
<1>4. SUFFICES ASSUME ~DayCountError(p), InferPhase(p) >= 3 PROVE Earned(p, InferPhase(p))
  BY <1>1 DEF Earned
<1>5. /\ p.dest /\ p.dates # NoDates /\ p.chosen # NoChoice /\ p.stay /\ SkeletonDaysMatch(p)
      /\ InferPhase(p) = IF Cardinality(p.days) < p.dates THEN 3 ELSE 4
  BY <1>2, <1>4 DEF InferPhase, PhaseFrom
<1>6. \E i \in Answering(p.skeletons, p.chosen) : p.skeletons[i].days \in {NoDays, p.dates}
  <2> DEFINE found == Answering(p.skeletons, p.chosen)
  <2>1. found # {} /\ found \in SUBSET Nat
    BY <1>2, <1>5, AnsweringPlaces DEF ChoiceAnswered
  <2>2. First(found) \in found
    <3> HIDE DEF found
    <3> QED BY <2>1, FirstIsOne
  <2>3. p.skeletons[First(found)].days \in {NoDays, p.dates}
    BY <1>5, <2>1 DEF SkeletonDaysMatch
  <2> QED BY <2>2, <2>3
<1>7. InferPhase(p) = 4 => p.days = 1..p.dates
  <2>1. SUFFICES ASSUME ~(Cardinality(p.days) < p.dates) PROVE p.days = 1..p.dates
    BY <1>5
  <2>2. CASE p.days = {}
    <3>1. Cardinality(p.days) = 0
      BY <2>2, FS_EmptySet
    <3>2. p.dates <= 0
      BY <1>2, <2>1, <3>1
    <3> QED BY <1>2, <2>2, <3>2
  <2>3. CASE p.days # {}
    BY <1>2, <1>3, <1>4, <1>5, <2>1, <2>3 DEF DayCountError
  <2> QED BY <2>2, <2>3
<1> QED BY <1>5, <1>6, <1>7 DEF Earned

(* A backtrack leaves a plan without frozen deliverables that has earned the
   phase it goes back to. *)
LEMMA GoingBack ==
  ASSUME NEW p \in TravelPlans, p.phase <= 4, NEW to \in Int, CanBacktrack(p, to)
  PROVE  /\ BacktrackTo(p, to) \in TravelPlans
         /\ BacktrackTo(p, to).phase = to /\ to <= 3 /\ BacktrackTo(p, to).frozen = 0
         /\ BacktrackTo(p, to).chosen \in {p.chosen, NoChoice}
         /\ BacktrackTo(p, to).skeletons \in {p.skeletons, <<>>}
         /\ ChoiceAnswered(p) => ChoiceAnswered(BacktrackTo(p, to))
         /\ Earned(p, p.phase) => Earned(BacktrackTo(p, to), to)
         /\ BacktrackTo(p, to).skeletons # p.skeletons => BacktrackTo(p, to).chosen = NoChoice
<1> DEFINE p3 == [p EXCEPT !.days = {}, !.frozen = 0]
           p2 == IF to <= 2 THEN [p3 EXCEPT !.step = "brief", !.skeletons = <<>>,
                                            !.chosen = NoChoice, !.stay = FALSE]
                            ELSE p3
           p1 == IF to <= 1 THEN [p2 EXCEPT !.dest = FALSE, !.dates = NoDates,
                                            !.brief = "none"]
                            ELSE p2
           p0 == [p1 EXCEPT !.lists = @ \cap KeptLists(to)]
           q == BacktrackTo(p, to)
<1>1. p.phase \in Int /\ to <= 3 /\ to < p.phase
  BY DEF CanBacktrack, TravelPlans
<1>2. q = [p0 EXCEPT !.phase = to]
  BY <1>1 DEF BacktrackTo, ClearDownstream
<1>3. /\ p3 \in TravelPlans /\ p3.frozen = 0 /\ p3.chosen = p.chosen /\ p3.skeletons = p.skeletons
      /\ p3.dest = p.dest /\ p3.dates = p.dates /\ p3.stay = p.stay
  BY DEF TravelPlans
<1> HIDE DEF p3, q
<1>4. /\ p2 \in TravelPlans /\ p2.frozen = 0
      /\ to <= 2 => p2.chosen = NoChoice /\ p2.skeletons = <<>>
      /\ to > 2 => p2 = p3
  <2>1. CASE to <= 2
    <3>1. p2 = [p3 EXCEPT !.step = "brief", !.skeletons = <<>>, !.chosen = NoChoice, !.stay = FALSE]
      BY <2>1
    <3>2. <<>> \in Seq(Skeletons) /\ ~(to > 2)
      BY <2>1
    <3> HIDE DEF p2
    <3>3. p2 \in TravelPlans
      BY <1>3, <3>1, <3>2 DEF TravelPlans
    <3>4. p2.frozen = 0 /\ p2.chosen = NoChoice /\ p2.skeletons = <<>>
      BY <1>3, <3>1 DEF TravelPlans
    <3> QED BY <3>2, <3>3, <3>4
  <2>2. CASE to > 2
    BY <1>3, <2>2
  <2> QED BY <2>1, <2>2
<1> HIDE DEF p2
<1>5. /\ p1 \in TravelPlans /\ p1.frozen = 0 /\ p1.chosen = p2.chosen /\ p1.skeletons = p2.skeletons
      /\ to > 1 => p1 = p2
  <2>1. CASE to <= 1
    <3>1. p1 = [p2 EXCEPT !.dest = FALSE, !.dates = NoDates, !.brief = "none"] /\ ~(to > 1)
      BY <2>1
    <3> HIDE DEF p1
    <3>2. p1 \in TravelPlans
      BY <1>4, <3>1 DEF TravelPlans
    <3>3. p1.frozen = 0 /\ p1.chosen = p2.chosen /\ p1.skeletons = p2.skeletons
      BY <1>4, <3>1 DEF TravelPlans
    <3> QED BY <3>1, <3>2, <3>3
  <2>2. CASE to > 1
    BY <1>4, <2>2
  <2> QED BY <2>1, <2>2
<1> HIDE DEF p1
<1>6. /\ p0 \in TravelPlans /\ p0.frozen = 0 /\ p0.chosen = p1.chosen /\ p0.skeletons = p1.skeletons
      /\ p0.dest = p1.dest /\ p0.dates = p1.dates /\ p0.stay = p1.stay
  BY <1>5 DEF TravelPlans
<1> HIDE DEF p0
<1>7. /\ q \in TravelPlans /\ q.phase = to /\ q.frozen = 0
      /\ q.chosen = p1.chosen /\ q.skeletons = p1.skeletons
      /\ q.dest = p1.dest /\ q.dates = p1.dates /\ q.stay = p1.stay
  BY <1>2, <1>6 DEF TravelPlans
<1>8. CASE to = 3
  <2>1. q.chosen = p.chosen /\ q.skeletons = p.skeletons /\ q.dest = p.dest /\ q.dates = p.dates
        /\ q.stay = p.stay
    BY <1>3, <1>4, <1>5, <1>7, <1>8
  <2>2. Earned(p, p.phase) => Earned(q, to)
    BY <1>1, <1>8, <2>1 DEF Earned
  <2>3. ChoiceAnswered(p) => ChoiceAnswered(q)
    BY <2>1 DEF ChoiceAnswered
  <2> QED BY <1>1, <1>7, <2>1, <2>2, <2>3 DEF q
<1>9. CASE to <= 2
  <2>1. q.chosen = NoChoice /\ q.skeletons = <<>>
    BY <1>4, <1>5, <1>7, <1>9
  <2>2. Earned(q, to) /\ ChoiceAnswered(q)
    BY <1>9, <2>1 DEF Earned, ChoiceAnswered
  <2> QED BY <1>1, <1>7, <2>1, <2>2 DEF q
<1> QED BY <1>1, <1>8, <1>9


(* A position that alone answers is the first one. *)
LEMMA OnlyAnswer ==
  ASSUME NEW S \in SUBSET Nat, Cardinality(S) = 1, IsFiniteSet(S)
  PROVE  S = {First(S)} /\ First(S) \in S
<1>1. PICK x : S = {x}
  BY FS_Singleton
<1>2. S # {}
  BY <1>1
<1>3. First(S) \in S
  BY <1>2, FirstIsOne
<1> QED BY <1>1, <1>3

(* They are finitely many. *)
LEMMA AnswersFinite ==
  ASSUME NEW list \in Seq(Skeletons), NEW key
  PROVE  IsFiniteSet(Answering(list, key)) /\ IsFiniteSet(ByName(list, key))
<1>1. IsFiniteSet(1..Len(list)) /\ DOMAIN list = 1..Len(list)
  BY FS_Interval
<1>2. Answering(list, key) \in SUBSET (1..Len(list)) /\ ByName(list, key) \in SUBSET (1..Len(list))
  BY <1>1 DEF Answering, ById, ByName
<1> QED BY <1>1, <1>2, FS_Subset

\* the one skeleton a choice meant and the one it means now share id or name
SameMeaning(list, key, new, heir) ==
  /\ Cardinality(Answering(list, key)) = 1
  /\ Cardinality(Answering(new, heir)) = 1
  /\ LET was == list[First(Answering(list, key))]
         now == new[First(Answering(new, heir))]
     IN  now.id = was.id \/ now.name = was.name

(* A choice that outlives a rewrite of the skeletons keeps its meaning. *)
LEMMA Reconciling ==
  ASSUME NEW p \in TravelPlans, NEW new \in Seq(Skeletons)
  PROVE  /\ Reconciled(p, new) \in STRING \cup {NoChoice}
         /\ Reconciled(p, new) # NoChoice =>
              SameMeaning(p.skeletons, p.chosen, new, Reconciled(p, new))
<1> DEFINE r == Reconciled(p, new)
           old == Answering(p.skeletons, p.chosen)
           named == ByName(new, p.chosen)
<1>1. p.skeletons \in Seq(Skeletons) /\ p.chosen \in STRING \cup {NoChoice}
  BY DEF TravelPlans
<1>2. /\ old \in SUBSET Nat /\ IsFiniteSet(old) /\ old \subseteq DOMAIN p.skeletons
      /\ named \in SUBSET Nat /\ IsFiniteSet(named) /\ named \subseteq DOMAIN new
      /\ Answering(new, r) \in SUBSET Nat /\ IsFiniteSet(Answering(new, r))
  <2>1. named \subseteq DOMAIN new /\ DOMAIN new \subseteq Nat
    BY DEF ByName
  <2> QED BY <1>1, <2>1, AnsweringPlaces, AnswersFinite
<1>3. CASE r = NoChoice
  BY <1>3
<1>4. CASE r # NoChoice
  <2>1. Cardinality(Answering(new, r)) = 1 /\ Cardinality(old) = 1
    BY <1>4 DEF Reconciled
  <2>2. First(old) \in old /\ old = {First(old)}
        /\ First(Answering(new, r)) \in Answering(new, r)
        /\ Answering(new, r) = {First(Answering(new, r))}
    <3> HIDE DEF old, r
    <3> QED BY <1>2, <2>1, OnlyAnswer
  <2>3. CASE old \subseteq ById(p.skeletons, p.chosen) /\ p.chosen \in Ids(new)
    <3>1. r = p.chosen
      BY <1>4, <2>1, <2>3 DEF Reconciled
    <3>2. p.skeletons[First(old)].id = p.chosen
      BY <2>2, <2>3 DEF ById
    <3>3. PICK i \in DOMAIN new : new[i].id = p.chosen
      BY <2>3 DEF Ids
    <3>4. i \in Answering(new, r)
      BY <3>1, <3>3 DEF Answering, ById
    <3>5. new[First(Answering(new, r))].id = p.skeletons[First(old)].id
      <4> HIDE DEF r, old
      <4> QED BY <2>2, <3>2, <3>3, <3>4
    <3> QED BY <1>1, <2>1, <3>1, <3>5 DEF SameMeaning
  <2>4. CASE ~(old \subseteq ById(p.skeletons, p.chosen) /\ p.chosen \in Ids(new))
    <3>1. /\ old \subseteq ByName(p.skeletons, p.chosen) /\ Cardinality(named) = 1
          /\ r = new[First(named)].id
      BY <1>4, <2>1, <2>4 DEF Reconciled
    <3>2. First(named) \in named
      <4> HIDE DEF named
      <4> QED BY <1>2, <3>1, OnlyAnswer
    <3>3. First(named) \in DOMAIN new /\ new[First(named)].name = p.chosen
      BY <3>2 DEF ByName
    <3>4. p.skeletons[First(old)].name = p.chosen
      BY <2>2, <3>1 DEF ByName
    <3>5. First(named) \in Answering(new, r)
      BY <3>1, <3>3 DEF Answering, ById
    <3>6. new[First(Answering(new, r))].name = p.skeletons[First(old)].name
      <4> HIDE DEF r, old, named
      <4> QED BY <2>2, <3>3, <3>4, <3>5
    <3>7. r \in STRING
      <4>1. new[First(named)] \in Skeletons
        <5> HIDE DEF named
        <5> QED BY <3>3
      <4> QED BY <3>1, <4>1 DEF Skeletons
    <3> QED BY <2>1, <3>6, <3>7 DEF SameMeaning
  <2> QED BY <2>3, <2>4
<1> QED BY <1>3, <1>4

\* what a write does to the plan at most
Written(p) ==
  /\ p \in TravelPlans /\ p.phase = plan.phase /\ p.frozen = plan.frozen
  /\ ChoiceAnswered(plan) => ChoiceAnswered(p)
  /\ plan.phase >= 3 =>
       /\ p.dest = plan.dest /\ p.dates = plan.dates /\ (plan.stay => p.stay)
       /\ p.skeletons = plan.skeletons /\ p.chosen = plan.chosen
  /\ plan.phase = 4 => p.days = plan.days
  /\ p.skeletons # plan.skeletons =>
       p.chosen = NoChoice \/ SameMeaning(plan.skeletons, plan.chosen, p.skeletons, p.chosen)

Writes == WriteBasics \/ WriteBrief \/ WriteNotes \/ WriteSkeletons \/ WriteChoice \/ WriteDays

(* Every plan tool writes a plan, and from Phase 3 on none that takes back
   what the phase was earned with. *)
LEMMA Writing == ASSUME plan \in TravelPlans, Writes PROVE \E p : Write(p) /\ Written(p)
<1>1. CASE WriteBasics
  <2>1. PICK dest \in BOOLEAN, city \in BOOLEAN, dates \in DatesGiven \cup {NoDates} :
          Write(UpdateTripBasics(plan, dest, dates, city))
    BY <1>1 DEF WriteBasics
  <2>2. plan.phase \in {1, 2}
    BY <1>1 DEF WriteBasics, InBatch, Offered
  <2>3. Written(UpdateTripBasics(plan, dest, dates, city))
    <3> DEFINE q == UpdateTripBasics(plan, dest, dates, city)
    <3>1. PICK d \in BOOLEAN, n \in {NoDates} \cup DatesGiven, b \in {"none", "bare", "full"} :
            q = [plan EXCEPT !.dest = d, !.dates = n, !.brief = b]
      <4>1. (plan.dest \/ dest) \in BOOLEAN
        OBVIOUS
      <4>2. (IF dates = NoDates THEN plan.dates ELSE dates) \in {NoDates} \cup DatesGiven
        BY DEF TravelPlans
      <4>3. (IF city /\ plan.brief = "none" THEN "bare" ELSE plan.brief) \in {"none", "bare", "full"}
        BY DEF TravelPlans
      <4> QED BY <4>1, <4>2, <4>3 DEF UpdateTripBasics
    <3> HIDE DEF q
    <3>2. /\ q \in TravelPlans /\ q.phase = plan.phase /\ q.frozen = plan.frozen
          /\ q.skeletons = plan.skeletons /\ q.chosen = plan.chosen
      BY <3>1 DEF TravelPlans
    <3> QED BY <2>2, <3>2 DEF Written, ChoiceAnswered, q
  <2> QED BY <2>1, <2>3
<1>2. CASE WriteBrief
  <2>1. PICK brief \in {"bare", "full"} : Write(SetTripBrief(plan, brief))
    BY <1>2 DEF WriteBrief
  <2>2. Written(SetTripBrief(plan, brief))
    BY DEF Written, SetTripBrief, TravelPlans, ChoiceAnswered
  <2> QED BY <2>1, <2>2
<1>3. CASE WriteNotes
  <2>1. \A field \in ListFields, filled \in BOOLEAN : Written(Put(plan, field, filled))
    BY DEF Written, Put, TravelPlans, ChoiceAnswered
  <2>2. Written(plan)
    BY DEF Written
  <2>3. \E p : Write(p) /\ (p = plan \/ \E field \in ListFields, filled \in BOOLEAN : p = Put(plan, field, filled))
    <3>1. CASE InBatch("append") /\ \E p \in {AddPreferences(plan), AddConstraints(plan)} : Write(p)
      BY <3>1 DEF AddPreferences, AddConstraints
    <3>2. ASSUME NEW filled \in BOOLEAN, NEW field \in ListFields, Write(Put(plan, field, filled))
          PROVE  \E p : Write(p) /\ (p = plan \/ \E f \in ListFields, g \in BOOLEAN : p = Put(plan, f, g))
      BY <3>2
    <3>3. {"candidate_pool", "shortlist", "excluded_candidates", "transport_options",
           "accommodation_options", "risks", "alternatives"} \subseteq ListFields
      BY DEF ListFields
    <3> QED BY <1>3, <3>1, <3>2, <3>3
         DEF WriteNotes, SetCandidatePool, SetShortlist, SetExcludedCandidates, SetTransportOptions,
             SetAccommodationOptions, SetRisks, SetAlternatives
  <2> QED BY <2>1, <2>2, <2>3
<1>4. CASE WriteSkeletons
  <2>1. PICK list \in Drafts : Write(SetSkeletonPlans(plan, list))
    BY <1>4 DEF WriteSkeletons
  <2>2. plan.phase = 2
    BY <1>4 DEF WriteSkeletons, InBatch, Offered
  <2>3. list \in Seq(Skeletons)
    BY DraftsAssumption
  <2> DEFINE q == SetSkeletonPlans(plan, list)
             r == Reconciled(plan, list)
  <2>4. r \in STRING \cup {NoChoice}
        /\ (r # NoChoice => SameMeaning(plan.skeletons, plan.chosen, list, r))
    BY <2>3, Reconciling
  <2>5. q = [plan EXCEPT !.skeletons = list, !.chosen = IF plan.chosen = NoChoice THEN NoChoice ELSE r]
    BY DEF SetSkeletonPlans
  <2> HIDE DEF r, q
  <2>6. q \in TravelPlans /\ q.phase = plan.phase /\ q.frozen = plan.frozen
        /\ q.skeletons = list /\ q.chosen \in {NoChoice, r}
    BY <2>3, <2>4, <2>5 DEF TravelPlans
  <2>7. ChoiceAnswered(q)
    <3>1. SUFFICES ASSUME r # NoChoice PROVE Answering(list, r) # {}
      BY <2>6 DEF ChoiceAnswered
    <3>2. Cardinality(Answering(list, r)) = 1
      BY <2>4, <3>1 DEF SameMeaning
    <3> QED BY <3>2, FS_EmptySet
  <2>8. Written(q)
    BY <2>2, <2>4, <2>6, <2>7 DEF Written
  <2> QED BY <2>1, <2>8 DEF q
<1>5. CASE WriteChoice
  <2>1. ASSUME NEW key \in Ids(plan.skeletons), InBatch("skeletons"), Write(SelectSkeleton(plan, key))
        PROVE  \E p : Write(p) /\ Written(p)
    <3>1. plan.phase = 2
      BY <2>1 DEF InBatch, Offered
    <3>2. PICK i \in DOMAIN plan.skeletons : key = plan.skeletons[i].id
      BY DEF Ids
    <3>3. plan.skeletons[i] \in Skeletons
      BY <3>2 DEF TravelPlans
    <3>4. key \in STRING
      BY <3>2, <3>3 DEF Skeletons
    <3>5. i \in Answering(plan.skeletons, key)
      BY <3>2 DEF Answering, ById
    <3>6. Written(SelectSkeleton(plan, key))
      BY <3>1, <3>4, <3>5 DEF Written, SelectSkeleton, TravelPlans, ChoiceAnswered
    <3> QED BY <2>1, <3>6
  <2>2. CASE Write(SelectTransport(plan))
    <3>1. Written(SelectTransport(plan))
      BY DEF Written, SelectTransport, Put, TravelPlans, ChoiceAnswered, ListFields
    <3> QED BY <2>2, <3>1
  <2>3. CASE Write(SetAccommodation(plan))
    <3>1. Written(SetAccommodation(plan))
      BY DEF Written, SetAccommodation, TravelPlans, ChoiceAnswered
    <3> QED BY <2>3, <3>1
  <2> QED BY <1>5, <2>1, <2>2, <2>3 DEF WriteChoice
<1>6. CASE WriteDays
  <2>1. PICK days \in SUBSET (1..MaxDays) : Write([plan EXCEPT !.days = days])
    <3>1. ASSUME NEW day \in 1..MaxDays, Write(SaveDayPlan(plan, day))
          PROVE  \E days \in SUBSET (1..MaxDays) : Write([plan EXCEPT !.days = days])
      <4>1. plan.days \cup {day} \in SUBSET (1..MaxDays)
        BY DEF TravelPlans
      <4> QED BY <3>1, <4>1 DEF SaveDayPlan
    <3>2. ASSUME NEW n \in 1..MaxDays, Write(ReplaceAllDayPlans(plan, 1..n))
          PROVE  \E days \in SUBSET (1..MaxDays) : Write([plan EXCEPT !.days = days])
      <4>1. 1..n \in SUBSET (1..MaxDays)
        BY DaysAssumption
      <4> QED BY <3>2, <4>1 DEF ReplaceAllDayPlans
    <3> QED BY <1>6, <3>1, <3>2 DEF WriteDays
  <2>2. plan.phase = 3
    BY <1>6 DEF WriteDays, InBatch, Offered
  <2>3. Written([plan EXCEPT !.days = days])
    BY <2>2 DEF Written, TravelPlans, ChoiceAnswered
  <2> QED BY <2>1, <2>3
<1> QED BY <1>1, <1>2, <1>3, <1>4, <1>5, <1>6 DEF Writes


LEMMA InitShape == ASSUME Init PROVE Shape
<1>1. FreshPlan \in TravelPlans /\ FreshPlan.phase = 1 /\ FreshPlan.frozen = 0
  <2>1. <<>> \in Seq(Skeletons) /\ {} \in SUBSET ListFields /\ {} \in SUBSET (1..MaxDays)
    OBVIOUS
  <2> QED BY <2>1 DEF FreshPlan, TravelPlans
<1>2. plan \in TravelPlans /\ plan.phase \in 1..4 /\ plan.frozen = 0
  BY <1>1, RestoredAssumption DEF Init
<1>3. files \in [FileNames -> 0..MaxCalls] /\ retries \in [Edges -> 0..MaxRetries]
  BY PhasesAssumption DEF Init, NoFiles
<1>4. calls = 0 /\ draft = 0 /\ refused = {} /\ target = 0 /\ pc = "idle" /\ faults = 0
  BY DEF Init
<1> QED BY <1>2, <1>3, <1>4, PhasesAssumption DEF Shape

(* Moving a plan to the phase it is in or inferred to be. *)
LEMMA Moving ==
  ASSUME NEW p \in TravelPlans, NEW to \in 1..4
  PROVE  /\ Moved(p, to) \in TravelPlans /\ Moved(p, to).phase = to
         /\ \A q \in {Moved(p, to), SyncPhaseState(p)} :
              /\ q.frozen = p.frozen /\ q.skeletons = p.skeletons /\ q.chosen = p.chosen
              /\ ChoiceAnswered(p) => ChoiceAnswered(q)
              /\ \A n : Earned(p, n) => Earned(q, n)
              /\ InferPhase(q) = InferPhase(p) /\ DayCountError(q) = DayCountError(p)
         /\ SyncPhaseState(p) \in TravelPlans /\ SyncPhaseState(p).phase = p.phase
<1> DEFINE b == [p EXCEPT !.phase = to]
<1>1. b \in TravelPlans /\ b.phase = to
  BY DEF TravelPlans
<1> DEFINE Alike(q) == /\ q.frozen = p.frozen /\ q.skeletons = p.skeletons /\ q.chosen = p.chosen
                       /\ q.dest = p.dest /\ q.dates = p.dates /\ q.stay = p.stay /\ q.days = p.days
<1>2. Alike(b)
  BY DEF TravelPlans
<1>3. ASSUME NEW q \in TravelPlans, Alike(q)
      PROVE  SyncPhaseState(q) \in TravelPlans /\ SyncPhaseState(q).phase = q.phase /\ Alike(SyncPhaseState(q))
  <2>1. PICK step, brief : SyncPhaseState(q) = [q EXCEPT !.brief = brief, !.step = step]
    BY Syncing
  <2>2. /\ SyncPhaseState(q).phase = q.phase /\ SyncPhaseState(q).frozen = q.frozen
        /\ SyncPhaseState(q).skeletons = q.skeletons /\ SyncPhaseState(q).chosen = q.chosen
        /\ SyncPhaseState(q).dest = q.dest /\ SyncPhaseState(q).dates = q.dates
        /\ SyncPhaseState(q).stay = q.stay /\ SyncPhaseState(q).days = q.days
    BY <2>1 DEF TravelPlans
  <2>3. SyncPhaseState(q) \in TravelPlans
    BY Syncing
  <2> QED BY <1>3, <2>2, <2>3
<1>4. Alike(p)
  OBVIOUS
<1>5. /\ SyncPhaseState(p) \in TravelPlans /\ SyncPhaseState(p).phase = p.phase
      /\ Alike(SyncPhaseState(p))
  <2> HIDE DEF Alike
  <2> QED BY <1>3, <1>4
<1>6. /\ Moved(p, to) \in TravelPlans /\ Moved(p, to).phase = to /\ Alike(Moved(p, to))
  <2>1. SyncPhaseState(b) = Moved(p, to)
    BY DEF Moved
  <2> HIDE DEF Alike, b
  <2> QED BY <1>1, <1>2, <1>3, <2>1
<1>7. ASSUME NEW q, Alike(q)
      PROVE  /\ q.frozen = p.frozen /\ q.skeletons = p.skeletons /\ q.chosen = p.chosen
             /\ ChoiceAnswered(p) => ChoiceAnswered(q)
             /\ \A n : Earned(p, n) => Earned(q, n)
             /\ InferPhase(q) = InferPhase(p) /\ DayCountError(q) = DayCountError(p)
  BY <1>7 DEF ChoiceAnswered, Earned, InferPhase, PhaseFrom, SkeletonDaysMatch, DayCountError
<1> QED
  <2> HIDE DEF Alike
  <2> QED BY <1>5, <1>6, <1>7

\* what the end of a batch does: the batch's plan is kept, waits for the gate,
\* or goes on to the phase it has earned
LEMMA Ending ==
  ASSUME plan \in TravelPlans, EndBatch
  PROVE  \/ plan' = SyncPhaseState(plan) /\ pc' = "run" /\ target' = target
         \/ /\ ~DayCountError(plan)
            /\ \/ /\ plan' = SyncPhaseState(plan) /\ pc' = "gate"
                  /\ target' = InferPhase(plan)
               \/ plan' = Moved(SyncPhaseState(plan), InferPhase(plan)) /\ pc' = "run" /\ target' = target
<1>1. InferPhase(SyncPhaseState(plan)) = InferPhase(plan)
      /\ DayCountError(SyncPhaseState(plan)) = DayCountError(plan)
  BY Moving
<1> DEFINE p == SyncPhaseState(plan)
           to == InferPhase(p)
           edge == <<p.phase, to>>
<1>2. pc = "run"
  BY DEF EndBatch
<1> HIDE DEF p, to, edge
<1>3. \/ plan' = p /\ UNCHANGED <<pc, target>>
      \/ /\ ~DayCountError(p)
         /\ IF edge \in Edges
            THEN pc' = "gate" /\ target' = to /\ plan' = p
            ELSE plan' = Moved(p, to) /\ UNCHANGED <<pc, target>>
  BY Zenon DEF EndBatch, p, to, edge
<1> QED BY <1>1, <1>2, <1>3 DEF p, to


\* the steps back, by a tool, a route or the user's text
GoesBack ==
  /\ \E to \in Targets : CanBacktrack(plan, to) /\ plan' = BacktrackTo(plan, to)
  /\ files' = NoFiles
  /\ UNCHANGED <<draft, verdict, calls, refused, feedback, retries, faults>>

\* an attempt to finalize freezes the draft, drops it or leaves it
FinalizesAs(force, next) ==
  \/ /\ Freezes(force) /\ plan' = [plan EXCEPT !.frozen = draft]
     /\ files' = [f \in FileNames |-> draft] /\ pc' = IF force THEN "frozenAtEnd" ELSE "frozen"
     /\ UNCHANGED <<draft, verdict>>
  \/ /\ pc' = next /\ UNCHANGED <<plan, files>>
     /\ draft' = 0 \/ UNCHANGED <<draft, verdict>>

(* Finalising freezes the draft, or blocks it, or fails, and touches nothing else. *)
LEMMA Finalizing ==
  ASSUME NEW force \in BOOLEAN, NEW next, Finalize(force, next)
  PROVE  /\ FinalizesAs(force, next)
         /\ UNCHANGED <<wrote, target, startPhase, calls, refused, feedback, retries, faults>>
<1>1. CASE Freezes(force)
  BY <1>1 DEF Finalize, FinalizesAs
<1>2. CASE ~Freezes(force)
  BY <1>2 DEF Finalize, FinalizesAs
<1> QED BY <1>1, <1>2

LEMMA ShapeKept == ASSUME Shape, [Next]_vars PROVE Shape'
<1>0. MaxCalls \in Nat /\ MaxFaults \in Nat /\ MaxRetries \in Nat /\ Targets \subseteq Int
  BY PhasesAssumption
<1>n. NoFiles \in [FileNames -> 0..MaxCalls]
  BY <1>0 DEF NoFiles
<1>1. CASE UNCHANGED vars
  BY <1>1 DEF Shape, vars
<1>2. ASSUME plan' \in TravelPlans, plan'.phase \in (1..4) \cup Targets, plan'.phase <= 4,
             plan'.frozen = plan.frozen, pc' \in {"run", "gate"}, target' \in 0..4, pc' = "gate" => target' # 0,
             retries' \in [Edges -> 0..MaxRetries],
             UNCHANGED <<calls, draft, refused, files, faults>>
      PROVE  Shape'
  BY <1>2 DEF Shape
<1>3. ASSUME GoesBack, pc' = pc, target' = target PROVE Shape'
  <2>1. PICK to \in Targets : CanBacktrack(plan, to) /\ plan' = BacktrackTo(plan, to)
    BY <1>3 DEF GoesBack
  <2>2. /\ BacktrackTo(plan, to) \in TravelPlans /\ BacktrackTo(plan, to).phase = to
        /\ to <= 3 /\ BacktrackTo(plan, to).frozen = 0
    BY <1>0, <2>1, GoingBack DEF Shape
  <2>3. plan' \in TravelPlans /\ plan'.phase \in Targets /\ plan'.phase <= 4 /\ plan'.frozen = 0
    BY <1>0, <2>1, <2>2
  <2> QED BY <1>3, <1>n, <2>3 DEF GoesBack, Shape
<1>4. CASE BeginRun
  BY <1>4 DEF BeginRun, paperVars, Shape
<1>5. CASE Writes
  <2>1. PICK p : Write(p) /\ Written(p)
    BY <1>5, Writing DEF Shape
  <2>2. pc = "run"
    BY <1>5 DEF Writes, WriteBasics, WriteBrief, WriteNotes, WriteSkeletons, WriteChoice, WriteDays, InBatch
  <2>3. plan' = p /\ p \in TravelPlans /\ p.phase = plan.phase /\ p.frozen = plan.frozen
        /\ UNCHANGED <<pc, target, paperVars, retries, faults>>
    BY <2>1 DEF Write, Written
  <2> QED BY <1>2, <2>2, <2>3 DEF paperVars, Shape
<1>6. CASE ToolBacktrack \/ Fallback \/ RouteBacktrack
  BY <1>3, <1>6 DEF ToolBacktrack, Fallback, RouteBacktrack, GoesBack
<1>7. CASE EndBatch
  <2>1. plan \in TravelPlans /\ InferPhase(plan) \in 1..4 /\ target \in 0..4
    BY DEF InferPhase, PhaseFrom, Shape
  <2>2. SyncPhaseState(plan) \in TravelPlans /\ SyncPhaseState(plan).phase = plan.phase
        /\ SyncPhaseState(plan).frozen = plan.frozen
    BY <2>1, Moving
  <2>3. LET q == Moved(SyncPhaseState(plan), InferPhase(plan))
        IN  q \in TravelPlans /\ q.phase = InferPhase(plan) /\ q.frozen = plan.frozen
    BY <2>1, <2>2, Moving
  <2>4. /\ plan' \in TravelPlans /\ plan'.frozen = plan.frozen
        /\ plan'.phase = plan.phase \/ plan'.phase = InferPhase(plan)
        /\ pc' \in {"run", "gate"} /\ target' \in 0..4 /\ (pc' = "gate" => target' # 0)
    BY <1>7, <2>1, <2>2, <2>3, Ending
  <2>5. plan'.phase \in (1..4) \cup Targets /\ plan'.phase <= 4
    BY <2>1, <2>4 DEF Shape
  <2> QED BY <1>2, <1>7, <2>4, <2>5 DEF EndBatch, paperVars, Shape
<1>8. CASE GateAnswers
  <2> DEFINE edge == <<plan.phase, target>>
             count == IF edge \in Edges THEN retries[edge] ELSE 0
  <2>1. /\ pc = "gate" /\ pc' = "run" /\ target' = 0
        /\ UNCHANGED <<wrote, startPhase, paperVars, faults>>
    BY <1>8 DEF GateAnswers
  <2>2. \/ /\ MayBlock(count) /\ UNCHANGED plan
           /\ retries' = [e \in Edges |-> IF e = edge THEN count + 1 ELSE retries[e]]
        \/ \E answer : /\ plan' = Moved(plan, target)
                       /\ retries' = [e \in Edges |-> IF e = edge /\ answer # "error" THEN 0 ELSE retries[e]]
    BY <1>8 DEF GateAnswers
  <2>3. count \in 0..MaxRetries
    BY <1>0 DEF Shape
  <2> HIDE DEF count, edge
  <2>4. retries' \in [Edges -> 0..MaxRetries]
    <3>1. \A e \in Edges : retries[e] \in 0..MaxRetries
      BY DEF Shape
    <3>2. MayBlock(count) => count + 1 \in 0..MaxRetries
      BY <1>0, <2>3 DEF MayBlock
    <3>3. 0 \in 0..MaxRetries
      BY <1>0
    <3> QED BY <2>2, <3>1, <3>2, <3>3
  <2>5. target \in 1..4 /\ plan \in TravelPlans
    BY <2>1 DEF Shape
  <2>6. /\ plan' \in TravelPlans /\ plan'.frozen = plan.frozen
        /\ plan'.phase = plan.phase \/ plan'.phase = target
    BY <2>2, <2>5, Moving
  <2>7. plan'.phase \in (1..4) \cup Targets /\ plan'.phase <= 4
    BY <2>5, <2>6 DEF Shape
  <2> QED BY <1>2, <2>1, <2>4, <2>6, <2>7 DEF paperVars
<1>9. CASE GenerateSummary
  <2>1. calls' = calls + 1 /\ calls + 1 \in 0..MaxCalls /\ draft' = calls' /\ calls + 1 # 0 /\ pc' = "judging"
        /\ UNCHANGED <<plan, target, refused, files, retries, faults>>
    BY <1>0, <1>9 DEF GenerateSummary, Shape
  <2>2. calls \in Nat /\ plan.frozen \in Nat
    BY <1>0 DEF Shape, TravelPlans
  <2>3. plan.frozen <= calls + 1 /\ 1..calls \subseteq 1..(calls + 1) /\ calls + 1 \in 0..(calls + 1)
    BY <2>2 DEF Shape
  <2> QED BY <2>1, <2>3 DEF Shape
<1>10. CASE JudgeAnswers
  <2>1. pc' = "judged" /\ UNCHANGED <<plan, target, draft, calls, files, retries, faults>>
        /\ (refused' = refused \/ (refused' = refused \cup {draft} /\ draft # 0))
    BY <1>10 DEF JudgeAnswers, Shape
  <2>2. draft \in 0..calls /\ (draft # 0 => draft \in 1..calls)
    BY <1>0 DEF Shape
  <2> QED BY <2>1, <2>2 DEF Shape
<1>11. ASSUME NEW force \in BOOLEAN, NEW next \in {"run", "closing"}, Finalize(force, next) PROVE Shape'
  <2>1. FinalizesAs(force, next)
        /\ UNCHANGED <<wrote, target, startPhase, calls, refused, feedback, retries, faults>>
    BY <1>11, Finalizing
  <2>2. draft \in 0..MaxCalls /\ draft \in Nat /\ 0 \in 0..calls /\ draft <= calls
    BY <1>0 DEF Shape
  <2>3. [plan EXCEPT !.frozen = draft] \in TravelPlans /\ [plan EXCEPT !.frozen = draft].frozen = draft
        /\ [plan EXCEPT !.frozen = draft].phase = plan.phase
    BY <2>2 DEF Shape, TravelPlans
  <2>4. [f \in FileNames |-> draft] \in [FileNames -> 0..MaxCalls]
    BY <2>2
  <2>5. plan' \in TravelPlans /\ plan'.frozen <= calls /\ plan'.phase = plan.phase
        /\ files' \in [FileNames -> 0..MaxCalls] /\ draft' \in 0..calls
        /\ pc' \in {"run", "closing", "frozen", "frozenAtEnd"}
    BY <2>1, <2>2, <2>3, <2>4 DEF FinalizesAs, Shape
  <2> QED BY <2>1, <2>5 DEF Shape
<1>12. CASE TaskChunk \/ StopLoop
  BY <1>11, <1>12 DEF TaskChunk, StopLoop
<1>13. CASE Forget
  BY <1>0, <1>13 DEF Forget, Shape
<1>14. CASE WriteFails
  BY <1>0, <1>14, <1>n DEF WriteFails, Shape
<1>15. CASE EndRun
  BY <1>15, <1>n DEF EndRun, FilesAtEnd, Shape
<1>16. CASE Interrupt
  BY <1>0, <1>16 DEF Interrupt, paperVars, Shape
<1> QED BY <1>1, <1>4, <1>5, <1>6, <1>7, <1>8, <1>9, <1>10, <1>12, <1>13, <1>14, <1>15, <1>16
     DEF Next, Writes


LEMMA EarnedKept == ASSUME ~Overlap, Shape, EarnedInv, [Next]_vars PROVE EarnedInv'
<1>0. plan \in TravelPlans /\ ChoiceAnswered(plan) /\ Earned(plan, plan.phase) /\ target \in 0..4
  BY DEF Shape, EarnedInv
<1>1. ASSUME ChoiceAnswered(plan'), Earned(plan', plan'.phase), pc' # "gate" PROVE EarnedInv'
  BY <1>1 DEF EarnedInv, ChoiceAnswered, Earned
<1>2. CASE UNCHANGED <<plan, pc, target>>
  BY <1>2 DEF EarnedInv, ChoiceAnswered, Earned, InferPhase, PhaseFrom, SkeletonDaysMatch, DayCountError
<1>3. ASSUME GoesBack, pc' # "gate" PROVE EarnedInv'
  <2>1. PICK to \in Targets : CanBacktrack(plan, to) /\ plan' = BacktrackTo(plan, to)
    BY <1>3 DEF GoesBack
  <2>2. /\ BacktrackTo(plan, to).phase = to /\ ChoiceAnswered(BacktrackTo(plan, to))
        /\ Earned(BacktrackTo(plan, to), to)
    BY <1>0, <2>1, PhasesAssumption, GoingBack DEF Shape
  <2> QED BY <1>1, <1>3, <2>1, <2>2
<1>4. CASE plan' = plan /\ pc' # "gate"
  BY <1>0, <1>1, <1>4
<1>5. CASE Writes
  <2>1. PICK p : Write(p) /\ Written(p)
    BY <1>5, Writing DEF Shape
  <2>2. pc = "run"
    BY <1>5 DEF Writes, WriteBasics, WriteBrief, WriteNotes, WriteSkeletons, WriteChoice, WriteDays, InBatch
  <2>3. plan' = p /\ pc' = pc
    BY <2>1 DEF Write
  <2>4. plan.phase \in Int /\ plan.phase = p.phase /\ ChoiceAnswered(p)
    BY <1>0, <2>1 DEF Written, TravelPlans
  <2>5. Earned(p, p.phase)
    BY <1>0, <2>1, <2>4 DEF Written, Earned
  <2> QED BY <1>1, <2>2, <2>3, <2>4, <2>5
<1>6. CASE ToolBacktrack \/ Fallback \/ RouteBacktrack
  BY <1>3, <1>6 DEF ToolBacktrack, Fallback, RouteBacktrack, GoesBack
<1>7. CASE EndBatch
  <2> DEFINE s == SyncPhaseState(plan)
             to == InferPhase(plan)
             q == Moved(s, to)
  <2>1. to \in 1..4 /\ (~DayCountError(plan) => Earned(plan, to))
    BY <1>0, Inference
  <2>2. /\ s \in TravelPlans /\ s.phase = plan.phase /\ ChoiceAnswered(s)
        /\ \A n : Earned(plan, n) => Earned(s, n)
        /\ InferPhase(s) = to /\ DayCountError(s) = DayCountError(plan)
    BY <1>0, <2>1, Moving
  <2>3. /\ q.phase = to /\ ChoiceAnswered(q) /\ (\A n : Earned(s, n) => Earned(q, n))
    <3> HIDE DEF to, s
    <3> QED BY <2>1, <2>2, Moving
  <2>4. CASE plan' = s /\ pc' = "run"
    <3> HIDE DEF s
    <3> QED BY <1>0, <1>1, <2>2, <2>4
  <2>5. CASE plan' = s /\ pc' = "gate" /\ target' = to /\ ~DayCountError(plan)
    <3>1. Earned(s, s.phase) /\ ChoiceAnswered(s) /\ InferPhase(s) = to /\ ~DayCountError(s)
      <4> HIDE DEF s, to
      <4> QED BY <1>0, <2>2, <2>5
    <3>2. /\ (ChoiceAnswered(plan))' = ChoiceAnswered(s)
          /\ (Earned(plan, plan.phase))' = Earned(s, s.phase)
          /\ (InferPhase(plan))' = InferPhase(s)
          /\ (DayCountError(plan))' = DayCountError(s)
      <4> HIDE DEF s
      <4> QED BY <2>5 DEF ChoiceAnswered, Earned, InferPhase, PhaseFrom, SkeletonDaysMatch, DayCountError
    <3> HIDE DEF s, to
    <3> QED BY <2>5, <3>1, <3>2, Zenon DEF EarnedInv
  <2>6. CASE plan' = q /\ pc' = "run" /\ ~DayCountError(plan)
    <3>1. ChoiceAnswered(q) /\ Earned(q, q.phase)
      <4> HIDE DEF q, to, s
      <4> QED BY <2>1, <2>2, <2>3, <2>6
    <3> HIDE DEF q
    <3> QED BY <1>1, <2>6, <3>1
  <2> QED BY <1>0, <1>7, <2>4, <2>5, <2>6, Ending
<1>8. CASE GateAnswers
  <2>1. pc = "gate" /\ pc' = "run" /\ (plan' = plan \/ plan' = Moved(plan, target))
    BY <1>8 DEF GateAnswers
  <2>2. target = InferPhase(plan) /\ ~DayCountError(plan)
    BY <2>1 DEF EarnedInv
  <2>3. target \in 1..4 /\ Earned(plan, target)
    BY <1>0, <2>2, Inference
  <2>4. /\ Moved(plan, target).phase = target /\ ChoiceAnswered(Moved(plan, target))
        /\ Earned(Moved(plan, target), target)
    BY <1>0, <2>3, Moving
  <2>5. CASE plan' = Moved(plan, target)
    BY <1>1, <2>1, <2>4, <2>5
  <2> QED BY <1>4, <2>1, <2>5
<1>9. ASSUME NEW force \in BOOLEAN, NEW next \in {"run", "closing"}, Finalize(force, next) PROVE EarnedInv'
  <2>1. FinalizesAs(force, next)
    BY <1>9, Finalizing
  <2>2. pc' # "gate" /\ plan' \in {plan, [plan EXCEPT !.frozen = draft]}
    BY <2>1 DEF FinalizesAs
  <2>3. ASSUME NEW q, q = [plan EXCEPT !.frozen = draft] PROVE ChoiceAnswered(q) /\ Earned(q, q.phase)
    <3>1. /\ q.chosen = plan.chosen /\ q.skeletons = plan.skeletons /\ q.dest = plan.dest
          /\ q.dates = plan.dates /\ q.stay = plan.stay /\ q.days = plan.days /\ q.phase = plan.phase
      BY <1>0, <2>3 DEF TravelPlans
    <3> QED BY <1>0, <3>1 DEF ChoiceAnswered, Earned
  <2> QED BY <1>1, <1>4, <2>2, <2>3
<1>10. CASE TaskChunk \/ StopLoop
  BY <1>9, <1>10 DEF TaskChunk, StopLoop
<1>11. CASE UNCHANGED vars
  BY <1>2, <1>11 DEF vars
<1>12. CASE BeginRun \/ GenerateSummary \/ JudgeAnswers \/ Forget \/ WriteFails \/ EndRun \/ Interrupt
  BY <1>4, <1>12 DEF BeginRun, GenerateSummary, JudgeAnswers, Forget, WriteFails, EndRun, Interrupt
<1> QED BY <1>5, <1>6, <1>7, <1>8, <1>10, <1>11, <1>12 DEF Next, Writes

LEMMA PapersKept == ASSUME Shape, PapersInv, [Next]_vars PROVE PapersInv'
<1>0. /\ calls \in Nat /\ draft \in 0..calls /\ refused \subseteq 1..calls
      /\ plan \in TravelPlans /\ plan.frozen \in Nat /\ plan.frozen <= calls
  BY PhasesAssumption DEF Shape, TravelPlans
<1>1. CASE UNCHANGED <<plan, pc, draft, verdict, refused>>
  BY <1>1 DEF PapersInv
<1>2. ASSUME UNCHANGED <<draft, verdict, refused>>, plan'.frozen \in {0, plan.frozen},
             pc' \in {"idle", "run", "gate", "frozen", "frozenAtEnd", "closing"} \/ pc' = pc
      PROVE  PapersInv'
  BY <1>0, <1>2 DEF PapersInv
<1>3. CASE GoesBack /\ pc' = pc
  <2>1. PICK to \in Targets : CanBacktrack(plan, to) /\ plan' = BacktrackTo(plan, to)
    BY <1>3 DEF GoesBack
  <2>2. BacktrackTo(plan, to).frozen = 0
    BY <1>0, <2>1, PhasesAssumption, GoingBack DEF Shape
  <2> QED BY <1>2, <1>3, <2>1, <2>2 DEF GoesBack
<1>4. CASE BeginRun \/ WriteFails \/ EndRun \/ Interrupt
  BY <1>2, <1>4 DEF BeginRun, WriteFails, EndRun, Interrupt, paperVars
<1>5. CASE Writes
  <2>1. PICK p : Write(p) /\ Written(p)
    BY <1>5, Writing DEF Shape
  <2> QED BY <1>2, <2>1 DEF Write, Written, paperVars
<1>6. CASE ToolBacktrack \/ Fallback \/ RouteBacktrack
  BY <1>3, <1>6 DEF ToolBacktrack, Fallback, RouteBacktrack, GoesBack
<1>7. CASE EndBatch
  <2>1. SyncPhaseState(plan) \in TravelPlans /\ SyncPhaseState(plan).frozen = plan.frozen
        /\ Moved(SyncPhaseState(plan), InferPhase(plan)).frozen = plan.frozen
    <3>1. InferPhase(plan) \in 1..4
      BY DEF InferPhase, PhaseFrom
    <3> QED BY <1>0, <3>1, Moving
  <2>2. plan'.frozen = plan.frozen /\ pc' \in {"run", "gate"}
    BY <1>0, <1>7, <2>1, Ending
  <2> QED BY <1>2, <1>7, <2>2 DEF EndBatch, paperVars
<1>8. CASE GateAnswers
  <2>1. target \in 1..4 /\ pc' = "run" /\ plan' \in {plan, Moved(plan, target)}
    BY <1>8 DEF GateAnswers, Shape
  <2>2. Moved(plan, target).frozen = plan.frozen
    BY <1>0, <2>1, Moving
  <2> QED BY <1>2, <1>8, <2>1, <2>2 DEF GateAnswers, paperVars
<1>9. CASE GenerateSummary
  <2>1. /\ plan' = plan /\ plan.frozen = 0 /\ draft' = calls + 1 /\ pc' = "judging"
        /\ UNCHANGED <<verdict, refused>>
    BY <1>9 DEF GenerateSummary
  <2>2. calls + 1 \notin refused /\ 0 \notin refused
    BY <1>0
  <2> QED BY <2>1, <2>2 DEF PapersInv
<1>10. CASE JudgeAnswers
  <2>1. pc = "judging" /\ pc' = "judged" /\ UNCHANGED <<plan, draft>>
    BY <1>10 DEF JudgeAnswers
  <2>2. \E blocked \in BOOLEAN :
          /\ verdict' = [call |-> draft, status |-> IF blocked THEN "blocked" ELSE "approved"]
          /\ refused' = IF blocked THEN refused \cup {draft} ELSE refused
    BY <1>10 DEF JudgeAnswers
  <2>3. plan.frozen = 0 /\ draft \notin refused /\ draft # 0 /\ 0 \notin refused
    BY <1>0, <2>1 DEF PapersInv, Shape
  <2> QED BY <2>1, <2>2, <2>3 DEF PapersInv
<1>11. ASSUME NEW force \in BOOLEAN, NEW next \in {"run", "closing"}, Finalize(force, next) PROVE PapersInv'
  <2>1. FinalizesAs(force, next) /\ refused' = refused
    BY <1>11, Finalizing
  <2>2. CASE Freezes(force) /\ plan' = [plan EXCEPT !.frozen = draft] /\ UNCHANGED <<draft, verdict>>
             /\ pc' \in {"frozen", "frozenAtEnd"}
    <3>1. plan'.frozen = draft
      BY <1>0, <2>2 DEF TravelPlans
    <3>2. draft \notin refused
      BY <2>2 DEF Freezes, PapersInv
    <3> QED BY <2>1, <2>2, <3>1, <3>2 DEF PapersInv
  <2>3. CASE pc' = next /\ plan' = plan /\ (draft' = 0 \/ UNCHANGED <<draft, verdict>>)
    BY <1>0, <2>1, <2>3 DEF PapersInv
  <2> QED BY <2>1, <2>2, <2>3 DEF FinalizesAs
<1>12. CASE TaskChunk \/ StopLoop
  BY <1>11, <1>12 DEF TaskChunk, StopLoop
<1>13. CASE Forget
  BY <1>0, <1>13 DEF Forget, PapersInv
<1>14. CASE UNCHANGED vars
  BY <1>1, <1>14 DEF vars
<1> QED BY <1>4, <1>5, <1>6, <1>7, <1>8, <1>9, <1>10, <1>12, <1>13, <1>14 DEF Next, Writes


LEMMA FilesKept ==
  ASSUME MaxFaults <= 1, Shape, PapersInv, FilesInv, [Next]_vars PROVE FilesInv'
<1>0. /\ draft \in Nat /\ plan \in TravelPlans /\ plan.frozen \in Nat
      /\ faults \in 0..MaxFaults /\ MaxFaults \in Nat
  BY PhasesAssumption DEF Shape, TravelPlans
<1>1. ASSUME UNCHANGED <<draft, faults>>, plan'.frozen = 0 \/ (plan'.frozen = plan.frozen /\ files' = files),
             pc' = pc \/ pc \notin {"frozen", "frozenAtEnd"}
      PROVE  FilesInv'
  BY <1>0, <1>1 DEF FilesInv
<1>2. ASSUME GoesBack, pc' = pc PROVE FilesInv'
  <2>1. PICK to \in Targets : CanBacktrack(plan, to) /\ plan' = BacktrackTo(plan, to)
    BY <1>2 DEF GoesBack
  <2>2. BacktrackTo(plan, to).frozen = 0
    BY <1>0, <2>1, PhasesAssumption, GoingBack DEF Shape
  <2> QED BY <1>1, <1>2, <2>1, <2>2 DEF GoesBack
<1>3. CASE ToolBacktrack \/ Fallback \/ RouteBacktrack
  BY <1>2, <1>3 DEF ToolBacktrack, Fallback, RouteBacktrack, GoesBack
<1>4. CASE UNCHANGED vars
  BY <1>1, <1>4 DEF vars
<1>5. CASE BeginRun \/ JudgeAnswers
  BY <1>1, <1>5 DEF BeginRun, JudgeAnswers, paperVars
<1>6. CASE Writes
  <2>1. PICK p : Write(p) /\ Written(p)
    BY <1>6, Writing DEF Shape
  <2> QED BY <1>1, <2>1 DEF Write, Written, paperVars
<1>7. CASE EndBatch
  <2>1. SyncPhaseState(plan) \in TravelPlans /\ SyncPhaseState(plan).frozen = plan.frozen
        /\ Moved(SyncPhaseState(plan), InferPhase(plan)).frozen = plan.frozen
    <3>1. InferPhase(plan) \in 1..4
      BY DEF InferPhase, PhaseFrom
    <3> QED BY <1>0, <3>1, Moving
  <2>2. plan'.frozen = plan.frozen
    BY <1>0, <1>7, <2>1, Ending
  <2> QED BY <1>1, <1>7, <2>2 DEF EndBatch, paperVars
<1>8. CASE GateAnswers
  <2>1. target \in 1..4 /\ pc = "gate" /\ plan' \in {plan, Moved(plan, target)}
    BY <1>8 DEF GateAnswers, Shape
  <2>2. Moved(plan, target).frozen = plan.frozen
    BY <1>0, <2>1, Moving
  <2> QED BY <1>1, <1>8, <2>1, <2>2 DEF GateAnswers, paperVars
<1>9. CASE GenerateSummary
  BY <1>9 DEF GenerateSummary, FilesInv
<1>10. ASSUME NEW force \in BOOLEAN, NEW next \in {"run", "closing"}, Finalize(force, next),
              pc \in {"run", "judged"}
       PROVE  FilesInv'
  <2>1. FinalizesAs(force, next) /\ faults' = faults
    BY <1>10, Finalizing
  <2>2. CASE /\ plan' = [plan EXCEPT !.frozen = draft] /\ files' = [f \in FileNames |-> draft]
             /\ pc' \in {"frozen", "frozenAtEnd"}
    <3>1. plan'.frozen = draft
      BY <1>0, <2>2 DEF TravelPlans
    <3> QED BY <2>2, <3>1 DEF FilesInv
  <2>3. CASE pc' = next /\ UNCHANGED <<plan, files>> /\ (draft' = 0 \/ UNCHANGED <<draft, verdict>>)
    BY <1>10, <2>1, <2>3 DEF FilesInv
  <2> QED BY <2>1, <2>2, <2>3 DEF FinalizesAs
<1>11. CASE TaskChunk \/ StopLoop
  BY <1>10, <1>11 DEF TaskChunk, StopLoop
<1>12. CASE Forget
  BY <1>12 DEF Forget, FilesInv
<1>13. CASE WriteFails
  <2>1. faults = 0 /\ draft # 0 /\ pc \in {"judged", "run"} /\ plan' = plan
    BY <1>0, <1>13 DEF WriteFails, Freezes
  <2>2. plan.frozen = 0
    BY <2>1 DEF FilesInv
  <2> QED BY <2>1, <2>2 DEF FilesInv
<1>14. CASE EndRun
  BY <1>1, <1>14 DEF EndRun, FilesAtEnd
<1>15. CASE Interrupt
  <2>1. faults' >= 1 /\ UNCHANGED <<plan, draft, files>>
    BY <1>0, <1>15 DEF Interrupt, paperVars
  <2> QED BY <2>1 DEF FilesInv
<1> QED BY <1>3, <1>4, <1>5, <1>6, <1>7, <1>8, <1>9, <1>11, <1>12, <1>13, <1>14, <1>15
     DEF Next, Writes

-----------------------------------------------------------------------------
(* Every plan any tools, gates, backtracks and interruptions make is a plan,
   with a phase of the four or one a backtrack named (a backtrack refuses only
   what is not before the phase it starts from, chat_routes.py 153). *)
THEOREM TypeCorrect == Spec => []TypeOK
<1>1. Spec => []Shape
  BY InitShape, ShapeKept, PTL DEF Spec
<1>2. Shape => TypeOK
  <2> SUFFICES ASSUME Shape PROVE TypeOK
    OBVIOUS
  <2>1. plan.frozen \in Nat /\ calls \in Nat /\ MaxCalls \in Nat /\ calls <= MaxCalls
    BY PhasesAssumption DEF Shape, TravelPlans
  <2> QED BY <2>1 DEF Shape, TypeOK
<1> QED BY <1>1, <1>2, PTL

(* With one request at a time, and restored plans that had earned their phase,
   Phase 3 is entered and kept only with all that it rests on, and Phase 4 only
   with all days: the router's inference is applied to the plan it was made
   from, and no tool of the later phases takes back what it rests on. *)
THEOREM PhasesEarned ==
  ASSUME ~Overlap, \A p \in Restored : ChoiceAnswered(p) /\ Earned(p, p.phase)
  PROVE  Spec => []PhaseEarned
<1>1. Init => EarnedInv
  <2> SUFFICES ASSUME Init PROVE EarnedInv
    OBVIOUS
  <2>1. ChoiceAnswered(FreshPlan) /\ Earned(FreshPlan, FreshPlan.phase)
    BY DEF ChoiceAnswered, Earned, FreshPlan
  <2> QED BY <2>1 DEF Init, EarnedInv
<1>2. Spec => [](Shape /\ EarnedInv)
  BY <1>1, InitShape, ShapeKept, EarnedKept, PTL DEF Spec
<1>3. EarnedInv => PhaseEarned
  BY DEF EarnedInv, Earned, PhaseEarned
<1> QED BY <1>2, <1>3, PTL

(* Deliverables are never frozen from a draft the judge blocked, whatever is
   interrupted, fails or overlaps (finalize_pending_phase4_deliverables). *)
THEOREM BlockedNeverFrozen == Spec => [](plan.frozen # 0 => plan.frozen \notin refused)
<1>1. Init => PapersInv
  <2>1. Init => plan.frozen = 0
    BY RestoredAssumption DEF Init, FreshPlan
  <2> QED BY <2>1 DEF Init, PapersInv
<1>2. Spec => [](Shape /\ PapersInv)
  BY <1>1, InitShape, ShapeKept, PapersKept, PTL DEF Spec
<1>3. PapersInv => (plan.frozen # 0 => plan.frozen \notin refused)
  BY DEF PapersInv
<1> QED BY <1>2, <1>3, PTL

(* Through one interruption or failed write, a plan with frozen deliverables
   has both files, of the draft it names, and not of a blocked one
   (persist_phase4_deliverables).  A second fault can clear the files of a
   plan that is frozen already. *)
THEOREM FrozenIsBacked == ASSUME MaxFaults <= 1 PROVE Spec => []DeliverablesBacked
<1>1. Init => PapersInv /\ FilesInv
  <2>1. Init => plan.frozen = 0
    BY RestoredAssumption DEF Init, FreshPlan
  <2> QED BY <2>1 DEF Init, PapersInv, FilesInv
<1>2. Spec => [](Shape /\ PapersInv /\ FilesInv)
  BY <1>1, InitShape, ShapeKept, PapersKept, FilesKept, PTL DEF Spec
<1>3. PapersInv /\ FilesInv => DeliverablesBacked
  BY DEF PapersInv, FilesInv, DeliverablesBacked
<1> QED BY <1>2, <1>3, PTL

(* A choice that outlives a rewrite of the skeletons means the skeleton it
   meant before, by id or by name (_reconcile_selected_skeleton_after_rewrite,
   clear_downstream). *)
THEOREM ChoiceKeepsMeaning == Spec => RewriteKeepsChoice
<1> DEFINE Keeps ==
      (plan'.skeletons # plan.skeletons /\ NoChoice \notin {plan.chosen, plan'.chosen})
        => /\ Cardinality(Answering(plan.skeletons, plan.chosen)) = 1
           /\ Cardinality(Answering(plan'.skeletons, plan'.chosen)) = 1
           /\ LET was == plan.skeletons[First(Answering(plan.skeletons, plan.chosen))]
                  now == plan'.skeletons[First(Answering(plan'.skeletons, plan'.chosen))]
              IN  now.id = was.id \/ now.name = was.name
<1>1. ASSUME Shape, [Next]_vars PROVE Keeps
  <2>0. plan \in TravelPlans
    BY <1>1 DEF Shape
  <2>1. CASE plan'.skeletons = plan.skeletons
    BY <2>1
  <2>2. CASE Writes
    <3>1. PICK p : Write(p) /\ Written(p)
      BY <2>0, <2>2, Writing
    <3> QED BY <3>1 DEF Write, Written, SameMeaning
  <2>3. CASE ToolBacktrack \/ Fallback \/ RouteBacktrack
    <3>1. PICK to \in Targets : CanBacktrack(plan, to) /\ plan' = BacktrackTo(plan, to)
      BY <2>3 DEF ToolBacktrack, Fallback, RouteBacktrack
    <3>2. BacktrackTo(plan, to).skeletons # plan.skeletons => BacktrackTo(plan, to).chosen = NoChoice
      BY <1>1, <2>0, <3>1, PhasesAssumption, GoingBack DEF Shape
    <3> QED BY <3>1, <3>2
  <2>4. CASE EndBatch
    <3>1. InferPhase(plan) \in 1..4
      BY DEF InferPhase, PhaseFrom
    <3>2. /\ SyncPhaseState(plan).skeletons = plan.skeletons
          /\ Moved(SyncPhaseState(plan), InferPhase(plan)).skeletons = plan.skeletons
      BY <2>0, <3>1, Moving
    <3> QED BY <2>0, <2>1, <2>4, <3>2, Ending
  <2>5. CASE GateAnswers
    <3>1. target \in 1..4 /\ plan' \in {plan, Moved(plan, target)}
      BY <1>1, <2>5 DEF GateAnswers, Shape
    <3> QED BY <2>0, <2>1, <3>1, Moving
  <2>6. ASSUME NEW force \in BOOLEAN, NEW next, Finalize(force, next) PROVE Keeps
    <3>1. plan' \in {plan, [plan EXCEPT !.frozen = draft]}
      BY <2>6, Finalizing DEF FinalizesAs
    <3>2. [plan EXCEPT !.frozen = draft].skeletons = plan.skeletons
      BY <2>0 DEF TravelPlans
    <3> QED BY <2>1, <3>1, <3>2
  <2>7. CASE TaskChunk \/ StopLoop
    BY <2>6, <2>7 DEF TaskChunk, StopLoop
  <2>8. CASE plan' = plan
    BY <2>1, <2>8
  <2>9. CASE \/ BeginRun \/ GenerateSummary \/ JudgeAnswers \/ Forget \/ WriteFails \/ EndRun
             \/ Interrupt \/ UNCHANGED vars
    BY <2>8, <2>9 DEF BeginRun, GenerateSummary, JudgeAnswers, Forget, WriteFails, EndRun, Interrupt, vars
  <2> QED BY <1>1, <2>2, <2>3, <2>4, <2>5, <2>7, <2>9 DEF Next, Writes
<1>2. Spec => [][Keeps]_plan
  BY <1>1, InitShape, ShapeKept, PTL DEF Spec
<1> QED BY <1>2, PTL DEF RewriteKeepsChoice
=============================================================================
