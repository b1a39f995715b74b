---------------------------- MODULE Memory_proofs ----------------------------
(***************************************************************************)
(* Proofs about the memory of a user: the jobs that extract it, for any    *)
(* number of turns, any window and any bounds; then its recall and the     *)
(* archive of trips.                                                       *)
(*                                                                         *)
(* NewestWaits is inductive as it stands: whatever a turn does to the      *)
(* history, only Submit, the end of a job and a restart touch the queue,   *)
(* and each of them sets the job, the waiting snapshot and the idle event  *)
(* together.                                                               *)
(*                                                                         *)
(* NoDoubleExtraction speaks of places: the consumed count means the first *)
(* places of whatever list the session has by then.  PlaceInv says why     *)
(* that is right as long as nothing is summarised: a message has the same  *)
(* place in every list that has it.                                        *)
(*                                                                         *)
(* The invariant of the recall is explained where its part begins.         *)
(***************************************************************************)
EXTENDS MemoryQueue, MemoryRecall, FoldLemmas, TLAPS

(* A snapshot that becomes a job is at its gate, so the job runs.           *)
LEMMA GatingRuns == \A snap : Gating(snap).stage = "gate"
  BY DEF Gating

(* When a job ends nothing waits, and the idle event is set exactly if no   *)
(* job follows (the finally block of MemoryJobScheduler._run).              *)
LEMMA FinishKeeps == FinishJob => NewestWaits'
<1> SUFFICES ASSUME FinishJob PROVE NewestWaits'
  OBVIOUS
<1>1. CASE pending = <<>>
  BY <1>1 DEF FinishJob, NewestWaits, NoJob
<1>2. CASE pending # <<>>
  <2>1. job'.stage = "gate" /\ idle' = FALSE /\ pending' = <<>>
    BY <1>2, GatingRuns DEF FinishJob
  <2> QED  BY <2>1 DEF NewestWaits
<1> QED  BY <1>1, <1>2

(* MemoryJobScheduler.submit starts a job only if none runs, and otherwise  *)
(* lets the snapshot of this very turn wait.                                *)
LEMMA SubmitKeeps == ASSUME NEW s \in Slots, NewestWaits, Submit(s) PROVE NewestWaits'
<1>1. CASE job.stage = "none"
  <2>1. pending' = <<>> /\ job'.stage = "gate" /\ idle' = FALSE
    BY <1>1, GatingRuns DEF Submit, NewestWaits
  <2> QED  BY <2>1 DEF NewestWaits
<1>2. CASE job.stage # "none"
  <2>1. pending' = turn[s].list /\ latest' = Last(turn[s].list)
        /\ job' = job /\ idle' = FALSE
    BY <1>2 DEF Submit
  <2>2. Last(pending') = latest'
    BY <2>1
  <2> QED  BY <1>2, <2>1, <2>2 DEF NewestWaits, Last
<1> QED  BY <1>1, <1>2

(* Every step keeps the promise.                                            *)
LEMMA StepKeeps == NewestWaits /\ [Next]_vars => NewestWaits'
<1> SUFFICES ASSUME NewestWaits, [Next]_vars PROVE NewestWaits'
  OBVIOUS
<1>1. CASE UNCHANGED vars
  BY <1>1 DEF vars, NewestWaits, Last
<1>2. CASE Next
  <2>1. ASSUME NEW s \in Slots,
               \/ BeginTurn(s) \/ BeginRun(s) \/ Rebuild(s) \/ Summarise(s)
               \/ EndTurn(s) \/ AbandonTurn(s)
        PROVE  NewestWaits'
    <3>1. UNCHANGED scheduler
      BY <2>1 DEF BeginTurn, BeginRun, Rebuild, Summarise, EndTurn, AbandonTurn
    <3> QED  BY <3>1 DEF scheduler, NewestWaits, Last
  <2>2. ASSUME NEW s \in Slots, Submit(s) PROVE NewestWaits'
    BY <2>2, SubmitKeeps
  <2>3. CASE GateSkips \/ GateFails \/ ExtractionDone \/ ExtractionFails
    BY <2>3, FinishKeeps DEF GateSkips, GateFails, ExtractionDone, ExtractionFails
  <2>4. CASE GatePasses
    <3>1. PICK i \in WindowStarts(job.snap, consumed) :
             job' = [job EXCEPT !.stage = "extract", !.from = i]
      BY <2>4 DEF GatePasses
    <3>2. job'.stage # "none" /\ job.stage # "none"
      BY <2>4, <3>1 DEF GatePasses
    <3> QED  BY <2>4, <3>2 DEF GatePasses, NewestWaits, Last
  <2>5. CASE Restart
    BY <2>5 DEF Restart, NewestWaits, NoJob
  <2> QED  BY <1>2, <2>1, <2>2, <2>3, <2>4, <2>5 DEF Next, JobStep
<1> QED  BY <1>1, <1>2

(* The snapshot that waits is always the one submitted last, and it waits   *)
(* only while a job runs: latest-wins, one job at a time, for every history *)
(* of submissions, ends of jobs and restarts.                               *)
THEOREM QueueLatestWins == Spec => []NewestWaits
<1>1. Init => NewestWaits
  BY DEF Init, NewestWaits, NoJob
<1> QED  BY <1>1, StepKeeps, PTL DEF Spec



-----------------------------------------------------------------------------
(* Lists of messages *)

(* Typed lists of messages.                                                *)
LEMMA Wider == ASSUME NEW S, NEW T, S \subseteq T PROVE Seq(S) \subseteq Seq(T)
<1> SUFFICES ASSUME NEW x \in Seq(S) PROVE x \in Seq(T)
  OBVIOUS
<1>1. x \in [1..Len(x) -> T] /\ Len(x) \in Nat
  OBVIOUS
<1> QED BY <1>1

(* An element of a sequence. *)
LEMMA Member == ASSUME NEW S, NEW x \in Seq(S), NEW i \in DOMAIN x PROVE x[i] \in S
  OBVIOUS

(* A sequence of one element. *)
LEMMA One == ASSUME NEW S, NEW x \in S PROVE <<x>> \in Seq(S)
  OBVIOUS

(* A list picked from a list has messages of that list only.                *)
LEMMA PickedList ==
  ASSUME NEW S, NEW list \in Seq(S), NEW P \in SUBSET DOMAIN list, NEW f \in InOrder(P)
  PROVE  Picked(list, f) \in Seq(S)
<1>1. IsFiniteSet(1..Len(list)) /\ P \in SUBSET (1..Len(list))
  BY FS_Interval
<1>2. Cardinality(P) \in Nat
  BY <1>1, FS_Subset, FS_CardinalityType
<1>3. f \in [1..Cardinality(P) -> P]
  BY DEF InOrder
<1>4. \A i \in 1..Cardinality(P) : list[f[i]] \in S
  BY <1>3
<1>5. Picked(list, f) \in [1..Cardinality(P) -> S]
  BY <1>3, <1>4 DEF Picked
<1> QED BY <1>2, <1>5

(* The requests a restored history begins with are different ones.          *)
LEMMA RestoredList ==
  ASSUME NEW n \in Nat, NEW kept \in SUBSET (1..n), NEW f \in InOrder(kept)
  PROVE  /\ f \in Seq(0..n)
         /\ \A i, k \in DOMAIN f : f[i] = f[k] => i = k
<1>0. IsFiniteSet(1..n) /\ kept \subseteq 1..n
  BY FS_Interval
<1>1. Cardinality(kept) \in Nat
  BY <1>0, FS_Subset, FS_CardinalityType
<1>2. f \in [1..Cardinality(kept) -> kept]
  BY DEF InOrder
<1>3. f \in [1..Cardinality(kept) -> 0..n]
  <2>1. kept \subseteq 0..n
    BY <1>0
  <2> QED BY <1>2, <2>1
<1>4. f \in Seq(0..n)
  BY <1>1, <1>3
<1>5. ASSUME NEW i \in DOMAIN f, NEW k \in DOMAIN f, f[i] = f[k] PROVE i = k
  <2>1. i \in Nat /\ k \in Nat /\ f[i] \in 0..n /\ f[k] \in 0..n
    BY <1>1, <1>2, <1>3
  <2>2. i < k => f[i] < f[k]
    BY DEF InOrder
  <2>3. k < i => f[k] < f[i]
    BY DEF InOrder
  <2> QED BY <1>5, <2>1, <2>2, <2>3
<1> QED BY <1>4, <1>5

(* The window begins at a place of the snapshot or just behind it, and has  *)
(* no place that was consumed.                                              *)
LEMMA WindowBehindCount ==
  ASSUME NEW S, NEW snap \in Seq(S), NEW count \in Nat, NEW from \in WindowStarts(snap, count)
  PROVE  /\ from \in Nat \ {0}
         /\ \A i \in from..Len(snap) : count < i
<1> DEFINE open == {i \in 1..Len(snap) : i > count /\ Len(snap) - i < Window}
<1>1. open \in SUBSET Nat /\ Len(snap) \in Nat
  OBVIOUS
<1>2. CASE open = {}
  <2>1. from = Len(snap) + 1
    BY <1>2 DEF WindowStarts
  <2> QED BY <1>1, <2>1
<1>3. CASE open # {}
  <2>1. PICK x \in open : \A y \in open : x <= y
    <3> HIDE DEF open
    <3> QED BY <1>1, <1>3, LeastElement
  <2>2. (CHOOSE i \in open : \A k \in open : i <= k) \in open
    <3> HIDE DEF open
    <3> QED BY <2>1
  <2>3. from \in open
    BY <1>3, <2>2 DEF WindowStarts
  <2> QED BY <1>1, <2>3
<1> QED BY <1>2, <1>3

-----------------------------------------------------------------------------
(* Shapes *)

(* TypeOK alone is not inductive: the message a snapshot ends with is one   *)
(* only if a turn that may submit has a message, its own request.           *)
ShapeInv ==
    /\ TypeOK
    /\ \A s \in Slots : turn[s].at = "open" => turn[s].list # <<>>

TurnShape(n) == [list : Seq(0..n), at : {"none", "open", "submitted", "run"}]
JobShape(n) == [stage : {"none", "gate", "extract"}, snap : Seq(0..n), from : Nat \ {0}]

(* A turn begins: one more request is known.                                *)
LEMMA BeginKeepsShape == ASSUME ShapeInv, NEW s \in Slots, BeginTurn(s) PROVE ShapeInv'
<1> USE DEF Ids
<1>1. sent \in Nat /\ hist \in Seq(0..sent)
  BY DEF ShapeInv, TypeOK
<1>2. sent' = sent + 1 /\ sent + 1 \in Nat /\ 0..sent \subseteq 0..sent'
  BY <1>1 DEF BeginTurn
<1>3. Seq(0..sent) \subseteq Seq(0..sent')
  BY <1>2, Wider
<1>4. Append(hist, sent + 1) \in Seq(0..sent')
  BY <1>1, <1>2, <1>3
<1>5. turn \in [Slots -> TurnShape(sent')]
  BY <1>3 DEF ShapeInv, TypeOK, TurnShape
<1>6. /\ turn' = [turn EXCEPT ![s] = [list |-> Append(hist, sent + 1), at |-> "open"]]
      /\ UNCHANGED <<hist, budget, scheduler>>
  BY DEF BeginTurn
<1>7. turn' \in [Slots -> TurnShape(sent')]
  BY <1>4, <1>5, <1>6 DEF TurnShape
<1>8. job \in JobShape(sent')
  BY <1>3 DEF ShapeInv, TypeOK, JobShape
<1>9. \A t \in Slots : turn'[t].at = "open" => turn'[t].list # <<>>
  BY <1>1, <1>5, <1>6 DEF ShapeInv
<1> QED BY <1>2, <1>3, <1>6, <1>7, <1>8, <1>9 DEF ShapeInv, TypeOK, scheduler, TurnShape, JobShape

(* Another step of a turn: the list it leaves has known messages only.      *)
LEMMA TurnKeepsShape ==
  ASSUME ShapeInv, NEW s \in Slots,
         \/ BeginRun(s) \/ Rebuild(s) \/ Summarise(s) \/ EndTurn(s) \/ AbandonTurn(s)
  PROVE  ShapeInv'
<1> USE DEF Ids
<1>1. turn \in [Slots -> TurnShape(sent)] /\ sent \in Nat /\ hist \in Seq(0..sent)
  BY DEF ShapeInv, TypeOK, TurnShape
<1>2. turn[s].list \in Seq(0..sent)
  BY <1>1 DEF TurnShape
<1>3. UNCHANGED <<sent, scheduler>>
  BY DEF BeginRun, Rebuild, Summarise, EndTurn, AbandonTurn
<1>4. budget' \in [Disturbances -> Nat]
  <2>1. budget \in [Disturbances -> Nat]
    BY DEF ShapeInv, TypeOK
  <2>2. budget' = budget \/ \E kind \in Disturbances : Spend(kind)
    BY DEF BeginRun, Rebuild, Summarise, EndTurn, AbandonTurn, Disturbances
  <2>3. ASSUME NEW kind \in Disturbances, Spend(kind) PROVE budget' \in [Disturbances -> Nat]
    BY <2>1, <2>3 DEF Spend
  <2> QED BY <2>1, <2>2, <2>3
<1>5. hist' \in Seq(0..sent)
  BY <1>1, <1>2 DEF BeginRun, Rebuild, Summarise, EndTurn, AbandonTurn
<1>6. \E list \in Seq(0..sent) : turn' \in {[turn EXCEPT ![s].at = "run"], [turn EXCEPT ![s].list = list], [turn EXCEPT ![s] = NoTurn]}
  <2>1. CASE BeginRun(s) \/ EndTurn(s) \/ AbandonTurn(s)
    BY <1>2, <2>1 DEF BeginRun, EndTurn, AbandonTurn
  <2>2. CASE Rebuild(s)
    <3>1. PICK left \in {<<>>, <<0>>} : turn' = [turn EXCEPT ![s].list = left]
      BY <2>2 DEF Rebuild
    <3>2. left \in Seq(0..sent)
      <4>1. 0 \in 0..sent
        BY <1>1
      <4>2. <<0>> \in Seq(0..sent) /\ <<>> \in Seq(0..sent)
        BY <4>1, One
      <4> QED BY <4>2
    <3> QED BY <3>1, <3>2
  <2>3. CASE Summarise(s)
    <3> DEFINE list == turn[s].list
    <3>1. PICK keep \in SUBSET DOMAIN list, n \in 0..Len(list) :
             \E f \in InOrder(keep), g \in InOrder((DOMAIN list \ keep) \ 1..(Len(list) - n)) :
                turn' = [turn EXCEPT ![s].list = Picked(list, f) \o <<0>> \o Picked(list, g)]
      BY <2>3 DEF Summarise
    <3> DEFINE rest == (DOMAIN list \ keep) \ 1..(Len(list) - n)
    <3>2. PICK f \in InOrder(keep), g \in InOrder(rest) :
             turn' = [turn EXCEPT ![s].list = Picked(list, f) \o <<0>> \o Picked(list, g)]
      BY <3>1
    <3>3. rest \in SUBSET DOMAIN list
      OBVIOUS
    <3> HIDE DEF list, rest
    <3>4. list \in Seq(0..sent)
      BY <1>2 DEF list
    <3>5. Picked(list, f) \in Seq(0..sent) /\ Picked(list, g) \in Seq(0..sent) /\ <<0>> \in Seq(0..sent)
      <4>1. 0 \in 0..sent
        BY <1>1
      <4>2. <<0>> \in Seq(0..sent)
        BY <4>1, One
      <4>3. Picked(list, f) \in Seq(0..sent)
        BY <3>4, PickedList
      <4>4. Picked(list, g) \in Seq(0..sent)
        BY <3>3, <3>4, PickedList
      <4> QED BY <4>2, <4>3, <4>4
    <3>6. Picked(list, f) \o <<0>> \o Picked(list, g) \in Seq(0..sent)
      BY <3>5
    <3> QED BY <3>2, <3>6
  <2> QED BY <2>1, <2>2, <2>3
<1>8. turn' \in [Slots -> TurnShape(sent)]
  <2>1. NoTurn \in TurnShape(sent)
    BY <1>1 DEF NoTurn, TurnShape
  <2>2. PICK list \in Seq(0..sent) : turn' \in {[turn EXCEPT ![s].at = "run"],
           [turn EXCEPT ![s].list = list], [turn EXCEPT ![s] = NoTurn]}
    BY <1>6
  <2>3. turn[s] \in TurnShape(sent)
    BY <1>1
  <2>4. [turn[s] EXCEPT !.at = "run"] \in TurnShape(sent) /\ [turn[s] EXCEPT !.list = list] \in TurnShape(sent)
    BY <2>3 DEF TurnShape
  <2> QED BY <1>1, <2>1, <2>2, <2>4
<1>9. turn'[s].at # "open"
  <2>1. CASE BeginRun(s) \/ EndTurn(s) \/ AbandonTurn(s)
    BY <1>1, <2>1 DEF TurnShape, BeginRun, EndTurn, AbandonTurn, NoTurn
  <2>2. CASE Rebuild(s) \/ Summarise(s)
    <3>1. turn[s].at = "run"
      BY <2>2 DEF Rebuild, Summarise
    <3>2. PICK list : turn' \in {[turn EXCEPT ![s].at = "run"],
             [turn EXCEPT ![s].list = list], [turn EXCEPT ![s] = NoTurn]}
      BY <1>6
    <3>3. NoTurn.at = "none" /\ [turn[s] EXCEPT !.list = list].at = "run" /\ [turn[s] EXCEPT !.at = "run"].at = "run"
      BY <1>1, <3>1 DEF NoTurn, TurnShape
    <3> QED BY <1>1, <3>2, <3>3
  <2> QED BY <2>1, <2>2
<1>10. \A t \in Slots : turn'[t].at = "open" => turn'[t].list # <<>>
  <2>1. \A t \in Slots \ {s} : turn'[t] = turn[t]
    BY <1>1, <1>6
  <2> QED BY <1>9, <2>1 DEF ShapeInv
<1> QED BY <1>3, <1>4, <1>5, <1>8, <1>10 DEF ShapeInv, TypeOK, scheduler, TurnShape

(* The snapshot a turn submits.                                             *)
LEMMA SubmitKeepsShape == ASSUME ShapeInv, NEW s \in Slots, Submit(s) PROVE ShapeInv'
<1> USE DEF Ids
<1> DEFINE snap == turn[s].list
<1>1. turn \in [Slots -> TurnShape(sent)] /\ sent \in Nat /\ job \in JobShape(sent)
  BY DEF ShapeInv, TypeOK, TurnShape, JobShape
<1>2. snap \in Seq(0..sent) /\ snap # <<>>
  BY <1>1 DEF TurnShape, Submit, ShapeInv
<1>3. /\ turn' = [turn EXCEPT ![s].at = "submitted"]
      /\ latest' = Last(snap) /\ idle' = FALSE
      /\ \/ job' = Gating(snap) /\ pending' = pending
         \/ pending' = snap /\ job' = job
      /\ UNCHANGED <<hist, sent, consumed, extracted, owed, budget>>
  BY DEF Submit
<1> HIDE DEF snap
<1>4. Last(snap) \in 0..sent
  <2>1. Len(snap) \in DOMAIN snap
    BY <1>2
  <2> QED BY <1>2, <2>1, Member DEF Last
<1>5. Gating(snap) \in JobShape(sent)
  BY <1>2 DEF Gating, JobShape
<1>6. job' \in JobShape(sent) /\ pending' \in Seq(0..sent)
  BY <1>1, <1>2, <1>3, <1>5 DEF ShapeInv, TypeOK
<1>7. turn' \in [Slots -> TurnShape(sent)]
  BY <1>1, <1>3 DEF TurnShape
<1>8. \A t \in Slots : turn'[t].at = "open" => turn'[t].list # <<>>
  BY <1>1, <1>3 DEF ShapeInv, TurnShape
<1> QED BY <1>3, <1>4, <1>6, <1>7, <1>8 DEF ShapeInv, TypeOK, TurnShape, JobShape

(* A job goes on or ends.                                                   *)
LEMMA JobKeepsShape == ASSUME ShapeInv, JobStep PROVE ShapeInv'
<1> USE DEF Ids
<1>1. UNCHANGED <<hist, turn, sent, budget, latest>>
  BY DEF JobStep, GateSkips, GateFails, GatePasses, ExtractionDone, ExtractionFails, session
<1>2. job \in JobShape(sent) /\ sent \in Nat /\ pending \in Seq(0..sent) /\ consumed \in Nat
      /\ idle \in BOOLEAN
  BY DEF ShapeInv, TypeOK, JobShape
<1>3. job.snap \in Seq(0..sent) /\ Len(job.snap) \in Nat /\ job.from \in Nat \ {0}
  BY <1>2 DEF JobShape
<1>4. InWindow(job) \subseteq 0..sent
  <2>1. ASSUME NEW i \in job.from..Len(job.snap) PROVE job.snap[i] \in 0..sent
    <3>1. i \in DOMAIN job.snap
      BY <1>3
    <3> QED BY <1>3, <3>1, Member
  <2> QED BY <2>1 DEF InWindow
<1>5. consumed' \in Nat
  BY <1>2, <1>3 DEF JobStep, GateSkips, GateFails, GatePasses, ExtractionDone, ExtractionFails,
                    Consume, Larger
<1>6. extracted' \subseteq 0..sent /\ owed' \subseteq 0..sent
  BY <1>4 DEF JobStep, GateSkips, GateFails, GatePasses, ExtractionDone, ExtractionFails,
              ShapeInv, TypeOK
<1>7. job' \in JobShape(sent) /\ pending' \in Seq(0..sent) /\ idle' \in BOOLEAN
  <2>1. CASE FinishJob
    <3>1. NoJob \in JobShape(sent) /\ Gating(pending) \in JobShape(sent) /\ <<>> \in Seq(0..sent)
      BY <1>2 DEF NoJob, Gating, JobShape
    <3> QED BY <2>1, <3>1 DEF FinishJob
  <2>2. CASE GatePasses
    <3>1. PICK i \in WindowStarts(job.snap, consumed) :
             job' = [job EXCEPT !.stage = "extract", !.from = i]
      BY <2>2 DEF GatePasses
    <3>2. i \in Nat \ {0}
      BY <1>2, <1>3, WindowBehindCount
    <3> QED BY <1>2, <2>2, <3>1, <3>2 DEF GatePasses, JobShape
  <2> QED BY <2>1, <2>2 DEF JobStep, GateSkips, GateFails, ExtractionDone, ExtractionFails
<1> QED BY <1>1, <1>2, <1>5, <1>6, <1>7 DEF ShapeInv, TypeOK, JobShape

(* After a restart.                                                         *)
LEMMA RestartKeepsShape == ASSUME ShapeInv, Restart PROVE ShapeInv'
<1> USE DEF Ids
<1>1. sent \in Nat /\ sent' = sent
  BY DEF ShapeInv, TypeOK, Restart
<1>2. PICK kept \in SUBSET (1..sent) : hist' \in InOrder(kept)
  BY DEF Restart
<1>3. hist' \in Seq(0..sent)
  BY <1>1, <1>2, RestoredList
<1>4. budget' \in [Disturbances -> Nat]
  BY DEF Restart, Spend, ShapeInv, TypeOK, Disturbances
<1>5. <<>> \in Seq(0..sent) /\ 0 \in 0..sent
  BY <1>1
<1> QED BY <1>1, <1>3, <1>4, <1>5 DEF Restart, ShapeInv, TypeOK, NoTurn, NoJob

(* Every step keeps the shapes.                                             *)
LEMMA StepKeepsShape == ShapeInv /\ [Next]_vars => ShapeInv'
<1>1. ShapeInv /\ UNCHANGED vars => ShapeInv'
  BY DEF vars, ShapeInv, TypeOK, Ids
<1>2. ShapeInv /\ Next => ShapeInv'
  BY BeginKeepsShape, TurnKeepsShape, SubmitKeepsShape, JobKeepsShape, RestartKeepsShape DEF Next
<1> QED BY <1>1, <1>2

(* A new process has them.                                                  *)
LEMMA InitShape == Init => ShapeInv
<1> SUFFICES ASSUME Init PROVE ShapeInv
  OBVIOUS
<1>1. sent = 0 /\ <<>> \in Seq(0..sent) /\ 0 \in 0..sent
  BY DEF Init
<1> QED BY <1>1, BoundsAssumption DEF Init, ShapeInv, TypeOK, NoTurn, NoJob, Ids

(* Every variable keeps its shape, and no list, job or count is ahead of    *)
(* the requests that were made, whatever turns, jobs and restarts do.       *)
THEOREM QueueTypeCorrect == Spec => []TypeOK
<1>1. Spec => []ShapeInv
  BY InitShape, StepKeepsShape, PTL DEF Spec
<1>2. ShapeInv => TypeOK
  BY DEF ShapeInv
<1> QED BY <1>1, <1>2, PTL

-----------------------------------------------------------------------------
(* Places *)

(* The lists of the session: its history, those of the turns, the snapshots *)
(* of the job that runs and of the one that waits.                          *)
Lists == {hist, job.snap, pending} \cup {turn[s].list : s \in Slots}

(* A request has one place, the same in every list that has it.             *)
OnePlace ==
    \A L, M \in Lists : \A i \in DOMAIN L, k \in DOMAIN M : L[i] = M[k] /\ L[i] # 0 => i = k

(* The places of extracted requests are among those that were consumed.     *)
Behind ==
    \A L \in Lists : \A i \in DOMAIN L : L[i] \in extracted /\ L[i] # 0 => i <= consumed

(* The window of an extraction has none of those places: nothing is         *)
(* consumed while it runs.                                                  *)
Ahead == job.stage = "extract" => \A i \in job.from..Len(job.snap) : consumed < i

PlaceInv ==
    /\ ShapeInv
    /\ Ahead
    /\ budget["summary"] <= Budget["summary"]
    /\ budget["summary"] = Budget["summary"] => OnePlace /\ Behind

(* If no list has a request at a new place, and no request is extracted,    *)
(* the places are kept.                                                     *)
LEMMA SameListsKeep ==
  ASSUME OnePlace, Behind,
         \A L \in Lists' : \/ L \in Lists
                           \/ \A i \in DOMAIN L : L[i] = 0,
         extracted' = extracted, consumed' >= consumed,
         consumed \in Nat, consumed' \in Nat,
         \A L \in Lists : DOMAIN L \subseteq Nat
  PROVE  OnePlace' /\ Behind'
<1>1. ASSUME NEW L \in Lists', NEW M \in Lists', NEW i \in DOMAIN L, NEW k \in DOMAIN M,
             L[i] = M[k], L[i] # 0
      PROVE  i = k
  <2>1. L \in Lists /\ M \in Lists
    BY <1>1
  <2> QED BY <1>1, <2>1 DEF OnePlace
<1>2. ASSUME NEW L \in Lists', NEW i \in DOMAIN L, L[i] \in extracted', L[i] # 0
      PROVE  i <= consumed'
  <2>1. L \in Lists
    BY <1>2
  <2>2. i <= consumed /\ i \in Nat
    BY <1>2, <2>1 DEF Behind
  <2> QED BY <2>2
<1>3. OnePlace'
  BY <1>1 DEF OnePlace
<1>4. Behind'
  BY <1>2 DEF Behind
<1> QED BY <1>3, <1>4

(* Every list of the session is one of known requests.                      *)
LEMMA ListsKnown ==
  ASSUME ShapeInv
  PROVE  \A L \in Lists : L \in Seq(0..sent) /\ DOMAIN L = 1..Len(L) /\ Len(L) \in Nat
                          /\ \A i \in DOMAIN L : L[i] \in 0..sent
<1> USE DEF Ids
<1>1. \A s \in Slots : turn[s].list \in Seq(0..sent)
  BY DEF ShapeInv, TypeOK
<1>2. job.snap \in Seq(0..sent) /\ pending \in Seq(0..sent) /\ hist \in Seq(0..sent)
  BY DEF ShapeInv, TypeOK
<1>3. \A L \in Lists : L \in Seq(0..sent)
  BY <1>1, <1>2 DEF Lists
<1>4. ASSUME NEW L \in Lists PROVE DOMAIN L = 1..Len(L) /\ Len(L) \in Nat
                          /\ \A i \in DOMAIN L : L[i] \in 0..sent
  <2>1. L \in Seq(0..sent)
    BY <1>3
  <2>2. \A i \in DOMAIN L : L[i] \in 0..sent
    BY <2>1, Member
  <2> QED BY <2>1, <2>2
<1> QED BY <1>3, <1>4

(* A turn begins: its own request is at a place behind the history, and in  *)
(* no other list.                                                           *)
LEMMA BeginKeepsPlaces ==
  ASSUME ShapeInv, OnePlace, Behind, NEW s \in Slots, BeginTurn(s) PROVE OnePlace' /\ Behind'
<1> DEFINE N == Append(hist, sent + 1)
<1>1. hist \in Seq(0..sent) /\ sent \in Nat /\ extracted \subseteq 0..sent /\ hist \in Lists
  BY DEF ShapeInv, TypeOK, Ids, Lists
<1>2. /\ turn' = [turn EXCEPT ![s] = [list |-> N, at |-> "open"]]
      /\ UNCHANGED <<hist, job, pending, extracted, consumed>>
  BY DEF BeginTurn, scheduler
<1>3. DOMAIN N = 1..(Len(hist) + 1) /\ DOMAIN hist = 1..Len(hist) /\ Len(hist) \in Nat
  BY <1>1
<1>4. \A i \in DOMAIN N : \/ i \in DOMAIN hist /\ N[i] = hist[i]
                          \/ i = Len(hist) + 1 /\ N[i] = sent + 1
  BY <1>1, <1>3
<1>5. \A L \in Lists' : L \in Lists \/ L = N
  <2>1. turn \in [Slots -> TurnShape(sent)]
    BY DEF ShapeInv, TypeOK, TurnShape, Ids
  <2>2. \A t \in Slots : turn'[t].list \in {turn[t].list, N}
    BY <1>2, <2>1
  <2> QED BY <1>2, <2>2 DEF Lists
<1>6. \A L \in Lists : \A i \in DOMAIN L : L[i] \in 0..sent
  BY ListsKnown
<1>7. sent + 1 \notin 0..sent
  BY <1>1
<1> HIDE DEF N
<1>8. ASSUME NEW L \in Lists', NEW M \in Lists', NEW i \in DOMAIN L, NEW k \in DOMAIN M,
             L[i] = M[k], L[i] # 0
      PROVE  i = k
  <2>1. CASE L[i] \in 0..sent
    <3>1. \E P \in Lists : i \in DOMAIN P /\ P[i] = L[i]
      BY <1>1, <1>4, <1>5, <1>7, <2>1
    <3>2. \E Q \in Lists : k \in DOMAIN Q /\ Q[k] = M[k]
      BY <1>1, <1>4, <1>5, <1>7, <1>8, <2>1
    <3> QED BY <1>8, <3>1, <3>2 DEF OnePlace
  <2>2. CASE L[i] \notin 0..sent
    <3>1. i = Len(hist) + 1
      BY <1>1, <1>4, <1>5, <1>6, <2>2
    <3>2. k = Len(hist) + 1
      BY <1>1, <1>4, <1>5, <1>6, <1>8, <2>2
    <3> QED BY <3>1, <3>2
  <2> QED BY <2>1, <2>2
<1>9. ASSUME NEW L \in Lists', NEW i \in DOMAIN L, L[i] \in extracted', L[i] # 0
      PROVE  i <= consumed'
  <2>1. L[i] \in 0..sent /\ L[i] \in extracted
    BY <1>1, <1>2, <1>9
  <2>2. \E P \in Lists : i \in DOMAIN P /\ P[i] = L[i]
    BY <1>1, <1>4, <1>5, <1>7, <2>1
  <2> QED BY <1>2, <1>9, <2>1, <2>2 DEF Behind
<1> QED BY <1>8, <1>9 DEF OnePlace, Behind

(* The requests of an extraction have, wherever they are, the places they   *)
(* have in its snapshot, all of which are consumed with it.                 *)
LEMMA DoneKeepsPlaces ==
  ASSUME ShapeInv, OnePlace, Behind, ExtractionDone PROVE OnePlace' /\ Behind'
<1>1. job.snap \in Lists /\ pending \in Lists
  BY DEF Lists
<1>2. \A L \in Lists : DOMAIN L = 1..Len(L) /\ Len(L) \in Nat
  BY ListsKnown
<1>3. \A L \in Lists' : L \in Lists \/ L = <<>>
  <2>1. job'.snap \in {<<>>, pending} /\ pending' = <<>> /\ hist' = hist /\ turn' = turn
    BY DEF ExtractionDone, FinishJob, NoJob, Gating, session
  <2> QED BY <1>1, <2>1 DEF Lists
<1>4. consumed \in Nat /\ consumed' = Larger(consumed, Len(job.snap)) /\ Len(job.snap) \in Nat
  BY <1>1, <1>2 DEF ExtractionDone, Consume, ShapeInv, TypeOK
<1>5. consumed' \in Nat /\ consumed <= consumed' /\ Len(job.snap) <= consumed'
  BY <1>4 DEF Larger
<1>6. ASSUME NEW m \in InWindow(job) PROVE \E i \in DOMAIN job.snap : job.snap[i] = m
  <2>1. PICK i \in job.from..Len(job.snap) : m = job.snap[i]
    BY <1>6 DEF InWindow
  <2>2. job.from \in Nat \ {0}
    BY DEF ShapeInv, TypeOK
  <2>3. i \in 1..Len(job.snap)
    BY <1>4, <2>2
  <2> QED BY <1>1, <1>2, <2>1, <2>3
<1>7. ASSUME NEW L \in Lists', NEW i \in DOMAIN L, L[i] \in extracted', L[i] # 0
      PROVE  i <= consumed'
  <2>1. L \in Lists
    BY <1>3, <1>7
  <2>2. i \in 1..Len(L) /\ Len(L) \in Nat
    BY <1>2, <2>1
  <2>3. CASE L[i] \in extracted
    <3>1. i <= consumed
      BY <1>7, <2>1, <2>3 DEF Behind
    <3> QED BY <1>4, <1>5, <2>2, <3>1
  <2>4. CASE L[i] \in InWindow(job)
    <3>1. PICK k \in DOMAIN job.snap : job.snap[k] = L[i]
      BY <1>6, <2>4
    <3>2. i = k
      BY <1>1, <1>7, <2>1, <3>1 DEF OnePlace
    <3>3. k <= Len(job.snap)
      BY <1>1, <1>2
    <3> QED BY <1>4, <1>5, <2>2, <3>2, <3>3
  <2> QED BY <1>7, <2>3, <2>4 DEF ExtractionDone
<1>8. OnePlace'
  BY <1>3 DEF OnePlace
<1> QED BY <1>7, <1>8 DEF Behind

(* After a restart only the history has requests, and each of them once.    *)
LEMMA RestartKeepsPlaces == ASSUME ShapeInv, Restart PROVE OnePlace' /\ Behind'
<1>1. sent \in Nat
  BY DEF ShapeInv, TypeOK
<1>2. PICK kept \in SUBSET (1..sent) : hist' \in InOrder(kept)
  BY DEF Restart
<1>3. \A i, k \in DOMAIN hist' : hist'[i] = hist'[k] => i = k
  BY <1>1, <1>2, RestoredList
<1>4. \A L \in Lists' : L = hist' \/ L = <<>>
  BY DEF Restart, Lists, NoJob, NoTurn
<1>5. extracted' = {}
  BY DEF Restart
<1>6. Behind'
  BY <1>5 DEF Behind
<1>7. OnePlace'
  BY <1>3, <1>4 DEF OnePlace
<1> QED BY <1>6, <1>7

(* Only a summary makes the budget of summaries smaller, and nothing makes  *)
(* it larger.                                                               *)
LEMMA SummaryBudget ==
  ASSUME ShapeInv, [Next]_vars
  PROVE  /\ budget["summary"] \in Nat /\ budget'["summary"] \in Nat
         /\ budget'["summary"] <= budget["summary"]
         /\ budget'["summary"] = budget["summary"] => \A s \in Slots : ~Summarise(s)
<1>1. budget \in [Disturbances -> Nat]
  BY DEF ShapeInv, TypeOK
<1>2. ASSUME NEW kind \in Disturbances, Spend(kind)
      PROVE  /\ budget' \in [Disturbances -> Nat]
             /\ budget'["summary"] = budget["summary"] - IF kind = "summary" THEN 1 ELSE 0
  BY <1>1, <1>2 DEF Spend, Disturbances
<1>3. {"abandon", "rebuild", "summary", "restart"} \subseteq Disturbances /\ "summary" \in Disturbances
  BY DEF Disturbances
<1>4. CASE \E s \in Slots : Summarise(s)
  <2>1. Spend("summary")
    BY <1>4 DEF Summarise
  <2> QED BY <1>1, <1>2, <1>3, <2>1
<1>5. CASE ~\E s \in Slots : Summarise(s)
  <2>1. UNCHANGED budget \/ \E kind \in Disturbances : Spend(kind) /\ kind # "summary"
    BY <1>3, <1>5 DEF Next, JobStep, BeginTurn, Submit, BeginRun, Rebuild, EndTurn, AbandonTurn,
        GateSkips, GateFails, GatePasses, ExtractionDone, ExtractionFails, Restart, vars, session
  <2> QED BY <1>1, <1>2, <1>3, <1>5, <2>1
<1> QED BY <1>4, <1>5

(* Without a summary every step keeps the places.                           *)
LEMMA StepKeepsPlaces ==
  ASSUME ShapeInv, OnePlace, Behind, [Next]_vars, \A s \in Slots : ~Summarise(s)
  PROVE  OnePlace' /\ Behind'
<1>1. \A L \in Lists : DOMAIN L \subseteq Nat
  BY ListsKnown
<1>2. turn \in [Slots -> TurnShape(sent)] /\ consumed \in Nat
  BY DEF ShapeInv, TypeOK, TurnShape, Ids
<1>3. hist \in Lists /\ job.snap \in Lists /\ pending \in Lists /\ \A s \in Slots : turn[s].list \in Lists
  BY DEF Lists
<1>4. CASE UNCHANGED vars
  <2>1. Lists' = Lists
    BY <1>4 DEF vars, Lists
  <2> QED BY <1>4, <2>1 DEF OnePlace, Behind, vars
<1>5. ASSUME NEW s \in Slots, BeginTurn(s) PROVE OnePlace' /\ Behind'
  BY <1>5, BeginKeepsPlaces
<1>6. ASSUME NEW s \in Slots, Submit(s) \/ BeginRun(s) \/ EndTurn(s) \/ AbandonTurn(s)
      PROVE  OnePlace' /\ Behind'
  <2>1. UNCHANGED <<extracted, consumed>>
    BY <1>6 DEF Submit, BeginRun, EndTurn, AbandonTurn, scheduler
  <2>2. \A t \in Slots : turn'[t].list \in {turn[t].list, <<>>}
    BY <1>2, <1>6 DEF Submit, BeginRun, EndTurn, AbandonTurn, NoTurn, TurnShape
  <2>3. {hist', job'.snap, pending'} \subseteq Lists
    BY <1>3, <1>6 DEF Submit, BeginRun, EndTurn, AbandonTurn, scheduler, Gating
  <2>4. \A L \in Lists' : L \in Lists \/ L = <<>>
    BY <1>3, <2>2, <2>3 DEF Lists
  <2> QED BY <1>1, <1>2, <2>1, <2>4, SameListsKeep
<1>7. ASSUME NEW s \in Slots, Rebuild(s) PROVE OnePlace' /\ Behind'
  <2>1. PICK left \in {<<>>, <<0>>} : turn' = [turn EXCEPT ![s].list = left]
    BY <1>7 DEF Rebuild
  <2>2. UNCHANGED <<hist, job, pending, extracted, consumed>>
    BY <1>7 DEF Rebuild, scheduler
  <2>3. \A t \in Slots : turn'[t].list \in {turn[t].list, left}
    BY <1>2, <2>1 DEF TurnShape
  <2>4. \A L \in Lists' : L \in Lists \/ L = left
    BY <1>3, <2>2, <2>3 DEF Lists
  <2>5. \A i \in DOMAIN left : left[i] = 0
    BY <2>1
  <2> QED BY <1>1, <1>2, <2>2, <2>4, <2>5, SameListsKeep
<1>8. CASE GateSkips \/ GateFails \/ GatePasses \/ ExtractionFails
  <2>1. extracted' = extracted /\ hist' = hist /\ turn' = turn
    BY <1>8 DEF GateSkips, GateFails, GatePasses, ExtractionFails, session
  <2>2. consumed' \in Nat /\ consumed' >= consumed
    <3>1. Len(job.snap) \in Nat
      BY <1>3, ListsKnown
    <3>2. consumed' = consumed \/ consumed' = Larger(consumed, Len(job.snap))
      BY <1>8 DEF GateSkips, GateFails, GatePasses, ExtractionFails, Consume
    <3> QED BY <1>2, <3>1, <3>2 DEF Larger
  <2>3. job'.snap \in {<<>>, pending, job.snap} /\ pending' \in {<<>>, pending}
    <3>1. CASE GatePasses
      <4>1. PICK i : job' = [job EXCEPT !.stage = "extract", !.from = i]
        BY <3>1 DEF GatePasses
      <4>2. job'.snap = job.snap
        BY <4>1 DEF ShapeInv, TypeOK
      <4> QED BY <3>1, <4>2 DEF GatePasses
    <3>2. CASE FinishJob
      BY <3>2 DEF FinishJob, NoJob, Gating
    <3> QED BY <1>8, <3>1, <3>2 DEF GateSkips, GateFails, ExtractionFails
  <2>4. \A L \in Lists' : L \in Lists \/ L = <<>>
    BY <1>3, <2>1, <2>3 DEF Lists
  <2> QED BY <1>1, <1>2, <2>1, <2>2, <2>4, SameListsKeep
<1>9. CASE ExtractionDone
  BY <1>9, DoneKeepsPlaces
<1>10. CASE Restart
  BY <1>10, RestartKeepsPlaces
<1> QED BY <1>4, <1>5, <1>6, <1>7, <1>8, <1>9, <1>10 DEF Next, JobStep

(* The window of a new extraction is cut behind the count; during one the   *)
(* count stays, for no other job runs.                                      *)
LEMMA StepKeepsAhead == ASSUME ShapeInv, Ahead, [Next]_vars PROVE Ahead'
<1>1. CASE GatePasses
  <2>1. PICK i \in WindowStarts(job.snap, consumed) :
           job' = [job EXCEPT !.stage = "extract", !.from = i]
    BY <1>1 DEF GatePasses
  <2>2. job'.from = i /\ job'.snap = job.snap /\ consumed' = consumed
    BY <1>1, <2>1 DEF GatePasses, ShapeInv, TypeOK
  <2>3. job.snap \in Seq(Ids) /\ consumed \in Nat
    BY DEF ShapeInv, TypeOK
  <2> QED BY <2>1, <2>2, <2>3, WindowBehindCount DEF Ahead
<1>2. CASE FinishJob
  BY <1>2 DEF FinishJob, NoJob, Gating, Ahead
<1>3. CASE Restart
  BY <1>3 DEF Restart, NoJob, Ahead
<1>4. CASE UNCHANGED <<job, consumed>>
  BY <1>4 DEF Ahead
<1>5. ASSUME NEW s \in Slots, Submit(s) PROVE Ahead'
  <2>1. job' = job \/ job'.stage = "gate"
    BY <1>5, GatingRuns DEF Submit
  <2> QED BY <1>5, <2>1 DEF Ahead, Submit
<1> QED BY <1>1, <1>2, <1>3, <1>4, <1>5
     DEF Next, JobStep, BeginTurn, BeginRun, Rebuild, Summarise, EndTurn, AbandonTurn,
         GateSkips, GateFails, ExtractionDone, ExtractionFails, scheduler, vars

(* PlaceInv is inductive: it holds at first, every step keeps it.           *)
THEOREM QueueInvariance == Spec => []PlaceInv
<1>1. Init => PlaceInv
  <2> SUFFICES ASSUME Init PROVE PlaceInv
    OBVIOUS
  <2>1. ShapeInv
    BY InitShape
  <2>2. \A L \in Lists : L = <<>>
    BY DEF Init, Lists, NoJob, NoTurn
  <2>3. OnePlace /\ Behind
    BY <2>2 DEF OnePlace, Behind
  <2>4. budget["summary"] <= Budget["summary"]
    BY BoundsAssumption DEF Init, Disturbances
  <2>5. Ahead
    BY DEF Init, NoJob, Ahead
  <2> QED BY <2>1, <2>3, <2>4, <2>5 DEF PlaceInv
<1>2. PlaceInv /\ [Next]_vars => PlaceInv'
  <2> SUFFICES ASSUME PlaceInv, [Next]_vars PROVE PlaceInv'
    OBVIOUS
  <2>1. ShapeInv' /\ Ahead'
    BY StepKeepsShape, StepKeepsAhead DEF PlaceInv
  <2>2. Budget["summary"] \in Nat
    BY BoundsAssumption DEF Disturbances
  <2>3. /\ budget["summary"] \in Nat /\ budget'["summary"] \in Nat
        /\ budget'["summary"] <= budget["summary"]
        /\ budget'["summary"] = budget["summary"] => \A s \in Slots : ~Summarise(s)
    BY SummaryBudget DEF PlaceInv
  <2>4. budget'["summary"] <= Budget["summary"]
    BY <2>2, <2>3 DEF PlaceInv
  <2>5. ASSUME budget'["summary"] = Budget["summary"] PROVE OnePlace' /\ Behind'
    <3>1. budget["summary"] = Budget["summary"] /\ budget'["summary"] = budget["summary"]
      BY <2>2, <2>3, <2>5 DEF PlaceInv
    <3> QED BY <2>3, <3>1, StepKeepsPlaces DEF PlaceInv
  <2> QED BY <2>1, <2>4, <2>5 DEF PlaceInv
<1> QED BY <1>1, <1>2, PTL DEF Spec

(* As long as nothing is summarised no request is extracted twice: whatever *)
(* turns, rebuilds, clients that leave and restarts do to the lists, a      *)
(* request the job remembers as consumed is behind every window             *)
(* (build_extraction_user_window and last_consumed_user_count).             *)
THEOREM ExtractedOnce == Spec => []NoDoubleExtraction
<1>1. PlaceInv => NoDoubleExtraction
  <2> SUFFICES ASSUME PlaceInv, job.stage = "extract", budget["summary"] = Budget["summary"],
                      NEW m \in InWindow(job) \cap extracted
               PROVE  m = 0
    BY DEF NoDoubleExtraction
  <2>1. PICK i \in job.from..Len(job.snap) : m = job.snap[i]
    BY DEF InWindow
  <2>2. consumed < i
    BY DEF PlaceInv, Ahead
  <2>3. job.from \in Nat \ {0} /\ consumed \in Nat
    BY DEF PlaceInv, ShapeInv, TypeOK
  <2>4. job.snap \in Lists
    BY DEF Lists
  <2>5. DOMAIN job.snap = 1..Len(job.snap) /\ Len(job.snap) \in Nat
    BY <2>4, ListsKnown DEF PlaceInv
  <2>6. i \in DOMAIN job.snap /\ i \in Nat
    BY <2>3, <2>5
  <2>7. m # 0 => i <= consumed
    BY <2>1, <2>4, <2>6 DEF PlaceInv, Behind
  <2> QED BY <2>2, <2>3, <2>6, <2>7
<1> QED BY <1>1, QueueInvariance, PTL

-----------------------------------------------------------------------------
(***************************************************************************)
(* Recall and archive, for any messages, records, plans, runs and bounds.  *)
(*                                                                         *)
(* A finished turn is judged by what it read some steps before, and an     *)
(* archive call by what calls before it stored.  RecallInv says what of    *)
(* that is still true: whatever row the index holds was made of the text   *)
(* and model it names (RowsHold), a slice of a call's plan is stored or    *)
(* still to do (ArchiveHolds), the decision is of this message (Decided),  *)
(* and what was loaded for the plan is of one source, of the place asked   *)
(* for and in one order (Searches).                                        *)
(***************************************************************************)

\* the steps of a turn and those of the archive
TurnStep ==
  Ask \/ Gate \/ GateUnanswered \/ Query \/ LoadProfile \/ LoadSlices \/ FetchRows
  \/ Rank \/ RankWithoutVectors \/ Inject
ArchiveStep ==
  \E r \in Runs : EndRun(r) \/ ListEpisodes(r) \/ AppendEpisode(r) \/ AppendSlice(r) \/ ArchiveFails(r)

\* the turn's record; only a finished turn has a context and vectors it used
Fields    == {"pc", "msg", "decision", "why", "plan", "dual", "profile", "slices", "rows", "used",
              "context"}
Stages    == {"idle", "gate", "query", "load", "slices", "fetch", "ranking", "done"}
Searching == {"slices", "fetch", "ranking"}
Shape ==
  /\ DOMAIN recall = Fields /\ recall.pc \in Stages
  /\ recall.pc # "done" => recall.context = {} /\ recall.used = {}

\* a row's vector is the one its model makes of its text
MadeOf(row) == row.vector = <<row.text, row.model>>
RowsHold ==
  /\ \A k \in DOMAIN sidecar : MadeOf(sidecar[k])
  /\ \A w \in warms : DOMAIN w = {"key", "row", "writer"} /\ MadeOf(w.row)
  /\ recall.pc = "ranking" => \A k \in DOMAIN recall.rows : MadeOf(recall.rows[k])

\* the ids a trip's slices have, and what a stored slice is
SliceIds ==
  [kind : {"budget_signal", "itinerary_pattern", "pitfall", "rejected_option", "stay_choice",
           "transport_choice"}, nr : {1, 2}]
IsSlice(c) ==
  /\ c.source = "episode_slice" /\ c.id \in SliceIds /\ c.age = SlicePlace(c.id)
  /\ IsFiniteSet(c.domains) /\ IsFiniteSet(c.terms)
StoredIds == {slices[j].id : j \in DOMAIN slices}

\* an archive call, where the files hold these episodes and slice ids: what it lists or builds
\* is of a plan of the trip, and a slice of that plan is stored or still to do
CallSound(call, rows, ids) ==
  /\ call.pc # "idle" => call.version \in 1..Len(PlanVersions)
  /\ call.pc \in {"list", "episode", "slices"} => call.todo # <<>>
  /\ call.pc \in {"slices", "done"} => rows # <<>>
  /\ call.pc # "idle" =>
       LET keys == SliceKeys(PlanVersions[call.version])
       IN  \A k \in DOMAIN keys :
              keys[k] \in ids \/ (call.pc # "done" /\ \E j \in DOMAIN call.todo : call.todo[j] = keys[k])
ArchiveShape ==
  /\ plan \in 1..Len(PlanVersions)
  /\ archive \in [Runs -> [pc : {"idle", "list", "episode", "slices", "done"}, version : Nat,
                           todo : Seq(SliceIds)]]
  /\ slices \in Seq(SliceRecords) /\ episodes \in Seq([version : Nat])
ArchiveHolds ==
  /\ ArchiveShape
  /\ \A r \in Runs : CallSound(archive[r], episodes, StoredIds)
  /\ Len(episodes) <= 1
  /\ \A k \in DOMAIN slices : IsSlice(slices[k])
  /\ \A j, k \in DOMAIN slices : slices[j].id = slices[k].id => j = k

\* every profile item is at one of its texts, or has none yet
ProfileHolds ==
  profile \in [DOMAIN Items -> Nat] /\ \A i \in DOMAIN Items : profile[i] <= Len(Items[i])

\* records of one source as a turn loads them: no two at the same place in the order
Loaded(S, source) ==
  /\ IsFiniteSet(S)
  /\ \A c \in S : c.source = source /\ c.age \in 0..99 /\ IsFiniteSet(c.domains) /\ IsFiniteSet(c.terms)
  /\ \A c, d \in S : c.age = d.age => c = d

\* plans and queries that name buckets whenever they search the profile
GoodPlan(p) ==
  /\ IsFiniteSet(p.domains) /\ IsFiniteSet(p.terms)
  /\ p.source \in {"profile", "hybrid_history"} => p.buckets # {} /\ p.buckets \subseteq Buckets
GoodDual(q) ==
  /\ IsFiniteSet(q.domains) /\ IsFiniteSet(q.terms)
  /\ q.profile => q.buckets # {} /\ q.buckets \subseteq Buckets

\* a decision is the one of this turn's message: after a skip nothing is searched, and words
\* that decided to recall are words a plan can be read off
Decided ==
  /\ recall.pc # "idle" => recall.msg \in Messages /\ recall.decision = ShortCircuit(recall.msg)
  /\ recall.decision = "skip_recall" =>
       recall.pc \notin {"gate", "query"} \cup Searching /\ (recall.pc = "load" => recall.why = "no")
  /\ recall.pc \in {"gate", "query"} => recall.plan = NoReply /\ recall.why # "heuristic"
  /\ recall.pc = "load" => recall.plan = NoReply \/ GoodPlan(recall.plan)
  /\ recall.pc = "load" /\ recall.why = "heuristic" =>
       recall.plan = NoReply /\ HeuristicPlan(recall.msg, recall.decision).fallback = "none"

\* what a search works on
Searches ==
  /\ recall.pc \in Searching => GoodDual(recall.dual) /\ Loaded(recall.profile, "profile")
  /\ recall.pc \in {"fetch", "ranking"} =>
       /\ Loaded(recall.slices, "episode_slice")
       /\ recall.dual.dest # "" => \A c \in recall.slices : SamePlace(recall.dual.dest, c.dest)

RecallInv ==
  /\ Shape /\ RowsHold /\ FreshVectors /\ ArchiveHolds /\ ProfileHolds
  /\ Decided /\ Searches /\ FallbackSearches /\ OnlyWhatWasAsked

-----------------------------------------------------------------------------
(* Vectors. *)

(* The record of a turn before it began. *)
LEMMA QuietShape ==
  /\ DOMAIN Quiet = Fields
  /\ Quiet.pc = "idle" /\ Quiet.why = "" /\ Quiet.decision = "" /\ Quiet.plan = NoReply
  /\ Quiet.used = {} /\ Quiet.context = {}
BY DEF Quiet, Fields

(* Steps keep the turn's record in shape: a context appears when the turn is done. *)
LEMMA Shaped ==
  ASSUME Shape, [RecallNext]_recallVars
  PROVE  Shape'
<1> USE DEF Shape, Fields, Stages
<1>1. CASE Ask
  BY <1>1, QuietShape DEF Ask
<1>2. CASE Gate \/ GateUnanswered
  BY <1>2 DEF Gate, GateUnanswered, GateFallback
<1>3. CASE Query
  BY <1>3 DEF Query
<1>4. CASE LoadProfile \/ LoadSlices \/ FetchRows
  BY <1>4 DEF LoadProfile, LoadSlices, FetchRows
<1>5. CASE Rank \/ RankWithoutVectors
  BY <1>5 DEF Rank, RankWithoutVectors, Finished
<1>6. CASE Inject \/ ComeBack
  BY <1>6, QuietShape DEF Inject, ComeBack
<1>7. CASE Extract \/ ExtractTimesOut \/ WarmLands \/ Replan \/ ArchiveStep \/ UNCHANGED recallVars
  BY <1>7 DEF Extract, ExtractTimesOut, WarmLands, Replan, ArchiveStep, EndRun, ListEpisodes,
     AppendEpisode, AppendSlice, ArchiveFails, recallVars
<1> QED BY <1>1, <1>2, <1>3, <1>4, <1>5, <1>6, <1>7 DEF RecallNext, ArchiveStep

(* What is warmed is warmed for this text with this model. *)
LEMMA WarmedRows ==
  ASSUME NEW c, NEW writer, RowsHold, Warm(c, writer)
  PROVE  \A w \in warms' : DOMAIN w = {"key", "row", "writer"} /\ MadeOf(w.row)
BY DEF RowsHold, Warm, MadeOf, RowFor

(* Rows stay the vectors of their own text and model, in the index, in the threads and in
   what a turn has fetched. *)
LEMMA RowsStep ==
  ASSUME Shape, RowsHold, [RecallNext]_recallVars
  PROVE  RowsHold'
<1> USE DEF RowsHold, Shape, Fields
<1>1. CASE Ask \/ Gate \/ GateUnanswered \/ Query \/ LoadProfile \/ LoadSlices \/ Inject
  <2>1. sidecar' = sidecar /\ warms' = warms
    BY <1>1 DEF Ask, Gate, GateUnanswered, Query, LoadProfile, LoadSlices, Inject
  <2>2. recall'.pc # "ranking"
    BY <1>1, QuietShape DEF Ask, Gate, GateUnanswered, GateFallback, Query, LoadProfile, LoadSlices, Inject
  <2> QED BY <2>1, <2>2
<1>2. CASE FetchRows
  <2>1. \A k \in DOMAIN recall'.rows : k \in DOMAIN sidecar /\ recall'.rows[k] = sidecar[k]
    BY <1>2 DEF FetchRows
  <2>2. sidecar' = sidecar /\ warms' = warms
    BY <1>2 DEF FetchRows
  <2> QED BY <2>1, <2>2
<1>3. CASE Rank
  <2>1. warms' = warms /\ recall'.pc = "done"
    BY <1>3 DEF Rank, Finished
  <2>2. ASSUME NEW k \in DOMAIN sidecar' PROVE MadeOf(sidecar'[k])
    <3>1. CASE sidecar' = sidecar
      BY <3>1
    <3>2. CASE sidecar' # sidecar
      <4>1. sidecar'[k] = IF \E c \in {x \in Wanted : ~Hit(x)} : KeyOf(c) = k
                          THEN RowFor(CHOOSE c \in {x \in Wanted : ~Hit(x)} : KeyOf(c) = k) ELSE sidecar[k]
        BY <1>3, <3>2 DEF Rank
      <4>2. \A c : MadeOf(RowFor(c))
        BY DEF MadeOf, RowFor
      <4>3. CASE \E c \in {x \in Wanted : ~Hit(x)} : KeyOf(c) = k
        BY <4>1, <4>2, <4>3
      <4>4. CASE ~ \E c \in {x \in Wanted : ~Hit(x)} : KeyOf(c) = k
        <5>1. k \in DOMAIN sidecar
          BY <1>3, <2>2, <3>2, <4>4 DEF Rank
        <5> QED BY <4>1, <4>4, <5>1
      <4> QED BY <4>3, <4>4
    <3> QED BY <3>1, <3>2
  <2> QED BY <2>1, <2>2
<1>4. CASE RankWithoutVectors
  BY <1>4 DEF RankWithoutVectors, Finished
<1>5. CASE Extract
  <2>1. sidecar' = sidecar /\ recall' = recall
    BY <1>5 DEF Extract
  <2>2. \A w \in warms' : DOMAIN w = {"key", "row", "writer"} /\ MadeOf(w.row)
    <3>1. PICK i \in DOMAIN Items : Warm(Items[i][profile[i] + 1], "extraction")
      BY <1>5 DEF Extract
    <3> QED BY <3>1, WarmedRows
  <2> QED BY <2>1, <2>2
<1>6. CASE ExtractTimesOut
  BY <1>6 DEF ExtractTimesOut
<1>7. CASE WarmLands
  <2>1. PICK w \in warms : /\ warms' = warms \ {w}
                           /\ sidecar' = Put(sidecar, w.key, w.row) \/ sidecar' = sidecar
    BY <1>7 DEF WarmLands
  <2>2. recall' = recall
    BY <1>7 DEF WarmLands
  <2>3. \A k \in DOMAIN sidecar' : MadeOf(sidecar'[k])
    BY <2>1 DEF Put
  <2> QED BY <2>1, <2>2, <2>3
<1>8. CASE ComeBack
  BY <1>8, QuietShape DEF ComeBack
<1>9. CASE Replan \/ UNCHANGED recallVars
  BY <1>9 DEF Replan, recallVars
<1>10. ASSUME NEW r \in Runs, EndRun(r) \/ ListEpisodes(r) \/ AppendEpisode(r) PROVE RowsHold'
  BY <1>10 DEF EndRun, ListEpisodes, AppendEpisode
<1>11. ASSUME NEW r \in Runs, AppendSlice(r) PROVE RowsHold'
  <2>1. sidecar' = sidecar /\ recall' = recall
    BY <1>11 DEF AppendSlice
  <2>2. \A w \in warms' : DOMAIN w = {"key", "row", "writer"} /\ MadeOf(w.row)
    BY <1>11, WarmedRows DEF AppendSlice
  <2> QED BY <2>1, <2>2
<1>12. ASSUME NEW r \in Runs, ArchiveFails(r) PROVE RowsHold'
  BY <1>12 DEF ArchiveFails
<1> QED BY <1>1, <1>2, <1>3, <1>4, <1>5, <1>6, <1>7, <1>8, <1>9, <1>10, <1>11, <1>12 DEF RecallNext

(* Whether a row serves or a vector is computed anew: it is the record's own. *)
LEMMA OwnVectors ==
  ASSUME NEW c, \A k \in DOMAIN recall.rows : MadeOf(recall.rows[k])
  PROVE  VectorOf(c) = <<c.text, model>>
BY DEF VectorOf, Hit, ValidRow, MadeOf, RowFor

(* A turn that ends has used no other. *)
LEMMA VectorsStep ==
  ASSUME Shape, RowsHold, FreshVectors, [RecallNext]_recallVars
  PROVE  FreshVectors'
<1> USE DEF FreshVectors, Shape, Fields
<1>1. CASE Rank
  <2>1. PICK near : recall' = Finished(near, TRUE)
    BY <1>1 DEF Rank
  <2>2. model' = model /\ recall'.used = {<<c, VectorOf(c)>> : c \in Wanted}
    BY <1>1, <2>1 DEF Rank, Finished
  <2>3. \A c : VectorOf(c) = <<c.text, model>>
    BY <1>1, OwnVectors DEF Rank, RowsHold
  <2> QED BY <2>2, <2>3
<1>2. CASE RankWithoutVectors
  BY <1>2 DEF RankWithoutVectors, Finished
<1>3. CASE LoadProfile
  <2>1. recall'.used = recall.used /\ recall.pc = "load"
    BY <1>3 DEF LoadProfile
  <2> QED BY <2>1
<1>4. CASE Ask \/ Gate \/ GateUnanswered \/ Query \/ LoadSlices \/ FetchRows \/ Inject \/ ComeBack
  <2>1. recall'.pc # "done"
    BY <1>4, QuietShape DEF Ask, Gate, GateUnanswered, GateFallback, Query, LoadSlices, FetchRows,
       Inject, ComeBack
  <2> QED BY <2>1
<1>5. CASE Extract \/ ExtractTimesOut \/ WarmLands \/ Replan \/ ArchiveStep \/ UNCHANGED recallVars
  <2>1. recall' = recall /\ model' = model
    BY <1>5 DEF Extract, ExtractTimesOut, WarmLands, Replan, ArchiveStep, EndRun, ListEpisodes,
       AppendEpisode, AppendSlice, ArchiveFails, recallVars
  <2> QED BY <2>1
<1> QED BY <1>1, <1>2, <1>3, <1>4, <1>5 DEF RecallNext, ArchiveStep

-----------------------------------------------------------------------------
(* The archive. *)

(* The slices a plan has: at least one, each with a kind and a number up to two. *)
LEMMA SliceKeysAre ==
  ASSUME NEW v \in 1..Len(PlanVersions)
  PROVE  SliceKeys(PlanVersions[v]) \in Seq(SliceIds) /\ SliceKeys(PlanVersions[v]) # <<>>
<1> DEFINE p == PlanVersions[v]
           AtMostTwo(kind, n) == [k \in 1..Min({n, 2}) |-> [kind |-> kind, nr |-> k]]
           AtMostOne(kind, when) == IF when THEN <<[kind |-> kind, nr |-> 1]>> ELSE <<>>
<1>1. Len(p.rejected) \in Nat /\ Len(p.lessons) \in Nat
  BY RecallAssumption
<1>2. ASSUME NEW kind \in {"rejected_option", "pitfall"}, NEW n \in Nat PROVE AtMostTwo(kind, n) \in Seq(SliceIds)
  <2>1. Min({n, 2}) \in {0, 1, 2}
    <3>1. \E x \in {n, 2} : \A y \in {n, 2} : x <= y
      OBVIOUS
    <3>2. Min({n, 2}) \in {n, 2} /\ \A y \in {n, 2} : Min({n, 2}) <= y
      BY <3>1 DEF Min
    <3> QED BY <3>2
  <2>2. ASSUME NEW m \in {0, 1, 2} PROVE [k \in 1..m |-> [kind |-> kind, nr |-> k]] \in Seq(SliceIds)
    <3> DEFINE s == [k \in 1..m |-> [kind |-> kind, nr |-> k]]
    <3>1. \A k \in 1..m : [kind |-> kind, nr |-> k] \in SliceIds
      BY DEF SliceIds
    <3>2. m \in Nat /\ s \in [1..m -> SliceIds]
      BY <3>1
    <3> HIDE DEF s
    <3>3. s \in Seq(SliceIds)
      BY <3>2
    <3> QED BY <3>3 DEF s
  <2> QED BY <2>1, <2>2
<1>3. ASSUME NEW kind \in {"itinerary_pattern", "stay_choice", "transport_choice", "budget_signal"}, NEW when
      PROVE  AtMostOne(kind, when) \in Seq(SliceIds)
  <2>1. [kind |-> kind, nr |-> 1] \in SliceIds
    BY DEF SliceIds
  <2> QED BY <2>1
<1>4. /\ AtMostOne("itinerary_pattern", TRUE) \in Seq(SliceIds) /\ AtMostOne("stay_choice", p.stay # "") \in Seq(SliceIds)
      /\ AtMostOne("transport_choice", p.transport # "") \in Seq(SliceIds) /\ AtMostOne("budget_signal", TRUE) \in Seq(SliceIds)
  BY <1>3
<1>5. AtMostTwo("rejected_option", Len(p.rejected)) \in Seq(SliceIds) /\ AtMostTwo("pitfall", Len(p.lessons)) \in Seq(SliceIds)
  BY <1>1, <1>2
<1>6. Len(AtMostOne("itinerary_pattern", TRUE)) > 0
  OBVIOUS
<1>7. SliceKeys(p) = AtMostOne("itinerary_pattern", TRUE) \o AtMostOne("stay_choice", p.stay # "")
          \o AtMostOne("transport_choice", p.transport # "") \o AtMostOne("budget_signal", TRUE)
          \o AtMostTwo("rejected_option", Len(p.rejected)) \o AtMostTwo("pitfall", Len(p.lessons))
  BY Zenon DEF SliceKeys
<1>8. ASSUME NEW a \in Seq(SliceIds), NEW b \in Seq(SliceIds), Len(a) > 0
      PROVE  a \o b \in Seq(SliceIds) /\ Len(a \o b) > 0
  BY <1>8
<1> HIDE DEF AtMostTwo, AtMostOne
<1> DEFINE s1 == AtMostOne("itinerary_pattern", TRUE) \o AtMostOne("stay_choice", p.stay # "")
           s2 == s1 \o AtMostOne("transport_choice", p.transport # "")
           s3 == s2 \o AtMostOne("budget_signal", TRUE)
           s4 == s3 \o AtMostTwo("rejected_option", Len(p.rejected))
           s5 == s4 \o AtMostTwo("pitfall", Len(p.lessons))
<1>9. s1 \in Seq(SliceIds) /\ Len(s1) > 0
  BY <1>4, <1>6, <1>8
<1>10. s2 \in Seq(SliceIds) /\ Len(s2) > 0
  <2> HIDE DEF s1
  <2> QED BY <1>4, <1>8, <1>9
<1>11. s3 \in Seq(SliceIds) /\ Len(s3) > 0
  <2> HIDE DEF s2
  <2> QED BY <1>4, <1>8, <1>10
<1>12. s4 \in Seq(SliceIds) /\ Len(s4) > 0
  <2> HIDE DEF s3
  <2> QED BY <1>5, <1>8, <1>11
<1>13. s5 \in Seq(SliceIds) /\ Len(s5) > 0
  <2> HIDE DEF s4
  <2> QED BY <1>5, <1>8, <1>12
<1>14. SliceKeys(p) = s5
  BY <1>7
<1>15. Len(<<>>) = 0
  OBVIOUS
<1> HIDE DEF s5
<1> QED BY <1>13, <1>14, <1>15

(* A slice built for a key has that key as its id, and the place of it in the order. *)
LEMMA SlicesAre ==
  ASSUME NEW key \in SliceIds, NEW v \in 1..Len(PlanVersions)
  PROVE  IsSlice(SliceOf(key, PlanVersions[v])) /\ SliceOf(key, PlanVersions[v]).id = key
<1> DEFINE p == PlanVersions[v]
           ds == SliceDomains(key.kind)
           c == SliceOf(key, p)
<1>1. c.source = "episode_slice" /\ c.id = key /\ c.age = SlicePlace(key) /\ c.terms = SliceContent(key, p)
      /\ c.domains = {ds[k] : k \in DOMAIN ds}
  BY DEF SliceOf
<1>2. IsFiniteSet(SliceContent(key, p))
  <2>1. \E x : SliceContent(key, p) = {x}
    BY DEF SliceContent
  <2> QED BY <2>1, FS_Singleton
<1>3. IsFiniteSet({ds[k] : k \in DOMAIN ds})
  <2>1. DOMAIN ds \in {1..1, 1..2, 1..3}
    BY DEF SliceDomains, SliceIds
  <2>2. IsFiniteSet(DOMAIN ds)
    <3>1. IsFiniteSet(1..1) /\ IsFiniteSet(1..2) /\ IsFiniteSet(1..3)
      <4>1. \A n \in Nat : IsFiniteSet(1..n)
        BY FS_Interval
      <4> QED BY <4>1
    <3> HIDE DEF ds
    <3> QED BY <2>1, <3>1
  <2> HIDE DEF ds
  <2> QED BY <2>2, FiniteImage
<1> HIDE DEF c, ds, p
<1>4. IsSlice(c) /\ c.id = key
  BY <1>1, <1>2, <1>3 DEF IsSlice
<1> QED BY <1>4 DEF c, p

(* Storing a slice adds its id, once. *)
LEMMA FileGrows ==
  ASSUME NEW c, IsSlice(c), slices' = StoredSlice(c), slices \in Seq(SliceRecords),
         \A k \in DOMAIN slices : IsSlice(slices[k]),
         \A j, k \in DOMAIN slices : slices[j].id = slices[k].id => j = k
  PROVE  /\ slices' \in Seq(SliceRecords')
         /\ \A k \in DOMAIN slices' : IsSlice(slices'[k])
         /\ \A j, k \in DOMAIN slices' : slices'[j].id = slices'[k].id => j = k
         /\ StoredIds' = StoredIds \cup {c.id}
<1>1. CASE \E k \in DOMAIN slices : slices[k].id = c.id
  <2>1. slices' = slices
    BY <1>1 DEF StoredSlice
  <2>2. c.id \in StoredIds /\ StoredIds' = StoredIds
    BY <1>1, <2>1 DEF StoredIds
  <2> QED BY <2>1, <2>2 DEF SliceRecords
<1>2. CASE ~ \E k \in DOMAIN slices : slices[k].id = c.id
  <2>1. slices' = Append(slices, c)
    BY <1>2 DEF StoredSlice
  <2>2. Len(slices) \in Nat /\ DOMAIN slices = 1..Len(slices) /\ DOMAIN slices' = 1..(Len(slices) + 1)
    BY <2>1
  <2>3. \A k \in DOMAIN slices' : slices'[k] = IF k = Len(slices) + 1 THEN c ELSE slices[k]
    BY <2>1, <2>2
  <2>4. DOMAIN slices \subseteq DOMAIN slices' /\ Len(slices) + 1 \in DOMAIN slices'
        /\ \A k \in DOMAIN slices' : k # Len(slices) + 1 => k \in DOMAIN slices
        /\ Len(slices) + 1 \notin DOMAIN slices
    BY <2>2
  <2>5. slices' \in Seq(SliceRecords')
    <3>1. slices' \in [1..(Len(slices) + 1) -> SliceRecords']
      <4>1. slices' \in Seq(SliceRecords \cup {c})
        BY <2>1
      <4>2. \A k \in DOMAIN slices' : slices'[k] \in SliceRecords'
        BY DEF SliceRecords
      <4>3. slices' = [k \in DOMAIN slices' |-> slices'[k]]
        BY <4>1
      <4> QED BY <2>2, <4>2, <4>3
    <3>2. Len(slices) + 1 \in Nat
      BY <2>2
    <3> QED BY <3>1, <3>2
  <2>6. \A k \in DOMAIN slices' : IsSlice(slices'[k])
    BY <2>3, <2>4
  <2>7. \A j, k \in DOMAIN slices' : slices'[j].id = slices'[k].id => j = k
    BY <1>2, <2>3, <2>4
  <2>8. StoredIds' = StoredIds \cup {c.id}
    BY <2>3, <2>4 DEF StoredIds
  <2> QED BY <2>5, <2>6, <2>7, <2>8
<1> QED BY <1>1, <1>2

(* What an archive call has done stays done while the files grow. *)
LEMMA CallKept ==
  ASSUME NEW call, NEW rows, NEW ids, CallSound(call, rows, ids),
         NEW rows2, rows # <<>> => rows2 # <<>>, NEW ids2, ids \subseteq ids2
  PROVE  CallSound(call, rows2, ids2)
BY DEF CallSound

(* A step that leaves the files alone, and the calls or one that it begins or ends, keeps the archive. *)
LEMMA ArchiveRests ==
  ASSUME ArchiveHolds, episodes' = episodes, slices' = slices, plan' \in 1..Len(PlanVersions),
         archive' \in [Runs -> [pc : {"idle", "list", "episode", "slices", "done"}, version : Nat,
                                todo : Seq(SliceIds)]],
         \A r \in Runs : archive'[r] = archive[r] \/ CallSound(archive'[r], episodes, StoredIds)
  PROVE  ArchiveHolds'
<1>1. ArchiveShape'
  BY DEF ArchiveHolds, ArchiveShape, SliceRecords
<1>2. StoredIds' = StoredIds
  BY DEF StoredIds
<1>3. \A r \in Runs : CallSound(archive'[r], episodes', StoredIds')
  BY <1>2 DEF ArchiveHolds
<1> QED BY <1>1, <1>3 DEF ArchiveHolds

(* Every step keeps the archive: an append stores what it takes off the list of things to do. *)
LEMMA ArchiveStepHolds ==
  ASSUME ArchiveHolds, [RecallNext]_recallVars
  PROVE  ArchiveHolds'
<1> DEFINE Calls == [pc : {"idle", "list", "episode", "slices", "done"}, version : Nat, todo : Seq(SliceIds)]
<1>0. NoArchive \in Calls /\ \A rows, ids : CallSound(NoArchive, rows, ids)
  BY DEF NoArchive, CallSound
<1>00. archive \in [Runs -> Calls] /\ plan \in 1..Len(PlanVersions) /\ Len(PlanVersions) \in Nat
  BY RecallAssumption DEF ArchiveHolds, ArchiveShape
<1>1. CASE TurnStep \/ Extract \/ ExtractTimesOut \/ WarmLands \/ UNCHANGED recallVars
  <2>1. UNCHANGED <<plan, episodes, slices, archive>>
    BY <1>1 DEF TurnStep, Ask, Gate, GateUnanswered, Query, LoadProfile, LoadSlices, FetchRows, Rank,
       RankWithoutVectors, Inject, Extract, ExtractTimesOut, WarmLands, recallVars
  <2> QED BY <1>00, <2>1, ArchiveRests
<1>2. CASE Replan
  <2>1. UNCHANGED <<episodes, slices, archive>> /\ plan' \in 1..Len(PlanVersions)
    BY <1>2, <1>00 DEF Replan
  <2> QED BY <1>00, <2>1, ArchiveRests
<1>3. CASE ComeBack
  <2>1. /\ UNCHANGED <<plan, episodes, slices>>
        /\ archive' = [r \in Runs |-> IF archive[r].pc = "done" THEN archive[r] ELSE NoArchive]
    BY <1>3 DEF ComeBack
  <2>2. archive' \in [Runs -> Calls]
    BY <1>0, <1>00, <2>1
  <2>3. \A r \in Runs : archive'[r] = archive[r] \/ CallSound(archive'[r], episodes, StoredIds)
    BY <1>0, <2>1
  <2> HIDE DEF Calls
  <2> QED BY <1>00, <2>1, <2>2, <2>3, ArchiveRests DEF Calls
<1>4. ASSUME NEW r \in Runs, EndRun(r) PROVE ArchiveHolds'
  <2> DEFINE keys == SliceKeys(PlanVersions[plan])
             call == [pc |-> "list", version |-> plan, todo |-> keys]
  <2>1. UNCHANGED <<plan, episodes, slices>> /\ archive' = [archive EXCEPT ![r] = call]
    BY <1>4 DEF EndRun
  <2>2. keys \in Seq(SliceIds) /\ keys # <<>>
    BY <1>00, SliceKeysAre
  <2>3. call \in Calls
    BY <1>00, <2>2
  <2>4. CallSound(call, episodes, StoredIds)
    BY <1>00, <2>2 DEF CallSound
  <2>5. archive' \in [Runs -> Calls] /\ \A q \in Runs : archive'[q] = IF q = r THEN call ELSE archive[q]
    <3> HIDE DEF call, Calls
    <3> QED BY <1>00, <2>1, <2>3
  <2> HIDE DEF call, Calls
  <2> QED BY <1>00, <2>1, <2>4, <2>5, ArchiveRests DEF Calls
<1>5. ASSUME NEW r \in Runs, ListEpisodes(r) PROVE ArchiveHolds'
  <2> DEFINE call == [archive[r] EXCEPT !.pc = IF episodes = <<>> THEN "episode" ELSE "slices"]
  <2>1. UNCHANGED <<plan, episodes, slices>> /\ archive' = [archive EXCEPT ![r] = call] /\ archive[r].pc = "list"
    BY <1>5 DEF ListEpisodes
  <2>2. CallSound(archive[r], episodes, StoredIds)
    BY DEF ArchiveHolds
  <2>3. call \in Calls /\ CallSound(call, episodes, StoredIds)
    BY <1>00, <2>1, <2>2 DEF CallSound
  <2>4. archive' \in [Runs -> Calls] /\ \A q \in Runs : archive'[q] = IF q = r THEN call ELSE archive[q]
    <3> HIDE DEF call, Calls
    <3> QED BY <1>00, <2>1, <2>3
  <2> HIDE DEF call, Calls
  <2> QED BY <1>00, <2>1, <2>3, <2>4, ArchiveRests DEF Calls
<1>6. ASSUME NEW r \in Runs, ArchiveFails(r) PROVE ArchiveHolds'
  <2>1. UNCHANGED <<plan, episodes, slices>> /\ archive' = [archive EXCEPT ![r] = NoArchive]
    BY <1>6 DEF ArchiveFails
  <2>2. archive' \in [Runs -> Calls] /\ \A q \in Runs : archive'[q] = IF q = r THEN NoArchive ELSE archive[q]
    <3> HIDE DEF Calls
    <3> QED BY <1>0, <1>00, <2>1
  <2> HIDE DEF Calls
  <2> QED BY <1>0, <1>00, <2>1, <2>2, ArchiveRests DEF Calls
<1>7. ASSUME NEW r \in Runs, AppendEpisode(r) PROVE ArchiveHolds'
  <2> DEFINE call == [archive[r] EXCEPT !.pc = "slices"]
             row == [version |-> archive[r].version]
  <2>1. /\ UNCHANGED <<plan, slices>> /\ archive[r].pc = "episode"
        /\ episodes' = StoredEpisode(row) /\ archive' = [archive EXCEPT ![r] = call]
    BY <1>7 DEF AppendEpisode
  <2>2. episodes' \in Seq([version : Nat]) /\ Len(episodes') = 1
    <3>1. row \in [version : Nat] /\ episodes \in Seq([version : Nat]) /\ Len(episodes) <= 1
      BY <1>00 DEF ArchiveHolds, ArchiveShape
    <3> HIDE DEF row
    <3>2. CASE episodes = <<>>
      BY <2>1, <3>1, <3>2 DEF StoredEpisode
    <3>3. CASE episodes # <<>>
      <4>1. episodes' = episodes
        BY <2>1, <3>3 DEF StoredEpisode
      <4>2. Len(episodes) \in Nat /\ Len(episodes) # 0
        <5> DEFINE Rows == [version : Nat]
        <5>1. episodes \in Seq(Rows)
          BY <3>1
        <5> HIDE DEF Rows
        <5> QED BY <3>3, <5>1
      <4>3. Len(episodes) = 1
        <5>1. Len(episodes) <= 1
          BY DEF ArchiveHolds
        <5> DEFINE n == Len(episodes)
        <5>2. n \in Nat /\ n # 0 /\ n <= 1
          BY <4>2, <5>1
        <5> HIDE DEF n
        <5>3. n = 1
          BY <5>2
        <5> QED BY <5>3 DEF n
      <4> QED BY <3>1, <4>1, <4>3
    <3> QED BY <3>2, <3>3
  <2>3. episodes' # <<>>
    BY <2>2
  <2>4. StoredIds' = StoredIds
    BY <2>1 DEF StoredIds
  <2>5. \A q \in Runs : CallSound(archive[q], episodes', StoredIds)
    BY <2>3, CallKept DEF ArchiveHolds
  <2>6. call \in Calls /\ CallSound(call, episodes', StoredIds)
    BY <1>00, <2>1, <2>3, <2>5 DEF CallSound
  <2>7. archive' \in [Runs -> Calls] /\ \A q \in Runs : archive'[q] = IF q = r THEN call ELSE archive[q]
    <3> HIDE DEF call, Calls
    <3> QED BY <1>00, <2>1, <2>6
  <2>8. \A q \in Runs : CallSound(archive'[q], episodes', StoredIds')
    <3> HIDE DEF call
    <3> QED BY <2>4, <2>5, <2>6, <2>7
  <2>9. ArchiveShape'
    BY <2>1, <2>2, <2>7 DEF ArchiveHolds, ArchiveShape, SliceRecords
  <2>10. /\ \A k \in DOMAIN slices' : IsSlice(slices'[k])
         /\ \A j, k \in DOMAIN slices' : slices'[j].id = slices'[k].id => j = k
    BY <2>1 DEF ArchiveHolds
  <2>11. Len(episodes') <= 1
    BY <2>2
  <2> HIDE DEF call, Calls, row
  <2> QED BY <2>8, <2>9, <2>10, <2>11 DEF ArchiveHolds
<1>8. ASSUME NEW r \in Runs, AppendSlice(r) PROVE ArchiveHolds'
  <2> DEFINE old == archive[r]
             first == Head(old.todo)
             call == [old EXCEPT !.todo = Tail(@), !.pc = IF Len(old.todo) = 1 THEN "done" ELSE @]
             c == SliceOf(first, PlanVersions[old.version])
  <2>1. /\ UNCHANGED <<plan, episodes>> /\ old.pc = "slices"
        /\ slices' = StoredSlice(c) /\ archive' = [archive EXCEPT ![r] = call]
    BY <1>8 DEF AppendSlice
  <2>2. old \in Calls /\ CallSound(old, episodes, StoredIds)
    BY <1>00 DEF ArchiveHolds
  <2>3. old.todo \in Seq(SliceIds) /\ old.todo # <<>> /\ old.version \in 1..Len(PlanVersions)
    BY <2>1, <2>2 DEF CallSound
  <2>4. first \in SliceIds
    BY <2>3
  <2>5. IsSlice(c) /\ c.id = first
    <3> HIDE DEF first
    <3> QED BY <2>3, <2>4, SlicesAre
  <2>6. /\ slices' \in Seq(SliceRecords')
        /\ \A k \in DOMAIN slices' : IsSlice(slices'[k])
        /\ \A j, k \in DOMAIN slices' : slices'[j].id = slices'[k].id => j = k
        /\ StoredIds' = StoredIds \cup {first}
    <3> HIDE DEF c
    <3> QED BY <2>1, <2>5, FileGrows DEF ArchiveHolds, ArchiveShape
  <2>7. \A q \in Runs : CallSound(archive[q], episodes', StoredIds')
    BY <2>1, <2>6, CallKept DEF ArchiveHolds
  <2>8. call \in Calls
    <3> DEFINE todo == old.todo
    <3>1. todo \in Seq(SliceIds) /\ todo # <<>>
      BY <2>3
    <3>2. Tail(todo) \in Seq(SliceIds)
      <4> HIDE DEF todo
      <4> QED BY <3>1
    <3> QED BY <2>1, <2>2, <3>2
  <2>9. CallSound(call, episodes', StoredIds')
    <3>1. /\ call.version = old.version /\ call.todo = Tail(old.todo)
          /\ call.pc = IF Len(old.todo) = 1 THEN "done" ELSE "slices"
      BY <2>1, <2>2
    <3>2. CallSound(old, episodes', StoredIds')
      BY <2>7
    <3>3. Len(old.todo) \in Nat \ {0} /\ (Len(old.todo) # 1 => Tail(old.todo) # <<>>)
      <4> DEFINE todo == old.todo
      <4>1. todo \in Seq(SliceIds) /\ todo # <<>>
        BY <2>3
      <4> HIDE DEF todo
      <4>2. Len(todo) \in Nat /\ Len(todo) # 0
        BY <4>1
      <4>3. Len(Tail(todo)) = Len(todo) - 1
        BY <4>1, <4>2
      <4>4. Len(<<>>) = 0
        OBVIOUS
      <4>5. Len(todo) # 1 => Tail(todo) # <<>>
        BY <4>2, <4>3, <4>4
      <4> QED BY <4>2, <4>5 DEF todo
    <3>4. \A j \in DOMAIN old.todo : old.todo[j] = first \/ \E i \in DOMAIN Tail(old.todo) : Tail(old.todo)[i] = old.todo[j]
      <4>1. SUFFICES ASSUME NEW j \in DOMAIN old.todo, j # 1
                     PROVE  \E i \in DOMAIN Tail(old.todo) : Tail(old.todo)[i] = old.todo[j]
        BY <2>3
      <4>2. j - 1 \in DOMAIN Tail(old.todo) /\ Tail(old.todo)[j - 1] = old.todo[j]
        BY <2>3, <4>1
      <4> QED BY <4>2
    <3>5. Len(old.todo) = 1 => \A j \in DOMAIN old.todo : old.todo[j] = first
      BY <2>3
    <3>6. ASSUME NEW k \in DOMAIN SliceKeys(PlanVersions[old.version])
          PROVE  LET keys == SliceKeys(PlanVersions[old.version])
                 IN  keys[k] \in StoredIds' \/ (call.pc # "done" /\ \E j \in DOMAIN call.todo : call.todo[j] = keys[k])
      <4> DEFINE id == SliceKeys(PlanVersions[old.version])[k]
      <4>1. id \in StoredIds' \/ \E j \in DOMAIN old.todo : old.todo[j] = id
        BY <2>1, <3>2 DEF CallSound
      <4>2. first \in StoredIds'
        BY <2>6
      <4> HIDE DEF id, first
      <4>3. id \in StoredIds' \/ (call.pc # "done" /\ \E j \in DOMAIN call.todo : call.todo[j] = id)
        BY <3>1, <3>3, <3>4, <3>5, <4>1, <4>2
      <4> QED BY <4>3 DEF id
    <3> HIDE DEF call, first
    <3>7. episodes' # <<>>
      BY <2>1, <3>2 DEF CallSound
    <3>8. call.pc \in {"slices", "done"} /\ (call.pc = "slices" => call.todo # <<>>)
      BY <3>1, <3>3
    <3> QED BY <2>3, <3>1, <3>6, <3>7, <3>8 DEF CallSound
  <2>10. archive' \in [Runs -> Calls] /\ \A q \in Runs : archive'[q] = IF q = r THEN call ELSE archive[q]
    <3> HIDE DEF call, Calls
    <3> QED BY <1>00, <2>1, <2>8
  <2>11. \A q \in Runs : CallSound(archive'[q], episodes', StoredIds')
    <3> HIDE DEF call
    <3> QED BY <2>7, <2>9, <2>10
  <2>12. ArchiveShape'
    <3> HIDE DEF call, c
    <3> QED BY <2>1, <2>6, <2>10 DEF ArchiveHolds, ArchiveShape
  <2>13. Len(episodes') <= 1
    BY <2>1 DEF ArchiveHolds
  <2> QED BY <2>6, <2>11, <2>12, <2>13 DEF ArchiveHolds
<1> QED BY <1>1, <1>2, <1>3, <1>4, <1>5, <1>6, <1>7, <1>8 DEF RecallNext, TurnStep

(* What that says of the files. *)
LEMMA ArchiveSound ==
  ASSUME ArchiveHolds
  PROVE  ArchiveOnce
<1>1. ASSUME NEW r \in Runs, archive[r].pc = "done"
      PROVE  /\ episodes # <<>>
             /\ LET keys == SliceKeys(PlanVersions[archive[r].version])
                IN  \A k \in DOMAIN keys : \E j \in DOMAIN slices : slices[j].id = keys[k]
  <2>1. CallSound(archive[r], episodes, StoredIds)
    BY DEF ArchiveHolds
  <2> QED BY <1>1, <2>1 DEF CallSound, StoredIds
<1> QED BY <1>1 DEF ArchiveHolds, ArchiveOnce

(* At the start nothing is stored, warmed or asked. *)
LEMMA ArchiveStarts ==
  ASSUME RecallInit
  PROVE  ArchiveHolds /\ RowsHold /\ Shape
<1>1. /\ episodes = <<>> /\ slices = <<>> /\ sidecar = <<>> /\ warms = {} /\ recall = Quiet /\ plan = 1
      /\ archive = [r \in Runs |-> NoArchive]
  BY DEF RecallInit
<1>2. ArchiveShape
  <2>1. NoArchive \in [pc : {"idle", "list", "episode", "slices", "done"}, version : Nat, todo : Seq(SliceIds)]
    BY DEF NoArchive
  <2>2. plan \in 1..Len(PlanVersions)
    BY <1>1, RecallAssumption
  <2>3. slices \in Seq(SliceRecords) /\ episodes \in Seq([version : Nat])
    BY <1>1
  <2> QED BY <1>1, <2>1, <2>2, <2>3 DEF ArchiveShape
<1>3. \A r \in Runs : CallSound(archive[r], episodes, StoredIds)
  BY <1>1 DEF CallSound, NoArchive
<1>4. DOMAIN slices = {} /\ DOMAIN sidecar = {} /\ Len(episodes) = 0
  BY <1>1
<1>5. Shape
  BY <1>1, QuietShape DEF Shape, Stages
<1>6. RowsHold
  BY <1>1, <1>4, QuietShape DEF RowsHold
<1>7. ArchiveHolds
  BY <1>2, <1>3, <1>4 DEF ArchiveHolds
<1> QED BY <1>5, <1>6, <1>7

-----------------------------------------------------------------------------
(* The pipeline. *)

(* Ranked candidates are candidates, with numbers as ranks. *)
LEMMA Ranking ==
  ASSUME NEW key, IsFiniteSet(DOMAIN key), NEW k
  PROVE  /\ DOMAIN Ranked(key, k) \subseteq DOMAIN key
         /\ \A c \in DOMAIN Ranked(key, k) : Ranked(key, k)[c] \in Nat
<1>1. \A c : Cardinality({d \in DOMAIN key : key[d] < key[c]}) \in Nat
  <2>1. ASSUME NEW c PROVE IsFiniteSet({d \in DOMAIN key : key[d] < key[c]})
    BY FS_Subset
  <2> QED BY <2>1, FS_CardinalityType
<1> QED BY <1>1 DEF Ranked

(* When no two share a key, at most k of them are ranked up to k: a rank belongs to one. *)
LEMMA RankedFew ==
  ASSUME NEW key, IsFiniteSet(DOMAIN key), NEW k \in Nat,
         \A c \in DOMAIN key : key[c] \in Int,
         \A c, d \in DOMAIN key : key[c] = key[d] => c = d
  PROVE  Cardinality(DOMAIN Ranked(key, k)) <= k
<1> DEFINE D == DOMAIN key
           Below(c) == {d \in D : key[d] < key[c]}
           Kept == DOMAIN Ranked(key, k)
           rank == [c \in Kept |-> 1 + Cardinality(Below(c))]
<1>1. ASSUME NEW c PROVE IsFiniteSet(Below(c)) /\ Cardinality(Below(c)) \in Nat
  <2>1. IsFiniteSet(Below(c))
    BY FS_Subset
  <2> QED BY <2>1, FS_CardinalityType
<1>2. Kept = {c \in D : 1 + Cardinality(Below(c)) <= k}
  BY DEF Ranked
<1>3. ASSUME NEW c \in D, NEW d \in D, key[c] < key[d] PROVE Cardinality(Below(c)) < Cardinality(Below(d))
  <2>1. Below(c) \subseteq Below(d) /\ c \in Below(d) /\ c \notin Below(c)
    BY <1>3
  <2>2. Below(c) # Below(d)
    BY <2>1
  <2> HIDE DEF Below
  <2> QED BY <1>1, <2>1, <2>2, FS_Subset
<1>4. rank \in Injection(Kept, 1..k)
  <2>1. ASSUME NEW c \in Kept PROVE rank[c] = 1 + Cardinality(Below(c)) /\ rank[c] \in 1..k
    <3> HIDE DEF Below, Kept
    <3> QED BY <1>1, <1>2, <2>1
  <2>2. ASSUME NEW c \in Kept, NEW d \in Kept, rank[c] = rank[d] PROVE c = d
    <3>1. c \in D /\ d \in D /\ Cardinality(Below(c)) = Cardinality(Below(d))
      <4>1. c \in D /\ d \in D
        BY <1>2
      <4> HIDE DEF Below, rank
      <4> QED BY <1>1, <2>1, <2>2, <4>1
    <3>2. key[c] \in Int /\ key[d] \in Int
      BY <3>1
    <3>3. ~(key[c] < key[d]) /\ ~(key[d] < key[c])
      <4> HIDE DEF Below
      <4> QED BY <1>1, <1>3, <3>1
    <3> QED BY <3>1, <3>2, <3>3
  <2> HIDE DEF Kept
  <2>3. rank \in [Kept -> 1..k]
    BY <2>1
  <2> QED BY <2>2, <2>3 DEF Injection, IsInjective
<1>5. IsFiniteSet(1..k) /\ Cardinality(1..k) = k
  BY FS_Interval
<1> HIDE DEF rank, Kept
<1>6. Cardinality(Kept) <= k
  BY <1>4, <1>5, FS_Injection
<1> QED BY <1>6 DEF Kept

\* what a lane returns for records: some of them, with their ranks
IsLane(f, recs) == DOMAIN f \subseteq recs /\ \A c \in DOMAIN f : f[c] \in Nat

(* The symbolic lane finds records of the buckets it searches. *)
LEMMA SymbolicFinds ==
  ASSUME NEW q, NEW recs, IsFiniteSet(recs)
  PROVE  /\ IsLane(SymbolicLane(q, recs), recs)
         /\ \A c \in DOMAIN SymbolicLane(q, recs) : c.source = "profile" => c.bucket \in SearchBuckets(q)
<1> DEFINE key == [c \in SymbolicHits(q, recs) |-> SymbolicKey(q, c)]
<1>1. DOMAIN key \subseteq recs /\ \A c \in DOMAIN key : c.source = "profile" => c.bucket \in SearchBuckets(q)
  BY DEF SymbolicHits
<1>2. IsFiniteSet(DOMAIN key)
  BY <1>1, FS_Subset
<1> HIDE DEF key
<1>3. /\ DOMAIN Ranked(key, Min({LaneTopK, q.topK})) \subseteq DOMAIN key
      /\ \A c \in DOMAIN Ranked(key, Min({LaneTopK, q.topK})) : Ranked(key, Min({LaneTopK, q.topK}))[c] \in Nat
  BY <1>2, Ranking
<1> QED BY <1>1, <1>3 DEF SymbolicLane, key, IsLane

(* The lexical lane finds records of the buckets asked for. *)
LEMMA LexicalFinds ==
  ASSUME NEW q, NEW m, NEW recs, IsFiniteSet(recs)
  PROVE  /\ IsLane(LexicalLane(q, m, recs), recs)
         /\ \A c \in DOMAIN LexicalLane(q, m, recs) : c.source = "profile" => c.bucket \in q.buckets
<1> DEFINE words == m.terms \cup q.terms \cup ExpandedDomains(q.domains)
           key == [c \in {x \in Asked(q, recs) : LexicalScore(words, x) >= 5} |->
                     (100 - LexicalScore(words, c)) * 100 + c.age]
<1>1. DOMAIN key \subseteq recs /\ \A c \in DOMAIN key : c.source = "profile" => c.bucket \in q.buckets
  BY DEF Asked
<1>2. IsFiniteSet(DOMAIN key)
  <2> HIDE DEF key
  <2> QED BY <1>1, FS_Subset
<1>3. LexicalLane(q, m, recs) = Ranked(key, LaneTopK)
  BY DEF LexicalLane
<1> HIDE DEF key
<1>4. /\ DOMAIN Ranked(key, LaneTopK) \subseteq DOMAIN key
      /\ \A c \in DOMAIN Ranked(key, LaneTopK) : Ranked(key, LaneTopK)[c] \in Nat
  BY <1>2, Ranking
<1> QED BY <1>1, <1>3, <1>4 DEF IsLane

(* The semantic lane finds what is near. *)
LEMMA SemanticFinds ==
  ASSUME NEW near, IsFiniteSet(near)
  PROVE  IsLane(SemanticLane(near), near)
<1> DEFINE key == [c \in near |-> c.age]
<1>1. DOMAIN key = near
  OBVIOUS
<1> HIDE DEF key
<1>2. /\ DOMAIN Ranked(key, LaneTopK) \subseteq DOMAIN key
      /\ \A c \in DOMAIN Ranked(key, LaneTopK) : Ranked(key, LaneTopK)[c] \in Nat
  BY <1>1, Ranking
<1> QED BY <1>1, <1>2 DEF SemanticLane, key, IsLane

(* A percentage is a number. *)
LEMMA Percents ==
  ASSUME NEW a \in Nat, NEW b \in Nat
  PROVE  Percent(a, b) \in Nat
BY DEF Percent

(* The fused score of a record is a number. *)
LEMMA Fusing ==
  ASSUME NEW recs, NEW lanes, DOMAIN lanes \subseteq {"symbolic", "lexical", "semantic"},
         \A l \in DOMAIN lanes : IsLane(lanes[l], recs)
  PROVE  \A c : FusedScore(lanes, c) \in Nat
<1> DEFINE on == DOMAIN lanes
           parts(c) == [l \in on |-> Part(lanes, c, l)]
<1>1. IsFiniteSet(on)
  <2>1. IsFiniteSet({"symbolic", "lexical", "semantic"})
    <3>1. {"symbolic", "lexical", "semantic"} = {"symbolic"} \cup {"lexical"} \cup {"semantic"}
      OBVIOUS
    <3>2. IsFiniteSet({"symbolic"} \cup {"lexical"})
      BY FS_Singleton, FS_Union
    <3> DEFINE two == {"symbolic"} \cup {"lexical"}
    <3> HIDE DEF two
    <3>3. IsFiniteSet(two \cup {"semantic"})
      BY <3>2, FS_Singleton, FS_Union DEF two
    <3> QED BY <3>1, <3>3 DEF two
  <2> QED BY <2>1, FS_Subset
<1>2. ASSUME NEW c, NEW l \in on PROVE Part(lanes, c, l) \in Nat
  <2>1. LaneWeight(l) * 1000 \in Nat
    BY DEF LaneWeight
  <2>2. c \in DOMAIN lanes[l] => 60 + lanes[l][c] \in Nat \ {0}
    BY DEF IsLane
  <2>3. \A a \in Nat : \A b \in Nat \ {0} : a \div b \in Nat
    OBVIOUS
  <2> QED BY <2>1, <2>2, <2>3 DEF Part
<1>3. ASSUME NEW c PROVE FusedScore(lanes, c) \in Nat
  <2>1. parts(c) \in [on -> Nat] /\ DOMAIN parts(c) = on
    BY <1>2
  <2>2. FusedScore(lanes, c) = SumOf(parts(c), on)
    BY <2>1 DEF FusedScore, SumOf, FoldFunction
  <2> HIDE DEF parts, on
  <2> QED BY <1>1, <2>1, <2>2, Summing
<1> QED BY <1>3

(* Fusion invents nothing: what it returns some lane returned. *)
LEMMA FusedOf ==
  ASSUME NEW recs, IsFiniteSet(recs), NEW lanes, DOMAIN lanes \subseteq {"symbolic", "lexical", "semantic"},
         \A l \in DOMAIN lanes : IsLane(lanes[l], recs)
  PROVE  Fused(lanes) \subseteq {c \in recs : \E l \in DOMAIN lanes : c \in DOMAIN lanes[l]}
<1> DEFINE all == UNION {DOMAIN lanes[l] : l \in DOMAIN lanes}
           sym(c) == "symbolic" \in DOMAIN lanes /\ c \in DOMAIN lanes["symbolic"]
           key == [c \in all |-> ((10000 - FusedScore(lanes, c)) * 2 + (IF sym(c) THEN 0 ELSE 1)) * 100 + c.age]
<1>1. Fused(lanes) = DOMAIN Ranked(key, FusedMax)
  BY DEF Fused
<1>2. all \subseteq recs
  BY DEF IsLane
<1>3. DOMAIN key = all
  OBVIOUS
<1> HIDE DEF key
<1>4. IsFiniteSet(DOMAIN key)
  <2> HIDE DEF all
  <2> QED BY <1>2, <1>3, FS_Subset
<1>5. DOMAIN Ranked(key, FusedMax) \subseteq all
  BY <1>3, <1>4, Ranking
<1> QED BY <1>1, <1>2, <1>5

(* The overlap of two finite sets is a number. *)
LEMMA Jaccards ==
  ASSUME NEW a, IsFiniteSet(a), NEW b, IsFiniteSet(b)
  PROVE  Jaccard(a, b) \in Nat
<1>1. IsFiniteSet(a \cap b) /\ IsFiniteSet(a \cup b)
  BY FS_Subset, FS_Union
<1>2. Cardinality(a \cap b) \in Nat /\ Cardinality(a \cup b) \in Nat
  BY <1>1, FS_CardinalityType
<1> QED BY <1>2, Percents DEF Jaccard

(* So is the match of a record with a query. *)
LEMMA Matches ==
  ASSUME NEW q, IsFiniteSet(q.domains), IsFiniteSet(q.terms),
         NEW c, IsFiniteSet(c.domains), IsFiniteSet(c.terms)
  PROVE  MatchScore(q, c) \in Nat
<1> DEFINE ds == IF c.source = "profile" THEN {c.domain} ELSE c.domains
           x == Jaccard(q.domains, ds)
           y == Jaccard(q.terms, c.terms)
           z == IF q.dest \in c.terms THEN 100 ELSE 0
           T == {x, y, z}
<1>1. x \in Nat
  <2>1. IsFiniteSet(ds)
    BY FS_Singleton
  <2> HIDE DEF ds
  <2> QED BY <2>1, Jaccards
<1>2. y \in Nat
  BY Jaccards
<1>3. z \in Nat
  OBVIOUS
<1>4. MatchScore(q, c) = Max(T)
  BY DEF MatchScore
<1> HIDE DEF x, y, z
<1>5. IsFiniteSet(T)
  <2> DEFINE two == {x} \cup {y}
  <2>1. IsFiniteSet(two)
    BY FS_Singleton, FS_Union
  <2>2. T = two \cup {z}
    OBVIOUS
  <2> HIDE DEF two, T
  <2> QED BY <2>1, <2>2, FS_Singleton, FS_Union
<1>6. T # {} /\ \A e \in T : e \in Nat
  BY <1>1, <1>2, <1>3
<1> HIDE DEF T
<1> QED BY <1>4, <1>5, <1>6, Largest

(* The score of a record is a number. *)
LEMMA Scores ==
  ASSUME NEW q, IsFiniteSet(q.domains), IsFiniteSet(q.terms), NEW retrieval \in Nat,
         NEW c, IsFiniteSet(c.domains), IsFiniteSet(c.terms), c.age \in 0..99
  PROVE  Score(q, c, retrieval) \in Int
<1>1. MatchScore(q, c) \in Nat
  BY Matches
<1>2. Recency(c) \in Int
  BY DEF Recency
<1> QED BY <1>1, <1>2 DEF Score, ProfileScore, EpisodeScore

(* The retrieval score of a candidate is a number. *)
LEMMA Retrievals ==
  ASSUME NEW lanes, \A c : FusedScore(lanes, c) \in Nat,
         NEW cands, IsFiniteSet(cands), NEW c \in cands
  PROVE  Retrieval(lanes, cands, c) \in Nat
<1> DEFINE f == [d \in cands |-> FusedScore(lanes, d)]
           T == {FusedScore(lanes, d) : d \in cands}
<1>1. T = {f[d] : d \in cands}
  OBVIOUS
<1>2. IsFiniteSet(T)
  <2> HIDE DEF f, T
  <2> QED BY <1>1, FiniteImage
<1>3. T # {} /\ \A e \in T : e \in Nat
  OBVIOUS
<1>4. Max(T) \in Nat
  <2> HIDE DEF T
  <2> QED BY <1>2, <1>3, Largest
<1> QED BY <1>4, Percents DEF Retrieval

(* What a source contributes to a context: fused records the message does not contradict, no
   two of a duplicate group, and no more than the limit.  The order has no ties, because the
   ages of records of one source differ. *)
LEMMA Reranking ==
  ASSUME NEW q, IsFiniteSet(q.domains), IsFiniteSet(q.terms), NEW m, NEW n \in Nat,
         NEW recs, NEW source, Loaded(recs, source),
         NEW lanes, DOMAIN lanes \subseteq {"symbolic", "lexical", "semantic"},
         \A l \in DOMAIN lanes : IsLane(lanes[l], recs)
  PROVE  LET R == Reranked(q, m, lanes, n)
         IN  /\ R \subseteq Fused(lanes) /\ \A c \in R : ~Conflicts(c, m)
             /\ \A c, d \in R : DuplicateGroup(c) = DuplicateGroup(d) => c = d
             /\ IsFiniteSet(R) /\ Cardinality(R) <= n
<1> DEFINE best == Fused(lanes)
           S == {c \in best : ~Conflicts(c, m)}
           key == [c \in S |-> (20000 - Score(q, c, Retrieval(lanes, best, c))) * 100 + c.age]
           left == [c \in Deduped(key) |-> key[c]]
           R == Reranked(q, m, lanes, n)
<1>1. best \subseteq recs /\ IsFiniteSet(best) /\ S \subseteq best
  BY FusedOf, FS_Subset DEF Loaded
<1>2. R = DOMAIN Ranked(left, n)
  BY DEF Reranked, BestOf
<1>3. \A c : FusedScore(lanes, c) \in Nat
  BY Fusing
<1>4. ASSUME NEW c \in S PROVE \E s \in Int : c.age \in 0..99 /\ key[c] = (20000 - s) * 100 + c.age
  <2>1. Retrieval(lanes, best, c) \in Nat
    <3> HIDE DEF best
    <3> QED BY <1>1, <1>3, Retrievals
  <2>2. IsFiniteSet(c.domains) /\ IsFiniteSet(c.terms) /\ c.age \in 0..99
    BY <1>1 DEF Loaded
  <2>3. Score(q, c, Retrieval(lanes, best, c)) \in Int
    <3> HIDE DEF best, S
    <3> QED BY <2>1, <2>2, Scores
  <2> QED BY <2>2, <2>3
<1>5. DOMAIN key = S /\ DOMAIN left = Deduped(key)
  OBVIOUS
<1> HIDE DEF key, best, S
<1>6. \A c \in S : key[c] \in Int
  BY <1>4
<1>7. ASSUME NEW c \in S, NEW d \in S, key[c] = key[d] PROVE c = d
  <2> DEFINE Key(s, a) == (20000 - s) * 100 + a
  <2>1. PICK s \in Int : c.age \in 0..99 /\ key[c] = Key(s, c.age)
    BY <1>4
  <2>2. PICK t \in Int : d.age \in 0..99 /\ key[d] = Key(t, d.age)
    BY <1>4
  <2>3. \A x, y \in Int : \A a, b \in 0..99 : Key(x, a) = Key(y, b) => a = b
    OBVIOUS
  <2> HIDE DEF Key
  <2>4. Key(s, c.age) = Key(t, d.age)
    BY <1>7, <2>1, <2>2
  <2>5. c.age = d.age
    BY <2>1, <2>2, <2>3, <2>4
  <2> QED BY <1>1, <2>5 DEF Loaded
<1>8. Deduped(key) \subseteq S /\ \A c, d \in Deduped(key) : DuplicateGroup(c) = DuplicateGroup(d) => c = d
  <2>1. Deduped(key) \subseteq S
    BY <1>5 DEF Deduped
  <2>2. ASSUME NEW c \in Deduped(key), NEW d \in Deduped(key), DuplicateGroup(c) = DuplicateGroup(d)
        PROVE  c = d
    <3>1. key[c] <= key[d] /\ key[d] <= key[c] /\ c \in S /\ d \in S
      BY <1>5, <2>2 DEF Deduped
    <3>2. key[c] = key[d]
      BY <1>6, <3>1
    <3> QED BY <1>7, <3>1, <3>2
  <2> QED BY <2>1, <2>2
<1>9. /\ IsFiniteSet(DOMAIN left) /\ \A c \in DOMAIN left : left[c] \in Int
      /\ \A c, d \in DOMAIN left : left[c] = left[d] => c = d
  <2>1. IsFiniteSet(S) /\ IsFiniteSet(Deduped(key))
    BY <1>1, <1>8, FS_Subset
  <2> QED BY <1>6, <1>7, <1>8, <2>1
<1> HIDE DEF left
<1>10. DOMAIN Ranked(left, n) \subseteq Deduped(key) /\ Cardinality(DOMAIN Ranked(left, n)) <= n
  BY <1>5, <1>9, Ranking, RankedFew
<1>11. IsFiniteSet(R)
  BY <1>2, <1>5, <1>9, <1>10, FS_Subset
<1>12. \A c \in S : c \in best /\ ~Conflicts(c, m)
  BY DEF S
<1> HIDE DEF R
<1> QED BY <1>2, <1>8, <1>10, <1>11, <1>12 DEF R, best

-----------------------------------------------------------------------------
(* The turn. *)

(* The fallback plan searches three buckets. *)
LEMMA FallbackGood ==
  ASSUME NEW why
  PROVE  GoodPlan(FallbackPlan(why))
BY FS_EmptySet DEF GoodPlan, FallbackPlan, Conservative, Buckets

(* So does a plan read off a message. *)
LEMMA HeuristicGood ==
  ASSUME NEW m \in Messages, NEW decision
  PROVE  GoodPlan(HeuristicPlan(m, decision))
<1>1. IsFiniteSet(m.domains) /\ IsFiniteSet(m.terms)
  BY RecordsAssumption
<1>2. CASE HeuristicPlan(m, decision) = FallbackPlan("no_historical_recall_cue")
  BY <1>2, FallbackGood
<1>3. CASE HeuristicPlan(m, decision) # FallbackPlan("no_historical_recall_cue")
  <2>1. /\ HeuristicPlan(m, decision).domains = m.domains /\ HeuristicPlan(m, decision).terms = m.terms
        /\ HeuristicPlan(m, decision).buckets = Conservative
    BY <1>3 DEF HeuristicPlan
  <2> QED BY <1>1, <2>1 DEF GoodPlan, Conservative, Buckets
<1> QED BY <1>2, <1>3

(* The domains a query may name. *)
LEMMA DomainsFew == IsFiniteSet(AllowedDomains)
<1> DEFINE A == {"itinerary", "pace", "food", "hotel", "accommodation", "flight", "train"}
           name == [k \in 1..13 |-> CASE k = 1 -> "itinerary" [] k = 2 -> "pace" [] k = 3 -> "food"
                      [] k = 4 -> "hotel" [] k = 5 -> "accommodation" [] k = 6 -> "flight" [] k = 7 -> "train"
                      [] k = 8 -> "budget" [] k = 9 -> "family" [] k = 10 -> "accessibility"
                      [] k = 11 -> "planning_style" [] k = 12 -> "documents" [] k = 13 -> "general"]
<1>1. AllowedDomains \subseteq {name[k] : k \in 1..13}
  <2>1. /\ name[1] = "itinerary" /\ name[2] = "pace" /\ name[3] = "food" /\ name[4] = "hotel"
        /\ name[5] = "accommodation" /\ name[6] = "flight" /\ name[7] = "train"
    OBVIOUS
  <2>2. /\ name[8] = "budget" /\ name[9] = "family" /\ name[10] = "accessibility"
        /\ name[11] = "planning_style" /\ name[12] = "documents" /\ name[13] = "general"
    OBVIOUS
  <2> HIDE DEF name
  <2>3. 1 \in 1..13 /\ 2 \in 1..13 /\ 3 \in 1..13 /\ 4 \in 1..13 /\ 5 \in 1..13 /\ 6 \in 1..13 /\ 7 \in 1..13
        /\ 8 \in 1..13 /\ 9 \in 1..13 /\ 10 \in 1..13 /\ 11 \in 1..13 /\ 12 \in 1..13 /\ 13 \in 1..13
    OBVIOUS
  <2> QED BY <2>1, <2>2, <2>3 DEF AllowedDomains
<1>2. IsFiniteSet(1..13)
  <2>1. \A n \in Nat : IsFiniteSet(1..n)
    BY FS_Interval
  <2> QED BY <2>1
<1> HIDE DEF name
<1>3. IsFiniteSet({name[k] : k \in 1..13})
  BY <1>2, FiniteImage
<1> QED BY <1>1, <1>3, FS_Subset

(* A plan of the query model was checked, or is the fallback. *)
LEMMA ParsedGood ==
  ASSUME NEW p \in QueryReplies
  PROVE  GoodPlan(ParsedPlan(p))
<1>1. CASE p = NoReply \/ ~ValidPlan(p)
  BY <1>1, FallbackGood DEF ParsedPlan
<1>2. CASE p # NoReply /\ ValidPlan(p)
  <2>1. IsFiniteSet(p.domains) /\ IsFiniteSet(p.terms)
    BY <1>2, DomainsFew, FS_Subset, RecordsAssumption DEF ValidPlan
  <2>2. /\ ParsedPlan(p).domains = p.domains /\ ParsedPlan(p).terms = p.terms /\ ParsedPlan(p).source = p.source
        /\ ParsedPlan(p).buckets = IF p.source = "episode_slice" THEN {} ELSE p.buckets
    BY <1>2 DEF ParsedPlan
  <2> QED BY <1>2, <2>1, <2>2 DEF GoodPlan, ValidPlan
<1> QED BY <1>1, <1>2

(* The query made of such a plan. *)
LEMMA DualGood ==
  ASSUME NEW p, GoodPlan(p)
  PROVE  GoodDual(DualOf(p)) /\ GoodDual(NoDual)
BY FS_EmptySet DEF GoodPlan, GoodDual, DualOf, NoDual

(* A plan read off the words, when it is one, asks for a source. *)
LEMMA HeuristicAsks ==
  ASSUME NEW m, NEW decision, HeuristicPlan(m, decision).fallback = "none"
  PROVE  DualOf(HeuristicPlan(m, decision)).profile \/ DualOf(HeuristicPlan(m, decision)).episode
<1>1. HeuristicPlan(m, decision) # FallbackPlan("no_historical_recall_cue")
  <2>1. FallbackPlan("no_historical_recall_cue").fallback = "no_historical_recall_cue"
    BY DEF FallbackPlan
  <2> QED BY <2>1
<1>2. HeuristicPlan(m, decision).source \in {"profile", "episode_slice", "hybrid_history"}
  BY <1>1 DEF HeuristicPlan
<1> QED BY <1>2 DEF DualOf

(* The profile as a turn loads it. *)
LEMMA ProfileLoads ==
  ASSUME ProfileHolds
  PROVE  Loaded(ProfileRecords, "profile")
<1> DEFINE ids == {j \in DOMAIN Items : profile[j] > 0}
           rec == [i \in ids |-> Items[i][profile[i]]]
<1>1. ProfileRecords = {rec[i] : i \in ids}
  BY DEF ProfileRecords
<1>2. IsFiniteSet(ids)
  BY FS_Subset, RecordsAssumption
<1>3. \A i \in ids : i \in DOMAIN Items /\ profile[i] \in 1..Len(Items[i])
  BY RecordsAssumption DEF ProfileHolds
<1>4. \A i \in ids : /\ rec[i].source = "profile" /\ rec[i].age \in 0..99
                     /\ IsFiniteSet(rec[i].domains) /\ IsFiniteSet(rec[i].terms)
  BY <1>3, RecordsAssumption
<1>5. \A i, j \in ids : rec[i].age = rec[j].age => i = j
  BY <1>3, RecordsAssumption
<1> HIDE DEF ids, rec
<1>6. IsFiniteSet(ProfileRecords)
  BY <1>1, <1>2, FiniteImage
<1> QED BY <1>1, <1>4, <1>5, <1>6 DEF Loaded

(* Two slices of a trip have two places in the order. *)
LEMMA PlacesDiffer ==
  ASSUME NEW x \in SliceIds, NEW y \in SliceIds, SlicePlace(x) = SlicePlace(y)
  PROVE  x = y
<1>1. SlicePlace(x) \in Nat /\ SlicePlace(y) \in Nat
  BY DEF SliceIds, SlicePlace
<1>2. x.kind = y.kind /\ x.nr = y.nr
  BY DEF SliceIds, SlicePlace
<1> QED BY <1>2 DEF SliceIds

(* The places are few. *)
LEMMA PlacesAre ==
  ASSUME NEW x \in SliceIds
  PROVE  SlicePlace(x) \in 0..99
BY DEF SliceIds, SlicePlace

(* The slices as a turn loads them. *)
LEMMA SlicesLoad ==
  ASSUME ArchiveHolds, NEW S \in SUBSET SliceRecords
  PROVE  Loaded(S, "episode_slice")
<1>1. IsFiniteSet(SliceRecords)
  <2>1. IsFiniteSet(DOMAIN slices)
    <3>1. Len(slices) \in Nat /\ DOMAIN slices = 1..Len(slices)
      BY DEF ArchiveHolds, ArchiveShape
    <3> QED BY <3>1, FS_Interval
  <2> QED BY <2>1, FiniteImage DEF SliceRecords
<1>2. IsFiniteSet(S)
  BY <1>1, FS_Subset
<1>3. \A c \in S : IsSlice(c)
  BY DEF ArchiveHolds, SliceRecords
<1>4. \A c, d \in S : c.id = d.id => c = d
  BY DEF ArchiveHolds, SliceRecords
<1>5. \A c \in S : c.source = "episode_slice" /\ c.id \in SliceIds /\ c.age = SlicePlace(c.id)
                   /\ IsFiniteSet(c.domains) /\ IsFiniteSet(c.terms)
  BY <1>3 DEF IsSlice
<1>6. \A c, d \in S : c.age = d.age => c = d
  BY <1>4, <1>5, PlacesDiffer
<1>7. \A c \in S : c.age \in 0..99
  BY <1>5, PlacesAre
<1> QED BY <1>2, <1>5, <1>6, <1>7 DEF Loaded

(* The slices a query for a destination sees are of that place. *)
LEMMA AtPlace ==
  ASSUME NEW S, NEW dest, dest # ""
  PROVE  \A c \in AtDestination(S, dest) : SamePlace(dest, c.dest)
<1>1. Canon(dest) # ""
  BY CatalogAssumption DEF Canon
<1>2. SamePlace(dest, dest)
  BY <1>1 DEF SamePlace
<1> QED BY <1>2 DEF AtDestination

(* Steps keep what was decided. *)
LEMMA DecidedStep ==
  ASSUME Shape, Decided, [RecallNext]_recallVars
  PROVE  Decided'
<1> USE DEF Decided, Shape, Fields, Searching
<1>1. CASE Ask
  <2>1. PICK m \in Messages :
           recall' = [Quiet EXCEPT !.msg = m, !.decision = ShortCircuit(m),
                        !.why = CASE ShortCircuit(m) = "force_recall" -> "forced"
                                  [] ShortCircuit(m) = "skip_recall" -> "no"
                                  [] OTHER -> "",
                        !.pc = CASE ShortCircuit(m) = "force_recall" -> "query"
                                 [] ShortCircuit(m) = "skip_recall" -> "load"
                                 [] OTHER -> "gate"]
    BY <1>1 DEF Ask
  <2> DEFINE d == ShortCircuit(m)
  <2>2. /\ recall'.msg = m /\ recall'.decision = d /\ recall'.plan = NoReply
        /\ recall'.why = CASE d = "force_recall" -> "forced" [] d = "skip_recall" -> "no" [] OTHER -> ""
        /\ recall'.pc = CASE d = "force_recall" -> "query" [] d = "skip_recall" -> "load" [] OTHER -> "gate"
    BY <2>1, QuietShape
  <2> HIDE DEF d
  <2>3. recall'.why # "heuristic"
    BY <2>2
  <2> QED BY <2>2, <2>3 DEF d
<1>2. CASE Gate \/ GateUnanswered
  <2>1. /\ recall.pc = "gate" /\ recall'.msg = recall.msg /\ recall'.decision = recall.decision
        /\ recall'.plan = recall.plan
        /\ \/ recall'.pc = "query" /\ recall'.why = "gate"
           \/ recall'.pc = "load" /\ recall'.why = "no"
           \/ recall'.pc = "load" /\ recall'.why = "heuristic"
              /\ HeuristicPlan(recall.msg, recall.decision).fallback = "none"
    BY <1>2 DEF Gate, GateUnanswered, GateFallback
  <2> QED BY <2>1
<1>3. CASE Query
  <2>1. /\ recall.pc = "query" /\ recall'.pc = "load" /\ recall'.msg = recall.msg
        /\ recall'.decision = recall.decision /\ recall'.why = recall.why
        /\ \/ \E p \in QueryReplies : recall'.plan = ParsedPlan(p)
           \/ recall'.plan = HeuristicPlan(recall.msg, recall.decision)
    BY <1>3 DEF Query
  <2>2. GoodPlan(recall'.plan)
    BY <2>1, ParsedGood, HeuristicGood
  <2> QED BY <2>1, <2>2
<1>4. CASE LoadProfile
  <2>1. /\ recall.pc = "load" /\ recall'.msg = recall.msg /\ recall'.decision = recall.decision
        /\ recall'.pc \in {"slices", "done"} /\ (recall.why = "no" => recall'.pc = "done")
    BY <1>4 DEF LoadProfile, NoDual
  <2> QED BY <2>1
<1>5. CASE LoadSlices \/ FetchRows \/ Rank \/ RankWithoutVectors
  <2>1. /\ recall.pc \in Searching /\ recall'.msg = recall.msg /\ recall'.decision = recall.decision
        /\ recall'.pc \in {"fetch", "ranking", "done"}
    BY <1>5 DEF LoadSlices, FetchRows, Rank, RankWithoutVectors, Finished
  <2> QED BY <2>1
<1>6. CASE Inject \/ ComeBack
  <2>1. recall' = Quiet
    BY <1>6 DEF Inject, ComeBack
  <2> QED BY <2>1, QuietShape
<1>7. CASE Extract \/ ExtractTimesOut \/ WarmLands \/ Replan \/ ArchiveStep \/ UNCHANGED recallVars
  <2>1. recall' = recall
    BY <1>7 DEF Extract, ExtractTimesOut, WarmLands, Replan, ArchiveStep, EndRun, ListEpisodes,
       AppendEpisode, AppendSlice, ArchiveFails, recallVars
  <2> QED BY <2>1
<1> QED BY <1>1, <1>2, <1>3, <1>4, <1>5, <1>6, <1>7 DEF RecallNext, ArchiveStep

(* An extraction moves one item to its next text. *)
LEMMA ProfileStep ==
  ASSUME ProfileHolds, [RecallNext]_recallVars
  PROVE  ProfileHolds'
<1> USE DEF ProfileHolds
<1>1. CASE Extract
  <2>1. PICK i \in DOMAIN Items : profile[i] < Len(Items[i]) /\ profile' = [profile EXCEPT ![i] = @ + 1]
    BY <1>1 DEF Extract
  <2>2. \A j \in DOMAIN Items : Len(Items[j]) \in Nat
    BY RecordsAssumption
  <2> QED BY <2>1, <2>2
<1>2. CASE ~Extract
  <2>1. profile' = profile
    BY <1>2 DEF RecallNext, Ask, Gate, GateUnanswered, Query, LoadProfile, LoadSlices, FetchRows, Rank,
       RankWithoutVectors, Inject, ExtractTimesOut, WarmLands, Replan, ComeBack, EndRun, ListEpisodes,
       AppendEpisode, AppendSlice, ArchiveFails, recallVars
  <2> QED BY <2>1
<1> QED BY <1>1, <1>2

(* What the memory manager searches for. *)
LEMMA DualPlanned ==
  ASSUME Decided, recall.pc = "load"
  PROVE  GoodDual(IF recall.why = "no" THEN NoDual ELSE ManagerDual)
<1>1. GoodDual(NoDual)
  BY FallbackGood, DualGood
<1>2. GoodDual(ManagerDual)
  BY HeuristicGood, DualGood DEF Decided, ManagerDual
<1> QED BY <1>1, <1>2

(* Steps keep what a search works on. *)
LEMMA SearchesStep ==
  ASSUME Shape, Decided, ProfileHolds, ArchiveHolds, Searches, [RecallNext]_recallVars
  PROVE  Searches'
<1> USE DEF Searches, Shape, Fields, Searching
<1>1. CASE Ask \/ Gate \/ GateUnanswered \/ Query \/ Rank \/ RankWithoutVectors \/ Inject \/ ComeBack
  <2>1. recall'.pc \notin Searching
    BY <1>1, QuietShape DEF Ask, Gate, GateUnanswered, GateFallback, Query, Rank, RankWithoutVectors,
       Finished, Inject, ComeBack
  <2> QED BY <2>1
<1>2. CASE LoadProfile
  <2> DEFINE d == IF recall.why = "no" THEN NoDual ELSE ManagerDual
  <2>1. /\ recall.pc = "load" /\ recall'.profile = ProfileRecords /\ recall'.dual = d
        /\ recall'.pc \in {"slices", "done"}
    BY <1>2 DEF LoadProfile
  <2>2. GoodDual(d)
    BY <2>1, DualPlanned
  <2> HIDE DEF d
  <2> QED BY <2>1, <2>2, ProfileLoads
<1>3. CASE LoadSlices
  <2> DEFINE found == IF recall.dual.episode THEN AtDestination(SliceRecords, recall.dual.dest) ELSE {}
  <2>1. /\ recall.pc = "slices" /\ recall'.profile = recall.profile /\ recall'.dual = recall.dual
        /\ recall'.slices = found /\ recall'.pc = "fetch"
    BY <1>3 DEF LoadSlices
  <2>2. found \in SUBSET SliceRecords
    BY DEF AtDestination
  <2>3. recall.dual.dest # "" => \A c \in found : SamePlace(recall.dual.dest, c.dest)
    BY AtPlace
  <2> HIDE DEF found
  <2>4. Loaded(found, "episode_slice")
    BY <2>2, SlicesLoad
  <2> QED BY <2>1, <2>3, <2>4
<1>4. CASE FetchRows
  <2>1. /\ recall.pc = "fetch" /\ recall'.profile = recall.profile /\ recall'.dual = recall.dual
        /\ recall'.slices = recall.slices /\ recall'.pc = "ranking"
    BY <1>4 DEF FetchRows
  <2> QED BY <2>1
<1>5. CASE Extract \/ ExtractTimesOut \/ WarmLands \/ Replan \/ ArchiveStep \/ UNCHANGED recallVars
  <2>1. recall' = recall
    BY <1>5 DEF Extract, ExtractTimesOut, WarmLands, Replan, ArchiveStep, EndRun, ListEpisodes,
       AppendEpisode, AppendSlice, ArchiveFails, recallVars
  <2> QED BY <2>1
<1> QED BY <1>1, <1>2, <1>3, <1>4, <1>5 DEF RecallNext, ArchiveStep

(* A turn its message's words decided to recall comes to a search. *)
LEMMA FallbackStep ==
  ASSUME Shape, Decided, FallbackSearches, [RecallNext]_recallVars
  PROVE  FallbackSearches'
<1> USE DEF FallbackSearches, Shape, Fields
<1>1. CASE Ask \/ Gate \/ GateUnanswered \/ Query \/ Inject \/ ComeBack
  <2>1. recall'.pc \notin {"slices", "fetch", "ranking", "done"}
    BY <1>1, QuietShape DEF Ask, Gate, GateUnanswered, GateFallback, Query, Inject, ComeBack
  <2> QED BY <2>1
<1>2. CASE LoadProfile
  <2>1. /\ recall.pc = "load" /\ recall'.why = recall.why
        /\ recall.why = "heuristic" => recall'.dual = ManagerDual
    BY <1>2 DEF LoadProfile
  <2>2. recall.why = "heuristic" =>
           ManagerDual = DualOf(HeuristicPlan(recall.msg, recall.decision))
           /\ HeuristicPlan(recall.msg, recall.decision).fallback = "none"
    BY <2>1 DEF Decided, ManagerDual
  <2> QED BY <2>1, <2>2, HeuristicAsks
<1>3. CASE LoadSlices \/ FetchRows \/ Rank \/ RankWithoutVectors
  <2>1. /\ recall.pc \in {"slices", "fetch", "ranking"}
        /\ recall'.why = recall.why /\ recall'.dual = recall.dual
    BY <1>3 DEF LoadSlices, FetchRows, Rank, RankWithoutVectors, Finished
  <2> QED BY <2>1
<1>4. CASE Extract \/ ExtractTimesOut \/ WarmLands \/ Replan \/ ArchiveStep \/ UNCHANGED recallVars
  <2>1. recall' = recall
    BY <1>4 DEF Extract, ExtractTimesOut, WarmLands, Replan, ArchiveStep, EndRun, ListEpisodes,
       AppendEpisode, AppendSlice, ArchiveFails, recallVars
  <2> QED BY <2>1
<1> QED BY <1>1, <1>2, <1>3, <1>4 DEF RecallNext, ArchiveStep

(* What a source offers to the lanes. *)
LEMMA Candidates ==
  ASSUME Searches, recall.pc = "ranking", NEW source \in {"profile", "episode_slice"}
  PROVE  Loaded(Records(source), source) /\ GoodDual(recall.dual)
<1>1. Loaded({}, source)
  BY FS_EmptySet DEF Loaded
<1>2. GoodDual(recall.dual) /\ Loaded(recall.profile, "profile") /\ Loaded(recall.slices, "episode_slice")
  BY DEF Searches, Searching
<1> QED BY <1>1, <1>2 DEF Records

(* What is wanted of the profile lies in the buckets asked for. *)
LEMMA WantedOf ==
  ASSUME Searches, recall.pc = "ranking", NEW c \in Wanted, c.source = "profile"
  PROVE  c.bucket \in recall.dual.buckets
<1>1. \A d \in Records("episode_slice") : d.source = "episode_slice"
  BY Candidates DEF Loaded
<1> QED BY <1>1 DEF Wanted, Asked

(* What is selected from a source, whichever lanes answered. *)
LEMMA Selecting ==
  ASSUME Searches, recall.pc = "ranking", NEW source \in {"profile", "episode_slice"},
         NEW near \in SUBSET Wanted, NEW semantic, NEW n \in Nat
  PROVE  LET R == Selected(source, near, semantic, n)
         IN  /\ \A c \in R : c \in Records(source) /\ c.source = source /\ ~Conflicts(c, recall.msg)
             /\ source = "profile" => \A c \in R : c.bucket \in recall.dual.buckets
             /\ \A c, d \in R : DuplicateGroup(c) = DuplicateGroup(d) => c = d
             /\ IsFiniteSet(R) /\ Cardinality(R) <= n
<1> DEFINE recs == Records(source)
           on == IF semantic THEN Lanes ELSE Lanes \ {"semantic"}
           lanes == [l \in on |-> CASE l = "symbolic" -> SymbolicLane(recall.dual, recs)
                                    [] l = "lexical"  -> LexicalLane(recall.dual, recall.msg, recs)
                                    [] l = "semantic" -> SemanticLane(near \cap Wanted \cap recs)]
           R == Selected(source, near, semantic, n)
<1>1. Loaded(recs, source) /\ GoodDual(recall.dual) /\ IsFiniteSet(recs)
  BY Candidates DEF Loaded
<1>2. on \subseteq {"symbolic", "lexical", "semantic"} /\ DOMAIN lanes = on
  BY PipelineAssumption
<1>3. CASE recs = {} \/ on = {}
  <2>1. R = {}
    BY <1>3 DEF Selected
  <2> QED BY <2>1, FS_EmptySet
<1>4. CASE ~(recs = {} \/ on = {})
  <2>1. R = Reranked(recall.dual, recall.msg, lanes, n)
    BY <1>4 DEF Selected
  <2>2. ASSUME NEW l \in on
        PROVE  /\ IsLane(lanes[l], recs)
               /\ source = "profile" => \A c \in DOMAIN lanes[l] : c.bucket \in recall.dual.buckets
    <3>1. source = "profile" => recall.dual.buckets # {} /\ recall.dual.buckets \subseteq Buckets
      BY <1>1, <1>4 DEF Records, GoodDual
    <3>2. source = "profile" => SearchBuckets(recall.dual) = recall.dual.buckets
      BY <3>1 DEF SearchBuckets
    <3>3. CASE l = "symbolic"
      <4>1. lanes[l] = SymbolicLane(recall.dual, recs)
        BY <3>3
      <4> HIDE DEF lanes, recs
      <4>2. IsLane(lanes[l], recs)
        BY <1>1, <4>1, SymbolicFinds
      <4>3. \A c \in DOMAIN lanes[l] : c.source = "profile" => c.bucket \in SearchBuckets(recall.dual)
        BY <1>1, <4>1, SymbolicFinds
      <4> QED BY <1>1, <3>2, <4>2, <4>3 DEF IsLane, Loaded
    <3>4. CASE l = "lexical"
      <4>1. lanes[l] = LexicalLane(recall.dual, recall.msg, recs)
        BY <3>4
      <4> HIDE DEF lanes, recs
      <4>2. IsLane(lanes[l], recs)
        BY <1>1, <4>1, LexicalFinds
      <4>3. \A c \in DOMAIN lanes[l] : c.source = "profile" => c.bucket \in recall.dual.buckets
        BY <1>1, <4>1, LexicalFinds
      <4> QED BY <1>1, <4>2, <4>3 DEF IsLane, Loaded
    <3>5. CASE l = "semantic"
      <4> DEFINE close == near \cap Wanted \cap recs
      <4>1. lanes[l] = SemanticLane(close)
        BY <3>5
      <4>2. close \subseteq recs /\ close \subseteq Wanted /\ IsFiniteSet(close)
        BY <1>1, FS_Subset
      <4> HIDE DEF lanes, recs, close
      <4>3. IsLane(lanes[l], close)
        BY <4>1, <4>2, SemanticFinds
      <4>4. IsLane(lanes[l], recs) /\ DOMAIN lanes[l] \subseteq close
        BY <4>2, <4>3 DEF IsLane
      <4> QED BY <1>1, <4>2, <4>4, WantedOf DEF Loaded
    <3> QED BY <1>2, <3>3, <3>4, <3>5
  <2> HIDE DEF lanes, on, recs, R
  <2>3. /\ DOMAIN lanes \subseteq {"symbolic", "lexical", "semantic"}
        /\ \A l \in DOMAIN lanes : IsLane(lanes[l], recs)
    BY <1>2, <2>2
  <2>4. /\ R \subseteq Fused(lanes) /\ \A c \in R : ~Conflicts(c, recall.msg)
        /\ \A c, d \in R : DuplicateGroup(c) = DuplicateGroup(d) => c = d
        /\ IsFiniteSet(R) /\ Cardinality(R) <= n
    <3>1. IsFiniteSet(recall.dual.domains) /\ IsFiniteSet(recall.dual.terms)
      BY <1>1 DEF GoodDual
    <3> QED BY <1>1, <2>1, <2>3, <3>1, Reranking
  <2>5. Fused(lanes) \subseteq {c \in recs : \E l \in DOMAIN lanes : c \in DOMAIN lanes[l]}
    BY <1>1, <2>3, FusedOf
  <2>6. \A c \in R : c \in recs /\ (source = "profile" => c.bucket \in recall.dual.buckets)
    BY <1>2, <2>2, <2>4, <2>5
  <2>7. \A c \in R : c.source = source
    BY <1>1, <2>6 DEF Loaded
  <2> QED BY <2>4, <2>6, <2>7 DEF R, recs
<1> QED BY <1>3, <1>4

(* The context a ranked turn ends with. *)
LEMMA Finishes ==
  ASSUME Shape, Decided, Searches, recall.pc = "ranking",
         NEW near \in SUBSET Wanted, NEW semantic, recall' = Finished(near, semantic)
  PROVE  OnlyWhatWasAsked'
<1> DEFINE P == Selected("profile", near, semantic, ProfileTopN)
           E == Selected("episode_slice", near, semantic, EpisodeTopN)
<1>1. /\ recall'.context = P \cup E /\ recall'.msg = recall.msg /\ recall'.dual = recall.dual
      /\ recall'.profile = recall.profile /\ recall'.slices = recall.slices
  BY DEF Finished, Shape, Fields
<1>2. ProfileTopN \in Nat /\ EpisodeTopN \in Nat
  BY PipelineAssumption
<1>3. /\ \A c \in P : c \in Records("profile") /\ c.source = "profile" /\ ~Conflicts(c, recall.msg)
      /\ \A c \in P : c.bucket \in recall.dual.buckets
      /\ \A c, d \in P : DuplicateGroup(c) = DuplicateGroup(d) => c = d
      /\ IsFiniteSet(P) /\ Cardinality(P) <= ProfileTopN
  BY <1>2, Selecting
<1>4. /\ \A c \in E : c \in Records("episode_slice") /\ c.source = "episode_slice" /\ ~Conflicts(c, recall.msg)
      /\ \A c, d \in E : DuplicateGroup(c) = DuplicateGroup(d) => c = d
      /\ IsFiniteSet(E) /\ Cardinality(E) <= EpisodeTopN
  BY <1>2, Selecting
<1> HIDE DEF P, E
<1>5. ShortCircuit(recall.msg) # "skip_recall"
  BY DEF Decided, Searching
<1>6. \A c \in P : c \in recall.profile
  BY <1>3 DEF Records
<1>7. \A c \in E : recall.dual.episode /\ (recall.dual.dest # "" => SamePlace(recall.dual.dest, c.dest))
  BY <1>4 DEF Records, Searches
<1>8. \A c, d \in P \cup E : DuplicateGroup(c) = DuplicateGroup(d) => c = d
  <2>1. \A c : DuplicateGroup(c)[1] = c.source
    BY DEF DuplicateGroup
  <2>2. \A c \in P : \A d \in E : DuplicateGroup(c) # DuplicateGroup(d)
    BY <1>3, <1>4, <2>1
  <2> QED BY <1>3, <1>4, <2>2
<1>9. {c \in P \cup E : c.source = "profile"} = P /\ {c \in P \cup E : c.source = "episode_slice"} = E
  BY <1>3, <1>4
<1> QED BY <1>1, <1>3, <1>4, <1>5, <1>6, <1>7, <1>8, <1>9 DEF OnlyWhatWasAsked

(* Other steps end no turn with a context. *)
LEMMA AskedStep ==
  ASSUME Shape, Decided, Searches, OnlyWhatWasAsked, [RecallNext]_recallVars
  PROVE  OnlyWhatWasAsked'
<1> USE DEF Shape, Fields
<1>1. CASE Rank
  <2>1. PICK theme \in Themes : recall' = Finished({c \in Wanted : c.terms \cap theme # {}}, TRUE)
    BY <1>1 DEF Rank
  <2>2. recall.pc = "ranking"
    BY <1>1 DEF Rank
  <2> QED BY <2>1, <2>2, Finishes
<1>2. CASE RankWithoutVectors
  <2>1. recall.pc = "ranking" /\ recall' = Finished({}, FALSE)
    BY <1>2 DEF RankWithoutVectors
  <2> QED BY <2>1, Finishes
<1>3. CASE LoadProfile
  <2>1. recall.pc = "load" /\ recall'.context = {}
    BY <1>3 DEF LoadProfile
  <2>2. Cardinality({}) = 0 /\ ProfileTopN \in Nat /\ EpisodeTopN \in Nat
    BY FS_EmptySet, PipelineAssumption
  <2> QED BY <2>1, <2>2 DEF OnlyWhatWasAsked
<1>4. CASE Ask \/ Gate \/ GateUnanswered \/ Query \/ LoadSlices \/ FetchRows \/ Inject \/ ComeBack
  <2>1. recall'.pc # "done"
    BY <1>4, QuietShape DEF Ask, Gate, GateUnanswered, GateFallback, Query, LoadSlices, FetchRows,
       Inject, ComeBack
  <2> QED BY <2>1 DEF OnlyWhatWasAsked
<1>5. CASE Extract \/ ExtractTimesOut \/ WarmLands \/ Replan \/ ArchiveStep \/ UNCHANGED recallVars
  <2>1. recall' = recall
    BY <1>5 DEF Extract, ExtractTimesOut, WarmLands, Replan, ArchiveStep, EndRun, ListEpisodes,
       AppendEpisode, AppendSlice, ArchiveFails, recallVars
  <2> QED BY <2>1 DEF OnlyWhatWasAsked
<1> QED BY <1>1, <1>2, <1>3, <1>4, <1>5 DEF RecallNext, ArchiveStep

(* The invariant holds of every reachable state. *)
THEOREM RecallHolds == RecallSpec => []RecallInv
<1>1. RecallInit => RecallInv
  <2> SUFFICES ASSUME RecallInit PROVE RecallInv
    OBVIOUS
  <2>1. Shape /\ RowsHold /\ ArchiveHolds
    BY ArchiveStarts
  <2>2. recall.pc = "idle" /\ recall.decision = ""
    BY QuietShape DEF RecallInit
  <2>3. ProfileHolds
    BY RecallAssumption DEF RecallInit, ProfileHolds
  <2>4. FreshVectors /\ FallbackSearches /\ OnlyWhatWasAsked /\ Decided /\ Searches
    BY <2>2 DEF FreshVectors, FallbackSearches, OnlyWhatWasAsked, Decided, Searches, Searching
  <2> QED BY <2>1, <2>3, <2>4 DEF RecallInv
<1>2. RecallInv /\ [RecallNext]_recallVars => RecallInv'
  <2> SUFFICES ASSUME RecallInv, [RecallNext]_recallVars PROVE RecallInv'
    OBVIOUS
  <2>1. Shape /\ RowsHold /\ FreshVectors /\ ArchiveHolds /\ ProfileHolds
        /\ Decided /\ Searches /\ FallbackSearches /\ OnlyWhatWasAsked
    BY DEF RecallInv
  <2>2. Shape' /\ RowsHold' /\ FreshVectors'
    BY <2>1, Shaped, RowsStep, VectorsStep
  <2>3. ArchiveHolds' /\ ProfileHolds'
    BY <2>1, ArchiveStepHolds, ProfileStep
  <2>4. Decided' /\ Searches' /\ FallbackSearches' /\ OnlyWhatWasAsked'
    BY <2>1, DecidedStep, SearchesStep, FallbackStep, AskedStep
  <2> QED BY <2>2, <2>3, <2>4 DEF RecallInv
<1> QED BY <1>1, <1>2, PTL DEF RecallSpec

(* A record is ranked by the vector of the text the turn loaded, made by the model in use
   (is_row_valid_for compares hash and model before a stored row serves). *)
THEOREM VectorsFresh == RecallSpec => []FreshVectors
<1>1. RecallInv => FreshVectors
  BY DEF RecallInv
<1> QED BY <1>1, RecallHolds, PTL

(* Archive calls of one trip that overlap, fail or repeat leave one episode and one row per
   slice, and a call that ended left every slice of its plan. *)
THEOREM ArchivedOnce == RecallSpec => []ArchiveOnce
<1>1. RecallInv => ArchiveOnce
  BY ArchiveSound DEF RecallInv
<1> QED BY <1>1, RecallHolds, PTL

(* A turn for which the words of the message decided to recall does search. *)
THEOREM WordsSearch == RecallSpec => []FallbackSearches
<1>1. RecallInv => FallbackSearches
  BY DEF RecallInv
<1> QED BY <1>1, RecallHolds, PTL

(* What a finished turn injects was asked for, contradicts nothing the user says now, holds no
   two records of a duplicate group and no more records than the limits. *)
THEOREM AskedOnly == RecallSpec => []OnlyWhatWasAsked
<1>1. RecallInv => OnlyWhatWasAsked
  BY DEF RecallInv
<1> QED BY <1>1, RecallHolds, PTL
==============================================================================
