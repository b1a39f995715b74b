----------------------- MODULE ContextHistory_proofs -----------------------
(***************************************************************************)
(* For every number of runs, phases and messages, through interleaved      *)
(* flushes, cancellations and crashes: the rows of the history are         *)
(* numbered without gap or repetition, the context epochs follow that      *)
(* order, no message is stored twice, a message flagged as stored is, and  *)
(* a rebuild's reason stands on the first row of its epoch.  Where nothing *)
(* is cancelled the session's cursor stays right; where one request runs   *)
(* at a time as well, nothing shown to the model is lost and an epoch      *)
(* belongs to one phase.                                                   *)
(***************************************************************************)
EXTENDS ContextHistory, FoldLemmas

-----------------------------------------------------------------------------
(* Sets of positions *)

(* The rank of a position counts the positions before it. *)
LEMMA RankInside ==
    ASSUME NEW I \in SUBSET Nat, IsFiniteSet(I), NEW i \in I
    PROVE  Rank(i, I) \in 0..(Cardinality(I) - 1)
<1> DEFINE n == Cardinality(I)
           Below == {y \in I : y < i}
<1>1. n \in Nat
  BY FS_CardinalityType
<1>2. Below \subseteq I /\ Below # I
  OBVIOUS
<1>3. Cardinality(Below) \in Nat /\ Cardinality(Below) < n
  BY <1>1, <1>2, FS_Subset, FS_CardinalityType
<1> QED BY <1>1, <1>3 DEF Rank

(* A later message of a batch gets a higher place in it. *)
LEMMA RankGrows ==
    ASSUME NEW I \in SUBSET Nat, IsFiniteSet(I), NEW i \in I, NEW j \in I, i < j
    PROVE  Rank(i, I) < Rank(j, I)
<1> DEFINE Below(x) == {y \in I : y < x}
<1>1. Below(i) \subseteq Below(j) /\ i \in Below(j) /\ i \notin Below(i)
  <2>1. i \in Nat /\ j \in Nat /\ i < j
    OBVIOUS
  <2>2. \A y \in I : y \in Nat /\ (y < i => y < j)
    BY <2>1
  <2>3. Below(i) \subseteq Below(j)
    BY <2>2
  <2>4. i \in Below(j)
    BY <2>1
  <2>5. i \notin Below(i)
    BY <2>1
  <2> QED BY <2>3, <2>4, <2>5
<1>2. IsFiniteSet(Below(j))
  BY FS_Subset
<1>3. Cardinality(Below(i)) <= Cardinality(Below(j))
      /\ (Cardinality(Below(j)) = Cardinality(Below(i)) => Below(j) = Below(i))
  BY <1>1, <1>2, FS_Subset
<1>4. Cardinality(Below(i)) \in Nat /\ Cardinality(Below(j)) \in Nat
  BY <1>1, <1>2, FS_Subset, FS_CardinalityType
<1>5. Cardinality(Below(i)) < Cardinality(Below(j))
  BY <1>1, <1>3, <1>4
<1> QED BY <1>5 DEF Rank

(* Every rank below the size of a finite set of numbers belongs to one of   *)
(* its elements: the ranks are distinct, and there are as many as elements. *)
LEMMA RankOnto ==
    ASSUME NEW I \in SUBSET Nat, IsFiniteSet(I),
           NEW k \in 1..Cardinality(I)
    PROVE  \E i \in I : Rank(i, I) = k - 1
<1> DEFINE n == Cardinality(I)
           rank == [i \in I |-> Rank(i, I)]
<1>1. n \in Nat
  BY FS_CardinalityType
<1>2. \A i \in I : Rank(i, I) \in 0..(n - 1)
  BY RankInside
<1>3. \A i, j \in I : i < j => Rank(i, I) < Rank(j, I)
  BY RankGrows
<1>4. rank \in Injection(I, 0..(n - 1))
  <2>1. ASSUME NEW i \in I, NEW j \in I, rank[i] = rank[j] PROVE i = j
    BY <2>1, <1>2, <1>3
  <2> QED BY <1>2, <2>1 DEF Injection, IsInjective
<1>5. IsFiniteSet(0..(n - 1)) /\ Cardinality(0..(n - 1)) = n
  <2>1. 0 \in Int /\ n - 1 \in Int
    BY <1>1
  <2> HIDE DEF n
  <2>2. /\ IsFiniteSet(0..(n - 1))
        /\ Cardinality(0..(n - 1)) = IF 0 > n - 1 THEN 0 ELSE (n - 1) - 0 + 1
    BY <2>1, FS_Interval
  <2> QED BY <1>1, <2>2
<1>6. rank \in Surjection(I, 0..(n - 1))
  BY <1>4, <1>5, FS_Injection
<1>7. \E i \in I : rank[i] = k - 1
  <2>1. k - 1 \in 0..(n - 1)
    BY <1>1
  <2> QED BY <1>6, <2>1 DEF Surjection
<1> QED BY <1>7

(* Pick keeps the elements' type, and takes one element per position. *)
LEMMA PickType ==
    ASSUME NEW S, NEW view \in Seq(S), NEW I \in SUBSET DOMAIN view
    PROVE  /\ Pick(view, I) \in Seq(S)
           /\ Cardinality(I) \in Nat
           /\ Len(Pick(view, I)) = Cardinality(I)
<1>1. DOMAIN view = 1..Len(view) /\ Len(view) \in Nat
  OBVIOUS
<1>2. IsFiniteSet(I) /\ I \in SUBSET Nat
  <2>1. IsFiniteSet(1..Len(view))
    BY <1>1, FS_Interval
  <2> QED BY <1>1, <2>1, FS_Subset
<1>3. Cardinality(I) \in Nat
  BY <1>2, FS_CardinalityType
<1>4. ASSUME NEW k \in 1..Cardinality(I) PROVE view[Nth(k, I)] \in S
  <2>1. \E i \in I : Rank(i, I) = k - 1
    BY <1>2, RankOnto
  <2>2. Nth(k, I) \in I
    BY <2>1 DEF Nth
  <2> QED BY <1>1, <2>2
<1> QED BY <1>3, <1>4 DEF Pick

LEMMA DurableType ==
    ASSUME NEW view \in Seq(Entry)
    PROVE  Durable(view) \in Seq(Entry)
BY PickType DEF Durable

LEMMA UnsavedType ==
    ASSUME NEW view \in Seq(Entry)
    PROVE  Unsaved(view) \in Seq(Entry)
BY PickType DEF Unsaved

-----------------------------------------------------------------------------
(* Numbered sets of rows *)

(* NextSeq is the length of the interval of numbers in use. *)
LEMMA NextSeqIs ==
    ASSUME NEW S, NEW n \in Nat, SeqsOf(S) = 0..(n - 1)
    PROVE  NextSeq(S) = n
<1>1. CASE n = 0
  BY <1>1 DEF NextSeq, SeqsOf
<1>2. CASE n > 0
  <2> DEFINE m == CHOOSE x \in SeqsOf(S) : \A k \in SeqsOf(S) : k <= x
  <2>1. n - 1 \in SeqsOf(S) /\ \A k \in SeqsOf(S) : k <= n - 1
    BY <1>2
  <2>2. m \in SeqsOf(S) /\ \A k \in SeqsOf(S) : k <= m
    BY <2>1
  <2>3. m = n - 1
    BY <2>1, <2>2
  <2>4. S # {}
    BY <2>1 DEF SeqsOf
  <2>5. NextSeq(S) = 1 + m
    BY <2>4 DEF NextSeq
  <2> HIDE DEF m
  <2> QED BY <2>3, <2>5
<1> QED BY <1>1, <1>2

(* A batch whose numbers are free can only stand right behind the rows, and *)
(* it extends them.                                                         *)
LEMMA BatchExtends ==
    ASSUME NEW S, Numbered(S), NEW f \in Flush, f.batch # <<>>,
           f.cursor <= NextSeq(S),
           \A r \in BatchRows(f) : \A q \in S : q.seq # r.seq
    PROVE  /\ f.cursor = NextSeq(S)
           /\ Numbered(S \cup BatchRows(f))
           /\ NextSeq(S \cup BatchRows(f)) = NextSeq(S) + Len(f.batch)
<1> DEFINE n == NextSeq(S)
           k == Len(f.batch)
           B == BatchRows(f)
<1>1. n \in Nat /\ k \in Nat /\ k > 0 /\ f.cursor \in Nat /\ DOMAIN f.batch = 1..k
  BY DEF Numbered, Flush
<1>2. SeqsOf(B) = f.cursor..(f.cursor + k - 1)
  <2>1. ASSUME NEW b \in B PROVE b.seq \in f.cursor..(f.cursor + k - 1)
    BY <1>1 DEF BatchRows
  <2>2. ASSUME NEW x \in f.cursor..(f.cursor + k - 1) PROVE \E b \in B : b.seq = x
    <3>1. x - f.cursor + 1 \in DOMAIN f.batch /\ f.cursor + (x - f.cursor + 1) - 1 = x
      BY <1>1
    <3> DEFINE i == x - f.cursor + 1
               b == [seq |-> f.cursor + i - 1, id |-> f.batch[i].id,
                     kind |-> f.batch[i].kind, epoch |-> f.epoch,
                     phase |-> f.phase, step |-> f.step,
                     reason |-> IF i = 1 THEN f.reason ELSE "none"]
    <3>2. b \in B
      BY <3>1 DEF BatchRows
    <3>3. b.seq = x
      BY <3>1
    <3> QED BY <3>2, <3>3
  <2> QED BY <2>1, <2>2 DEF SeqsOf
<1>3. f.cursor = n
  <2>1. f.cursor \in SeqsOf(B)
    BY <1>1, <1>2
  <2>2. f.cursor \notin SeqsOf(S)
    BY <2>1 DEF SeqsOf
  <2> QED BY <1>1, <2>2 DEF Numbered
<1>4. SeqsOf(S \cup B) = 0..(n + k - 1)
  <2>1. SeqsOf(S \cup B) = SeqsOf(S) \cup SeqsOf(B)
    BY DEF SeqsOf
  <2>2. SeqsOf(S) = 0..(n - 1) /\ SeqsOf(B) = n..(n + k - 1)
    BY <1>2, <1>3 DEF Numbered
  <2>3. ASSUME NEW x \in Nat, NEW y \in Nat
        PROVE  (0..(x - 1)) \cup (x..(x + y - 1)) = 0..(x + y - 1)
    OBVIOUS
  <2>4. (0..(n - 1)) \cup (n..(n + k - 1)) = 0..(n + k - 1)
    BY <1>1, <2>3
  <2> QED BY <2>1, <2>2, <2>4
<1>5. NextSeq(S \cup B) = n + k
  BY <1>1, <1>4, NextSeqIs
<1>6. ASSUME NEW a \in S \cup B, NEW b \in S \cup B, a.seq = b.seq PROVE a = b
  <2>1. CASE a \in S /\ b \in S
    BY <1>6, <2>1 DEF Numbered
  <2>2. CASE a \in B /\ b \in B
    BY <1>1, <1>6, <2>2 DEF BatchRows
  <2> QED BY <1>6, <2>1, <2>2
<1> QED BY <1>1, <1>3, <1>4, <1>5, <1>6 DEF Numbered

-----------------------------------------------------------------------------
(* Types *)

LEMMA IdleType == Idle \in RunState
BY PhaseAssumption, StepAssumption
   DEF Idle, RunState, PCs, Entry, Turn, Kinds, Phases, Stage, Move, Reasons,
       Flush, Goals, Labels

LEMMA TypeInit == Init => TypeOK
<1> SUFFICES ASSUME Init PROVE TypeOK
  OBVIOUS
<1>1. plan \in Stage /\ disk \in Stage
  BY PhaseAssumption, StepAssumption DEF Init, Stage, Phases
<1>2. sess \in SessState
  BY DEF Init, SessState, Reasons
<1>3. run \in [Runs -> RunState]
  BY IdleType DEF Init
<1> QED BY <1>1, <1>2, <1>3, BoundAssumption DEF Init, TypeOK

LEMMA SpendType ==
    ASSUME NEW what \in Disturbances, budget \in [Disturbances -> Nat], Spend(what)
    PROVE  budget' \in [Disturbances -> Nat]
BY DEF Spend

(* sync_phase_state, the router and a backtrack leave a stage. *)
LEMMA StageTypes ==
    ASSUME NEW p \in Stage
    PROVE  /\ Synced(p) \subseteq Stage
           /\ \A phase \in Inferred(p) : \A step \in StepsOf(phase) :
                 [phase |-> phase, step |-> step, synced |-> TRUE] \in Stage
           /\ \A to \in 1..(p.phase - 1) : BackedTo(p, to) \in Stage
           /\ [p EXCEPT !.synced = FALSE] \in Stage
<1>1. \A phase \in Phases : StepsOf(phase) \subseteq Steps
  BY StepAssumption DEF StepsOf
<1>2. Synced(p) \subseteq Stage
  <2>1. p.phase \in Phases /\ p.step \in Steps /\ p \in Stage
    BY DEF Stage
  <2>2. (IF p.synced THEN {p.step} ELSE StepsOf(p.phase)) \subseteq Steps
    BY <1>1, <2>1
  <2>3. ASSUME NEW s \in Steps PROVE [phase |-> p.phase, step |-> s, synced |-> TRUE] \in Stage
    BY <2>1 DEF Stage
  <2> QED BY <2>2, <2>3 DEF Synced
<1>3. Inferred(p) \subseteq Phases
  BY DEF Inferred
<1>4. \A to \in 1..(p.phase - 1) : BackedTo(p, to) \in Stage
  BY StepAssumption, PhaseAssumption DEF BackedTo, Stage, Phases
<1>5. [p EXCEPT !.synced = FALSE] \in Stage
  BY DEF Stage
<1> QED BY <1>1, <1>2, <1>3, <1>4, <1>5 DEF Stage

(* The updates of a run's record that the actions make. *)
LEMMA RunUpdates ==
    ASSUME NEW x \in RunState, NEW pc \in PCs
    PROVE  /\ [x EXCEPT !.pc = pc] \in RunState
           /\ \A move \in Move : [x EXCEPT !.pc = pc, !.move = move] \in RunState
           /\ \A target \in Phases : [x EXCEPT !.pc = pc, !.target = target] \in RunState
           /\ \A view \in Seq(Entry) :
                 /\ [x EXCEPT !.view = view] \in RunState
                 /\ [x EXCEPT !.pc = pc, !.view = view] \in RunState
                 /\ \A flush \in Flush :
                       [x EXCEPT !.pc = pc, !.view = view, !.flush = flush] \in RunState
                 /\ \A user \in Nat : \A orig \in Entry :
                       [x EXCEPT !.pc = pc, !.view = view, !.user = user, !.orig = orig]
                          \in RunState
<1> DEFINE SeqEntry == Seq(Entry)
<1>1. RunState = [pc : PCs, view : SeqEntry, orig : Entry, user : Nat, start : Phases,
                  at : Stage, move : Move, target : Phases, flush : Flush]
  BY DEF RunState
<1> HIDE DEF SeqEntry
<1>2. /\ [x EXCEPT !.pc = pc] \in RunState
      /\ \A move \in Move : [x EXCEPT !.pc = pc, !.move = move] \in RunState
      /\ \A target \in Phases : [x EXCEPT !.pc = pc, !.target = target] \in RunState
  BY <1>1
<1>3. ASSUME NEW view \in SeqEntry
      PROVE  /\ [x EXCEPT !.view = view] \in RunState
             /\ [x EXCEPT !.pc = pc, !.view = view] \in RunState
             /\ \A flush \in Flush :
                   [x EXCEPT !.pc = pc, !.view = view, !.flush = flush] \in RunState
             /\ \A user \in Nat : \A orig \in Entry :
                   [x EXCEPT !.pc = pc, !.view = view, !.user = user, !.orig = orig]
                      \in RunState
  BY <1>1
<1> QED BY <1>2, <1>3 DEF SeqEntry

(* The parts of TypeOK a step of a run can disturb besides the run itself.  *)
LEMMA LoopTypes ==
    ASSUME TypeOK, NEW r \in Runs,
           \/ Begin(r) \/ BuildView(r) \/ StartBatch(r) \/ Answer(r) \/ StopLoop(r)
           \/ EndReadBatch(r) \/ EndWriteBatch(r) \/ EndBacktrackBatch(r)
    PROVE  TypeOK'
<1> USE DEF TypeOK
<1>0. /\ run[r] \in RunState /\ run[r].view \in Seq(Entry)
      /\ sess.msgs \in Seq(Entry) /\ plan.phase \in Phases
  BY DEF RunState, SessState, Stage
<1>1. CASE Begin(r)
  <2>1. plan' \in Stage
    BY <1>1, StageTypes DEF Begin
  <2>2. Durable(sess.msgs) \in Seq(Entry)
    BY <1>0, DurableType
  <2>3. run' \in [Runs -> RunState]
    BY <1>0, <1>1, <2>2, IdleType DEF Begin, RunState, PCs
  <2> QED BY <1>1, <2>1, <2>3 DEF Begin
<1>2. CASE BuildView(r)
  <2> DEFINE user == [id |-> made + 1, kind |-> "user"]
             view == run[r].view \o <<user, Turn>>
  <2>1. user \in Entry /\ Turn \in Entry
    BY DEF Entry, Turn, Kinds
  <2>2. view \in Seq(Entry) /\ Len(view) \in Nat /\ Len(view) > 0 /\ view[Len(view)] = Turn
    BY <1>0, <2>1
  <2>3. OriginalUserMessage(view) \in Entry
    <3> DEFINE at == {i \in DOMAIN view : view[i].kind \in UserRole}
    <3> HIDE DEF view
    <3>1. Len(view) \in at /\ \A j \in at : j <= Len(view)
      BY <2>2 DEF Turn, UserRole
    <3>2. (CHOOSE i \in at : \A j \in at : j <= i) \in at
      BY <3>1
    <3>3. at # {}
      BY <3>1
    <3> QED BY <2>2, <3>2, <3>3 DEF OriginalUserMessage
  <2>4. run' \in [Runs -> RunState]
    <3>1. run' = [run EXCEPT ![r].pc = "loop", ![r].view = view, ![r].user = made + 1,
                             ![r].orig = OriginalUserMessage(view)]
      BY <1>2 DEF BuildView
    <3> DEFINE new == [run[r] EXCEPT !.pc = "loop", !.view = view, !.user = made + 1,
                                     !.orig = OriginalUserMessage(view)]
    <3>2. run' = [run EXCEPT ![r] = new]
      BY <3>1
    <3> HIDE DEF view
    <3>3. "loop" \in PCs /\ made + 1 \in Nat
      BY DEF PCs
    <3>4. new \in RunState
      BY <1>0, <2>2, <2>3, <3>3, RunUpdates
    <3> HIDE DEF new
    <3> QED BY <3>2, <3>4
  <2> QED BY <1>2, <2>4 DEF BuildView
<1>3. CASE StartBatch(r)
  <2>1. [id |-> made + 1, kind |-> "asst"] \in Entry
    BY DEF Entry, Kinds
  <2>2. run' \in [Runs -> RunState]
    BY <1>0, <1>3, <2>1 DEF StartBatch, RunState, PCs
  <2> QED BY <1>3, <2>2 DEF StartBatch
<1>4. CASE Answer(r)
  <2>1. [id |-> made + 1, kind |-> "asst"] \in Entry
    BY DEF Entry, Kinds
  <2>2. run' \in [Runs -> RunState]
    BY <1>0, <1>4, <2>1 DEF Answer, RunState, PCs
  <2> QED BY <1>4, <2>2 DEF Answer
<1>5. CASE StopLoop(r)
  <2>1. run' \in [Runs -> RunState]
    BY <1>0, <1>5 DEF StopLoop, RunState, PCs
  <2> QED BY <1>5, <2>1 DEF StopLoop
<1>6. ASSUME NEW now \in Stage, NEW why \in {"none", "backtrack"}, Detect(r, now, why)
      PROVE  run' \in [Runs -> RunState]
  <2> DEFINE move == [from |-> run[r].at.phase, to |-> now.phase, step |-> run[r].at.step,
                      why |-> IF why = "backtrack" THEN why
                              ELSE IF now.phase # run[r].at.phase THEN "phase_forward"
                              ELSE "phase2_step_change"]
  <2>1. move \in Move
    BY <1>0, <1>6 DEF Move, RunState, Stage, Reasons
  <2>2. \/ run' = [run EXCEPT ![r].pc = "loop"]
        \/ run' = [run EXCEPT ![r].pc = "shift", ![r].move = move]
    BY <1>6 DEF Detect
  <2> HIDE DEF move
  <2>3. /\ [run[r] EXCEPT !.pc = "loop"] \in RunState
        /\ [run[r] EXCEPT !.pc = "shift", !.move = move] \in RunState
    <3>1. "loop" \in PCs /\ "shift" \in PCs
      BY DEF PCs
    <3> QED BY <1>0, <2>1, <3>1, RunUpdates
  <2>4. \/ run' = [run EXCEPT ![r] = [run[r] EXCEPT !.pc = "loop"]]
        \/ run' = [run EXCEPT ![r] = [run[r] EXCEPT !.pc = "shift", !.move = move]]
    BY <2>2
  <2> QED BY <2>3, <2>4
<1>7. CASE EndReadBatch(r)
  BY <1>6, <1>7 DEF EndReadBatch
<1>8. CASE EndWriteBatch(r)
  <2>1. plan' \in Stage /\ disk' \in Stage
    BY <1>8, StageTypes DEF EndWriteBatch
  <2> QED BY <1>6, <1>8, <2>1 DEF EndWriteBatch
<1>9. CASE EndBacktrackBatch(r)
  <2>1. plan' \in Stage /\ disk' \in Stage
    BY <1>9, StageTypes DEF EndBacktrackBatch
  <2>2. budget' \in [Disturbances -> Nat]
    BY <1>9, SpendType DEF EndBacktrackBatch, Disturbances
  <2> QED BY <1>6, <1>9, <2>1, <2>2 DEF EndBacktrackBatch
<1> QED BY <1>1, <1>2, <1>3, <1>4, <1>5, <1>7, <1>8, <1>9

LEMMA ViewTypes ==
    ASSUME TypeOK, NEW r \in Runs,
           \/ Rebuild(r) \/ Summarise(r) \/ Fallback(r) \/ MessageFallbacks(r)
           \/ RepairHint(r)
    PROVE  TypeOK'
<1> USE DEF TypeOK
<1>0. run[r] \in RunState /\ run[r].view \in Seq(Entry) /\ run[r].orig \in Entry
  BY DEF RunState
<1>1. {"loop", "fallback", "final"} \subseteq PCs
  BY DEF PCs
<1>2. /\ [id |-> made + 1, kind |-> "asst"] \in Entry
      /\ [id |-> made + 1, kind |-> "app"] \in Entry
      /\ Turn \in Entry
  BY DEF Entry, Turn, Kinds
<1>3. CASE Rebuild(r)
  <2> DEFINE notice == [id |-> made + 1,
                        kind |-> IF run[r].move.to < run[r].move.from THEN "app" ELSE "asst"]
  <2>1. notice \in Entry
    BY <1>2
  <2> HIDE DEF notice
  <2>2. <<run[r].orig, Turn>> \in Seq(Entry) /\ <<run[r].orig, notice, Turn>> \in Seq(Entry)
    BY <1>0, <1>2, <2>1
  <2>3. \/ run' = [run EXCEPT ![r] = [run[r] EXCEPT !.pc = "loop", !.view = <<run[r].orig, Turn>>]]
        \/ run' = [run EXCEPT ![r] = [run[r] EXCEPT !.pc = "loop",
                                                   !.view = <<run[r].orig, notice, Turn>>]]
    BY <1>3 DEF Rebuild, notice
  <2>4. "loop" \in PCs /\ run \in [Runs -> RunState]
    BY <1>1
  <2>5. \A view \in Seq(Entry) : [run[r] EXCEPT !.pc = "loop", !.view = view] \in RunState
    BY <1>0, <2>4, RunUpdates
  <2>6. run' \in [Runs -> RunState]
    BY <2>2, <2>3, <2>4, <2>5
  <2> QED BY <1>3, <2>6 DEF Rebuild
<1>4. CASE Summarise(r)
  <2> DEFINE view == run[r].view
             recent == {i \in DOMAIN view : i > Len(view) - 4}
             note == <<[id |-> made + 1, kind |-> "app"]>>
  <2>1. PICK keep \in SUBSET {i \in DOMAIN view : view[i].kind \in UserRole} :
           run' = [run EXCEPT ![r].view = Pick(view, keep) \o note \o Pick(view, recent \ keep)]
    BY <1>4 DEF Summarise
  <2>2. Pick(view, keep) \in Seq(Entry) /\ Pick(view, recent \ keep) \in Seq(Entry)
    BY <1>0, PickType
  <2>3. Pick(view, keep) \o note \o Pick(view, recent \ keep) \in Seq(Entry)
    BY <1>2, <2>2
  <2>4. run' \in [Runs -> RunState]
    BY <1>0, <1>1, <2>1, <2>3, RunUpdates
  <2>5. budget' \in [Disturbances -> Nat]
    BY <1>4, SpendType DEF Summarise, Disturbances
  <2> QED BY <1>4, <2>4, <2>5 DEF Summarise
<1>5. CASE Fallback(r)
  <2>1. PICK to \in 1..(plan.phase - 1) :
           run' = [run EXCEPT ![r] = [run[r] EXCEPT !.pc = "fallback", !.target = to]]
    BY <1>5 DEF Fallback
  <2>2. to \in Phases
    BY PhaseAssumption DEF Phases, Stage
  <2>3. run' \in [Runs -> RunState]
    BY <1>0, <1>1, <2>1, <2>2, RunUpdates
  <2>4. budget' \in [Disturbances -> Nat]
    BY <1>5, SpendType DEF Fallback, Disturbances
  <2> QED BY <1>5, <2>3, <2>4 DEF Fallback
<1>6. CASE MessageFallbacks(r)
  <2>1. plan' \in Stage
    BY <1>6, StageTypes DEF MessageFallbacks
  <2>2. run' = [run EXCEPT ![r] = [run[r] EXCEPT !.pc = "final"]]
    BY <1>6 DEF MessageFallbacks
  <2>3. run' \in [Runs -> RunState]
    BY <1>0, <1>1, <2>2, RunUpdates
  <2> QED BY <1>6, <2>1, <2>3 DEF MessageFallbacks
<1>7. CASE RepairHint(r)
  <2> DEFINE view == run[r].view \o <<[id |-> made + 1, kind |-> "asst"], Turn>>
  <2>1. view \in Seq(Entry)
    BY <1>0, <1>2
  <2>2. run' = [run EXCEPT ![r] = [run[r] EXCEPT !.view = view]]
    BY <1>7 DEF RepairHint
  <2> HIDE DEF view
  <2>3. run' \in [Runs -> RunState]
    BY <1>0, <1>1, <2>1, <2>2, RunUpdates
  <2> QED BY <1>7, <2>3 DEF RepairHint
<1> QED BY <1>3, <1>4, <1>5, <1>6, <1>7

(* What a flush reads before its await, and the rows it writes. *)
LEMMA PreparedType ==
    ASSUME TypeOK, NEW r \in Runs, NEW goal \in Goals
    PROVE  Prepared(r, goal) \in Flush
<1>1. run[r] \in RunState /\ sess \in SessState /\ plan \in Stage
  BY DEF TypeOK
<1>2. Unsaved(run[r].view) \in Seq(Entry)
  BY <1>1, UnsavedType DEF RunState
<1>3. Label(r, goal).phase \in Phases /\ Label(r, goal).step \in Labels
  BY <1>1 DEF Label, RunState, Stage, Move, Labels
<1>4. sess.cursor \in Nat /\ sess.epoch \in Nat /\ sess.reason \in Reasons
  BY <1>1 DEF SessState
<1> QED BY <1>2, <1>3, <1>4 DEF Prepared, Flush

LEMMA BatchRowsType ==
    ASSUME NEW f \in Flush
    PROVE  BatchRows(f) \subseteq Row /\ {f.batch[i].id : i \in DOMAIN f.batch} \subseteq Nat
<1>1. /\ f.cursor \in Nat /\ f.epoch \in Nat /\ f.phase \in Phases /\ f.step \in Labels
      /\ f.reason \in Reasons /\ f.batch \in Seq(Entry)
  BY DEF Flush
<1>2. ASSUME NEW i \in DOMAIN f.batch
      PROVE  f.batch[i] \in Entry /\ f.cursor + i - 1 \in Nat
  BY <1>1
<1>3. \A i \in DOMAIN f.batch : f.batch[i].id \in Nat /\ f.batch[i].kind \in Kinds
  BY <1>2 DEF Entry
<1>4. "none" \in Reasons
  BY DEF Reasons
<1> QED BY <1>1, <1>2, <1>3, <1>4 DEF BatchRows, Row

(* The three ways a flush leaves a run. *)
LEMMA LeaveTypes ==
    ASSUME TypeOK, NEW r \in Runs
    PROVE  /\ \A pc \in PCs : GoTo(r, pc) \in [Runs -> RunState]
           /\ [run EXCEPT ![r] = Idle] \in [Runs -> RunState]
           /\ \A s \in SessState : Close(r, s) =>
                 run' \in [Runs -> RunState] /\ sess' \in SessState
<1>1. run[r] \in RunState /\ run \in [Runs -> RunState] /\ run[r].view \in Seq(Entry)
  BY DEF TypeOK, RunState
<1>2. Durable(run[r].view) \in Seq(Entry) /\ Idle.flush \in Flush
  BY <1>1, DurableType, IdleType DEF RunState
<1>3. ASSUME NEW pc \in PCs PROVE GoTo(r, pc) \in [Runs -> RunState]
  <2> DEFINE new == [run[r] EXCEPT !.pc = pc, !.view = Durable(run[r].view), !.flush = Idle.flush]
  <2>1. GoTo(r, pc) = [run EXCEPT ![r] = new]
    BY <1>1 DEF GoTo
  <2>2. new \in RunState
    BY <1>1, <1>2, RunUpdates
  <2> HIDE DEF new
  <2> QED BY <1>1, <2>1, <2>2
<1>4. [run EXCEPT ![r] = Idle] \in [Runs -> RunState]
  BY <1>1, IdleType
<1>5. ASSUME NEW s \in SessState
      PROVE  [s EXCEPT !.msgs = Durable(run[r].view)] \in SessState
  <2> DEFINE SeqEntry == Seq(Entry)
  <2>1. SessState = [cursor : Nat, epoch : Nat, reason : Reasons, msgs : SeqEntry]
    BY DEF SessState
  <2>2. Durable(run[r].view) \in SeqEntry
    BY <1>2
  <2> HIDE DEF SeqEntry
  <2> QED BY <2>1, <2>2
<1> QED BY <1>3, <1>4, <1>5 DEF Close

LEMMA SucceedTypes ==
    ASSUME TypeOK, NEW r \in Runs, NEW f \in Flush, NEW s \in SessState, Succeed(r, f, s)
    PROVE  run' \in [Runs -> RunState] /\ sess' \in SessState /\ plan' \in Stage
<1>1. run[r] \in RunState /\ plan \in Stage /\ run[r].move.why \in Reasons
      /\ run[r].target \in Phases /\ f.epoch + 1 \in Nat
  BY DEF TypeOK, RunState, Move, Flush
<1>2. {"rebuild", "settled", "safe"} \subseteq PCs
  BY DEF PCs
<1>3. [s EXCEPT !.epoch = f.epoch + 1, !.reason = run[r].move.why] \in SessState
  <2> DEFINE SeqEntry == Seq(Entry)
  <2>1. SessState = [cursor : Nat, epoch : Nat, reason : Reasons, msgs : SeqEntry]
    BY DEF SessState
  <2> HIDE DEF SeqEntry
  <2> QED BY <1>1, <2>1
<1>4. run[r].target < plan.phase => BackedTo(plan, run[r].target) \in Stage
  <2>1. run[r].target < plan.phase => run[r].target \in 1..(plan.phase - 1)
    BY <1>1, PhaseAssumption DEF Phases, Stage
  <2> QED BY <1>1, <2>1, StageTypes
<1> QED BY <1>1, <1>2, <1>3, <1>4, LeaveTypes DEF Succeed

LEMMA FlushTypes ==
    ASSUME TypeOK, NEW r \in Runs,
           \/ \E goal \in Goals : BeginFlush(r, goal) \/ EmptyFlush(r, goal)
           \/ FlushDone(r) \/ FlushConflict(r)
    PROVE  TypeOK'
<1>0. /\ run[r] \in RunState /\ run \in [Runs -> RunState] /\ run[r].view \in Seq(Entry)
      /\ sess \in SessState /\ run[r].flush \in Flush /\ plan \in Stage /\ disk \in Stage
  BY DEF TypeOK, RunState
<1>1. [sess EXCEPT !.reason = "none"] \in SessState
  BY <1>0 DEF SessState, Reasons
<1>2. \A goal \in Goals : Calls(r, goal) => disk' \in Stage
  BY <1>0 DEF Calls
<1>3. ASSUME NEW goal \in Goals, BeginFlush(r, goal) PROVE TypeOK'
  <2> DEFINE f == Prepared(r, goal)
             new == [run[r] EXCEPT !.pc = "flush", !.view = Durable(run[r].view), !.flush = f]
  <2>1. f \in Flush /\ Durable(run[r].view) \in Seq(Entry) /\ "flush" \in PCs
    BY <1>0, PreparedType, DurableType DEF PCs
  <2>2. run' = [run EXCEPT ![r] = new]
    BY <1>3 DEF BeginFlush
  <2> HIDE DEF f
  <2>3. new \in RunState
    BY <1>0, <2>1, RunUpdates
  <2> HIDE DEF new
  <2>4. run' \in [Runs -> RunState]
    BY <1>0, <2>2, <2>3
  <2> QED BY <1>1, <1>2, <1>3, <2>4 DEF BeginFlush, TypeOK
<1>4. ASSUME NEW goal \in Goals, EmptyFlush(r, goal) PROVE TypeOK'
  <2>1. Prepared(r, goal) \in Flush
    BY PreparedType
  <2>2. run' \in [Runs -> RunState] /\ sess' \in SessState /\ plan' \in Stage
    BY <1>1, <1>4, <2>1, SucceedTypes DEF EmptyFlush
  <2> QED BY <1>2, <1>4, <2>2 DEF EmptyFlush, TypeOK
<1>5. CASE FlushDone(r)
  <2> DEFINE f == run[r].flush
             s == [sess EXCEPT !.cursor = f.cursor + Len(f.batch)]
  <2>1. f.cursor + Len(f.batch) \in Nat
    BY <1>0 DEF Flush
  <2>2. s \in SessState
    BY <1>0, <2>1 DEF SessState
  <2>3. Succeed(r, f, s)
    BY <1>5 DEF FlushDone
  <2> HIDE DEF s
  <2>4. run' \in [Runs -> RunState] /\ sess' \in SessState /\ plan' \in Stage
    BY <1>0, <2>2, <2>3, SucceedTypes
  <2>5. rows' \subseteq Row /\ txn' \subseteq Row /\ marked' \subseteq Nat
    BY <1>0, <1>5, BatchRowsType DEF FlushDone, TypeOK
  <2> QED BY <1>5, <2>4, <2>5 DEF FlushDone, TypeOK
<1>6. CASE FlushConflict(r)
  <2>1. {"rebuild", "safe"} \subseteq PCs
    BY DEF PCs
  <2>2. run' \in [Runs -> RunState] /\ sess' \in SessState
    BY <1>0, <1>6, <2>1, LeaveTypes DEF FlushConflict
  <2> QED BY <1>6, <2>2 DEF FlushConflict, TypeOK
<1> QED BY <1>3, <1>4, <1>5, <1>6

LEMMA FaultTypes ==
    ASSUME TypeOK,
           \/ \E r \in Runs : Cancel(r) \/ CancelFlush(r) \/ Timeout(r) \/ TimeoutFlush(r)
           \/ OtherCommit \/ RouteBacktrack \/ Crash
    PROVE  TypeOK'
<1>0. run \in [Runs -> RunState] /\ sess \in SessState /\ plan \in Stage
  BY DEF TypeOK
<1>1. {"tail", "safe"} \subseteq PCs /\ {"cancel", "route", "crash"} \subseteq Disturbances
  BY DEF PCs, Disturbances
<1>2. ASSUME NEW r \in Runs, Abandoned(run[r].flush) PROVE rows' \subseteq Row /\ txn' \subseteq Row
  <2>1. run[r].flush \in Flush
    BY <1>0 DEF RunState
  <2> QED BY <1>2, <2>1, BatchRowsType DEF Abandoned, TypeOK
<1>3. ASSUME NEW r \in Runs, NEW pc \in PCs
      PROVE  [run EXCEPT ![r].pc = pc] \in [Runs -> RunState]
  <2>1. [run[r] EXCEPT !.pc = pc] \in RunState
    BY <1>0, RunUpdates
  <2> QED BY <1>0, <2>1
<1>4. ASSUME NEW r \in Runs, Cancel(r) PROVE TypeOK'
  <2>1. run' \in [Runs -> RunState] /\ sess' \in SessState
    BY <1>0, <1>1, <1>3, <1>4, LeaveTypes DEF Cancel
  <2>2. budget' \in [Disturbances -> Nat]
    BY <1>1, <1>4, SpendType DEF Cancel, TypeOK
  <2> QED BY <1>4, <2>1, <2>2 DEF Cancel, TypeOK
<1>5. ASSUME NEW r \in Runs, CancelFlush(r) PROVE TypeOK'
  <2>1. run' \in [Runs -> RunState] /\ sess' \in SessState
    BY <1>0, <1>1, <1>5, LeaveTypes DEF CancelFlush
  <2>2. budget' \in [Disturbances -> Nat]
    BY <1>1, <1>5, SpendType DEF CancelFlush, TypeOK
  <2>3. rows' \subseteq Row /\ txn' \subseteq Row
    BY <1>2, <1>5 DEF CancelFlush
  <2> QED BY <1>5, <2>1, <2>2, <2>3 DEF CancelFlush, TypeOK
<1>6. ASSUME NEW r \in Runs, Timeout(r) PROVE TypeOK'
  <2>1. budget' \in [Disturbances -> Nat]
    BY <1>1, <1>6, SpendType DEF Timeout, TypeOK
  <2>2. run' \in [Runs -> RunState]
    BY <1>1, <1>3, <1>6 DEF Timeout
  <2> QED BY <1>6, <2>1, <2>2 DEF Timeout, TypeOK
<1>7. ASSUME NEW r \in Runs, TimeoutFlush(r) PROVE TypeOK'
  <2>1. budget' \in [Disturbances -> Nat]
    BY <1>1, <1>7, SpendType DEF TimeoutFlush, TypeOK
  <2>2. run' \in [Runs -> RunState]
    BY <1>1, <1>7, LeaveTypes DEF TimeoutFlush
  <2>3. rows' \subseteq Row /\ txn' \subseteq Row
    BY <1>2, <1>7 DEF TimeoutFlush
  <2> QED BY <1>7, <2>1, <2>2, <2>3 DEF TimeoutFlush, TypeOK
<1>8. CASE OtherCommit
  BY <1>8 DEF OtherCommit, TypeOK
<1>9. CASE RouteBacktrack
  <2>1. plan' \in Stage
    BY <1>0, <1>9, StageTypes DEF RouteBacktrack
  <2>2. budget' \in [Disturbances -> Nat]
    BY <1>1, <1>9, SpendType DEF RouteBacktrack, TypeOK
  <2> QED BY <1>9, <2>1, <2>2 DEF RouteBacktrack, TypeOK
<1>10. CASE Crash
  <2>1. \A r \in Runs : run[r].flush \in Flush
    BY <1>0 DEF RunState
  <2>2. rows' \subseteq Row
    BY <1>10, <2>1, BatchRowsType DEF Crash, TypeOK
  <2>3. budget' \in [Disturbances -> Nat]
    BY <1>1, <1>10, SpendType DEF Crash, TypeOK
  <2> QED BY <1>10, <2>2, <2>3, IdleType DEF Crash, TypeOK
<1> QED BY <1>4, <1>5, <1>6, <1>7, <1>8, <1>9, <1>10

-----------------------------------------------------------------------------
(* The history *)

(* Uncommitted rows only lengthen the history; if they do not, there are    *)
(* none.                                                                    *)
LEMMA TxnLengthens ==
    ASSUME IInv
    PROVE  /\ NextSeq(rows) \in Nat /\ NextSeq(rows \cup txn) \in Nat
           /\ NextSeq(rows) <= NextSeq(rows \cup txn)
           /\ NextSeq(rows) = NextSeq(rows \cup txn) => txn = {}
<1> DEFINE n == NextSeq(rows)
           m == NextSeq(rows \cup txn)
<1>1. /\ n \in Nat /\ SeqsOf(rows) = 0..(n - 1)
      /\ m \in Nat /\ SeqsOf(rows \cup txn) = 0..(m - 1)
  BY DEF IInv, Numbered
<1>2. SeqsOf(rows) \subseteq SeqsOf(rows \cup txn)
  BY DEF SeqsOf
<1> HIDE DEF n, m
<1>3. n <= m
  <2>1. CASE n = 0
    BY <1>1, <2>1
  <2>2. CASE n > 0
    <3>1. n - 1 \in 0..(n - 1)
      BY <1>1, <2>2
    <3>2. n - 1 \in 0..(m - 1)
      BY <1>1, <1>2, <3>1
    <3> QED BY <1>1, <3>2
  <2> QED BY <1>1, <2>1, <2>2
<1>4. ASSUME n = m, NEW t \in txn PROVE FALSE
  <2>1. t.seq \in SeqsOf(rows \cup txn)
    BY DEF SeqsOf
  <2>2. t.seq \in SeqsOf(rows)
    BY <1>1, <1>4, <2>1
  <2>3. PICK q \in rows : q.seq = t.seq
    BY <2>2 DEF SeqsOf
  <2>4. q.seq < t.seq /\ q.seq \in Nat
    BY <1>1, <2>1, <2>3 DEF IInv, TxnBehind
  <2> QED BY <2>3, <2>4
<1> QED BY <1>1, <1>3, <1>4 DEF n, m

(* A flush whose numbers are free stands right behind the committed rows,   *)
(* nothing is uncommitted, and every other flush under way is stale.        *)
LEMMA Lands ==
    ASSUME IInv, NEW r \in InFlight, Fits(run[r].flush)
    PROVE  LET f == run[r].flush
               B == BatchRows(f)
           IN  /\ txn = {}
               /\ Numbered(rows \cup B)
               /\ f.epoch \in Nat /\ f.epoch <= sess.epoch
               /\ \A a \in rows \cup B : a.epoch <= f.epoch
               /\ \A a, b \in rows \cup B : a.seq < b.seq => a.epoch <= b.epoch
               /\ \A q \in rows, b \in B : q.seq < b.seq
               /\ f.cursor = NextSeq(rows)
               /\ NextSeq(rows \cup B) = NextSeq(rows) + Len(f.batch)
               /\ Len(f.batch) \in Nat /\ Len(f.batch) > 0
<1> DEFINE f == run[r].flush
           B == BatchRows(f)
           S == rows \cup txn
<1>1. r \in Runs /\ f \in Flush /\ rows \subseteq Row
  BY DEF IInv, TypeOK, InFlight, RunState
<1>2. f.batch # <<>> /\ f.cursor <= NextSeq(rows) /\ f.cursor \in Nat
  BY <1>1 DEF IInv, CursorsBehind, Flush
<1>3. f.cursor <= NextSeq(S)
  BY <1>2, TxnLengthens
<1>4. Numbered(S)
  BY DEF IInv
<1>5. /\ f.cursor = NextSeq(S)
      /\ Numbered(S \cup B)
      /\ NextSeq(S \cup B) = NextSeq(S) + Len(f.batch)
  <2>1. \A b \in B : \A q \in S : q.seq # b.seq
    BY DEF Fits
  <2> HIDE DEF f, S
  <2> QED BY <1>1, <1>2, <1>3, <1>4, <2>1, BatchExtends DEF B
<1>6. txn = {} /\ f.cursor = NextSeq(rows)
  BY <1>2, <1>5, TxnLengthens
<1>7. /\ f.epoch \in Nat /\ f.epoch <= sess.epoch
      /\ \A a \in rows : a.epoch <= f.epoch
      /\ \A a, b \in rows : a.seq < b.seq => a.epoch <= b.epoch
  BY <1>1, <1>6 DEF IInv, EpochsBehind, Flush
<1>8. \A b \in B : b.epoch = f.epoch /\ b.seq \in Nat /\ b.seq >= f.cursor
  BY <1>1 DEF BatchRows, Flush
<1>9. ASSUME NEW q \in rows PROVE q.seq \in Nat /\ q.seq < f.cursor
  <2>1. q.seq \in SeqsOf(rows)
    BY DEF SeqsOf
  <2> QED BY <1>6, <2>1 DEF IInv, Numbered
<1>10. Len(f.batch) \in Nat /\ Len(f.batch) > 0
  BY <1>1, <1>2 DEF Flush
<1>11. \A q \in rows, b \in B : q.seq < b.seq /\ ~(b.seq < q.seq)
  BY <1>2, <1>8, <1>9
<1>12. \A a \in rows \cup B : a.epoch <= f.epoch
  BY <1>7, <1>8
<1>13. \A a, b \in rows \cup B : a.seq < b.seq => a.epoch <= b.epoch
  BY <1>7, <1>8, <1>11
<1> QED BY <1>5, <1>6, <1>7, <1>10, <1>11, <1>12, <1>13

(* What may stay in flight over a step. *)
Remain == /\ InFlight' \subseteq InFlight
          /\ \A q \in InFlight' : run'[q].flush = run[q].flush

(* A step that commits nothing, starts no flush and takes no epoch back. *)
LEMMA Still ==
    ASSUME IInv, TypeOK', Unloaded', Remain, live' = live,
           rows' = rows, txn' = txn \/ txn' = {},
           sess'.cursor = sess.cursor, sess'.epoch >= sess.epoch
    PROVE  IInv'
<1>1. sess.epoch \in Nat /\ sess'.epoch \in Nat
  BY DEF IInv, TypeOK, SessState
<1>2. rows' \cup txn' = rows \cup txn \/ rows' \cup txn' = rows
  OBVIOUS
<1>3. rows \cup txn \subseteq Row /\ \A a \in Row : a.epoch \in Nat
  BY DEF IInv, TypeOK, Row
<1>4. Numbered(rows)' /\ Numbered(rows \cup txn)'
  BY <1>2 DEF IInv, Numbered, NextSeq, SeqsOf
<1>5. TxnBehind'
  BY DEF IInv, TxnBehind
<1>6. CursorsBehind'
  BY DEF IInv, CursorsBehind, Remain, NextSeq, SeqsOf
<1>7. EpochsBehind'
  <2>1. \A a, b \in rows' \cup txn' : a.seq < b.seq => a.epoch <= b.epoch
    BY <1>2 DEF IInv, EpochsBehind
  <2>2. live' => \A a \in rows' \cup txn' : a.epoch <= sess'.epoch
    BY <1>1, <1>2, <1>3 DEF IInv, EpochsBehind
  <2>3. ASSUME NEW q \in InFlight', run'[q].flush.cursor = NextSeq(rows)'
        PROVE  /\ run'[q].flush.epoch <= sess'.epoch
               /\ \A a \in rows' : a.epoch <= run'[q].flush.epoch
    <3>1. q \in InFlight /\ run'[q].flush = run[q].flush /\ NextSeq(rows)' = NextSeq(rows)
      BY DEF Remain, NextSeq, SeqsOf
    <3>2. run[q].flush.epoch <= sess.epoch /\ \A a \in rows : a.epoch <= run[q].flush.epoch
      BY <2>3, <3>1 DEF IInv, EpochsBehind
    <3>3. run[q].flush.epoch \in Nat
      BY <3>1 DEF IInv, TypeOK, InFlight, RunState, Flush
    <3> QED BY <1>1, <3>1, <3>2, <3>3
  <2> QED BY <2>1, <2>2, <2>3 DEF EpochsBehind
<1> QED BY <1>4, <1>5, <1>6, <1>7 DEF IInv

(* A step that commits the flush of a run, or leaves its rows uncommitted.  *)
LEMMA Landed ==
    ASSUME IInv, TypeOK', Unloaded', Remain,
           NEW r \in InFlight, Fits(run[r].flush),
           \/ rows' = rows /\ txn' = txn \cup BatchRows(run[r].flush)
           \/ rows' = rows \cup txn \cup BatchRows(run[r].flush) /\ txn' = {},
           sess'.cursor <= NextSeq(rows'),
           live' => sess'.epoch >= run[r].flush.epoch,
           rows' = rows => sess'.epoch = sess.epoch
    PROVE  IInv'
<1> DEFINE f == run[r].flush
           B == BatchRows(f)
           n == NextSeq(rows)
<1>1. /\ txn = {} /\ Numbered(rows \cup B)
      /\ f.epoch \in Nat /\ f.epoch <= sess.epoch
      /\ \A a \in rows \cup B : a.epoch <= f.epoch
      /\ \A a, b \in rows \cup B : a.seq < b.seq => a.epoch <= b.epoch
      /\ \A q \in rows, b \in B : q.seq < b.seq
      /\ NextSeq(rows \cup B) = n + Len(f.batch)
      /\ Len(f.batch) \in Nat /\ Len(f.batch) > 0
  BY Lands
<1>2. n \in Nat /\ Numbered(rows)
  BY TxnLengthens DEF IInv
<1>3. rows' \cup txn' = rows \cup B /\ (rows' = rows \/ rows' = rows \cup B)
  BY <1>1
<1>4. rows' \cup txn' \subseteq Row /\ \A a \in Row : a.epoch \in Nat
  BY DEF TypeOK, Row
<1>5. sess'.epoch \in Nat
  BY DEF TypeOK, SessState
<1>6. \A q \in InFlight : /\ run[q].flush.cursor <= n
                          /\ run[q].flush.cursor \in Nat /\ run[q].flush.epoch \in Nat
                          /\ run[q].flush.batch # <<>>
  BY DEF IInv, CursorsBehind, TypeOK, InFlight, RunState, Flush
<1> HIDE DEF f, B, n
<1>7. Numbered(rows') /\ Numbered(rows' \cup txn')
  BY <1>1, <1>2, <1>3
<1>8. TxnBehind'
  BY <1>1 DEF TxnBehind, f, B
<1>9. NextSeq(rows') = n \/ NextSeq(rows') = n + Len(f.batch)
  BY <1>1, <1>3 DEF n
<1>10. CursorsBehind'
  <2>1. \A q \in InFlight' : run'[q].flush.cursor <= NextSeq(rows') /\ run'[q].flush.batch # <<>>
    BY <1>1, <1>2, <1>6, <1>9 DEF Remain
  <2> QED BY <2>1 DEF CursorsBehind, NextSeq, SeqsOf
<1>11. EpochsBehind'
  <2>1. \A a, b \in rows' \cup txn' : a.seq < b.seq => a.epoch <= b.epoch
    BY <1>1, <1>3
  <2>2. live' => \A a \in rows' \cup txn' : a.epoch <= sess'.epoch
    BY <1>1, <1>3, <1>4, <1>5 DEF f
  <2>3. ASSUME NEW q \in InFlight', run'[q].flush.cursor = NextSeq(rows')
        PROVE  /\ run'[q].flush.epoch <= sess'.epoch
               /\ \A a \in rows' : a.epoch <= run'[q].flush.epoch
    <3>1. q \in InFlight /\ run'[q].flush = run[q].flush
      BY DEF Remain
    <3>2. NextSeq(rows') = n
      BY <1>1, <1>2, <1>6, <1>9, <2>3, <3>1
    <3>3. rows' = rows
      <4>1. CASE rows' = rows \cup B
        BY <1>1, <1>2, <3>2, <4>1 DEF n
      <4> QED BY <1>3, <4>1
    <3> QED BY <2>3, <3>1, <3>2, <3>3 DEF IInv, EpochsBehind, n
  <2> QED BY <2>1, <2>2, <2>3 DEF EpochsBehind, NextSeq, SeqsOf
<1> QED BY <1>7, <1>8, <1>10, <1>11 DEF IInv, Numbered, NextSeq, SeqsOf

(* The step of a run changes its own record only; unless the run starts a   *)
(* flush it is in none afterwards.                                          *)
LEMMA RunLocal ==
    ASSUME TypeOK, Unloaded, NEW r \in Runs, RunStep(r),
           ~ \E goal \in Goals : BeginFlush(r, goal)
    PROVE  /\ \A q \in Runs \ {r} : run'[q] = run[q]
           /\ run'[r].pc # "flush"
           /\ live /\ live' = live
<1>1. run \in [Runs -> RunState] /\ \A q \in Runs : run[q] \in RunState
  BY DEF TypeOK
<1>2. Idle.pc = "off"
  BY DEF Idle
<1>3. ASSUME NEW x, run' = [run EXCEPT ![r] = x], x.pc # "flush"
      PROVE  (\A q \in Runs \ {r} : run'[q] = run[q]) /\ run'[r].pc # "flush"
  BY <1>1, <1>3
<1>4. ASSUME NEW pc, pc # "flush", run' = GoTo(r, pc)
      PROVE  (\A q \in Runs \ {r} : run'[q] = run[q]) /\ run'[r].pc # "flush"
  BY <1>1, <1>4 DEF GoTo, RunState
<1>5. ASSUME NEW s, Close(r, s)
      PROVE  (\A q \in Runs \ {r} : run'[q] = run[q]) /\ run'[r].pc # "flush"
  BY <1>1, <1>2, <1>5 DEF Close
<1>6. ASSUME NEW f, NEW s, Succeed(r, f, s)
      PROVE  (\A q \in Runs \ {r} : run'[q] = run[q]) /\ run'[r].pc # "flush"
  BY <1>4, <1>5, <1>6 DEF Succeed
<1>7. ASSUME NEW now, NEW why, Detect(r, now, why)
      PROVE  (\A q \in Runs \ {r} : run'[q] = run[q]) /\ run'[r].pc # "flush"
  BY <1>1, <1>7 DEF Detect, RunState
<1>8. CASE Begin(r)
  BY <1>1, <1>2, <1>8 DEF Begin, RunState, Idle
<1>9. CASE BuildView(r) \/ StartBatch(r) \/ Answer(r) \/ StopLoop(r)
  BY <1>1, <1>9 DEF BuildView, StartBatch, Answer, StopLoop, RunState, Unloaded
<1>10. CASE EndReadBatch(r) \/ EndWriteBatch(r) \/ EndBacktrackBatch(r)
  BY <1>7, <1>10 DEF EndReadBatch, EndWriteBatch, EndBacktrackBatch, Unloaded
<1>11. CASE Rebuild(r) \/ Fallback(r) \/ MessageFallbacks(r) \/ Timeout(r)
  BY <1>1, <1>11 DEF Rebuild, Fallback, MessageFallbacks, Timeout, RunState, Unloaded
<1>12. CASE Summarise(r) \/ RepairHint(r)
  BY <1>1, <1>12 DEF Summarise, RepairHint, RunState, Unloaded
<1>13. CASE \E goal \in Goals : EmptyFlush(r, goal)
  BY <1>6, <1>13 DEF EmptyFlush, Calls, CallsFrom, Goals, Unloaded
<1>14. CASE FlushDone(r)
  BY <1>6, <1>14 DEF FlushDone, Unloaded
<1>15. CASE FlushConflict(r)
  BY <1>4, <1>5, <1>15 DEF FlushConflict, Unloaded
<1>16. CASE Cancel(r)
  BY <1>1, <1>2, <1>5, <1>16 DEF Cancel, RunState, Unloaded
<1>17. CASE CancelFlush(r) \/ TimeoutFlush(r)
  BY <1>4, <1>5, <1>17 DEF CancelFlush, TimeoutFlush, Unloaded
<1> QED BY <1>8, <1>9, <1>10, <1>11, <1>12, <1>13, <1>14, <1>15, <1>16, <1>17 DEF RunStep

(* A step that begins no flush loads no batch. *)
LEMMA RunRemain ==
    ASSUME TypeOK, Unloaded, NEW r \in Runs, RunStep(r),
           ~ \E goal \in Goals : BeginFlush(r, goal)
    PROVE  Remain /\ Unloaded'
BY RunLocal DEF Remain, InFlight, Unloaded

-----------------------------------------------------------------------------
(* The invariant *)

LEMMA InvInit == Init => IInv
<1> SUFFICES ASSUME Init PROVE IInv
  OBVIOUS
<1>1. TypeOK
  BY TypeInit
<1>2. rows = {} /\ txn = {} /\ rows \cup txn = {} /\ live /\ InFlight = {}
  BY DEF Init, InFlight, Idle
<1>3. NextSeq({}) = 0 /\ SeqsOf({}) = {} /\ 0..(0 - 1) = {}
  BY DEF NextSeq, SeqsOf
<1>4. sess.cursor = 0 /\ sess.epoch = 0
  BY DEF Init
<1>5. Numbered({})
  BY <1>3 DEF Numbered
<1> QED BY <1>1, <1>2, <1>3, <1>4, <1>5 DEF IInv, Unloaded, TxnBehind, CursorsBehind, EpochsBehind

(* A flush that begins numbers its batch from the session's cursor. *)
LEMMA FlushStarts ==
    ASSUME IInv, NEW r \in Runs, NEW goal \in Goals, BeginFlush(r, goal)
    PROVE  IInv'
<1>1. TypeOK'
  BY FlushTypes DEF IInv
<1>2. /\ rows' = rows /\ txn' = txn /\ live' = live
      /\ sess'.cursor = sess.cursor /\ sess'.epoch = sess.epoch
  BY DEF BeginFlush, IInv, TypeOK, SessState
<1>3. run[r].pc # "off"
  BY DEF BeginFlush, Calls, CallsFrom, Goals
<1>4. live /\ Unloaded'
  BY <1>2, <1>3 DEF IInv, Unloaded
<1>5. /\ run'[r].flush.cursor = sess.cursor /\ run'[r].flush.epoch = sess.epoch
      /\ run'[r].flush.batch # <<>>
      /\ \A q \in Runs \ {r} : run'[q] = run[q]
  BY DEF BeginFlush, Prepared, IInv, TypeOK, RunState
<1>6. Numbered(rows)' /\ Numbered(rows \cup txn)' /\ TxnBehind'
  BY <1>2 DEF IInv, Numbered, NextSeq, SeqsOf, TxnBehind
<1>7. CursorsBehind'
  <2>1. NextSeq(rows)' = NextSeq(rows)
    BY <1>2 DEF NextSeq, SeqsOf
  <2> QED BY <1>2, <1>5, <2>1 DEF IInv, CursorsBehind, InFlight
<1>8. EpochsBehind'
  <2>1. NextSeq(rows)' = NextSeq(rows) /\ sess.epoch \in Nat
    BY <1>2 DEF NextSeq, SeqsOf, IInv, TypeOK, SessState
  <2>2. \A a \in rows : a.epoch <= sess.epoch
    BY <1>4 DEF IInv, EpochsBehind
  <2> QED BY <1>2, <1>5, <2>1, <2>2 DEF IInv, EpochsBehind, InFlight
<1> QED BY <1>1, <1>4, <1>6, <1>7, <1>8 DEF IInv

(* What a flush that succeeded does to the session. *)
LEMMA SucceedSession ==
    ASSUME NEW r, NEW f, NEW s \in SessState, Succeed(r, f, s)
    PROVE  /\ sess'.cursor = s.cursor
           /\ sess'.epoch = IF f.goal = "rebuild" THEN f.epoch + 1 ELSE s.epoch
BY DEF Succeed, Close, SessState

LEMMA RunInv ==
    ASSUME IInv, NEW r \in Runs, RunStep(r)
    PROVE  IInv'
<1> SUFFICES ASSUME ~ \E goal \in Goals : BeginFlush(r, goal) PROVE IInv'
  BY FlushStarts
<1>1. TypeOK /\ Unloaded /\ sess \in SessState /\ sess.epoch \in Nat /\ sess.cursor \in Nat
  BY DEF IInv, TypeOK, SessState
<1>2. Remain /\ Unloaded' /\ live /\ live' = live
  BY <1>1, RunRemain, RunLocal
<1>3. TypeOK'
  BY <1>1, LoopTypes, ViewTypes, FlushTypes, FaultTypes DEF RunStep
<1>4. \A s \in SessState : Close(r, s) => sess'.cursor = s.cursor /\ sess'.epoch = s.epoch
  BY DEF Close, SessState
<1>5. CASE UNCHANGED <<rows, txn>> /\ sess' = sess
  BY <1>1, <1>2, <1>3, <1>5, Still
<1>6. CASE Cancel(r)
  <2>1. sess'.cursor = sess.cursor /\ sess'.epoch = sess.epoch
    BY <1>1, <1>4, <1>6 DEF Cancel
  <2> QED BY <1>1, <1>2, <1>3, <1>6, <2>1, Still DEF Cancel
<1>7. ASSUME NEW goal \in Goals, EmptyFlush(r, goal) PROVE IInv'
  <2> DEFINE f == Prepared(r, goal)
             s == [sess EXCEPT !.reason = "none"]
  <2>1. s \in SessState /\ s.cursor = sess.cursor /\ s.epoch = sess.epoch
    BY <1>1 DEF SessState, Reasons
  <2>2. f.epoch = sess.epoch
    BY DEF Prepared
  <2>3. Succeed(r, f, s)
    BY <1>7 DEF EmptyFlush
  <2> HIDE DEF f, s
  <2>4. sess'.cursor = sess.cursor /\ sess'.epoch >= sess.epoch
    BY <1>1, <2>1, <2>2, <2>3, SucceedSession
  <2> QED BY <1>2, <1>3, <1>7, <2>4, Still DEF EmptyFlush
<1>8. CASE FlushDone(r)
  <2> DEFINE f == run[r].flush
             B == BatchRows(f)
             s == [sess EXCEPT !.cursor = f.cursor + Len(f.batch)]
  <2>1. r \in InFlight /\ Fits(f) /\ Succeed(r, f, s)
    BY <1>8 DEF FlushDone, InFlight
  <2>2. /\ txn = {} /\ f.epoch \in Nat /\ f.epoch <= sess.epoch
        /\ NextSeq(rows \cup B) = f.cursor + Len(f.batch)
        /\ Len(f.batch) \in Nat /\ Len(f.batch) > 0
        /\ f.cursor = NextSeq(rows)
    BY <2>1, Lands
  <2>3. rows' = rows \cup txn \cup B /\ txn' = {}
    BY <1>8 DEF FlushDone
  <2>4. f.cursor \in Nat
    BY <2>2, TxnLengthens
  <2>5. s \in SessState /\ s.cursor = f.cursor + Len(f.batch) /\ s.epoch = sess.epoch
    BY <1>1, <2>2, <2>4 DEF SessState
  <2> HIDE DEF s
  <2>6. sess'.cursor = f.cursor + Len(f.batch) /\ sess'.epoch >= f.epoch
    BY <1>1, <2>1, <2>2, <2>5, SucceedSession
  <2>7. NextSeq(rows') = f.cursor + Len(f.batch)
    BY <2>2, <2>3
  <2>8. rows' # rows
    <3>1. ASSUME rows' = rows PROVE FALSE
      BY <2>2, <2>4, <2>7, <3>1
    <3> QED BY <3>1
  <2>9. sess'.cursor <= NextSeq(rows')
    BY <2>2, <2>4, <2>6, <2>7
  <2> QED BY <1>2, <1>3, <2>1, <2>3, <2>6, <2>8, <2>9, Landed
<1>9. CASE FlushConflict(r)
  <2>1. sess'.cursor = sess.cursor /\ sess'.epoch = sess.epoch
    BY <1>1, <1>4, <1>9 DEF FlushConflict
  <2> QED BY <1>1, <1>2, <1>3, <1>9, <2>1, Still DEF FlushConflict
<1>10. CASE CancelFlush(r) \/ TimeoutFlush(r)
  <2> DEFINE f == run[r].flush
             B == BatchRows(f)
  <2>1. r \in InFlight /\ Abandoned(f)
    BY <1>10 DEF CancelFlush, TimeoutFlush, InFlight
  <2>2. sess'.cursor = sess.cursor /\ sess'.epoch = sess.epoch
    BY <1>1, <1>4, <1>10 DEF CancelFlush, TimeoutFlush
  <2>3. CASE ~Fits(f)
    BY <1>1, <1>2, <1>3, <2>1, <2>2, <2>3, Still DEF Abandoned
  <2>4. CASE Fits(f)
    <3>1. /\ txn = {} /\ f.epoch \in Nat /\ f.epoch <= sess.epoch
          /\ NextSeq(rows \cup B) = NextSeq(rows) + Len(f.batch)
          /\ Len(f.batch) \in Nat /\ Len(f.batch) > 0
      BY <2>1, <2>4, Lands
    <3>2. \/ rows' = rows /\ txn' = txn \cup B
          \/ rows' = rows \cup txn \cup B /\ txn' = {}
      BY <2>1, <2>4 DEF Abandoned
    <3>3. sess.cursor <= NextSeq(rows) /\ NextSeq(rows) \in Nat
      BY TxnLengthens DEF IInv, CursorsBehind
    <3>4. NextSeq(rows') = NextSeq(rows) \/ NextSeq(rows') = NextSeq(rows) + Len(f.batch)
      BY <3>1, <3>2
    <3>5. sess'.cursor <= NextSeq(rows')
      BY <1>1, <2>2, <3>1, <3>3, <3>4
    <3>6. sess'.epoch >= f.epoch
      BY <1>1, <2>2, <3>1
    <3> QED BY <1>2, <1>3, <2>1, <2>2, <2>4, <3>2, <3>5, <3>6, Landed
  <2> QED BY <2>3, <2>4
<1>11. CASE \/ Begin(r) \/ BuildView(r) \/ StartBatch(r) \/ Answer(r)
            \/ RepairHint(r) \/ StopLoop(r)
            \/ EndReadBatch(r) \/ EndWriteBatch(r) \/ EndBacktrackBatch(r)
            \/ Rebuild(r) \/ Summarise(r) \/ Fallback(r) \/ MessageFallbacks(r) \/ Timeout(r)
  <2>1. UNCHANGED <<rows, txn>> /\ sess' = sess
    BY <1>11 DEF Begin, BuildView, StartBatch, Answer, RepairHint, StopLoop, EndReadBatch, EndWriteBatch,
                 EndBacktrackBatch, Rebuild, Summarise, Fallback, MessageFallbacks, Timeout
  <2> QED BY <1>5, <2>1
<1> QED BY <1>6, <1>7, <1>8, <1>9, <1>10, <1>11 DEF RunStep

(* A commit of somebody else takes the uncommitted rows along; a flush that *)
(* is still current was so before and nothing was uncommitted.              *)
LEMMA OtherCommitInv == IInv /\ OtherCommit => IInv'
<1> SUFFICES ASSUME IInv, OtherCommit PROVE IInv'
  OBVIOUS
<1> DEFINE n == NextSeq(rows)
           m == NextSeq(rows \cup txn)
<1>1. TypeOK'
  BY FaultTypes DEF IInv
<1>2. /\ rows' = rows \cup txn /\ txn' = {} /\ sess' = sess /\ run' = run /\ live' = live
      /\ InFlight' = InFlight /\ Unloaded'
  BY DEF OtherCommit, InFlight, IInv, Unloaded
<1>3. n \in Nat /\ m \in Nat /\ n <= m /\ (n = m => txn = {})
  BY TxnLengthens
<1>4. \A q \in InFlight : run[q].flush.cursor \in Nat /\ run[q].flush.cursor <= n
  BY DEF IInv, CursorsBehind, TypeOK, InFlight, RunState, Flush
<1>5. sess.cursor <= n /\ sess.cursor \in Nat
  BY DEF IInv, CursorsBehind, TypeOK, SessState
<1>6. NextSeq(rows)' = m
  BY <1>2 DEF NextSeq, SeqsOf
<1>7. (rows \cup txn)' = rows \cup txn
  BY <1>2
<1>8. Numbered(rows)' /\ Numbered(rows \cup txn)'
  BY <1>2, <1>7 DEF IInv, Numbered, NextSeq, SeqsOf
<1> HIDE DEF n, m
<1>9. CursorsBehind'
  <2>1. \A q \in InFlight : run[q].flush.cursor <= m /\ run[q].flush.batch # <<>>
    BY <1>3, <1>4 DEF IInv, CursorsBehind
  <2>2. sess.cursor <= m
    BY <1>3, <1>5
  <2> QED BY <1>2, <1>6, <2>1, <2>2 DEF CursorsBehind
<1>10. EpochsBehind'
  <2>1. ASSUME NEW q \in InFlight, run[q].flush.cursor = m
        PROVE  /\ run[q].flush.epoch <= sess.epoch
               /\ \A a \in rows' : a.epoch <= run[q].flush.epoch
    <3>1. run[q].flush.cursor = n /\ rows' = rows
      BY <1>2, <1>3, <1>4, <2>1
    <3> QED BY <3>1 DEF IInv, EpochsBehind, n
  <2> QED BY <1>2, <1>6, <1>7, <2>1 DEF IInv, EpochsBehind
<1> QED BY <1>1, <1>2, <1>8, <1>9, <1>10 DEF IInv, TxnBehind

LEMMA CrashInv == IInv /\ Crash => IInv'
<1> SUFFICES ASSUME IInv, Crash PROVE IInv'
  OBVIOUS
<1>1. TypeOK' /\ Idle.pc = "off"
  BY FaultTypes DEF IInv, Idle
<1>2. InFlight' = {} /\ Unloaded' /\ Remain /\ ~live' /\ txn' = {} /\ sess' = sess
  BY <1>1 DEF Crash, InFlight, Unloaded, Remain
<1>3. sess.cursor <= NextSeq(rows) /\ sess.cursor \in Nat /\ NextSeq(rows) \in Nat
  BY TxnLengthens DEF IInv, CursorsBehind, TypeOK, SessState
<1>4. CASE rows' = rows
  <2>1. (rows \cup txn)' = rows
    BY <1>2, <1>4
  <2>2. Numbered(rows)' /\ Numbered(rows \cup txn)'
    BY <1>4, <2>1 DEF IInv, Numbered, NextSeq, SeqsOf
  <2>3. CursorsBehind' /\ EpochsBehind' /\ TxnBehind'
    BY <1>2, <1>3, <1>4, <2>1 DEF IInv, CursorsBehind, EpochsBehind, TxnBehind, NextSeq, SeqsOf
  <2> QED BY <1>1, <1>2, <2>2, <2>3 DEF IInv
<1>5. ASSUME NEW r \in Runs, run[r].pc = "flush", Fits(run[r].flush),
             rows' = rows \cup txn \cup BatchRows(run[r].flush)
      PROVE  IInv'
  <2> DEFINE f == run[r].flush
             B == BatchRows(f)
  <2>1. r \in InFlight
    BY <1>5 DEF InFlight
  <2>2. /\ txn = {} /\ NextSeq(rows \cup B) = NextSeq(rows) + Len(f.batch)
        /\ Len(f.batch) \in Nat /\ Len(f.batch) > 0
    BY <1>5, <2>1, Lands
  <2>3. NextSeq(rows') = NextSeq(rows) + Len(f.batch)
    BY <1>5, <2>2
  <2>4. sess'.cursor <= NextSeq(rows')
    BY <1>2, <1>3, <2>2, <2>3
  <2> QED BY <1>1, <1>2, <1>5, <2>1, <2>4, Landed
<1> QED BY <1>4, <1>5 DEF Crash

(* restore_session reads a numbered, ordered history. *)
LEMMA RestoreInv == IInv /\ Restore => IInv'
<1> SUFFICES ASSUME IInv, Restore PROVE IInv'
  OBVIOUS
<1> DEFINE n == NextSeq(rows)
<1>1. /\ rows \subseteq Row /\ SeqsOf(rows) = 0..(n - 1) /\ n \in Nat
      /\ \A a, b \in rows : a.seq = b.seq => a = b
      /\ \A a, b \in rows : a.seq < b.seq => a.epoch <= b.epoch
  BY DEF IInv, TypeOK, Numbered, EpochsBehind
<1>2. /\ ~live /\ live' /\ txn = {} /\ rows' = rows /\ txn' = txn
      /\ InFlight = {} /\ InFlight' = {} /\ Unloaded'
  BY DEF Restore, IInv, Unloaded, InFlight
<1>3. \A a \in rows : a.seq \in Nat /\ a.epoch \in Nat /\ a.id \in Nat /\ a.kind \in Kinds
  BY <1>1 DEF Row
<1>4. LastEpoch(rows) \in Nat /\ \A a \in rows : a.epoch <= LastEpoch(rows)
  <2>1. CASE rows = {}
    BY <2>1 DEF LastEpoch
  <2>2. CASE rows # {}
    <3> DEFINE E == {a.epoch : a \in rows}
               top == CHOOSE x \in E : \A k \in E : k <= x
    <3>1. \A a \in rows : a.seq \in SeqsOf(rows)
      BY DEF SeqsOf
    <3>2. n > 0 /\ n - 1 \in SeqsOf(rows)
      BY <1>1, <2>2, <3>1
    <3>3. PICK l \in rows : l.seq = n - 1
      BY <3>2 DEF SeqsOf
    <3>4. \A a \in rows : a.seq < l.seq \/ a = l
      BY <1>1, <3>1, <3>3
    <3>5. \A a \in rows : a.epoch <= l.epoch
      BY <1>1, <1>3, <3>4
    <3>6. l.epoch \in E /\ \A k \in E : k <= l.epoch
      BY <3>5
    <3>7. top \in E /\ \A k \in E : k <= top
      BY <3>6
    <3>8. LastEpoch(rows) = top
      BY <2>2 DEF LastEpoch
    <3>9. \A k \in E : k \in Nat
      BY <1>3
    <3>10. \A a \in rows : a.epoch \in E
      OBVIOUS
    <3> HIDE DEF top, E
    <3> QED BY <3>7, <3>8, <3>9, <3>10
  <2> QED BY <2>1, <2>2
<1>5. HistoryView(rows) \in Seq(Entry)
  <2>1. ASSUME NEW i \in 1..n
        PROVE  LET q == CHOOSE q \in rows : q.seq = i - 1
               IN  [id |-> q.id, kind |-> q.kind] \in Entry
    <3> DEFINE q == CHOOSE q \in rows : q.seq = i - 1
    <3>1. i - 1 \in SeqsOf(rows)
      BY <1>1
    <3>2. \E p \in rows : p.seq = i - 1
      BY <3>1 DEF SeqsOf
    <3>3. q \in rows
      BY <3>2
    <3> HIDE DEF q
    <3>4. [id |-> q.id, kind |-> q.kind] \in Entry
      BY <1>3, <3>3 DEF Entry
    <3> QED BY <3>4 DEF q
  <2> QED BY <1>1, <2>1 DEF HistoryView
<1>6. sess' \in SessState
  <2> DEFINE SeqEntry == Seq(Entry)
  <2>1. SessState = [cursor : Nat, epoch : Nat, reason : Reasons, msgs : SeqEntry]
    BY DEF SessState
  <2>2. HistoryView(rows) \in SeqEntry /\ "none" \in Reasons
    BY <1>5 DEF Reasons
  <2>3. sess' = [cursor |-> n, epoch |-> LastEpoch(rows), reason |-> "none",
                 msgs |-> HistoryView(rows)]
    BY DEF Restore
  <2> HIDE DEF SeqEntry, n
  <2> QED BY <1>1, <1>4, <2>1, <2>2, <2>3
<1>7. TypeOK'
  <2>1. plan' \in Stage
    BY StageTypes DEF Restore, IInv, TypeOK
  <2>2. marked' \subseteq Nat
    BY <1>3 DEF Restore, IdsOf
  <2> QED BY <1>2, <1>6, <2>1, <2>2 DEF Restore, IInv, TypeOK
<1>8. sess'.cursor = n /\ sess'.epoch = LastEpoch(rows)
  BY DEF Restore
<1>9. (rows \cup txn)' = rows
  BY <1>2
<1>10. Numbered(rows)' /\ Numbered(rows \cup txn)' /\ NextSeq(rows)' = n
  <2>1. NextSeq(rows') = n /\ Numbered(rows') /\ Numbered(rows' \cup txn')
    BY <1>2, <1>9 DEF IInv
  <2>2. NextSeq(rows)' = n
    BY <2>1 DEF NextSeq, SeqsOf
  <2>3. Numbered(rows)' /\ Numbered(rows \cup txn)'
    BY <2>1 DEF Numbered, NextSeq, SeqsOf
  <2> QED BY <2>2, <2>3
<1>11. CursorsBehind' /\ TxnBehind'
  BY <1>1, <1>2, <1>8, <1>10 DEF CursorsBehind, TxnBehind
<1>12. EpochsBehind'
  BY <1>1, <1>2, <1>4, <1>8, <1>9 DEF EpochsBehind
<1> QED BY <1>2, <1>7, <1>10, <1>11, <1>12 DEF IInv

LEMMA InvNext == IInv /\ [Next]_vars => IInv'
<1> SUFFICES ASSUME IInv, [Next]_vars PROVE IInv'
  OBVIOUS
<1>1. CASE UNCHANGED vars
  <2>1. /\ rows' = rows /\ txn' = txn /\ sess' = sess /\ run' = run /\ live' = live
        /\ InFlight' = InFlight /\ TypeOK'
    BY <1>1 DEF vars, InFlight, IInv, TypeOK
  <2>2. sess.epoch \in Nat
    BY DEF IInv, TypeOK, SessState
  <2>3. Remain /\ Unloaded'
    BY <2>1 DEF Remain, IInv, Unloaded
  <2> QED BY <2>1, <2>2, <2>3, Still
<1>2. ASSUME NEW r \in Runs, RunStep(r) PROVE IInv'
  BY <1>2, RunInv
<1>3. CASE RouteBacktrack
  <2>1. /\ rows' = rows /\ txn' = txn /\ sess' = sess /\ run' = run /\ live' = live
        /\ InFlight' = InFlight /\ TypeOK'
    BY <1>3, FaultTypes DEF RouteBacktrack, InFlight, IInv
  <2>2. sess.epoch \in Nat
    BY DEF IInv, TypeOK, SessState
  <2>3. Remain /\ Unloaded'
    BY <2>1 DEF Remain, IInv, Unloaded
  <2> QED BY <2>1, <2>2, <2>3, Still
<1> QED BY <1>1, <1>2, <1>3, OtherCommitInv, CrashInv, RestoreInv DEF Next

-----------------------------------------------------------------------------
(* The results *)

(* The invariant holds in every reachable state. *)
THEOREM Invariance == Spec => []IInv
<1>1. Init => IInv
  BY InvInit
<1>2. IInv /\ [Next]_vars => IInv'
  BY InvNext
<1> QED BY <1>1, <1>2, PTL DEF Spec

(* Every variable keeps its shape: in particular restore always finds rows  *)
(* from which it can rebuild a message list and an epoch.                   *)
THEOREM TypeCorrect == Spec => []TypeOK
<1>1. IInv => TypeOK
  BY DEF IInv
<1> QED BY <1>1, Invariance, PTL

(* The rows of a session are numbered 0, 1, 2, ..., whatever interleaves.   *)
THEOREM HistoryContiguous == Spec => []Contiguous
<1>1. IInv => Contiguous
  BY DEF IInv, Numbered, Contiguous
<1> QED BY <1>1, Invariance, PTL

(* The context epochs never decrease along the history. *)
THEOREM HistoryOrdered == Spec => []EpochsOrdered
<1>1. IInv => EpochsOrdered
  BY DEF IInv, EpochsBehind, EpochsOrdered
<1> QED BY <1>1, Invariance, PTL

-----------------------------------------------------------------------------
(* Every message once *)

(* No durable message of the list is in it twice, and all were created.     *)
Clean(view, m) ==
    /\ \A i, j \in DOMAIN view :
          view[i].kind # "turn" /\ view[j].kind # "turn" /\ view[i].id = view[j].id
             => i = j
    /\ \A i \in DOMAIN view : view[i].id <= m

(* The message lists of the session and of its runs, and the rows. *)
MessagesDistinct ==
    /\ Clean(sess.msgs, made)
    /\ \A r \in Runs : Clean(run[r].view, made) /\ run[r].orig.id <= made
    /\ \A r \in InFlight : LET batch == run[r].flush.batch
                           IN  /\ Clean(batch, made)
                               /\ \A i \in DOMAIN batch : batch[i].kind # "turn"
    /\ \A a \in rows \cup txn : a.id <= made

(* No message has two rows, those not committed included. *)
StoredOnce == \A a, b \in rows \cup txn : a.id = b.id => a = b

(* As long as a flush can land, the session knows all that is stored: a     *)
(* cursor that is up to date goes with flags that are.                      *)
FlagsFresh ==
    /\ live /\ sess.cursor = NextSeq(rows) => IdsOf(rows) \subseteq marked
    /\ \A r \in InFlight : run[r].flush.cursor = NextSeq(rows) =>
          /\ sess.cursor = NextSeq(rows)
          /\ \A i \in DOMAIN run[r].flush.batch :
                run[r].flush.batch[i].id \notin IdsOf(rows)

(* The inductive invariant behind NoDuplicateMessage and MarkedHasRow.      *)
SavedInv == MessagesDistinct /\ StoredOnce /\ FlagsFresh /\ MarkedHasRow

(* The entries Pick takes, each of them once. *)
LEMMA PickParts ==
    ASSUME NEW S, NEW view \in Seq(S), NEW I \in SUBSET DOMAIN view
    PROVE  /\ Cardinality(I) \in Nat
           /\ DOMAIN Pick(view, I) = 1..Cardinality(I)
           /\ \A k \in 1..Cardinality(I) :
                 Nth(k, I) \in I /\ Pick(view, I)[k] = view[Nth(k, I)]
           /\ \A k, l \in 1..Cardinality(I) : Nth(k, I) = Nth(l, I) => k = l
<1>1. DOMAIN view = 1..Len(view) /\ Len(view) \in Nat
  OBVIOUS
<1>2. IsFiniteSet(I) /\ I \in SUBSET Nat
  <2>1. IsFiniteSet(1..Len(view))
    BY <1>1, FS_Interval
  <2> QED BY <1>1, <2>1, FS_Subset
<1>3. Cardinality(I) \in Nat
  BY <1>2, FS_CardinalityType
<1>4. ASSUME NEW k \in 1..Cardinality(I)
      PROVE  Nth(k, I) \in I /\ Rank(Nth(k, I), I) = k - 1
  <2>1. \E i \in I : Rank(i, I) = k - 1
    BY <1>2, RankOnto
  <2> QED BY <2>1 DEF Nth
<1>5. ASSUME NEW k \in 1..Cardinality(I), NEW l \in 1..Cardinality(I),
             Nth(k, I) = Nth(l, I)
      PROVE  k = l
  <2>1. k - 1 = l - 1
    BY <1>4, <1>5
  <2> QED BY <1>3, <2>1
<1>6. DOMAIN Pick(view, I) = 1..Cardinality(I)
      /\ \A k \in 1..Cardinality(I) : Pick(view, I)[k] = view[Nth(k, I)]
  BY DEF Pick
<1> QED BY <1>3, <1>4, <1>5, <1>6

(* Leaving messages out of a view keeps it free of repetitions. *)
LEMMA CleanPick ==
    ASSUME NEW view \in Seq(Entry), NEW I \in SUBSET DOMAIN view, NEW m, Clean(view, m)
    PROVE  Clean(Pick(view, I), m)
<1> DEFINE p == Pick(view, I)
<1>1. \A k \in DOMAIN p : Nth(k, I) \in DOMAIN view /\ p[k] = view[Nth(k, I)]
  BY PickParts
<1>2. \A k, l \in DOMAIN p : Nth(k, I) = Nth(l, I) => k = l
  BY PickParts
<1> HIDE DEF p
<1> QED BY <1>1, <1>2 DEF Clean, p

(* What a view's typing says of its entries. *)
LEMMA Entries ==
    ASSUME NEW view \in Seq(Entry)
    PROVE  /\ Len(view) \in Nat /\ DOMAIN view = 1..Len(view)
           /\ \A i \in DOMAIN view : view[i] \in Entry /\ view[i].id \in Nat
<1>1. Len(view) \in Nat /\ DOMAIN view = 1..Len(view)
      /\ \A i \in DOMAIN view : view[i] \in Entry
  OBVIOUS
<1>2. \A e \in Entry : e.id \in Nat
  BY DEF Entry
<1> QED BY <1>1, <1>2

(* A view without repetitions stays one when more messages are made. *)
LEMMA CleanLater ==
    ASSUME NEW view \in Seq(Entry), NEW m \in Nat, NEW n \in Nat, m <= n, Clean(view, m)
    PROVE  Clean(view, n)
<1>1. \A i \in DOMAIN view : view[i].id \in Nat
  BY Entries
<1> QED BY <1>1 DEF Clean

(* The three ways a view grows by a new message. *)
LEMMA CleanNew ==
    ASSUME NEW view \in Seq(Entry), NEW m \in Nat, Clean(view, m),
           NEW e \in Entry, e.id = m + 1
    PROVE  /\ Clean(Append(view, e), m + 1)
           /\ Clean(view \o <<e, Turn>>, m + 1)
<1>1. /\ Len(view) \in Nat /\ DOMAIN view = 1..Len(view)
      /\ \A i \in 1..Len(view) : view[i] \in Entry /\ view[i].id \in Nat
  BY Entries
<1>2. Turn \in Entry /\ Turn.kind = "turn" /\ Turn.id = 0
  BY DEF Turn, Entry, Kinds
<1>3. Clean(Append(view, e), m + 1)
  <2> DEFINE v == Append(view, e)
  <2>1. /\ DOMAIN v = 1..(Len(view) + 1)
        /\ \A i \in 1..Len(view) : v[i] = view[i]
        /\ v[Len(view) + 1] = e
    BY <1>1
  <2> HIDE DEF v
  <2> QED BY <1>1, <2>1 DEF Clean, v
<1>4. Clean(view \o <<e, Turn>>, m + 1)
  <2> DEFINE v == view \o <<e, Turn>>
  <2>1. /\ DOMAIN v = 1..(Len(view) + 2)
        /\ \A i \in 1..Len(view) : v[i] = view[i]
        /\ v[Len(view) + 1] = e /\ v[Len(view) + 2] = Turn
    BY <1>1, <1>2
  <2>2. \A i \in DOMAIN v : i \in 1..Len(view) \/ i = Len(view) + 1 \/ i = Len(view) + 2
    BY <1>1, <2>1
  <2> HIDE DEF v
  <2>3. \A i \in DOMAIN v : v[i].kind # "turn" =>
           \/ i \in 1..Len(view) /\ v[i] = view[i]
           \/ i = Len(view) + 1 /\ v[i] = e
    BY <1>2, <2>1, <2>2
  <2>4. \A i \in DOMAIN v : v[i].id <= m + 1
    BY <1>1, <1>2, <2>1, <2>2 DEF Clean
  <2>5. \A i \in 1..Len(view) : view[i].id # e.id
    BY <1>1 DEF Clean
  <2>6. \A i, j \in DOMAIN v :
           v[i].kind # "turn" /\ v[j].kind # "turn" /\ v[i].id = v[j].id => i = j
    BY <1>1, <2>3, <2>5 DEF Clean
  <2> QED BY <2>4, <2>6 DEF Clean, v
<1> QED BY <1>3, <1>4

(* What a rebuild leaves of the view. *)
LEMMA CleanRebuilt ==
    ASSUME NEW o \in Entry, NEW m \in Nat, o.id <= m, NEW e \in Entry, e.id = m + 1
    PROVE  Clean(<<o, Turn>>, m) /\ Clean(<<o, e, Turn>>, m + 1)
<1>1. Turn.kind = "turn" /\ Turn.id = 0 /\ o.id \in Nat
  BY DEF Turn, Entry
<1>2. Clean(<<o, Turn>>, m)
  BY <1>1 DEF Clean
<1>3. Clean(<<o, e, Turn>>, m + 1)
  <2> DEFINE v == <<o, e, Turn>>
  <2>1. DOMAIN v = 1..3 /\ v[1] = o /\ v[2] = e /\ v[3] = Turn
    OBVIOUS
  <2> HIDE DEF v
  <2> QED BY <1>1, <2>1 DEF Clean, v
<1> QED BY <1>2, <1>3

(* A summary keeps two disjoint parts of the view around its own note.      *)
LEMMA CleanSummary ==
    ASSUME NEW view \in Seq(Entry), NEW m \in Nat, Clean(view, m),
           NEW I \in SUBSET DOMAIN view, NEW J \in SUBSET DOMAIN view, I \cap J = {},
           NEW e \in Entry, e.id = m + 1
    PROVE  Clean(Pick(view, I) \o <<e>> \o Pick(view, J), m + 1)
<1> DEFINE p == Pick(view, I)
           q == Pick(view, J)
           c == Cardinality(I)
           d == Cardinality(J)
           v == p \o <<e>> \o q
<1>1. /\ c \in Nat /\ DOMAIN p = 1..c /\ p \in Seq(Entry) /\ Len(p) = c
      /\ d \in Nat /\ DOMAIN q = 1..d /\ q \in Seq(Entry) /\ Len(q) = d
  BY PickParts, PickType
<1>2. /\ \A k \in 1..c : Nth(k, I) \in I /\ p[k] = view[Nth(k, I)]
      /\ \A k \in 1..d : Nth(k, J) \in J /\ q[k] = view[Nth(k, J)]
      /\ \A k, l \in 1..c : Nth(k, I) = Nth(l, I) => k = l
      /\ \A k, l \in 1..d : Nth(k, J) = Nth(l, J) => k = l
  BY PickParts
<1>3. \A i \in DOMAIN view : view[i].id \in Nat
  BY Entries
<1> HIDE DEF p, q, c, d
<1>4. /\ DOMAIN v = 1..(c + 1 + d)
      /\ \A k \in 1..c : v[k] = p[k]
      /\ v[c + 1] = e
      /\ \A k \in 1..d : v[c + 1 + k] = q[k]
  <2> DEFINE w == p \o <<e>>
  <2>1. w \in Seq(Entry) /\ Len(w) = c + 1 /\ w[c + 1] = e
    BY <1>1
  <2>2. \A k \in 1..c : w[k] = p[k]
    BY <1>1
  <2>3. v = w \o q
    OBVIOUS
  <2> HIDE DEF w, v
  <2>4. Len(v) = c + 1 + d /\ DOMAIN v = 1..(c + 1 + d)
    <3>1. q \in Seq(Entry) /\ Len(q) = d /\ c + 1 + d \in Nat
      BY <1>1
    <3>2. ASSUME NEW a \in Seq(Entry), NEW b \in Seq(Entry)
          PROVE  a \o b \in Seq(Entry) /\ Len(a \o b) = Len(a) + Len(b)
      OBVIOUS
    <3>3. v \in Seq(Entry) /\ Len(v) = Len(w) + Len(q)
      BY <2>1, <2>3, <3>1, <3>2
    <3> QED BY <2>1, <3>1, <3>3
  <2>5. \A k \in 1..(c + 1) : v[k] = w[k]
    BY <1>1, <2>1, <2>3
  <2>6. \A k \in 1..d : v[c + 1 + k] = q[k]
    BY <1>1, <2>1, <2>3
  <2>7. c + 1 \in 1..(c + 1) /\ \A k \in 1..c : k \in 1..(c + 1)
    BY <1>1
  <2> QED BY <2>1, <2>2, <2>4, <2>5, <2>6, <2>7
<1>9. c \in Nat /\ d \in Nat /\ DOMAIN v = 1..(c + 1 + d)
  BY <1>1, <1>4
<1> HIDE DEF v
<1> DEFINE at(k) == IF k <= c THEN Nth(k, I) ELSE Nth(k - c - 1, J)
<1>5. ASSUME NEW k \in DOMAIN v
      PROVE  \/ k = c + 1 /\ v[k] = e
             \/ k # c + 1 /\ at(k) \in DOMAIN view /\ v[k] = view[at(k)]
  <2>1. CASE k <= c
    BY <1>1, <1>2, <1>4, <2>1
  <2>2. CASE k = c + 1
    BY <1>4, <2>2
  <2>3. CASE k > c + 1
    <3>1. k - c - 1 \in 1..d /\ c + 1 + (k - c - 1) = k
      BY <1>9, <2>3
    <3>2. v[k] = q[k - c - 1]
      BY <1>4, <3>1
    <3>3. ~(k <= c) /\ k # c + 1
      BY <1>9, <2>3
    <3>4. at(k) = Nth(k - c - 1, J)
      BY <3>3
    <3>5. Nth(k - c - 1, J) \in J /\ q[k - c - 1] = view[Nth(k - c - 1, J)]
      BY <1>2, <3>1
    <3> QED BY <3>2, <3>3, <3>4, <3>5
  <2> QED BY <1>1, <1>4, <2>1, <2>2, <2>3
<1>6. ASSUME NEW k \in DOMAIN v, NEW l \in DOMAIN v, k # c + 1, l # c + 1, at(k) = at(l)
      PROVE  k = l
  <2>1. \A x \in DOMAIN v : x > c + 1 => x - c - 1 \in 1..d
    BY <1>1, <1>4
  <2>2. \A x \in DOMAIN v : x <= c \/ x = c + 1 \/ x > c + 1
    BY <1>1, <1>4
  <2>3. CASE k <= c /\ l <= c
    BY <1>1, <1>2, <1>4, <1>6, <2>3
  <2>4. CASE k > c + 1 /\ l > c + 1
    <3>1. k - c - 1 \in 1..d /\ l - c - 1 \in 1..d /\ ~(k <= c) /\ ~(l <= c)
      BY <1>9, <2>1, <2>4
    <3>2. Nth(k - c - 1, J) = Nth(l - c - 1, J)
      BY <1>6, <3>1
    <3>3. k - c - 1 = l - c - 1
      BY <1>2, <3>1, <3>2
    <3> QED BY <1>1, <1>4, <3>3
  <2>5. ASSUME NEW x \in DOMAIN v, NEW y \in DOMAIN v, x <= c, y > c + 1
        PROVE  at(x) # at(y)
    <3>1. x \in 1..c /\ y - c - 1 \in 1..d /\ ~(y <= c)
      BY <1>1, <1>4, <2>1, <2>5
    <3>2. at(x) \in I /\ at(y) \in J
      BY <1>2, <2>5, <3>1
    <3> QED BY <3>2
  <2> HIDE DEF at
  <2> QED BY <1>6, <2>2, <2>3, <2>4, <2>5
<1> HIDE DEF at
<1>7. \A k \in DOMAIN v : v[k].id <= m + 1
  BY <1>3, <1>5 DEF Clean
<1>8. ASSUME NEW k \in DOMAIN v, NEW l \in DOMAIN v,
             v[k].kind # "turn", v[l].kind # "turn", v[k].id = v[l].id
      PROVE  k = l
  <2>1. \A i \in DOMAIN view : view[i].id # m + 1
    BY <1>3 DEF Clean
  <2>2. CASE k = c + 1 \/ l = c + 1
    BY <1>5, <1>8, <2>1, <2>2
  <2>3. CASE k # c + 1 /\ l # c + 1
    BY <1>5, <1>6, <1>8, <2>3 DEF Clean
  <2> QED BY <2>2, <2>3
<1> QED BY <1>7, <1>8 DEF Clean, v, p, q

(* What a run's record and the session hold after a step of the run. *)
LEMMA ViewSteps ==
    ASSUME TypeOK, TypeOK', MessagesDistinct, NEW r \in Runs, RunStep(r)
    PROVE  /\ made' >= made
           /\ Clean(sess'.msgs, made')
           /\ Clean(run'[r].view, made') /\ run'[r].orig.id <= made'
<1> DEFINE view == run[r].view
           Held == Clean(run'[r].view, made') /\ run'[r].orig.id <= made'
<1>1. /\ run \in [Runs -> RunState] /\ run[r] \in RunState /\ view \in Seq(Entry)
      /\ sess \in SessState /\ sess.msgs \in Seq(Entry) /\ run[r].orig \in Entry
  BY DEF TypeOK, RunState, SessState
<1>2. /\ made \in Nat /\ made + 1 \in Nat
      /\ Clean(view, made) /\ Clean(sess.msgs, made) /\ run[r].orig.id <= made
  BY DEF TypeOK, MessagesDistinct
<1>3. run[r].orig.id \in Nat /\ Clean(view, made + 1) /\ run[r].orig.id <= made + 1
  <2>1. run[r].orig.id \in Nat
    BY <1>1 DEF Entry
  <2> HIDE DEF view
  <2> QED BY <1>1, <1>2, <2>1, CleanLater
<1>4. Clean(Durable(view), made) /\ Clean(Durable(sess.msgs), made)
  <2> HIDE DEF view
  <2> QED BY <1>1, <1>2, CleanPick DEF Durable
<1>5. Clean(<<>>, made) /\ Idle.view = <<>> /\ Idle.orig.id = 0 /\ 0 <= made
  BY <1>2 DEF Clean, Idle, Turn
<1>6. [id |-> made + 1, kind |-> "user"] \in Entry /\ [id |-> made + 1, kind |-> "asst"] \in Entry
      /\ [id |-> made + 1, kind |-> "app"] \in Entry /\ Turn \in Entry /\ Turn.id = 0
  BY <1>2 DEF Entry, Kinds, Turn
<1> HIDE DEF view
<1>7. ASSUME NEW s \in SessState, Clean(s.msgs, made), Close(r, s), made' = made
      PROVE  Held /\ Clean(sess'.msgs, made')
  <2>1. run'[r] = Idle
    BY <1>1, <1>7 DEF Close
  <2>2. sess'.msgs = Durable(view)
    BY <1>7 DEF Close, SessState, view
  <2> QED BY <1>4, <1>5, <1>7, <2>1, <2>2
<1>8. ASSUME NEW pc, run' = GoTo(r, pc), made' = made
      PROVE  Held
  <2>1. run'[r].view = Durable(view) /\ run'[r].orig = run[r].orig
    BY <1>1, <1>8 DEF GoTo, RunState, view
  <2> QED BY <1>2, <1>4, <1>8, <2>1
<1>9. ASSUME NEW f, NEW s \in SessState, s.msgs = sess.msgs, Succeed(r, f, s), made' = made
      PROVE  Held /\ Clean(sess'.msgs, made')
  <2>1. CASE Close(r, s)
    BY <1>2, <1>7, <1>9, <2>1
  <2>2. CASE ~Close(r, s)
    <3>1. Held
      BY <1>8, <1>9, <2>2 DEF Succeed
    <3>2. sess'.msgs = s.msgs
      BY <1>9, <2>2 DEF Succeed, SessState
    <3> QED BY <1>2, <1>9, <3>1, <3>2
  <2> QED BY <2>1, <2>2
<1>10. ASSUME UNCHANGED <<sess, made>>, run'[r].view = view, run'[r].orig = run[r].orig
       PROVE  made' >= made /\ Held /\ Clean(sess'.msgs, made')
  BY <1>2, <1>10
<1>11. ASSUME sess' = sess, made' = made + 1, Clean(run'[r].view, made + 1),
              run'[r].orig = run[r].orig
       PROVE  made' >= made /\ Held /\ Clean(sess'.msgs, made')
  BY <1>1, <1>2, <1>3, <1>11, CleanLater
<1> DEFINE Done == made' >= made /\ Held /\ Clean(sess'.msgs, made')
<1>12. CASE Begin(r)
  <2>1. run'[r].view = Durable(sess.msgs) /\ run'[r].orig = Idle.orig /\ sess' = sess /\ made' = made
    BY <1>1, <1>12 DEF Begin, Idle
  <2> QED BY <1>2, <1>4, <1>5, <2>1
<1>13. CASE BuildView(r)
  <2> DEFINE v == view \o <<[id |-> made + 1, kind |-> "user"], Turn>>
  <2>1. Clean(v, made + 1)
    BY <1>1, <1>2, <1>6, CleanNew
  <2>2. /\ run'[r].view = v /\ run'[r].orig = OriginalUserMessage(v)
        /\ sess' = sess /\ made' = made + 1
    BY <1>1, <1>13 DEF BuildView, RunState, view
  <2>3. v \in Seq(Entry)
    BY <1>1, <1>6
  <2> HIDE DEF v
  <2>4. OriginalUserMessage(v).id <= made + 1
    <3> DEFINE at == {i \in DOMAIN v : v[i].kind \in UserRole}
               last == CHOOSE i \in at : \A j \in at : j <= i
    <3>1. CASE OriginalUserMessage(v) = Turn
      BY <1>2, <1>6, <3>1
    <3>2. CASE at # {}
      <4>1. at \in SUBSET (1..Len(v)) /\ Len(v) \in Nat
        BY <2>3, Entries
      <4> HIDE DEF at
      <4>2. Max(at) \in at /\ \A j \in at : Max(at) >= j
        BY <3>2, <4>1, LastOfSome
      <4>5. \E i \in at : \A j \in at : j <= i
        BY <4>1, <4>2
      <4>3. last \in at
        BY <4>5
      <4>4. OriginalUserMessage(v) = v[last]
        BY <3>2 DEF OriginalUserMessage, at
      <4> QED BY <2>1, <4>3, <4>4 DEF Clean, at
    <3> QED BY <3>1, <3>2 DEF OriginalUserMessage
  <2>5. Clean(sess.msgs, made + 1)
    BY <1>1, <1>2, CleanLater
  <2> QED BY <1>2, <2>1, <2>2, <2>4, <2>5
<1>14. CASE StartBatch(r) \/ Answer(r)
  <2>1. Clean(Append(view, [id |-> made + 1, kind |-> "asst"]), made + 1)
    BY <1>1, <1>2, <1>6, CleanNew
  <2>2. /\ run'[r].view = Append(view, [id |-> made + 1, kind |-> "asst"])
        /\ run'[r].orig = run[r].orig /\ sess' = sess /\ made' = made + 1
    BY <1>1, <1>14 DEF StartBatch, Answer, RunState, view
  <2> QED BY <1>11, <2>1, <2>2
<1>15. CASE RepairHint(r)
  <2>1. Clean(view \o <<[id |-> made + 1, kind |-> "asst"], Turn>>, made + 1)
    BY <1>1, <1>2, <1>6, CleanNew
  <2>2. /\ run'[r].view = view \o <<[id |-> made + 1, kind |-> "asst"], Turn>>
        /\ run'[r].orig = run[r].orig /\ sess' = sess /\ made' = made + 1
    BY <1>1, <1>15 DEF RepairHint, RunState, view
  <2> QED BY <1>11, <2>1, <2>2
<1>16. ASSUME NEW now, NEW why, Detect(r, now, why)
       PROVE  run'[r].view = view /\ run'[r].orig = run[r].orig
  BY <1>1, <1>16 DEF Detect, RunState, view
<1>17. CASE \/ StopLoop(r) \/ EndReadBatch(r) \/ EndWriteBatch(r) \/ EndBacktrackBatch(r)
            \/ Fallback(r) \/ MessageFallbacks(r) \/ Timeout(r)
  <2>1. sess' = sess /\ made' = made
    BY <1>17 DEF StopLoop, EndReadBatch, EndWriteBatch, EndBacktrackBatch, Fallback,
                 MessageFallbacks, Timeout
  <2>2. CASE StopLoop(r) \/ Fallback(r) \/ MessageFallbacks(r) \/ Timeout(r)
    <3>1. run'[r].view = view /\ run'[r].orig = run[r].orig
      BY <1>1, <2>2 DEF StopLoop, Fallback, MessageFallbacks, Timeout, RunState, view
    <3> QED BY <1>10, <2>1, <3>1
  <2>3. CASE EndReadBatch(r) \/ EndWriteBatch(r) \/ EndBacktrackBatch(r)
    <3>1. run'[r].view = view /\ run'[r].orig = run[r].orig
      BY <1>16, <2>3 DEF EndReadBatch, EndWriteBatch, EndBacktrackBatch
    <3> QED BY <1>10, <2>1, <3>1
  <2> QED BY <1>17, <2>2, <2>3
<1>18. CASE Rebuild(r)
  <2> DEFINE notice == [id |-> made + 1,
                        kind |-> IF run[r].move.to < run[r].move.from THEN "app" ELSE "asst"]
  <2>1. notice \in Entry /\ notice.id = made + 1
    BY <1>6
  <2>2. /\ run'[r].orig = run[r].orig /\ sess' = sess
        /\ \/ run'[r].view = <<run[r].orig, Turn>> /\ made' = made
           \/ run'[r].view = <<run[r].orig, notice, Turn>> /\ made' = made + 1
    BY <1>1, <1>18 DEF Rebuild, RunState
  <2> HIDE DEF notice
  <2>3. Clean(<<run[r].orig, Turn>>, made) /\ Clean(<<run[r].orig, notice, Turn>>, made + 1)
    BY <1>1, <1>2, <2>1, CleanRebuilt
  <2>4. CASE made' = made /\ run'[r].view = <<run[r].orig, Turn>>
    BY <1>2, <2>2, <2>3, <2>4
  <2>5. CASE made' = made + 1 /\ run'[r].view = <<run[r].orig, notice, Turn>>
    BY <1>11, <2>2, <2>3, <2>5
  <2> QED BY <2>2, <2>4, <2>5
<1>19. CASE Summarise(r)
  <2> DEFINE recent == {i \in DOMAIN view : i > Len(view) - 4}
             note == [id |-> made + 1, kind |-> "app"]
  <2>1. PICK keep \in SUBSET DOMAIN view :
           run' = [run EXCEPT ![r].view = Pick(view, keep) \o <<note>> \o Pick(view, recent \ keep)]
    BY <1>19 DEF Summarise, view
  <2>2. note \in Entry /\ note.id = made + 1
    BY <1>6
  <2>3. recent \ keep \in SUBSET DOMAIN view /\ keep \cap (recent \ keep) = {}
    OBVIOUS
  <2> HIDE DEF note, recent
  <2>4. Clean(Pick(view, keep) \o <<note>> \o Pick(view, recent \ keep), made + 1)
    BY <1>1, <1>2, <2>2, <2>3, CleanSummary
  <2>5. /\ run'[r].view = Pick(view, keep) \o <<note>> \o Pick(view, recent \ keep)
        /\ run'[r].orig = run[r].orig /\ sess' = sess /\ made' = made + 1
    BY <1>1, <1>19, <2>1 DEF Summarise, RunState
  <2> QED BY <1>11, <2>4, <2>5
<1>20. ASSUME NEW goal \in Goals, BeginFlush(r, goal) PROVE Done
  <2>1. /\ run'[r].view = Durable(view) /\ run'[r].orig = run[r].orig
        /\ sess'.msgs = sess.msgs /\ made' = made
    BY <1>1, <1>20 DEF BeginFlush, RunState, SessState, view
  <2> QED BY <1>2, <1>4, <2>1
<1>21. ASSUME NEW goal \in Goals, EmptyFlush(r, goal) PROVE Done
  <2> DEFINE s == [sess EXCEPT !.reason = "none"]
  <2>1. s \in SessState /\ s.msgs = sess.msgs
    BY <1>1 DEF SessState, Reasons
  <2>2. Succeed(r, Prepared(r, goal), s) /\ made' = made
    BY <1>21 DEF EmptyFlush
  <2> HIDE DEF s
  <2> QED BY <1>2, <1>9, <2>1, <2>2
<1>22. CASE FlushDone(r)
  <2> DEFINE f == run[r].flush
             s == [sess EXCEPT !.cursor = f.cursor + Len(f.batch)]
  <2>1. s \in SessState /\ s.msgs = sess.msgs
    <3>1. f.cursor + Len(f.batch) \in Nat
      BY <1>1 DEF RunState, Flush
    <3> HIDE DEF f
    <3> QED BY <1>1, <3>1 DEF SessState
  <2>2. Succeed(r, f, s) /\ made' = made
    BY <1>22 DEF FlushDone
  <2> HIDE DEF s, f
  <2> QED BY <1>2, <1>9, <2>1, <2>2
<1>23. CASE FlushConflict(r) \/ CancelFlush(r) \/ TimeoutFlush(r)
  <2>1. made' = made
    BY <1>23 DEF FlushConflict, CancelFlush, TimeoutFlush
  <2>2. \/ Close(r, sess)
        \/ sess' = sess /\ \E pc \in {"rebuild", "safe", "tail"} : run' = GoTo(r, pc)
    BY <1>23 DEF FlushConflict, CancelFlush, TimeoutFlush
  <2>3. CASE Close(r, sess)
    BY <1>1, <1>2, <1>7, <2>1, <2>3
  <2>4. CASE sess' = sess /\ \E pc \in {"rebuild", "safe", "tail"} : run' = GoTo(r, pc)
    BY <1>2, <1>8, <2>1, <2>4
  <2> QED BY <2>2, <2>3, <2>4
<1>24. CASE Cancel(r)
  <2>1. made' = made
    BY <1>24 DEF Cancel
  <2>2. CASE Close(r, sess)
    BY <1>1, <1>2, <1>7, <2>1, <2>2
  <2>3. CASE run' = [run EXCEPT ![r] = Idle] /\ sess' = sess
    BY <1>1, <1>2, <1>5, <2>1, <2>3
  <2>4. CASE run' = [run EXCEPT ![r].pc = "safe"] /\ sess' = sess
    <3>1. run'[r].view = view /\ run'[r].orig = run[r].orig
      BY <1>1, <2>4 DEF RunState, view
    <3> QED BY <1>10, <2>1, <2>4, <3>1
  <2> QED BY <1>24, <2>2, <2>3, <2>4 DEF Cancel
<1> QED BY <1>12, <1>13, <1>14, <1>15, <1>17, <1>18, <1>19, <1>20, <1>21, <1>22,
           <1>23, <1>24 DEF RunStep

-----------------------------------------------------------------------------
(* What the steps do to the history *)

(* Nothing is written and no flush starts; the epoch may move on. *)
Quietly ==
    /\ rows' = rows /\ (txn' = txn \/ txn' = {}) /\ marked' = marked
    /\ Remain /\ live' = live /\ sess'.cursor = sess.cursor
    /\ \/ sess'.epoch = sess.epoch /\ sess'.reason \in {sess.reason, "none"}
       \/ live /\ sess'.epoch = sess.epoch + 1

(* The flush of r is committed and the session knows it. *)
Stores(r) ==
    LET f == run[r].flush
    IN  /\ r \in InFlight /\ Fits(f) /\ Remain /\ live /\ live'
        /\ rows' = rows \cup BatchRows(f) /\ txn' = {}
        /\ marked' = marked \cup {f.batch[i].id : i \in DOMAIN f.batch}
        /\ sess'.cursor = NextSeq(rows')
        /\ \/ sess'.epoch = sess.epoch /\ sess'.reason = sess.reason
           \/ sess'.epoch = f.epoch + 1

(* The flush of r is inserted, and nobody waits for the answer. *)
Leaves(r) ==
    LET f == run[r].flush
    IN  /\ r \in InFlight /\ Fits(f) /\ Remain /\ live /\ budget["cancel"] > 0
        /\ \/ rows' = rows /\ txn' = BatchRows(f)
           \/ rows' = rows \cup BatchRows(f) /\ txn' = {}
        /\ marked' = marked /\ sess'.cursor = sess.cursor
        /\ sess'.epoch = sess.epoch /\ sess'.reason = sess.reason

(* A run's step touches no stored message, stores a batch, leaves one, or begins a flush. *)
LEMMA RunEffects ==
    ASSUME IInv, NEW r \in Runs, RunStep(r)
    PROVE  \/ Quietly \/ Stores(r) \/ Leaves(r)
           \/ \E goal \in Goals : BeginFlush(r, goal)
<1> SUFFICES ASSUME ~ \E goal \in Goals : BeginFlush(r, goal)
             PROVE  Quietly \/ Stores(r) \/ Leaves(r)
  OBVIOUS
<1>1. TypeOK /\ Unloaded /\ sess \in SessState /\ sess.epoch \in Nat /\ sess.cursor \in Nat
  BY DEF IInv, TypeOK, SessState
<1>2. Remain /\ live /\ live' = live
  BY <1>1, RunRemain, RunLocal
<1>3. \A s \in SessState : Close(r, s) =>
         sess'.cursor = s.cursor /\ sess'.epoch = s.epoch /\ sess'.reason = s.reason
  BY DEF Close, SessState
<1>4. ASSUME NEW f, NEW s \in SessState, Succeed(r, f, s)
      PROVE  /\ sess'.cursor = s.cursor
             /\ \/ sess'.epoch = s.epoch /\ sess'.reason = s.reason
                \/ sess'.epoch = f.epoch + 1
  BY <1>3, <1>4 DEF Succeed, SessState
<1>5. CASE Cancel(r)
  <2>1. sess'.cursor = sess.cursor /\ sess'.epoch = sess.epoch /\ sess'.reason = sess.reason
    BY <1>1, <1>3, <1>5 DEF Cancel
  <2> QED BY <1>2, <1>5, <2>1 DEF Cancel, Quietly
<1>6. ASSUME NEW goal \in Goals, EmptyFlush(r, goal) PROVE Quietly
  <2> DEFINE f == Prepared(r, goal)
             s == [sess EXCEPT !.reason = "none"]
  <2>1. s \in SessState /\ s.cursor = sess.cursor /\ s.epoch = sess.epoch /\ s.reason = "none"
    BY <1>1 DEF SessState, Reasons
  <2>2. f.epoch = sess.epoch
    BY DEF Prepared
  <2>3. Succeed(r, f, s)
    BY <1>6 DEF EmptyFlush
  <2> HIDE DEF f, s
  <2>4. /\ sess'.cursor = sess.cursor
        /\ \/ sess'.epoch = sess.epoch /\ sess'.reason = "none"
           \/ sess'.epoch = sess.epoch + 1
    BY <1>4, <2>1, <2>2, <2>3
  <2> QED BY <1>2, <1>6, <2>4 DEF EmptyFlush, Quietly
<1>7. CASE FlushDone(r)
  <2> DEFINE f == run[r].flush
             s == [sess EXCEPT !.cursor = f.cursor + Len(f.batch)]
  <2>1. r \in InFlight /\ Fits(f) /\ Succeed(r, f, s)
    BY <1>7 DEF FlushDone, InFlight
  <2>2. /\ txn = {} /\ NextSeq(rows \cup BatchRows(f)) = f.cursor + Len(f.batch)
        /\ Len(f.batch) \in Nat /\ f.cursor = NextSeq(rows)
    BY <2>1, Lands
  <2>3. f.cursor \in Nat
    BY <2>2, TxnLengthens
  <2>4. s \in SessState /\ s.cursor = f.cursor + Len(f.batch) /\ s.epoch = sess.epoch
        /\ s.reason = sess.reason
    <3> HIDE DEF f
    <3>1. f.cursor + Len(f.batch) \in Nat
      BY <2>2, <2>3
    <3> QED BY <1>1, <3>1 DEF SessState
  <2> HIDE DEF s
  <2>5. /\ sess'.cursor = f.cursor + Len(f.batch)
        /\ \/ sess'.epoch = sess.epoch /\ sess'.reason = sess.reason
           \/ sess'.epoch = f.epoch + 1
    BY <1>4, <2>1, <2>4
  <2>6. rows' = rows \cup BatchRows(f)
    BY <1>7, <2>2 DEF FlushDone
  <2> QED BY <1>2, <1>7, <2>1, <2>2, <2>5, <2>6 DEF FlushDone, Stores
<1>8. CASE FlushConflict(r)
  <2>1. sess'.cursor = sess.cursor /\ sess'.epoch = sess.epoch /\ sess'.reason = sess.reason
    BY <1>1, <1>3, <1>8 DEF FlushConflict
  <2> QED BY <1>2, <1>8, <2>1 DEF FlushConflict, Quietly
<1>9. CASE CancelFlush(r) \/ TimeoutFlush(r)
  <2> DEFINE f == run[r].flush
  <2>1. r \in InFlight /\ Abandoned(f) /\ marked' = marked /\ budget["cancel"] > 0
    BY <1>9 DEF CancelFlush, TimeoutFlush, InFlight, Spend
  <2>2. sess'.cursor = sess.cursor /\ sess'.epoch = sess.epoch /\ sess'.reason = sess.reason
    BY <1>1, <1>3, <1>9 DEF CancelFlush, TimeoutFlush
  <2>3. CASE ~Fits(f)
    BY <1>2, <2>1, <2>2, <2>3 DEF Abandoned, Quietly
  <2>4. CASE Fits(f)
    <3>1. txn = {}
      BY <2>1, <2>4, Lands
    <3> QED BY <1>2, <2>1, <2>2, <2>4, <3>1 DEF Abandoned, Leaves
  <2> QED BY <2>3, <2>4
<1>10. CASE \/ Begin(r) \/ BuildView(r) \/ StartBatch(r) \/ Answer(r)
            \/ RepairHint(r) \/ StopLoop(r)
            \/ EndReadBatch(r) \/ EndWriteBatch(r) \/ EndBacktrackBatch(r)
            \/ Rebuild(r) \/ Summarise(r) \/ Fallback(r) \/ MessageFallbacks(r) \/ Timeout(r)
  <2>1. UNCHANGED <<rows, txn, marked>> /\ sess' = sess
    BY <1>10 DEF Begin, BuildView, StartBatch, Answer, RepairHint, StopLoop, EndReadBatch,
                 EndWriteBatch, EndBacktrackBatch, Rebuild, Summarise, Fallback,
                 MessageFallbacks, Timeout
  <2> QED BY <1>2, <2>1 DEF Quietly
<1> QED BY <1>5, <1>6, <1>7, <1>8, <1>9, <1>10 DEF RunStep

(* The rows of a batch, one for each of its messages. *)
LEMMA RowsOfBatch ==
    ASSUME NEW f \in Flush
    PROVE  /\ \A b \in BatchRows(f) : \E i \in DOMAIN f.batch :
                 /\ b.id = f.batch[i].id /\ b.seq = f.cursor + i - 1 /\ b.epoch = f.epoch
                 /\ b.phase = f.phase /\ b.step = f.step
                 /\ b.reason = IF i = 1 THEN f.reason ELSE "none"
           /\ \A i \in DOMAIN f.batch : \E b \in BatchRows(f) : b.id = f.batch[i].id
           /\ \A b, c \in BatchRows(f) : b.seq = c.seq => b = c
<1>1. f.cursor \in Nat /\ DOMAIN f.batch \subseteq Nat
  BY DEF Flush
<1>2. \A b \in BatchRows(f) : \E i \in DOMAIN f.batch :
         b = [seq |-> f.cursor + i - 1, id |-> f.batch[i].id, kind |-> f.batch[i].kind,
              epoch |-> f.epoch, phase |-> f.phase, step |-> f.step,
              reason |-> IF i = 1 THEN f.reason ELSE "none"]
  BY DEF BatchRows
<1>3. ASSUME NEW i \in DOMAIN f.batch
      PROVE  \E b \in BatchRows(f) : b.id = f.batch[i].id
  <2> DEFINE b == [seq |-> f.cursor + i - 1, id |-> f.batch[i].id, kind |-> f.batch[i].kind,
                   epoch |-> f.epoch, phase |-> f.phase, step |-> f.step,
                   reason |-> IF i = 1 THEN f.reason ELSE "none"]
  <2>1. b \in BatchRows(f)
    BY DEF BatchRows
  <2>2. b.id = f.batch[i].id
    OBVIOUS
  <2> QED BY <2>1, <2>2
<1>4. ASSUME NEW b \in BatchRows(f), NEW c \in BatchRows(f), b.seq = c.seq PROVE b = c
  <2>1. PICK i \in DOMAIN f.batch :
           b = [seq |-> f.cursor + i - 1, id |-> f.batch[i].id, kind |-> f.batch[i].kind,
                epoch |-> f.epoch, phase |-> f.phase, step |-> f.step,
                reason |-> IF i = 1 THEN f.reason ELSE "none"]
    BY <1>2
  <2>2. PICK j \in DOMAIN f.batch :
           c = [seq |-> f.cursor + j - 1, id |-> f.batch[j].id, kind |-> f.batch[j].kind,
                epoch |-> f.epoch, phase |-> f.phase, step |-> f.step,
                reason |-> IF j = 1 THEN f.reason ELSE "none"]
    BY <1>2
  <2>3. i = j
    BY <1>1, <1>4, <2>1, <2>2
  <2> QED BY <2>1, <2>2, <2>3
<1> QED BY <1>2, <1>3, <1>4

(* A flush that lands writes messages that were not stored before. *)
LEMMA LandsOnce ==
    ASSUME IInv, SavedInv, NEW r \in InFlight, Fits(run[r].flush)
    PROVE  LET S == rows \cup BatchRows(run[r].flush)
           IN  /\ \A a, b \in S : a.id = b.id => a = b
               /\ \A a \in S : a.id <= made
<1> DEFINE f == run[r].flush
           B == BatchRows(f)
<1>1. f \in Flush /\ f.cursor = NextSeq(rows)
  BY Lands DEF IInv, TypeOK, InFlight, RunState
<1>2. /\ \A i, j \in DOMAIN f.batch : f.batch[i].id = f.batch[j].id => i = j
      /\ \A i \in DOMAIN f.batch : f.batch[i].id <= made
  BY DEF SavedInv, MessagesDistinct, Clean
<1>3. \A i \in DOMAIN f.batch : f.batch[i].id \notin IdsOf(rows)
  BY <1>1 DEF SavedInv, FlagsFresh
<1> HIDE DEF f
<1>4. ASSUME NEW b \in B PROVE b.id <= made /\ b.id \notin IdsOf(rows)
  BY <1>1, <1>2, <1>3, RowsOfBatch
<1>5. ASSUME NEW b \in B, NEW c \in B, b.id = c.id PROVE b = c
  <2>1. b.seq = c.seq
    BY <1>1, <1>2, <1>5, RowsOfBatch
  <2> QED BY <1>1, <2>1, RowsOfBatch
<1>6. \A a, b \in rows : a.id = b.id => a = b
  BY DEF SavedInv, StoredOnce
<1>7. \A a \in rows : a.id <= made /\ a.id \in IdsOf(rows)
  BY DEF SavedInv, MessagesDistinct, IdsOf
<1> HIDE DEF B
<1> QED BY <1>4, <1>5, <1>6, <1>7 DEF f, B

-----------------------------------------------------------------------------
(* The rows and the flags, effect by effect *)

Kept == StoredOnce' /\ FlagsFresh' /\ MarkedHasRow' /\ \A a \in rows' \cup txn' : a.id <= made

(* A step that stores nothing. *)
LEMMA QuietKeeps ==
    ASSUME IInv, SavedInv, Quietly
    PROVE  Kept
<1>1. rows' \cup txn' \subseteq rows \cup txn /\ rows' = rows /\ marked' = marked /\ live' = live
  BY DEF Quietly
<1>2. StoredOnce' /\ MarkedHasRow' /\ \A a \in rows' \cup txn' : a.id <= made
  BY <1>1 DEF SavedInv, StoredOnce, MarkedHasRow, IdsOf, MessagesDistinct
<1>3. NextSeq(rows)' = NextSeq(rows) /\ IdsOf(rows)' = IdsOf(rows)
  BY <1>1 DEF NextSeq, SeqsOf, IdsOf
<1>4. FlagsFresh'
  BY <1>1, <1>3 DEF Quietly, Remain, SavedInv, FlagsFresh
<1> QED BY <1>2, <1>4 DEF Kept

(* Once the rows have grown, no flush under way can land any more. *)
LEMMA GrownStale ==
    ASSUME IInv, Remain, NEW n \in Nat, n > NextSeq(rows)
    PROVE  /\ \A q \in InFlight' : run'[q].flush.cursor # n
           /\ sess.cursor # n
<1>1. NextSeq(rows) \in Nat
  BY TxnLengthens
<1>2. \A q \in InFlight : run[q].flush.cursor \in Nat /\ run[q].flush.cursor <= NextSeq(rows)
  BY DEF IInv, CursorsBehind, TypeOK, InFlight, RunState, Flush
<1>3. sess.cursor \in Nat /\ sess.cursor <= NextSeq(rows)
  BY DEF IInv, CursorsBehind, TypeOK, SessState
<1> QED BY <1>1, <1>2, <1>3 DEF Remain

(* A batch that lands makes the history longer. *)
LEMMA LandedLength ==
    ASSUME IInv, NEW r \in InFlight, Fits(run[r].flush)
    PROVE  LET n == NextSeq(rows \cup BatchRows(run[r].flush))
           IN  n \in Nat /\ n > NextSeq(rows)
<1>1. /\ NextSeq(rows \cup BatchRows(run[r].flush)) = NextSeq(rows) + Len(run[r].flush.batch)
      /\ Len(run[r].flush.batch) \in Nat /\ Len(run[r].flush.batch) > 0
  BY Lands
<1> QED BY <1>1, TxnLengthens

LEMMA StoreKeeps ==
    ASSUME IInv, SavedInv, NEW r \in Runs, Stores(r)
    PROVE  Kept
<1> DEFINE f == run[r].flush
           B == BatchRows(f)
           n == NextSeq(rows \cup B)
<1>1. r \in InFlight /\ Fits(f) /\ rows' = rows \cup B /\ txn' = {} /\ Remain /\ live /\ live'
      /\ marked' = marked \cup {f.batch[i].id : i \in DOMAIN f.batch}
  BY DEF Stores
<1>2. f \in Flush /\ f.cursor = NextSeq(rows)
  BY <1>1, Lands DEF IInv, TypeOK, InFlight, RunState
<1>3. IdsOf(rows) \subseteq marked /\ marked \subseteq IdsOf(rows)
  BY <1>1, <1>2 DEF SavedInv, FlagsFresh, MarkedHasRow
<1>4. StoredOnce' /\ \A a \in rows' \cup txn' : a.id <= made
  BY <1>1, LandsOnce DEF StoredOnce
<1>5. n \in Nat /\ n > NextSeq(rows) /\ NextSeq(rows)' = n
  <2>1. n \in Nat /\ n > NextSeq(rows)
    BY <1>1, LandedLength
  <2>2. NextSeq(rows') = n
    BY <1>1
  <2>3. NextSeq(rows)' = NextSeq(rows')
    BY DEF NextSeq, SeqsOf
  <2> QED BY <2>1, <2>2, <2>3
<1> HIDE DEF n
<1>6. \A q \in InFlight' : run'[q].flush.cursor # n
  BY <1>1, <1>5, GrownStale
<1> HIDE DEF f
<1>7. IdsOf(rows') = marked'
  <2>1. \A b \in B : b.id \in {f.batch[i].id : i \in DOMAIN f.batch}
    BY <1>2, RowsOfBatch
  <2>2. \A i \in DOMAIN f.batch : \E b \in B : b.id = f.batch[i].id
    BY <1>2, RowsOfBatch
  <2> HIDE DEF B
  <2> QED BY <1>1, <1>3, <2>1, <2>2 DEF IdsOf
<1>8. FlagsFresh' /\ MarkedHasRow'
  BY <1>1, <1>5, <1>6, <1>7 DEF FlagsFresh, MarkedHasRow, IdsOf
<1> QED BY <1>4, <1>8 DEF Kept

LEMMA LeaveKeeps ==
    ASSUME IInv, SavedInv, NEW r \in Runs, Leaves(r)
    PROVE  Kept
<1> DEFINE f == run[r].flush
           B == BatchRows(f)
           n == NextSeq(rows \cup B)
<1>1. /\ r \in InFlight /\ Fits(f) /\ Remain /\ live
      /\ marked' = marked /\ sess'.cursor = sess.cursor
      /\ rows' \cup txn' = rows \cup B
      /\ rows' = rows \/ rows' = rows \cup B
  BY DEF Leaves
<1>2. StoredOnce' /\ \A a \in rows' \cup txn' : a.id <= made
  BY <1>1, LandsOnce DEF StoredOnce
<1>3. MarkedHasRow'
  BY <1>1 DEF SavedInv, MarkedHasRow, IdsOf
<1>4. CASE rows' = rows
  <2>1. NextSeq(rows)' = NextSeq(rows) /\ IdsOf(rows)' = IdsOf(rows)
    BY <1>4 DEF NextSeq, SeqsOf, IdsOf
  <2>2. FlagsFresh'
    BY <1>1, <1>4, <2>1 DEF Remain, SavedInv, FlagsFresh
  <2> QED BY <1>2, <1>3, <2>2 DEF Kept
<1>5. CASE rows' = rows \cup B
  <2>1. n \in Nat /\ n > NextSeq(rows) /\ NextSeq(rows)' = n
    <3>1. n \in Nat /\ n > NextSeq(rows)
      BY <1>1, LandedLength
    <3>2. NextSeq(rows') = n
      BY <1>5
    <3>3. NextSeq(rows)' = NextSeq(rows')
      BY DEF NextSeq, SeqsOf
    <3> QED BY <3>1, <3>2, <3>3
  <2> HIDE DEF n
  <2>2. (\A q \in InFlight' : run'[q].flush.cursor # n) /\ sess.cursor # n
    BY <1>1, <2>1, GrownStale
  <2>3. FlagsFresh'
    BY <1>1, <2>1, <2>2 DEF FlagsFresh
  <2> QED BY <1>2, <1>3, <2>3 DEF Kept
<1> QED BY <1>1, <1>4, <1>5

LEMMA StartKeeps ==
    ASSUME IInv, SavedInv, NEW r \in Runs, NEW goal \in Goals, BeginFlush(r, goal)
    PROVE  Kept
<1>1. /\ rows' = rows /\ txn' = txn /\ marked' = marked /\ live' = live
      /\ sess'.cursor = sess.cursor
  BY DEF BeginFlush, IInv, TypeOK, SessState
<1>2. run[r].pc # "off"
  BY DEF BeginFlush, Calls, CallsFrom, Goals
<1>3. live
  BY <1>2 DEF IInv, Unloaded
<1>4. StoredOnce' /\ MarkedHasRow' /\ \A a \in rows' \cup txn' : a.id <= made
  BY <1>1 DEF SavedInv, StoredOnce, MarkedHasRow, IdsOf, MessagesDistinct
<1>5. NextSeq(rows)' = NextSeq(rows) /\ IdsOf(rows)' = IdsOf(rows)
  BY <1>1 DEF NextSeq, SeqsOf, IdsOf
<1>6. /\ \A q \in Runs \ {r} : run'[q] = run[q]
      /\ run'[r].flush.batch = Unsaved(run[r].view) /\ run'[r].flush.cursor = sess.cursor
  BY DEF BeginFlush, Prepared, IInv, TypeOK, RunState
<1>7. \A i \in DOMAIN Unsaved(run[r].view) : Unsaved(run[r].view)[i].id \notin marked
  <2> DEFINE view == run[r].view
  <2>1. view \in Seq(Entry)
    BY DEF IInv, TypeOK, RunState
  <2> DEFINE I == {i \in DOMAIN view : view[i].kind # "turn" /\ view[i].id \notin marked}
  <2> HIDE DEF view
  <2>2. \A k \in DOMAIN Pick(view, I) : Nth(k, I) \in I /\ Pick(view, I)[k] = view[Nth(k, I)]
    BY <2>1, PickParts
  <2> QED BY <2>2 DEF Unsaved, view
<1>8. FlagsFresh'
  <2>1. live /\ sess'.cursor = NextSeq(rows)' => IdsOf(rows)' \subseteq marked'
    BY <1>1, <1>3, <1>5 DEF SavedInv, FlagsFresh
  <2>2. ASSUME NEW q \in InFlight', run'[q].flush.cursor = NextSeq(rows)'
        PROVE  /\ sess'.cursor = NextSeq(rows)'
               /\ \A i \in DOMAIN run'[q].flush.batch : run'[q].flush.batch[i].id \notin IdsOf(rows)'
    <3>1. CASE q = r
      BY <1>1, <1>5, <1>6, <1>7, <2>1, <2>2, <3>1, <1>3
    <3>2. CASE q # r
      <4>1. q \in InFlight /\ run'[q] = run[q]
        BY <1>6, <3>2 DEF InFlight
      <4> QED BY <1>1, <1>5, <2>2, <4>1 DEF SavedInv, FlagsFresh
    <3> QED BY <3>1, <3>2
  <2> QED BY <1>1, <2>1, <2>2 DEF FlagsFresh
<1> QED BY <1>4, <1>8 DEF Kept

LEMMA CommitKeeps ==
    ASSUME IInv, SavedInv, OtherCommit
    PROVE  Kept
<1>1. /\ rows' = rows \cup txn /\ txn' = {} /\ txn # {}
      /\ marked' = marked /\ live' = live /\ sess' = sess /\ run' = run
  BY DEF OtherCommit
<1>2. StoredOnce' /\ MarkedHasRow' /\ \A a \in rows' \cup txn' : a.id <= made
  BY <1>1 DEF SavedInv, StoredOnce, MarkedHasRow, IdsOf, MessagesDistinct
<1> DEFINE n == NextSeq(rows \cup txn)
<1>3. n \in Nat /\ n > NextSeq(rows) /\ NextSeq(rows)' = n
  <2>1. n \in Nat /\ n > NextSeq(rows)
    BY <1>1, TxnLengthens
  <2>2. NextSeq(rows') = n /\ NextSeq(rows)' = NextSeq(rows')
    BY <1>1 DEF NextSeq, SeqsOf
  <2> QED BY <2>1, <2>2
<1>4. Remain
  BY <1>1 DEF Remain, InFlight
<1> HIDE DEF n
<1>5. (\A q \in InFlight' : run'[q].flush.cursor # n) /\ sess.cursor # n
  BY <1>3, <1>4, GrownStale
<1>6. FlagsFresh'
  BY <1>1, <1>3, <1>5 DEF FlagsFresh
<1> QED BY <1>2, <1>6 DEF Kept

LEMMA CrashKeeps ==
    ASSUME IInv, SavedInv, Crash
    PROVE  Kept
<1>1. InFlight' = {} /\ ~live' /\ txn' = {}
  BY DEF Crash, InFlight, Idle
<1>2. FlagsFresh' /\ MarkedHasRow'
  BY <1>1 DEF FlagsFresh, MarkedHasRow
<1>3. CASE rows' = rows
  BY <1>1, <1>2, <1>3 DEF SavedInv, StoredOnce, MessagesDistinct, Kept
<1>4. ASSUME NEW r \in Runs, run[r].pc = "flush", Fits(run[r].flush),
             rows' = rows \cup txn \cup BatchRows(run[r].flush)
      PROVE  Kept
  <2>1. r \in InFlight
    BY <1>4 DEF InFlight
  <2>2. txn = {}
    BY <1>4, <2>1, Lands
  <2>3. rows' \cup txn' = rows \cup BatchRows(run[r].flush)
    BY <1>1, <1>4, <2>2
  <2>4. StoredOnce' /\ \A a \in rows' \cup txn' : a.id <= made
    BY <1>4, <2>1, <2>3, LandsOnce DEF StoredOnce
  <2> QED BY <1>2, <2>4 DEF Kept
<1> QED BY <1>3, <1>4 DEF Crash

(* The restored list has one entry per row. *)
LEMMA RestoreKeeps ==
    ASSUME IInv, SavedInv, Restore
    PROVE  Kept /\ Clean(sess'.msgs, made)
<1>1. /\ ~live /\ rows' = rows /\ txn' = txn /\ marked' = IdsOf(rows) /\ run' = run
      /\ sess'.msgs = HistoryView(rows)
  BY DEF Restore
<1>2. InFlight' = {} /\ txn = {}
  BY <1>1 DEF IInv, Unloaded, InFlight
<1>3. Kept
  BY <1>1, <1>2 DEF SavedInv, StoredOnce, MessagesDistinct, Kept, FlagsFresh, MarkedHasRow, IdsOf
<1> DEFINE n == NextSeq(rows)
           at(i) == CHOOSE q \in rows : q.seq = i - 1
           v == HistoryView(rows)
<1>4. n \in Nat /\ SeqsOf(rows) = 0..(n - 1)
  BY DEF IInv, Numbered
<1>5. ASSUME NEW i \in 1..n PROVE at(i) \in rows /\ at(i).seq = i - 1
  <2>1. i - 1 \in SeqsOf(rows)
    BY <1>4
  <2>2. \E q \in rows : q.seq = i - 1
    BY <2>1 DEF SeqsOf
  <2> QED BY <2>2
<1>6. DOMAIN v = 1..n /\ \A i \in 1..n : v[i].id = at(i).id
  BY DEF HistoryView
<1> HIDE DEF at, v, n
<1>7. \A i \in DOMAIN v : v[i].id <= made
  BY <1>5, <1>6 DEF SavedInv, MessagesDistinct
<1>8. ASSUME NEW i \in DOMAIN v, NEW j \in DOMAIN v, v[i].id = v[j].id PROVE i = j
  <2>1. at(i) = at(j)
    BY <1>5, <1>6, <1>8 DEF SavedInv, StoredOnce
  <2>2. i - 1 = j - 1
    BY <1>5, <1>6, <2>1
  <2> QED BY <1>4, <1>6, <2>2
<1>9. Clean(v, made)
  BY <1>7, <1>8 DEF Clean
<1> QED BY <1>1, <1>3, <1>9 DEF v

LEMMA SavedInit == Init => SavedInv
<1> SUFFICES ASSUME Init PROVE SavedInv
  OBVIOUS
<1>1. /\ rows = {} /\ txn = {} /\ marked = {} /\ made = 0 /\ sess.msgs = <<>> /\ InFlight = {}
      /\ \A r \in Runs : run[r].view = <<>> /\ run[r].orig.id = 0
  BY DEF Init, InFlight, Idle, Turn
<1>2. Clean(<<>>, 0)
  BY DEF Clean
<1> QED BY <1>1, <1>2 DEF SavedInv, MessagesDistinct, StoredOnce, FlagsFresh, MarkedHasRow, IdsOf

LEMMA SavedNext == IInv /\ SavedInv /\ [Next]_vars => SavedInv'
<1> SUFFICES ASSUME IInv, SavedInv, [Next]_vars PROVE SavedInv'
  OBVIOUS
<1>1. IInv' /\ TypeOK /\ TypeOK'
  BY InvNext DEF IInv
<1>2. /\ made \in Nat /\ made' \in Nat /\ rows' \cup txn' \subseteq Row
      /\ run \in [Runs -> RunState] /\ run' \in [Runs -> RunState]
      /\ \A q \in Runs : run[q].view \in Seq(Entry) /\ run[q].flush.batch \in Seq(Entry)
                         /\ run[q].orig.id \in Nat
  BY <1>1 DEF TypeOK, RunState, Flush, Entry
<1>3. ASSUME Kept, made' >= made PROVE \A a \in rows' \cup txn' : a.id <= made'
  <2>1. \A a \in rows' \cup txn' : a.id \in Nat /\ a.id <= made
    BY <1>2, <1>3 DEF Kept, Row
  <2> QED BY <1>2, <1>3, <2>1
<1>4. ASSUME NEW r \in Runs, RunStep(r) PROVE SavedInv'
  <2>1. made' >= made /\ Clean(sess'.msgs, made')
        /\ Clean(run'[r].view, made') /\ run'[r].orig.id <= made'
    BY <1>1, <1>4, ViewSteps DEF SavedInv
  <2>2. Kept
    BY <1>4, RunEffects, QuietKeeps, StoreKeeps, LeaveKeeps, StartKeeps
  <2>3. \A q \in Runs \ {r} : run'[q] = run[q]
    <3>1. CASE \E goal \in Goals : BeginFlush(r, goal)
      BY <1>2, <3>1 DEF BeginFlush
    <3>2. CASE ~ \E goal \in Goals : BeginFlush(r, goal)
      BY <1>4, <3>2, RunLocal DEF IInv
    <3> QED BY <3>1, <3>2
  <2>4. ASSUME NEW q \in Runs PROVE Clean(run'[q].view, made') /\ run'[q].orig.id <= made'
    <3>1. CASE q = r
      BY <2>1, <3>1
    <3>2. CASE q # r
      <4>1. Clean(run[q].view, made) /\ run[q].orig.id <= made
        BY DEF SavedInv, MessagesDistinct
      <4>2. Clean(run[q].view, made')
        BY <1>2, <2>1, <4>1, CleanLater
      <4> QED BY <1>2, <2>1, <2>3, <3>2, <4>1, <4>2
    <3> QED BY <3>1, <3>2
  <2>5. ASSUME NEW q \in InFlight'
        PROVE  /\ Clean(run'[q].flush.batch, made')
               /\ \A i \in DOMAIN run'[q].flush.batch : run'[q].flush.batch[i].kind # "turn"
    <3>1. CASE q \in InFlight /\ run'[q].flush = run[q].flush
      <4>1. Clean(run[q].flush.batch, made) /\ q \in Runs
        BY <3>1 DEF SavedInv, MessagesDistinct, InFlight
      <4>2. Clean(run[q].flush.batch, made')
        BY <1>2, <2>1, <4>1, CleanLater
      <4> QED BY <3>1, <4>2 DEF SavedInv, MessagesDistinct
    <3>2. ASSUME NEW goal \in Goals, BeginFlush(r, goal), q = r
          PROVE  /\ Clean(run'[q].flush.batch, made')
                 /\ \A i \in DOMAIN run'[q].flush.batch : run'[q].flush.batch[i].kind # "turn"
      <4> DEFINE view == run[r].view
                 I == {i \in DOMAIN view : view[i].kind # "turn" /\ view[i].id \notin marked}
      <4>1. run'[r].flush.batch = Unsaved(run[r].view) /\ made' = made
        BY <1>2, <3>2 DEF BeginFlush, Prepared, RunState
      <4>2. view \in Seq(Entry) /\ Clean(view, made)
        BY <1>2 DEF SavedInv, MessagesDistinct
      <4> HIDE DEF view
      <4>3. Clean(Pick(view, I), made)
        BY <4>2, CleanPick
      <4>4. \A k \in DOMAIN Pick(view, I) : Nth(k, I) \in I /\ Pick(view, I)[k] = view[Nth(k, I)]
        BY <4>2, PickParts
      <4>5. Unsaved(run[r].view) = Pick(view, I)
        BY DEF Unsaved, view
      <4>6. \A k \in DOMAIN Pick(view, I) : Pick(view, I)[k].kind # "turn"
        BY <4>4
      <4> HIDE DEF I
      <4> QED BY <3>2, <4>1, <4>3, <4>5, <4>6
    <3>3. CASE \E goal \in Goals : BeginFlush(r, goal)
      <4>1. q # r => q \in InFlight /\ run'[q].flush = run[q].flush
        BY <2>3 DEF InFlight
      <4> QED BY <3>1, <3>2, <3>3, <4>1
    <3>4. CASE ~ \E goal \in Goals : BeginFlush(r, goal)
      <4>1. Remain
        BY <1>4, <3>4, RunRemain DEF IInv
      <4> QED BY <3>1, <4>1 DEF Remain
    <3> QED BY <3>3, <3>4
  <2>6. MessagesDistinct'
    BY <1>3, <2>1, <2>2, <2>4, <2>5 DEF MessagesDistinct
  <2> QED BY <2>2, <2>6 DEF SavedInv, Kept
<1>5. ASSUME Kept, made' = made, run' = run, Clean(sess'.msgs, made) PROVE SavedInv'
  <2>1. MessagesDistinct'
    BY <1>5 DEF SavedInv, MessagesDistinct, InFlight, Kept
  <2> QED BY <1>5, <2>1 DEF SavedInv, Kept
<1>6. CASE OtherCommit
  <2>1. made' = made /\ run' = run /\ Clean(sess'.msgs, made)
    BY <1>6 DEF OtherCommit, SavedInv, MessagesDistinct
  <2> QED BY <1>5, <1>6, <2>1, CommitKeeps
<1>7. CASE RouteBacktrack \/ UNCHANGED vars
  <2>1. made' = made /\ run' = run /\ Clean(sess'.msgs, made)
    BY <1>7 DEF RouteBacktrack, vars, SavedInv, MessagesDistinct
  <2>2. Quietly
    BY <1>7 DEF RouteBacktrack, vars, Quietly, Remain, InFlight
  <2> QED BY <1>5, <2>1, <2>2, QuietKeeps
<1>8. CASE Crash
  <2>1. /\ made' = made /\ sess' = sess /\ InFlight' = {}
        /\ \A q \in Runs : run'[q] = Idle
    BY <1>8 DEF Crash, InFlight, Idle
  <2>2. Clean(<<>>, made) /\ Idle.view = <<>> /\ Idle.orig.id = 0 /\ 0 <= made
    BY <1>2 DEF Clean, Idle, Turn
  <2>3. Kept
    BY <1>8, CrashKeeps
  <2>4. MessagesDistinct'
    BY <2>1, <2>2, <2>3 DEF SavedInv, MessagesDistinct, Kept
  <2> QED BY <2>3, <2>4 DEF SavedInv, Kept
<1>9. CASE Restore
  <2>1. made' = made /\ run' = run
    BY <1>9 DEF Restore
  <2> QED BY <1>5, <1>9, <2>1, RestoreKeeps
<1> QED BY <1>4, <1>6, <1>7, <1>8, <1>9 DEF Next

-----------------------------------------------------------------------------
(* The reasons of the rebuilds *)

(* The reason of a rebuild waits, in the session or in a flush, for the     *)
(* first row of its epoch.                                                  *)
ReasonWaits ==
    /\ live /\ sess.reason # "none" => \A a \in rows \cup txn : a.epoch < sess.epoch
    /\ \A r \in InFlight : run[r].flush.cursor = NextSeq(rows) =>
          /\ run[r].flush.epoch = sess.epoch => sess.reason = "none"
          /\ run[r].flush.reason # "none" => \A a \in rows : a.epoch < run[r].flush.epoch

(* The inductive invariant behind ReasonOnFirstRow. *)
ReasonInv ==
    /\ ReasonWaits
    /\ \A a, b \in rows \cup txn :
          a.reason # "none" /\ a.epoch = b.epoch => a.seq <= b.seq

(* A flush that lands writes its reason on the first row of an epoch. *)
LEMMA LandsTagged ==
    ASSUME IInv, ReasonInv, NEW r \in InFlight, Fits(run[r].flush)
    PROVE  \A a, b \in rows \cup BatchRows(run[r].flush) :
              a.reason # "none" /\ a.epoch = b.epoch => a.seq <= b.seq
<1> DEFINE f == run[r].flush
           B == BatchRows(f)
<1>1. f \in Flush /\ f.cursor = NextSeq(rows) /\ f.cursor \in Nat
  BY Lands, TxnLengthens DEF IInv, TypeOK, InFlight, RunState
<1>2. /\ \A a \in rows \cup B : a.epoch <= f.epoch
      /\ \A q \in rows, b \in B : q.seq < b.seq
      /\ f.epoch \in Nat
  BY Lands
<1>3. f.reason # "none" => \A a \in rows : a.epoch < f.epoch
  BY <1>1 DEF ReasonInv, ReasonWaits
<1>4. \A a \in rows : a.seq \in Nat /\ a.epoch \in Nat
  BY DEF IInv, TypeOK, Row
<1>5. \A a, b \in rows : a.reason # "none" /\ a.epoch = b.epoch => a.seq <= b.seq
  BY DEF ReasonInv
<1> HIDE DEF f
<1>6. ASSUME NEW b \in B
      PROVE  /\ b.epoch = f.epoch /\ b.seq \in Nat /\ b.seq >= f.cursor
             /\ b.reason # "none" => f.reason # "none" /\ b.seq = f.cursor
  <2>1. PICK i \in DOMAIN f.batch : /\ b.seq = f.cursor + i - 1 /\ b.epoch = f.epoch
                                    /\ b.reason = IF i = 1 THEN f.reason ELSE "none"
    BY <1>1, RowsOfBatch
  <2>2. i \in Nat /\ i >= 1
    BY <1>1 DEF Flush
  <2> QED BY <1>1, <2>1, <2>2
<1> HIDE DEF B
<1>7. ASSUME NEW a \in rows \cup B, NEW b \in rows \cup B, a.reason # "none", a.epoch = b.epoch
      PROVE  a.seq <= b.seq
  <2>1. CASE a \in rows /\ b \in rows
    BY <1>5, <1>7, <2>1
  <2>2. CASE a \in rows /\ b \in B
    BY <1>2, <1>4, <1>6, <2>2
  <2>3. CASE a \in B /\ b \in rows
    BY <1>2, <1>3, <1>4, <1>6, <1>7, <2>3
  <2>4. CASE a \in B /\ b \in B
    BY <1>1, <1>6, <1>7, <2>4
  <2> QED BY <2>1, <2>2, <2>3, <2>4
<1> QED BY <1>7 DEF f, B

(* A step that stores nothing keeps the reasons. *)
LEMMA QuietTags ==
    ASSUME IInv, ReasonInv, Quietly
    PROVE  ReasonInv'
<1>1. /\ rows' \cup txn' \subseteq rows \cup txn /\ rows' = rows /\ live' = live /\ Remain
      /\ \/ sess'.epoch = sess.epoch /\ sess'.reason \in {sess.reason, "none"}
         \/ live /\ sess'.epoch = sess.epoch + 1
  BY DEF Quietly
<1>2. NextSeq(rows)' = NextSeq(rows)
  BY <1>1 DEF NextSeq, SeqsOf
<1>3. /\ sess.epoch \in Nat
      /\ live => \A a \in rows \cup txn : a.epoch \in Nat /\ a.epoch <= sess.epoch
  BY DEF IInv, TypeOK, SessState, EpochsBehind, Row
<1>4. live' /\ sess'.reason # "none" => \A a \in rows' \cup txn' : a.epoch < sess'.epoch
  BY <1>1, <1>3 DEF ReasonInv, ReasonWaits
<1>5. ASSUME NEW q \in InFlight', run'[q].flush.cursor = NextSeq(rows)'
      PROVE  /\ run'[q].flush.epoch = sess'.epoch => sess'.reason = "none"
             /\ run'[q].flush.reason # "none" => \A a \in rows' : a.epoch < run'[q].flush.epoch
  <2>1. q \in InFlight /\ run'[q].flush = run[q].flush /\ run[q].flush.cursor = NextSeq(rows)
    BY <1>1, <1>2, <1>5 DEF Remain
  <2>2. run[q].flush.epoch <= sess.epoch /\ run[q].flush.epoch \in Nat
    BY <2>1 DEF IInv, EpochsBehind, TypeOK, InFlight, RunState, Flush
  <2>3. run[q].flush.epoch # sess.epoch + 1
    BY <1>3, <2>2
  <2> QED BY <1>1, <2>1, <2>3 DEF ReasonInv, ReasonWaits
<1> QED BY <1>1, <1>4, <1>5 DEF ReasonInv, ReasonWaits

(* A batch that lands, or is given up, keeps the reasons. *)
LEMMA LandTags ==
    ASSUME IInv, ReasonInv, NEW r \in Runs, Stores(r) \/ Leaves(r)
    PROVE  ReasonInv'
<1> DEFINE f == run[r].flush
           B == BatchRows(f)
           n == NextSeq(rows \cup B)
<1>1. /\ r \in InFlight /\ Fits(f) /\ Remain /\ live /\ rows' \cup txn' = rows \cup B
      /\ \/ sess'.epoch = sess.epoch /\ sess'.reason = sess.reason
         \/ rows' = rows \cup B /\ sess'.epoch = f.epoch + 1
      /\ rows' = rows \/ rows' = rows \cup B
  BY DEF Stores, Leaves
<1>2. \A a, b \in rows' \cup txn' : a.reason # "none" /\ a.epoch = b.epoch => a.seq <= b.seq
  BY <1>1, LandsTagged
<1>3. /\ f.epoch \in Nat /\ f.epoch <= sess.epoch /\ f.cursor = NextSeq(rows)
      /\ \A a \in rows \cup B : a.epoch <= f.epoch
  BY <1>1, Lands
<1>4. sess.epoch \in Nat /\ \A a \in rows' \cup txn' : a.epoch \in Nat
  BY <1>1, BatchRowsType DEF IInv, TypeOK, SessState, Row, InFlight, RunState
<1>5. sess'.reason # "none" => \A a \in rows' \cup txn' : a.epoch < sess'.epoch
  <2>1. CASE sess'.epoch = sess.epoch /\ sess'.reason = sess.reason
    <3>1. sess.reason # "none" => f.epoch < sess.epoch
      BY <1>1, <1>3, <1>4 DEF ReasonInv, ReasonWaits
    <3> QED BY <1>1, <1>3, <1>4, <2>1, <3>1
  <2>2. CASE sess'.epoch = f.epoch + 1
    BY <1>1, <1>3, <1>4, <2>2
  <2> QED BY <1>1, <2>1, <2>2
<1>6. CASE rows' = rows /\ sess'.epoch = sess.epoch /\ sess'.reason = sess.reason
  <2>1. NextSeq(rows)' = NextSeq(rows)
    BY <1>6 DEF NextSeq, SeqsOf
  <2> QED BY <1>1, <1>2, <1>5, <1>6, <2>1 DEF ReasonInv, ReasonWaits, Remain
<1>7. CASE rows' = rows \cup B
  <2>1. n \in Nat /\ n > NextSeq(rows)
    BY <1>1, LandedLength
  <2>2. NextSeq(rows)' = n
    <3>1. NextSeq(rows') = n
      BY <1>7
    <3> QED BY <3>1 DEF NextSeq, SeqsOf
  <2> HIDE DEF n
  <2>3. \A q \in InFlight' : run'[q].flush.cursor # n
    BY <1>1, <2>1, GrownStale
  <2> QED BY <1>2, <1>5, <2>2, <2>3 DEF ReasonInv, ReasonWaits
<1> QED BY <1>1, <1>6, <1>7

LEMMA StartTags ==
    ASSUME IInv, ReasonInv, NEW r \in Runs, NEW goal \in Goals, BeginFlush(r, goal)
    PROVE  ReasonInv'
<1>1. /\ rows' = rows /\ txn' = txn /\ live' = live
      /\ sess'.reason = "none" /\ sess'.epoch = sess.epoch
  BY DEF BeginFlush, IInv, TypeOK, SessState
<1>2. run[r].pc # "off"
  BY DEF BeginFlush, Calls, CallsFrom, Goals
<1>3. live
  BY <1>2 DEF IInv, Unloaded
<1>4. NextSeq(rows)' = NextSeq(rows)
  BY <1>1 DEF NextSeq, SeqsOf
<1>5. /\ \A q \in Runs \ {r} : run'[q] = run[q]
      /\ run'[r].flush.reason = sess.reason /\ run'[r].flush.epoch = sess.epoch
  BY DEF BeginFlush, Prepared, IInv, TypeOK, RunState
<1>6. ASSUME NEW q \in InFlight', run'[q].flush.cursor = NextSeq(rows)',
             run'[q].flush.reason # "none"
      PROVE  \A a \in rows' : a.epoch < run'[q].flush.epoch
  <2>1. CASE q = r
    BY <1>1, <1>3, <1>5, <1>6, <2>1 DEF ReasonInv, ReasonWaits
  <2>2. CASE q # r
    <3>1. q \in InFlight /\ run'[q] = run[q]
      BY <1>5, <2>2 DEF InFlight
    <3> QED BY <1>1, <1>4, <1>6, <3>1 DEF ReasonInv, ReasonWaits
  <2> QED BY <2>1, <2>2
<1> QED BY <1>1, <1>6 DEF ReasonInv, ReasonWaits

LEMMA ReasonNext == IInv /\ ReasonInv /\ [Next]_vars => ReasonInv'
<1> SUFFICES ASSUME IInv, ReasonInv, [Next]_vars PROVE ReasonInv'
  OBVIOUS
<1>1. ASSUME NEW r \in Runs, RunStep(r) PROVE ReasonInv'
  BY <1>1, RunEffects, QuietTags, LandTags, StartTags
<1>2. CASE RouteBacktrack \/ UNCHANGED vars
  <2>1. Quietly
    BY <1>2 DEF RouteBacktrack, vars, Quietly, Remain, InFlight
  <2> QED BY <2>1, QuietTags
<1>3. CASE OtherCommit
  <2>1. /\ rows' = rows \cup txn /\ txn' = {} /\ txn # {} /\ live' = live
        /\ sess' = sess /\ run' = run /\ rows' \cup txn' = rows \cup txn
    BY <1>3 DEF OtherCommit
  <2> DEFINE n == NextSeq(rows \cup txn)
  <2>2. n \in Nat /\ n > NextSeq(rows)
    BY <2>1, TxnLengthens
  <2>3. NextSeq(rows)' = n
    BY <2>1 DEF NextSeq, SeqsOf
  <2>4. Remain
    BY <2>1 DEF Remain, InFlight
  <2> HIDE DEF n
  <2>5. \A q \in InFlight' : run'[q].flush.cursor # n
    BY <2>2, <2>4, GrownStale
  <2> QED BY <2>1, <2>3, <2>5 DEF ReasonInv, ReasonWaits
<1>4. CASE Crash
  <2>1. InFlight' = {} /\ ~live' /\ txn' = {}
    BY <1>4 DEF Crash, InFlight, Idle
  <2>2. \A a, b \in rows' \cup txn' : a.reason # "none" /\ a.epoch = b.epoch => a.seq <= b.seq
    <3>1. CASE rows' = rows
      BY <2>1, <3>1 DEF ReasonInv
    <3>2. ASSUME NEW r \in Runs, run[r].pc = "flush", Fits(run[r].flush),
                 rows' = rows \cup txn \cup BatchRows(run[r].flush)
          PROVE  \A a, b \in rows' \cup txn' :
                    a.reason # "none" /\ a.epoch = b.epoch => a.seq <= b.seq
      <4>1. r \in InFlight
        BY <3>2 DEF InFlight
      <4>2. rows' \cup txn' = rows \cup BatchRows(run[r].flush)
        BY <2>1, <3>2, <4>1, Lands
      <4> QED BY <3>2, <4>1, <4>2, LandsTagged
    <3> QED BY <1>4, <3>1, <3>2 DEF Crash
  <2> QED BY <2>1, <2>2 DEF ReasonInv, ReasonWaits
<1>5. CASE Restore
  <2>1. /\ rows' = rows /\ txn' = txn /\ run' = run /\ sess'.reason = "none" /\ ~live
    BY <1>5 DEF Restore
  <2>2. InFlight' = {}
    BY <2>1 DEF IInv, Unloaded, InFlight
  <2> QED BY <2>1, <2>2 DEF ReasonInv, ReasonWaits
<1> QED BY <1>1, <1>2, <1>3, <1>4, <1>5 DEF Next

LEMMA ReasonInit == Init => ReasonInv
BY DEF Init, ReasonInv, ReasonWaits, InFlight, Idle

-----------------------------------------------------------------------------
(* What is stored, flagged and tagged agrees in every reachable state, however *)
(* flushes are cancelled, repeated or lost (SavedInv, ReasonInv).             *)
THEOREM SavedInvariance == Spec => [](SavedInv /\ ReasonInv)
<1>1. Init => SavedInv /\ ReasonInv
  BY SavedInit, ReasonInit
<1>2. IInv /\ SavedInv /\ ReasonInv /\ [Next]_vars => SavedInv' /\ ReasonInv'
  BY SavedNext, ReasonNext
<1> QED BY <1>1, <1>2, Invariance, PTL DEF Spec

(* Every message is stored at most once. *)
THEOREM StoredAtMostOnce == Spec => []NoDuplicateMessage
<1>1. SavedInv => NoDuplicateMessage
  BY DEF SavedInv, StoredOnce, NoDuplicateMessage
<1> QED BY <1>1, SavedInvariance, PTL

(* A message that no flush will write again is stored. *)
THEOREM FlaggedIsStored == Spec => []MarkedHasRow
<1>1. SavedInv => MarkedHasRow
  BY DEF SavedInv
<1> QED BY <1>1, SavedInvariance, PTL

(* A rebuild's reason is found on the first row of the epoch it opened, and   *)
(* on no other row (pending_rebuild_reason in finalization.py).               *)
THEOREM ReasonsFirst == Spec => []ReasonOnFirstRow
<1>1. ReasonInv => ReasonOnFirstRow
  BY DEF ReasonInv, ReasonOnFirstRow
<1> QED BY <1>1, SavedInvariance, PTL

-----------------------------------------------------------------------------
(* Without cancellations *)

(* The budget of a disturbance only shrinks. *)
LEMMA BudgetShrinks ==
    ASSUME TypeOK, [Next]_vars, NEW d \in Disturbances
    PROVE  budget'[d] <= budget[d] /\ budget'[d] \in Nat /\ budget[d] \in Nat
<1>1. budget \in [Disturbances -> Nat] /\ budget[d] \in Nat
  BY DEF TypeOK
<1>2. CASE budget' = budget
  BY <1>1, <1>2
<1>3. ASSUME NEW what \in Disturbances, Spend(what)
      PROVE  budget'[d] <= budget[d] /\ budget'[d] \in Nat
  BY <1>1, <1>3 DEF Spend
<1>4. CASE UNCHANGED vars \/ OtherCommit \/ Restore
  BY <1>2, <1>4 DEF vars, OtherCommit, Restore
<1>5. CASE RouteBacktrack \/ Crash
  BY <1>1, <1>3, <1>5 DEF RouteBacktrack, Crash, Disturbances
<1>6. ASSUME NEW r \in Runs, RunStep(r)
      PROVE  budget'[d] <= budget[d] /\ budget'[d] \in Nat
  <2>1. CASE \/ EndBacktrackBatch(r) \/ Summarise(r) \/ Fallback(r)
             \/ Cancel(r) \/ CancelFlush(r) \/ Timeout(r) \/ TimeoutFlush(r)
    <3>1. \E what \in Disturbances : Spend(what)
      BY <2>1 DEF EndBacktrackBatch, Summarise, Fallback, Cancel, CancelFlush, Timeout,
                  TimeoutFlush, Disturbances
    <3> QED BY <1>3, <3>1
  <2>2. CASE \/ Begin(r) \/ BuildView(r) \/ StartBatch(r) \/ Answer(r) \/ RepairHint(r)
             \/ StopLoop(r) \/ EndReadBatch(r) \/ EndWriteBatch(r) \/ Rebuild(r)
             \/ MessageFallbacks(r)
    <3>1. budget' = budget
      BY <2>2 DEF Begin, BuildView, StartBatch, Answer, RepairHint, StopLoop, EndReadBatch,
                  EndWriteBatch, Rebuild, MessageFallbacks
    <3> QED BY <1>2, <3>1
  <2>3. CASE FlushDone(r) \/ FlushConflict(r) \/ \E goal \in Goals : BeginFlush(r, goal) \/ EmptyFlush(r, goal)
    <3>1. budget' = budget
      BY <2>3 DEF FlushDone, FlushConflict, BeginFlush, EmptyFlush
    <3> QED BY <1>2, <3>1
  <2> QED BY <1>6, <2>1, <2>2, <2>3 DEF RunStep
<1> QED BY <1>1, <1>2, <1>4, <1>5, <1>6 DEF Next

(* The cursor and the rows agree as long as no flush is abandoned. *)
CalmInv == budget["cancel"] = 0 /\ txn = {} /\ (live => sess.cursor = NextSeq(rows))

LEMMA CalmNext == IInv /\ CalmInv /\ [Next]_vars => CalmInv'
<1> SUFFICES ASSUME IInv, CalmInv, [Next]_vars PROVE CalmInv'
  OBVIOUS
<1>1. budget'["cancel"] = 0
  <2>1. budget'["cancel"] <= budget["cancel"] /\ budget'["cancel"] \in Nat
    BY BudgetShrinks DEF IInv, Disturbances
  <2> QED BY <2>1 DEF CalmInv
<1>2. CASE rows' = rows /\ (txn' = txn \/ txn' = {}) /\ sess'.cursor = sess.cursor /\ live' = live
  <2>1. NextSeq(rows)' = NextSeq(rows)
    BY <1>2 DEF NextSeq, SeqsOf
  <2> QED BY <1>1, <1>2, <2>1 DEF CalmInv
<1>3. ASSUME NEW r \in Runs, RunStep(r) PROVE CalmInv'
  <2>1. CASE Quietly
    BY <1>2, <2>1 DEF Quietly
  <2>2. CASE Stores(r)
    <3>1. txn' = {} /\ sess'.cursor = NextSeq(rows')
      BY <2>2 DEF Stores
    <3>2. NextSeq(rows') = NextSeq(rows)'
      BY DEF NextSeq, SeqsOf
    <3> QED BY <1>1, <3>1, <3>2 DEF CalmInv
  <2>3. CASE Leaves(r)
    BY <2>3 DEF Leaves, CalmInv
  <2>4. ASSUME NEW goal \in Goals, BeginFlush(r, goal) PROVE CalmInv'
    <3>1. rows' = rows /\ txn' = txn /\ live' = live /\ sess'.cursor = sess.cursor
      BY <2>4 DEF BeginFlush, IInv, TypeOK, SessState
    <3> QED BY <1>2, <3>1
  <2> QED BY <1>3, <2>1, <2>2, <2>3, <2>4, RunEffects
<1>4. CASE RouteBacktrack \/ UNCHANGED vars
  BY <1>2, <1>4 DEF RouteBacktrack, vars
<1>5. CASE OtherCommit
  BY <1>5 DEF OtherCommit, CalmInv
<1>6. CASE Crash
  BY <1>1, <1>6 DEF Crash, CalmInv
<1>7. CASE Restore
  <2>1. NextSeq(rows)' = NextSeq(rows)
    BY <1>7 DEF Restore, NextSeq, SeqsOf
  <2> QED BY <1>1, <1>7, <2>1 DEF Restore, CalmInv
<1> QED BY <1>3, <1>4, <1>5, <1>6, <1>7 DEF Next

LEMMA CalmInit == Init /\ Budget["cancel"] = 0 => CalmInv
BY DEF Init, CalmInv, NextSeq

(* Where nothing is cancelled, flushes that collide in any number of runs   *)
(* leave the session able to write on.                                      *)
THEOREM CursorKept == ASSUME Budget["cancel"] = 0 PROVE Spec => []CursorFresh
<1>1. Init => CalmInv
  BY CalmInit
<1>2. IInv /\ CalmInv /\ [Next]_vars => CalmInv'
  BY CalmNext
<1>3. CalmInv => CursorFresh
  BY DEF CalmInv, CursorFresh
<1> QED BY <1>1, <1>2, <1>3, Invariance, PTL DEF Spec

-----------------------------------------------------------------------------
(* One run at a time *)

OneRun == \A q, r \in Runs : q = r
Carried(view) == {view[i].id : i \in {j \in DOMAIN view : view[j].kind # "turn"}}
BatchIds(f) == {f.batch[i].id : i \in DOMAIN f.batch}
Carrying == PCs \ {"off", "recall", "rebuild"}

(* A single run's flush writes with the cursor and epoch of the session.    *)
SoleInv ==
    /\ live /\ budget["crash"] = 0
    /\ \A r \in InFlight : /\ run[r].flush.cursor = sess.cursor
                           /\ run[r].flush.epoch = sess.epoch

(* What is not stored is in the view of a run that will still flush it.     *)
CompleteInv ==
    /\ live /\ budget["summary"] = 0
    /\ \A r \in InFlight : Carried(run[r].view) \subseteq marked \cup BatchIds(run[r].flush)
    /\ \A m \in 1..made : \/ m \in IdsOf(rows)
                          \/ \E r \in Runs : run[r].pc \in Carrying /\ m \in Carried(run[r].view)

(* Pick loses none of the entries it is asked for. *)
LEMMA PickAll ==
    ASSUME NEW S, NEW view \in Seq(S), NEW I \in SUBSET DOMAIN view, NEW i \in I
    PROVE  \E k \in DOMAIN Pick(view, I) : Pick(view, I)[k] = view[i]
<1>1. DOMAIN view = 1..Len(view) /\ Len(view) \in Nat
  OBVIOUS
<1>2. IsFiniteSet(I) /\ I \in SUBSET Nat
  <2>1. IsFiniteSet(1..Len(view))
    BY <1>1, FS_Interval
  <2> QED BY <1>1, <2>1, FS_Subset
<1>3. Cardinality(I) \in Nat /\ Rank(i, I) \in 0..(Cardinality(I) - 1)
  BY <1>2, FS_CardinalityType, RankInside
<1> DEFINE k == Rank(i, I) + 1
<1>4. k \in 1..Cardinality(I) /\ k - 1 = Rank(i, I)
  BY <1>3
<1> HIDE DEF k
<1>5. Nth(k, I) \in I /\ Rank(Nth(k, I), I) = Rank(i, I)
  <2>1. \E j \in I : Rank(j, I) = k - 1
    BY <1>4
  <2> QED BY <1>4, <2>1 DEF Nth
<1>6. Nth(k, I) = i
  <2>1. Nth(k, I) \in Nat /\ i \in Nat
    BY <1>2, <1>5
  <2>2. ~(Nth(k, I) < i) /\ ~(i < Nth(k, I))
    <3>1. Rank(i, I) \in Int
      BY <1>3
    <3>2. ASSUME Nth(k, I) < i PROVE FALSE
      <4>1. Rank(Nth(k, I), I) < Rank(i, I)
        BY <1>2, <1>5, <3>2, RankGrows
      <4> QED BY <1>5, <3>1, <4>1
    <3>3. ASSUME i < Nth(k, I) PROVE FALSE
      <4>1. Rank(i, I) < Rank(Nth(k, I), I)
        BY <1>2, <1>5, <3>3, RankGrows
      <4> QED BY <1>5, <3>1, <4>1
    <3> QED BY <3>2, <3>3
  <2> QED BY <2>1, <2>2
<1>7. k \in DOMAIN Pick(view, I) /\ Pick(view, I)[k] = view[Nth(k, I)]
  BY <1>4, PickParts
<1> QED BY <1>6, <1>7

(* Messages that are stored belong to the durable part of a view. *)
LEMMA CarriedDurable ==
    ASSUME NEW view \in Seq(Entry)
    PROVE  Carried(Durable(view)) = Carried(view)
<1> DEFINE I == {i \in DOMAIN view : view[i].kind # "turn"}
           p == Pick(view, I)
<1>1. \A k \in DOMAIN p : Nth(k, I) \in I /\ p[k] = view[Nth(k, I)]
  BY PickParts
<1>2. \A i \in I : \E k \in DOMAIN p : p[k] = view[i]
  <2>1. I \in SUBSET DOMAIN view
    OBVIOUS
  <2> HIDE DEF I
  <2>2. \A i \in I : \E k \in DOMAIN Pick(view, I) : Pick(view, I)[k] = view[i]
    BY <2>1, PickAll
  <2> QED BY <2>2
<1>3. Durable(view) = p
  BY DEF Durable
<1>4. Carried(view) = {view[i].id : i \in I}
  BY DEF Carried
<1>5. \A i \in I : view[i].kind # "turn"
  OBVIOUS
<1> HIDE DEF I, p
<1>6. Carried(p) \subseteq Carried(view)
  BY <1>1, <1>4 DEF Carried
<1>7. Carried(view) \subseteq Carried(p)
  <2>1. ASSUME NEW i \in I PROVE view[i].id \in Carried(p)
    <3>1. PICK k \in DOMAIN p : p[k] = view[i]
      BY <1>2
    <3>2. p[k].kind # "turn"
      BY <1>5, <3>1
    <3> QED BY <3>1, <3>2 DEF Carried
  <2> QED BY <1>4, <2>1
<1> QED BY <1>3, <1>6, <1>7

(* A message of a view is stored or among the unsaved ones. *)
LEMMA CarriedUnsaved ==
    ASSUME NEW view \in Seq(Entry)
    PROVE  \A x \in Carried(view) :
              x \in marked \/ \E k \in DOMAIN Unsaved(view) : Unsaved(view)[k].id = x
<1> DEFINE I == {i \in DOMAIN view : view[i].kind # "turn" /\ view[i].id \notin marked}
<1>1. \A i \in I : \E k \in DOMAIN Pick(view, I) : Pick(view, I)[k] = view[i]
  BY PickAll
<1>2. Unsaved(view) = Pick(view, I)
  BY DEF Unsaved
<1> SUFFICES ASSUME NEW x \in Carried(view), x \notin marked
             PROVE  \E k \in DOMAIN Unsaved(view) : Unsaved(view)[k].id = x
  OBVIOUS
<1>3. PICK i \in I : view[i].id = x
  BY DEF Carried
<1> HIDE DEF I
<1> QED BY <1>1, <1>2, <1>3

(* A flush whose cursor is up to date finds its numbers free. *)
LEMMA FitsFresh ==
    ASSUME IInv, txn = {}, NEW f \in Flush, f.cursor = NextSeq(rows)
    PROVE  Fits(f)
<1>1. /\ NextSeq(rows) \in Nat /\ SeqsOf(rows) = 0..(NextSeq(rows) - 1)
  BY DEF IInv, Numbered
<1>2. \A q \in rows : q.seq \in Nat /\ q.seq < NextSeq(rows)
  BY <1>1 DEF SeqsOf
<1>3. ASSUME NEW b \in BatchRows(f) PROVE b.seq \in Nat /\ b.seq >= NextSeq(rows)
  <2>1. PICK i \in DOMAIN f.batch : b.seq = f.cursor + i - 1
    BY RowsOfBatch
  <2>2. i \in Nat /\ i >= 1
    BY DEF Flush
  <2> QED BY <1>1, <2>1, <2>2
<1>4. \A b \in BatchRows(f) : \A q \in rows \cup txn : q.seq # b.seq
  BY <1>1, <1>2, <1>3
<1> QED BY <1>4 DEF Fits

(* The steps one request has when none is cut off. *)
LEMMA StepsOfOne ==
    ASSUME NEW r \in Runs, RunStep(r), CalmInv
    PROVE  \/ Summarise(r)
           \/ Begin(r) \/ BuildView(r) \/ StartBatch(r) \/ Answer(r) \/ RepairHint(r)
           \/ StopLoop(r) \/ EndReadBatch(r) \/ EndWriteBatch(r) \/ EndBacktrackBatch(r)
           \/ Rebuild(r) \/ Fallback(r) \/ MessageFallbacks(r)
           \/ \E goal \in Goals : BeginFlush(r, goal) \/ EmptyFlush(r, goal)
           \/ FlushDone(r) \/ FlushConflict(r)
BY DEF RunStep, CalmInv, Cancel, CancelFlush, Timeout, TimeoutFlush, Spend

(* A single run's flush always lands. *)
LEMMA OneLands ==
    ASSUME IInv, CalmInv, SoleInv, NEW r \in InFlight
    PROVE  Fits(run[r].flush)
<1>1. run[r].flush \in Flush
  BY DEF IInv, TypeOK, InFlight, RunState
<1>2. txn = {} /\ run[r].flush.cursor = NextSeq(rows)
  BY DEF CalmInv, SoleInv
<1> QED BY <1>1, <1>2, FitsFresh

(* No other run moves cursor or epoch under a flush that is under way.      *)
LEMMA SoleNext == ASSUME OneRun, IInv, CalmInv, SoleInv, [Next]_vars PROVE SoleInv'
<1>0. run \in [Runs -> RunState] /\ TypeOK /\ Unloaded /\ \A q \in Runs : run[q].flush \in Flush
  BY DEF IInv, TypeOK, RunState
<1>1. budget'["crash"] = 0
  <2>1. budget'["crash"] <= budget["crash"] /\ budget'["crash"] \in Nat
    BY <1>0, BudgetShrinks DEF Disturbances
  <2> QED BY <2>1 DEF SoleInv
<1>2. CASE run' = run /\ UNCHANGED <<live, sess>>
  BY <1>1, <1>2 DEF SoleInv, InFlight
<1>3. ASSUME NEW r \in Runs, RunStep(r) PROVE SoleInv'
  <2>1. Runs = {r}
    BY DEF OneRun
  <2>2. CASE \E goal \in Goals : BeginFlush(r, goal)
    <3>1. PICK goal \in Goals : BeginFlush(r, goal)
      BY <2>2
    <3>2. /\ run'[r].flush = Prepared(r, goal) /\ live' = live
          /\ sess'.cursor = sess.cursor /\ sess'.epoch = sess.epoch
      BY <1>0, <3>1 DEF BeginFlush, RunState, TypeOK, SessState
    <3>3. run'[r].flush.cursor = sess'.cursor /\ run'[r].flush.epoch = sess'.epoch
      BY <3>2 DEF Prepared
    <3> QED BY <1>1, <2>1, <3>2, <3>3 DEF SoleInv, InFlight
  <2>3. CASE ~ \E goal \in Goals : BeginFlush(r, goal)
    <3>1. live' /\ InFlight' = {}
      BY <1>0, <1>3, <2>1, <2>3, RunLocal DEF InFlight
    <3> QED BY <1>1, <3>1 DEF SoleInv
  <2> QED BY <2>2, <2>3
<1>4. CASE UNCHANGED vars \/ RouteBacktrack
  BY <1>2, <1>4 DEF vars, RouteBacktrack
<1>5. CASE OtherCommit \/ Crash \/ Restore
  BY <1>5 DEF OtherCommit, Crash, Restore, CalmInv, SoleInv, Spend
<1> QED BY <1>3, <1>4, <1>5 DEF Next

LEMMA CompleteNext ==
    ASSUME OneRun, IInv, SavedInv, CalmInv, SoleInv, CompleteInv, [Next]_vars
    PROVE  CompleteInv'
<1>0. /\ run \in [Runs -> RunState] /\ made \in Nat /\ TypeOK /\ Unloaded
      /\ \A q \in Runs : run[q].view \in Seq(Entry) /\ run[q].flush \in Flush /\ run[q].pc \in PCs
  BY DEF IInv, TypeOK, RunState
<1>1. budget'["summary"] = 0 /\ budget["summary"] = 0
  <2>1. budget'["summary"] <= budget["summary"] /\ budget'["summary"] \in Nat
    BY <1>0, BudgetShrinks DEF Disturbances
  <2> QED BY <2>1 DEF CompleteInv
<1> DEFINE Stored == \A m \in 1..made : m \in IdsOf(rows)
<1>2. marked \subseteq IdsOf(rows)
  BY DEF SavedInv, MarkedHasRow, CompleteInv
<1>3. CASE run' = run /\ UNCHANGED <<live, sess, rows, marked, made>>
  BY <1>1, <1>3 DEF CompleteInv, InFlight, IdsOf
<1>4. ASSUME NEW r \in Runs, RunStep(r) PROVE CompleteInv'
  <2>1. Runs = {r}
    BY DEF OneRun
  <2>2. run[r].pc \notin Carrying => Stored
    BY <2>1 DEF CompleteInv
  <2>3. Stored \/ \A m \in 1..made : m \in IdsOf(rows) \/ m \in Carried(run[r].view)
    BY <2>1 DEF CompleteInv
  <2>4. ASSUME ~ \E goal \in Goals : BeginFlush(r, goal)
        PROVE  live' /\ InFlight' = {}
    BY <1>0, <1>4, <2>1, <2>4, RunLocal DEF InFlight
  <2>0. ASSUME run'[r].pc # "flush" PROVE ~ \E goal \in Goals : BeginFlush(r, goal)
    BY <1>0, <2>0 DEF BeginFlush, RunState
  (* The run goes on with what it carried, and at most one message more. *)
  <2>5. ASSUME ~ \E goal \in Goals : BeginFlush(r, goal),
               rows' = rows, run'[r].pc \in Carrying,
               Stored \/ Carried(run[r].view) \subseteq Carried(run'[r].view),
               made' = made \/ (made' = made + 1 /\ made + 1 \in Carried(run'[r].view))
        PROVE  CompleteInv'
    <3>1. \A m \in 1..made' : m \in 1..made \/ (m = made + 1 /\ made' = made + 1)
      BY <1>0, <2>5
    <3>2. \A m \in 1..made' : m \in IdsOf(rows) \/ m \in Carried(run'[r].view)
      BY <1>0, <2>3, <2>5, <3>1
    <3> QED BY <1>1, <2>4, <2>5, <3>2 DEF CompleteInv, IdsOf
  <2>6. ASSUME ~ \E goal \in Goals : BeginFlush(r, goal), made' = made,
               \A m \in 1..made : m \in IdsOf(rows')
        PROVE  CompleteInv'
    BY <1>1, <2>4, <2>6 DEF CompleteInv, IdsOf
  <2>7. "user" # "turn" /\ "asst" # "turn" /\ "app" # "turn"
    OBVIOUS
  <2>8. ASSUME NEW v \in Seq(Entry), NEW i \in DOMAIN v, v[i].kind # "turn"
        PROVE  v[i].id \in Carried(v)
    BY <2>8 DEF Carried
  <2>9. ASSUME NEW v \in Seq(Entry), NEW w \in Seq(Entry)
        PROVE  Carried(v) \subseteq Carried(v \o w) /\ Carried(w) \subseteq Carried(v \o w)
    <3>1. DOMAIN v = 1..Len(v) /\ DOMAIN w = 1..Len(w) /\ Len(v) \in Nat /\ Len(w) \in Nat
      OBVIOUS
    <3>2. /\ \A i \in DOMAIN v : i \in DOMAIN (v \o w) /\ (v \o w)[i] = v[i]
          /\ \A i \in DOMAIN w : Len(v) + i \in DOMAIN (v \o w) /\ (v \o w)[Len(v) + i] = w[i]
      BY <3>1
    <3> QED BY <3>2 DEF Carried
  <2>10. CASE Begin(r)
    <3>1. run[r].pc = "off" /\ "off" \notin Carrying /\ rows' = rows /\ made' = made
      BY <2>10 DEF Begin, Carrying
    <3>2. ~ \E goal \in Goals : BeginFlush(r, goal)
      BY <3>1 DEF BeginFlush, Calls, CallsFrom, Goals
    <3> QED BY <2>2, <2>6, <3>1, <3>2
  <2>11. ASSUME NEW pc \in Carrying, NEW w \in Seq(Entry), NEW e \in Entry,
                e.id = made + 1, e.kind # "turn", w = <<e>> \/ w = <<e, Turn>>,
                run'[r].pc = pc, run'[r].view = run[r].view \o w,
                rows' = rows, made' = made + 1, pc # "flush"
         PROVE  CompleteInv'
    <3>1. 1 \in DOMAIN w /\ w[1] = e
      BY <2>11
    <3>2. made + 1 \in Carried(w)
      BY <2>8, <2>11, <3>1
    <3>3. Carried(run[r].view) \subseteq Carried(run'[r].view) /\ made + 1 \in Carried(run'[r].view)
      BY <1>0, <2>9, <2>11, <3>2
    <3>4. ~ \E goal \in Goals : BeginFlush(r, goal)
      BY <2>0, <2>11
    <3> QED BY <2>5, <2>11, <3>3, <3>4
  <2>12. [id |-> made + 1, kind |-> "user"] \in Entry /\ [id |-> made + 1, kind |-> "asst"] \in Entry
         /\ Turn \in Entry
    BY <1>0 DEF Entry, Kinds, Turn
  <2>13. {"loop", "batch", "tail", "shift", "fallback", "final"} \subseteq Carrying
    BY DEF Carrying, PCs
  <2>14. CASE BuildView(r)
    <3>1. /\ run'[r].view = run[r].view \o <<[id |-> made + 1, kind |-> "user"], Turn>>
          /\ run'[r].pc = "loop" /\ rows' = rows /\ made' = made + 1
      BY <1>0, <2>14 DEF BuildView, RunState
    <3>2. <<[id |-> made + 1, kind |-> "user"], Turn>> \in Seq(Entry)
      BY <2>12
    <3> QED BY <2>11, <2>12, <2>13, <3>1, <3>2
  <2>15. CASE StartBatch(r) \/ Answer(r)
    <3> DEFINE e == [id |-> made + 1, kind |-> "asst"]
    <3>1. /\ run'[r].view = Append(run[r].view, e)
          /\ run'[r].pc \in {"batch", "tail"} /\ rows' = rows /\ made' = made + 1
      BY <1>0, <2>15 DEF StartBatch, Answer, RunState
    <3>2. e \in Entry /\ e.id = made + 1 /\ e.kind # "turn"
      BY <2>12
    <3> HIDE DEF e
    <3>3. ASSUME NEW v \in Seq(Entry)
          PROVE  /\ \A i \in DOMAIN v : i \in DOMAIN Append(v, e) /\ Append(v, e)[i] = v[i]
                 /\ Len(v) + 1 \in DOMAIN Append(v, e) /\ Append(v, e)[Len(v) + 1] = e
      OBVIOUS
    <3>4. ASSUME NEW v \in Seq(Entry)
          PROVE  Carried(v) \subseteq Carried(Append(v, e)) /\ made + 1 \in Carried(Append(v, e))
      BY <3>2, <3>3 DEF Carried
    <3>5. ~ \E goal \in Goals : BeginFlush(r, goal)
      BY <2>0, <3>1
    <3> QED BY <1>0, <2>5, <2>13, <3>1, <3>4, <3>5
  <2>16. CASE RepairHint(r)
    <3>1. /\ run'[r].view = run[r].view \o <<[id |-> made + 1, kind |-> "asst"], Turn>>
          /\ run'[r].pc = "loop" /\ rows' = rows /\ made' = made + 1
      BY <1>0, <2>16 DEF RepairHint, RunState
    <3>2. <<[id |-> made + 1, kind |-> "asst"], Turn>> \in Seq(Entry)
      BY <2>12
    <3> QED BY <2>11, <2>12, <2>13, <3>1, <3>2
  <2>17. ASSUME NEW now, NEW why, Detect(r, now, why)
         PROVE  run'[r].view = run[r].view /\ run'[r].pc \in {"loop", "shift"}
    BY <1>0, <2>17 DEF Detect, RunState
  <2>18. CASE \/ StopLoop(r) \/ EndReadBatch(r) \/ EndWriteBatch(r) \/ EndBacktrackBatch(r)
              \/ Fallback(r) \/ MessageFallbacks(r)
    <3>1. rows' = rows /\ made' = made
      BY <2>18 DEF StopLoop, EndReadBatch, EndWriteBatch, EndBacktrackBatch, Fallback,
                   MessageFallbacks
    <3>2. run'[r].view = run[r].view /\ run'[r].pc \in {"loop", "shift", "tail", "fallback", "final"}
      <4>1. CASE StopLoop(r) \/ Fallback(r) \/ MessageFallbacks(r)
        BY <1>0, <4>1 DEF StopLoop, Fallback, MessageFallbacks, RunState
      <4>2. CASE EndReadBatch(r) \/ EndWriteBatch(r) \/ EndBacktrackBatch(r)
        BY <2>17, <4>2 DEF EndReadBatch, EndWriteBatch, EndBacktrackBatch
      <4> QED BY <2>18, <4>1, <4>2
    <3>3. ~ \E goal \in Goals : BeginFlush(r, goal)
      BY <2>0, <3>2
    <3> QED BY <2>5, <2>13, <3>1, <3>2, <3>3
  <2>19. CASE Rebuild(r)
    <3> DEFINE notice == [id |-> made + 1,
                          kind |-> IF run[r].move.to < run[r].move.from THEN "app" ELSE "asst"]
               w == <<run[r].orig, notice, Turn>>
    <3>1. /\ run[r].pc = "rebuild" /\ rows' = rows /\ run'[r].pc = "loop"
          /\ made' = made \/ (made' = made + 1 /\ run'[r].view = w)
      BY <1>0, <2>19 DEF Rebuild, RunState
    <3>2. notice.id = made + 1 /\ notice.kind # "turn"
      OBVIOUS
    <3>3. 2 \in DOMAIN w /\ w[2] = notice
      OBVIOUS
    <3> HIDE DEF notice, w
    <3>4. made + 1 \in Carried(w)
      BY <3>2, <3>3 DEF Carried
    <3>5. "rebuild" \notin Carrying
      BY DEF Carrying
    <3>6. ~ \E goal \in Goals : BeginFlush(r, goal)
      BY <2>0, <3>1
    <3> QED BY <2>2, <2>5, <2>13, <3>1, <3>4, <3>5, <3>6
  <2>20. ASSUME NEW goal \in Goals, BeginFlush(r, goal) PROVE CompleteInv'
    <3> DEFINE view == run[r].view
               f == Prepared(r, goal)
    <3>1. /\ run'[r].view = Durable(view) /\ run'[r].flush = f /\ run'[r].pc = "flush"
          /\ rows' = rows /\ made' = made /\ marked' = marked /\ live' = live
      BY <1>0, <2>20 DEF BeginFlush, RunState, IInv, TypeOK, SessState
    <3>2. f.batch = Unsaved(view)
      BY DEF Prepared
    <3>3. view \in Seq(Entry)
      BY <1>0
    <3> HIDE DEF view, f
    <3>4. Carried(run'[r].view) = Carried(view)
      BY <3>1, <3>3, CarriedDurable
    <3>5. Carried(view) \subseteq marked \cup BatchIds(f)
      BY <3>2, <3>3, CarriedUnsaved DEF BatchIds
    <3>6. "flush" \in Carrying
      BY DEF Carrying, PCs
    <3>7. \A m \in 1..made : m \in IdsOf(rows) \/ m \in Carried(run'[r].view)
      BY <2>3, <3>4 DEF view
    <3>8. BatchIds(run'[r].flush) = BatchIds(f)
      BY <3>1
    <3>9. BatchIds(run'[r].flush) = BatchIds(run[r].flush)'
      BY DEF BatchIds
    <3>10. Carried(run'[r].view) \subseteq marked' \cup BatchIds(run'[r].flush)
      BY <3>1, <3>4, <3>5, <3>8
    <3>11. /\ Carried(run[r].view)' = Carried(run'[r].view)
           /\ \A m \in 1..made' : m \in IdsOf(rows') \/ m \in Carried(run'[r].view)
      BY <3>1, <3>7 DEF Carried
    <3> QED BY <1>1, <2>1, <3>1, <3>6, <3>9, <3>10, <3>11 DEF CompleteInv, InFlight, IdsOf
  <2>21. ASSUME NEW goal \in Goals, EmptyFlush(r, goal),
                ~ \E g \in Goals : BeginFlush(r, g)
         PROVE CompleteInv'
    <3>1. Unsaved(run[r].view) = <<>> /\ rows' = rows /\ made' = made
      BY <2>21 DEF EmptyFlush, Prepared
    <3>2. Carried(run[r].view) \subseteq marked
      BY <1>0, <3>1, CarriedUnsaved
    <3> QED BY <1>2, <2>3, <2>6, <2>21, <3>1, <3>2
  <2>22. CASE FlushDone(r)
    <3> DEFINE f == run[r].flush
    <3>1. r \in InFlight /\ rows' = rows \cup txn \cup BatchRows(f) /\ made' = made
      BY <2>22 DEF FlushDone, InFlight
    <3>2. Carried(run[r].view) \subseteq marked \cup BatchIds(f) /\ f \in Flush
      BY <1>0, <3>1 DEF CompleteInv
    <3>3. ~ \E goal \in Goals : BeginFlush(r, goal)
      BY <2>22 DEF FlushDone, BeginFlush, Calls, CallsFrom, Goals
    <3> HIDE DEF f
    <3>4. BatchIds(f) \subseteq IdsOf(BatchRows(f))
      <4>1. \A i \in DOMAIN f.batch : \E b \in BatchRows(f) : b.id = f.batch[i].id
        BY <3>2, RowsOfBatch
      <4> QED BY <4>1 DEF BatchIds, IdsOf
    <3>5. IdsOf(rows) \subseteq IdsOf(rows') /\ IdsOf(BatchRows(f)) \subseteq IdsOf(rows')
      BY <3>1 DEF IdsOf
    <3> QED BY <1>2, <2>3, <2>6, <3>1, <3>2, <3>3, <3>4, <3>5
  <2>23. CASE FlushConflict(r)
    <3>1. r \in InFlight /\ ~Fits(run[r].flush)
      BY <2>23 DEF FlushConflict, InFlight
    <3> QED BY <3>1, OneLands
  <2>24. CASE Summarise(r)
    BY <1>1, <2>24 DEF Summarise, Spend
  <2> QED BY <1>4, <2>10, <2>14, <2>15, <2>16, <2>18, <2>19, <2>20, <2>21, <2>22, <2>23, <2>24,
             StepsOfOne
<1>5. CASE UNCHANGED vars \/ RouteBacktrack
  BY <1>3, <1>5 DEF vars, RouteBacktrack
<1>6. CASE OtherCommit \/ Crash \/ Restore
  BY <1>6 DEF OtherCommit, Crash, Restore, CalmInv, SoleInv, Spend
<1> QED BY <1>4, <1>5, <1>6 DEF Next

LEMMA SoleInit == Init /\ Budget["crash"] = 0 => SoleInv
BY DEF Init, SoleInv, InFlight, Idle

LEMMA CompleteInit == Init /\ Budget["summary"] = 0 => CompleteInv
BY BoundAssumption DEF Init, CompleteInv, InFlight, Idle

(* At the end of every request, all that the model was ever shown is stored *)
(* as long as one request is handled at a time and none is cut off.         *)
THEOREM NothingLost ==
    ASSUME OneRun, Budget["cancel"] = 0, Budget["crash"] = 0, Budget["summary"] = 0
    PROVE  Spec => []HistoryComplete
<1>1. Init => CalmInv /\ SoleInv /\ CompleteInv
  BY CalmInit, SoleInit, CompleteInit
<1>2. IInv /\ SavedInv /\ CalmInv /\ SoleInv /\ CompleteInv /\ [Next]_vars
         => CalmInv' /\ SoleInv' /\ CompleteInv'
  BY CalmNext, SoleNext, CompleteNext
<1>3. CompleteInv => HistoryComplete
  BY DEF CompleteInv, HistoryComplete, Quiet, Carrying
<1> QED BY <1>1, <1>2, <1>3, Invariance, SavedInvariance, PTL DEF Spec

-----------------------------------------------------------------------------
(* The phase of an epoch *)

Untouched == budget["route"] = Budget["route"] /\ budget["fallback"] = Budget["fallback"]

(* A run that saw the plan move and has not flushed what came before. *)
Moving(r) == run[r].pc = "shift" \/ (run[r].pc = "flush" /\ run[r].flush.goal = "rebuild")

(* The phase the rows of the current epoch are written for. *)
EpochPhase(r) == IF Moving(r) THEN run[r].move.from ELSE plan.phase

NewEpoch == \A a \in rows : a.epoch # sess.epoch

(* What a run relies on: the rows of the current epoch have the phase it    *)
(* will label the next ones with, and only a rebuild, which opens an epoch, *)
(* lets it go on under another phase than the one it began in.              *)
Keeps(r) ==
    /\ \A a \in rows : a.epoch = sess.epoch => a.phase = EpochPhase(r)
    /\ run[r].pc \notin {"fallback", "settled"}
    /\ run[r].pc = "batch" => run[r].at.phase = plan.phase
    /\ run[r].pc = "rebuild" => NewEpoch
    /\ run[r].pc \in {"recall", "loop", "batch", "shift", "tail"} \/ Moving(r) =>
          EpochPhase(r) = run[r].start \/ NewEpoch
    /\ run[r].pc = "flush" =>
          run[r].flush.phase = EpochPhase(r) /\ run[r].flush.goal # "fallback"

PhaseInv ==
    /\ \A d \in Disturbances : budget[d] <= Budget[d]
    /\ Untouched => OnePhasePerEpoch /\ \A r \in Runs : Keeps(r)

LEMMA PhaseNext ==
    ASSUME OneRun, IInv, CalmInv, SoleInv, PhaseInv, [Next]_vars
    PROVE  PhaseInv'
<1>0. /\ run \in [Runs -> RunState] /\ TypeOK /\ Unloaded /\ plan \in Stage /\ sess \in SessState
      /\ \A q \in Runs : run[q] \in RunState /\ run[q].flush \in Flush /\ run[q].pc \in PCs
      /\ sess.epoch \in Nat /\ \A a \in rows : a.epoch \in Nat
  BY DEF IInv, TypeOK, RunState, SessState, Row
<1>1. /\ \A d \in Disturbances : /\ budget'[d] <= budget[d] /\ budget[d] <= Budget[d]
                                 /\ budget'[d] \in Nat /\ budget[d] \in Nat /\ Budget[d] \in Nat
  BY <1>0, BudgetShrinks, BoundAssumption DEF PhaseInv
<1>2. \A d \in Disturbances : budget'[d] <= Budget[d]
  BY <1>1
<1>3. ASSUME Untouched' PROVE Untouched
  <2>1. "route" \in Disturbances /\ "fallback" \in Disturbances
    BY DEF Disturbances
  <2>2. budget'["route"] = Budget["route"] /\ budget'["fallback"] = Budget["fallback"]
    BY <1>3 DEF Untouched
  <2>3. budget["route"] = Budget["route"] /\ budget["fallback"] = Budget["fallback"]
    BY <1>1, <2>1, <2>2
  <2> QED BY <2>3 DEF Untouched
<1>4. SUFFICES ASSUME Untouched, Untouched'
               PROVE  OnePhasePerEpoch' /\ \A r \in Runs : Keeps(r)'
  BY <1>2, <1>3 DEF PhaseInv
<1>5. OnePhasePerEpoch /\ \A r \in Runs : Keeps(r)
  BY <1>4 DEF PhaseInv
<1>6. CASE UNCHANGED vars
  BY <1>5, <1>6 DEF vars, OnePhasePerEpoch, Keeps, EpochPhase, Moving, NewEpoch
<1>7. CASE OtherCommit \/ Crash \/ Restore
  BY <1>7 DEF OtherCommit, Crash, Restore, CalmInv, SoleInv, Spend
<1>8. CASE RouteBacktrack
  <2>1. budget["route"] > 0 /\ budget'["route"] = budget["route"] - 1 /\ "route" \in Disturbances
    BY <1>0, <1>8 DEF RouteBacktrack, Spend, TypeOK, Disturbances
  <2> QED BY <1>1, <1>4, <2>1 DEF Untouched
<1>9. ASSUME NEW r \in Runs, RunStep(r) PROVE OnePhasePerEpoch' /\ \A q \in Runs : Keeps(q)'
  <2>0. \A q \in Runs : q = r
    BY DEF OneRun
  <2>1. /\ Keeps(r) /\ run[r] \in RunState
        /\ (\A a \in rows : a.epoch = sess.epoch => a.phase = EpochPhase(r))
    BY <1>0, <1>5 DEF Keeps
  <2> SUFFICES OnePhasePerEpoch' /\ Keeps(r)'
    BY <2>0
  (* A step that writes no row and opens no epoch. *)
  <2>2. ASSUME rows' = rows, sess'.epoch = sess.epoch
        PROVE  OnePhasePerEpoch' /\ NewEpoch' = NewEpoch
    BY <1>5, <2>2 DEF OnePhasePerEpoch, NewEpoch
  <2>3. ASSUME UNCHANGED <<rows, sess, plan>>, ~Moving(r), run'[r].pc \notin {"shift", "flush", "fallback", "settled", "batch", "rebuild"},
               run'[r].pc \in {"recall", "loop", "tail"} => plan.phase = run'[r].start \/ NewEpoch
        PROVE  OnePhasePerEpoch' /\ Keeps(r)'
    <3>1. ~Moving(r)' /\ EpochPhase(r)' = plan.phase /\ EpochPhase(r) = plan.phase
      BY <2>3 DEF Moving, EpochPhase
    <3> QED BY <2>1, <2>2, <2>3, <3>1 DEF Keeps
  <2>4. CASE Begin(r)
    <3>1. plan'.phase = plan.phase
      BY <2>4 DEF Begin, Synced
    <3>2. /\ UNCHANGED <<rows, sess>> /\ run[r].pc = "off" /\ run'[r].pc = "recall"
          /\ run'[r].start = plan.phase
      BY <1>0, <2>4 DEF Begin, Idle
    <3>3. ~Moving(r) /\ ~Moving(r)' /\ EpochPhase(r)' = plan.phase /\ EpochPhase(r) = plan.phase
      BY <3>1, <3>2 DEF Moving, EpochPhase
    <3> QED BY <2>1, <2>2, <3>1, <3>2, <3>3 DEF Keeps
  <2>5. CASE BuildView(r) \/ Answer(r) \/ RepairHint(r) \/ StopLoop(r)
    <3>1. /\ UNCHANGED <<rows, sess, plan>> /\ run'[r].start = run[r].start
          /\ run[r].pc \in {"recall", "loop", "rebuild"} /\ run'[r].pc \in {"loop", "tail"}
      BY <1>0, <2>1, <2>5 DEF BuildView, Answer, RepairHint, StopLoop, RunState
    <3>2. ~Moving(r) /\ EpochPhase(r) = plan.phase
      BY <3>1 DEF Moving, EpochPhase
    <3>3. plan.phase = run[r].start \/ NewEpoch
      BY <2>1, <3>1, <3>2 DEF Keeps
    <3> QED BY <2>3, <3>1, <3>2, <3>3
  <2>6. CASE StartBatch(r)
    <3>1. /\ UNCHANGED <<rows, sess, plan>> /\ run'[r].start = run[r].start
          /\ run[r].pc = "loop" /\ run'[r].pc = "batch" /\ run'[r].at = plan
      BY <1>0, <2>1, <2>6 DEF StartBatch, RunState
    <3>2. ~Moving(r) /\ EpochPhase(r) = plan.phase /\ ~Moving(r)' /\ EpochPhase(r)' = plan.phase
      BY <3>1 DEF Moving, EpochPhase
    <3> QED BY <2>1, <2>2, <3>1, <3>2 DEF Keeps
  (* The end of a batch: the rows of the epoch keep the phase it began in.   *)
  <2>7. ASSUME NEW now \in Stage, NEW why, Detect(r, now, why), plan' = now, run[r].pc = "batch",
               UNCHANGED <<rows, sess>>
        PROVE  OnePhasePerEpoch' /\ Keeps(r)'
    <3>1. ~Moving(r) /\ EpochPhase(r) = plan.phase /\ run[r].at.phase = plan.phase
          /\ (plan.phase = run[r].start \/ NewEpoch)
      BY <2>1, <2>7 DEF Moving, EpochPhase, Keeps
    <3>2. run'[r].start = run[r].start
      BY <1>0, <2>1, <2>7 DEF Detect, RunState
    <3>3. CASE run'[r].pc = "loop" /\ now.phase = run[r].at.phase
      <4>1. ~Moving(r)' /\ EpochPhase(r)' = plan.phase
        BY <2>7, <3>1, <3>3 DEF Moving, EpochPhase
      <4> QED BY <2>1, <2>2, <2>7, <3>1, <3>2, <3>3, <4>1 DEF Keeps
    <3>4. CASE run'[r].pc = "shift" /\ run'[r].move.from = run[r].at.phase
      <4>1. Moving(r)' /\ EpochPhase(r)' = plan.phase
        BY <2>7, <3>1, <3>4 DEF Moving, EpochPhase
      <4> QED BY <2>1, <2>2, <2>7, <3>1, <3>2, <3>4, <4>1 DEF Keeps
    <3>5. \/ run'[r].pc = "loop" /\ now.phase = run[r].at.phase
          \/ run'[r].pc = "shift" /\ run'[r].move.from = run[r].at.phase
      BY <1>0, <2>1, <2>7 DEF Detect, RunState
    <3> QED BY <3>3, <3>4, <3>5
  <2>8. CASE EndReadBatch(r) \/ EndWriteBatch(r) \/ EndBacktrackBatch(r)
    <3>1. run[r].pc = "batch" /\ UNCHANGED <<rows, sess>> /\ plan' \in Stage
          /\ \E why \in {"none", "backtrack"} : Detect(r, plan', why)
      <4>1. CASE EndReadBatch(r)
        BY <1>0, <4>1 DEF EndReadBatch
      <4>2. CASE EndWriteBatch(r)
        <5>1. plan' \in Stage
          BY <1>0, <4>2, StageTypes DEF EndWriteBatch
        <5> QED BY <4>2, <5>1 DEF EndWriteBatch
      <4>3. CASE EndBacktrackBatch(r)
        <5>1. plan' \in Stage
          BY <1>0, <4>3, StageTypes DEF EndBacktrackBatch
        <5> QED BY <4>3, <5>1 DEF EndBacktrackBatch
      <4> QED BY <2>8, <4>1, <4>2, <4>3
    <3> QED BY <2>7, <3>1
  <2>9. CASE Rebuild(r)
    <3>1. /\ UNCHANGED <<rows, sess, plan>> /\ run[r].pc = "rebuild" /\ run'[r].pc = "loop"
      BY <1>0, <2>1, <2>9 DEF Rebuild, RunState
    <3>2. ~Moving(r) /\ NewEpoch
      BY <2>1, <3>1 DEF Moving, Keeps
    <3> QED BY <2>3, <3>1, <3>2
  <2>10. CASE Fallback(r)
    <3>1. budget["fallback"] > 0 /\ budget'["fallback"] = budget["fallback"] - 1
          /\ "fallback" \in Disturbances
      BY <1>0, <2>10 DEF Fallback, Spend, TypeOK, Disturbances
    <3> QED BY <1>1, <1>4, <3>1 DEF Untouched
  <2>11. CASE MessageFallbacks(r)
    <3>1. /\ UNCHANGED <<rows, sess>> /\ run[r].pc \in {"tail", "settled"} /\ run'[r].pc = "final"
          /\ plan.phase < run[r].start
      BY <1>0, <2>1, <2>11 DEF MessageFallbacks, RunState
    <3>2. run[r].pc = "tail" /\ ~Moving(r) /\ EpochPhase(r) = plan.phase
      BY <2>1, <3>1 DEF Keeps, Moving, EpochPhase
    <3>3. plan.phase \in Int /\ run[r].start \in Int
      BY <1>0, PhaseAssumption DEF Stage, Phases, RunState
    <3>4. plan.phase # run[r].start
      BY <3>1, <3>3
    <3>5. NewEpoch
      BY <2>1, <3>2, <3>4 DEF Keeps
    <3>6. ~Moving(r)'
      BY <3>1 DEF Moving
    <3> QED BY <2>1, <2>2, <3>1, <3>5, <3>6 DEF Keeps, NewEpoch
  (* The labels a flush reads are those of the epoch. *)
  <2>12. ASSUME NEW goal \in Goals, Calls(r, goal)
         PROVE  /\ Prepared(r, goal).phase = EpochPhase(r) /\ goal # "fallback"
                /\ Prepared(r, goal).goal = goal /\ Prepared(r, goal).epoch = sess.epoch
                /\ Moving(r) <=> goal = "rebuild"
                /\ run[r].pc # "flush"
    <3>1. run[r].pc \in CallsFrom(goal)
      BY <2>12 DEF Calls
    <3>2. goal # "fallback"
      BY <2>1, <3>1 DEF Keeps, CallsFrom
    <3>3. (run[r].pc = "shift" <=> goal = "rebuild") /\ run[r].pc # "flush"
      BY <3>1 DEF CallsFrom, Goals
    <3>4. Moving(r) <=> goal = "rebuild"
      BY <3>3 DEF Moving
    <3> QED BY <3>2, <3>3, <3>4 DEF Prepared, Label, EpochPhase
  <2>13. ASSUME NEW goal \in Goals, BeginFlush(r, goal) PROVE OnePhasePerEpoch' /\ Keeps(r)'
    <3> DEFINE f == Prepared(r, goal)
    <3>1. Calls(r, goal)
      BY <2>13 DEF BeginFlush
    <3>2. /\ rows' = rows /\ plan' = plan /\ sess'.epoch = sess.epoch
          /\ run'[r].pc = "flush" /\ run'[r].flush = f
          /\ run'[r].move = run[r].move /\ run'[r].start = run[r].start
      BY <1>0, <2>1, <2>13 DEF BeginFlush, RunState, SessState
    <3>3. f.phase = EpochPhase(r) /\ goal # "fallback" /\ f.goal = goal
          /\ (Moving(r) <=> goal = "rebuild")
      BY <2>12, <3>1
    <3> HIDE DEF f
    <3>4. Moving(r)' <=> Moving(r)
      BY <3>2, <3>3 DEF Moving
    <3>5. EpochPhase(r)' = EpochPhase(r)
      BY <3>2, <3>4 DEF EpochPhase
    <3> QED BY <2>1, <2>2, <3>2, <3>3, <3>4, <3>5 DEF Keeps
  (* What follows a successful flush of the current epoch. *)
  <2>14. ASSUME NEW f \in Flush, NEW s \in SessState, Succeed(r, f, s),
                f.epoch = sess.epoch, s.epoch = sess.epoch, f.goal # "fallback",
                Moving(r) <=> f.goal = "rebuild",
                \A a \in rows' : a.epoch \in Nat /\ a.epoch <= sess.epoch,
                \A a \in rows' : a.epoch = sess.epoch => a.phase = EpochPhase(r)
         PROVE  Keeps(r)'
    <3>1. CASE f.goal = "rebuild"
      <4>1. run'[r].pc = "rebuild" /\ sess'.epoch = sess.epoch + 1 /\ plan' = plan
        <5>1. /\ sess' = [s EXCEPT !.epoch = f.epoch + 1, !.reason = run[r].move.why]
              /\ run' = GoTo(r, "rebuild") /\ plan' = plan
          BY <2>14, <3>1 DEF Succeed
        <5>2. run'[r].pc = "rebuild"
          BY <1>0, <5>1 DEF GoTo, RunState
        <5>3. sess'.epoch = sess.epoch + 1
          BY <2>14, <5>1 DEF SessState
        <5> QED BY <5>1, <5>2, <5>3
      <4>2. \A a \in rows' : a.epoch # sess'.epoch
        BY <1>0, <2>14, <4>1
      <4>3. ~Moving(r)' /\ NewEpoch'
        BY <4>1, <4>2 DEF Moving, NewEpoch
      <4> QED BY <4>1, <4>2, <4>3 DEF Keeps
    <3>2. CASE f.goal # "rebuild"
      <4>1. run'[r].pc \in {"safe", "off"} /\ sess'.epoch = sess.epoch /\ plan' = plan
        BY <2>1, <1>0, <2>14, <3>2 DEF Succeed, Close, GoTo, RunState, SessState, Idle
      <4>2. ~Moving(r)' /\ ~Moving(r)
        BY <2>14, <3>2, <4>1 DEF Moving
      <4>3. EpochPhase(r)' = EpochPhase(r)
        BY <4>1, <4>2 DEF EpochPhase
      <4> QED BY <2>14, <4>1, <4>2, <4>3 DEF Keeps
    <3> QED BY <3>1, <3>2
  <2>15. ASSUME NEW goal \in Goals, EmptyFlush(r, goal) PROVE OnePhasePerEpoch' /\ Keeps(r)'
    <3> DEFINE f == Prepared(r, goal)
               s == [sess EXCEPT !.reason = "none"]
    <3>1. Calls(r, goal) /\ Succeed(r, f, s) /\ rows' = rows
      BY <2>15 DEF EmptyFlush
    <3>2. f \in Flush
      BY <1>0, PreparedType
    <3>3. s \in SessState /\ s.epoch = sess.epoch
      BY <1>0 DEF SessState, Reasons
    <3>4. f.goal # "fallback" /\ f.epoch = sess.epoch /\ (Moving(r) <=> f.goal = "rebuild")
      BY <2>12, <3>1
    <3>5. \A a \in rows : a.epoch \in Nat /\ a.epoch <= sess.epoch
      BY <1>0 DEF IInv, EpochsBehind, SoleInv
    <3> HIDE DEF f, s
    <3>6. Keeps(r)'
      BY <2>1, <2>14, <3>1, <3>2, <3>3, <3>4, <3>5
    <3>7. OnePhasePerEpoch'
      BY <1>5, <3>1 DEF OnePhasePerEpoch
    <3> QED BY <3>6, <3>7
  <2>16. CASE FlushDone(r)
    <3> DEFINE f == run[r].flush
               s == [sess EXCEPT !.cursor = f.cursor + Len(f.batch)]
               B == BatchRows(f)
    <3>1. r \in InFlight /\ Fits(f) /\ Succeed(r, f, s) /\ rows' = rows \cup txn \cup B
          /\ run[r].pc = "flush"
      BY <2>16 DEF FlushDone, InFlight
    <3>2. f \in Flush /\ f.epoch = sess.epoch
      BY <1>0, <3>1 DEF SoleInv
    <3>3. f.phase = EpochPhase(r) /\ f.goal # "fallback" /\ (Moving(r) <=> f.goal = "rebuild")
      BY <2>1, <3>1 DEF Keeps, Moving
    <3>4. rows' = rows \cup B
      BY <3>1 DEF CalmInv
    <3> HIDE DEF f
    <3>5. \A b \in B : b.epoch = f.epoch /\ b.phase = f.phase
      BY <3>2, RowsOfBatch
    <3>6. s \in SessState /\ s.epoch = sess.epoch
      <4>1. f.cursor + Len(f.batch) \in Nat
        BY <3>2 DEF Flush
      <4> QED BY <1>0, <4>1 DEF SessState
    <3>7. \A a \in rows : a.epoch \in Nat /\ a.epoch <= sess.epoch
      BY <1>0 DEF IInv, EpochsBehind, SoleInv
    <3> HIDE DEF s, B
    <3>8. \A a \in rows' : a.epoch \in Nat /\ a.epoch <= sess.epoch
      BY <1>0, <3>2, <3>4, <3>5, <3>7
    <3>9. \A a \in rows' : a.epoch = sess.epoch => a.phase = EpochPhase(r)
      BY <2>1, <3>2, <3>3, <3>4, <3>5
    <3>10. Keeps(r)'
      BY <2>14, <3>1, <3>2, <3>3, <3>6, <3>8, <3>9
    <3>11. OnePhasePerEpoch'
      <4>1. ASSUME NEW a \in rows', NEW b \in rows', a.epoch = b.epoch PROVE a.phase = b.phase
        BY <1>5, <3>2, <3>4, <3>5, <3>9, <4>1 DEF OnePhasePerEpoch
      <4> QED BY <4>1 DEF OnePhasePerEpoch
    <3> QED BY <3>10, <3>11
  <2>17. CASE FlushConflict(r)
    <3>1. r \in InFlight /\ ~Fits(run[r].flush)
      BY <2>17 DEF FlushConflict, InFlight
    <3> QED BY <3>1, OneLands
  <2>18. CASE Summarise(r)
    <3>1. /\ UNCHANGED <<rows, sess, plan>> /\ run'[r].start = run[r].start
          /\ run[r].pc = "loop" /\ run'[r].pc = "loop"
      BY <1>0, <2>1, <2>18 DEF Summarise, RunState
    <3>2. ~Moving(r) /\ EpochPhase(r) = plan.phase
      BY <3>1 DEF Moving, EpochPhase
    <3>3. plan.phase = run[r].start \/ NewEpoch
      BY <2>1, <3>1, <3>2 DEF Keeps
    <3> QED BY <2>3, <3>1, <3>2, <3>3
  <2> QED BY <1>9, <2>4, <2>5, <2>6, <2>8, <2>9, <2>10, <2>11, <2>13, <2>15, <2>16, <2>17, <2>18,
             StepsOfOne
<1> QED BY <1>6, <1>7, <1>8, <1>9 DEF Next

LEMMA PhaseInit == Init => PhaseInv
<1> SUFFICES ASSUME Init PROVE PhaseInv
  OBVIOUS
<1>1. rows = {} /\ budget = Budget /\ \A r \in Runs : run[r] = Idle
  BY DEF Init
<1>2. \A d \in Disturbances : Budget[d] <= Budget[d]
  BY BoundAssumption
<1>3. Idle.pc = "off"
  BY DEF Idle
<1> QED BY <1>1, <1>2, <1>3 DEF PhaseInv, OnePhasePerEpoch, Keeps, Moving, NewEpoch

(* The agent loop writes the rows of one epoch for one phase. *)
THEOREM LoopKeepsThePhase ==
    ASSUME OneRun, Budget["cancel"] = 0, Budget["crash"] = 0
    PROVE  Spec => []LoopKeepsPhase
<1>1. Init => CalmInv /\ SoleInv /\ PhaseInv
  BY CalmInit, SoleInit, PhaseInit
<1>2. IInv /\ CalmInv /\ SoleInv /\ PhaseInv /\ [Next]_vars
         => CalmInv' /\ SoleInv' /\ PhaseInv'
  BY CalmNext, SoleNext, PhaseNext
<1>3. PhaseInv => LoopKeepsPhase
  BY DEF PhaseInv, Untouched, LoopKeepsPhase
<1> QED BY <1>1, <1>2, <1>3, Invariance, PTL DEF Spec

=============================================================================
