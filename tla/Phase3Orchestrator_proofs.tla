--------------------- MODULE Phase3Orchestrator_proofs ---------------------
(* For any number of days, any points, plans and skeletons and any number of
   steering messages: the candidate files, the successes and the blackboard
   never disagree, and the run implements DayClaims. *)
EXTENDS Phase3Orchestrator, FoldLemmas

-----------------------------------------------------------------------------
(* The folds of the model *)

(* The days of a trip are finitely many. *)
LEMMA DaysFinite == IsFiniteSet(Days)
BY DaysAssumption, FS_Interval DEF Days

(* Filtering keeps elements of the sequence that are in the set, each once if
   the sequence has each once. *)
LEMMA Filtering ==
  ASSUME NEW X, NEW q \in Seq(X), NEW T
  PROVE  /\ Filtered(q, T) \in Seq(X)
         /\ \A i \in DOMAIN Filtered(q, T) : Filtered(q, T)[i] \in T
         /\ (\A i, j \in DOMAIN q : q[i] = q[j] => i = j) =>
              \A i, j \in DOMAIN Filtered(q, T) : Filtered(q, T)[i] = Filtered(q, T)[j] => i = j
<1>1. Filtered(q, T) = Sifted(q, T)
  BY DEF Filtered, Sifted
<1> QED BY <1>1, Sifting

Boards == [owner : [Pois -> 0..NDays], cost : [Days -> 0..Budget]]

(* A plan the blackboard accepts leaves every day within the budget and every
   point with one owner. *)
LEMMA ClaimTyped ==
  ASSUME NEW b \in Boards, NEW d \in Days, NEW plan \in Plans, CanClaim(b, d, plan)
  PROVE  Claimed(b, d, plan) \in Boards
<1>1. plan.pois \in SUBSET Pois /\ plan.cost \in Nat /\ Budget \in Nat
  BY PlansAssumption, NumbersAssumption
<1>2. b.cost \in [Days -> Nat]
  BY <1>1 DEF Boards
<1> DEFINE others == FoldFunctionOnSet(+, 0, b.cost, Days \ {d})
<1>3. others \in Nat
  <2>1. SumOf(b.cost, Days \ {d}) \in Nat
    BY <1>2, DaysFinite, Summing
  <2> QED BY <2>1, Zenon DEF SumOf
<1>4. plan.cost \in 0..Budget
  <2>1. others + plan.cost <= Budget
    BY Zenon DEF CanClaim
  <2> HIDE DEF others
  <2> QED BY <1>1, <1>3, <2>1
<1> QED BY <1>4, DaysAssumption DEF Boards, Claimed, Days

(* Putting the claims of failed repairs back takes no point from a day that
   owns it. *)
LEMMA Reclaiming ==
  ASSUME NEW b \in Boards, NEW S, final \in [Days -> Plans \cup {NoPlan}]
  PROVE  /\ Reclaimed(b, S) \in Boards
         /\ \A p \in Pois : b.owner[p] # 0 => Reclaimed(b, S).owner[p] = b.owner[p]
<1> DEFINE pick == [s \in SUBSET Days |-> Max(s)]
           Put(acc, d) == IF d \in S /\ final[d] # NoPlan /\ CanClaim(acc, d, final[d])
                          THEN Claimed(acc, d, final[d]) ELSE acc
           Body(f, s) == IF s = {} THEN b ELSE Put(f[s \ {Max(s)}], InOrder[Max(s)])
           Equation(f) == f = [s \in SUBSET Days |-> Body(f, s)]
           iter == CHOOSE f : Equation(f)
           step == [s \in SUBSET Days |-> [acc \in Boards |-> IF s = {} THEN acc ELSE Put(acc, Max(s))]]
<1>1. IsFiniteSet(Days)
  BY DaysAssumption, FS_Interval DEF Days
<1>2. \A s \in SUBSET Days : s # {} => Max(s) \in s /\ Max(s) \in Days
  BY DaysAssumption, LastOfSome DEF Days
<1>3. Picks(pick, Days)
  BY <1>2 DEF Picks
<1>4. ASSUME NEW acc \in Boards, NEW d \in Days
      PROVE  /\ Put(acc, d) \in Boards
             /\ \A p \in Pois : acc.owner[p] # 0 => Put(acc, d).owner[p] = acc.owner[p]
  <2>1. CASE d \in S /\ final[d] # NoPlan /\ CanClaim(acc, d, final[d])
    <3>1. final[d] \in Plans
      BY <2>1
    <3>2. Claimed(acc, d, final[d]) \in Boards
      BY <2>1, <3>1, ClaimTyped
    <3>3. \A p \in final[d].pois : acc.owner[p] \in {0, d}
      BY <2>1, Zenon DEF CanClaim
    <3>4. \A p \in Pois : acc.owner[p] # 0 => Claimed(acc, d, final[d]).owner[p] = acc.owner[p]
      BY <3>3 DEF Claimed
    <3> QED BY <2>1, <3>2, <3>4
  <2>2. CASE ~(d \in S /\ final[d] # NoPlan /\ CanClaim(acc, d, final[d]))
    <3>1. Put(acc, d) = acc
      BY <2>2, Zenon
    <3> QED BY <3>1
  <2> QED BY <2>1, <2>2
<1> HIDE DEF Put
<1>5. \E f : Equation(f)
  <2>1. step \in [SUBSET Days -> [Boards -> Boards]]
    BY <1>2, <1>4
  <2>2. PICK g \in [SUBSET Days -> Boards] : Solves(g, Days, pick, b, step)
    <3> HIDE DEF step, pick
    <3> QED BY <1>1, <1>3, <2>1, FoldExists
  <2>3. \A s \in SUBSET Days : g[s] = Body(g, s)
    BY <1>2, <2>2 DEF Solves, InOrder
  <2>4. Equation(g)
    <3> HIDE DEF Body
    <3> QED BY <2>3
  <2> QED BY <2>4
<1>6. Equation(iter)
  <2> HIDE DEF Equation
  <2> QED BY <1>5
<1>7. \A s \in SUBSET Days : iter[s] = Body(iter, s)
  <2> HIDE DEF iter, Body
  <2> QED BY <1>6
<1> DEFINE Fine(acc) == acc \in Boards /\ \A p \in Pois : b.owner[p] # 0 => acc.owner[p] = b.owner[p]
           Good == {s \in SUBSET Days : Fine(iter[s])}
<1>8. {} \in Good
  <2> HIDE DEF iter
  <2> QED BY <1>7
<1>9. ASSUME NEW s \in SUBSET Days, s # {}, s \ {pick[s]} \in Good PROVE s \in Good
  <2> HIDE DEF iter
  <2>1. iter[s] = Put(iter[s \ {pick[s]}], pick[s]) /\ pick[s] \in Days
    BY <1>2, <1>7, <1>9 DEF InOrder
  <2>2. Fine(iter[s \ {pick[s]}])
    BY <1>9
  <2> HIDE DEF pick
  <2>3. Fine(Put(iter[s \ {pick[s]}], pick[s]))
    BY <1>4, <2>1, <2>2
  <2> QED BY <2>1, <2>3
<1>10. Good = SUBSET Days
  <2>1. Good \in SUBSET SUBSET Days
    OBVIOUS
  <2> HIDE DEF Good, pick
  <2> QED BY <1>1, <1>3, <1>8, <1>9, <2>1, PickedInduction
<1>11. Reclaimed(b, S) = iter[Days]
  BY Zenon DEF Reclaimed, FoldLeft, MapThenFoldSet, iter, InOrder, Put
<1> HIDE DEF iter
<1>12. Fine(iter[Days])
  BY <1>10
<1> QED BY <1>11, <1>12

Sks == [Days -> [locked : Seq(Pois), cand : Seq(Pois)]]

(* Renegotiation changes a skeleton into a skeleton, and withdraws days of the
   trip only. *)
LEMMA AmendDayTyped ==
  ASSUME NEW acc \in [sk : Sks, days : SUBSET Days], NEW d \in Days, NEW q \in Requests, NEW most
  PROVE  AmendDay(acc, d, q, most) \in [sk : Sks, days : SUBSET Days]
<1> DEFINE sk == acc.sk
<1>1. sk \in Sks /\ acc.days \in SUBSET Days /\ MaxCore \in Nat
  BY NumbersAssumption
<1>2. CASE AmendDay(acc, d, q, most) = acc
  BY <1>2
<1>3. CASE /\ Len(sk[d].cand) > Slots(sk, d)
           /\ AmendDay(acc, d, q, most) = [sk |-> [sk EXCEPT ![d].cand = SubSeq(@, 1, Slots(sk, d))],
                                           days |-> acc.days \cup {d}]
  <2>1. Slots(sk, d) \in Nat
    BY <1>1 DEF Slots, Sks
  <2>2. sk[d].cand \in Seq(Pois)
    BY <1>1 DEF Sks
  <2>3. SubSeq(sk[d].cand, 1, Slots(sk, d)) \in Seq(Pois)
    <3> DEFINE s == sk[d].cand
               n == Slots(sk, d)
    <3>1. s \in Seq(Pois) /\ n \in Nat /\ n < Len(s)
      BY <1>3, <2>1, <2>2
    <3> HIDE DEF s, n
    <3>2. \A i \in 1..n : s[i] \in Pois
      BY <3>1
    <3>3. SubSeq(s, 1, n) \in Seq(Pois)
      BY <3>1, <3>2
    <3> QED BY <3>3 DEF s, n
  <2>4. [sk EXCEPT ![d].cand = SubSeq(@, 1, Slots(sk, d))] \in Sks
    BY <1>1, <2>3 DEF Sks
  <2> QED BY <1>1, <1>3, <2>4
<1>4. CASE /\ q.kind = "SUGGEST_MOVE"
           /\ AmendDay(acc, d, q, most) = [sk |-> Swapped(sk, d, q), days |-> acc.days \cup {d, q.to}]
  <2>1. q.to \in Days /\ q.poi \in Pois
    BY <1>4 DEF Requests, NoRequest
  <2>2. \A e \in Days : sk[e] \in [locked : Seq(Pois), cand : Seq(Pois)]
    BY <1>1 DEF Sks
  <2>3. \A S : \A s \in Seq(Pois) : Filtered(s, S) \in Seq(Pois)
    BY Filtering
  <2>4. Swapped(sk, d, q) \in Sks
    <3> DEFINE Entry == [locked : Seq(Pois), cand : Seq(Pois)]
               without(s) == Filtered(s, Pois \ {q.poi})
               from == sk[d]
               dst == sk[q.to]
               hard == q.poi \in Range(from.locked)
               src == IF hard THEN [from EXCEPT !.locked = without(from.locked)]
                              ELSE [from EXCEPT !.cand = without(from.cand)]
               tgt == IF hard
                      THEN [locked |-> IF q.poi \in Range(dst.locked) THEN dst.locked
                                       ELSE Append(dst.locked, q.poi),
                            cand |-> without(dst.cand)]
                      ELSE IF q.poi \in Range(dst.cand) \cup Range(dst.locked) THEN dst
                      ELSE [dst EXCEPT !.cand = Append(dst.cand, q.poi)]
    <3>1. \A s \in Seq(Pois) : Append(s, q.poi) \in Seq(Pois)
      BY <2>1
    <3>2. \A s \in Seq(Pois) : without(s) \in Seq(Pois)
      BY <2>3
    <3>3. from \in Entry /\ dst \in Entry
      BY <2>1, <2>2
    <3> HIDE DEF without, hard
    <3>4. src \in Entry
      BY <3>2, <3>3
    <3>5. tgt \in Entry
      <4> HIDE DEF dst
      <4> QED BY <3>1, <3>2, <3>3
    <3>6. Swapped(sk, d, q) = [sk EXCEPT ![d] = src, ![q.to] = tgt]
      BY Zenon DEF Swapped, without, hard, src, tgt, dst, from
    <3> HIDE DEF src, tgt
    <3>7. sk \in [Days -> Entry]
      BY <1>1 DEF Sks
    <3>8. [sk EXCEPT ![d] = src, ![q.to] = tgt] \in [Days -> Entry]
      <4> HIDE DEF sk, Entry
      <4> QED BY <2>1, <3>4, <3>5, <3>7
    <3> QED BY <3>6, <3>8 DEF Sks
  <2> QED BY <1>1, <1>4, <2>1, <2>4
<1> QED BY <1>2, <1>3, <1>4, Zenon DEF AmendDay

(* Renegotiation yields a skeleton and a set of days to plan again. *)
LEMMA Amending ==
  ASSUME NEW reqs \in [Days -> Requests], skeleton \in Sks
  PROVE  Amended(reqs) \in [sk : Sks, days : SUBSET Days]
<1> DEFINE A == [sk : Sks, days : SUBSET Days]
           base == [sk |-> skeleton, days |-> {}]
           pick == [s \in SUBSET Days |-> Max(s)]
           Put(acc, d) == AmendDay(acc, d, reqs[d], MostAffected(reqs))
           Body(f, s) == IF s = {} THEN base ELSE Put(f[s \ {Max(s)}], InOrder[Max(s)])
           Equation(f) == f = [s \in SUBSET Days |-> Body(f, s)]
           iter == CHOOSE f : Equation(f)
           step == [s \in SUBSET Days |-> [acc \in A |-> IF s = {} THEN acc ELSE Put(acc, Max(s))]]
<1>1. IsFiniteSet(Days)
  BY DaysAssumption, FS_Interval DEF Days
<1>2. \A s \in SUBSET Days : s # {} => Max(s) \in s /\ Max(s) \in Days
  BY DaysAssumption, LastOfSome DEF Days
<1>3. Picks(pick, Days)
  BY <1>2 DEF Picks
<1>4. \A acc \in A, d \in Days : Put(acc, d) \in A
  BY AmendDayTyped
<1>5. base \in A
  OBVIOUS
<1> HIDE DEF Put, A, base
<1>6. \E f : Equation(f)
  <2>1. step \in [SUBSET Days -> [A -> A]]
    BY <1>2, <1>4
  <2>2. PICK g \in [SUBSET Days -> A] : Solves(g, Days, pick, base, step)
    <3> HIDE DEF step, pick
    <3> QED BY <1>1, <1>3, <1>5, <2>1, FoldExists
  <2>3. \A s \in SUBSET Days : g[s] = Body(g, s)
    BY <1>2, <2>2 DEF Solves, InOrder
  <2>4. Equation(g)
    <3> HIDE DEF Body
    <3> QED BY <2>3
  <2> QED BY <2>4
<1>7. Equation(iter)
  <2> HIDE DEF Equation
  <2> QED BY <1>6
<1>8. \A s \in SUBSET Days : iter[s] = Body(iter, s)
  <2> HIDE DEF iter, Body
  <2> QED BY <1>7
<1>9. Amended(reqs) = iter[Days]
  BY Zenon DEF Amended, FoldLeft, MapThenFoldSet, iter, InOrder, Put, base
<1> HIDE DEF iter
<1> DEFINE Good == {s \in SUBSET Days : iter[s] \in A}
<1>10. {} \in Good
  BY <1>5, <1>8
<1>11. ASSUME NEW s \in SUBSET Days, s # {}, s \ {pick[s]} \in Good PROVE s \in Good
  <2>1. iter[s] = Put(iter[s \ {pick[s]}], pick[s]) /\ pick[s] \in Days
    BY <1>2, <1>8, <1>11 DEF InOrder
  <2> QED BY <1>4, <1>11, <2>1
<1>12. Good = SUBSET Days
  <2>1. Good \in SUBSET SUBSET Days
    OBVIOUS
  <2> HIDE DEF Good, pick
  <2> QED BY <1>1, <1>3, <1>10, <1>11, <2>1, PickedInduction
<1>13. iter[Days] \in A
  BY <1>12
<1> QED BY <1>9, <1>13 DEF A

-----------------------------------------------------------------------------
(* The invariant *)

Early == {"collect", "retry", "late", "negotiate", "redo"}

\* days that have a worker or are to get one, before validation, have no plan
Unplanned ==
  /\ stage = "collect" => \A d \in Days : work[d] # "idle" => won[d] = NoPlan
  /\ stage = "collect" => \A d \in batch : work[d] = "finished"
  /\ stage \in {"late", "redo"} => \A d \in todo : won[d] = NoPlan

\* the list of days to retry names days without a plan, each once
ToRetry ==
  stage \in {"collect", "retry"} =>
    /\ \A i \in DOMAIN failures : /\ won[failures[i]] = NoPlan
                                  /\ stage = "collect" => work[failures[i]] = "idle"
    /\ \A i, j \in DOMAIN failures : failures[i] = failures[j] => i = j

\* where a day is in the first and in the second round of repairs, and what its
\* file, its place in the delivery and its old plan are then
LocalDay(d) ==
  \/ d \notin todo /\ work[d] = "idle" /\ undo[d] = NoPlan /\ final[d] = kept[d]
  \/ /\ d \in todo /\ final[d] # NoPlan
     /\ \/ work[d] = "queued" /\ undo[d] = NoPlan /\ kept[d] = final[d]
        \/ work[d] = "active" /\ undo[d] = final[d] /\ kept[d] = final[d]
        \/ work[d] = "finished" /\ undo[d] \in {NoPlan, final[d]}

SerialDay(d) ==
  \/ /\ work[d] = "idle" /\ undo[d] = NoPlan /\ final[d] = kept[d]
     /\ d \in todo => final[d] # NoPlan
  \/ /\ work[d] = "active" /\ d \in todo /\ d = First(todo)
     /\ undo[d] = final[d] /\ kept[d] = final[d] /\ final[d] # NoPlan
     /\ d \notin restored

Repairing ==
  /\ stage = "local" => \A d \in Days : LocalDay(d)
  /\ stage = "serial" => \A d \in Days : SerialDay(d)
  /\ stage = "done" => \A d \in Days : undo[d] = NoPlan

IInv ==
  /\ TypeOK
  /\ PlansAgree /\ ClaimsBacked /\ FlagsConsumed
  /\ Unplanned /\ ToRetry /\ Repairing

-----------------------------------------------------------------------------
(* What the pieces of a step do to plans, claims and the promise *)

Q == Plans \cup {NoPlan}
Held == [d \in Days |-> IF stage \in {"local", "serial"} /\ undo[d] # NoPlan THEN NoPlan ELSE kept[d]]
Promised == [Claims!Next]_(Claims!vars)

(* What a worker's outcome holds. *)
LEMMA OutcomeTyped ==
  ASSUME NEW o \in Outcomes
  PROVE  /\ o.plan \in Q /\ o.wrote \in BOOLEAN /\ o.request \in Requests
         /\ o.plan # NoPlan => o.plan \in Plans /\ o.plan.pois \in SUBSET Pois
<1>1. NoRequest \in Requests
  BY DEF Requests
<1> QED BY <1>1, PlansAssumption DEF Outcomes, Q

(* What the blackboard's decision on an outcome of day d changes. *)
LEMMA Settling ==
  ASSUME TypeOK, NEW d \in Days, NEW o \in Outcomes, Settle(d, o)
  PROVE  /\ kept' \in [Days -> Q] /\ undo' \in [Days -> Q]
         /\ board' \in Boards /\ restored' \in SUBSET Days
         /\ \A e \in Days \ {d} : /\ kept'[e] = kept[e] /\ undo'[e] = undo[e]
                                  /\ e \in restored' <=> e \in restored
         /\ \A e \in Days \ {d}, p \in Pois : board.owner[p] = e => board'.owner[p] = e
         /\ Ok(d, o) => /\ o.plan \in Plans /\ o.plan # NoPlan
                        /\ kept' = [kept EXCEPT ![d] = o.plan] /\ undo' = [undo EXCEPT ![d] = NoPlan]
                        /\ kept'[d] = o.plan /\ undo'[d] = NoPlan /\ restored' = restored \ {d}
                        /\ \A p \in o.plan.pois : /\ p \in Pois /\ board.owner[p] \in {0, d}
                                                  /\ board'.owner[p] = d
         /\ ~Ok(d, o) => /\ kept'[d] \in {kept[d], NoPlan}
                         /\ undo' = undo /\ restored' = restored /\ board' = board
<1> USE OutcomeTyped
<1>1. /\ kept \in [Days -> Q] /\ undo \in [Days -> Q] /\ restored \in SUBSET Days /\ board \in Boards
  BY DEF TypeOK, Q, Boards
<1>2. CASE Ok(d, o)
  <2>1. o.plan # NoPlan /\ CanClaim(board, d, o.plan) /\ o.plan \in Plans /\ o.plan.pois \in SUBSET Pois
    BY <1>2, Zenon DEF Ok
  <2>2. \A p \in o.plan.pois : board.owner[p] \in {0, d}
    BY <2>1, Zenon DEF CanClaim
  <2>3. /\ kept' = [kept EXCEPT ![d] = o.plan] /\ board' = Claimed(board, d, o.plan)
        /\ undo' = [undo EXCEPT ![d] = NoPlan] /\ restored' = restored \ {d}
    BY <1>2 DEF Settle
  <2>4. board' \in Boards
    BY <1>1, <2>1, <2>3, ClaimTyped
  <2>5. \A p \in Pois : board'.owner[p] = IF p \in o.plan.pois THEN d ELSE board.owner[p]
    BY <2>3 DEF Claimed
  <2>6. \A e \in Days \ {d}, p \in Pois : board.owner[p] = e => board'.owner[p] = e
    BY <2>2, <2>5, DaysAssumption DEF Days
  <2>7. kept' \in [Days -> Q] /\ undo' \in [Days -> Q] /\ restored' \in SUBSET Days
    BY <1>1, <2>1, <2>3 DEF Q
  <2>8. \A p \in o.plan.pois : p \in Pois /\ board'.owner[p] = d
    BY <2>1, <2>5
  <2>9. \A e \in Days \ {d} : kept'[e] = kept[e] /\ undo'[e] = undo[e] /\ (e \in restored' <=> e \in restored)
    BY <1>1, <2>3
  <2>10. kept'[d] = o.plan /\ undo'[d] = NoPlan
    BY <1>1, <2>3
  <2> HIDE DEF Ok
  <2> QED BY <1>2, <2>1, <2>2, <2>3, <2>4, <2>6, <2>7, <2>8, <2>9, <2>10
<1>3. CASE ~Ok(d, o)
  <2>1. /\ kept' = [kept EXCEPT ![d] = IF o.wrote THEN NoPlan ELSE @] /\ board' = board
        /\ undo' = [undo EXCEPT ![d] = @] /\ restored' = restored
    BY <1>3 DEF Settle
  <2>2. undo' = undo
    BY <1>1, <2>1
  <2>3. kept' \in [Days -> Q] /\ kept'[d] \in {kept[d], NoPlan} /\ \A e \in Days \ {d} : kept'[e] = kept[e]
    BY <1>1, <2>1 DEF Q
  <2> HIDE DEF Ok
  <2> QED BY <1>1, <1>3, <2>1, <2>2, <2>3
<1> QED BY <1>2, <1>3

(* ClaimsBacked speaks of the plans days hold in the sense of DayClaims. *)
LEMMA HeldBacked ==
  ClaimsBacked <=> \A d \in Days \ restored : Held[d] # NoPlan => \A p \in Held[d].pois : board.owner[p] = d
BY DEF ClaimsBacked, Held

(* A plan the blackboard accepts has no point in common with a plan another day
   holds, unless that one was put back. *)
LEMMA AcceptStep ==
  ASSUME TypeOK, ClaimsBacked, NEW d \in Days, NEW o \in Outcomes, Settle(d, o), Ok(d, o), stage' = stage
  PROVE  Promised /\ ClaimsBacked'
<1> HIDE DEF Ok
<1>1. /\ kept \in [Days -> Q] /\ undo \in [Days -> Q] /\ board.owner \in [Pois -> 0..NDays]
  BY DEF TypeOK, Q
<1>2. Held' = [Held EXCEPT ![d] = o.plan]
  <2>1. kept' = [kept EXCEPT ![d] = o.plan] /\ undo' = [undo EXCEPT ![d] = NoPlan]
    BY Settling
  <2> QED BY <1>1, <2>1 DEF Held
<1>3. ASSUME NEW e \in Days \ ({d} \cup restored), Held[e] # NoPlan PROVE Held[e].pois \cap o.plan.pois = {}
  <2>1. \A p \in Held[e].pois : board.owner[p] = e
    BY <1>3, HeldBacked
  <2>2. e # 0 /\ e # d
    BY DaysAssumption DEF Days
  <2> QED BY <2>1, <2>2, Settling
<1>4. Claims!Accept(d, o.plan)
  <2>1. Claims!Disjoint(d, o.plan)
    BY <1>3 DEF Claims!Disjoint, Held
  <2>2. o.plan \in Plans /\ undo' = [undo EXCEPT ![d] = NoPlan] /\ restored' = restored \ {d}
    BY Settling
  <2> QED BY <1>2, <2>1, <2>2 DEF Claims!Accept, Held
<1>5. Promised
  <2>1. o.plan \in Plans
    BY Settling
  <2> QED BY <1>4, <2>1 DEF Promised, Claims!Next
<1>6. \A e \in Days \ restored' : Held'[e] # NoPlan => \A p \in Held'[e].pois : board'.owner[p] = e
  <2>1. SUFFICES ASSUME NEW e \in Days \ restored', Held'[e] # NoPlan, NEW p \in Held'[e].pois
                 PROVE  board'.owner[p] = e
    OBVIOUS
  <2>2. CASE e = d
    BY <1>2, <2>1, <2>2, Settling DEF Held
  <2>3. CASE e # d
    <3>1. Held'[e] = Held[e] /\ e \notin restored
      BY <1>2, <2>1, <2>3, Settling
    <3>2. board.owner[p] = e
      BY <2>1, <3>1, HeldBacked
    <3>3. p \in Pois
      <4>1. Held[e] \in Plans
        BY <1>1, <2>1, <3>1 DEF Held, Q
      <4> QED BY <2>1, <3>1, <4>1, PlansAssumption
    <3> QED BY <2>3, <3>2, <3>3, Settling
  <2> QED BY <2>2, <2>3
<1>7. ClaimsBacked'
  BY <1>6 DEF ClaimsBacked, Held
<1> QED BY <1>5, <1>7

(* A refusal is no step of the promise when the day held nothing. *)
LEMMA RefuseStep ==
  ASSUME TypeOK, ClaimsBacked, NEW d \in Days, NEW o \in Outcomes, Settle(d, o), ~Ok(d, o),
         stage' = stage, Held[d] = NoPlan, Held'[d] = NoPlan
  PROVE  Promised /\ ClaimsBacked'
<1> HIDE DEF Ok
<1>1. board' = board /\ restored' = restored /\ undo' = undo
  BY Settling
<1>2. \A e \in Days : Held'[e] = Held[e]
  <2>1. ASSUME NEW e \in Days, e # d PROVE Held'[e] = Held[e]
    BY <1>1, <2>1, Settling DEF Held
  <2> QED BY <2>1
<1>3. Held' = Held
  BY <1>2 DEF Held
<1>4. Promised
  BY <1>1, <1>3 DEF Promised, Claims!vars, Held
<1>5. ClaimsBacked'
  BY <1>1, <1>3, HeldBacked DEF ClaimsBacked, Held
<1> QED BY <1>4, <1>5

(* A worker that runs before validation, for a day without a plan. *)
LEMMA GainStep ==
  ASSUME TypeOK, ClaimsBacked, PlansAgree, NEW d \in Days, NEW o \in Outcomes, Gain(d, o),
         stage \in Early, stage' = stage, won[d] = NoPlan
  PROVE  /\ Promised /\ ClaimsBacked' /\ PlansAgree'
         /\ kept' \in [Days -> Q] /\ undo' \in [Days -> Q] /\ won' \in [Days -> Q]
         /\ board' \in Boards /\ restored' \in SUBSET Days
         /\ \A e \in Days \ {d} : won'[e] = won[e]
         /\ ~Ok(d, o) => won' = won
<1> HIDE DEF Ok
<1>1. kept = won /\ won \in [Days -> Q] /\ o.plan \in Q
  BY OutcomeTyped DEF PlansAgree, Early, TypeOK, Q
<1>2. Settle(d, o)
  BY DEF Gain
<1>3. /\ won' \in [Days -> Q] /\ \A e \in Days \ {d} : won'[e] = won[e]
      /\ Ok(d, o) => won' = [won EXCEPT ![d] = o.plan]
      /\ ~Ok(d, o) => won' = won
  BY <1>1 DEF Gain
<1>4. kept' = won'
  <2>1. CASE Ok(d, o)
    BY <1>1, <1>2, <1>3, <2>1, Settling
  <2>2. CASE ~Ok(d, o)
    <3>1. \A e \in Days : kept'[e] = kept[e]
      BY <1>1, <1>2, <2>2, Settling
    <3>2. kept' \in [Days -> Q]
      BY <1>2, Settling
    <3> QED BY <1>1, <1>3, <2>2, <3>1, <3>2
  <2> QED BY <2>1, <2>2
<1>5. PlansAgree'
  BY <1>4 DEF PlansAgree, Early
<1>6. Promised /\ ClaimsBacked'
  <2>1. CASE Ok(d, o)
    BY <1>2, <2>1, AcceptStep
  <2>2. CASE ~Ok(d, o)
    <3>1. Held[d] = NoPlan /\ Held'[d] = NoPlan
      BY <1>1, <1>3, <1>4, <2>2 DEF Held, Early
    <3> QED BY <1>2, <2>2, <3>1, RefuseStep
  <2> QED BY <2>1, <2>2
<1>7. kept' \in [Days -> Q] /\ undo' \in [Days -> Q] /\ board' \in Boards /\ restored' \in SUBSET Days
  BY <1>2, Settling
<1> QED BY <1>3, <1>5, <1>6, <1>7

(* Withdrawing plans before validation. *)
LEMMA WithdrawStep ==
  ASSUME TypeOK, ClaimsBacked, PlansAgree, NEW S \in SUBSET Days, Invalidate(S),
         stage \in Early, stage' \in Early
  PROVE  /\ Promised /\ ClaimsBacked' /\ PlansAgree'
         /\ kept' \in [Days -> Q] /\ undo' \in [Days -> Q] /\ won' \in [Days -> Q]
         /\ board' \in Boards /\ restored' \in SUBSET Days
         /\ \A d \in Days : won'[d] = IF d \in S THEN NoPlan ELSE won[d]
<1>1. /\ kept = won /\ won \in [Days -> Q] /\ undo \in [Days -> Q]
      /\ restored \in SUBSET Days /\ board \in Boards
  BY DEF PlansAgree, Early, TypeOK, Q, Boards
<1>2. Held = kept /\ Held' = kept'
  <2>1. kept' = [d \in Days |-> IF d \in S THEN NoPlan ELSE kept[d]]
    BY DEF Invalidate
  <2> QED BY <1>1, <2>1 DEF Held, Early
<1>3. Claims!Withdraw(S)
  <2>1. stage # "done" /\ stage' # "done"
    BY DEF Early
  <2> QED BY <1>2, <2>1 DEF Claims!Withdraw, Invalidate, Held
<1>4. Promised
  BY <1>3 DEF Promised, Claims!Next
<1>5. ClaimsBacked'
  <2>1. SUFFICES ASSUME NEW d \in Days \ restored', kept'[d] # NoPlan, NEW p \in kept'[d].pois
                 PROVE  board'.owner[p] = d
    BY DEF ClaimsBacked
  <2>2. d \notin S /\ kept'[d] = kept[d] /\ d \notin restored
    BY <2>1 DEF Invalidate
  <2>3. board.owner[p] = d
    BY <2>1, <2>2 DEF ClaimsBacked, Early
  <2>4. p \in Pois
    <3>1. kept[d] \in Plans
      BY <1>1, <2>1, <2>2 DEF Q
    <3> QED BY <2>1, <2>2, <3>1, PlansAssumption
  <2>5. board'.owner[p] = board.owner[p]
    BY <2>2, <2>3, <2>4 DEF Invalidate, Released
  <2> QED BY <2>3, <2>5
<1>6. PlansAgree' /\ kept' \in [Days -> Q] /\ undo' \in [Days -> Q] /\ won' \in [Days -> Q]
  BY <1>1 DEF PlansAgree, Early, Invalidate, Q
<1>7. board' \in Boards
  BY <1>1, DaysAssumption, NumbersAssumption DEF Invalidate, Released, Boards
<1>8. restored' \in SUBSET Days /\ \A d \in Days : won'[d] = IF d \in S THEN NoPlan ELSE won[d]
  BY <1>1 DEF Invalidate
<1> QED BY <1>4, <1>5, <1>6, <1>7, <1>8

(* Putting the old plan of a day back before validation. *)
LEMMA RollBackStep ==
  ASSUME TypeOK, ClaimsBacked, PlansAgree, NEW d \in Days, RollBack(d),
         stage \in Early, stage' = stage
  PROVE  /\ Promised /\ ClaimsBacked' /\ PlansAgree'
         /\ kept' \in [Days -> Q] /\ undo' \in [Days -> Q] /\ won' \in [Days -> Q]
         /\ board' \in Boards /\ restored' \in SUBSET Days
         /\ \A e \in Days \ {d} : won'[e] = won[e]
<1>1. /\ kept = won /\ won \in [Days -> Q] /\ undo \in [Days -> Q]
      /\ restored \in SUBSET Days /\ board \in Boards
  BY DEF PlansAgree, Early, TypeOK, Q, Boards
<1>2. undo[d] # NoPlan /\ undo[d] \in Plans
  BY <1>1 DEF RollBack, Q
<1>3. kept' = [kept EXCEPT ![d] = undo[d]] /\ won' = [won EXCEPT ![d] = undo[d]]
      /\ undo' = [undo EXCEPT ![d] = NoPlan] /\ restored' = restored \cup {d}
  BY DEF RollBack
<1>4. Held = kept /\ Held' = kept'
  BY <1>1, <1>3 DEF Held, Early
<1>5. Claims!Restore({d})
  <2>1. kept' = [e \in Days |-> IF e \in {d} THEN undo[e] ELSE kept[e]]
    BY <1>1, <1>3
  <2>2. undo' = [e \in Days |-> IF e \in {d} THEN NoPlan ELSE undo[e]]
    BY <1>1, <1>3
  <2> QED BY <1>2, <1>3, <1>4, <2>1, <2>2 DEF Claims!Restore, Held
<1>6. Promised
  BY <1>5 DEF Promised, Claims!Next
<1>7. board' \in Boards /\ \A e \in Days \ {d}, p \in Pois : board.owner[p] = e => board'.owner[p] = e
  <2>1. CASE CanClaim(board, d, undo[d])
    <3>1. board' = Claimed(board, d, undo[d])
      BY <2>1 DEF RollBack
    <3>2. \A p \in undo[d].pois : board.owner[p] \in {0, d}
      BY <2>1, Zenon DEF CanClaim
    <3>3. board' \in Boards
      BY <1>1, <1>2, <2>1, <3>1, ClaimTyped
    <3>4. \A p \in Pois : board'.owner[p] = IF p \in undo[d].pois THEN d ELSE board.owner[p]
      BY <3>1 DEF Claimed
    <3> QED BY <3>2, <3>3, <3>4, DaysAssumption DEF Days
  <2>2. CASE ~CanClaim(board, d, undo[d])
    <3>1. board' = board
      BY <2>2 DEF RollBack
    <3> QED BY <1>1, <3>1
  <2> QED BY <2>1, <2>2
<1>8. ClaimsBacked'
  <2>1. SUFFICES ASSUME NEW e \in Days \ restored', kept'[e] # NoPlan, NEW p \in kept'[e].pois
                 PROVE  board'.owner[p] = e
    BY DEF ClaimsBacked
  <2>2. e # d /\ kept'[e] = kept[e] /\ e \notin restored
    BY <1>1, <1>3, <2>1
  <2>3. board.owner[p] = e
    BY <2>1, <2>2 DEF ClaimsBacked, Early
  <2>4. p \in Pois
    <3>1. kept[e] \in Plans
      BY <1>1, <2>1, <2>2 DEF Q
    <3> QED BY <2>1, <2>2, <3>1, PlansAssumption
  <2> QED BY <1>7, <2>2, <2>3, <2>4
<1>9. PlansAgree' /\ kept' \in [Days -> Q] /\ undo' \in [Days -> Q] /\ won' \in [Days -> Q]
  BY <1>1, <1>2, <1>3 DEF PlansAgree, Early, Q
<1> QED BY <1>1, <1>3, <1>6, <1>7, <1>8, <1>9

(* A step that leaves plans, claims and delivery alone. *)
LEMMA QuietStep ==
  ASSUME ClaimsBacked, PlansAgree, UNCHANGED plans, stage \in Early, stage' \in Early
  PROVE  Promised /\ ClaimsBacked' /\ PlansAgree'
<1>1. /\ kept' = kept /\ won' = won /\ board' = board /\ undo' = undo /\ restored' = restored
  BY DEF plans
<1>2. Promised
  BY <1>1 DEF Promised, Claims!vars, Early
<1> QED BY <1>1, <1>2 DEF ClaimsBacked, PlansAgree, Early

-----------------------------------------------------------------------------
(* The steps before validation *)

(* The first of some days is one of them. *)
LEMMA FirstDay ==
  ASSUME NEW S \in SUBSET Days, S # {}
  PROVE  First(S) \in S
<1>1. S \in SUBSET Nat
  BY DaysAssumption DEF Days
<1>2. \E d \in S : \A e \in S : d <= e
  BY <1>1, LeastElement
<1> QED BY <1>2 DEF First

(* Draining the steering queue flags days of the trip. *)
LEMMA Draining ==
  ASSUME TypeOK, NEW done \in SUBSET Days, NEW active \in SUBSET Days, NEW fresh,
         Drain(done, active, fresh)
  PROVE  /\ redo' \in SUBSET Days /\ owed' \in SUBSET Days
         /\ inbox' \subseteq SUBSET (1..(NDays + 1)) /\ sent' \in 0..MaxSteer
<1> DEFINE named == UNION {Targets(m, done) : m \in inbox}
<1>1. named \in SUBSET Days
  BY DEF Targets
<1>2. redo' = redo \cup (named \cap (done \cup active)) /\ owed' = (owed \ fresh) \cup named
      /\ inbox' = {} /\ sent' = sent
  BY DEF Drain
<1> HIDE DEF named
<1> QED BY <1>1, <1>2 DEF TypeOK

(* Draining in the last stages flags no day. *)
LEMMA DrainingTerminal ==
  ASSUME TypeOK, NEW fresh, DrainTerminal(fresh)
  PROVE  /\ redo' = redo /\ owed' \in SUBSET Days
         /\ inbox' \subseteq SUBSET (1..(NDays + 1)) /\ sent' \in 0..MaxSteer
BY DEF DrainTerminal, TypeOK

LEMMA StartWorkerInv ==
  ASSUME IInv, NEW d \in Days, StartWorker(d)
  PROVE  IInv' /\ Promised
<1> USE DEF IInv, StartWorker, workers, steering, frame
<1>1. Promised /\ ClaimsBacked' /\ PlansAgree'
  BY QuietStep DEF Early
<1>2. TypeOK'
  BY DEF TypeOK, plans
<1>3. Unplanned'
  BY DEF Unplanned, TypeOK, plans
<1>4. ToRetry'
  BY DEF ToRetry, TypeOK, plans
<1>5. FlagsConsumed' /\ Repairing'
  BY DEF FlagsConsumed, Repairing
<1> QED BY <1>1, <1>2, <1>3, <1>4, <1>5

LEMMA FinishWorkerInv ==
  ASSUME IInv, NEW d \in Days, NEW o \in Outcomes, FinishWorker(d, o)
  PROVE  IInv' /\ Promised
<1> USE DEF IInv, FinishWorker, workers, steering, frame
<1>1. Promised /\ ClaimsBacked' /\ PlansAgree'
  BY QuietStep DEF Early
<1>2. TypeOK'
  BY DEF TypeOK, plans
<1>3. Unplanned'
  BY DEF Unplanned, TypeOK, plans
<1>4. ToRetry'
  BY DEF ToRetry, TypeOK, plans
<1>5. FlagsConsumed' /\ Repairing'
  BY DEF FlagsConsumed, Repairing
<1> QED BY <1>1, <1>2, <1>3, <1>4, <1>5

LEMMA TakeBatchInv ==
  ASSUME IInv, TakeBatch
  PROVE  IInv' /\ Promised
<1> USE DEF IInv, TakeBatch, workers, steering, frame
<1>1. Promised /\ ClaimsBacked' /\ PlansAgree'
  BY QuietStep DEF Early
<1>2. TypeOK' /\ Unplanned' /\ ToRetry'
  BY DEF TypeOK, Unplanned, ToRetry, plans
<1>3. FlagsConsumed' /\ Repairing'
  BY DEF FlagsConsumed, Repairing
<1> QED BY <1>1, <1>2, <1>3

LEMMA CollectInv ==
  ASSUME IInv, NEW d \in Days, Collect(d)
  PROVE  IInv' /\ Promised
<1> HIDE DEF Ok
<1>1. /\ stage = "collect" /\ stage' = stage /\ d \in batch /\ Gain(d, result[d])
      /\ work' = [work EXCEPT ![d] = "idle"] /\ batch' = batch \ {d}
      /\ result' = [result EXCEPT ![d] = Lost]
      /\ request' = [request EXCEPT ![d] = result[d].request]
      /\ failures' = IF Ok(d, result[d]) THEN failures ELSE Append(failures, d)
      /\ UNCHANGED <<todo, skeleton, locked, final>>
  BY DEF Collect, frame
<1>2. result[d] \in Outcomes /\ TypeOK
  BY DEF IInv, TypeOK
<1>3. work[d] = "finished" /\ won[d] = NoPlan
  BY <1>1 DEF IInv, Unplanned
<1>4. /\ Promised /\ ClaimsBacked' /\ PlansAgree'
      /\ kept' \in [Days -> Q] /\ undo' \in [Days -> Q] /\ won' \in [Days -> Q]
      /\ board' \in Boards /\ restored' \in SUBSET Days
      /\ \A e \in Days \ {d} : won'[e] = won[e]
      /\ ~Ok(d, result[d]) => won' = won
  BY <1>1, <1>2, <1>3, GainStep DEF IInv, Early
<1>5. /\ redo' \in SUBSET Days /\ owed' \in SUBSET Days
      /\ inbox' \subseteq SUBSET (1..(NDays + 1)) /\ sent' \in 0..MaxSteer
  <2>1. CASE batch = {d}
    <3>1. Drain(Won(won'), Active, {})
      BY <2>1 DEF Collect
    <3>2. Won(won') \in SUBSET Days /\ Active \in SUBSET Days
      BY DEF Won, Active
    <3> QED BY <1>2, <3>1, <3>2, Draining
  <2>2. CASE batch # {d}
    <3>1. UNCHANGED <<steering, owed>>
      BY <2>2 DEF Collect
    <3> QED BY <1>2, <3>1 DEF steering, TypeOK
  <2> QED BY <2>1, <2>2
<1>6. Lost \in Outcomes
  BY DEF Lost, Outcomes, Requests
<1>7. result[d].request \in Requests
  BY <1>2, OutcomeTyped
<1>8. failures \in Seq(Days) /\ failures' \in Seq(Days)
  BY <1>1, <1>2 DEF TypeOK
<1>9. TypeOK'
  BY <1>1, <1>2, <1>4, <1>5, <1>6, <1>7, <1>8 DEF TypeOK, Q, Boards
<1>10. Unplanned'
  BY <1>1, <1>2, <1>4 DEF IInv, Unplanned, TypeOK
<1>11. ToRetry'
  <2>1. \A i \in DOMAIN failures : won[failures[i]] = NoPlan /\ work[failures[i]] = "idle"
    BY <1>1 DEF IInv, ToRetry
  <2>2. \A i, j \in DOMAIN failures : failures[i] = failures[j] => i = j
    BY <1>1 DEF IInv, ToRetry
  <2>3. \A i \in DOMAIN failures : failures[i] \in Days /\ failures[i] # d
    BY <1>3, <1>8, <2>1
  <2>4. \A i \in DOMAIN failures : won'[failures[i]] = NoPlan /\ work'[failures[i]] = "idle"
    BY <1>1, <1>2, <1>4, <2>1, <2>3 DEF TypeOK
  <2>5. CASE Ok(d, result[d])
    BY <1>1, <2>2, <2>4, <2>5 DEF ToRetry
  <2>6. CASE ~Ok(d, result[d])
    <3>1. failures' = Append(failures, d) /\ won'[d] = NoPlan /\ work'[d] = "idle"
      BY <1>1, <1>2, <1>3, <1>4, <2>6 DEF TypeOK
    <3>2. DOMAIN failures = 1..Len(failures) /\ DOMAIN failures' = 1..(Len(failures) + 1)
          /\ Len(failures) \in Nat /\ failures'[Len(failures) + 1] = d
      BY <1>8, <3>1
    <3>3. \A i \in DOMAIN failures' : i # Len(failures) + 1 => i \in DOMAIN failures /\ failures'[i] = failures[i]
      BY <1>8, <3>1, <3>2
    <3>4. \A i \in DOMAIN failures' : won'[failures'[i]] = NoPlan /\ work'[failures'[i]] = "idle"
      BY <2>4, <3>1, <3>2, <3>3
    <3>5. \A i, j \in DOMAIN failures' : failures'[i] = failures'[j] => i = j
      BY <2>2, <2>3, <3>2, <3>3
    <3> QED BY <3>4, <3>5 DEF ToRetry
  <2> QED BY <2>5, <2>6
<1>12. FlagsConsumed' /\ Repairing'
  BY <1>1 DEF FlagsConsumed, Repairing
<1> QED BY <1>4, <1>9, <1>10, <1>11, <1>12 DEF IInv

LEMMA EndCollectInv ==
  ASSUME IInv, EndCollect
  PROVE  IInv' /\ Promised
<1> DEFINE again == redo \cap Won(won)
           more == Filtered(InOrder, again)
<1>1. /\ stage = "collect" /\ stage' = "retry" /\ Invalidate(again) /\ redo' = {}
      /\ failures' = failures \o more
      /\ UNCHANGED <<work, result, batch, todo, request, skeleton, locked, inbox, sent, final, owed>>
  BY DEF EndCollect, workers, frame
<1>2. again \in SUBSET Days /\ \A d \in again : won[d] # NoPlan
  BY DEF Won
<1>3. TypeOK
  BY DEF IInv
<1> HIDE DEF again
<1>4. /\ Promised /\ ClaimsBacked' /\ PlansAgree'
      /\ kept' \in [Days -> Q] /\ undo' \in [Days -> Q] /\ won' \in [Days -> Q]
      /\ board' \in Boards /\ restored' \in SUBSET Days
      /\ \A d \in Days : won'[d] = IF d \in again THEN NoPlan ELSE won[d]
  BY <1>1, <1>2, WithdrawStep DEF IInv, Early
<1>5. /\ more \in Seq(Days) /\ \A i \in DOMAIN more : more[i] \in again
      /\ \A i, j \in DOMAIN more : more[i] = more[j] => i = j
  <2>1. InOrder \in Seq(Days) /\ \A i, j \in DOMAIN InOrder : InOrder[i] = InOrder[j] => i = j
    BY DaysAssumption DEF InOrder, Days
  <2> QED BY <2>1, Filtering
<1>6. /\ failures \in Seq(Days)
      /\ \A i \in DOMAIN failures : failures[i] \in Days /\ won[failures[i]] = NoPlan
      /\ \A i, j \in DOMAIN failures : failures[i] = failures[j] => i = j
  <2>1. failures \in Seq(Days)
    BY <1>3 DEF TypeOK
  <2> QED BY <1>1, <2>1 DEF IInv, ToRetry
<1> HIDE DEF more
<1>7. TypeOK'
  <2>1. failures' \in Seq(Days)
    BY <1>1, <1>5, <1>6
  <2> QED BY <1>1, <1>3, <1>4, <2>1 DEF TypeOK, Q, Boards
<1>8. ToRetry'
  <2> DEFINE n == Len(failures)
             m == Len(more)
  <2>1. /\ n \in Nat /\ m \in Nat /\ DOMAIN failures = 1..n /\ DOMAIN more = 1..m
        /\ DOMAIN failures' = 1..(n + m)
    BY <1>1, <1>5, <1>6
  <2>2. \A i \in 1..n : failures'[i] = failures[i]
    BY <1>1, <1>5, <1>6
  <2>3. \A i \in 1..(n + m) : i > n => i - n \in 1..m /\ failures'[i] = more[i - n]
    BY <1>1, <1>5, <1>6
  <2> HIDE DEF n, m
  <2>4. \A i \in 1..n : failures'[i] \in Days /\ won[failures'[i]] = NoPlan
    BY <1>6, <2>1, <2>2
  <2>5. \A i \in 1..(n + m) : i > n => failures'[i] \in again
    BY <1>5, <2>1, <2>3
  <2>6. \A i \in 1..(n + m) : i > n \/ i \in 1..n
    BY <2>1
  <2>7. \A i \in 1..(n + m) : won'[failures'[i]] = NoPlan
    BY <1>2, <1>4, <2>4, <2>5, <2>6
  <2>8. ASSUME NEW i \in 1..(n + m), NEW j \in 1..(n + m), failures'[i] = failures'[j] PROVE i = j
    <3>1. CASE i \in 1..n /\ j \in 1..n
      BY <1>6, <2>1, <2>2, <2>8, <3>1
    <3>2. CASE i > n /\ j > n
      <4>1. i - n = j - n
        BY <1>5, <2>1, <2>3, <2>8, <3>2
      <4> QED BY <2>1, <4>1
    <3>3. CASE (i \in 1..n /\ j > n) \/ (i > n /\ j \in 1..n)
      BY <1>2, <2>4, <2>5, <2>8, <3>3
    <3> QED BY <2>6, <3>1, <3>2, <3>3
  <2> QED BY <1>1, <2>1, <2>7, <2>8 DEF ToRetry
<1>9. Unplanned' /\ FlagsConsumed' /\ Repairing'
  BY <1>1 DEF Unplanned, FlagsConsumed, Repairing
<1> QED BY <1>4, <1>7, <1>8, <1>9 DEF IInv

(* What is left of the list after its first day. *)
LEMMA TailOf ==
  ASSUME NEW q \in Seq(Days), q # <<>>, \A i, j \in DOMAIN q : q[i] = q[j] => i = j
  PROVE  /\ Head(q) \in Days /\ Tail(q) \in Seq(Days)
         /\ \A i \in DOMAIN Tail(q) : \E k \in DOMAIN q : Tail(q)[i] = q[k] /\ q[k] # Head(q)
         /\ \A i, j \in DOMAIN Tail(q) : Tail(q)[i] = Tail(q)[j] => i = j
<1>1. Len(q) \in Nat /\ DOMAIN q = 1..Len(q) /\ 1 \in DOMAIN q /\ Head(q) = q[1]
  OBVIOUS
<1>2. Tail(q) \in Seq(Days) /\ DOMAIN Tail(q) = 1..(Len(q) - 1) /\ Head(q) \in Days
  OBVIOUS
<1>3. \A i \in DOMAIN Tail(q) : Tail(q)[i] = q[i + 1] /\ i + 1 \in DOMAIN q /\ i + 1 # 1
  BY <1>1, <1>2
<1>4. \A i \in DOMAIN Tail(q) : \E k \in DOMAIN q : Tail(q)[i] = q[k] /\ q[k] # Head(q)
  BY <1>1, <1>3
<1>5. \A i, j \in DOMAIN Tail(q) : Tail(q)[i] = Tail(q)[j] => i = j
  <2>1. ASSUME NEW i \in DOMAIN Tail(q), NEW j \in DOMAIN Tail(q), Tail(q)[i] = Tail(q)[j] PROVE i = j
    <3>1. i + 1 = j + 1
      BY <1>3, <2>1
    <3>2. i \in Nat /\ j \in Nat
      BY <1>1, <1>2
    <3> QED BY <3>1, <3>2
  <2> QED BY <2>1
<1> QED BY <1>2, <1>4, <1>5

LEMMA RetryInv ==
  ASSUME IInv, NEW o \in Outcomes, Retry(o)
  PROVE  IInv' /\ Promised
<1> DEFINE d == Head(failures)
<1> HIDE DEF Ok
<1>1. /\ stage = "retry" /\ stage' = stage /\ failures # <<>> /\ failures' = Tail(failures)
      /\ Drain(Won(won), {d}, {d})
      /\ UNCHANGED <<work, result, batch, todo, skeleton, locked, final>>
  BY DEF Retry, workers, frame
<1>2. TypeOK
  BY DEF IInv
<1>3. /\ failures \in Seq(Days) /\ \A i \in DOMAIN failures : won[failures[i]] = NoPlan
      /\ \A i, j \in DOMAIN failures : failures[i] = failures[j] => i = j
  BY <1>1, <1>2 DEF IInv, ToRetry, TypeOK
<1>4. d \in Days /\ won[d] = NoPlan
  BY <1>1, <1>3
<1>5. /\ Promised /\ ClaimsBacked' /\ PlansAgree'
      /\ kept' \in [Days -> Q] /\ undo' \in [Days -> Q] /\ won' \in [Days -> Q]
      /\ board' \in Boards /\ restored' \in SUBSET Days /\ request' \in [Days -> Requests]
      /\ \A e \in Days \ {d} : won'[e] = won[e]
  <2>1. CASE Ok(d, o) \/ undo[d] = NoPlan
    <3>1. Gain(d, o) /\ request' = [request EXCEPT ![d] = o.request]
      BY <2>1 DEF Retry
    <3>2. request' \in [Days -> Requests]
      BY <1>2, <1>4, <3>1, OutcomeTyped DEF TypeOK
    <3> HIDE DEF d
    <3> QED BY <1>1, <1>2, <1>4, <3>1, <3>2, GainStep DEF IInv, Early
  <2>2. CASE ~(Ok(d, o) \/ undo[d] = NoPlan)
    <3>1. RollBack(d) /\ request' = request
      BY <2>2 DEF Retry
    <3>2. request' \in [Days -> Requests]
      BY <1>2, <3>1 DEF TypeOK
    <3> HIDE DEF d
    <3> QED BY <1>1, <1>2, <1>4, <3>1, <3>2, RollBackStep DEF IInv, Early
  <2> QED BY <2>1, <2>2
<1>6. /\ redo' \in SUBSET Days /\ owed' \in SUBSET Days
      /\ inbox' \subseteq SUBSET (1..(NDays + 1)) /\ sent' \in 0..MaxSteer
  <2>1. Won(won) \in SUBSET Days /\ {d} \in SUBSET Days
    BY <1>4 DEF Won
  <2> HIDE DEF d
  <2> QED BY <1>1, <1>2, <2>1, Draining
<1>7. TypeOK'
  <2>1. failures' \in Seq(Days)
    BY <1>1, <1>3, TailOf
  <2> QED BY <1>1, <1>2, <1>5, <1>6, <2>1 DEF TypeOK, Q, Boards
<1>8. ToRetry'
  <2>1. \A i \in DOMAIN failures' : \E k \in DOMAIN failures : failures'[i] = failures[k] /\ failures[k] # d
    BY <1>1, <1>3, TailOf
  <2>2. \A i, j \in DOMAIN failures' : failures'[i] = failures'[j] => i = j
    BY <1>1, <1>3, TailOf
  <2>3. \A k \in DOMAIN failures : failures[k] \in Days
    BY <1>3
  <2> HIDE DEF d
  <2>4. \A i \in DOMAIN failures' : won'[failures'[i]] = NoPlan
    BY <1>3, <1>5, <2>1, <2>3
  <2> QED BY <1>1, <2>2, <2>4 DEF ToRetry
<1>9. Unplanned' /\ FlagsConsumed' /\ Repairing'
  BY <1>1 DEF Unplanned, FlagsConsumed, Repairing
<1> QED BY <1>5, <1>7, <1>8, <1>9 DEF IInv

LEMMA SkipRetryInv ==
  ASSUME IInv, SkipRetry
  PROVE  IInv' /\ Promised
<1>1. /\ stage = "retry" /\ stage' = stage /\ failures # <<>> /\ failures' = Tail(failures)
      /\ UNCHANGED plans
      /\ UNCHANGED <<work, result, batch, todo, request, skeleton, locked, inbox, sent, redo, final, owed>>
  BY DEF SkipRetry, workers, frame, steering
<1>2. TypeOK
  BY DEF IInv
<1>3. /\ failures \in Seq(Days) /\ \A i \in DOMAIN failures : won[failures[i]] = NoPlan
      /\ \A i, j \in DOMAIN failures : failures[i] = failures[j] => i = j
  BY <1>1, <1>2 DEF IInv, ToRetry, TypeOK
<1>4. Promised /\ ClaimsBacked' /\ PlansAgree'
  BY <1>1, QuietStep DEF IInv, Early
<1>5. TypeOK'
  <2>1. failures' \in Seq(Days)
    BY <1>1, <1>3, TailOf
  <2> QED BY <1>1, <1>2, <2>1 DEF TypeOK, plans
<1>6. ToRetry'
  <2>1. \A i \in DOMAIN failures' : \E k \in DOMAIN failures : failures'[i] = failures[k]
    BY <1>1, <1>3, TailOf
  <2>2. \A i, j \in DOMAIN failures' : failures'[i] = failures'[j] => i = j
    BY <1>1, <1>3, TailOf
  <2> QED BY <1>1, <1>3, <2>1, <2>2 DEF ToRetry, plans
<1>7. Unplanned' /\ FlagsConsumed' /\ Repairing'
  BY <1>1 DEF Unplanned, FlagsConsumed, Repairing
<1> QED BY <1>4, <1>5, <1>6, <1>7 DEF IInv

LEMMA EndRetryInv ==
  ASSUME IInv, EndRetry
  PROVE  IInv' /\ Promised
<1> DEFINE named == UNION {Targets(m, Won(won)) : m \in inbox}
           late == redo \cup (named \cap Won(won))
           S == late \cap Won(won)
<1>1. /\ stage = "retry" /\ stage' = "late" /\ Invalidate(S) /\ todo' = late /\ redo' = {} /\ inbox' = {}
      /\ owed' = owed \cup named
      /\ UNCHANGED <<work, result, batch, failures, request, skeleton, locked, sent, final>>
  BY DEF EndRetry, workers, frame
<1>2. TypeOK
  BY DEF IInv
<1>3. named \in SUBSET Days /\ late \in SUBSET Days /\ S \in SUBSET Days
  BY <1>2 DEF Targets, Won, TypeOK
<1>4. \A d \in Days : d \in late /\ d \notin S => won[d] = NoPlan
  BY DEF Won
<1> HIDE DEF named, late, S
<1>5. /\ Promised /\ ClaimsBacked' /\ PlansAgree'
      /\ kept' \in [Days -> Q] /\ undo' \in [Days -> Q] /\ won' \in [Days -> Q]
      /\ board' \in Boards /\ restored' \in SUBSET Days
      /\ \A d \in Days : won'[d] = IF d \in S THEN NoPlan ELSE won[d]
  BY <1>1, <1>2, <1>3, WithdrawStep DEF IInv, Early
<1>6. TypeOK'
  BY <1>1, <1>2, <1>3, <1>5 DEF TypeOK, Q, Boards
<1>7. Unplanned'
  BY <1>1, <1>3, <1>4, <1>5 DEF Unplanned
<1>8. ToRetry' /\ FlagsConsumed' /\ Repairing'
  BY <1>1 DEF ToRetry, FlagsConsumed, Repairing
<1> QED BY <1>5, <1>6, <1>7, <1>8 DEF IInv

(* A serial worker before validation, for the first day of todo. *)
LEMMA RerunStep ==
  ASSUME IInv, NEW o \in Outcomes, stage \in {"late", "redo"}, stage' = stage, todo # {},
         todo' = todo \ {First(todo)}, Gain(First(todo), o), DrainTerminal({First(todo)}),
         request' \in [Days -> Requests],
         UNCHANGED <<work, result, batch, failures, skeleton, locked, final>>
  PROVE  IInv' /\ Promised
<1> DEFINE d == First(todo)
<1>1. TypeOK
  BY DEF IInv
<1>2. d \in todo /\ d \in Days /\ won[d] = NoPlan
  BY <1>1, FirstDay DEF IInv, TypeOK, Unplanned
<1> HIDE DEF d
<1>3. /\ Promised /\ ClaimsBacked' /\ PlansAgree'
      /\ kept' \in [Days -> Q] /\ undo' \in [Days -> Q] /\ won' \in [Days -> Q]
      /\ board' \in Boards /\ restored' \in SUBSET Days
      /\ \A e \in Days \ {d} : won'[e] = won[e]
  <2>1. Gain(d, o) /\ stage \in Early
    BY DEF d, Early
  <2> QED BY <1>1, <1>2, <2>1, GainStep DEF IInv
<1>4. /\ redo' = redo /\ owed' \in SUBSET Days
      /\ inbox' \subseteq SUBSET (1..(NDays + 1)) /\ sent' \in 0..MaxSteer
  BY <1>1, DrainingTerminal
<1>5. todo' = todo \ {d}
  BY DEF d
<1>6. TypeOK'
  BY <1>1, <1>3, <1>4, <1>5 DEF TypeOK, Q, Boards
<1>7. Unplanned'
  BY <1>1, <1>3, <1>5 DEF IInv, Unplanned, TypeOK
<1>8. ToRetry' /\ FlagsConsumed' /\ Repairing'
  BY <1>4 DEF IInv, ToRetry, FlagsConsumed, Repairing
<1> QED BY <1>3, <1>6, <1>7, <1>8 DEF IInv

LEMMA LateInv ==
  ASSUME IInv, NEW o \in Outcomes, Late(o)
  PROVE  IInv' /\ Promised
<1> DEFINE d == First(todo)
           asked == IF request[d] # NoRequest THEN request[d]
                    ELSE [kind |-> "INFEASIBLE_DAY", poi |-> NoPlan, to |-> 0]
<1> HIDE DEF Ok
<1>1. /\ stage = "late" /\ stage' = stage /\ todo # {} /\ todo' = todo \ {d} /\ Gain(d, o) /\ DrainTerminal({d})
      /\ request' = [request EXCEPT ![d] = IF Ok(d, o) THEN @
                                           ELSE IF o.request = NoRequest THEN NoRequest ELSE asked]
      /\ UNCHANGED <<work, result, batch, failures, skeleton, locked, final>>
  BY DEF Late, workers, frame
<1>2. request \in [Days -> Requests] /\ d \in Days
  BY <1>1, FirstDay DEF IInv, TypeOK
<1>3. asked \in Requests /\ NoRequest \in Requests
  BY <1>2 DEF Requests
<1>4. request' \in [Days -> Requests]
  <2> HIDE DEF asked, d
  <2> QED BY <1>1, <1>2, <1>3
<1> QED BY <1>1, <1>4, RerunStep

LEMMA RedoInv ==
  ASSUME IInv, NEW o \in Outcomes, Redo(o)
  PROVE  IInv' /\ Promised
<1>1. /\ stage = "redo" /\ stage' = stage /\ todo # {} /\ todo' = todo \ {First(todo)}
      /\ Gain(First(todo), o) /\ DrainTerminal({First(todo)})
      /\ UNCHANGED <<work, result, batch, failures, request, skeleton, locked, final>>
  BY DEF Redo, workers, frame
<1>2. request' \in [Days -> Requests]
  BY <1>1 DEF IInv, TypeOK
<1> QED BY <1>1, <1>2, RerunStep

LEMMA UndoInv ==
  ASSUME IInv, Undo
  PROVE  IInv' /\ Promised
<1> DEFINE left == {d \in Days : undo[d] # NoPlan}
           d == First(left)
<1>1. /\ stage \in {"late", "redo"} /\ stage' = stage /\ todo = {} /\ left # {} /\ RollBack(d)
      /\ request' = [request EXCEPT ![d] = NoRequest]
      /\ UNCHANGED <<work, result, batch, todo, failures, skeleton, locked, inbox, sent, redo, final, owed>>
  BY DEF Undo, workers, frame, steering
<1>2. d \in Days
  BY <1>1, FirstDay
<1> HIDE DEF d
<1>3. TypeOK
  BY DEF IInv
<1>4. /\ Promised /\ ClaimsBacked' /\ PlansAgree'
      /\ kept' \in [Days -> Q] /\ undo' \in [Days -> Q] /\ won' \in [Days -> Q]
      /\ board' \in Boards /\ restored' \in SUBSET Days
  BY <1>1, <1>2, <1>3, RollBackStep DEF IInv, Early
<1>5. request' \in [Days -> Requests]
  BY <1>1, <1>2, <1>3 DEF TypeOK, Requests
<1>6. TypeOK'
  BY <1>1, <1>3, <1>4, <1>5 DEF TypeOK, Q, Boards
<1>7. Unplanned' /\ ToRetry' /\ FlagsConsumed' /\ Repairing'
  BY <1>1 DEF IInv, Unplanned, ToRetry, FlagsConsumed, Repairing
<1> QED BY <1>4, <1>6, <1>7 DEF IInv

LEMMA EndLateInv ==
  ASSUME IInv, EndLate
  PROVE  IInv' /\ Promised
<1>1. /\ stage = "late" /\ stage' = "negotiate" /\ UNCHANGED plans
      /\ UNCHANGED <<work, result, batch, todo, failures, request, skeleton, locked, inbox, sent, redo, final, owed>>
  BY DEF EndLate, workers, frame, steering
<1>2. Promised /\ ClaimsBacked' /\ PlansAgree'
  BY <1>1, QuietStep DEF IInv, Early
<1>3. TypeOK'
  BY <1>1 DEF IInv, TypeOK, plans
<1>4. Unplanned' /\ ToRetry' /\ FlagsConsumed' /\ Repairing'
  BY <1>1 DEF IInv, Unplanned, ToRetry, FlagsConsumed, Repairing
<1> QED BY <1>2, <1>3, <1>4 DEF IInv

(* The points that are locked for a day are points. *)
LEMMA LockedTyped ==
  ASSUME NEW sk \in Sks
  PROVE  Locked(sk) \in [Days -> SUBSET Pois]
<1> DEFINE top(d) == Range(SubSeq(sk[d].locked, 1, IF Len(sk[d].locked) < MaxCore
                                                   THEN Len(sk[d].locked) ELSE MaxCore))
<1>1. ASSUME NEW d \in Days PROVE top(d) \in SUBSET Pois
  <2> DEFINE s == sk[d].locked
             n == IF Len(s) < MaxCore THEN Len(s) ELSE MaxCore
  <2>1. s \in Seq(Pois) /\ n \in Nat /\ n <= Len(s)
    <3>1. s \in Seq(Pois)
      BY DEF Sks
    <3> QED BY <3>1, NumbersAssumption
  <2> HIDE DEF s, n
  <2>2. SubSeq(s, 1, n) \in Seq(Pois)
    <3>1. \A i \in 1..n : s[i] \in Pois
      BY <2>1
    <3> QED BY <2>1, <3>1
  <2>3. Range(SubSeq(s, 1, n)) \in SUBSET Pois
    BY <2>2 DEF Range
  <2> QED BY <2>3 DEF s, n
<1>2. Locked(sk) = [d \in Days |-> top(d) \ UNION {top(e) : e \in 1..(d - 1)}]
  BY Zenon DEF Locked
<1> HIDE DEF top
<1> QED BY <1>1, <1>2

LEMMA NegotiateInv ==
  ASSUME IInv, Negotiate
  PROVE  IInv' /\ Promised
<1> DEFINE outcome == Amended(request)
<1>1. /\ stage = "negotiate" /\ stage' = "redo" /\ Invalidate(outcome.days)
      /\ skeleton' = outcome.sk /\ locked' = (IF outcome.days = {} THEN locked ELSE Locked(outcome.sk))
      /\ todo' = outcome.days /\ request' = [d \in Days |-> NoRequest]
      /\ UNCHANGED <<work, result, batch, failures, inbox, sent, redo, final, owed>>
  BY DEF Negotiate, workers, steering
<1>2. TypeOK /\ skeleton \in Sks /\ request \in [Days -> Requests]
  BY DEF IInv, TypeOK, Sks
<1>3. outcome \in [sk : Sks, days : SUBSET Days]
  BY <1>2, Amending
<1> HIDE DEF outcome
<1>4. outcome.sk \in Sks /\ outcome.days \in SUBSET Days
  BY <1>3
<1>5. /\ Promised /\ ClaimsBacked' /\ PlansAgree'
      /\ kept' \in [Days -> Q] /\ undo' \in [Days -> Q] /\ won' \in [Days -> Q]
      /\ board' \in Boards /\ restored' \in SUBSET Days
      /\ \A d \in Days : won'[d] = IF d \in outcome.days THEN NoPlan ELSE won[d]
  BY <1>1, <1>2, <1>4, WithdrawStep DEF IInv, Early
<1>6. locked' \in [Days -> SUBSET Pois]
  BY <1>1, <1>2, <1>4, LockedTyped DEF TypeOK
<1>7. request' \in [Days -> Requests]
  BY <1>1 DEF Requests
<1>8. TypeOK'
  BY <1>1, <1>2, <1>4, <1>5, <1>6, <1>7 DEF TypeOK, Q, Boards, Sks
<1>9. Unplanned'
  BY <1>1, <1>4, <1>5 DEF Unplanned
<1>10. ToRetry' /\ FlagsConsumed' /\ Repairing'
  BY <1>1 DEF IInv, ToRetry, FlagsConsumed, Repairing
<1> QED BY <1>5, <1>8, <1>9, <1>10 DEF IInv

-----------------------------------------------------------------------------
(* Validation and repairs *)

LEMMA ValidateInv ==
  ASSUME IInv, Validate
  PROVE  IInv' /\ Promised
<1> DEFINE local == LocalIssues(Delivery) \ CrossIssues(Delivery)
<1>1. /\ stage = "redo" /\ todo = {} /\ \A d \in Days : undo[d] = NoPlan
      /\ final' = Delivery /\ todo' = (IF local # {} THEN local ELSE CrossIssues(Delivery))
      /\ work' = [d \in Days |-> IF d \in local THEN "queued" ELSE "idle"]
      /\ stage' = (IF local # {} THEN "local" ELSE "serial")
      /\ UNCHANGED <<result, batch, failures, kept, won, board, undo, restored, request,
                     skeleton, locked, inbox, sent, redo, owed>>
  BY DEF Validate, frame, steering, plans
<1>2. TypeOK
  BY DEF IInv
<1>3. kept = won /\ Delivery = kept /\ final' = kept
  BY <1>1 DEF IInv, PlansAgree, Delivery
<1>4. /\ local \in SUBSET Days /\ \A d \in local : kept[d] # NoPlan
      /\ CrossIssues(Delivery) \in SUBSET Days /\ \A d \in CrossIssues(Delivery) : kept[d] # NoPlan
  BY <1>3 DEF LocalIssues, CrossIssues
<1> HIDE DEF local
<1>5. TypeOK'
  BY <1>1, <1>2, <1>3, <1>4 DEF TypeOK
<1>6. Promised
  BY <1>1 DEF Promised, Claims!vars
<1>7. ClaimsBacked'
  BY <1>1 DEF IInv, ClaimsBacked
<1>8. PlansAgree' /\ FlagsConsumed' /\ Unplanned' /\ ToRetry'
  BY <1>1 DEF IInv, PlansAgree, FlagsConsumed, Unplanned, ToRetry
<1>9. Repairing'
  <2>1. CASE local # {}
    <3>1. todo' = local /\ stage' = "local"
      BY <1>1, <2>1
    <3>2. ASSUME NEW d \in Days PROVE LocalDay(d)'
      BY <1>1, <1>3, <1>4, <3>1 DEF LocalDay
    <3> QED BY <3>1, <3>2 DEF Repairing
  <2>2. CASE local = {}
    <3>1. todo' = CrossIssues(Delivery) /\ stage' = "serial"
      BY <1>1, <2>2
    <3>2. ASSUME NEW d \in Days PROVE SerialDay(d)'
      BY <1>1, <1>3, <1>4, <2>2, <3>1 DEF SerialDay
    <3> QED BY <3>1, <3>2 DEF Repairing
  <2> QED BY <2>1, <2>2
<1> QED BY <1>5, <1>6, <1>7, <1>8, <1>9 DEF IInv

LEMMA StartRepairInv ==
  ASSUME IInv, NEW d \in Days, StartRepair(d)
  PROVE  IInv' /\ Promised
<1>1. /\ \/ stage = "local" /\ work[d] = "queued"
         \/ stage = "serial" /\ todo # {} /\ d = First(todo) /\ work[d] = "idle"
      /\ stage' = stage /\ work' = [work EXCEPT ![d] = "active"] /\ undo' = [undo EXCEPT ![d] = kept[d]]
      /\ board' = Released(board, {d}) /\ restored' = restored \ {d} /\ owed' = owed \ {d}
      /\ UNCHANGED <<result, batch, todo, failures, kept, won, request, skeleton, locked,
                     inbox, sent, redo, final>>
  BY DEF StartRepair, frame, steering
<1>2. TypeOK /\ stage \in {"local", "serial"}
  BY <1>1 DEF IInv
<1>3. /\ work \in [Days -> {"queued", "active", "finished", "idle"}]
      /\ kept \in [Days -> Q] /\ undo \in [Days -> Q] /\ board \in Boards /\ restored \in SUBSET Days
  BY <1>2 DEF TypeOK, Q, Boards
<1>4. kept[d] = final[d] /\ final[d] # NoPlan /\ undo[d] = NoPlan /\ d \in todo
  <2>1. CASE stage = "local"
    BY <1>1, <2>1 DEF IInv, Repairing, LocalDay
  <2>2. CASE stage = "serial"
    <3>1. d = First(todo) /\ todo # {} /\ todo \in SUBSET Days
      BY <1>1, <1>2, <2>2 DEF TypeOK
    <3>2. d \in todo
      BY <3>1, FirstDay
    <3> QED BY <1>1, <2>2, <3>2 DEF IInv, Repairing, SerialDay
  <2> QED BY <1>2, <2>1, <2>2
<1>5. Held' = [Held EXCEPT ![d] = NoPlan] /\ Held[d] = kept[d]
  BY <1>1, <1>2, <1>3, <1>4 DEF Held
<1>6. Claims!Withdraw({d})
  <2>1. undo' = [e \in Days |-> IF e \in {d} THEN Held[e] ELSE undo[e]]
    BY <1>1, <1>3, <1>5
  <2>2. Held' = [e \in Days |-> IF e \in {d} THEN NoPlan ELSE Held[e]]
    BY <1>5 DEF Held
  <2> QED BY <1>1, <2>1, <2>2 DEF Claims!Withdraw, Held
<1>7. Promised
  BY <1>6 DEF Promised, Claims!Next
<1>8. TypeOK'
  <2>1. board' \in Boards
    BY <1>1, <1>3, DaysAssumption, NumbersAssumption DEF Released, Boards
  <2> QED BY <1>1, <1>2, <1>3, <2>1 DEF TypeOK, Q, Boards
<1>9. ClaimsBacked'
  <2>1. SUFFICES ASSUME NEW e \in Days \ restored', Held'[e] # NoPlan, NEW p \in Held'[e].pois
                 PROVE  board'.owner[p] = e
    BY DEF ClaimsBacked, Held
  <2>2. e # d /\ Held'[e] = Held[e] /\ e \notin restored
    BY <1>1, <1>5, <2>1 DEF Held
  <2>3. board.owner[p] = e
    BY <2>1, <2>2, HeldBacked DEF IInv
  <2>4. p \in Pois
    <3>1. Held[e] \in Plans
      BY <1>3, <2>1, <2>2 DEF Held, Q
    <3> QED BY <2>1, <2>2, <3>1, PlansAssumption
  <2> QED BY <1>1, <2>2, <2>3, <2>4 DEF Released
<1>10. Repairing'
  <2>1. CASE stage = "local"
    <3>1. ASSUME NEW e \in Days PROVE LocalDay(e)'
      <4>1. LocalDay(e)
        BY <2>1 DEF IInv, Repairing
      <4>2. CASE e = d
        BY <1>1, <1>3, <1>4, <4>2 DEF LocalDay
      <4>3. CASE e # d
        BY <1>1, <1>3, <4>1, <4>3 DEF LocalDay
      <4> QED BY <4>2, <4>3
    <3> QED BY <1>1, <2>1, <3>1 DEF Repairing
  <2>2. CASE stage = "serial"
    <3>1. ASSUME NEW e \in Days PROVE SerialDay(e)'
      <4>1. SerialDay(e)
        BY <2>2 DEF IInv, Repairing
      <4>2. CASE e = d
        BY <1>1, <1>3, <1>4, <2>2, <4>2 DEF SerialDay
      <4>3. CASE e # d
        <5>1. work[e] = "idle"
          BY <1>1, <2>2, <4>1, <4>3 DEF SerialDay
        <5> QED BY <1>1, <1>3, <4>1, <4>3, <5>1 DEF SerialDay
      <4> QED BY <4>2, <4>3
    <3> QED BY <1>1, <2>2, <3>1 DEF Repairing
  <2> QED BY <1>2, <2>1, <2>2
<1>11. PlansAgree' /\ FlagsConsumed' /\ Unplanned' /\ ToRetry'
  BY <1>1, <1>2 DEF IInv, PlansAgree, FlagsConsumed, Unplanned, ToRetry
<1> QED BY <1>7, <1>8, <1>9, <1>10, <1>11 DEF IInv

LEMMA EndRepairInv ==
  ASSUME IInv, NEW d \in Days, NEW o \in Outcomes, EndRepair(d, o)
  PROVE  IInv' /\ Promised
<1> HIDE DEF Ok
<1>1. /\ stage = "local" /\ stage' = stage /\ work[d] = "active" /\ Settle(d, o)
      /\ work' = [work EXCEPT ![d] = "finished"]
      /\ UNCHANGED <<result, batch, todo, failures, won, request, skeleton, locked,
                     inbox, sent, redo, final, owed>>
  BY DEF EndRepair, frame, steering
<1>2. TypeOK
  BY DEF IInv
<1>3. d \in todo /\ final[d] # NoPlan /\ undo[d] = final[d] /\ kept[d] = final[d]
  BY <1>1 DEF IInv, Repairing, LocalDay
<1>4. Promised /\ ClaimsBacked'
  <2>1. CASE Ok(d, o)
    BY <1>1, <1>2, <2>1, AcceptStep DEF IInv
  <2>2. CASE ~Ok(d, o)
    <3>1. undo' = undo
      BY <1>1, <1>2, <2>2, Settling
    <3>2. Held[d] = NoPlan /\ Held'[d] = NoPlan
      BY <1>1, <1>3, <3>1 DEF Held
    <3> QED BY <1>1, <1>2, <2>2, <3>2, RefuseStep DEF IInv
  <2> QED BY <2>1, <2>2
<1>5. kept' \in [Days -> Q] /\ undo' \in [Days -> Q] /\ board' \in Boards /\ restored' \in SUBSET Days
  BY <1>1, <1>2, Settling
<1>6. TypeOK'
  BY <1>1, <1>2, <1>5 DEF TypeOK, Q, Boards
<1>7. undo'[d] \in {NoPlan, final[d]}
  BY <1>1, <1>2, <1>3, Settling
<1>8. Repairing'
  <2>1. ASSUME NEW e \in Days PROVE LocalDay(e)'
    <3>1. LocalDay(e)
      BY <1>1 DEF IInv, Repairing
    <3>2. CASE e = d
      BY <1>1, <1>2, <1>3, <1>7, <3>2 DEF LocalDay, TypeOK
    <3>3. CASE e # d
      <4>1. kept'[e] = kept[e] /\ undo'[e] = undo[e]
        BY <1>1, <1>2, <3>3, Settling
      <4> QED BY <1>1, <1>2, <3>1, <3>3, <4>1 DEF LocalDay, TypeOK
    <3> QED BY <3>2, <3>3
  <2> QED BY <1>1, <2>1 DEF Repairing
<1>9. PlansAgree' /\ FlagsConsumed' /\ Unplanned' /\ ToRetry'
  BY <1>1 DEF IInv, PlansAgree, FlagsConsumed, Unplanned, ToRetry
<1> QED BY <1>4, <1>6, <1>8, <1>9 DEF IInv

LEMMA ApplyLocalInv ==
  ASSUME IInv, ApplyLocal
  PROVE  IInv' /\ Promised
<1> DEFINE failed == {d \in todo : undo[d] # NoPlan}
<1>1. /\ stage = "local" /\ stage' = "serial" /\ \A d \in todo : work[d] = "finished"
      /\ kept' = [d \in Days |-> IF d \in failed THEN undo[d] ELSE kept[d]]
      /\ final' = [d \in Days |-> IF d \in todo \ failed THEN kept[d] ELSE final[d]]
      /\ board' = Reclaimed(board, failed) /\ undo' = [d \in Days |-> NoPlan]
      /\ restored' = restored \cup failed /\ work' = [d \in Days |-> "idle"]
      /\ todo' = CrossIssues(final') \ todo
      /\ DrainTerminal({})
      /\ UNCHANGED <<result, batch, failures, won, request, skeleton, locked>>
  BY DEF ApplyLocal, frame
<1>2. TypeOK
  BY DEF IInv
<1>3. /\ kept \in [Days -> Q] /\ undo \in [Days -> Q] /\ final \in [Days -> Q] /\ board \in Boards
      /\ restored \in SUBSET Days /\ todo \in SUBSET Days /\ failed \in SUBSET Days
  BY <1>2 DEF TypeOK, Q, Boards
<1>4. \A d \in Days : /\ d \notin failed => undo[d] = NoPlan
                      /\ d \in failed => undo[d] = final[d] /\ undo[d] # NoPlan
                      /\ d \notin todo => final[d] = kept[d]
  BY <1>1 DEF IInv, Repairing, LocalDay
<1> HIDE DEF failed
<1>5. /\ Held' = [d \in Days |-> IF d \in failed THEN undo[d] ELSE Held[d]]
      /\ \A d \in Days \ failed : Held'[d] = Held[d]
  BY <1>1, <1>4 DEF Held
<1>6. Claims!Restore(failed)
  <2>1. undo' = [d \in Days |-> IF d \in failed THEN NoPlan ELSE undo[d]]
    BY <1>1, <1>4
  <2> QED BY <1>1, <1>3, <1>4, <1>5, <2>1 DEF Claims!Restore, Held
<1>7. Promised
  <2>1. Claims!Next
    BY <1>3, <1>6 DEF Claims!Next, Claims!Restore
  <2> QED BY <2>1, Zenon DEF Promised
<1>8. board' \in Boards /\ \A p \in Pois : board.owner[p] # 0 => board'.owner[p] = board.owner[p]
  BY <1>1, <1>3, Reclaiming DEF Q
<1>9. TypeOK'
  <2>1. /\ redo' = redo /\ owed' \in SUBSET Days
        /\ inbox' \subseteq SUBSET (1..(NDays + 1)) /\ sent' \in 0..MaxSteer
    BY <1>1, <1>2, DrainingTerminal
  <2>2. todo' \in SUBSET Days
    BY <1>1 DEF CrossIssues
  <2>3. kept' \in [Days -> Q] /\ undo' \in [Days -> Q] /\ final' \in [Days -> Q]
    BY <1>1, <1>3 DEF Q
  <2> QED BY <1>1, <1>2, <1>3, <1>8, <2>1, <2>2, <2>3 DEF TypeOK, Q, Boards
<1>10. ClaimsBacked'
  <2>1. SUFFICES ASSUME NEW e \in Days \ restored', Held'[e] # NoPlan, NEW p \in Held'[e].pois
                 PROVE  board'.owner[p] = e
    BY DEF ClaimsBacked, Held
  <2>2. e \notin failed /\ Held'[e] = Held[e] /\ e \notin restored
    BY <1>1, <1>5, <2>1
  <2>3. board.owner[p] = e
    BY <2>1, <2>2, HeldBacked DEF IInv
  <2>4. p \in Pois
    <3>1. Held[e] \in Plans
      BY <1>3, <2>1, <2>2 DEF Held, Q
    <3> QED BY <2>1, <2>2, <3>1, PlansAssumption
  <2> QED BY <1>8, <2>3, <2>4, DaysAssumption DEF Days
<1>11. Repairing'
  <2>1. ASSUME NEW d \in Days PROVE SerialDay(d)'
    <3>1. work'[d] = "idle" /\ undo'[d] = NoPlan
      BY <1>1
    <3>2. final'[d] = kept'[d]
      BY <1>1, <1>4
    <3>3. d \in todo' => final'[d] # NoPlan
      BY <1>1 DEF CrossIssues
    <3> QED BY <3>1, <3>2, <3>3 DEF SerialDay
  <2> QED BY <1>1, <2>1 DEF Repairing
<1>12. PlansAgree' /\ FlagsConsumed' /\ Unplanned' /\ ToRetry'
  BY <1>1 DEF IInv, DrainTerminal, PlansAgree, FlagsConsumed, Unplanned, ToRetry
<1> QED BY <1>7, <1>9, <1>10, <1>11, <1>12 DEF IInv

(* A serial repair: the day's claims were given up when its worker started. *)
LEMMA SerialRepairInv ==
  ASSUME IInv, NEW o \in Outcomes, SerialRepair(o)
  PROVE  IInv' /\ Promised
<1> DEFINE d == First(todo)
<1> HIDE DEF Ok
<1>1. /\ stage = "serial" /\ stage' = stage /\ todo # {} /\ work[d] = "active"
      /\ kept' = IF Ok(d, o) THEN [kept EXCEPT ![d] = o.plan] ELSE [kept EXCEPT ![d] = undo[d]]
      /\ final' = IF Ok(d, o) THEN [final EXCEPT ![d] = o.plan] ELSE final
      /\ board' = IF Ok(d, o) THEN Claimed(board, d, o.plan) ELSE Reclaimed(board, {d})
      /\ undo' = [undo EXCEPT ![d] = NoPlan]
      /\ restored' = IF Ok(d, o) THEN restored ELSE restored \cup {d}
      /\ work' = [work EXCEPT ![d] = "idle"] /\ todo' = todo \ {d}
      /\ DrainTerminal({})
      /\ UNCHANGED <<result, batch, failures, won, request, skeleton, locked>>
  BY DEF SerialRepair, frame
<1>2. TypeOK
  BY DEF IInv
<1>3. /\ kept \in [Days -> Q] /\ undo \in [Days -> Q] /\ final \in [Days -> Q] /\ board \in Boards
      /\ restored \in SUBSET Days /\ todo \in SUBSET Days
      /\ work \in [Days -> {"queued", "active", "finished", "idle"}]
  BY <1>2 DEF TypeOK, Q, Boards
<1>4. d \in todo /\ d \in Days
  BY <1>1, <1>3, FirstDay
<1>5. undo[d] = final[d] /\ kept[d] = final[d] /\ final[d] # NoPlan /\ d \notin restored
  BY <1>1, <1>4 DEF IInv, Repairing, SerialDay
<1>6. \A e \in Days \ {d} : /\ work[e] = "idle" /\ undo[e] = NoPlan /\ final[e] = kept[e]
                            /\ e \in todo => final[e] # NoPlan
  BY <1>1, <1>4 DEF IInv, Repairing, SerialDay
<1>7. /\ Promised /\ ClaimsBacked' /\ kept' \in [Days -> Q] /\ final' \in [Days -> Q] /\ board' \in Boards
      /\ final'[d] = kept'[d] /\ \A e \in Days \ {d} : final'[e] = final[e] /\ kept'[e] = kept[e]
  <2>1. CASE Ok(d, o)
    <3>1. Settle(d, o)
      BY <1>1, <1>3, <1>5, <2>1 DEF Settle
    <3>2. Promised /\ ClaimsBacked'
      BY <1>1, <1>2, <1>4, <2>1, <3>1, AcceptStep DEF IInv
    <3>3. o.plan \in Plans /\ kept' \in [Days -> Q] /\ board' \in Boards
      BY <1>2, <1>4, <2>1, <3>1, Settling
    <3> QED BY <1>1, <1>3, <1>4, <2>1, <3>2, <3>3 DEF Q
  <2>2. CASE ~Ok(d, o)
    <3>1. kept' = kept /\ final' = final /\ restored' = restored \cup {d}
          /\ board' = Reclaimed(board, {d})
      BY <1>1, <1>3, <1>5, <2>2
    <3>2. /\ Held' = [e \in Days |-> IF e \in {d} THEN undo[e] ELSE Held[e]]
          /\ \A e \in Days \ {d} : Held'[e] = Held[e]
      BY <1>1, <1>3, <1>4, <1>5, <1>6, <3>1 DEF Held
    <3>3. Claims!Restore({d})
      <4>1. undo' = [e \in Days |-> IF e \in {d} THEN NoPlan ELSE undo[e]]
        BY <1>1, <1>3
      <4> QED BY <1>1, <1>5, <3>1, <3>2, <4>1 DEF Claims!Restore, Held
    <3>4. Promised
      <4>1. {d} \in SUBSET Days
        BY <1>4
      <4>2. Claims!Next
        BY <3>3, <4>1 DEF Claims!Next, Claims!Restore
      <4> QED BY <4>2, Zenon DEF Promised
    <3>5. board' \in Boards /\ \A p \in Pois : board.owner[p] # 0 => board'.owner[p] = board.owner[p]
      BY <1>3, <3>1, Reclaiming DEF Q
    <3>6. ClaimsBacked'
      <4>1. SUFFICES ASSUME NEW e \in Days \ restored', Held'[e] # NoPlan, NEW p \in Held'[e].pois
                     PROVE  board'.owner[p] = e
        BY DEF ClaimsBacked, Held
      <4>2. e # d /\ Held'[e] = Held[e] /\ e \notin restored
        BY <3>1, <3>2, <4>1
      <4>3. board.owner[p] = e
        BY <4>1, <4>2, HeldBacked DEF IInv
      <4>4. p \in Pois
        <5>1. Held[e] \in Plans
          BY <1>3, <4>1, <4>2 DEF Held, Q
        <5> QED BY <4>1, <4>2, <5>1, PlansAssumption
      <4> QED BY <3>5, <4>3, <4>4, DaysAssumption DEF Days
    <3> QED BY <1>3, <1>5, <3>1, <3>4, <3>5, <3>6
  <2> QED BY <2>1, <2>2
<1> HIDE DEF d
<1>8. TypeOK'
  <2>1. /\ redo' = redo /\ owed' \in SUBSET Days
        /\ inbox' \subseteq SUBSET (1..(NDays + 1)) /\ sent' \in 0..MaxSteer
    BY <1>1, <1>2, DrainingTerminal
  <2>2. undo' \in [Days -> Q] /\ restored' \in SUBSET Days /\ todo' \in SUBSET Days
        /\ work' \in [Days -> {"queued", "active", "finished", "idle"}]
    BY <1>1, <1>3, <1>4 DEF Q
  <2>3. /\ result' \in [Days -> Outcomes] /\ batch' \subseteq Days /\ failures' \in Seq(Days)
        /\ won' \in [Days -> Q] /\ request' \in [Days -> Requests]
        /\ skeleton' \in [Days -> [locked : Seq(Pois), cand : Seq(Pois)]]
        /\ locked' \in [Days -> SUBSET Pois] /\ redo \subseteq Days
    BY <1>1, <1>2 DEF TypeOK, Q
  <2>4. stage' \in {"collect", "retry", "late", "negotiate", "redo", "local", "serial", "done"}
    BY <1>1
  <2> HIDE DEF d
  <2> QED BY <1>7, <2>1, <2>2, <2>3, <2>4 DEF TypeOK, Q, Boards
<1>9. Repairing'
  <2>1. ASSUME NEW e \in Days PROVE SerialDay(e)'
    <3>1. CASE e = d
      BY <1>1, <1>3, <1>4, <1>7, <3>1 DEF SerialDay
    <3>2. CASE e # d
      BY <1>1, <1>3, <1>4, <1>6, <1>7, <3>2 DEF SerialDay
    <3> QED BY <3>1, <3>2
  <2> QED BY <1>1, <2>1 DEF Repairing
<1>10. PlansAgree' /\ FlagsConsumed' /\ Unplanned' /\ ToRetry'
  BY <1>1 DEF IInv, DrainTerminal, PlansAgree, FlagsConsumed, Unplanned, ToRetry
<1> QED BY <1>7, <1>8, <1>9, <1>10 DEF IInv

LEMMA FinishInv ==
  ASSUME IInv, Finish
  PROVE  IInv' /\ Promised
<1>1. /\ stage = "serial" /\ stage' = "done" /\ todo = {}
      /\ UNCHANGED <<work, result, batch, todo, failures, kept, won, board, undo, restored, request,
                     skeleton, locked, inbox, sent, redo, final, owed>>
  BY DEF Finish, workers, plans, frame, steering
<1>2. TypeOK /\ \A d \in Days : undo[d] = NoPlan /\ final[d] = kept[d]
  BY <1>1 DEF IInv, Repairing, SerialDay
<1>3. final = kept
  <2>1. kept \in [Days -> Q] /\ final \in [Days -> Q]
    BY <1>2 DEF TypeOK, Q
  <2> QED BY <1>2, <2>1
<1>4. Held' = Held
  BY <1>1, <1>2 DEF Held
<1>5. Claims!End
  BY <1>1, <1>2, <1>4 DEF Claims!End, Held
<1>6. Promised
  BY <1>5 DEF Promised, Claims!Next
<1>7. TypeOK'
  BY <1>1, <1>2 DEF TypeOK
<1>8. ClaimsBacked'
  BY <1>1, <1>2 DEF IInv, ClaimsBacked
<1>9. PlansAgree' /\ FlagsConsumed' /\ Unplanned' /\ ToRetry' /\ Repairing'
  BY <1>1, <1>2, <1>3 DEF IInv, PlansAgree, FlagsConsumed, Unplanned, ToRetry, Repairing
<1> QED BY <1>6, <1>7, <1>8, <1>9 DEF IInv

(* A message only reaches the queue; and a step that changes nothing. *)
LEMMA SteerInv ==
  ASSUME IInv, NEW names \in {{}} \cup {{d} : d \in 1..(NDays + 1)}, Steer(names)
  PROVE  IInv' /\ Promised
<1>1. /\ sent < MaxSteer /\ sent' = sent + 1 /\ inbox' = inbox \cup {names}
      /\ UNCHANGED <<stage, work, result, batch, todo, failures, kept, won, board, undo, restored,
                     request, skeleton, locked, redo, final, owed>>
  BY DEF Steer, workers, plans, frame
<1>2. TypeOK
  BY DEF IInv
<1>3. TypeOK'
  <2>1. names \in SUBSET (1..(NDays + 1))
    OBVIOUS
  <2>2. inbox' \subseteq SUBSET (1..(NDays + 1)) /\ sent' \in 0..MaxSteer
    BY <1>1, <1>2, <2>1, NumbersAssumption DEF TypeOK
  <2> QED BY <1>1, <1>2, <2>2 DEF TypeOK
<1>4. Promised
  BY <1>1 DEF Promised, Claims!vars
<1>5. /\ PlansAgree' /\ ClaimsBacked' /\ FlagsConsumed'
      /\ Unplanned' /\ ToRetry' /\ Repairing'
  BY <1>1 DEF IInv, PlansAgree, ClaimsBacked, FlagsConsumed, Unplanned, ToRetry,
              Repairing, LocalDay, SerialDay
<1> QED BY <1>3, <1>4, <1>5 DEF IInv

LEMMA StutterInv ==
  ASSUME IInv, UNCHANGED vars
  PROVE  IInv' /\ Promised
<1>1. UNCHANGED <<stage, work, result, batch, todo, failures, kept, won, board, undo, restored,
                  request, skeleton, locked, inbox, sent, redo, final, owed>>
  BY DEF vars, workers, plans, frame, steering
<1>2. Promised
  BY <1>1 DEF Promised, Claims!vars
<1>3. /\ TypeOK' /\ PlansAgree' /\ ClaimsBacked' /\ FlagsConsumed'
      /\ Unplanned' /\ ToRetry' /\ Repairing'
  BY <1>1 DEF IInv, TypeOK, PlansAgree, ClaimsBacked, FlagsConsumed, Unplanned, ToRetry,
              Repairing, LocalDay, SerialDay
<1> QED BY <1>2, <1>3 DEF IInv

-----------------------------------------------------------------------------
(* The theorems *)

LEMMA InitInv ==
  ASSUME Init
  PROVE  IInv /\ Claims!Init
<1>1. skeleton \in Sks
  BY SkeletonsAssumption DEF Init, Sks
<1>2. locked \in [Days -> SUBSET Pois]
  BY <1>1, LockedTyped DEF Init
<1>3. board \in Boards
  <2>1. \A p \in Pois : (IF \E d \in Days : p \in locked[d]
                         THEN CHOOSE d \in Days : p \in locked[d] ELSE 0) \in 0..NDays
    BY DaysAssumption DEF Days
  <2>2. board = Seeded(locked)
    BY DEF Init
  <2> QED BY <2>1, <2>2, NumbersAssumption DEF Seeded, Boards
<1>4. NoRequest \in Requests /\ Lost \in Outcomes
  BY DEF Requests, Outcomes, Lost
<1>5. TypeOK
  <2>1. {kept, won, undo, final} \subseteq [Days -> Plans \cup {NoPlan}]
    BY DEF Init
  <2>2. /\ stage = "collect" /\ work \in [Days -> {"queued", "active", "finished", "idle"}]
        /\ result \in [Days -> Outcomes] /\ request \in [Days -> Requests]
    BY <1>4 DEF Init
  <2>3. /\ batch = {} /\ todo = {} /\ failures = <<>> /\ inbox = {} /\ sent = 0
        /\ redo = {} /\ restored = {} /\ owed = {} /\ MaxSteer \in Nat
    BY NumbersAssumption DEF Init
  <2> QED BY <1>1, <1>2, <1>3, <2>1, <2>2, <2>3 DEF TypeOK, Boards, Sks
<1>6. /\ PlansAgree /\ ClaimsBacked /\ FlagsConsumed
      /\ Unplanned /\ ToRetry /\ Repairing
  BY DEF Init, PlansAgree, ClaimsBacked, FlagsConsumed, Unplanned, ToRetry, Repairing
<1>7. Claims!Init
  BY DEF Init, Claims!Init
<1> QED BY <1>5, <1>6, <1>7 DEF IInv

(* Every step of the run keeps the invariant, and is a step of the promise or
   changes nothing in it. *)
LEMMA StepInv ==
  ASSUME IInv, [Next]_vars
  PROVE  IInv' /\ Promised
<1>1. CASE UNCHANGED vars
  BY <1>1, StutterInv
<1>2. CASE \E names \in {{}} \cup {{d} : d \in 1..(NDays + 1)} : Steer(names)
  BY <1>2, SteerInv
<1>3. ASSUME NEW d \in Days, StartWorker(d) \/ Collect(d) \/ StartRepair(d)
      PROVE  IInv' /\ Promised
  BY <1>3, StartWorkerInv, CollectInv, StartRepairInv
<1>4. ASSUME NEW o \in Outcomes, Retry(o) \/ Late(o) \/ Redo(o) \/ SerialRepair(o)
      PROVE  IInv' /\ Promised
  BY <1>4, RetryInv, LateInv, RedoInv, SerialRepairInv
<1>5. ASSUME NEW d \in Days, NEW o \in Outcomes, FinishWorker(d, o) \/ EndRepair(d, o)
      PROVE  IInv' /\ Promised
  BY <1>5, FinishWorkerInv, EndRepairInv
<1>6. CASE \/ TakeBatch \/ EndCollect \/ SkipRetry \/ EndRetry \/ Undo \/ EndLate
           \/ Negotiate \/ Validate \/ ApplyLocal \/ Finish
  BY <1>6, TakeBatchInv, EndCollectInv, SkipRetryInv, EndRetryInv, UndoInv, EndLateInv,
     NegotiateInv, ValidateInv, ApplyLocalInv, FinishInv
<1> QED BY <1>1, <1>2, <1>3, <1>4, <1>5, <1>6, Zenon DEF Next, RunStep

(* The inductive invariant holds in every state of every run. *)
THEOREM Invariance == Spec => []IInv
<1>1. Init => IInv
  BY InitInv
<1>2. IInv /\ [Next]_vars => IInv'
  BY StepInv
<1> QED BY <1>1, <1>2, PTL DEF Spec

(* The files, the successes, the blackboard and the queues of a run keep their
   types for every number of days, workers and messages: no claim names a day
   the trip has not, and no day costs more than the budget (orchestrator.run,
   Phase3Blackboard). *)
THEOREM TypeCorrect == Spec => []TypeOK
<1>1. IInv => TypeOK
  BY DEF IInv
<1> QED BY <1>1, Invariance, PTL

(* The candidate files and the list of successes agree until the delivery is
   read from the files, and the delivery agrees with the files at the end. *)
THEOREM FilesAgree == Spec => []PlansAgree
<1>1. IInv => PlansAgree
  BY DEF IInv
<1> QED BY <1>1, Invariance, PTL

(* Every point of an accepted plan is claimed by its day on the blackboard,
   unless the plan was put back. *)
THEOREM ClaimsHeld == Spec => []ClaimsBacked
<1>1. IInv => ClaimsBacked
  BY DEF IInv
<1> QED BY <1>1, Invariance, PTL

(* No redispatch flag outlives the stage in which flagged days are replanned. *)
THEOREM FlagsCleared == Spec => []FlagsConsumed
<1>1. IInv => FlagsConsumed
  BY DEF IInv
<1> QED BY <1>1, Invariance, PTL

(* The run implements the promise of DayClaims: for any number of days, points,
   workers and steering messages, plans are accepted, withdrawn and put back
   only as that module says, and a run ends only when no plan is withdrawn. *)
THEOREM ClaimsPromise == Spec => ImplementsClaims
<1>1. Init => Claims!Init
  BY InitInv
<1>2. IInv /\ [Next]_vars => [Claims!Next]_(Claims!vars)
  BY StepInv DEF Promised
<1> QED BY <1>1, <1>2, Invariance, PTL DEF Spec, ImplementsClaims, Claims!Spec

(* What the user is handed: no point of interest is planned for two days,
   except in a plan that was put back after its replacement failed. *)
THEOREM DeliveryDisjoint ==
  Spec => [](stage = "done" =>
               \A d, e \in Days \ restored :
                 d # e /\ final[d] # NoPlan /\ final[e] # NoPlan => final[d].pois \cap final[e].pois = {})
<1> DEFINE Apart == \A d, e \in Days \ restored :
                      d # e /\ final[d] # NoPlan /\ final[e] # NoPlan => final[d].pois \cap final[e].pois = {}
<1>1. IInv => (stage = "done" => Apart)
  <2>1. SUFFICES ASSUME IInv, stage = "done", NEW d \in Days \ restored, NEW e \in Days \ restored,
                        d # e, final[d] # NoPlan, final[e] # NoPlan
                 PROVE  final[d].pois \cap final[e].pois = {}
    OBVIOUS
  <2>2. final = kept /\ ClaimsBacked
    BY <2>1 DEF IInv, PlansAgree
  <2>3. /\ \A p \in final[d].pois : board.owner[p] = d
        /\ \A p \in final[e].pois : board.owner[p] = e
    BY <2>1, <2>2 DEF ClaimsBacked
  <2> QED BY <2>1, <2>3
<1> QED BY <1>1, Invariance, PTL
-----------------------------------------------------------------------------
(* The end of a run *)

(* A part of some days is not larger, and smaller if a day is missing. *)
LEMMA Fewer ==
  ASSUME NEW S \in SUBSET Days, NEW T \in SUBSET S
  PROVE  /\ Cardinality(S) \in Nat /\ Cardinality(T) \in Nat
         /\ Cardinality(T) <= Cardinality(S)
         /\ T # S => Cardinality(T) < Cardinality(S)
<1>1. IsFiniteSet(S)
  BY DaysFinite, FS_Subset
<1>2. IsFiniteSet(T) /\ Cardinality(T) <= Cardinality(S) /\ (Cardinality(S) = Cardinality(T) => S = T)
  BY <1>1, FS_Subset
<1>3. Cardinality(S) \in Nat /\ Cardinality(T) \in Nat
  BY <1>1, <1>2, FS_CardinalityType
<1> QED BY <1>2, <1>3

(* What is left is counted in natural numbers. *)
LEMMA WorkCounted == TypeOK => StagesLeft \in Nat /\ WorkLeft \in Nat
<1> SUFFICES ASSUME TypeOK PROVE StagesLeft \in Nat /\ WorkLeft \in Nat
  OBVIOUS
<1>1. \A S \in SUBSET Days : Cardinality(S) \in Nat
  BY Fewer
<1>2. \A states : WorkIn(states) \in Nat
  <2> TAKE states
  <2>1. {d \in Days : work[d] \in states} \in SUBSET Days
    OBVIOUS
  <2> QED BY <1>1, <2>1 DEF WorkIn
<1>3. Cardinality(todo) \in Nat /\ Cardinality({d \in todo : work[d] = "idle"}) \in Nat
  <2>1. todo \in SUBSET Days /\ {d \in todo : work[d] = "idle"} \in SUBSET Days
    BY DEF TypeOK
  <2> QED BY <1>1, <2>1
<1>4. Cardinality({d \in Days : undo[d] # NoPlan}) \in Nat
  BY <1>1
<1>5. Len(failures) \in Nat
  BY DEF TypeOK
<1>6. (IF batch = {} THEN 1 ELSE 0) \in Nat
  OBVIOUS
<1>7. WorkLeft \in Nat
  BY <1>2, <1>3, <1>4, <1>5, <1>6 DEF WorkLeft
<1> QED BY <1>7 DEF StagesLeft

LEMMA WorkCountedNext == TypeOK' => (StagesLeft \in Nat /\ WorkLeft \in Nat)'
BY WorkCounted, PTL

(* A later stage, or less work in the same one, is less. *)
LEMMA Lowering ==
  ASSUME TypeOK', \/ StagesLeft' < StagesLeft
                  \/ StagesLeft' = StagesLeft /\ WorkLeft' < WorkLeft
  PROVE  Below(Left', Left)
<1>1. StagesLeft' \in Nat /\ WorkLeft' \in Nat
  BY WorkCountedNext
<1> QED BY <1>1 DEF Left, Below

(* A worker that goes from one state to another leaves and joins the groups of
   days these states belong to. *)
LEMMA Moving ==
  ASSUME TypeOK, NEW d \in Days, NEW to \in {"queued", "active", "finished", "idle"},
         work' = [work EXCEPT ![d] = to], NEW states
  PROVE  /\ WorkIn(states) \in Nat /\ WorkIn(states)' \in Nat
         /\ (work[d] \in states <=> to \in states) => WorkIn(states)' = WorkIn(states)
         /\ work[d] \in states /\ to \notin states => WorkIn(states)' < WorkIn(states)
<1> DEFINE S == {e \in Days : work[e] \in states}
           T == {e \in Days : work'[e] \in states}
<1>1. WorkIn(states) = Cardinality(S) /\ WorkIn(states)' = Cardinality(T)
  BY DEF WorkIn
<1>2. S \in SUBSET Days /\ T \in SUBSET Days
  OBVIOUS
<1>3. \A e \in Days : work'[e] = IF e = d THEN to ELSE work[e]
  BY DEF TypeOK
<1>4. Cardinality(S) \in Nat /\ Cardinality(T) \in Nat
  BY <1>2, Fewer
<1>5. CASE work[d] \in states <=> to \in states
  <2>1. S = T
    BY <1>3, <1>5
  <2> QED BY <1>1, <1>4, <1>5, <2>1
<1>6. CASE work[d] \in states /\ to \notin states
  <2>1. T \in SUBSET S /\ T # S
    BY <1>3, <1>6
  <2>2. Cardinality(T) < Cardinality(S)
    BY <1>2, <2>1, Fewer
  <2> QED BY <1>1, <1>4, <1>6, <2>2
<1>7. CASE work[d] \notin states /\ to \in states
  BY <1>1, <1>4, <1>7
<1> QED BY <1>5, <1>6, <1>7

(* The work of a parallel stage, from the days not started, those not ended and
   those not collected, and from the batch that is still to be taken. *)
Weight(a, b, c, f) == a + b + 2 * c + f

LEMMA Weighing ==
  ASSUME NEW a \in Nat, NEW b \in Nat, NEW c \in Nat, NEW f \in Nat,
         NEW x \in Nat, NEW y \in Nat, NEW z \in Nat, NEW g \in Nat,
         x <= a, y <= b, z <= c,
         (z < c /\ g <= f + 1) \/ (g <= f /\ (x < a \/ y < b \/ g < f))
  PROVE  Weight(x, y, z, g) < Weight(a, b, c, f)
BY DEF Weight

(* The parallel stages: a worker starts, ends or is collected, or its result is
   taken into a batch. *)
LEMMA WorkersFall ==
  ASSUME TypeOK, TypeOK', stage \in {"collect", "local"}, stage' = stage, NEW d \in Days,
         \/ work[d] = "queued" /\ work' = [work EXCEPT ![d] = "active"] /\ batch' = batch
         \/ work[d] = "active" /\ work' = [work EXCEPT ![d] = "finished"] /\ batch' = batch
         \/ work[d] = "finished" /\ work' = [work EXCEPT ![d] = "idle"] /\ batch # {}
         \/ work' = work /\ batch = {} /\ batch' # {}
  PROVE  Below(Left', Left)
<1> DEFINE A == WorkIn({"queued"})
           B == WorkIn({"queued", "active"})
           C == WorkIn({"queued", "active", "finished"})
           F == IF batch = {} THEN 1 ELSE 0
<1>1. WorkLeft = Weight(A, B, C, F) /\ WorkLeft' = Weight(A', B', C', F')
  BY DEF WorkLeft, Weight
<1>2. A \in Nat /\ B \in Nat /\ C \in Nat /\ F \in Nat /\ F' \in Nat
  <2>1. \A states : WorkIn(states) \in Nat
    <3> TAKE states
    <3>1. {e \in Days : work[e] \in states} \in SUBSET Days
      OBVIOUS
    <3> QED BY <3>1, Fewer DEF WorkIn
  <2> QED BY <2>1
<1>3. /\ A' \in Nat /\ B' \in Nat /\ C' \in Nat
      /\ A' <= A /\ B' <= B /\ C' <= C
      /\ (C' < C /\ F' <= F + 1) \/ (F' <= F /\ (A' < A \/ B' < B \/ F' < F))
  <2>1. CASE work[d] = "queued" /\ work' = [work EXCEPT ![d] = "active"] /\ batch' = batch
    <3>1. A' \in Nat /\ A' < A /\ B' = B /\ C' = C
      BY <2>1, Moving
    <3>2. F' = F
      BY <2>1
    <3> QED BY <1>2, <3>1, <3>2
  <2>2. CASE work[d] = "active" /\ work' = [work EXCEPT ![d] = "finished"] /\ batch' = batch
    <3>1. B' \in Nat /\ A' = A /\ B' < B /\ C' = C
      BY <2>2, Moving
    <3>2. F' = F
      BY <2>2
    <3> QED BY <1>2, <3>1, <3>2
  <2>3. CASE work[d] = "finished" /\ work' = [work EXCEPT ![d] = "idle"] /\ batch # {}
    <3>1. C' \in Nat /\ A' = A /\ B' = B /\ C' < C
      BY <2>3, Moving
    <3>2. F' <= F + 1
      BY <2>3
    <3> QED BY <1>2, <3>1, <3>2
  <2>4. CASE work' = work /\ batch = {} /\ batch' # {}
    <3>1. A' = A /\ B' = B /\ C' = C
      BY <2>4 DEF WorkIn
    <3>2. F' < F
      BY <2>4
    <3> QED BY <1>2, <3>1, <3>2
  <2> QED BY <2>1, <2>2, <2>3, <2>4
<1>4. StagesLeft' = StagesLeft
  BY DEF StagesLeft
<1>5. WorkLeft' < WorkLeft
  <2> HIDE DEF A, B, C, F
  <2> QED BY <1>1, <1>2, <1>3, Weighing
<1> QED BY <1>4, <1>5, Lowering

(* The serial stages before validation: a day is planned again, or put back. *)
LEMMA RerunsFall ==
  ASSUME TypeOK, TypeOK', stage \in {"late", "redo"}, stage' = stage, NEW d \in Days,
         \A e \in Days : undo'[e] # NoPlan => undo[e] # NoPlan,
         \/ d \in todo /\ todo' = todo \ {d}
         \/ todo' = todo /\ undo[d] # NoPlan /\ undo'[d] = NoPlan
  PROVE  Below(Left', Left)
<1> DEFINE U == {e \in Days : undo[e] # NoPlan}
           V == {e \in Days : undo'[e] # NoPlan}
<1>1. U \in SUBSET Days /\ V \in SUBSET U /\ todo \in SUBSET Days /\ todo' \in SUBSET todo
  BY DEF TypeOK
<1>2. /\ Cardinality(U) \in Nat /\ Cardinality(V) \in Nat /\ Cardinality(V) <= Cardinality(U)
      /\ Cardinality(todo) \in Nat /\ Cardinality(todo') \in Nat
      /\ Cardinality(todo') <= Cardinality(todo)
  BY <1>1, Fewer
<1>3. Cardinality(V) < Cardinality(U) \/ Cardinality(todo') < Cardinality(todo)
  <2>1. CASE d \in todo /\ todo' = todo \ {d}
    <3>1. todo' # todo
      BY <2>1
    <3> QED BY <1>1, <3>1, Fewer
  <2>2. CASE todo' = todo /\ undo[d] # NoPlan /\ undo'[d] = NoPlan
    <3>1. V # U
      BY <2>2
    <3> QED BY <1>1, <3>1, Fewer
  <2> QED BY <2>1, <2>2
<1>4. WorkLeft = Cardinality(todo) + Cardinality(U) /\ WorkLeft' = Cardinality(todo') + Cardinality(V)
  BY DEF WorkLeft
<1>5. StagesLeft' = StagesLeft
  BY DEF StagesLeft
<1> HIDE DEF U, V
<1>6. WorkLeft' < WorkLeft
  BY <1>2, <1>3, <1>4
<1> QED BY <1>5, <1>6, Lowering

(* The second round of repairs: a day's worker starts, or its result is applied. *)
LEMMA RepairsFall ==
  ASSUME TypeOK, TypeOK', stage = "serial", stage' = stage, NEW d \in todo,
         \/ todo' = todo /\ work[d] = "idle" /\ work' = [work EXCEPT ![d] = "active"]
         \/ todo' = todo \ {d} /\ work' = [work EXCEPT ![d] = "idle"]
  PROVE  Below(Left', Left)
<1> DEFINE I == {e \in todo : work[e] = "idle"}
           J == {e \in todo' : work'[e] = "idle"}
<1>1. todo \in SUBSET Days /\ todo' \in SUBSET todo /\ d \in Days
  BY DEF TypeOK
<1>2. \A e \in Days \ {d} : work'[e] = work[e]
  BY <1>1 DEF TypeOK
<1>3. J \in SUBSET I /\ I \in SUBSET Days
  <2>1. CASE todo' = todo /\ work[d] = "idle" /\ work' = [work EXCEPT ![d] = "active"]
    <3>1. work'[d] = "active"
      BY <1>1, <2>1 DEF TypeOK
    <3> QED BY <1>1, <1>2, <2>1, <3>1
  <2>2. CASE todo' = todo \ {d}
    BY <1>1, <1>2, <2>2
  <2> QED BY <2>1, <2>2
<1>4. /\ Cardinality(I) \in Nat /\ Cardinality(J) \in Nat /\ Cardinality(J) <= Cardinality(I)
      /\ Cardinality(todo) \in Nat /\ Cardinality(todo') \in Nat
      /\ Cardinality(todo') <= Cardinality(todo)
  BY <1>1, <1>3, Fewer
<1>5. Cardinality(J) < Cardinality(I) \/ Cardinality(todo') < Cardinality(todo)
  <2>1. CASE todo' = todo /\ work[d] = "idle" /\ work' = [work EXCEPT ![d] = "active"]
    <3>1. work'[d] = "active"
      BY <1>1, <2>1 DEF TypeOK
    <3>2. J # I
      BY <2>1, <3>1
    <3> QED BY <1>3, <3>2, Fewer
  <2>2. CASE todo' = todo \ {d}
    <3>1. todo' # todo
      BY <2>2
    <3> QED BY <1>1, <3>1, Fewer
  <2> QED BY <2>1, <2>2
<1>6. WorkLeft = Cardinality(todo) + Cardinality(I) /\ WorkLeft' = Cardinality(todo') + Cardinality(J)
  BY DEF WorkLeft
<1>7. StagesLeft' = StagesLeft
  BY DEF StagesLeft
<1> HIDE DEF I, J
<1>8. WorkLeft' < WorkLeft
  BY <1>4, <1>5, <1>6
<1> QED BY <1>7, <1>8, Lowering

(* A step of the run in the parallel stage and in the retries. *)
LEMMA FirstStagesFall ==
  ASSUME TypeOK, TypeOK', Unplanned, NEW d \in Days, NEW o \in Outcomes,
         \/ StartWorker(d) \/ FinishWorker(d, o) \/ TakeBatch \/ Collect(d) \/ EndCollect
         \/ Retry(o) \/ SkipRetry \/ EndRetry
  PROVE  Below(Left', Left)
<1>1. CASE StartWorker(d)
  BY <1>1, WorkersFall DEF StartWorker
<1>2. CASE FinishWorker(d, o)
  BY <1>2, WorkersFall DEF FinishWorker
<1>3. CASE TakeBatch
  BY <1>3, WorkersFall DEF TakeBatch
<1>4. CASE Collect(d)
  <2>1. work[d] = "finished"
    BY <1>4 DEF Collect, Unplanned
  <2>2. stage = "collect" /\ stage' = stage /\ batch # {} /\ work' = [work EXCEPT ![d] = "idle"]
    BY <1>4 DEF Collect
  <2> QED BY <2>1, <2>2, WorkersFall
<1>5. CASE EndCollect \/ EndRetry
  <2>1. \/ stage = "collect" /\ stage' = "retry"
        \/ stage = "retry" /\ stage' = "late"
    BY <1>5 DEF EndCollect, EndRetry
  <2> QED BY <2>1, Lowering DEF StagesLeft
<1>6. CASE Retry(o) \/ SkipRetry
  <2>1. stage = "retry" /\ stage' = stage /\ failures # <<>> /\ failures' = Tail(failures)
    BY <1>6 DEF Retry, SkipRetry
  <2>2. failures \in Seq(Days)
    BY DEF TypeOK
  <2>3. Len(failures') < Len(failures)
    BY <2>1, <2>2
  <2> QED BY <2>1, <2>3, Lowering DEF StagesLeft, WorkLeft
<1> QED BY <1>1, <1>2, <1>3, <1>4, <1>5, <1>6

(* A step of the redispatches, of the renegotiation and of the repairs. *)
LEMMA LastStagesFall ==
  ASSUME TypeOK, TypeOK', NEW d \in Days, NEW o \in Outcomes,
         \/ Late(o) \/ Undo \/ EndLate \/ Negotiate \/ Redo(o) \/ Validate
         \/ StartRepair(d) \/ EndRepair(d, o) \/ ApplyLocal \/ SerialRepair(o) \/ Finish
  PROVE  Below(Left', Left)
<1> HIDE DEF Ok
<1>1. CASE Late(o) \/ Redo(o)
  <2> DEFINE e == First(todo)
  <2>1. stage \in {"late", "redo"} /\ stage' = stage /\ todo # {} /\ todo' = todo \ {e} /\ Settle(e, o)
    BY <1>1 DEF Late, Redo, Gain
  <2>2. e \in todo /\ e \in Days
    BY <2>1, FirstDay DEF TypeOK
  <2>3. \A c \in Days : undo'[c] # NoPlan => undo[c] # NoPlan
    BY <2>1, <2>2 DEF Settle, TypeOK
  <2> HIDE DEF e
  <2> QED BY <2>1, <2>2, <2>3, RerunsFall
<1>2. CASE Undo
  <2> DEFINE left == {c \in Days : undo[c] # NoPlan}
             e == First(left)
  <2>1. /\ stage \in {"late", "redo"} /\ stage' = stage /\ todo' = todo /\ left # {}
        /\ undo' = [undo EXCEPT ![e] = NoPlan]
    BY <1>2 DEF Undo, RollBack
  <2>2. e \in left /\ e \in Days
    BY <2>1, FirstDay
  <2>3. undo[e] # NoPlan
    BY <2>2
  <2> HIDE DEF e
  <2>4. undo'[e] = NoPlan /\ \A c \in Days : undo'[c] # NoPlan => undo[c] # NoPlan
    BY <2>1, <2>2 DEF TypeOK
  <2> QED BY <2>1, <2>2, <2>3, <2>4, RerunsFall
<1>3. CASE EndLate \/ Negotiate \/ Validate \/ ApplyLocal \/ Finish
  <2>1. \/ stage = "late" /\ stage' = "negotiate"
        \/ stage = "negotiate" /\ stage' = "redo"
        \/ stage = "redo" /\ stage' \in {"local", "serial"}
        \/ stage = "local" /\ stage' = "serial"
        \/ stage = "serial" /\ stage' = "done"
    BY <1>3 DEF EndLate, Negotiate, Validate, ApplyLocal, Finish
  <2> QED BY <2>1, Lowering DEF StagesLeft
<1>4. CASE StartRepair(d)
  <2>1. stage' = stage /\ batch' = batch /\ todo' = todo /\ work' = [work EXCEPT ![d] = "active"]
    BY <1>4 DEF StartRepair
  <2>2. CASE stage = "local" /\ work[d] = "queued"
    BY <2>1, <2>2, WorkersFall
  <2>3. CASE stage = "serial" /\ todo # {} /\ d = First(todo) /\ work[d] = "idle"
    <3>1. d \in todo
      BY <2>3, FirstDay DEF TypeOK
    <3> QED BY <2>1, <2>3, <3>1, RepairsFall
  <2> QED BY <1>4, <2>2, <2>3 DEF StartRepair
<1>5. CASE EndRepair(d, o)
  BY <1>5, WorkersFall DEF EndRepair
<1>6. CASE SerialRepair(o)
  <2> DEFINE e == First(todo)
  <2>1. stage = "serial" /\ stage' = stage /\ todo # {} /\ todo' = todo \ {e} /\ work' = [work EXCEPT ![e] = "idle"]
    BY <1>6 DEF SerialRepair
  <2>2. e \in todo
    BY <2>1, FirstDay DEF TypeOK
  <2> HIDE DEF e
  <2> QED BY <2>1, <2>2, RepairsFall
<1> QED BY <1>1, <1>2, <1>3, <1>4, <1>5, <1>6

(* A run of the orchestrator comes to its end for any number of days, whatever
   workers answer and however many messages arrive: each of its own steps lowers
   what is left, and a message leaves it as it is (orchestrator.run, the retry
   and redispatch loops and the two rounds of repairs). *)
THEOREM RunsAdvance == Spec => RunAdvances
<1>1. IInv /\ [Next]_vars => [Below(Left', Left) \/ (sent' = sent + 1 /\ Left' = Left)]_vars
  <2> SUFFICES ASSUME IInv, Next
               PROVE  Below(Left', Left) \/ (sent' = sent + 1 /\ Left' = Left)
    OBVIOUS
  <2>1. TypeOK /\ Unplanned
    BY DEF IInv
  <2>2. TypeOK'
    BY StepInv DEF IInv
  <2>3. CASE \E names \in {{}} \cup {{d} : d \in 1..(NDays + 1)} : Steer(names)
    BY <2>3 DEF Steer, Left, StagesLeft, WorkLeft, WorkIn, workers, plans
  <2>4. CASE RunStep
    <3>1. Lost \in Outcomes /\ 1 \in Days
      BY DaysAssumption DEF Lost, Outcomes, Requests, Days
    <3>2. ASSUME NEW d \in Days, NEW o \in Outcomes, FinishWorker(d, o) \/ EndRepair(d, o)
          PROVE  Below(Left', Left)
      BY <2>1, <2>2, <3>2, FirstStagesFall, LastStagesFall
    <3>3. ASSUME NEW d \in Days, StartWorker(d) \/ Collect(d) \/ StartRepair(d)
          PROVE  Below(Left', Left)
      BY <2>1, <2>2, <3>1, <3>3, FirstStagesFall, LastStagesFall
    <3>4. ASSUME NEW o \in Outcomes, Retry(o) \/ Late(o) \/ Redo(o) \/ SerialRepair(o)
          PROVE  Below(Left', Left)
      BY <2>1, <2>2, <3>1, <3>4, FirstStagesFall, LastStagesFall
    <3>5. CASE \/ TakeBatch \/ EndCollect \/ SkipRetry \/ EndRetry \/ Undo \/ EndLate
               \/ Negotiate \/ Validate \/ ApplyLocal \/ Finish
      BY <2>1, <2>2, <3>1, <3>5, FirstStagesFall, LastStagesFall
    <3> QED BY <2>4, <3>2, <3>3, <3>4, <3>5, Zenon DEF RunStep
  <2> QED BY <2>3, <2>4 DEF Next
<1> QED BY <1>1, Invariance, PTL DEF Spec, RunAdvances
=============================================================================
