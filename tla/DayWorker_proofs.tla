-------------------------- MODULE DayWorker_proofs --------------------------
(* For any limits, any lookups and answers of any length: a worker keeps the
   contract the orchestrator assumes of it, its lookup budgets and its number
   of rounds. *)
EXTENDS DayWorker, FoldLemmas

-----------------------------------------------------------------------------
(* Lookups and their sums *)

\* the lookups that share a recovery key
Sharing(k) == {l \in Lookup : RecoveryKey(l) = k}

LEMMA LookupsFinite == IsFiniteSet(Lookup)
<1> DEFINE T == {"web_search", "get_poi_info", "calculate_route"}
           f == [x \in T \X Keys |-> [tool |-> x[1], key |-> x[2]]]
<1>1. IsFiniteSet(T \X Keys)
  <2>1. IsFiniteSet(T)
    <3>1. IsFiniteSet({"web_search"})
      BY FS_Singleton
    <3>2. IsFiniteSet({"web_search"} \cup {"get_poi_info"})
      BY <3>1, FS_AddElement
    <3>3. IsFiniteSet(({"web_search"} \cup {"get_poi_info"}) \cup {"calculate_route"})
      BY <3>2, FS_AddElement
    <3>4. T = ({"web_search"} \cup {"get_poi_info"}) \cup {"calculate_route"}
      OBVIOUS
    <3> QED BY <3>3, <3>4
  <2> QED BY <2>1, KeysAssumption, FS_Product
<1>2. f \in Surjection(T \X Keys, Lookup)
  <2>1. f \in [T \X Keys -> Lookup]
    BY DEF Lookup
  <2>2. ASSUME NEW l \in Lookup PROVE \E x \in T \X Keys : f[x] = l
    <3>1. l = [tool |-> l.tool, key |-> l.key] /\ <<l.tool, l.key>> \in T \X Keys
      BY DEF Lookup
    <3>2. f[<<l.tool, l.key>>] = [tool |-> l.tool, key |-> l.key]
      BY <3>1
    <3> QED BY <3>1, <3>2
  <2> HIDE DEF f
  <2> QED BY <2>1, <2>2 DEF Surjection
<1> QED BY <1>1, <1>2, FS_Surjection

(* Every lookup has a recovery key. *)
LEMMA KeyTyped == \A l \in Lookup : RecoveryKey(l) \in RecoveryKeys
BY DEF Lookup, RecoveryKey, RecoveryKeys

-----------------------------------------------------------------------------
(* The convergence guards *)

Counters == [over : BOOLEAN, same : [Lookup -> Nat], chain : [RecoveryKeys -> Nat]]

\* the calls of s that are the lookup l, and that share the key k
Times(calls, s, l) == Hits(calls, s, {l})
Uses(calls, s, k) == Hits(calls, s, Sharing(k))

(* While no limit is passed, every count has grown by how often its lookup or
   key was asked for, and is within its limit if it has grown. *)
LEMMA CountedStep ==
  ASSUME NEW c \in Counters, NEW call
  PROVE  /\ Counted(c, call) \in Counters
         /\ c.over => Counted(c, call).over
         /\ ~Counted(c, call).over /\ call \in Lookup =>
              /\ Counted(c, call).same = [c.same EXCEPT ![call] = @ + 1]
              /\ Counted(c, call).chain = [c.chain EXCEPT ![RecoveryKey(call)] = @ + 1]
              /\ c.same[call] + 1 <= MaxSame /\ c.chain[RecoveryKey(call)] + 1 <= MaxRecovery
         /\ call \notin Lookup => Counted(c, call) = c
         /\ \A l \in Lookup : Counted(c, call).same[l] >= c.same[l]
         /\ \A k \in RecoveryKeys : Counted(c, call).chain[k] >= c.chain[k]
<1> DEFINE n == c.same[call] + 1
           k == c.chain[RecoveryKey(call)] + 1
<1>0. /\ c.over \in BOOLEAN /\ c.same \in [Lookup -> Nat] /\ c.chain \in [RecoveryKeys -> Nat]
      /\ c = [over |-> c.over, same |-> c.same, chain |-> c.chain]
  BY DEF Counters
<1>1. CASE c.over \/ call \notin Lookup
  <2>1. Counted(c, call) = c
    BY <1>1 DEF Counted
  <2> QED BY <1>0, <1>1, <2>1
<1>2. CASE ~c.over /\ call \in Lookup
  <2>1. RecoveryKey(call) \in RecoveryKeys /\ c.same[call] \in Nat /\ c.chain[RecoveryKey(call)] \in Nat
    BY <1>0, <1>2, KeyTyped
  <2>2. CASE n > MaxSame
    <3>1. Counted(c, call) = [c EXCEPT !.same[call] = n, !.over = TRUE]
      BY <1>2, <2>2 DEF Counted
    <3>2. Counted(c, call) = [over |-> TRUE, same |-> [c.same EXCEPT ![call] = n], chain |-> c.chain]
      BY <1>0, <3>1
    <3> QED BY <1>0, <1>2, <2>1, <3>2, LimitsAssumption DEF Counters
  <2>3. CASE ~(n > MaxSame)
    <3>1. Counted(c, call) = [over |-> k > MaxRecovery, same |-> [c.same EXCEPT ![call] = n],
                              chain |-> [c.chain EXCEPT ![RecoveryKey(call)] = k]]
      BY <1>2, <2>3 DEF Counted
    <3>2. n \in Nat /\ k \in Nat /\ MaxSame \in Nat /\ MaxRecovery \in Nat
      BY <2>1, LimitsAssumption
    <3>3. Counted(c, call) \in Counters
      BY <1>0, <1>2, <2>1, <3>1, <3>2 DEF Counters
    <3>4. /\ Counted(c, call).over = (k > MaxRecovery)
          /\ Counted(c, call).same = [c.same EXCEPT ![call] = n]
          /\ Counted(c, call).chain = [c.chain EXCEPT ![RecoveryKey(call)] = k]
      BY <3>1
    <3>5. /\ \A l \in Lookup : Counted(c, call).same[l] >= c.same[l]
          /\ \A r \in RecoveryKeys : Counted(c, call).chain[r] >= c.chain[r]
      BY <1>0, <1>2, <2>1, <3>4
    <3>6. ~Counted(c, call).over =>
            /\ Counted(c, call).same = [c.same EXCEPT ![call] = @ + 1]
            /\ Counted(c, call).chain = [c.chain EXCEPT ![RecoveryKey(call)] = @ + 1]
            /\ c.same[call] + 1 <= MaxSame /\ c.chain[RecoveryKey(call)] + 1 <= MaxRecovery
      <4> HIDE DEF n, k
      <4>1. ~Counted(c, call).over => ~(k > MaxRecovery)
        BY <3>4, Zenon
      <4>2. n <= MaxSame /\ (~Counted(c, call).over => k <= MaxRecovery)
        BY <2>3, <3>2, <4>1
      <4> QED BY <3>4, <4>2 DEF n, k
    <3> QED BY <1>2, <3>3, <3>5, <3>6
  <2> QED BY <2>2, <2>3
<1> QED BY <1>0, <1>1, <1>2

(* What the guards know after the first calls of an answer, or after any of them. *)
Known(c, calls, s) ==
  /\ c \in Counters
  /\ \A l \in Lookup : c.same[l] >= same[l]
  /\ \A k \in RecoveryKeys : c.chain[k] >= chain[k]
  /\ ~c.over => /\ \A l \in Lookup : /\ c.same[l] >= same[l] + Times(calls, s, l)
                                     /\ Times(calls, s, l) # 0 => c.same[l] <= MaxSame
                /\ \A k \in RecoveryKeys : /\ c.chain[k] >= chain[k] + Uses(calls, s, k)
                                           /\ Uses(calls, s, k) # 0 => c.chain[k] <= MaxRecovery

(* The guards learn of one call more. *)
LEMMA KnownStep ==
  ASSUME NEW s, IsFiniteSet(s), NEW m \in s, NEW calls, NEW c, Known(c, calls, s \ {m}),
         same \in [Lookup -> Nat], chain \in [RecoveryKeys -> Nat]
  PROVE  Known(Counted(c, calls[m]), calls, s)
<1> DEFINE d == Counted(c, calls[m])
           call == calls[m]
<1>1. c \in Counters /\ c.same \in [Lookup -> Nat] /\ c.chain \in [RecoveryKeys -> Nat]
  BY DEF Known, Counters
<1>2. /\ d \in Counters /\ d.same \in [Lookup -> Nat] /\ d.chain \in [RecoveryKeys -> Nat]
      /\ c.over => d.over
      /\ ~d.over /\ call \in Lookup =>
           /\ d.same = [c.same EXCEPT ![call] = @ + 1]
           /\ d.chain = [c.chain EXCEPT ![RecoveryKey(call)] = @ + 1]
           /\ c.same[call] + 1 <= MaxSame /\ c.chain[RecoveryKey(call)] + 1 <= MaxRecovery
      /\ call \notin Lookup => d = c
      /\ \A l \in Lookup : d.same[l] >= c.same[l]
      /\ \A k \in RecoveryKeys : d.chain[k] >= c.chain[k]
  BY <1>1, CountedStep DEF Counters
<1> HIDE DEF d
<1>3. \A l \in Lookup : d.same[l] >= same[l]
  BY <1>1, <1>2 DEF Known
<1>4. \A k \in RecoveryKeys : d.chain[k] >= chain[k]
  BY <1>1, <1>2 DEF Known
<1>5. ASSUME ~d.over, NEW l \in Lookup
      PROVE  d.same[l] >= same[l] + Times(calls, s, l) /\ (Times(calls, s, l) # 0 => d.same[l] <= MaxSame)
  <2> DEFINE old == Times(calls, s \ {m}, l)
             new == Times(calls, s, l)
  <2>1. old \in Nat /\ new \in Nat /\ new = old + IF call = l THEN 1 ELSE 0
    <3> DEFINE T == {l}
    <3>1. old = Hits(calls, s \ {m}, T) /\ new = Hits(calls, s, T) /\ (call \in T <=> call = l)
      BY DEF Times
    <3> HIDE DEF old, new, T
    <3>2. /\ Hits(calls, s, T) \in Nat /\ Hits(calls, s \ {m}, T) \in Nat
          /\ Hits(calls, s, T) = Hits(calls, s \ {m}, T) + IF calls[m] \in T THEN 1 ELSE 0
      BY OneMore
    <3> QED BY <3>1, <3>2
  <2>2. c.same[l] >= same[l] + old /\ (old # 0 => c.same[l] <= MaxSame)
    BY <1>2, <1>5 DEF Known
  <2> HIDE DEF old, new
  <2>3. CASE call = l
    <3>1. d.same[l] = c.same[l] + 1 /\ c.same[l] + 1 <= MaxSame
      BY <1>1, <1>2, <1>5, <2>3
    <3>2. c.same[l] \in Nat /\ same[l] \in Nat
      BY <1>1
    <3> QED BY <2>1, <2>2, <2>3, <3>1, <3>2 DEF new
  <2>4. CASE call # l
    <3>1. d.same[l] = c.same[l] /\ new = old
      BY <1>1, <1>2, <1>5, <2>1, <2>4
    <3> QED BY <2>2, <3>1 DEF new
  <2> QED BY <2>3, <2>4
<1>6. ASSUME ~d.over, NEW k \in RecoveryKeys
      PROVE  d.chain[k] >= chain[k] + Uses(calls, s, k) /\ (Uses(calls, s, k) # 0 => d.chain[k] <= MaxRecovery)
  <2> DEFINE old == Uses(calls, s \ {m}, k)
             new == Uses(calls, s, k)
  <2>1. old \in Nat /\ new \in Nat /\ new = old + IF call \in Sharing(k) THEN 1 ELSE 0
    BY OneMore DEF Uses
  <2>2. c.chain[k] >= chain[k] + old /\ (old # 0 => c.chain[k] <= MaxRecovery)
    BY <1>2, <1>6 DEF Known
  <2> HIDE DEF old, new
  <2>3. CASE call \in Sharing(k)
    <3>1. call \in Lookup /\ RecoveryKey(call) = k
      BY <2>3 DEF Sharing
    <3>2. d.chain[k] = c.chain[k] + 1 /\ c.chain[k] + 1 <= MaxRecovery
      BY <1>1, <1>2, <1>6, <3>1
    <3>3. c.chain[k] \in Nat /\ chain[k] \in Nat
      BY <1>1
    <3> QED BY <2>1, <2>2, <2>3, <3>2, <3>3 DEF new
  <2>4. CASE call \notin Sharing(k)
    <3>1. call \in Lookup => RecoveryKey(call) # k
      BY <2>4 DEF Sharing
    <3>2. d.chain[k] = c.chain[k] /\ new = old
      BY <1>1, <1>2, <1>6, <2>1, <2>4, <3>1
    <3> QED BY <2>2, <3>2 DEF new
  <2> QED BY <2>3, <2>4
<1> QED BY <1>2, <1>3, <1>4, <1>5, <1>6 DEF Known, d

(* All calls of an answer. *)
LEMMA Counting ==
  ASSUME NEW n \in Nat, NEW calls \in [1..n -> Calls],
         same \in [Lookup -> Nat], chain \in [RecoveryKeys -> Nat]
  PROVE  Known(Counts(calls), calls, 1..n)
<1> DEFINE S == 1..n
           base == [over |-> FALSE, same |-> same, chain |-> chain]
           pick == [s \in SUBSET S |-> Max(s)]
           Body(f, s) == IF s = {} THEN base ELSE Counted(f[s \ {Max(s)}], calls[Max(s)])
           Equation(f) == f = [s \in SUBSET S |-> Body(f, s)]
           all == CHOOSE f : Equation(f)
           step == [s \in SUBSET S |-> [c \in Counters |-> IF s = {} THEN c ELSE Counted(c, calls[Max(s)])]]
<1>1. IsFiniteSet(S) /\ DOMAIN calls = S
  BY FS_Interval
<1>2. \A s \in SUBSET S : s # {} => Max(s) \in s
  BY LastOfSome
<1>3. Picks(pick, S)
  BY <1>2 DEF Picks
<1>4. base \in Counters
  BY DEF Counters
<1>5. \E f : Equation(f)
  <2>1. \A c \in Counters : \A call : Counted(c, call) \in Counters
    BY CountedStep
  <2>2. step \in [SUBSET S -> [Counters -> Counters]]
    BY <2>1
  <2>3. PICK g \in [SUBSET S -> Counters] : Solves(g, S, pick, base, step)
    <3> HIDE DEF S, base, step, pick
    <3> QED BY <1>1, <1>3, <1>4, <2>2, FoldExists
  <2>4. \A s \in SUBSET S : g[s] = Body(g, s)
    <3> HIDE DEF base
    <3> QED BY <1>2, <2>3 DEF Solves
  <2>5. Equation(g)
    <3> HIDE DEF Body
    <3> QED BY <2>4
  <2> QED BY <2>5
<1>6. Equation(all)
  <2> HIDE DEF Equation
  <2> QED BY <1>5
<1>7. \A s \in SUBSET S : all[s] = Body(all, s)
  <2> HIDE DEF all, Body
  <2> QED BY <1>6
<1>8. Counts(calls) = all[S]
  BY <1>1, Zenon DEF Counts, FoldLeft, MapThenFoldSet, all
<1> HIDE DEF all
<1> DEFINE Good == {s \in SUBSET S : Known(all[s], calls, s)}
<1>9. {} \in Good
  <2>1. all[{}] = base
    BY <1>7
  <2>2. \A T : Hits(calls, {}, T) = 0
    BY FS_EmptySet DEF Hits
  <2>3. Known(base, calls, {})
    BY <1>4, <2>2 DEF Known, Times, Uses
  <2> QED BY <2>1, <2>3
<1>10. ASSUME NEW s \in SUBSET S, s # {}, s \ {pick[s]} \in Good PROVE s \in Good
  <2> DEFINE m == pick[s]
  <2>1. m \in s /\ m = Max(s)
    BY <1>2, <1>10
  <2>2. all[s] = Counted(all[s \ {m}], calls[m])
    BY <1>7, <1>10, <2>1
  <2>3. IsFiniteSet(s)
    BY <1>1, FS_Subset
  <2>4. Known(all[s \ {m}], calls, s \ {m})
    BY <1>10
  <2> HIDE DEF m
  <2>5. Known(Counted(all[s \ {m}], calls[m]), calls, s)
    BY <2>1, <2>3, <2>4, KnownStep
  <2> QED BY <2>2, <2>5
<1>11. Good = SUBSET S
  <2>1. Good \in SUBSET SUBSET S
    OBVIOUS
  <2> HIDE DEF Good, pick
  <2>2. \A s \in SUBSET S : s # {} /\ s \ {pick[s]} \in Good => s \in Good
    BY <1>10
  <2> HIDE DEF S
  <2>3. IsFiniteSet(S) /\ Picks(pick, S)
    BY <1>1, <1>3
  <2> QED BY <1>9, <2>1, <2>2, <2>3, PickedInduction
<1> QED BY <1>8, <1>11

-----------------------------------------------------------------------------
(* The invariant *)

\* until the worker ends, its file holds what it submitted last
Filed == pc # "done" => file = submitted

\* the repair round is the only one beyond the limit
RepairOnce == iter <= MaxIter + 1 /\ (repair # "used" => iter <= MaxIter)

\* no lookup ran that the guards have not counted
Looked ==
  /\ \A l \in Lookup : ran[l] <= same[l] /\ ran[l] <= MaxSame
  /\ \A k \in RecoveryKeys : SumOf(ran, Sharing(k)) <= chain[k] /\ SumOf(ran, Sharing(k)) <= MaxRecovery

IInv == TypeOK /\ ContractKept /\ Filed /\ RepairOnce /\ Looked

(* The invariant bounds the lookups. *)
LEMMA LookedBounded == Looked => LookupsBounded
<1> SUFFICES ASSUME Looked PROVE LookupsBounded
  OBVIOUS
<1>1. \A k \in RecoveryKeys : SumOf(ran, Sharing(k)) <= MaxRecovery
  BY DEF Looked
<1>2. \A k \in RecoveryKeys : FoldFunctionOnSet(+, 0, ran, {l \in Lookup : RecoveryKey(l) = k}) <= MaxRecovery
  BY <1>1, Zenon DEF SumOf, Sharing
<1>3. \A l \in Lookup : ran[l] <= MaxSame
  BY DEF Looked
<1> QED BY <1>2, <1>3, Zenon DEF LookupsBounded

(* The lookups that share a recovery key add up to a number. *)
LEMMA SumTyped ==
  ASSUME NEW f \in [Lookup -> Nat], NEW k
  PROVE  SumOf(f, Sharing(k)) \in Nat
<1>1. Sharing(k) \in SUBSET Lookup
  BY DEF Sharing
<1> QED BY <1>1, LookupsFinite, Summing

(* What the guards do to an answer, as far as the rest of a round needs it. *)
LEMMA GuardStep ==
  ASSUME TypeOK, Looked, NEW n \in Nat, NEW calls \in [1..n -> Calls], CountCalls(calls)
  PROVE  /\ same' \in [Lookup -> Nat] /\ chain' \in [RecoveryKeys -> Nat] /\ forced' \in BOOLEAN
         /\ ran' = ran => Looked'
         /\ ~forced' => /\ \A l \in Lookup : /\ same'[l] >= same[l] + Times(calls, 1..n, l)
                                             /\ Times(calls, 1..n, l) # 0 => same'[l] <= MaxSame
                        /\ \A k \in RecoveryKeys : /\ chain'[k] >= chain[k] + Uses(calls, 1..n, k)
                                                   /\ Uses(calls, 1..n, k) # 0 => chain'[k] <= MaxRecovery
<1> DEFINE c == Counts(calls)
<1>1. same \in [Lookup -> Nat] /\ chain \in [RecoveryKeys -> Nat] /\ ran \in [Lookup -> Nat] /\ forced \in BOOLEAN
  BY DEF TypeOK
<1>2. Known(c, calls, 1..n)
  BY <1>1, Counting
<1>3. same' = c.same /\ chain' = c.chain /\ forced' = (forced \/ c.over)
  BY DEF CountCalls
<1> HIDE DEF c
<1>4. c.over \in BOOLEAN /\ c.same \in [Lookup -> Nat] /\ c.chain \in [RecoveryKeys -> Nat]
  BY <1>2 DEF Known, Counters
<1>5. ASSUME ran' = ran PROVE Looked'
  <2>1. \A l \in Lookup : ran'[l] <= same'[l] /\ ran'[l] <= MaxSame
    BY <1>1, <1>2, <1>3, <1>4, <1>5 DEF Looked, Known
  <2>2. ASSUME NEW k \in RecoveryKeys
        PROVE  SumOf(ran', Sharing(k)) <= chain'[k] /\ SumOf(ran', Sharing(k)) <= MaxRecovery
    <3>1. SumOf(ran, Sharing(k)) \in Nat
      BY <1>1, SumTyped
    <3>2. SumOf(ran, Sharing(k)) <= chain[k] /\ SumOf(ran, Sharing(k)) <= MaxRecovery
      BY DEF Looked
    <3>3. chain'[k] >= chain[k] /\ chain'[k] \in Nat /\ chain[k] \in Nat
      BY <1>1, <1>2, <1>3, <1>4 DEF Known
    <3> QED BY <1>5, <3>1, <3>2, <3>3
  <2> QED BY <2>1, <2>2 DEF Looked
<1>6. ~forced' => ~c.over
  BY <1>3
<1> QED BY <1>2, <1>3, <1>4, <1>5, <1>6 DEF Known

(* The lookups of a batch without a submission. *)
LEMMA RanStep ==
  ASSUME TypeOK, Looked, NEW n \in Nat, NEW calls \in [1..n -> Calls], CountCalls(calls), ~forced',
         ran' = [l \in Lookup |-> IF ~Reaches(l) THEN ran[l]
                                  ELSE ran[l] + Cardinality({i \in DOMAIN calls : calls[i] = l})]
  PROVE  ran' \in [Lookup -> Nat] /\ Looked'
<1>1. /\ same \in [Lookup -> Nat] /\ chain \in [RecoveryKeys -> Nat] /\ ran \in [Lookup -> Nat]
      /\ same' \in [Lookup -> Nat] /\ chain' \in [RecoveryKeys -> Nat]
  BY GuardStep DEF TypeOK
<1>2. \A T : Hits(calls, 1..n, T) \in Nat
  <2>1. ASSUME NEW T PROVE Hits(calls, 1..n, T) \in Nat
    <3>1. IsFiniteSet({i \in 1..n : calls[i] \in T})
      BY FS_Interval, FS_Subset
    <3> QED BY <3>1, FS_CardinalityType DEF Hits
  <2> QED BY <2>1
<1>3. \A l \in Lookup : Times(calls, 1..n, l) = Cardinality({i \in 1..n : calls[i] = l})
  <2>1. ASSUME NEW l PROVE {i \in 1..n : calls[i] = l} = {i \in 1..n : calls[i] \in {l}}
    OBVIOUS
  <2> QED BY <2>1, Zenon DEF Times, Hits
<1>4. DOMAIN calls = 1..n
  OBVIOUS
<1>5. \A l \in Lookup : ran'[l] = IF ~Reaches(l) THEN ran[l] ELSE ran[l] + Times(calls, 1..n, l)
  BY <1>3, <1>4
<1>6. \A l \in Lookup : Times(calls, 1..n, l) \in Nat
  BY <1>2 DEF Times
<1>7. ran' \in [Lookup -> Nat]
  <2>1. ASSUME NEW l \in Lookup PROVE ran'[l] \in Nat
    <3>1. ran'[l] = ran[l] \/ ran'[l] = ran[l] + Times(calls, 1..n, l)
      BY <1>5
    <3>2. ran[l] \in Nat /\ Times(calls, 1..n, l) \in Nat
      BY <1>1, <1>6
    <3> QED BY <3>1, <3>2
  <2>2. ran' = [l \in Lookup |-> ran'[l]]
    OBVIOUS
  <2> QED BY <2>1, <2>2, Zenon
<1>8. \A l \in Lookup : /\ same'[l] >= same[l] + Times(calls, 1..n, l)
                        /\ Times(calls, 1..n, l) # 0 => same'[l] <= MaxSame
  BY GuardStep
<1>9. \A k \in RecoveryKeys : /\ chain'[k] >= chain[k] + Uses(calls, 1..n, k)
                              /\ Uses(calls, 1..n, k) # 0 => chain'[k] <= MaxRecovery
  BY GuardStep
<1>10. ASSUME NEW l \in Lookup PROVE ran'[l] <= same'[l] /\ ran'[l] <= MaxSame
  <2>1. ran[l] <= same[l] /\ ran[l] <= MaxSame
    BY DEF Looked
  <2>2. ran[l] \in Nat /\ same[l] \in Nat /\ same'[l] \in Nat /\ Times(calls, 1..n, l) \in Nat
    BY <1>1, <1>6
  <2>3. ran'[l] = ran[l] \/ ran'[l] = ran[l] + Times(calls, 1..n, l)
    BY <1>5
  <2> QED BY <1>8, <2>1, <2>2, <2>3, LimitsAssumption
<1>11. ASSUME NEW k \in RecoveryKeys
       PROVE  SumOf(ran', Sharing(k)) <= chain'[k] /\ SumOf(ran', Sharing(k)) <= MaxRecovery
  <2> DEFINE old == SumOf(ran, Sharing(k))
             new == SumOf(ran', Sharing(k))
             uses == Uses(calls, 1..n, k)
  <2>1. old \in Nat /\ new \in Nat /\ uses \in Nat
    BY <1>1, <1>2, <1>7, SumTyped DEF Uses
  <2>2. new <= old + uses
    <3>1. Sharing(k) \in SUBSET Lookup /\ IsFiniteSet(Lookup) /\ IsFiniteSet(1..n)
      BY LookupsFinite, FS_Interval DEF Sharing
    <3>2. ASSUME NEW l \in Sharing(k) PROVE ran'[l] <= ran[l] + Times(calls, 1..n, l)
      <4>1. ran[l] \in Nat /\ Times(calls, 1..n, l) \in Nat
        BY <1>1, <1>6, <3>1
      <4>2. ran'[l] = ran[l] \/ ran'[l] = ran[l] + Times(calls, 1..n, l)
        BY <1>5, <3>1
      <4> QED BY <4>1, <4>2
    <3>3. \A l \in Sharing(k) : ran'[l] <= ran[l] + Hits(calls, 1..n, {l})
      BY <3>2 DEF Times
    <3> QED BY <1>1, <1>7, <3>1, <3>3, SumGrows DEF Uses
  <2>3. old <= chain[k] /\ old <= MaxRecovery
    BY DEF Looked
  <2>4. chain'[k] >= chain[k] + uses /\ (uses # 0 => chain'[k] <= MaxRecovery)
    BY <1>9
  <2>5. chain[k] \in Nat /\ chain'[k] \in Nat
    BY <1>1
  <2> HIDE DEF old, new, uses
  <2>6. new <= chain'[k] /\ new <= MaxRecovery
    BY <2>1, <2>2, <2>3, <2>4, <2>5, LimitsAssumption
  <2> QED BY <2>6 DEF new
<1> QED BY <1>7, <1>10, <1>11 DEF Looked

-----------------------------------------------------------------------------
(* The steps *)

(* An outcome that may carry a plan only together with a file. *)
LEMMA EndTyped ==
  ASSUME NEW reason \in {"self", "report", "timeout", "exception"}, NEW plan, NEW request,
         \/ plan \in Plans /\ request = NoRequest /\ file' # NoPlan
         \/ plan = NoPlan /\ request \in Requests,
         End(reason, plan, request)
  PROVE  /\ out' \in Outcomes /\ out'.plan = plan
         /\ pc' = "done" /\ how' = reason /\ how' \in {"running", "self", "report", "timeout", "exception"}
<1>1. out' = [plan |-> plan, wrote |-> file' # NoPlan, request |-> request]
  BY DEF End, Result
<1>2. out' \in Outcomes
  <2>1. CASE plan \in Plans /\ request = NoRequest /\ file' # NoPlan
    <3>1. out' = [plan |-> plan, wrote |-> TRUE, request |-> NoRequest]
      BY <1>1, <2>1
    <3> QED BY <2>1, <3>1 DEF Outcomes
  <2>2. CASE plan = NoPlan /\ request \in Requests
    <3> DEFINE wrote == file' # NoPlan
    <3>1. wrote \in BOOLEAN
      OBVIOUS
    <3>2. out' = [plan |-> NoPlan, wrote |-> wrote, request |-> request]
      BY <1>1, <2>2
    <3> HIDE DEF wrote
    <3> QED BY <2>2, <3>1, <3>2 DEF Outcomes
  <2> QED BY <2>1, <2>2
<1> QED BY <1>1, <1>2 DEF End

(* A round is within the limit, or it is the granted one. *)
LEMMA RoundStep ==
  ASSUME TypeOK, RepairOnce, Round
  PROVE  /\ iter' \in Nat /\ iter' <= MaxIter + 1 /\ pc = "ask"
         /\ repair # "pending" => iter' <= MaxIter
         /\ Spent \in {"none", "used"}
         /\ repair' = Spent => RepairOnce'
BY LimitsAssumption DEF TypeOK, RepairOnce, Round, Spent

(* The plan that was submitted or that a text carries ends the worker. *)
LEMMA LastWord ==
  ASSUME TypeOK, Filed, pc # "done", NEW text \in Texts, Deliver \/ TextFallback(text)
  PROVE  /\ out' \in Outcomes /\ ContractKept' /\ Filed'
         /\ submitted' \in Plans \cup {NoPlan} /\ file' \in Plans \cup {NoPlan}
         /\ pc' = "done" /\ how' \in {"running", "self", "report", "timeout", "exception"}
<1>1. /\ submitted \in Plans \cup {NoPlan} /\ file \in Plans \cup {NoPlan} /\ file = submitted
      /\ NoRequest \in Requests
  BY DEF TypeOK, Filed, Requests
<1>2. CASE Deliver
  <2>1. submitted # NoPlan /\ submitted' = submitted /\ file' = file /\ End("self", submitted, NoRequest)
    BY <1>2 DEF Deliver
  <2>2. out' \in Outcomes /\ out'.plan = submitted /\ pc' = "done" /\ how' = "self"
    BY <1>1, <2>1, EndTyped
  <2> QED BY <1>1, <2>1, <2>2 DEF ContractKept, Filed
<1>3. CASE TextFallback(text)
  <2> DEFINE plan == IF text \in Plans THEN text ELSE NoPlan
  <2>1. submitted = NoPlan /\ submitted' = submitted /\ End("self", plan, NoRequest)
        /\ file' = IF text \in Plans THEN text ELSE file
    BY <1>3 DEF TextFallback
  <2>2. plan \in Plans => plan = file' /\ file' # NoPlan
    BY <2>1, NoPlanAssumption
  <2>3. plan \in Plans \/ plan = NoPlan
    OBVIOUS
  <2>4. file' \in Plans \cup {NoPlan} /\ (plan = NoPlan => file' = NoPlan)
    BY <1>1, <2>1, NoPlanAssumption
  <2> HIDE DEF plan
  <2>5. out' \in Outcomes /\ out'.plan = plan /\ pc' = "done" /\ how' = "self"
    BY <1>1, <2>1, <2>2, <2>3, EndTyped
  <2> QED BY <1>1, <2>1, <2>2, <2>3, <2>4, <2>5 DEF ContractKept, Filed
<1> QED BY <1>2, <1>3

LEMMA AnswerTextInv ==
  ASSUME IInv, NEW text \in Texts, AnswerText(text)
  PROVE  IInv'
<1>1. /\ Round /\ Heard(text)
      /\ \/ (Deliver \/ TextFallback(text)) /\ repair' = Spent
         \/ submitted = NoPlan /\ RepairLeft /\ repair' = "pending" /\ UNCHANGED <<pc, output>>
      /\ UNCHANGED <<forced, same, chain, noRoute, xhsOff, ran, batch>>
  BY DEF AnswerText, tools
<1>2. TypeOK /\ pc = "ask"
  BY <1>1 DEF IInv, Round
<1>3. /\ iter' \in Nat /\ iter' <= MaxIter + 1 /\ (repair # "pending" => iter' <= MaxIter)
      /\ Spent \in {"none", "used"} /\ (repair' = Spent => RepairOnce')
  BY <1>1, RoundStep DEF IInv
<1>4. said' \in Plans \cup {NoPlan}
  BY <1>1, <1>2 DEF Heard, Texts, TypeOK
<1>5. Looked'
  BY <1>1 DEF IInv, Looked
<1>6. CASE (Deliver \/ TextFallback(text)) /\ repair' = Spent
  <2>1. /\ out' \in Outcomes /\ ContractKept' /\ Filed'
        /\ submitted' \in Plans \cup {NoPlan} /\ file' \in Plans \cup {NoPlan}
        /\ pc' = "done" /\ how' \in {"running", "self", "report", "timeout", "exception"}
    BY <1>2, <1>6, LastWord DEF IInv
  <2>2. TypeOK'
    BY <1>1, <1>2, <1>3, <1>4, <1>6, <2>1 DEF TypeOK
  <2> QED BY <1>3, <1>5, <1>6, <2>1, <2>2 DEF IInv
<1>7. CASE submitted = NoPlan /\ RepairLeft /\ repair' = "pending" /\ UNCHANGED <<pc, output>>
  <2>1. UNCHANGED <<pc, submitted, file, out, how>>
    BY <1>7 DEF output
  <2>2. TypeOK'
    BY <1>1, <1>2, <1>3, <1>4, <1>7, <2>1 DEF TypeOK
  <2>3. RepairOnce'
    BY <1>3, <1>7 DEF RepairOnce, RepairLeft
  <2>4. ContractKept' /\ Filed'
    BY <2>1, <1>2 DEF IInv, ContractKept, Filed
  <2> QED BY <1>5, <2>2, <2>3, <2>4 DEF IInv
<1> QED BY <1>1, <1>6, <1>7

LEMMA SkipCallsInv ==
  ASSUME IInv, NEW text \in Texts, NEW n \in Nat, NEW calls \in [1..n -> Calls], SkipCalls(text, calls)
  PROVE  IInv'
<1>1. /\ Round /\ Heard(text) /\ repair' = Spent /\ CountCalls(calls)
      /\ UNCHANGED <<pc, noRoute, xhsOff, ran, submitted, file, out, how, batch>>
  BY DEF SkipCalls, tools, output
<1>2. TypeOK /\ Looked /\ pc = "ask"
  BY <1>1 DEF IInv, Round
<1>3. iter' \in Nat /\ Spent \in {"none", "used"} /\ RepairOnce'
  BY <1>1, RoundStep DEF IInv
<1>4. said' \in Plans \cup {NoPlan}
  BY <1>1, <1>2 DEF Heard, Texts, TypeOK
<1>5. same' \in [Lookup -> Nat] /\ chain' \in [RecoveryKeys -> Nat] /\ forced' \in BOOLEAN /\ Looked'
  BY <1>1, <1>2, GuardStep
<1>6. TypeOK'
  BY <1>1, <1>2, <1>3, <1>4, <1>5 DEF TypeOK
<1>7. ContractKept' /\ Filed'
  BY <1>1, <1>2 DEF IInv, ContractKept, Filed
<1> QED BY <1>3, <1>5, <1>6, <1>7 DEF IInv

(* The request of the first report of an answer that has one. *)
LEMMA ReportTyped ==
  ASSUME NEW n \in Nat, NEW calls \in [1..n -> Calls], Has(calls, "report")
  PROVE  Reported(calls) \in Requests
<1> DEFINE T == {i \in DOMAIN calls : calls[i].tool = "report"}
<1>1. T \in SUBSET Nat /\ T # {} /\ T \in SUBSET (1..n)
  BY DEF Has
<1>2. PICK x \in T : \A y \in T : x <= y
  <2> HIDE DEF T
  <2> QED BY <1>1, LeastElement
<1>3. Min(T) \in T
  <2> HIDE DEF T
  <2> QED BY <1>2 DEF Min
<1>4. calls[Min(T)] \in Calls /\ calls[Min(T)].tool = "report"
  BY <1>1, <1>3
<1>5. calls[Min(T)] \in Report
  BY <1>4 DEF Calls, Lookup, Note, Submission, Report
<1> QED BY <1>5 DEF Reported, Report

LEMMA ReportInv ==
  ASSUME IInv, NEW text \in Texts, NEW n \in Nat, NEW calls \in [1..n -> Calls], ReportInfeasible(text, calls)
  PROVE  IInv'
<1>1. /\ Round /\ Heard(text) /\ repair' = Spent /\ CountCalls(calls) /\ Has(calls, "report")
      /\ UNCHANGED <<submitted, file, noRoute, xhsOff, ran, batch>>
      /\ End("report", NoPlan, Reported(calls))
  BY DEF ReportInfeasible, tools
<1>2. TypeOK /\ Looked /\ pc = "ask"
  BY <1>1 DEF IInv, Round
<1>3. iter' \in Nat /\ Spent \in {"none", "used"} /\ RepairOnce'
  BY <1>1, RoundStep DEF IInv
<1>4. said' \in Plans \cup {NoPlan}
  BY <1>1, <1>2 DEF Heard, Texts, TypeOK
<1>5. same' \in [Lookup -> Nat] /\ chain' \in [RecoveryKeys -> Nat] /\ forced' \in BOOLEAN /\ Looked'
  BY <1>1, <1>2, GuardStep
<1>6. out' \in Outcomes /\ out'.plan = NoPlan /\ pc' = "done" /\ how' = "report"
  BY <1>1, ReportTyped, EndTyped
<1>7. TypeOK'
  BY <1>1, <1>2, <1>3, <1>4, <1>5, <1>6 DEF TypeOK
<1>8. ContractKept' /\ Filed'
  BY <1>6 DEF ContractKept, Filed
<1> QED BY <1>3, <1>5, <1>7, <1>8 DEF IInv

LEMMA RunCallsInv ==
  ASSUME IInv, NEW text \in Texts, NEW n \in Nat, NEW calls \in [1..n -> Calls], RunCalls(text, calls)
  PROVE  IInv'
<1> DEFINE stored == Submitted(calls)
<1>1. /\ Round /\ Heard(text) /\ repair' = Spent /\ CountCalls(calls)
      /\ ~forced' \/ Has(calls, "submit")
      /\ file' = (IF stored = {} THEN file ELSE calls[Max(stored)].plan)
      /\ submitted' = (IF stored = {} THEN submitted ELSE calls[Max(stored)].plan)
      /\ batch' = {call \in Range(calls) : Reaches(call)}
      /\ pc' = (IF batch' = {} THEN "ask" ELSE "act")
      /\ ran' = [l \in Lookup |-> IF Has(calls, "submit") \/ ~Reaches(l) THEN ran[l]
                                  ELSE ran[l] + Cardinality({i \in DOMAIN calls : calls[i] = l})]
      /\ UNCHANGED <<noRoute, xhsOff, out, how>>
  BY DEF RunCalls
<1>2. TypeOK /\ Looked /\ pc = "ask" /\ file = submitted
  BY <1>1 DEF IInv, Round, Filed
<1>3. iter' \in Nat /\ Spent \in {"none", "used"} /\ RepairOnce'
  BY <1>1, RoundStep DEF IInv
<1>4. said' \in Plans \cup {NoPlan}
  BY <1>1, <1>2 DEF Heard, Texts, TypeOK
<1>5. same' \in [Lookup -> Nat] /\ chain' \in [RecoveryKeys -> Nat] /\ forced' \in BOOLEAN
  BY <1>1, <1>2, GuardStep
<1>6. stored # {} => calls[Max(stored)].plan \in Plans
  <2>1. stored \in SUBSET (1..n)
    BY DEF Submitted
  <2>2. stored # {} => Max(stored) \in stored
    <3> HIDE DEF stored
    <3> QED BY <2>1, LastOfSome
  <2>3. \A i \in stored : calls[i] \in Calls /\ calls[i].tool = "submit" /\ calls[i].plan # NoPlan
    BY DEF Submitted, Valid
  <2>4. \A i \in stored : calls[i] \in Submission
    BY <2>3 DEF Calls, Lookup, Note, Submission, Report
  <2> QED BY <2>2, <2>3, <2>4 DEF Submission
<1> HIDE DEF stored
<1>7. file' \in Plans \cup {NoPlan} /\ submitted' \in Plans \cup {NoPlan} /\ file' = submitted'
  BY <1>1, <1>2, <1>6 DEF TypeOK
<1>8. batch' \subseteq Calls
  BY <1>1 DEF Range
<1>9. ran' \in [Lookup -> Nat] /\ Looked'
  <2>1. CASE Has(calls, "submit")
    <3>1. ran \in [Lookup -> Nat]
      BY <1>2 DEF TypeOK
    <3>2. ran' = [l \in Lookup |-> ran[l]]
      BY <1>1, <2>1
    <3>3. ran' = ran
      BY <3>1, <3>2
    <3> QED BY <1>1, <1>2, <3>1, <3>3, GuardStep
  <2>2. CASE ~Has(calls, "submit")
    <3>1. ran' = [l \in Lookup |-> IF ~Reaches(l) THEN ran[l]
                                   ELSE ran[l] + Cardinality({i \in DOMAIN calls : calls[i] = l})]
      BY <1>1, <2>2
    <3> QED BY <1>1, <1>2, <2>2, <3>1, RanStep
  <2> QED BY <2>1, <2>2
<1>10. pc' \in {"ask", "act"}
  BY <1>1
<1>11. TypeOK'
  BY <1>1, <1>2, <1>3, <1>4, <1>5, <1>7, <1>8, <1>9, <1>10 DEF TypeOK
<1>12. ContractKept' /\ Filed'
  BY <1>7, <1>10 DEF ContractKept, Filed
<1> QED BY <1>3, <1>9, <1>11, <1>12 DEF IInv

LEMMA EndBatchInv ==
  ASSUME IInv, EndBatch
  PROVE  IInv'
<1>1. /\ pc = "act" /\ pc' = "ask" /\ batch' = {}
      /\ UNCHANGED <<iter, repair, forced, same, chain, submitted, file, out, how, said, ran>>
  BY DEF EndBatch, guards, output
<1>2. TypeOK
  BY DEF IInv
<1>3. noRoute' \subseteq Keys /\ xhsOff' \in BOOLEAN
  <2>1. PICK failed \in SUBSET {call \in batch : ResultsOf(call) # {"other"}} :
          /\ noRoute' = noRoute \cup {call.key : call \in {c \in failed : c.tool = "calculate_route"}}
          /\ xhsOff' = (xhsOff \/ \E call \in failed : call.tool = "xiaohongshu")
    BY DEF EndBatch
  <2>2. \A call \in failed : call.tool = "calculate_route" => call.key \in Keys
    BY <1>2 DEF TypeOK, Calls, Lookup, Note, Submission, Report
  <2> QED BY <1>2, <2>1, <2>2 DEF TypeOK
<1>4. TypeOK'
  BY <1>1, <1>2, <1>3 DEF TypeOK
<1> QED BY <1>1, <1>4 DEF IInv, ContractKept, Filed, RepairOnce, Looked

LEMMA ExhaustedInv ==
  ASSUME IInv, Exhausted
  PROVE  IInv'
<1>1. /\ pc = "ask" /\ (Deliver \/ TextFallback(said))
      /\ UNCHANGED <<iter, repair, forced, same, chain, noRoute, xhsOff, ran, said, batch>>
  BY DEF Exhausted, guards, tools
<1>2. TypeOK /\ Filed /\ said \in Texts
  BY DEF IInv, TypeOK, Texts
<1>3. /\ out' \in Outcomes /\ ContractKept' /\ Filed'
      /\ submitted' \in Plans \cup {NoPlan} /\ file' \in Plans \cup {NoPlan}
      /\ pc' = "done" /\ how' \in {"running", "self", "report", "timeout", "exception"}
  <2>1. ASSUME NEW text \in Texts, Deliver \/ TextFallback(text)
        PROVE  /\ out' \in Outcomes /\ ContractKept' /\ Filed'
               /\ submitted' \in Plans \cup {NoPlan} /\ file' \in Plans \cup {NoPlan}
               /\ pc' = "done" /\ how' \in {"running", "self", "report", "timeout", "exception"}
    BY <1>1, <1>2, <2>1, LastWord
  <2>2. \E text \in Texts : Deliver \/ TextFallback(text)
    BY <1>1, <1>2 DEF TextFallback, End, Result
  <2> QED BY <2>1, <2>2
<1>4. TypeOK'
  BY <1>1, <1>2, <1>3 DEF TypeOK
<1> QED BY <1>1, <1>3, <1>4 DEF IInv, RepairOnce, Looked

LEMMA BreakInv ==
  ASSUME IInv, Break
  PROVE  IInv'
<1>1. PICK reason \in {"timeout", "exception"} : End(reason, NoPlan, NoRequest)
  BY DEF Break
<1>2. UNCHANGED <<iter, repair, forced, same, chain, noRoute, xhsOff, ran, submitted, file, said, batch>>
  BY DEF Break, guards, tools
<1>3. NoRequest \in Requests
  BY DEF Requests
<1>4. out' \in Outcomes /\ out'.plan = NoPlan /\ pc' = "done" /\ how' = reason
  BY <1>1, <1>3, EndTyped
<1>5. TypeOK'
  BY <1>2, <1>4 DEF IInv, TypeOK
<1>6. ContractKept' /\ Filed'
  BY <1>4 DEF ContractKept, Filed
<1> QED BY <1>2, <1>5, <1>6 DEF IInv, RepairOnce, Looked

-----------------------------------------------------------------------------
(* The theorems *)

LEMMA InitInv == Init => IInv
<1> SUFFICES ASSUME Init PROVE IInv
  OBVIOUS
<1>1. NoRequest \in Requests
  BY DEF Requests
<1>2. [plan |-> NoPlan, wrote |-> FALSE, request |-> NoRequest] \in Outcomes
  BY <1>1 DEF Outcomes
<1>3. TypeOK
  BY <1>2 DEF Init, TypeOK
<1>4. ContractKept /\ Filed /\ RepairOnce
  BY LimitsAssumption DEF Init, ContractKept, Filed, RepairOnce
<1>5. Looked
  <2>1. ran \in [Lookup -> Nat] /\ \A l \in Lookup : ran[l] = 0 /\ same[l] = 0
    BY DEF Init
  <2>2. \A k \in RecoveryKeys : chain[k] = 0
    BY DEF Init
  <2>3. ASSUME NEW k \in RecoveryKeys PROVE SumOf(ran, Sharing(k)) = 0
    <3>1. Sharing(k) \in SUBSET Lookup
      BY DEF Sharing
    <3> QED BY <2>1, <3>1, LookupsFinite, SumOfZeros
  <2> QED BY <2>1, <2>2, <2>3, LimitsAssumption DEF Looked
<1> QED BY <1>3, <1>4, <1>5 DEF IInv

LEMMA StepInv == IInv /\ [Next]_vars => IInv'
<1> SUFFICES ASSUME IInv, [Next]_vars PROVE IInv'
  OBVIOUS
<1>1. CASE UNCHANGED vars
  BY <1>1 DEF vars, guards, tools, output, IInv, TypeOK, ContractKept, Filed, RepairOnce, Looked
<1>2. ASSUME NEW text \in Texts, AnswerText(text) PROVE IInv'
  BY <1>2, AnswerTextInv
<1>3. ASSUME NEW text \in Texts, NEW calls \in Answers,
             SkipCalls(text, calls) \/ ReportInfeasible(text, calls) \/ RunCalls(text, calls)
      PROVE  IInv'
  <2>1. PICK n \in 1..MaxCalls : calls \in [1..n -> Calls]
    BY DEF Answers
  <2>2. n \in Nat
    BY LimitsAssumption
  <2> QED BY <1>3, <2>1, <2>2, SkipCallsInv, ReportInv, RunCallsInv
<1>4. CASE EndBatch \/ Exhausted \/ Break
  BY <1>4, EndBatchInv, ExhaustedInv, BreakInv
<1> QED BY <1>1, <1>2, <1>3, <1>4 DEF Next

(* The worker's counters, its file and its outcome keep their types. *)
THEOREM Invariance == Spec => []IInv
BY InitInv, StepInv, PTL DEF Spec

(* The contract of WorkerContract that the orchestrator's proofs assume: every
   outcome is one of Outcomes, a plan handed over is the one in the worker's
   file, and a worker that ends by itself hands over what it stored. *)
THEOREM KeepsContract == Spec => []ContractKept
<1>1. IInv => ContractKept
  BY DEF IInv
<1> QED BY <1>1, Invariance, PTL

(* _MAX_SAME_QUERY and _MAX_POI_RECOVERY bound what runs in answers that submit
   nothing, however many calls an answer has. *)
THEOREM BudgetsKept == Spec => []LookupsBounded
<1>1. IInv => LookupsBounded
  BY LookedBounded DEF IInv
<1> QED BY <1>1, Invariance, PTL

(* A worker asks the model at most max_iterations times and once more. *)
THEOREM RoundsKept == Spec => []RoundsBounded
<1>1. IInv => RoundsBounded
  BY DEF IInv, RepairOnce, RoundsBounded
<1> QED BY <1>1, Invariance, PTL
=============================================================================
