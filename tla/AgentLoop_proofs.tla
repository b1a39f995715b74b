-------------------------- MODULE AgentLoop_proofs --------------------------
(* For any queries, limits, answers of the model and number of runs: what the
   agent loop promises of its messages, tools, searches, cancels and steering
   messages. *)
EXTENDS AgentLoop, FoldLemmas

-----------------------------------------------------------------------------
(* Shapes *)

Levels == {"no_output", "partial_text", "partial_tool_call", "tools_read_only", "tools_with_writes"}
Turns == [attempt : 0..(MaxRetries + 1), text : {"none", "plain", "artifact"},
          calls : Seq(Calls), emitted : BOOLEAN]
Batches == [calls : Seq(Calls), at : Nat \ {0}, ready : Seq(Nat), saw : BOOLEAN,
            back : BOOLEAN, auto : BOOLEAN, progress : Levels]
Offers == (2..4) \X {"brief", "skeleton", "lock", "any"}

\* an iteration is begun only within the limit
Shape ==
  /\ pc \in {"idle", "top", "plan", "steer", "ask", "stream", "batch", "exec", "leave"}
  /\ plan \in Plans /\ offered \in Offers
  /\ recent \in Seq(Queries) /\ Len(recent) <= HistorySize
  /\ iter \in 0..MaxIterations /\ (pc = "steer" => iter < MaxIterations)
  /\ progress \in Levels /\ turn \in Turns /\ batch \in Batches
  /\ pc = "exec" => More
  /\ cancel \in BOOLEAN /\ queue \in 0..QueueSize
  /\ searched \in [Queries -> 0..3]

(* What the loop makes of a plan is a plan, and its tools an offer. *)
LEMMA PlansStay ==
  ASSUME NEW p \in Plans
  PROVE  /\ Synced(p) \in Plans /\ Synced(p).phase = p.phase
         /\ \A n \in 2..4 : [p EXCEPT !.phase = n] \in Plans /\ [p EXCEPT !.phase = n].phase = n
         /\ Inferred(p) \in 2..4
         /\ ToolsOf(p) \in Offers
         /\ \A call : call \in Calls => After(call, p) \subseteq Plans
<1>1. Synced(p) \in Plans /\ Synced(p).phase = p.phase
  BY DEF Synced, Step, Plans
<1>2. \A n \in 2..4 : [p EXCEPT !.phase = n] \in Plans /\ [p EXCEPT !.phase = n].phase = n
  BY DEF Plans
<1>3. Inferred(p) \in 2..4
  BY DEF Inferred
<1>4. ToolsOf(p) \in Offers
  BY DEF ToolsOf, Offers, Plans
<1>5. ASSUME NEW call \in Calls PROVE After(call, p) \subseteq Plans
  <2>1. Saved(p) \subseteq Plans
    <3>1. \A s \in {"short", "fits"} : [p EXCEPT !.skeleton = s] \in Plans
      BY DEF Plans
    <3>2. [p EXCEPT !.stay = TRUE] \in Plans
      BY DEF Plans
    <3>3. \A d \in {"some", "all"} : [p EXCEPT !.days = d] \in Plans
      BY DEF Plans
    <3> QED BY <3>1, <3>2, <3>3 DEF Saved
  <2>2. NoPlan \in Plans
    BY DEF NoPlan, Plans
  <2>3. call.tool = "commit_days" => call.arg \in {"some", "all"}
    BY DEF Calls, Search, Write, Refused, Backtrack, Call, Commit
  <2>4. call.tool = "commit_days" => [p EXCEPT !.days = call.arg] \in Plans
    BY <2>3 DEF Plans
  <2> QED BY <2>1, <2>2, <2>4 DEF After
<1> QED BY <1>1, <1>2, <1>3, <1>4, <1>5

(* What is kept of a history: its end, at most HistorySize long. *)
LEMMA Keeping ==
  ASSUME NEW h \in Seq(Queries)
  PROVE  /\ Latest(h) \in Seq(Queries) /\ Len(Latest(h)) <= HistorySize
         /\ Len(h) <= HistorySize => Latest(h) = h
         /\ Len(h) = HistorySize + 1 => Latest(h) = Tail(h)
         /\ Len(h) > HistorySize =>
              /\ Len(Latest(h)) = HistorySize
              /\ \A i \in 1..HistorySize : Latest(h)[i] = h[Len(h) - HistorySize + i]
<1> DEFINE n == Len(h)
           m == n - HistorySize + 1
           l == Latest(h)
<1>1. n \in Nat /\ HistorySize \in Nat \ {0}
  BY BoundsAssumption
<1>2. \A i \in 1..n : h[i] \in Queries
  OBVIOUS
<1>3. CASE n > HistorySize
  <2>1. l = SubSeq(h, m, n)
    BY <1>3 DEF Latest
  <2>2. SubSeq(h, m, n) = [i \in 1..(n - m + 1) |-> h[i + m - 1]]
    BY <1>1
  <2> HIDE DEF l, n
  <2>3. n - m + 1 = HistorySize /\ \A i \in 1..HistorySize : i + m - 1 = n - HistorySize + i
    BY <1>1
  <2> HIDE DEF m
  <2>4. l = [i \in 1..HistorySize |-> h[n - HistorySize + i]]
    BY <2>1, <2>2, <2>3
  <2>5. \A i \in 1..HistorySize : h[n - HistorySize + i] \in Queries
    <3>1. \A i \in 1..HistorySize : n - HistorySize + i \in 1..n
      BY <1>1, <1>3
    <3> QED BY <1>2, <3>1
  <2>6. l \in [1..HistorySize -> Queries]
    BY <2>4, <2>5
  <2>7. l \in Seq(Queries) /\ Len(l) = HistorySize
    BY <1>1, <2>6
  <2>8. n = HistorySize + 1 => l = Tail(h)
    <3>1. SUFFICES ASSUME n = HistorySize + 1 PROVE l = Tail(h)
      OBVIOUS
    <3> DEFINE t == Tail(h)
    <3>2. t \in Seq(Queries) /\ DOMAIN t = 1..(n - 1) /\ \A i \in 1..(n - 1) : t[i] = h[i + 1]
      BY <1>1, <3>1 DEF n
    <3> HIDE DEF t
    <3>3. t = [i \in 1..(n - 1) |-> t[i]]
      BY <3>2
    <3>4. n - 1 = HistorySize /\ \A i \in 1..HistorySize : n - HistorySize + i = i + 1
      BY <1>1, <3>1
    <3>5. t = [i \in 1..HistorySize |-> h[n - HistorySize + i]]
      BY <3>2, <3>3, <3>4
    <3> QED BY <2>4, <3>5 DEF t
  <2>9. Len(l) <= HistorySize /\ ~(n <= HistorySize)
    BY <1>1, <1>3, <2>7
  <2>10. \A i \in 1..HistorySize : l[i] = h[n - HistorySize + i]
    BY <2>4
  <2> QED BY <2>7, <2>8, <2>9, <2>10, Zenon DEF l, n
<1>4. CASE ~(n > HistorySize)
  <2>1. l = h
    BY <1>4 DEF Latest
  <2>2. n <= HistorySize /\ n # HistorySize + 1
    <3> HIDE DEF n
    <3> QED BY <1>1, <1>4
  <2> HIDE DEF l
  <2> QED BY <1>4, <2>1, <2>2, Zenon DEF l
<1> QED BY <1>3, <1>4

(* A search pushes out the oldest one when the history is full. *)
LEMMA Pushing ==
  ASSUME NEW history \in Seq(Queries), Len(history) <= HistorySize, NEW q \in Queries
  PROVE  /\ Pushed(history, q) \in Seq(Queries) /\ Len(Pushed(history, q)) <= HistorySize
         /\ Len(Pushed(history, q)) >= Len(history)
         /\ Len(Pushed(history, q)) < HistorySize => Pushed(history, q) = Append(history, q)
         /\ Pushed(history, q) \in {Append(history, q), Tail(Append(history, q))}
<1> DEFINE h == Append(history, q)
<1>1. h \in Seq(Queries) /\ Len(h) = Len(history) + 1 /\ Len(history) \in Nat /\ HistorySize \in Nat \ {0}
  BY BoundsAssumption
<1>2. Pushed(history, q) = IF Len(h) > HistorySize THEN Tail(h) ELSE h
  <2>1. Len(h) > HistorySize => Len(h) = HistorySize + 1
    BY <1>1
  <2>2. Pushed(history, q) = Latest(h)
    BY DEF Pushed
  <2> HIDE DEF h
  <2> QED BY <1>1, <2>1, <2>2, Keeping
<1> HIDE DEF h
<1>3. CASE Len(h) > HistorySize
  <2>1. Tail(h) \in Seq(Queries) /\ Len(Tail(h)) = Len(h) - 1
    BY <1>1, <1>3
  <2>2. Pushed(history, q) = Tail(h)
    BY <1>2, <1>3
  <2>3. Len(Tail(h)) = Len(history) /\ Len(Tail(h)) = HistorySize
    BY <1>1, <1>3, <2>1
  <2> QED BY <1>1, <2>1, <2>2, <2>3 DEF h
<1>4. CASE ~(Len(h) > HistorySize)
  BY <1>1, <1>2, <1>4 DEF h
<1> QED BY <1>3, <1>4

(* A call's query, if it is a search. *)
LEMMA SearchCalls ==
  ASSUME NEW call \in Calls, call.tool = "web_search"
  PROVE  call.arg \in Queries /\ call = Search(call.arg)
BY DEF Calls, Search, Write, Refused, Backtrack, Call, Commit

(* Remembering a query keeps the history a bounded list of queries that never shrinks. *)
LEMMA SeenTyped ==
  ASSUME NEW history \in Seq(Queries), Len(history) <= HistorySize, NEW call \in Calls
  PROVE  /\ Seen(call, history) \in Seq(Queries) /\ Len(Seen(call, history)) <= HistorySize
         /\ Len(Seen(call, history)) >= Len(history)
<1>1. CASE call.tool = "web_search"
  BY <1>1, SearchCalls, Pushing DEF Seen
<1>2. CASE call.tool # "web_search"
  BY <1>2 DEF Seen
<1> QED BY <1>1, <1>2

-----------------------------------------------------------------------------
(* The history of searches *)

(* One more element is one more occurrence of it. *)
LEMMA Occurring ==
  ASSUME NEW X, NEW h \in Seq(X), NEW e, NEW q
  PROVE  /\ Occurrences(h, q) \in Nat
         /\ Occurrences(Append(h, e), q) = Occurrences(h, q) + IF e = q THEN 1 ELSE 0
<1> DEFINE n == Len(h)
           At == {i \in DOMAIN h : h[i] = q}
           At2 == {i \in DOMAIN Append(h, e) : Append(h, e)[i] = q}
<1>1. n \in Nat /\ DOMAIN h = 1..n /\ DOMAIN Append(h, e) = 1..(n + 1)
  OBVIOUS
<1>2. \A i \in 1..(n + 1) : Append(h, e)[i] = IF i = n + 1 THEN e ELSE h[i]
  OBVIOUS
<1>3. IsFiniteSet(At)
  <2>1. IsFiniteSet(1..n) /\ At \subseteq 1..n
    BY <1>1, FS_Interval
  <2> QED BY <2>1, FS_Subset
<1>4. At2 = IF e = q THEN At \cup {n + 1} ELSE At
  <2> HIDE DEF n
  <2> QED BY <1>1, <1>2
<1>5. n + 1 \notin At
  BY <1>1
<1> HIDE DEF At, At2, n
<1>6. Cardinality(At) \in Nat /\ Cardinality(At \cup {n + 1}) = Cardinality(At) + 1
  BY <1>3, <1>5, FS_AddElement, FS_CardinalityType
<1>7. Cardinality(At2) = Cardinality(At) + IF e = q THEN 1 ELSE 0
  BY <1>4, <1>6
<1> QED BY <1>6, <1>7 DEF Occurrences, At, At2

(* While the history has not dropped any, it only grows. *)
LEMMA SeenGrows ==
  ASSUME NEW history \in Seq(Queries), Len(history) <= HistorySize, NEW call \in Calls,
         Len(Seen(call, history)) < HistorySize
  PROVE  /\ Len(history) < HistorySize
         /\ \A q \in Queries :
              /\ Occurrences(history, q) \in Nat /\ Occurrences(Seen(call, history), q) \in Nat
              /\ Occurrences(history, q) <= Occurrences(Seen(call, history), q)
<1> DEFINE seen == Seen(call, history)
<1>1. Len(history) \in Nat /\ HistorySize \in Nat
  BY BoundsAssumption
<1>2. CASE call.tool = "web_search"
  <2>1. call.arg \in Queries /\ seen = Pushed(history, call.arg)
    BY <1>2, SearchCalls DEF Seen
  <2>2. seen = Append(history, call.arg)
    BY <2>1, Pushing
  <2>3. Len(seen) = Len(history) + 1
    BY <2>2
  <2>4. \A q : /\ Occurrences(history, q) \in Nat
               /\ Occurrences(seen, q) = Occurrences(history, q) + IF call.arg = q THEN 1 ELSE 0
    BY <2>2, Occurring
  <2> HIDE DEF seen
  <2>5. Len(seen) < HistorySize
    BY DEF seen
  <2>6. Len(history) < HistorySize
    BY <1>1, <2>3, <2>5
  <2>7. \A q : /\ Occurrences(history, q) \in Nat /\ Occurrences(seen, q) \in Nat
               /\ Occurrences(history, q) <= Occurrences(seen, q)
    BY <2>4
  <2> QED BY <2>6, <2>7 DEF seen
<1>3. CASE call.tool # "web_search"
  <2>1. seen = history
    BY <1>3 DEF Seen
  <2>2. \A q : Occurrences(history, q) \in Nat
    BY Occurring
  <2> QED BY <2>1, <2>2
<1> QED BY <1>2, <1>3

\* the queries a group executes
Args(calls, group) == [i \in DOMAIN group |-> calls[group[i]].arg]

(* A group has one query per executed call. *)
LEMMA ArgsTyped ==
  ASSUME NEW calls, NEW group \in Seq(Nat)
  PROVE  /\ Args(calls, group) \in Seq({calls[j].arg : j \in Nat})
         /\ Len(Args(calls, group)) = Len(group)
<1> DEFINE X == {calls[j].arg : j \in Nat}
<1>1. Len(group) \in Nat /\ DOMAIN group = 1..Len(group)
  OBVIOUS
<1>2. \A i \in 1..Len(group) : calls[group[i]].arg \in X
  <2>1. \A i \in 1..Len(group) : group[i] \in Nat
    BY <1>1
  <2> QED BY <2>1
<1> HIDE DEF X
<1>3. Args(calls, group) \in [1..Len(group) -> X]
  BY <1>1, <1>2 DEF Args
<1>4. Args(calls, group) \in Seq(X) /\ Len(Args(calls, group)) = Len(group)
  BY <1>1, <1>3
<1> QED BY <1>4 DEF X

\* the scan looks at one more call, unless it has stopped
Look(acc, i, call) ==
  IF acc.stopped THEN acc
  ELSE LET go == ~Skipped(call, acc.seen) /\ ParallelRead(call)
       IN  [group |-> IF go THEN Append(acc.group, i) ELSE acc.group,
            seen |-> Seen(call, acc.seen),
            stopped |-> ~go]

Histories == {h \in Seq(Queries) : Len(h) <= HistorySize}
Scans == [group : Seq(Nat), seen : Histories, stopped : BOOLEAN]

\* searches counted up to here stay within two, and within what is remembered
Within(before, calls, acc) ==
  Len(acc.seen) < HistorySize =>
    /\ Len(before) < HistorySize
    /\ \A q \in Queries :
         /\ Occurrences(before, q) <= Occurrences(acc.seen, q)
         /\ \A c \in 0..2 : c <= Occurrences(before, q) =>
              /\ c + Occurrences(Args(calls, acc.group), q) <= 2
              /\ c + Occurrences(Args(calls, acc.group), q) <= Occurrences(acc.seen, q)

\* a scan whose group is empty was stopped by its first look
Begun(calls, at, before, acc, m) ==
  IF m = 0 THEN ~acc.stopped /\ acc.seen = before
  ELSE acc.group = <<>> =>
         /\ acc.stopped /\ acc.seen = Seen(calls[at], before)
         /\ Skipped(calls[at], before) \/ ~ParallelRead(calls[at])

\* what a scan that began at a call with a history found in m calls
Scanned(calls, at, before, acc, m) ==
  /\ acc \in Scans
  /\ Len(acc.group) <= m /\ (~acc.stopped => Len(acc.group) = m)
  /\ \A i \in DOMAIN acc.group :
       acc.group[i] = at + i - 1 /\ calls[acc.group[i]].tool = "web_search"
  /\ Within(before, calls, acc)
  /\ Begun(calls, at, before, acc, m)

(* A scan looks at one more call. *)
LEMMA LookTyped ==
  ASSUME NEW acc \in Scans, NEW i \in Nat, NEW call \in Calls
  PROVE  Look(acc, i, call) \in Scans
<1>1. acc.seen \in Seq(Queries) /\ Len(acc.seen) <= HistorySize /\ acc.group \in Seq(Nat)
  BY DEF Scans, Histories
<1>2. Seen(call, acc.seen) \in Histories
  BY <1>1, SeenTyped DEF Histories
<1>3. Append(acc.group, i) \in Seq(Nat)
  BY <1>1
<1> QED BY <1>1, <1>2, <1>3 DEF Look, Scans

(* One more look of the scan keeps the scan's fact. *)
LEMMA LookStep ==
  ASSUME NEW calls \in Seq(Calls), NEW at \in Nat \ {0}, NEW before \in Histories,
         NEW m \in Nat, NEW acc, Scanned(calls, at, before, acc, m), at + m \in DOMAIN calls
  PROVE  Scanned(calls, at, before, Look(acc, at + m, calls[at + m]), m + 1)
<1> DEFINE call == calls[at + m]
           seen == acc.seen
           new == Look(acc, at + m, call)
<1>1. call \in Calls /\ acc \in Scans /\ at + m \in Nat
  BY DEF Scanned
<1>2. seen \in Seq(Queries) /\ Len(seen) <= HistorySize /\ acc.group \in Seq(Nat) /\ Len(seen) \in Nat
  BY <1>1 DEF Scans, Histories
<1>3. new \in Scans
  BY <1>1, LookTyped
<1>0. Begun(calls, at, before, acc, m)
  BY DEF Scanned
<1> SUFFICES Scanned(calls, at, before, new, m + 1)
  OBVIOUS
<1>4. CASE acc.stopped
  <2>1. new = acc
    BY <1>4 DEF Look
  <2>2. Begun(calls, at, before, new, m + 1)
    BY <1>4, <1>0, <2>1 DEF Begun
  <2> QED BY <1>2, <1>4, <2>1, <2>2 DEF Scanned
<1>5. CASE ~acc.stopped /\ ~(~Skipped(call, seen) /\ ParallelRead(call))
  <2>1. new = [group |-> acc.group, seen |-> Seen(call, seen), stopped |-> TRUE]
    BY <1>5 DEF Look
  <2>2. new.group = acc.group /\ new.seen = Seen(call, seen) /\ new.stopped
    BY <2>1
  <2> HIDE DEF new
  <2>3. Len(new.seen) < HistorySize =>
          /\ Len(seen) < HistorySize
          /\ \A q \in Queries : Occurrences(seen, q) \in Nat /\ Occurrences(new.seen, q) \in Nat
                                /\ Occurrences(seen, q) <= Occurrences(new.seen, q)
    BY <1>1, <1>2, <2>2, SeenGrows DEF Histories
  <2>4. Within(before, calls, new)
    <3>1. SUFFICES ASSUME Len(new.seen) < HistorySize
                   PROVE /\ Len(before) < HistorySize
                         /\ \A q \in Queries :
                              /\ Occurrences(before, q) <= Occurrences(new.seen, q)
                              /\ \A c \in 0..2 : c <= Occurrences(before, q) =>
                                   /\ c + Occurrences(Args(calls, new.group), q) <= 2
                                   /\ c + Occurrences(Args(calls, new.group), q) <= Occurrences(new.seen, q)
      BY DEF Within
    <3>2. /\ Len(before) < HistorySize
          /\ \A q \in Queries :
               /\ Occurrences(before, q) <= Occurrences(seen, q)
               /\ \A c \in 0..2 : c <= Occurrences(before, q) =>
                    /\ c + Occurrences(Args(calls, acc.group), q) <= 2
                    /\ c + Occurrences(Args(calls, acc.group), q) <= Occurrences(seen, q)
      BY <2>3, <3>1 DEF Within, Scanned
    <3>3. \A q : Occurrences(before, q) \in Nat
      BY Occurring DEF Histories
    <3>4. \A q : Occurrences(Args(calls, acc.group), q) \in Nat
      <4>1. Args(calls, acc.group) \in Seq({calls[j].arg : j \in Nat})
        BY <1>2, ArgsTyped
      <4> QED BY <4>1, Occurring
    <3> QED BY <2>2, <2>3, <3>1, <3>2, <3>3, <3>4
  <2>5. Begun(calls, at, before, new, m + 1)
    <3>1. CASE m = 0
      <4>1. seen = before /\ call = calls[at]
        BY <1>0, <3>1 DEF Begun
      <4> HIDE DEF call, seen
      <4> QED BY <1>5, <2>2, <3>1, <4>1 DEF Begun
    <3>2. CASE m # 0
      BY <1>5, <1>0, <2>2, <3>2 DEF Begun
    <3> QED BY <3>1, <3>2
  <2> QED BY <1>2, <1>3, <2>2, <2>4, <2>5 DEF Scanned
<1>6. CASE ~acc.stopped /\ ~Skipped(call, seen) /\ ParallelRead(call)
  <2>1. new = [group |-> Append(acc.group, at + m), seen |-> Seen(call, seen), stopped |-> FALSE]
    BY <1>6 DEF Look
  <2>2. new.group = Append(acc.group, at + m) /\ new.seen = Seen(call, seen) /\ ~new.stopped
    BY <2>1
  <2> HIDE DEF new
  <2> DEFINE asked == call.arg
  <2>3. call.tool = "web_search" /\ asked \in Queries /\ new.seen = Pushed(seen, asked)
        /\ Occurrences(seen, asked) <= 1
    <3>1. call.tool = "web_search"
      BY <1>6 DEF ParallelRead
    <3>2. ~(Occurrences(seen, asked) >= 2)
      BY <1>6, <3>1 DEF Skipped, Redundant
    <3>3. Occurrences(seen, asked) \in Nat
      BY <1>2, Occurring
    <3> QED BY <1>1, <2>2, <3>1, <3>2, <3>3, SearchCalls DEF Seen
  <2>4. Len(acc.group) = m
    BY <1>6 DEF Scanned
  <2>5. Len(new.group) = m + 1 /\ DOMAIN new.group = 1..(m + 1) /\ DOMAIN acc.group = 1..m
    BY <1>2, <2>2, <2>4
  <2>6. \A i \in 1..(m + 1) : new.group[i] = IF i = m + 1 THEN at + m ELSE acc.group[i]
    BY <1>2, <2>2, <2>4
  <2>7. \A i \in DOMAIN new.group : new.group[i] = at + i - 1 /\ calls[new.group[i]].tool = "web_search"
    <3>1. \A i \in 1..m : acc.group[i] = at + i - 1 /\ calls[acc.group[i]].tool = "web_search"
      BY <2>5 DEF Scanned
    <3>2. at + (m + 1) - 1 = at + m
      OBVIOUS
    <3>3. ASSUME NEW i \in 1..(m + 1)
          PROVE  new.group[i] = at + i - 1 /\ calls[new.group[i]].tool = "web_search"
      <4>1. CASE i = m + 1
        BY <2>3, <2>6, <3>2, <4>1
      <4>2. CASE i # m + 1
        <5>1. i \in 1..m
          BY <4>2
        <5> QED BY <2>6, <3>1, <4>2, <5>1
      <4> QED BY <4>1, <4>2
    <3> QED BY <2>5, <3>3
  <2>8. Args(calls, new.group) = Append(Args(calls, acc.group), asked)
    <3> DEFINE X == {calls[j].arg : j \in Nat}
    <3>1. Args(calls, acc.group) \in Seq(X) /\ Len(Args(calls, acc.group)) = m
      BY <1>2, <2>4, ArgsTyped
    <3>2. asked \in X
      BY <1>1
    <3> DEFINE more == Append(Args(calls, acc.group), asked)
    <3>3. DOMAIN more = 1..(m + 1)
          /\ \A i \in 1..(m + 1) : more[i] = IF i = m + 1 THEN asked ELSE Args(calls, acc.group)[i]
      <4> HIDE DEF X, asked
      <4> QED BY <3>1, <3>2
    <3>4. ASSUME NEW i \in 1..(m + 1) PROVE more[i] = calls[new.group[i]].arg
      <4>1. CASE i = m + 1
        BY <2>6, <3>3, <4>1
      <4>2. CASE i # m + 1
        <5>1. i \in 1..m
          BY <4>2
        <5>2. Args(calls, acc.group)[i] = calls[acc.group[i]].arg
          BY <2>5, <5>1 DEF Args
        <5> QED BY <2>6, <3>3, <4>2, <5>2
      <4> QED BY <4>1, <4>2
    <3>5. \E Y : more \in Seq(Y)
      <4> HIDE DEF X, asked
      <4> QED BY <3>1, <3>2
    <3>6. more = [i \in 1..(m + 1) |-> more[i]]
      <4> HIDE DEF more
      <4> QED BY <3>3, <3>5
    <3> HIDE DEF more
    <3>7. more = [i \in 1..(m + 1) |-> calls[new.group[i]].arg]
      BY <3>4, <3>6
    <3> QED BY <2>5, <3>7 DEF Args, more
  <2>9. Within(before, calls, new)
    <3>1. SUFFICES ASSUME Len(new.seen) < HistorySize
                   PROVE /\ Len(before) < HistorySize
                         /\ \A q \in Queries :
                              /\ Occurrences(before, q) <= Occurrences(new.seen, q)
                              /\ \A c \in 0..2 : c <= Occurrences(before, q) =>
                                   /\ c + Occurrences(Args(calls, new.group), q) <= 2
                                   /\ c + Occurrences(Args(calls, new.group), q) <= Occurrences(new.seen, q)
      BY DEF Within
    <3>2. new.seen = Append(seen, asked) /\ Len(seen) < HistorySize
      <4>1. new.seen = Append(seen, asked)
        BY <1>2, <2>3, <3>1, Pushing
      <4>2. Len(new.seen) = Len(seen) + 1 /\ HistorySize \in Nat
        BY <1>2, <4>1, BoundsAssumption
      <4> QED BY <1>2, <3>1, <4>1, <4>2
    <3>3. /\ Len(before) < HistorySize
          /\ \A q \in Queries :
               /\ Occurrences(before, q) <= Occurrences(seen, q)
               /\ \A c \in 0..2 : c <= Occurrences(before, q) =>
                    /\ c + Occurrences(Args(calls, acc.group), q) <= 2
                    /\ c + Occurrences(Args(calls, acc.group), q) <= Occurrences(seen, q)
      BY <3>2 DEF Within, Scanned
    <3>4. \A q : /\ Occurrences(seen, q) \in Nat
                 /\ Occurrences(new.seen, q) = Occurrences(seen, q) + IF asked = q THEN 1 ELSE 0
      BY <1>2, <3>2, Occurring
    <3>5. \A q : /\ Occurrences(Args(calls, acc.group), q) \in Nat
                 /\ Occurrences(Args(calls, new.group), q)
                      = Occurrences(Args(calls, acc.group), q) + IF asked = q THEN 1 ELSE 0
      <4>1. Args(calls, acc.group) \in Seq({calls[j].arg : j \in Nat})
        BY <1>2, ArgsTyped
      <4> HIDE DEF asked
      <4> QED BY <2>8, <4>1, Occurring
    <3>6. \A q : Occurrences(before, q) \in Nat
      BY Occurring DEF Histories
    <3> HIDE DEF asked
    <3> QED BY <2>3, <3>3, <3>4, <3>5, <3>6
  <2>10. Begun(calls, at, before, new, m + 1)
    <3>1. new.group # <<>>
      BY <1>2, <2>5
    <3> QED BY <3>1 DEF Begun
  <2> QED BY <1>2, <1>3, <2>2, <2>5, <2>7, <2>9, <2>10 DEF Scanned
<1> QED BY <1>4, <1>5, <1>6

(* Two queries more, kept at once or one after the other. *)
LEMMA KeptInTwo ==
  ASSUME NEW h \in Seq(Queries), NEW q \in Queries
  PROVE  Pushed(Latest(h), q) = Latest(Append(h, q))
<1>1. Len(h) \in Nat /\ HistorySize \in Nat \ {0}
  BY BoundsAssumption
<1>2. CASE Len(h) <= HistorySize
  BY <1>2, Keeping DEF Pushed
<1>3. CASE Len(h) > HistorySize
  <2> DEFINE a == Latest(h)
             b == Append(a, q)
             c == Append(h, q)
  <2>1. a \in Seq(Queries) /\ Len(a) = HistorySize
        /\ \A i \in 1..HistorySize : a[i] = h[Len(h) - HistorySize + i]
    BY <1>3, Keeping
  <2> HIDE DEF a
  <2>2. /\ b \in Seq(Queries) /\ Len(b) = HistorySize + 1
        /\ \A i \in 1..(HistorySize + 1) : b[i] = IF i = HistorySize + 1 THEN q ELSE a[i]
    BY <1>1, <2>1
  <2>3. /\ c \in Seq(Queries) /\ Len(c) = Len(h) + 1
        /\ \A i \in 1..(Len(h) + 1) : c[i] = IF i = Len(h) + 1 THEN q ELSE h[i]
    BY <1>1
  <2> HIDE DEF b, c
  <2>4. Len(b) > HistorySize /\ Len(c) > HistorySize
    BY <1>1, <1>3, <2>2, <2>3
  <2>5. /\ Latest(b) \in Seq(Queries) /\ Len(Latest(b)) = HistorySize
        /\ Latest(c) \in Seq(Queries) /\ Len(Latest(c)) = HistorySize
        /\ \A i \in 1..HistorySize : /\ Latest(b)[i] = b[Len(b) - HistorySize + i]
                                     /\ Latest(c)[i] = c[Len(c) - HistorySize + i]
    BY <2>2, <2>3, <2>4, Keeping
  <2>6. ASSUME NEW i \in 1..HistorySize PROVE Latest(b)[i] = Latest(c)[i]
    <3>1. Latest(b)[i] = b[i + 1] /\ Latest(c)[i] = c[Len(h) - HistorySize + i + 1]
      <4>1. Len(b) - HistorySize + i = i + 1 /\ Len(c) - HistorySize + i = Len(h) - HistorySize + i + 1
        BY <1>1, <2>2, <2>3
      <4> QED BY <2>5, <4>1
    <3>2. i + 1 \in 1..(HistorySize + 1) /\ Len(h) - HistorySize + i + 1 \in 1..(Len(h) + 1)
      BY <1>1, <1>3
    <3>3. CASE i = HistorySize
      BY <1>1, <2>2, <2>3, <3>1, <3>2, <3>3
    <3>4. CASE i # HistorySize
      <4>1. b[i + 1] = a[i + 1] /\ i + 1 \in 1..HistorySize
        BY <1>1, <2>2, <3>2, <3>4
      <4>2. a[i + 1] = h[Len(h) - HistorySize + (i + 1)]
        BY <2>1, <4>1
      <4>3. c[Len(h) - HistorySize + i + 1] = h[Len(h) - HistorySize + i + 1]
        BY <1>1, <2>3, <3>2, <3>4
      <4>4. Len(h) - HistorySize + (i + 1) = Len(h) - HistorySize + i + 1
        BY <1>1
      <4> QED BY <3>1, <4>1, <4>2, <4>3, <4>4
    <3> QED BY <3>3, <3>4
  <2>7. Latest(b) = Latest(c)
    BY <2>5, <2>6
  <2> QED BY <2>7 DEF Pushed, a, b, c
<1> QED BY <1>1, <1>2, <1>3

\* the queries of n calls from one on, and a scan that took them all
Asked(calls, at, n) == [k \in 1..n |-> calls[at + k - 1].arg]
Taken(calls, at, before, n) ==
  [group |-> [k \in 1..n |-> at + k - 1], seen |-> Looked(calls, at, n, before), stopped |-> FALSE]

(* The elements of a sequence with one more. *)
LEMMA Appended ==
  ASSUME NEW X, NEW s \in Seq(X), NEW e \in X, NEW m \in Nat, Len(s) = m
  PROVE  Append(s, e) = [k \in 1..(m + 1) |-> IF k = m + 1 THEN e ELSE s[k]]
<1>1. Append(s, e) \in Seq(X) /\ DOMAIN Append(s, e) = 1..(m + 1)
  OBVIOUS
<1>2. \A k \in 1..(m + 1) : Append(s, e)[k] = IF k = m + 1 THEN e ELSE s[k]
  OBVIOUS
<1> DEFINE t == Append(s, e)
<1>3. t = [k \in 1..(m + 1) |-> t[k]]
  <2>1. t \in Seq(X) /\ DOMAIN t = 1..(m + 1)
    BY <1>1
  <2> HIDE DEF t
  <2> QED BY <2>1
<1> HIDE DEF t
<1> QED BY <1>2, <1>3 DEF t

(* Taking one more call is a look that does not stop. *)
LEMMA OneMoreTaken ==
  ASSUME NEW calls \in Seq(Calls), NEW at \in 1..Len(calls), NEW before \in Histories, NEW m \in Nat,
         Asked(calls, at, m) \in Seq(Queries), Joins(calls, at, m, before)
  PROVE  /\ Asked(calls, at, m + 1) \in Seq(Queries) /\ at + m \in DOMAIN calls
         /\ Taken(calls, at, before, m + 1) = Look(Taken(calls, at, before, m), at + m, calls[at + m])
<1> DEFINE call == calls[at + m]
           asked == call.arg
           A == Asked(calls, at, m)
           B == Asked(calls, at, m + 1)
           g == [k \in 1..m |-> at + k - 1]
           gg == [k \in 1..(m + 1) |-> at + k - 1]
           seen == Looked(calls, at, m, before)
<1>1. Len(calls) \in Nat /\ at \in Nat \ {0} /\ DOMAIN calls = 1..Len(calls)
  OBVIOUS
<1>2. at + m \in DOMAIN calls /\ ParallelRead(call) /\ ~Skipped(call, seen)
  BY <1>1 DEF Joins
<1>3. call \in Calls
  BY <1>2
<1>4. asked \in Queries /\ call.tool = "web_search"
  BY <1>2, <1>3, SearchCalls DEF ParallelRead
<1>5. B = Append(A, asked)
  <2>1. A \in Seq(Queries) /\ Len(A) = m
    BY DEF Asked
  <2>2. Append(A, asked) = [k \in 1..(m + 1) |-> IF k = m + 1 THEN asked ELSE A[k]]
    <3> HIDE DEF A, asked
    <3> QED BY <1>4, <2>1, Appended
  <2>3. \A k \in 1..(m + 1) : calls[at + k - 1].arg = IF k = m + 1 THEN asked ELSE A[k]
    <3>1. ASSUME NEW k \in 1..(m + 1), k # m + 1 PROVE A[k] = calls[at + k - 1].arg
      <4>1. k \in 1..m
        BY <3>1
      <4> QED BY <4>1 DEF Asked
    <3>2. at + (m + 1) - 1 = at + m
      BY <1>1
    <3> QED BY <3>1, <3>2
  <2>4. B = [k \in 1..(m + 1) |-> calls[at + k - 1].arg]
    BY DEF Asked
  <2> HIDE DEF A, B, asked
  <2> QED BY <2>2, <2>3, <2>4
<1>6. B \in Seq(Queries)
  <2> HIDE DEF A, B, asked
  <2> QED BY <1>4, <1>5 DEF A
<1>7. Looked(calls, at, m + 1, before) = Seen(call, seen)
  <2>1. Looked(calls, at, m + 1, before) = Latest(before \o B) /\ seen = Latest(before \o A)
    BY DEF Looked, Asked
  <2>2. before \in Seq(Queries)
    BY DEF Histories
  <2> HIDE DEF A, B, asked, seen
  <2>3. before \o B = Append(before \o A, asked) /\ before \o A \in Seq(Queries)
    <3>1. A \in Seq(Queries)
      BY DEF A
    <3> QED BY <1>4, <1>5, <2>2, <3>1
  <2>4. Latest(before \o B) = Pushed(seen, asked)
    BY <1>4, <2>1, <2>3, KeptInTwo
  <2> QED BY <1>4, <2>1, <2>4 DEF Seen, asked
<1>8. gg = Append(g, at + m)
  <2>1. \A k \in 1..m : at + k - 1 \in Nat
    BY <1>1
  <2>2. g \in [1..m -> Nat]
    BY <2>1
  <2>3. \A k \in 1..(m + 1) : at + k - 1 = IF k = m + 1 THEN at + m ELSE g[k]
    <3>1. at + (m + 1) - 1 = at + m
      BY <1>1
    <3>2. \A k \in 1..(m + 1) : k = m + 1 \/ k \in 1..m
      OBVIOUS
    <3>3. \A k \in 1..m : g[k] = at + k - 1
      OBVIOUS
    <3> HIDE DEF g
    <3> QED BY <3>1, <3>2, <3>3
  <2> HIDE DEF g
  <2>4. g \in Seq(Nat) /\ Len(g) = m
    BY <2>2
  <2>5. Append(g, at + m) = [k \in 1..(m + 1) |-> IF k = m + 1 THEN at + m ELSE g[k]]
    BY <1>1, <2>4, Appended
  <2> QED BY <2>3, <2>5
<1>9. Taken(calls, at, before, m).group = g /\ Taken(calls, at, before, m).seen = seen
      /\ ~Taken(calls, at, before, m).stopped
  BY DEF Taken
<1>10. Look(Taken(calls, at, before, m), at + m, call)
         = [group |-> Append(g, at + m), seen |-> Seen(call, seen), stopped |-> FALSE]
  <2> HIDE DEF g, seen, call
  <2> QED BY <1>2, <1>9 DEF Look
<1> QED BY <1>2, <1>6, <1>7, <1>8, <1>10 DEF Taken

(* A stopped scan stays what it is. *)
LEMMA StoppedStays ==
  ASSUME NEW calls, NEW at, NEW before, NEW acc, NEW m \in Nat \ {0}, NEW k \in Nat, k >= m,
         Scanned(calls, at, before, acc, m), acc.stopped
  PROVE  Scanned(calls, at, before, acc, k)
<1>1. Len(acc.group) \in Nat
  BY DEF Scanned, Scans
<1> QED BY <1>1 DEF Scanned, Begun

(* A whole scan, from a call of the batch to the call that stops it. *)
LEMMA Scanning ==
  ASSUME NEW calls \in Seq(Calls), NEW at \in 1..Len(calls), NEW before \in Histories
  PROVE  \E acc : /\ Scanned(calls, at, before, acc, Len(calls) - at + 1)
                  /\ acc.group = Scan(calls, at, before).group
                  /\ acc.seen = Scan(calls, at, before).seen
<1> DEFINE R == {k \in 0..Len(calls) : ~Joins(calls, at, k, before)}
           n == Min(R)
           seen == Looked(calls, at, n, before)
           all == Len(calls) - at + 1
<1>1. Len(calls) \in Nat /\ at \in Nat \ {0} /\ DOMAIN calls = 1..Len(calls) /\ all \in Nat
  OBVIOUS
<1>2. n \in R /\ \A k \in R : n <= k
  <2>1. R \in SUBSET Nat /\ Len(calls) \in R
    BY <1>1 DEF Joins
  <2>2. \E x \in R : \A y \in R : x <= y
    <3> HIDE DEF R
    <3> QED BY <2>1, LeastElement
  <2> HIDE DEF R
  <2> QED BY <2>2 DEF Min
<1>3. n \in Nat /\ n <= Len(calls) /\ ~Joins(calls, at, n, before)
  BY <1>1, <1>2
<1>4. \A k \in Nat : k < n => Joins(calls, at, k, before)
  <2> HIDE DEF n
  <2> QED BY <1>1, <1>2, <1>3
<1>5. Scan(calls, at, before)
        = [group |-> [k \in 1..n |-> at + k - 1],
           seen |-> IF at + n <= Len(calls) THEN Seen(calls[at + n], seen) ELSE seen]
  BY DEF Scan
<1> HIDE DEF R, n
<1> DEFINE Fine(k) == /\ Asked(calls, at, k) \in Seq(Queries)
                      /\ Scanned(calls, at, before, Taken(calls, at, before, k), k)
           T == {k \in Nat : k <= n => Fine(k)}
<1>6. 0 \in T
  <2>1. Asked(calls, at, 0) = <<>>
    BY DEF Asked
  <2>2. Looked(calls, at, 0, before) = before
    <3>1. before \in Seq(Queries) /\ Len(before) <= HistorySize
      BY DEF Histories
    <3>2. before \o <<>> = before
      BY <3>1
    <3>3. Latest(before) = before
      BY <3>1, Keeping
    <3>4. Looked(calls, at, 0, before) = Latest(before \o Asked(calls, at, 0))
      BY DEF Looked, Asked
    <3> QED BY <2>1, <3>2, <3>3, <3>4
  <2> DEFINE base == [group |-> <<>>, seen |-> before, stopped |-> FALSE]
  <2>3. Taken(calls, at, before, 0) = base
    <3>1. [k \in 1..0 |-> at + k - 1] = <<>>
      OBVIOUS
    <3> QED BY <2>2, <3>1 DEF Taken
  <2>4. base \in Scans /\ base.group = <<>> /\ base.seen = before /\ ~base.stopped
    BY DEF Scans
  <2> HIDE DEF base
  <2>5. Args(calls, <<>>) = <<>>
    BY DEF Args
  <2>6. \A x : Occurrences(<<>>, x) = 0
    BY FS_EmptySet DEF Occurrences
  <2>7. \A x : Occurrences(before, x) \in Nat
    BY Occurring DEF Histories
  <2>8. Within(before, calls, base)
    BY <2>4, <2>5, <2>6, <2>7 DEF Within
  <2>9. Scanned(calls, at, before, base, 0)
    BY <2>4, <2>8 DEF Scanned, Begun
  <2>10. Asked(calls, at, 0) \in Seq(Queries)
    <3>1. <<>> \in Seq(Queries)
      OBVIOUS
    <3> QED BY <2>1, <3>1
  <2>11. Fine(0)
    BY <2>3, <2>9, <2>10
  <2> HIDE DEF Fine
  <2> QED BY <2>11
<1>7. ASSUME NEW k \in T PROVE k + 1 \in T
  <2>1. SUFFICES ASSUME k + 1 <= n PROVE Fine(k + 1)
    OBVIOUS
  <2>2. k \in Nat /\ k < n /\ Fine(k)
    BY <1>3, <2>1
  <2>3. Joins(calls, at, k, before)
    BY <1>4, <2>2
  <2>4. /\ Asked(calls, at, k + 1) \in Seq(Queries) /\ at + k \in DOMAIN calls
        /\ Taken(calls, at, before, k + 1) = Look(Taken(calls, at, before, k), at + k, calls[at + k])
    BY <2>2, <2>3, OneMoreTaken
  <2>5. Scanned(calls, at, before, Look(Taken(calls, at, before, k), at + k, calls[at + k]), k + 1)
    BY <1>1, <2>2, <2>4, LookStep
  <2> QED BY <2>4, <2>5
<1>8. Fine(n)
  <2> HIDE DEF Fine
  <2>1. T = Nat
    BY <1>6, <1>7, AllNumbers
  <2> QED BY <1>3, <2>1
<1> DEFINE taken == Taken(calls, at, before, n)
<1>9. taken.group = [k \in 1..n |-> at + k - 1] /\ taken.seen = seen /\ ~taken.stopped
      /\ Scanned(calls, at, before, taken, n) /\ Len(taken.group) = n
  BY <1>3, <1>8 DEF Taken
<1> HIDE DEF taken, Fine
<1>10. CASE at + n <= Len(calls)
  <2> DEFINE call == calls[at + n]
             acc == Look(taken, at + n, call)
  <2>1. at + n \in DOMAIN calls
    BY <1>1, <1>3, <1>10
  <2>2. Skipped(call, seen) \/ ~ParallelRead(call)
    BY <1>3, <1>10 DEF Joins
  <2>3. acc = [group |-> taken.group, seen |-> Seen(call, seen), stopped |-> TRUE]
    <3> HIDE DEF call, seen
    <3> QED BY <1>9, <2>2 DEF Look
  <2>4. Scanned(calls, at, before, acc, n + 1)
    BY <1>1, <1>3, <1>9, <2>1, LookStep
  <2>5. acc.group = taken.group /\ acc.seen = Seen(call, seen) /\ acc.stopped
    BY <2>3
  <2> HIDE DEF acc
  <2>6. Scanned(calls, at, before, acc, all)
    <3>1. n + 1 \in Nat \ {0} /\ all >= n + 1
      BY <1>1, <1>3, <1>10
    <3> HIDE DEF all
    <3> QED BY <1>1, <2>4, <2>5, <3>1, StoppedStays
  <2>7. /\ Scan(calls, at, before).group = taken.group
        /\ Scan(calls, at, before).seen = Seen(call, seen)
    <3> HIDE DEF call, seen
    <3>1. Scan(calls, at, before) = [group |-> taken.group, seen |-> Seen(call, seen)]
      BY <1>5, <1>9, <1>10 DEF call, seen
    <3> QED BY <3>1
  <2> HIDE DEF call, seen
  <2> QED BY <2>5, <2>6, <2>7
<1>11. CASE ~(at + n <= Len(calls))
  <2>1. n = all
    <3>1. n = 0 \/ Joins(calls, at, n - 1, before)
      BY <1>3, <1>4
    <3>2. n = 0 \/ at + (n - 1) <= Len(calls)
      BY <3>1 DEF Joins
    <3> QED BY <1>1, <1>3, <1>11, <3>2
  <2>2. Scan(calls, at, before).group = taken.group /\ Scan(calls, at, before).seen = taken.seen
    <3> HIDE DEF seen
    <3>1. Scan(calls, at, before) = [group |-> taken.group, seen |-> taken.seen]
      BY <1>5, <1>9, <1>11 DEF seen
    <3> QED BY <3>1
  <2>3. Scanned(calls, at, before, taken, all)
    BY <1>9, <2>1
  <2> QED BY <2>2, <2>3
<1> QED BY <1>10, <1>11

-----------------------------------------------------------------------------
(* The shapes are kept *)

(* Between batches there is no batch, between runs nothing of a run. *)
LEMMA Blank ==
  /\ NoTurn \in Turns /\ NoBatch \in Batches
  /\ HistorySize \in Nat \ {0} /\ MaxIterations \in Nat \ {0} /\ QueueSize \in Nat \ {0} /\ MaxRetries \in Nat
<1>1. <<>> \in Seq(Calls) /\ <<>> \in Seq(Nat)
  OBVIOUS
<1>2. HistorySize \in Nat \ {0} /\ MaxIterations \in Nat \ {0} /\ QueueSize \in Nat \ {0} /\ MaxRetries \in Nat
  BY BoundsAssumption
<1>3. NoTurn \in Turns
  BY <1>1, <1>2 DEF NoTurn, Turns
<1>4. NoBatch \in Batches
  BY <1>1 DEF NoBatch, Batches, Levels
<1> QED BY <1>2, <1>3, <1>4

LEMMA CloseShape == ASSUME Shape, NEW offer, Close(offer) PROVE Shape'
<1>1. /\ pc' = "idle" /\ queue' = 0 /\ turn' = NoTurn /\ batch' = NoBatch /\ iter' = 0
      /\ progress' = "no_output" /\ cancel' = FALSE
      /\ UNCHANGED <<plan, offered, recent, runs, searched>>
  BY DEF Close, AckQueue
<1>2. 0 \in 0..MaxIterations /\ 0 \in 0..QueueSize
  BY Blank
<1>3. turn' \in Turns /\ batch' \in Batches /\ progress' \in Levels
  BY <1>1, Blank DEF Levels
<1> QED BY <1>1, <1>2, <1>3 DEF Shape

\* a batch of these calls is one
LEMMA BatchShape ==
  ASSUME Shape, NEW calls \in Seq(Calls), NEW auto \in BOOLEAN
  PROVE  BatchOf(calls, auto) \in Batches
BY Blank DEF BatchOf, Shape, Batches, NoBatch

(* Requests of the client. *)
LEMMA ClientShape ==
  ASSUME Shape, Chat \/ Continue \/ Cancel \/ Steer \/ TimeOut \/ Disconnect
  PROVE  Shape'
<1>1. CASE Chat \/ Continue
  <2>1. plan' \in Plans /\ offered' \in Offers
    BY <1>1, PlansStay DEF Chat, Continue, Shape
  <2>2. /\ pc' = "top" /\ queue' = 0 /\ turn' = NoTurn /\ batch' = NoBatch /\ iter' = 0
        /\ progress' = "no_output" /\ cancel' = FALSE
        /\ UNCHANGED <<messages, recent, owed, searched, late>>
    BY <1>1 DEF Chat, Continue, StartRun
  <2>3. 0 \in 0..MaxIterations /\ 0 \in 0..QueueSize
    BY Blank
  <2>4. turn' \in Turns /\ batch' \in Batches /\ progress' \in Levels
    BY <2>2, Blank DEF Levels
  <2> QED BY <2>1, <2>2, <2>3, <2>4 DEF Shape
<1>2. CASE Cancel
  BY <1>2 DEF Cancel, Shape, session, loop, More
<1>3. CASE Steer
  <2>1. queue' \in 0..QueueSize
    BY <1>3, Blank DEF Steer, Shape
  <2> QED BY <1>3, <2>1 DEF Steer, Shape, session, loop, More
<1>4. CASE TimeOut \/ Disconnect
  BY <1>4, CloseShape DEF TimeOut, Disconnect
<1> QED BY <1>1, <1>2, <1>3, <1>4

(* From the top of an iteration to the end of the answer. *)
LEMMA TurnShape ==
  ASSUME Shape,
         \/ RunPhase3 \/ HandOver \/ EnterIteration \/ DrainSteering \/ Ask \/ ReceiveText \/ ReceiveCalls
         \/ ConnectionFails \/ StreamFails \/ StreamCancelled \/ EndTurn \/ Leave
  PROVE  Shape'
<1>0. CASE RunPhase3
  BY <1>0 DEF RunPhase3, Shape, session, control, loop
<1>1. CASE HandOver
  <2>1. CASE Finish
    BY <2>1, CloseShape DEF Finish
  <2>2. ASSUME NEW days \in {"some", "all"},
               StartBatch(IF days = "all" THEN <<Commit(days)>>
                          ELSE <<Commit(days), Commit(days)>>, TRUE),
               AckQueue,
               UNCHANGED <<plan, offered, recent, resume, cancel, iter, hints,
                           progress, turn, runs, terms, searched, late>>
        PROVE  Shape'
    <3>1. Commit(days) \in Calls
      BY DEF Calls
    <3>2. PICK calls \in Seq(Calls) : StartBatch(calls, TRUE)
      <4>1. <<Commit(days)>> \in Seq(Calls) /\ <<Commit(days), Commit(days)>> \in Seq(Calls)
        BY <3>1
      <4> QED BY <2>2, <4>1
    <3>3. batch' \in Batches /\ pc' = "batch"
      BY <3>2, BatchShape DEF StartBatch
    <3> QED BY <2>2, <3>3, Blank DEF Shape, AckQueue
  <2> QED BY <1>1, <2>1, <2>2 DEF HandOver
<1>2. CASE EnterIteration
  <2>1. CASE Finish
    BY <2>1, CloseShape DEF Finish
  <2>2. CASE iter # MaxIterations /\ pc' = "steer" /\ UNCHANGED <<session, control, loop, runs, terms, searched, late>>
    BY <2>2, Blank DEF Shape, session, control, loop
  <2> QED BY <1>2, <2>1, <2>2 DEF EnterIteration
<1>3. CASE DrainSteering
  <2>1. CASE StopCancelled
    BY <2>1, CloseShape DEF StopCancelled
  <2>2. CASE ~StopCancelled
    <3>1. /\ pc = "steer" /\ AckQueue /\ pc' = "ask" /\ iter' = iter + 1 /\ progress' = "no_output"
          /\ UNCHANGED <<plan, offered, recent, resume, hints, turn, batch,
                         cancel, runs, terms, searched, late>>
      BY <1>3, <2>2 DEF DrainSteering
    <3> QED BY <3>1, Blank DEF Shape, AckQueue, Levels
  <2> QED BY <2>1, <2>2
<1>4. CASE Ask
  <2>1. turn' \in Turns
    <3>1. turn' = [NoTurn EXCEPT !.attempt = 1] /\ 1 \in 0..(MaxRetries + 1)
      BY <1>4, Blank DEF Ask
    <3> QED BY <3>1, Blank DEF Turns
  <2> QED BY <1>4, <2>1 DEF Ask, Shape, control
<1>5. CASE ReceiveText \/ ReceiveCalls
  <2>1. pc = "stream" /\ UNCHANGED <<pc, session, control, iter, hints, batch, runs, terms, searched, late>>
    BY <1>5 DEF ReceiveText, ReceiveCalls, Receive
  <2>2. progress' \in Levels
    BY <1>5 DEF ReceiveText, ReceiveCalls, Receive, Shape, Levels
  <2>3. turn' \in Turns
    <3>1. CASE ReceiveText
      BY <3>1 DEF ReceiveText, Receive, Shape, Turns
    <3>2. CASE ReceiveCalls
      <4>1. PICK calls \in Answers : turn' = [turn EXCEPT !.calls = @ \o calls, !.emitted = TRUE]
        BY <3>2 DEF ReceiveCalls, Receive
      <4>2. turn.calls \in Seq(Calls) /\ calls \in Seq(Calls)
        BY AnswersAssumption DEF Shape, Turns
      <4>3. turn.calls \o calls \in Seq(Calls)
        BY <4>2
      <4> QED BY <4>1, <4>3 DEF Shape, Turns
    <3> QED BY <1>5, <3>1, <3>2
  <2> QED BY <2>1, <2>2, <2>3 DEF Shape, session, control
<1>6. CASE ConnectionFails
  <2>1. CASE Retry
    <3>1. turn' = [turn EXCEPT !.attempt = @ + 1, !.emitted = FALSE]
          /\ UNCHANGED <<pc, session, control, iter, hints, progress, batch, runs, terms, searched>>
          /\ pc = "stream"
      BY <1>6, <2>1 DEF ConnectionFails
    <3>2. turn.attempt \in 0..(MaxRetries + 1) /\ turn.attempt <= MaxRetries
      BY <2>1 DEF Retry, Shape, Turns
    <3>3. turn' \in Turns
      <4>1. turn.attempt + 1 \in 0..(MaxRetries + 1)
        BY <3>2, Blank
      <4> QED BY <3>1, <4>1 DEF Shape, Turns
    <3> QED BY <3>1, <3>3 DEF Shape, session, control
  <2>2. CASE ~Retry
    BY <1>6, <2>2, CloseShape DEF ConnectionFails, StopFailed
  <2> QED BY <2>1, <2>2
<1>7. CASE StreamFails \/ StreamCancelled \/ Leave
  BY <1>7, CloseShape DEF StreamFails, StreamCancelled, Leave, StopFailed, StopCancelled, Finish
<1>8. CASE EndTurn
  <2>1. CASE turn.calls # <<>>
    <3>1. StartBatch(turn.calls, FALSE) /\ turn' = NoTurn
          /\ UNCHANGED <<plan, offered, recent, resume, control, iter, hints,
                         progress, runs, terms, searched, late>>
      BY <1>8, <2>1 DEF EndTurn
    <3>2. turn.calls \in Seq(Calls)
      BY DEF Shape, Turns
    <3>3. batch' \in Batches /\ pc' = "batch"
      BY <3>1, <3>2, BatchShape DEF StartBatch
    <3> QED BY <3>1, <3>3, Blank DEF Shape, control
  <2>2. CASE Finish
    BY <2>2, CloseShape DEF Finish
  <2>3. CASE turn.calls = <<>> /\ HintKeys # {}
    <3>1. pc' = "top" /\ UNCHANGED <<plan, offered, recent, resume, control, iter,
                         progress, turn, batch, runs, terms, searched, late>>
      BY <1>8, <2>3 DEF EndTurn
    <3> QED BY <3>1 DEF Shape, control
  <2> QED BY <1>8, <2>1, <2>2, <2>3 DEF EndTurn
<1> QED BY <1>0, <1>1, <1>2, <1>3, <1>4, <1>5, <1>6, <1>7, <1>8

(* The counter of executions stops at three. *)
LEMMA UpToThree == ASSUME NEW x \in Nat PROVE Min({3, x}) = (IF x <= 3 THEN x ELSE 3) /\ Min({3, x}) \in 0..3
<1>1. \E m \in {3, x} : \A y \in {3, x} : m <= y
  OBVIOUS
<1>2. Min({3, x}) \in {3, x} /\ \A y \in {3, x} : Min({3, x}) <= y
  BY <1>1 DEF Min
<1> QED BY <1>2

(* What a parallel group does: its calls are those of a scan. *)
LEMMA Reading ==
  ASSUME Shape, ReadGroup
  PROVE  /\ Current \in Calls /\ Seen(Current, recent) \in Histories
         /\ batch.at \in 1..Len(batch.calls) /\ batch.ready = <<>> /\ Len(batch.calls) \in Nat
         /\ \E scan :
              /\ Scanned(batch.calls, batch.at, Seen(Current, recent), scan, Len(batch.calls) - batch.at + 1)
              /\ recent' = scan.seen
              /\ \A q \in Queries :
                   searched'[q] = Min({3, searched[q] + Occurrences(Args(batch.calls, scan.group), q)})
              /\ searched' \in [Queries -> 0..3]
              /\ batch' = [batch EXCEPT !.ready = scan.group, !.at = @ + Len(scan.group)]
<1>1. batch \in Batches /\ batch.calls \in Seq(Calls) /\ batch.at \in Nat \ {0} /\ Len(batch.calls) \in Nat
  BY DEF Shape, Batches
<1>2. More
  BY DEF ReadGroup
<1>3. batch.at \in 1..Len(batch.calls) /\ batch.ready = <<>>
  BY <1>1, <1>2 DEF More
<1>4. Current \in Calls
  BY <1>1, <1>3 DEF Current
<1>5. Seen(Current, recent) \in Histories
  BY <1>4, SeenTyped DEF Histories, Shape
<1>6. PICK scan :
        /\ Scanned(batch.calls, batch.at, Seen(Current, recent), scan, Len(batch.calls) - batch.at + 1)
        /\ scan.group = Scan(batch.calls, batch.at, Seen(Current, recent)).group
        /\ scan.seen = Scan(batch.calls, batch.at, Seen(Current, recent)).seen
  BY <1>1, <1>3, <1>5, Scanning
<1>7. /\ recent' = scan.seen
      /\ searched' = [q \in Queries |-> Min({3, searched[q] + Occurrences(Args(batch.calls, scan.group), q)})]
      /\ batch' = [batch EXCEPT !.ready = scan.group, !.at = @ + Len(scan.group)]
  BY <1>6 DEF ReadGroup, Args
<1>8. scan.group \in Seq(Nat)
  BY <1>6 DEF Scanned, Scans
<1>9. ASSUME NEW q \in Queries
      PROVE  Min({3, searched[q] + Occurrences(Args(batch.calls, scan.group), q)}) \in 0..3
  <2>1. Occurrences(Args(batch.calls, scan.group), q) \in Nat
    BY <1>8, ArgsTyped, Occurring
  <2>2. searched[q] \in Nat
    BY DEF Shape
  <2> QED BY <2>1, <2>2, UpToThree
<1>10. searched' \in [Queries -> 0..3]
  BY <1>7, <1>9
<1> QED BY <1>1, <1>3, <1>4, <1>5, <1>6, <1>7, <1>10

(* What settling a batch does: the plan stays one, and the tools are those of
   the plan unless the messages are kept. *)
LEMMA Settling ==
  ASSUME Shape, Settle
  PROVE  /\ plan' \in Plans /\ offered' \in Offers
         /\ \/ offered' = ToolsOf(plan') /\ messages' = <<>>
            \/ /\ ~batch.back /\ UNCHANGED <<offered, messages>>
               /\ plan'.phase = plan.phase
               /\ batch.auto \/ plan'.step = plan.step
<1> DEFINE synced == IF batch.saw THEN Synced(plan) ELSE plan
           on == [synced EXCEPT !.phase = Inferred(plan)]
           moved == Synced(on)
<1>1. synced \in Plans /\ synced.phase = plan.phase
  BY PlansStay DEF Shape
<1>2. on \in Plans
  BY <1>1, PlansStay DEF Shape
<1>3. moved \in Plans
  BY <1>2, PlansStay
<1>4. \/ batch.back /\ Rebuilt(plan)
      \/ ~batch.back /\ Rebuilt(moved)
      \/ ~batch.back /\ synced.step # plan.step /\ ~batch.auto /\ Rebuilt(synced)
      \/ ~batch.back /\ ~(synced.step # plan.step /\ ~batch.auto) /\ Kept(synced)
  BY DEF Settle
<1> HIDE DEF synced, moved
<1>5. ASSUME NEW p \in Plans, Rebuilt(p)
      PROVE  plan' \in Plans /\ offered' \in Offers
             /\ offered' = ToolsOf(plan') /\ messages' = <<>>
  BY <1>5, PlansStay DEF Rebuilt
<1>6. plan \in Plans /\ offered \in Offers /\ batch \in Batches
  BY DEF Shape
<1>7. CASE ~batch.back /\ ~(synced.step # plan.step /\ ~batch.auto) /\ Kept(synced)
  <2>1. plan' = synced /\ UNCHANGED <<offered, messages>>
    BY <1>7 DEF Kept
  <2> QED BY <1>1, <1>6, <1>7, <2>1
<1> QED BY <1>1, <1>3, <1>4, <1>5, <1>6, <1>7

(* The steps of a batch. *)
LEMMA BatchStepShape ==
  ASSUME Shape,
         \/ ReadGroup \/ AnswerRead \/ AnswerSkipped \/ StartCall \/ ExecuteCall
         \/ EndBatch \/ EndCommit
  PROVE  Shape'
<1>0. /\ batch \in Batches /\ batch.calls \in Seq(Calls) /\ batch.at \in Nat \ {0} /\ Len(batch.calls) \in Nat
      /\ batch.ready \in Seq(Nat) /\ batch.progress \in Levels
  BY DEF Shape, Batches
<1>1. CASE ReadGroup
  <2>1. PICK scan :
              /\ Scanned(batch.calls, batch.at, Seen(Current, recent), scan, Len(batch.calls) - batch.at + 1)
              /\ recent' = scan.seen
              /\ searched' \in [Queries -> 0..3]
              /\ batch' = [batch EXCEPT !.ready = scan.group, !.at = @ + Len(scan.group)]
    BY <1>1, Reading
  <2>2. scan.seen \in Seq(Queries) /\ Len(scan.seen) <= HistorySize /\ scan.group \in Seq(Nat)
    BY <2>1 DEF Scanned, Scans, Histories
  <2>3. batch.at + Len(scan.group) \in Nat \ {0}
    BY <1>0, <2>2
  <2>4. batch' \in Batches
    BY <1>0, <2>1, <2>2, <2>3 DEF Batches
  <2>5. pc = "batch" /\ UNCHANGED <<pc, plan, offered, messages, resume, control, iter, hints,
                 progress, turn, runs, terms>>
    BY <1>1 DEF ReadGroup
  <2> QED BY <2>1, <2>2, <2>4, <2>5 DEF Shape, control
<1>2. CASE AnswerRead
  <2>1. batch.ready # <<>> /\ batch' = [batch EXCEPT !.ready = Tail(@), !.progress = AfterRead(@)]
    BY <1>2 DEF AnswerRead
  <2>2. Tail(batch.ready) \in Seq(Nat)
    BY <1>0, <2>1
  <2>3. AfterRead(batch.progress) \in Levels
    BY DEF AfterRead, Levels
  <2>4. batch' \in Batches
    BY <1>0, <2>1, <2>2, <2>3 DEF Batches
  <2> QED BY <1>2, <2>4 DEF AnswerRead, Shape, control
<1>3. ASSUME More PROVE /\ Current \in Calls
                        /\ \A x : Progressed(Current, x) \in Levels
                        /\ Seen(Current, recent) \in Histories
                        /\ batch.at + 1 \in Nat \ {0}
  <2>1. batch.at \in DOMAIN batch.calls
    BY <1>0, <1>3 DEF More
  <2>2. Current \in Calls
    BY <1>0, <2>1 DEF Current
  <2> QED BY <1>0, <2>2, SeenTyped DEF Progressed, AfterRead, Levels, Shape, Histories
<1>4. CASE AnswerSkipped
  <2>1. /\ recent' = Seen(Current, recent)
        /\ batch' = [batch EXCEPT !.at = @ + 1, !.progress = Progressed(Current, @)]
        /\ More /\ pc = "batch"
        /\ UNCHANGED <<pc, plan, offered, resume, control, iter, hints, progress,
                 turn, runs, terms, searched, late>>
    BY <1>4 DEF AnswerSkipped
  <2>2. batch' \in Batches
    BY <1>0, <1>3, <2>1 DEF Batches
  <2>3. recent' \in Seq(Queries) /\ Len(recent') <= HistorySize
    BY <1>3, <2>1 DEF Histories
  <2> QED BY <2>1, <2>2, <2>3 DEF Shape, control
<1>5. CASE StartCall
  <2>1. CASE StopCancelled
    BY <2>1, CloseShape DEF StopCancelled
  <2>2. CASE More /\ pc' = "exec" /\ UNCHANGED <<session, control, loop, runs, terms, searched, late>>
    BY <2>2 DEF Shape, session, control, loop, More
  <2> QED BY <1>5, <2>1, <2>2 DEF StartCall
<1>6. CASE ExecuteCall
  <2>1. More
    BY <1>6 DEF ExecuteCall, Shape
  <2> DEFINE done == [batch EXCEPT !.at = @ + 1, !.progress = Progressed(Current, @)]
  <2>2. done \in Batches
    BY <1>0, <1>3, <2>1 DEF Batches
  <2>3. plan' \in Plans /\ batch' \in Batches
    <3>1. \/ batch' = done /\ plan' = plan
          \/ /\ plan' \in After(Current, plan)
             /\ batch' = [done EXCEPT !.saw = TRUE, !.back = Current.tool = "request_backtrack"]
      BY <1>6 DEF ExecuteCall
    <3>2. After(Current, plan) \subseteq Plans
      BY <1>3, <2>1, PlansStay DEF Shape
    <3> HIDE DEF done
    <3>3. [done EXCEPT !.saw = TRUE, !.back = Current.tool = "request_backtrack"] \in Batches
      BY <2>2 DEF Batches
    <3> QED BY <2>2, <3>1, <3>2, <3>3 DEF Shape
  <2>4. pc' = "batch" /\ UNCHANGED <<offered, recent, resume, control, iter, hints, progress,
                 turn, runs, terms, searched>>
    BY <1>6 DEF ExecuteCall
  <2> QED BY <2>3, <2>4 DEF Shape, control
<1>7. CASE EndBatch
  <2>1. plan' \in Plans /\ offered' \in Offers
    BY <1>7, Settling DEF EndBatch
  <2>2. /\ progress' = batch.progress /\ batch' = NoBatch /\ turn' = NoTurn /\ pc' = "top"
        /\ UNCHANGED <<recent, resume, control, iter, hints, runs, terms, searched, late>>
    BY <1>7 DEF EndBatch
  <2> QED BY <1>0, <2>1, <2>2, Blank DEF Shape, control
<1>8. CASE EndCommit
  <2>1. CASE ~batch.saw
    BY <1>8, <2>1, CloseShape DEF EndCommit, Finish
  <2>2. CASE batch.saw
    <3>1. /\ Settle /\ progress' = batch.progress /\ batch' = NoBatch /\ turn' = NoTurn
          /\ pc' = (IF plan'.phase = 4 /\ iter < MaxIterations THEN "steer" ELSE "leave")
          /\ UNCHANGED <<recent, resume, control, iter, hints, runs, terms, searched, late>>
      BY <1>8, <2>2 DEF EndCommit
    <3>2. plan' \in Plans /\ offered' \in Offers
      BY <3>1, Settling
    <3>3. pc' \in {"steer", "leave"} /\ (pc' = "steer" => iter < MaxIterations)
      BY <3>1
    <3> QED BY <1>0, <3>1, <3>2, <3>3, Blank DEF Shape, control
  <2> QED BY <2>1, <2>2
<1> QED BY <1>1, <1>2, <1>4, <1>5, <1>6, <1>7, <1>8

(* Every step keeps the shapes. *)
LEMMA ShapeKept == ASSUME Shape, [Next]_vars PROVE Shape'
<1>1. CASE UNCHANGED vars
  BY <1>1 DEF vars, Shape, session, control, loop, More
<1>2. CASE Next
  BY <1>2, ClientShape, TurnShape, BatchStepShape DEF Next, Work
<1> QED BY <1>1, <1>2

LEMMA InitShape == Init => Shape
<1> SUFFICES ASSUME Init PROVE Shape
  OBVIOUS
<1>1. plan \in Plans /\ offered \in Offers
  BY RestoredAssumption, PlansStay DEF Init
<1>2. 0 \in 0..MaxIterations /\ 0 \in 0..QueueSize /\ <<>> \in Seq(Queries) /\ Len(<<>>) <= HistorySize
  BY Blank
<1>3. /\ pc = "idle" /\ recent = <<>> /\ iter = 0 /\ progress = "no_output" /\ turn = NoTurn
      /\ batch = NoBatch /\ cancel = FALSE /\ queue = 0 /\ searched = [q \in Queries |-> 0]
  BY DEF Init
<1>4. turn \in Turns /\ batch \in Batches /\ progress \in Levels /\ searched \in [Queries -> 0..3]
  BY <1>3, Blank DEF Levels
<1> QED BY <1>1, <1>2, <1>3, <1>4 DEF Shape

-----------------------------------------------------------------------------
(* Steering, cancelling, tools *)

\* Nothing begins after a cancel but what does not look at it.  The loop comes
\* to "ask" and to "exec" only by a look, and from a planning never to its top.
CancelInv ==
  /\ late \in [requests : Nat, calls : {0, 1}, reads : Nat, plannings : {0, 1}]
  /\ ~cancel \/ pc \in {"idle", "ask", "exec"} => late = Nothing
  /\ late.requests > 0 => pc = "stream" /\ late.requests <= turn.attempt
  /\ pc = "stream" => late.calls = 0 /\ late.reads = 0 /\ late.plannings = 0
  /\ late.plannings > 0 => pc \in {"plan", "steer", "leave"} \/ (pc = "batch" /\ batch.auto)

(* What is accepted is in the queue until it is acknowledged. *)
LEMMA SteersKept == ASSUME Shape, SteersAnswered, [Next]_vars PROVE SteersAnswered'
<1>1. queue \in Nat /\ owed = queue
  BY DEF Shape, SteersAnswered
<1>2. CASE AckQueue
  BY <1>1, <1>2 DEF AckQueue, SteersAnswered
<1>3. ASSUME NEW offer, Close(offer) PROVE SteersAnswered'
  BY <1>2, <1>3 DEF Close
<1>4. CASE UNCHANGED <<queue, owed>> /\ pc' # "idle"
  BY <1>1, <1>4 DEF SteersAnswered
<1>5. CASE UNCHANGED vars
  BY <1>5 DEF SteersAnswered, vars, control
<1>6. CASE Chat \/ Continue
  BY <1>1, <1>6 DEF Chat, Continue, StartRun, SteersAnswered
<1>7. CASE Cancel \/ Steer
  BY <1>1, <1>7 DEF Cancel, Steer, SteersAnswered
<1>8. CASE TimeOut \/ Disconnect
  BY <1>3, <1>8 DEF TimeOut, Disconnect
<1>9. CASE RunPhase3 \/ HandOver \/ EnterIteration \/ DrainSteering
  BY <1>2, <1>3, <1>4, <1>9 DEF RunPhase3, HandOver, EnterIteration, DrainSteering, Finish, StopCancelled, control
<1>10. CASE Ask \/ ReceiveText \/ ReceiveCalls
  BY <1>4, <1>10 DEF Ask, ReceiveText, ReceiveCalls, Receive, control
<1>11. CASE ConnectionFails \/ StreamFails \/ StreamCancelled \/ EndTurn
  BY <1>3, <1>4, <1>11 DEF StartBatch, ConnectionFails, StreamFails, StreamCancelled, EndTurn, StopFailed,
       StopCancelled, Finish, control
<1>12. CASE ReadGroup \/ AnswerRead \/ AnswerSkipped \/ ExecuteCall
  BY <1>4, <1>12 DEF ReadGroup, AnswerRead, AnswerSkipped, ExecuteCall, control
<1>13. CASE StartCall \/ EndBatch \/ EndCommit \/ Leave
  BY <1>3, <1>4, <1>13 DEF StartCall, EndBatch, EndCommit, Leave, StopCancelled, Finish, control
<1> QED BY <1>5, <1>6, <1>7, <1>8, <1>9, <1>10, <1>11, <1>12, <1>13 DEF Next, Work

LEMMA CancelKept == ASSUME Shape, CancelInv, [Next]_vars PROVE CancelInv'
<1> USE DEF CancelInv
<1>0. /\ Nothing \in [requests : Nat, calls : {0, 1}, reads : Nat, plannings : {0, 1}]
      /\ Nothing.requests = 0 /\ Nothing.calls = 0 /\ Nothing.reads = 0 /\ Nothing.plannings = 0
  BY DEF Nothing
<1>1. ASSUME NEW offer, Close(offer) PROVE CancelInv'
  BY <1>0, <1>1 DEF Close
<1>2. CASE UNCHANGED <<late, cancel>> /\ ~cancel
  BY <1>0, <1>2
<1>3. CASE UNCHANGED vars
  BY <1>3 DEF vars, control, loop
<1>4. CASE Chat \/ Continue
  <2>1. cancel' = FALSE /\ late' = late /\ late = Nothing
    BY <1>4 DEF Chat, Continue, StartRun
  <2> QED BY <1>0, <2>1
<1>5. CASE Cancel \/ Steer
  <2>1. UNCHANGED <<late, pc, turn, batch>> /\ (cancel' = cancel \/ ~cancel)
    BY <1>5 DEF Cancel, Steer, loop
  <2> QED BY <1>0, <2>1
<1>6. CASE TimeOut \/ Disconnect
  BY <1>1, <1>6 DEF TimeOut, Disconnect
<1>7. CASE RunPhase3
  <2>1. /\ pc = "top" /\ pc' = "plan" /\ cancel' = cancel
        /\ late' = IF cancel THEN [late EXCEPT !.plannings = @ + 1] ELSE late
    BY <1>7 DEF RunPhase3, Started, control
  <2> QED BY <1>0, <2>1
<1>8. CASE HandOver
  <2>1. CASE Finish
    BY <1>1, <2>1 DEF Finish
  <2>2. CASE pc' = "batch" /\ batch'.auto /\ UNCHANGED <<late, cancel>> /\ pc = "plan"
    BY <1>0, <2>2
  <2>3. \A calls : BatchOf(calls, TRUE).auto
    BY DEF BatchOf, NoBatch
  <2> QED BY <1>8, <2>1, <2>2, <2>3 DEF HandOver, StartBatch
<1>9. CASE EnterIteration
  <2>1. CASE Finish
    BY <1>1, <2>1 DEF Finish
  <2>2. CASE pc = "top" /\ pc' = "steer" /\ UNCHANGED <<late, cancel>>
    BY <1>0, <2>2
  <2> QED BY <1>9, <2>1, <2>2 DEF EnterIteration, control
<1>10. CASE DrainSteering
  BY <1>1, <1>2, <1>10 DEF DrainSteering, StopCancelled
<1>11. CASE Ask
  <2>1. /\ pc = "ask" /\ pc' = "stream" /\ cancel' = cancel /\ turn'.attempt = 1
        /\ late' = IF cancel THEN [late EXCEPT !.requests = @ + 1] ELSE late
    BY <1>11 DEF Ask, Started, control, NoTurn
  <2> QED BY <1>0, <2>1
<1>12. CASE ReceiveText \/ ReceiveCalls
  BY <1>2, <1>12 DEF ReceiveText, ReceiveCalls, Receive, control
<1>13. CASE ConnectionFails
  <2>1. CASE ~Retry
    BY <1>1, <1>13, <2>1 DEF ConnectionFails, StopFailed
  <2>2. CASE Retry
    <3>1. /\ pc = "stream" /\ pc' = "stream" /\ cancel' = cancel /\ turn'.attempt = turn.attempt + 1
          /\ late' = IF cancel THEN [late EXCEPT !.requests = @ + 1] ELSE late
      BY <1>13, <2>2 DEF ConnectionFails, Started, control, Shape, Turns
    <3>2. turn.attempt \in Nat
      BY Blank DEF Shape, Turns
    <3> QED BY <1>0, <3>1, <3>2
  <2> QED BY <2>1, <2>2
<1>14. CASE StreamFails \/ StreamCancelled \/ Leave
  BY <1>1, <1>14 DEF StreamFails, StreamCancelled, Leave, StopFailed, StopCancelled, Finish
<1>15. CASE EndTurn
  BY <1>1, <1>2, <1>15 DEF EndTurn, Finish, control
<1>16. CASE ReadGroup
  <2>1. /\ pc = "batch" /\ pc' = "batch" /\ cancel' = cancel /\ batch'.auto = batch.auto
        /\ late' = late \/ late' = IF cancel THEN [late EXCEPT !.reads = @ + 1] ELSE late
    BY <1>16 DEF ReadGroup, Started, control, Shape, Batches
  <2> QED BY <1>0, <2>1
<1>17. CASE AnswerRead \/ AnswerSkipped
  <2>1. pc = "batch" /\ pc' = "batch" /\ UNCHANGED <<late, cancel>> /\ batch'.auto = batch.auto
    BY <1>17 DEF AnswerRead, AnswerSkipped, control, Shape, Batches
  <2> QED BY <1>0, <2>1
<1>18. CASE StartCall
  BY <1>1, <1>2, <1>18 DEF StartCall, StopCancelled, control
<1>19. CASE ExecuteCall
  <2>1. /\ pc = "exec" /\ pc' = "batch" /\ cancel' = cancel
        /\ late' = IF cancel THEN [late EXCEPT !.calls = @ + 1] ELSE late
    BY <1>19 DEF ExecuteCall, Started, control
  <2> QED BY <1>0, <2>1
<1>20. CASE EndBatch \/ EndCommit
  <2>1. CASE Finish
    BY <1>1, <2>1 DEF Finish
  <2>2. CASE ~Finish
    <3>1. /\ pc = "batch" /\ UNCHANGED <<late, cancel>>
          /\ (pc' = "top" /\ ~batch.auto) \/ pc' \in {"steer", "leave"}
      BY <1>20, <2>2 DEF EndBatch, EndCommit, control
    <3> QED BY <1>0, <3>1
  <2> QED BY <2>1, <2>2
<1> QED BY <1>3, <1>4, <1>5, <1>6, <1>7, <1>8, <1>9, <1>10, <1>11, <1>12, <1>13, <1>14, <1>15, <1>16,
           <1>17, <1>18, <1>19, <1>20 DEF Next, Work

\* a batch changes the plan under the tools only by the backtrack that ends it
ToolsInv ==
  /\ pc \in {"top", "plan", "steer", "ask", "stream"} => offered = ToolsOf(plan)
  /\ pc \in {"batch", "exec"} => batch.back \/ offered = ToolsOf(plan)

LEMMA ToolsKept == ASSUME Shape, ToolsInv, [Next]_vars PROVE ToolsInv'
<1> USE DEF ToolsInv
<1>1. ASSUME NEW offer, Close(offer) PROVE ToolsInv'
  BY <1>1 DEF Close
<1>2. CASE UNCHANGED <<plan, offered>> /\ pc \in {"top", "plan", "steer", "ask", "stream"}
  BY <1>2 DEF ToolsOf
<1>3. CASE UNCHANGED <<plan, offered>> /\ pc \in {"batch", "exec"} /\ pc' \in {"batch", "exec"}
           /\ batch'.back = batch.back
  BY <1>3 DEF ToolsOf
<1>4. CASE UNCHANGED vars
  BY <1>4 DEF vars, session, loop
<1>5. CASE Chat \/ Continue
  BY <1>5 DEF Chat, Continue, StartRun
<1>6. CASE Cancel \/ Steer
  BY <1>6 DEF Cancel, Steer, session, loop
<1>7. CASE TimeOut \/ Disconnect
  BY <1>1, <1>7 DEF TimeOut, Disconnect
<1>8. CASE RunPhase3 \/ HandOver \/ EnterIteration \/ DrainSteering
  BY <1>1, <1>2, <1>8 DEF RunPhase3, HandOver, EnterIteration, DrainSteering, Finish, StopCancelled, session
<1>9. CASE Ask \/ ReceiveText \/ ReceiveCalls
  BY <1>2, <1>9 DEF Ask, ReceiveText, ReceiveCalls, Receive, session
<1>10. CASE ConnectionFails \/ StreamFails \/ StreamCancelled \/ EndTurn
  BY <1>1, <1>2, <1>10 DEF ConnectionFails, StreamFails, StreamCancelled, EndTurn, StopFailed,
       StopCancelled, Finish, session
<1>11. CASE ReadGroup \/ AnswerRead \/ AnswerSkipped
  <2>1. batch'.back = batch.back
    BY <1>11 DEF ReadGroup, AnswerRead, AnswerSkipped, Shape, Batches
  <2> QED BY <1>3, <1>11, <2>1 DEF ReadGroup, AnswerRead, AnswerSkipped
<1>12. CASE StartCall
  BY <1>1, <1>3, <1>12 DEF StartCall, StopCancelled, session, loop
<1>13. CASE ExecuteCall
  <2> DEFINE done == [batch EXCEPT !.at = @ + 1, !.progress = Progressed(Current, @)]
  <2>1. More /\ pc' = "batch" /\ offered' = offered /\ offered = ToolsOf(plan)
    BY <1>13 DEF ExecuteCall, Shape, More
  <2>2. CASE batch' = done /\ plan' = plan
    BY <2>1, <2>2
  <2>3. CASE /\ plan' \in After(Current, plan)
             /\ batch' = [done EXCEPT !.saw = TRUE, !.back = Current.tool = "request_backtrack"]
    <3>1. batch'.back = (Current.tool = "request_backtrack")
      BY <2>3 DEF Shape, Batches
    <3>2. CASE Current.tool # "request_backtrack"
      <4>1. plan'.phase = plan.phase /\ plan'.step = plan.step
        <5>1. plan \in Plans
          BY DEF Shape
        <5>2. CASE plan' = [plan EXCEPT !.days = Current.arg]
          BY <5>1, <5>2 DEF Plans
        <5>3. CASE plan' \in Saved(plan)
          <6>1. \/ \E x : plan' = [plan EXCEPT !.skeleton = x]
                \/ plan' = [plan EXCEPT !.stay = TRUE]
                \/ \E x : plan' = [plan EXCEPT !.days = x]
                \/ plan' = plan
            BY <5>3 DEF Saved
          <6> QED BY <5>1, <6>1 DEF Plans
        <5> QED BY <2>3, <3>2, <5>2, <5>3 DEF After
      <4>2. ToolsOf(plan') = ToolsOf(plan)
        BY <4>1 DEF ToolsOf
      <4> QED BY <2>1, <4>2
    <3> QED BY <2>1, <3>1, <3>2
  <2> QED BY <1>13, <2>2, <2>3 DEF ExecuteCall
<1>14. ASSUME Settle, pc = "batch", ~batch.auto \/ plan'.phase = 4 PROVE offered' = ToolsOf(plan')
  <2>1. CASE offered' = ToolsOf(plan')
    BY <2>1
  <2>2. CASE ~batch.back /\ offered' = offered /\ plan'.phase = plan.phase
             /\ (batch.auto \/ plan'.step = plan.step)
    <3>1. offered = ToolsOf(plan)
      BY <1>14, <2>2
    <3> QED BY <1>14, <2>2, <3>1 DEF ToolsOf
  <2> QED BY <1>14, <2>1, <2>2, Settling
<1>15. CASE EndBatch
  BY <1>14, <1>15 DEF EndBatch
<1>16. CASE EndCommit \/ Leave
  BY <1>1, <1>14, <1>16 DEF EndCommit, Leave, Finish
<1> QED BY <1>4, <1>5, <1>6, <1>7, <1>8, <1>9, <1>10, <1>11, <1>12, <1>13, <1>15, <1>16 DEF Next, Work

-----------------------------------------------------------------------------
(* Groups of calls and their results *)

Entries == [role : {"calls", "result", "notice"}, n : Nat]

\* messages in which every group is closed
Unbroken(msgs) == msgs \in Seq(Entries) /\ Strays(msgs) = {} /\ OpenGroups(msgs) = {}

\* messages that end with the group at g of n calls, the first k of them answered
Answering(msgs, g, n, k) ==
  /\ msgs \in Seq(Entries) /\ n \in Nat /\ k \in 0..n
  /\ g \in DOMAIN msgs /\ Len(msgs) = g + k
  /\ msgs[g] = Entry("calls", n)
  /\ \A x \in 1..k : msgs[g + x] = Entry("result", x)
  /\ Strays(msgs) = {} /\ OpenGroups(msgs) \subseteq {g}

(* One message more. *)
LEMMA OneMoreMessage ==
  ASSUME NEW msgs \in Seq(Entries), NEW e \in Entries
  PROVE  /\ Append(msgs, e) \in Seq(Entries) /\ Len(msgs) \in Nat
         /\ DOMAIN msgs = 1..Len(msgs) /\ DOMAIN Append(msgs, e) = 1..(Len(msgs) + 1)
         /\ Len(Append(msgs, e)) = Len(msgs) + 1
         /\ \A i \in 1..(Len(msgs) + 1) : Append(msgs, e)[i] = IF i = Len(msgs) + 1 THEN e ELSE msgs[i]
         /\ \A i \in DOMAIN msgs : msgs[i] \in Entries
OBVIOUS

\* what is closed stays so
LEMMA StillClosed ==
  ASSUME NEW msgs \in Seq(Entries), NEW e \in Entries, NEW i \in DOMAIN msgs, Closed(msgs, i)
  PROVE  Closed(Append(msgs, e), i)
<1> DEFINE more == Append(msgs, e)
<1>1. /\ Len(msgs) \in Nat /\ DOMAIN msgs = 1..Len(msgs) /\ DOMAIN more = 1..(Len(msgs) + 1)
      /\ \A j \in 1..(Len(msgs) + 1) : more[j] = IF j = Len(msgs) + 1 THEN e ELSE msgs[j]
  BY OneMoreMessage
<1> HIDE DEF more
<1>2. \A j \in DOMAIN msgs : j \in DOMAIN more /\ more[j] = msgs[j]
  BY <1>1
<1>3. \A k \in 1..msgs[i].n : i + k \in DOMAIN msgs /\ msgs[i + k] = Entry("result", k)
  BY DEF Closed
<1>4. \A k \in 1..more[i].n : i + k \in DOMAIN more /\ more[i + k] = Entry("result", k)
  BY <1>2, <1>3
<1> QED BY <1>4 DEF Closed, more

\* a result that belongs to a group goes on belonging to it
LEMMA StillNoStrays ==
  ASSUME NEW msgs \in Seq(Entries), NEW e \in Entries, Strays(msgs) = {}, e.role # "result"
  PROVE  Strays(Append(msgs, e)) = {}
<1> DEFINE more == Append(msgs, e)
<1>1. /\ Len(msgs) \in Nat /\ DOMAIN msgs = 1..Len(msgs) /\ DOMAIN more = 1..(Len(msgs) + 1)
      /\ \A j \in 1..(Len(msgs) + 1) : more[j] = IF j = Len(msgs) + 1 THEN e ELSE msgs[j]
  BY OneMoreMessage
<1> HIDE DEF more
<1>2. SUFFICES ASSUME NEW i \in DOMAIN more, more[i].role = "result"
               PROVE  \E j \in 1..(i - 1) :
                         /\ more[j].role = "calls" /\ i - j <= more[j].n
                         /\ \A k \in (j + 1)..i : more[k] = Entry("result", k - j)
  BY DEF Strays, more
<1>3. i \in DOMAIN msgs /\ more[i] = msgs[i]
  BY <1>1, <1>2
<1>4. PICK j \in 1..(i - 1) : /\ msgs[j].role = "calls" /\ i - j <= msgs[j].n
                              /\ \A k \in (j + 1)..i : msgs[k] = Entry("result", k - j)
  BY <1>2, <1>3 DEF Strays
<1>5. i \in Nat /\ j \in Nat /\ i <= Len(msgs) /\ j < i
  BY <1>1, <1>3
<1>6. \A k \in j..i : more[k] = msgs[k]
  BY <1>1, <1>5
<1>7. more[j] = msgs[j] /\ \A k \in (j + 1)..i : more[k] = msgs[k]
  BY <1>5, <1>6
<1> QED BY <1>4, <1>7

(* A notice breaks no group. *)
LEMMA NoticeKeeps == ASSUME NEW msgs, Unbroken(msgs) PROVE Unbroken(Append(msgs, Notice))
<1> DEFINE more == Append(msgs, Notice)
<1>1. Notice \in Entries /\ Notice.role = "notice" /\ msgs \in Seq(Entries)
  BY DEF Notice, Entry, Entries, Unbroken
<1>2. /\ Len(msgs) \in Nat /\ DOMAIN msgs = 1..Len(msgs) /\ DOMAIN more = 1..(Len(msgs) + 1)
      /\ \A j \in 1..(Len(msgs) + 1) : more[j] = IF j = Len(msgs) + 1 THEN Notice ELSE msgs[j]
      /\ more \in Seq(Entries)
  BY <1>1, OneMoreMessage
<1>3. Strays(more) = {}
  BY <1>1, StillNoStrays DEF Unbroken
<1>4. ASSUME NEW i \in DOMAIN more, more[i].role = "calls" PROVE Closed(more, i)
  <2>1. i \in DOMAIN msgs /\ more[i] = msgs[i]
    <3> HIDE DEF more
    <3> QED BY <1>1, <1>2, <1>4
  <2>2. Closed(msgs, i)
    <3> HIDE DEF more
    <3> QED BY <1>4, <2>1 DEF Unbroken, OpenGroups
  <2> QED BY <1>1, <2>1, <2>2, StillClosed
<1>5. OpenGroups(more) = {}
  BY <1>4 DEF OpenGroups
<1> QED BY <1>2, <1>3, <1>5 DEF Unbroken

(* A group begins. *)
LEMMA GroupBegins ==
  ASSUME NEW msgs, Unbroken(msgs), NEW n \in Nat
  PROVE  Answering(Append(msgs, Entry("calls", n)), Len(msgs) + 1, n, 0)
<1> DEFINE e == Entry("calls", n)
           more == Append(msgs, e)
<1>1. e \in Entries /\ e.role = "calls" /\ e.n = n /\ msgs \in Seq(Entries)
  BY DEF Entry, Entries, Unbroken
<1>2. /\ Len(msgs) \in Nat /\ DOMAIN msgs = 1..Len(msgs) /\ DOMAIN more = 1..(Len(msgs) + 1)
      /\ \A j \in 1..(Len(msgs) + 1) : more[j] = IF j = Len(msgs) + 1 THEN e ELSE msgs[j]
      /\ more \in Seq(Entries) /\ Len(more) = Len(msgs) + 1
  <2> HIDE DEF e
  <2> QED BY <1>1, OneMoreMessage
<1>3. Strays(more) = {}
  <2> HIDE DEF e
  <2> QED BY <1>1, StillNoStrays DEF Unbroken
<1>4. ASSUME NEW i \in DOMAIN more, more[i].role = "calls", i # Len(msgs) + 1 PROVE Closed(more, i)
  <2>1. i \in DOMAIN msgs /\ more[i] = msgs[i]
    <3> HIDE DEF more, e
    <3> QED BY <1>2, <1>4
  <2>2. Closed(msgs, i)
    <3> HIDE DEF more
    <3> QED BY <1>4, <2>1 DEF Unbroken, OpenGroups
  <2> HIDE DEF e
  <2> QED BY <1>1, <2>1, <2>2, StillClosed
<1>5. OpenGroups(more) \subseteq {Len(msgs) + 1}
  BY <1>4 DEF OpenGroups
<1>6. more[Len(msgs) + 1] = e /\ Len(msgs) + 1 \in DOMAIN more /\ Len(more) = (Len(msgs) + 1) + 0
  <2> HIDE DEF e, more
  <2> QED BY <1>2
<1> QED BY <1>2, <1>3, <1>5, <1>6 DEF Answering

(* The next result of a group. *)
LEMMA ResultFits ==
  ASSUME NEW msgs, NEW g, NEW n, NEW k, Answering(msgs, g, n, k), k < n
  PROVE  Answering(Append(msgs, Entry("result", k + 1)), g, n, k + 1)
<1> DEFINE e == Entry("result", k + 1)
           more == Append(msgs, e)
<1>0. msgs \in Seq(Entries) /\ n \in Nat /\ k \in Nat /\ k + 1 \in 0..n
      /\ g \in DOMAIN msgs /\ Len(msgs) = g + k /\ msgs[g] = Entry("calls", n)
  BY DEF Answering
<1>1. e \in Entries /\ e.role = "result" /\ e.n = k + 1
  BY <1>0 DEF Entry, Entries
<1>2. /\ Len(msgs) \in Nat /\ DOMAIN msgs = 1..Len(msgs) /\ DOMAIN more = 1..(Len(msgs) + 1)
      /\ \A j \in 1..(Len(msgs) + 1) : more[j] = IF j = Len(msgs) + 1 THEN e ELSE msgs[j]
      /\ more \in Seq(Entries) /\ Len(more) = Len(msgs) + 1
  <2> HIDE DEF e
  <2> QED BY <1>0, <1>1, OneMoreMessage
<1> HIDE DEF more
<1>3. g \in Nat /\ g >= 1 /\ Len(msgs) + 1 = g + (k + 1)
  BY <1>0, <1>2
<1>4. \A j \in DOMAIN msgs : more[j] = msgs[j]
  BY <1>2
<1>5. more[g] = Entry("calls", n) /\ g \in DOMAIN more
  BY <1>0, <1>2, <1>4
<1>6. \A x \in 1..(k + 1) : more[g + x] = Entry("result", x)
  <2>1. ASSUME NEW x \in 1..(k + 1) PROVE more[g + x] = Entry("result", x)
    <3>1. CASE x = k + 1
      <4>1. g + x = Len(msgs) + 1
        BY <1>3, <3>1
      <4> QED BY <1>2, <3>1, <4>1
    <3>2. CASE x # k + 1
      <4>1. x \in 1..k
        BY <1>0, <3>2
      <4>2. g + x \in 1..Len(msgs)
        BY <1>0, <1>3, <4>1
      <4> QED BY <1>2, <1>4, <4>1, <4>2 DEF Answering
    <3> QED BY <3>1, <3>2
  <2> QED BY <2>1
<1>7. ASSUME NEW i \in DOMAIN more, more[i].role = "result"
      PROVE  \E j \in 1..(i - 1) :
                /\ more[j].role = "calls" /\ i - j <= more[j].n
                /\ \A m \in (j + 1)..i : more[m] = Entry("result", m - j)
  <2>1. CASE i = Len(msgs) + 1
    <3>1. i = g + (k + 1) /\ g \in 1..(i - 1) /\ i - g = k + 1
      BY <1>0, <1>3, <2>1
    <3>2. more[g].role = "calls" /\ more[g].n = n
      BY <1>5 DEF Entry
    <3>3. i - g <= more[g].n
      BY <1>0, <3>1, <3>2
    <3>4. ASSUME NEW m \in (g + 1)..i PROVE more[m] = Entry("result", m - g)
      <4>1. m - g \in 1..(k + 1) /\ g + (m - g) = m
        BY <1>0, <1>3, <3>1
      <4> QED BY <1>6, <4>1
    <3> QED BY <3>1, <3>2, <3>3, <3>4
  <2>2. CASE i # Len(msgs) + 1
    <3>1. i \in DOMAIN msgs
      BY <1>2, <2>2
    <3>2. PICK j \in 1..(i - 1) : /\ msgs[j].role = "calls" /\ i - j <= msgs[j].n
                                  /\ \A m \in (j + 1)..i : msgs[m] = Entry("result", m - j)
      BY <1>4, <1>7, <3>1 DEF Strays, Answering
    <3>3. i \in 1..Len(msgs) /\ j \in 1..Len(msgs)
      BY <1>2, <3>1
    <3>4. \A m \in (j + 1)..i : m \in DOMAIN msgs
      BY <1>2, <3>3
    <3>5. more[j] = msgs[j] /\ \A m \in (j + 1)..i : more[m] = msgs[m]
      BY <1>2, <1>4, <3>3, <3>4
    <3> QED BY <3>2, <3>5
  <2> QED BY <2>1, <2>2
<1>8. Strays(more) = {}
  BY <1>7 DEF Strays
<1>9. ASSUME NEW i \in DOMAIN more, more[i].role = "calls", i # g PROVE Closed(more, i)
  <2>1. i \in DOMAIN msgs
    BY <1>1, <1>2, <1>9
  <2>2. Closed(msgs, i)
    BY <1>4, <1>9, <2>1 DEF Answering, OpenGroups
  <2> HIDE DEF e
  <2> QED BY <1>0, <1>1, <2>1, <2>2, StillClosed DEF more
<1>10. OpenGroups(more) \subseteq {g}
  BY <1>9 DEF OpenGroups
<1> QED BY <1>0, <1>2, <1>3, <1>5, <1>6, <1>8, <1>10 DEF Answering, more

(* With its last result a group is closed. *)
LEMMA GroupEnds == ASSUME NEW msgs, NEW g, NEW n, Answering(msgs, g, n, n) PROVE Unbroken(msgs)
<1>1. msgs \in Seq(Entries) /\ n \in Nat /\ Len(msgs) = g + n /\ g \in DOMAIN msgs
      /\ msgs[g] = Entry("calls", n)
  BY DEF Answering
<1>2. Len(msgs) \in Nat /\ DOMAIN msgs = 1..Len(msgs)
  BY <1>1
<1>3. msgs[g].n = n
  BY <1>1 DEF Entry
<1>4. \A k \in 1..n : g + k \in DOMAIN msgs /\ msgs[g + k] = Entry("result", k)
  BY <1>1, <1>2 DEF Answering
<1>5. Closed(msgs, g)
  BY <1>3, <1>4 DEF Closed
<1>6. OpenGroups(msgs) = {}
  BY <1>5 DEF OpenGroups, Answering
<1> QED BY <1>1, <1>6 DEF Unbroken, Answering

(* Any number of notices break no group. *)
LEMMA NoticesKeep ==
  ASSUME NEW msgs, Unbroken(msgs), NEW n \in Nat
  PROVE  Unbroken(msgs \o [i \in 1..n |-> Notice])
<1> DEFINE With(m) == msgs \o [i \in 1..m |-> Notice]
           T == {m \in Nat : Unbroken(With(m))}
<1>1. Notice \in Entries /\ msgs \in Seq(Entries)
  BY DEF Notice, Entry, Entries, Unbroken
<1>2. 0 \in T
  <2>1. [i \in 1..0 |-> Notice] = <<>>
    OBVIOUS
  <2>2. With(0) = msgs
    BY <1>1, <2>1
  <2> QED BY <2>2
<1>3. ASSUME NEW m \in T PROVE m + 1 \in T
  <2> DEFINE few == [i \in 1..m |-> Notice]
             more == [i \in 1..(m + 1) |-> Notice]
  <2>1. few \in Seq(Entries) /\ Len(few) = m /\ more \in Seq(Entries) /\ Len(more) = m + 1 /\ m \in Nat
    BY <1>1
  <2>2. more = Append(few, Notice)
    OBVIOUS
  <2>3. With(m + 1) = Append(With(m), Notice)
    <3>1. With(m) = msgs \o few /\ With(m + 1) = msgs \o more
      OBVIOUS
    <3> HIDE DEF few, more, With
    <3>2. msgs \o Append(few, Notice) = Append(msgs \o few, Notice)
      BY <1>1, <2>1
    <3> QED BY <2>2, <3>1, <3>2
  <2>4. Unbroken(With(m))
    OBVIOUS
  <2>5. m + 1 \in Nat
    BY <2>1
  <2> HIDE DEF With
  <2>6. Unbroken(With(m + 1))
    <3> HIDE DEF T
    <3> QED BY <2>3, <2>4, NoticeKeeps
  <2> QED BY <2>5, <2>6
<1>4. T = Nat
  <2>1. T \in SUBSET Nat
    OBVIOUS
  <2> HIDE DEF T
  <2> QED BY <1>2, <1>3, <2>1, AllNumbers
<1>5. n \in T
  BY <1>4
<1> QED BY <1>5

\* the results that are there: those of the calls before the next one, except
\* of those the group of reads has not been answered yet
Answered == batch.at - 1 - Len(batch.ready)

GroupInv ==
  /\ batch.at <= Len(batch.calls) + 1
  /\ pc \notin {"batch", "exec"} => Unbroken(messages)
  /\ pc \in {"batch", "exec"} =>
       /\ \A i \in DOMAIN batch.ready : batch.ready[i] = Answered + i
       /\ \E g : Answering(messages, g, Len(batch.calls), Answered)

(* A batch begins with an unanswered group. *)
LEMMA BatchBegins ==
  ASSUME Unbroken(messages), NEW calls \in Seq(Calls), NEW auto, StartBatch(calls, auto)
  PROVE  GroupInv'
<1>1. /\ messages' = Append(messages, Entry("calls", Len(calls))) /\ pc' = "batch"
      /\ batch' = BatchOf(calls, auto)
  BY DEF StartBatch
<1>2. batch'.calls = calls /\ batch'.at = 1 /\ batch'.ready = <<>> /\ Len(calls) \in Nat
  BY <1>1 DEF BatchOf, NoBatch
<1>3. Answered' = 0
  <2>1. Answered' = batch'.at - 1 - Len(batch'.ready)
    BY DEF Answered
  <2>2. Len(<<>>) = 0
    OBVIOUS
  <2> HIDE DEF Answered
  <2>3. batch'.at - 1 - Len(batch'.ready) = 1 - 1 - 0
    BY <1>2, <2>2
  <2>4. 1 - 1 - 0 = 0
    OBVIOUS
  <2> QED BY <2>1, <2>3, <2>4, Zenon
<1>5. batch'.at <= Len(batch'.calls) + 1
  BY <1>2
<1>4. Answering(messages', Len(messages) + 1, Len(calls), 0)
  BY <1>1, <1>2, GroupBegins
<1> QED BY <1>1, <1>2, <1>3, <1>4, <1>5 DEF GroupInv

(* When a batch ends without a backtrack its group is closed. *)
LEMMA BatchEnds ==
  ASSUME Shape, GroupInv, pc = "batch", ~More, batch.ready = <<>>, ~batch.back
  PROVE  Unbroken(messages)
<1>1. batch.at \in Nat \ {0} /\ Len(batch.calls) \in Nat
  BY DEF Shape, Batches
<1>2. batch.at = Len(batch.calls) + 1
  BY <1>1 DEF More, GroupInv
<1>3. Answered = Len(batch.calls)
  BY <1>1, <1>2 DEF Answered
<1> QED BY <1>3, GroupEnds DEF GroupInv

LEMMA GroupsKept == ASSUME Shape, GroupInv, [Next]_vars PROVE GroupInv'
<1>0. /\ batch \in Batches /\ batch.calls \in Seq(Calls) /\ batch.at \in Nat \ {0} /\ Len(batch.calls) \in Nat
      /\ batch.ready \in Seq(Nat)
  BY DEF Shape, Batches
<1>n. Unbroken(<<>>)
  BY DEF Unbroken, Strays, OpenGroups
<1>m. NoBatch.at <= Len(NoBatch.calls) + 1
  BY DEF NoBatch
<1>1. ASSUME NEW offer, Close(offer) PROVE GroupInv'
  BY <1>1, <1>m, <1>n DEF Close, GroupInv
<1>2. CASE /\ messages' = messages /\ batch' \in {batch, NoBatch}
           /\ pc \notin {"batch", "exec"} /\ pc' \notin {"batch", "exec"}
  BY <1>2, <1>m DEF GroupInv
<1>3. CASE UNCHANGED <<messages, batch>> /\ pc \in {"batch", "exec"} /\ pc' \in {"batch", "exec"}
  BY <1>3 DEF GroupInv, Answered
<1>4. CASE UNCHANGED <<pc, messages, batch>>
  BY <1>4 DEF GroupInv, Answered
<1>5. CASE UNCHANGED vars
  BY <1>4, <1>5 DEF vars, session, loop
<1>6. CASE Chat \/ Continue
  BY <1>2, <1>6 DEF Chat, Continue, StartRun
<1>7. CASE Cancel \/ Steer
  BY <1>4, <1>7 DEF Cancel, Steer, session, loop
<1>8. CASE TimeOut \/ Disconnect
  BY <1>1, <1>8 DEF TimeOut, Disconnect
<1>9. CASE HandOver
  <2>1. CASE Finish
    BY <1>1, <2>1 DEF Finish
  <2>2. ASSUME NEW days \in {"some", "all"},
               StartBatch(IF days = "all" THEN <<Commit(days)>>
                          ELSE <<Commit(days), Commit(days)>>, TRUE)
        PROVE  GroupInv'
    <3>1. <<Commit(days)>> \in Seq(Calls) /\ <<Commit(days), Commit(days)>> \in Seq(Calls)
      <4>1. Commit(days) \in Calls
        BY DEF Calls
      <4> QED BY <4>1
    <3>2. Unbroken(messages)
      BY <1>9 DEF HandOver, GroupInv
    <3> QED BY <2>2, <3>1, <3>2, BatchBegins
  <2> QED BY <1>9, <2>1, <2>2 DEF HandOver
<1>10. CASE RunPhase3 \/ EnterIteration
  BY <1>1, <1>2, <1>10 DEF RunPhase3, EnterIteration, Finish, session, loop
<1>11. CASE DrainSteering
  <2>1. CASE cancel
    BY <1>1, <1>11, <2>1 DEF DrainSteering, StopCancelled
  <2>2. CASE ~cancel
    <3>1. /\ messages' = messages \o [i \in 1..queue |-> Notice] /\ batch' = batch
          /\ pc' = "ask" /\ pc = "steer"
      BY <1>11, <2>2 DEF DrainSteering
    <3>2. queue \in Nat /\ Unbroken(messages)
      BY <3>1 DEF Shape, GroupInv
    <3> QED BY <3>1, <3>2, NoticesKeep DEF GroupInv
  <2> QED BY <2>1, <2>2
<1>12. CASE Ask
  BY <1>12, <1>n DEF Ask, GroupInv
<1>13. CASE ReceiveText \/ ReceiveCalls
  BY <1>4, <1>13 DEF ReceiveText, ReceiveCalls, Receive, session
<1>14. CASE ConnectionFails \/ StreamFails \/ StreamCancelled
  BY <1>1, <1>4, <1>14 DEF ConnectionFails, StreamFails, StreamCancelled, StopFailed, StopCancelled, session
<1>15. CASE EndTurn
  <2>1. Unbroken(messages)
    BY <1>15 DEF EndTurn, GroupInv
  <2>2. CASE turn.calls # <<>>
    <3>1. turn.calls \in Seq(Calls) /\ StartBatch(turn.calls, FALSE)
      BY <1>15, <2>2 DEF EndTurn, Shape, Turns
    <3> QED BY <2>1, <3>1, BatchBegins
  <2>3. CASE Finish
    BY <1>1, <2>3 DEF Finish
  <2>4. CASE messages' = Append(messages, Notice) /\ pc' = "top" /\ batch' = batch
    BY <2>1, <2>4, NoticeKeeps DEF GroupInv
  <2> QED BY <1>15, <2>2, <2>3, <2>4 DEF EndTurn
<1>16. CASE ReadGroup
  <2>1. PICK scan :
              /\ Scanned(batch.calls, batch.at, Seen(Current, recent), scan, Len(batch.calls) - batch.at + 1)
              /\ batch' = [batch EXCEPT !.ready = scan.group, !.at = @ + Len(scan.group)]
    BY <1>16, Reading
  <2>2. scan.group \in Seq(Nat) /\ Len(scan.group) <= Len(batch.calls) - batch.at + 1
        /\ \A i \in DOMAIN scan.group : scan.group[i] = batch.at + i - 1
    BY <2>1 DEF Scanned, Scans
  <2>3. batch'.calls = batch.calls /\ batch'.ready = scan.group /\ batch'.at = batch.at + Len(scan.group)
    BY <1>0, <2>1 DEF Batches
  <2>4. batch.ready = <<>> /\ Len(scan.group) \in Nat /\ DOMAIN scan.group = 1..Len(scan.group)
    BY <1>16, <2>2 DEF ReadGroup, More
  <2>5. Answered' = batch.at - 1 /\ Answered = batch.at - 1
    BY <1>0, <2>3, <2>4 DEF Answered
  <2>6. messages' = messages /\ pc = "batch" /\ pc' = "batch"
    BY <1>16 DEF ReadGroup
  <2>7. batch'.at <= Len(batch'.calls) + 1
    BY <1>0, <2>2, <2>3, <2>4
  <2>8. \A i \in DOMAIN scan.group : scan.group[i] = (batch.at - 1) + i
    BY <1>0, <2>2, <2>4
  <2> QED BY <2>3, <2>5, <2>6, <2>7, <2>8 DEF GroupInv
<1>17. CASE AnswerRead
  <2>1. /\ pc = "batch" /\ pc' = "batch" /\ batch.ready # <<>>
        /\ messages' = Append(messages, Entry("result", Head(batch.ready)))
        /\ batch' = [batch EXCEPT !.ready = Tail(@), !.progress = AfterRead(@)]
    BY <1>17 DEF AnswerRead
  <2>2. batch'.calls = batch.calls /\ batch'.ready = Tail(batch.ready) /\ batch'.at = batch.at
    BY <1>0, <2>1 DEF Batches
  <2>3. PICK g : Answering(messages, g, Len(batch.calls), Answered)
    BY <2>1 DEF GroupInv
  <2>4. Answered \in Nat /\ Len(batch.ready) \in Nat \ {0} /\ DOMAIN batch.ready = 1..Len(batch.ready)
    BY <1>0, <2>1, <2>3 DEF Answering
  <2>5. Head(batch.ready) = Answered + 1 /\ \A i \in DOMAIN batch.ready : batch.ready[i] = Answered + i
    <3>1. \A i \in DOMAIN batch.ready : batch.ready[i] = Answered + i
      BY <2>1 DEF GroupInv
    <3>2. Head(batch.ready) = batch.ready[1] /\ 1 \in DOMAIN batch.ready
      BY <1>0, <2>1, <2>4
    <3> QED BY <3>1, <3>2
  <2>6. Len(Tail(batch.ready)) = Len(batch.ready) - 1
        /\ \A i \in DOMAIN Tail(batch.ready) : i \in 1..(Len(batch.ready) - 1)
                                               /\ Tail(batch.ready)[i] = batch.ready[i + 1]
    BY <1>0, <2>1, <2>4
  <2>7. Answered' = Answered + 1
    BY <1>0, <2>2, <2>4, <2>6 DEF Answered
  <2>8. Answered < Len(batch.calls)
    <3>1. batch.at <= Len(batch.calls) + 1
      BY <2>1 DEF GroupInv
    <3> QED BY <1>0, <2>4, <3>1 DEF Answered
  <2>9. Answering(messages', g, Len(batch.calls), Answered + 1)
    BY <2>1, <2>3, <2>5, <2>8, ResultFits
  <2>10. \A i \in DOMAIN Tail(batch.ready) : Tail(batch.ready)[i] = (Answered + 1) + i
    <3>1. ASSUME NEW i \in DOMAIN Tail(batch.ready) PROVE Tail(batch.ready)[i] = (Answered + 1) + i
      <4>1. i \in 1..(Len(batch.ready) - 1) /\ Tail(batch.ready)[i] = batch.ready[i + 1]
        BY <2>6
      <4>2. i + 1 \in DOMAIN batch.ready /\ i \in Nat
        BY <2>4, <4>1
      <4>3. batch.ready[i + 1] = Answered + (i + 1)
        BY <2>5, <4>2
      <4> QED BY <2>4, <4>1, <4>2, <4>3
    <3> QED BY <3>1
  <2>11. batch.at <= Len(batch.calls) + 1
    BY <2>1 DEF GroupInv
  <2> QED BY <2>1, <2>2, <2>7, <2>9, <2>10, <2>11 DEF GroupInv
<1>18. ASSUME More, pc \in {"batch", "exec"}, pc' \in {"batch", "exec"},
              messages' = Append(messages, Entry("result", batch.at)),
              batch'.calls = batch.calls, batch'.ready = batch.ready, batch'.at = batch.at + 1
       PROVE  GroupInv'
  <2>1. batch.ready = <<>> /\ batch.at <= Len(batch.calls)
    BY <1>18 DEF More
  <2>2. Answered = batch.at - 1 /\ Answered' = batch.at
    BY <1>0, <1>18, <2>1 DEF Answered
  <2>3. PICK g : Answering(messages, g, Len(batch.calls), Answered)
    BY <1>18 DEF GroupInv
  <2>4. Answered < Len(batch.calls) /\ Answered + 1 = batch.at
    BY <1>0, <2>1, <2>2
  <2>5. Answering(messages', g, Len(batch.calls), batch.at)
    BY <1>18, <2>3, <2>4, ResultFits
  <2>6. batch'.at <= Len(batch'.calls) + 1
    BY <1>0, <1>18, <2>1
  <2>7. DOMAIN batch'.ready = {}
    BY <1>18, <2>1
  <2> QED BY <1>18, <2>2, <2>5, <2>6, <2>7 DEF GroupInv
<1>19. CASE AnswerSkipped
  <2>1. batch' = [batch EXCEPT !.at = @ + 1, !.progress = Progressed(Current, @)]
    BY <1>19 DEF AnswerSkipped
  <2>2. batch'.calls = batch.calls /\ batch'.ready = batch.ready /\ batch'.at = batch.at + 1
    BY <1>0, <2>1 DEF Batches
  <2> QED BY <1>18, <1>19, <2>2 DEF AnswerSkipped
<1>20. CASE StartCall
  BY <1>1, <1>3, <1>20 DEF StartCall, StopCancelled, session, loop
<1>21. CASE ExecuteCall
  <2> DEFINE done == [batch EXCEPT !.at = @ + 1, !.progress = Progressed(Current, @)]
  <2>1. batch' \in {done, [done EXCEPT !.saw = TRUE, !.back = Current.tool = "request_backtrack"]}
    BY <1>21 DEF ExecuteCall
  <2>2. batch'.calls = batch.calls /\ batch'.ready = batch.ready /\ batch'.at = batch.at + 1
    BY <1>0, <2>1 DEF Batches
  <2>3. More
    BY <1>21 DEF ExecuteCall, Shape
  <2> QED BY <1>18, <1>21, <2>2, <2>3 DEF ExecuteCall
<1>22. ASSUME Settle, pc = "batch", ~More, batch.ready = <<>>, batch' = NoBatch,
              pc' \notin {"batch", "exec"}
       PROVE  GroupInv'
  <2>1. messages' = <<>> \/ (messages' = messages /\ ~batch.back)
    BY <1>22, Settling
  <2>2. Unbroken(messages')
    BY <1>22, <1>n, <2>1, BatchEnds
  <2> QED BY <1>22, <1>m, <2>2 DEF GroupInv
<1>23. CASE EndBatch
  BY <1>22, <1>23 DEF EndBatch
<1>24. CASE EndCommit \/ Leave
  BY <1>1, <1>22, <1>24 DEF EndCommit, Leave, Finish
<1> QED BY <1>5, <1>6, <1>7, <1>8, <1>9, <1>10, <1>11, <1>12, <1>13, <1>14, <1>15, <1>16, <1>17,
           <1>19, <1>20, <1>21, <1>23, <1>24 DEF Next, Work

-----------------------------------------------------------------------------
(* Searches *)

\* while no query was dropped, what was executed is remembered, at most twice
SearchInv ==
  Len(recent) < HistorySize =>
    \A q \in Queries : searched[q] <= 2 /\ searched[q] <= Occurrences(recent, q)

LEMMA SearchesKept == ASSUME Shape, SearchInv, [Next]_vars PROVE SearchInv'
<1>1. CASE UNCHANGED <<recent, searched>>
  BY <1>1 DEF SearchInv, Occurrences
<1>2. ASSUME NEW call \in Calls, recent' = Seen(call, recent), searched' = searched PROVE SearchInv'
  <2>1. recent \in Seq(Queries) /\ Len(recent) <= HistorySize /\ \A q \in Queries : searched[q] \in 0..3
    BY DEF Shape
  <2>2. SUFFICES ASSUME Len(recent') < HistorySize, NEW q \in Queries
                 PROVE  searched[q] <= 2 /\ searched[q] <= Occurrences(recent', q)
    BY <1>2 DEF SearchInv
  <2>3. Len(recent) < HistorySize
        /\ Occurrences(recent, q) \in Nat /\ Occurrences(recent', q) \in Nat
        /\ Occurrences(recent, q) <= Occurrences(recent', q)
    BY <1>2, <2>1, <2>2, SeenGrows
  <2> QED BY <2>1, <2>3 DEF SearchInv
<1>3. CASE ReadGroup
  <2>1. /\ Current \in Calls /\ Seen(Current, recent) \in Histories
        /\ Len(batch.calls) \in Nat /\ batch.at \in 1..Len(batch.calls)
    BY <1>3, Reading
  <2>2. PICK scan :
          /\ Scanned(batch.calls, batch.at, Seen(Current, recent), scan, Len(batch.calls) - batch.at + 1)
          /\ recent' = scan.seen
          /\ \A q \in Queries :
               searched'[q] = Min({3, searched[q] + Occurrences(Args(batch.calls, scan.group), q)})
    BY <1>3, Reading
  <2> DEFINE before == Seen(Current, recent)
  <2>3. Within(before, batch.calls, scan) /\ scan.group \in Seq(Nat) /\ scan.seen \in Histories
    BY <2>2 DEF Scanned, Scans
  <2>4. recent \in Seq(Queries) /\ Len(recent) <= HistorySize /\ \A q \in Queries : searched[q] \in 0..3
    BY DEF Shape
  <2>5. SUFFICES ASSUME Len(recent') < HistorySize, NEW q \in Queries
                 PROVE  searched'[q] <= 2 /\ searched'[q] <= Occurrences(recent', q)
    BY DEF SearchInv
  <2> HIDE DEF before
  <2>6. /\ Len(before) < HistorySize
        /\ \A c \in 0..2 : c <= Occurrences(before, q) =>
              /\ c + Occurrences(Args(batch.calls, scan.group), q) <= 2
              /\ c + Occurrences(Args(batch.calls, scan.group), q) <= Occurrences(scan.seen, q)
    BY <2>2, <2>3, <2>5 DEF Within
  <2>7. Len(recent) < HistorySize
        /\ Occurrences(recent, q) \in Nat /\ Occurrences(before, q) \in Nat
        /\ Occurrences(recent, q) <= Occurrences(before, q)
    BY <2>1, <2>4, <2>6, SeenGrows DEF before
  <2>8. searched[q] \in 0..2 /\ searched[q] <= Occurrences(before, q)
    BY <2>4, <2>7 DEF SearchInv
  <2>9. Occurrences(Args(batch.calls, scan.group), q) \in Nat
    BY <2>3, ArgsTyped, Occurring
  <2> DEFINE sum == searched[q] + Occurrences(Args(batch.calls, scan.group), q)
  <2>10. sum \in Nat /\ sum <= 2 /\ sum <= Occurrences(scan.seen, q)
    BY <2>6, <2>8, <2>9
  <2>11. searched'[q] = Min({3, sum})
    BY <2>2
  <2> HIDE DEF sum
  <2>12. Min({3, sum}) = sum
    BY <2>10, UpToThree
  <2> QED BY <2>2, <2>10, <2>11, <2>12
<1>4. CASE AnswerSkipped
  <2>1. More /\ recent' = Seen(Current, recent) /\ searched' = searched
    BY <1>4 DEF AnswerSkipped
  <2>2. batch.calls \in Seq(Calls) /\ batch.at \in DOMAIN batch.calls
    BY <2>1 DEF Shape, Batches, More
  <2>3. Current \in Calls
    BY <2>2 DEF Current
  <2> QED BY <1>2, <2>1, <2>3
<1>5. CASE UNCHANGED vars \/ Chat \/ Continue \/ Cancel \/ Steer \/ TimeOut \/ Disconnect
  BY <1>1, <1>5 DEF vars, Chat, Continue, StartRun, Cancel, Steer, TimeOut, Disconnect, Close, session
<1>6. CASE RunPhase3 \/ HandOver \/ EnterIteration \/ DrainSteering \/ Ask \/ ReceiveText \/ ReceiveCalls
  BY <1>1, <1>6 DEF RunPhase3, HandOver, EnterIteration, DrainSteering, Ask, ReceiveText, ReceiveCalls, Receive,
      Finish, StopCancelled, Close, session
<1>7. CASE ConnectionFails \/ StreamFails \/ StreamCancelled \/ EndTurn
  BY <1>1, <1>7 DEF ConnectionFails, StreamFails, StreamCancelled, EndTurn, StopFailed, StopCancelled,
      Finish, Close, session
<1>8. CASE AnswerRead \/ StartCall \/ ExecuteCall \/ EndBatch \/ EndCommit \/ Leave
  BY <1>1, <1>8 DEF AnswerRead, StartCall, ExecuteCall, EndBatch, EndCommit, Leave, StopCancelled,
      Finish, Close, session
<1> QED BY <1>3, <1>4, <1>5, <1>6, <1>7, <1>8 DEF Next, Work

-----------------------------------------------------------------------------
(* What is left of a run *)

(* A query occurs twice where it is at two places. *)
LEMMA Twice ==
  ASSUME NEW X, NEW h \in Seq(X), NEW q
  PROVE  Occurrences(h, q) >= 2 <=> \E i, j \in DOMAIN h : i # j /\ h[i] = q /\ h[j] = q
<1> DEFINE At == {i \in DOMAIN h : h[i] = q}
<1>1. IsFiniteSet(At)
  <2>1. DOMAIN h = 1..Len(h) /\ Len(h) \in Nat
    OBVIOUS
  <2>2. IsFiniteSet(1..Len(h)) /\ At \subseteq 1..Len(h)
    BY <2>1, FS_Interval
  <2> QED BY <2>2, FS_Subset
<1>2. Occurrences(h, q) = Cardinality(At)
  BY DEF Occurrences
<1>3. (\E i, j \in DOMAIN h : i # j /\ h[i] = q /\ h[j] = q) <=> \E i, j \in At : i # j
  OBVIOUS
<1> HIDE DEF At
<1>4. Cardinality(At) \in Nat
  BY <1>1, FS_CardinalityType
<1>5. ASSUME NEW i \in At, NEW j \in At, i # j PROVE Cardinality(At) >= 2
  <2>1. Cardinality({i}) = 1 /\ IsFiniteSet({i})
    BY FS_Singleton
  <2>2. Cardinality({i} \cup {j}) = 2 /\ {i} \cup {j} \in SUBSET At
    <3>1. j \notin {i}
      BY <1>5
    <3>2. Cardinality({i} \cup {j}) = Cardinality({i}) + 1
      BY <2>1, <3>1, FS_AddElement
    <3>3. {i} \cup {j} \in SUBSET At
      OBVIOUS
    <3> QED BY <2>1, <3>2, <3>3
  <2>3. Cardinality({i} \cup {j}) <= Cardinality(At)
    BY <1>1, <2>2, FS_Subset
  <2> QED BY <1>4, <2>2, <2>3
<1>6. ASSUME ~\E i, j \in At : i # j PROVE ~(Cardinality(At) >= 2)
  <2>1. CASE At = {}
    BY <2>1, FS_EmptySet
  <2>2. CASE At # {}
    <3>1. PICK i \in At : TRUE
      BY <2>2
    <3>2. At = {i}
      BY <1>6
    <3>3. Cardinality(At) = 1
      BY <3>2, FS_Singleton
    <3> QED BY <3>3
  <2> QED BY <2>1, <2>2
<1> QED BY <1>2, <1>3, <1>5, <1>6

(* A call that is skipped is skipped at the next look too: the look puts its
   query at the end of the history, and drops one other entry at most. *)
LEMMA SkippedAgain ==
  ASSUME NEW call \in Calls, NEW history \in Histories, Skipped(call, history)
  PROVE  Skipped(call, Seen(call, history))
<1>1. CASE call.tool # "web_search"
  BY <1>1 DEF Skipped, Seen
<1>2. CASE call.tool = "web_search"
  <2> DEFINE q == call.arg
             h == Append(history, q)
             n == Len(history)
  <2>1. call.tool # "refused_write"
    BY <1>2
  <2>2. q \in Queries /\ Seen(call, history) = Pushed(history, q) /\ Occurrences(history, q) >= 2
    BY <1>2, <2>1, SearchCalls DEF Skipped, Redundant, Seen
  <2> HIDE DEF q
  <2>3. history \in Seq(Queries) /\ n \in Nat /\ DOMAIN history = 1..n
    BY DEF Histories
  <2>4. PICK i \in DOMAIN history, j \in DOMAIN history : i # j /\ history[i] = q /\ history[j] = q
    BY <2>2, <2>3, Twice
  <2>5. PICK k \in 2..n : history[k] = q
    BY <2>3, <2>4
  <2>6. h \in Seq(Queries) /\ DOMAIN h = 1..(n + 1) /\ Len(h) = n + 1 /\ h[k] = q /\ h[n + 1] = q
    <3> HIDE DEF n
    <3>1. Len(history) = n
      BY DEF n
    <3> QED BY <2>2, <2>3, <2>5, <3>1
  <2> HIDE DEF h, n
  <2>7. CASE Pushed(history, q) = h
    <3>1. k \in DOMAIN h /\ n + 1 \in DOMAIN h /\ k # n + 1
      BY <2>3, <2>5, <2>6
    <3>2. Occurrences(h, q) >= 2
      BY <2>6, <3>1, Twice
    <3> QED BY <1>2, <2>2, <2>7, <3>2 DEF Skipped, Redundant, q
  <2>8. CASE Pushed(history, q) = Tail(h)
    <3>1. Tail(h) \in Seq(Queries) /\ DOMAIN Tail(h) = 1..n /\ Tail(h)[k - 1] = q /\ Tail(h)[n] = q
      BY <2>3, <2>5, <2>6
    <3>2. k - 1 \in DOMAIN Tail(h) /\ n \in DOMAIN Tail(h) /\ k - 1 # n
      BY <2>3, <2>5, <3>1
    <3>3. Occurrences(Tail(h), q) >= 2
      BY <3>1, <3>2, Twice
    <3> QED BY <1>2, <2>2, <2>8, <3>3 DEF Skipped, Redundant, q
  <2>9. Pushed(history, q) \in {h, Tail(h)}
    BY <2>2, <2>3, Pushing DEF h, Histories
  <2> QED BY <2>7, <2>8, <2>9
<1> QED BY <1>1, <1>2

(* A step lowers the rank if it begins an iteration, or goes to a later stage of
   the iteration, or has less left in the stage. *)
LEMMA Lowering ==
  ASSUME Shape, Shape',
         \/ iter' = iter + 1
         \/ iter' = iter /\ Stage' < Stage
         \/ iter' = iter /\ Stage' = Stage /\ Left' \in Nat /\ Left' < Left
  PROVE  Below(Rank', Rank)
<1>1. iter \in Nat /\ iter' \in Nat /\ MaxIterations \in Nat /\ iter' <= MaxIterations
  BY Blank DEF Shape
<1>2. Stage' \in Nat
  BY DEF Stage
<1>3. Rank = <<MaxIterations - iter, Stage, Left>> /\ Rank' = <<MaxIterations - iter', Stage', Left'>>
  BY DEF Rank
<1>4. \A j \in 1..0 : FALSE
  OBVIOUS
<1>5. \A j \in 1..1 : j = 1
  OBVIOUS
<1>6. \A j \in 1..2 : j = 1 \/ j = 2
  OBVIOUS
<1>7. CASE iter' = iter + 1
  <2>1. Rank'[1] \in Nat /\ Rank'[1] < Rank[1]
    BY <1>1, <1>3, <1>7
  <2> QED BY <2>1, <1>4 DEF Below
<1>8. CASE iter' = iter /\ Stage' < Stage
  <2>1. Rank'[2] \in Nat /\ Rank'[2] < Rank[2] /\ Rank'[1] = Rank[1]
    BY <1>2, <1>3, <1>8
  <2> QED BY <2>1, <1>5 DEF Below
<1>9. CASE iter' = iter /\ Stage' = Stage /\ Left' \in Nat /\ Left' < Left
  <2>1. Rank'[3] \in Nat /\ Rank'[3] < Rank[3] /\ Rank'[1] = Rank[1] /\ Rank'[2] = Rank[2]
    BY <1>3, <1>9
  <2> QED BY <2>1, <1>6 DEF Below
<1> QED BY <1>7, <1>8, <1>9

(* Clients change nothing of what is left. *)
LEMMA ClientsWait == ASSUME Cancel \/ Steer PROVE Rank' = Rank
BY DEF Cancel, Steer, session, loop, Rank, Stage, Left, StreamLeft, BatchLeft, LookLeft, More, Current

(* The steps of a turn: to a later stage, or to the next piece or attempt of
   the answer. *)
LEMMA TurnsFall ==
  ASSUME Shape, Shape',
         \/ RunPhase3 \/ HandOver \/ EnterIteration \/ DrainSteering \/ Ask \/ ReceiveText \/ ReceiveCalls
         \/ ConnectionFails \/ StreamFails \/ StreamCancelled \/ EndTurn \/ Leave
  PROVE  pc' = "idle" \/ Below(Rank', Rank)
<1>1. ASSUME NEW offer, Close(offer) PROVE pc' = "idle"
  BY <1>1 DEF Close
<1>0. CASE RunPhase3
  BY <1>0, Lowering DEF RunPhase3, loop, Stage
<1>2. CASE HandOver
  <2>1. CASE Finish
    BY <1>1, <2>1 DEF Finish
  <2>2. CASE ~Finish
    <3>1. PICK calls : StartBatch(calls, TRUE)
      BY <1>2, <2>2 DEF HandOver
    <3>2. pc = "plan" /\ iter' = iter
      BY <1>2, <2>2 DEF HandOver
    <3>3. pc' = "batch" /\ batch'.auto
      BY <3>1 DEF StartBatch, BatchOf, NoBatch
    <3> QED BY <3>2, <3>3, Lowering DEF Stage
  <2> QED BY <2>1, <2>2
<1>3. CASE EnterIteration
  BY <1>1, <1>3, Lowering DEF EnterIteration, Finish, loop, Stage
<1>4. CASE DrainSteering
  BY <1>1, <1>4, Lowering DEF DrainSteering, StopCancelled
<1>5. CASE Ask
  BY <1>5, Lowering DEF Ask, Stage
<1>6. CASE ReceiveText \/ ReceiveCalls
  <2>1. pc = "stream" /\ pc' = "stream" /\ iter' = iter
    BY <1>6 DEF ReceiveText, ReceiveCalls, Receive
  <2>2. turn \in Turns /\ MaxRetries \in Nat
    BY Blank DEF Shape
  <2>3. /\ ~turn.emitted /\ turn'.attempt = turn.attempt
        /\ \/ turn.text = "none" /\ turn'.text # "none" /\ ~turn'.emitted
           \/ turn'.text = turn.text /\ turn'.emitted
    BY <1>6, <2>2 DEF ReceiveText, ReceiveCalls, Receive, Turns
  <2>4. StreamLeft' \in Nat /\ StreamLeft' < StreamLeft
    <3>1. turn.attempt \in Nat /\ turn.attempt <= MaxRetries + 1
      BY <2>2 DEF Turns
    <3> QED BY <2>2, <2>3, <3>1 DEF StreamLeft
  <2> QED BY <2>1, <2>4, Lowering DEF Stage, Left
<1>7. CASE ConnectionFails
  <2>1. CASE ~Retry
    BY <1>1, <1>7, <2>1 DEF ConnectionFails, StopFailed
  <2>2. CASE Retry
    <3>1. pc = "stream" /\ pc' = "stream" /\ iter' = iter
          /\ turn' = [turn EXCEPT !.attempt = @ + 1, !.emitted = FALSE]
      BY <1>7, <2>2 DEF ConnectionFails
    <3>2. turn \in Turns /\ MaxRetries \in Nat /\ turn.attempt <= MaxRetries /\ turn.text = "none"
      BY <2>2, Blank DEF Shape, Retry
    <3>3. turn'.attempt = turn.attempt + 1 /\ ~turn'.emitted /\ turn'.text = "none" /\ turn.attempt \in Nat
      BY <3>1, <3>2 DEF Turns
    <3>4. StreamLeft' \in Nat /\ StreamLeft' < StreamLeft
      BY <3>2, <3>3 DEF StreamLeft
    <3> QED BY <3>1, <3>4, Lowering DEF Stage, Left
  <2> QED BY <2>1, <2>2
<1>8. CASE StreamFails \/ StreamCancelled \/ Leave
  BY <1>1, <1>8 DEF StreamFails, StreamCancelled, Leave, StopFailed, StopCancelled, Finish
<1>9. CASE EndTurn
  <2>1. CASE turn.calls # <<>>
    <3>1. pc = "stream" /\ pc' = "batch" /\ ~batch'.auto /\ iter' = iter
      BY <1>9, <2>1 DEF EndTurn, StartBatch, BatchOf, NoBatch
    <3> QED BY <3>1, Lowering DEF Stage
  <2>2. CASE turn.calls = <<>>
    BY <1>1, <1>9, <2>2, Lowering DEF EndTurn, Finish, Stage
  <2> QED BY <2>1, <2>2
<1> QED BY <1>0, <1>2, <1>3, <1>4, <1>5, <1>6, <1>7, <1>8, <1>9

(* The steps of a batch: to the next call, to the next result of a group, or
   from a look at a call to what it decides.  A group stays empty only if its
   first call is skipped at the next look. *)
LEMMA BatchesFall ==
  ASSUME Shape, Shape', batch.at <= Len(batch.calls) + 1,
         \/ ReadGroup \/ AnswerRead \/ AnswerSkipped \/ StartCall \/ ExecuteCall
         \/ EndBatch \/ EndCommit
  PROVE  pc' = "idle" \/ Below(Rank', Rank)
<1>1. /\ batch.calls \in Seq(Calls) /\ batch.at \in Nat \ {0} /\ Len(batch.calls) \in Nat
      /\ batch.ready \in Seq(Nat) /\ batch \in Batches /\ Len(batch.ready) \in Nat
  BY DEF Shape, Batches
<1>2. LookLeft \in Nat /\ LookLeft' \in Nat /\ LookLeft <= 2 /\ LookLeft' <= 2
  BY DEF LookLeft
<1>3. More => batch.at <= Len(batch.calls) /\ batch.ready = <<>>
  BY DEF More
<1>4. ASSUME pc \in {"batch", "exec"}, pc' \in {"batch", "exec"}, iter' = iter,
             batch'.auto = batch.auto, batch'.calls = batch.calls, batch'.at \in Nat,
             batch'.at <= Len(batch.calls) + 1, Len(batch'.ready) \in Nat,
             4 * batch'.at - 2 * Len(batch'.ready) - LookLeft'
               > 4 * batch.at - 2 * Len(batch.ready) - LookLeft
      PROVE  Below(Rank', Rank)
  <2>1. BatchLeft' \in Nat /\ BatchLeft' < BatchLeft
    <3>1. BatchLeft = 4 * (Len(batch.calls) - batch.at + 1) + 2 * Len(batch.ready) + LookLeft
          /\ BatchLeft' = 4 * (Len(batch.calls) - batch'.at + 1) + 2 * Len(batch'.ready) + LookLeft'
      BY <1>4 DEF BatchLeft
    <3> DEFINE n == Len(batch.calls)
               a == batch.at
               b == batch'.at
               r == Len(batch.ready)
               s == Len(batch'.ready)
               x == LookLeft
               y == LookLeft'
    <3>2. /\ n \in Nat /\ a \in Nat /\ b \in Nat /\ r \in Nat /\ s \in Nat /\ x \in Nat /\ y \in Nat
          /\ b <= n + 1 /\ 4 * b - 2 * s - y > 4 * a - 2 * r - x
      BY <1>1, <1>2, <1>4
    <3>3. BatchLeft = 4 * (n - a + 1) + 2 * r + x /\ BatchLeft' = 4 * (n - b + 1) + 2 * s + y
      BY <3>1
    <3> HIDE DEF n, a, b, r, s, x, y
    <3> QED BY <3>2, <3>3
  <2>2. Stage' = Stage
    BY <1>4 DEF Stage
  <2> QED BY <1>4, <2>1, <2>2, Lowering DEF Left
<1>5. CASE ReadGroup
  <2>1. PICK scan :
              /\ Scanned(batch.calls, batch.at, Seen(Current, recent), scan, Len(batch.calls) - batch.at + 1)
              /\ recent' = scan.seen
              /\ batch' = [batch EXCEPT !.ready = scan.group, !.at = @ + Len(scan.group)]
    BY <1>5, Reading
  <2>2. /\ pc = "batch" /\ pc' = "batch" /\ iter' = iter /\ More
        /\ ~Skipped(Current, recent) /\ ParallelRead(Current)
    BY <1>5 DEF ReadGroup
  <2>3. /\ batch'.calls = batch.calls /\ batch'.auto = batch.auto /\ batch'.back = batch.back
        /\ batch'.ready = scan.group /\ batch'.at = batch.at + Len(scan.group)
    BY <1>1, <2>1 DEF Batches
  <2>4. scan.group \in Seq(Nat) /\ Len(scan.group) \in Nat /\ Len(scan.group) <= Len(batch.calls) - batch.at + 1
    BY <2>1 DEF Scanned, Scans
  <2>5. LookLeft = 2
    BY <2>2 DEF LookLeft
  <2>6. LookLeft' = 1
    <3>1. CASE scan.group = <<>>
      <4>1. batch'.at = batch.at
        BY <1>1, <2>3, <3>1
      <4>2. Current' = Current /\ Current = batch.calls[batch.at]
        BY <2>3, <4>1 DEF Current
      <4>3. Len(batch.calls) - batch.at + 1 # 0
        BY <1>1, <1>3, <2>2
      <4>4. scan.seen = Seen(Current, Seen(Current, recent)) /\ Skipped(Current, Seen(Current, recent))
        BY <2>1, <2>2, <3>1, <4>2, <4>3 DEF Scanned, Begun
      <4>5. Current \in Calls /\ Seen(Current, recent) \in Histories
        BY <1>5, Reading
      <4>6. Skipped(Current, scan.seen)
        BY <4>4, <4>5, SkippedAgain
      <4>7. Skipped(Current', recent')
        BY <2>1, <4>2, <4>6
      <4> QED BY <2>2, <4>7 DEF LookLeft
    <3>2. CASE scan.group # <<>>
      BY <2>2, <2>3, <3>2 DEF LookLeft, More
    <3> QED BY <3>1, <3>2
  <2>7. batch.ready = <<>>
    BY <1>3, <2>2
  <2>8. 4 * batch'.at - 2 * Len(batch'.ready) - LookLeft'
          > 4 * batch.at - 2 * Len(batch.ready) - LookLeft
    BY <1>1, <2>3, <2>4, <2>5, <2>6, <2>7
  <2>9. batch'.at \in Nat /\ batch'.at <= Len(batch.calls) + 1
    BY <1>1, <2>3, <2>4
  <2> QED BY <1>4, <2>2, <2>3, <2>4, <2>8, <2>9
<1>6. CASE AnswerRead
  <2>1. /\ batch.ready # <<>> /\ batch' = [batch EXCEPT !.ready = Tail(@), !.progress = AfterRead(@)]
        /\ pc = "batch" /\ pc' = "batch" /\ iter' = iter
    BY <1>6 DEF AnswerRead
  <2>2. /\ batch'.calls = batch.calls /\ batch'.auto = batch.auto
        /\ batch'.ready = Tail(batch.ready) /\ batch'.at = batch.at
    BY <1>1, <2>1 DEF Batches
  <2>3. Len(Tail(batch.ready)) = Len(batch.ready) - 1 /\ Len(Tail(batch.ready)) \in Nat
    BY <1>1, <2>1
  <2>4. LookLeft = 1
    BY <2>1 DEF LookLeft, More
  <2>5. 4 * batch'.at - 2 * Len(batch'.ready) - LookLeft'
          > 4 * batch.at - 2 * Len(batch.ready) - LookLeft
    BY <1>1, <1>2, <2>2, <2>3, <2>4
  <2> QED BY <1>1, <1>4, <2>1, <2>2, <2>3, <2>5
<1>7. ASSUME pc \in {"batch", "exec"}, pc' = "batch", iter' = iter, More, batch'.at = batch.at + 1,
             batch'.auto = batch.auto, batch'.calls = batch.calls, batch'.ready = batch.ready
      PROVE  Below(Rank', Rank)
  <2>1. 4 * batch'.at - 2 * Len(batch'.ready) - LookLeft'
          > 4 * batch.at - 2 * Len(batch.ready) - LookLeft
    BY <1>1, <1>2, <1>7
  <2> QED BY <1>1, <1>3, <1>4, <1>7, <2>1
<1>8. CASE AnswerSkipped
  <2>1. /\ batch' = [batch EXCEPT !.at = @ + 1, !.progress = Progressed(Current, @)]
        /\ More /\ pc = "batch" /\ pc' = "batch" /\ iter' = iter
    BY <1>8 DEF AnswerSkipped
  <2>2. /\ batch'.calls = batch.calls /\ batch'.auto = batch.auto
        /\ batch'.ready = batch.ready /\ batch'.at = batch.at + 1
    BY <1>1, <2>1 DEF Batches
  <2> QED BY <1>7, <2>1, <2>2
<1>9. CASE StartCall
  <2>1. CASE StopCancelled
    BY <2>1 DEF StopCancelled, Close
  <2>2. CASE ~StopCancelled
    <3>1. /\ pc = "batch" /\ More /\ ~Skipped(Current, recent)
          /\ pc' = "exec" /\ batch' = batch /\ iter' = iter
      BY <1>9, <2>2 DEF StartCall, loop
    <3>2. LookLeft = 2 /\ LookLeft' = 0
      BY <3>1 DEF LookLeft
    <3>3. 4 * batch'.at - 2 * Len(batch'.ready) - LookLeft'
            > 4 * batch.at - 2 * Len(batch.ready) - LookLeft
      BY <1>1, <3>1, <3>2
    <3> QED BY <1>1, <1>4, <3>1, <3>3
  <2> QED BY <2>1, <2>2
<1>10. CASE ExecuteCall
  <2>1. pc = "exec" /\ pc' = "batch" /\ More /\ iter' = iter
    BY <1>10 DEF ExecuteCall, Shape
  <2>2. \/ batch' = [batch EXCEPT !.at = @ + 1, !.progress = Progressed(Current, @)]
        \/ batch' = [[batch EXCEPT !.at = @ + 1, !.progress = Progressed(Current, @)]
                       EXCEPT !.saw = TRUE, !.back = Current.tool = "request_backtrack"]
    BY <1>10 DEF ExecuteCall
  <2>3. /\ batch'.calls = batch.calls /\ batch'.auto = batch.auto
        /\ batch'.ready = batch.ready /\ batch'.at = batch.at + 1
    BY <1>1, <2>2 DEF Batches
  <2> QED BY <1>7, <2>1, <2>3
<1>11. CASE EndBatch
  BY <1>11, Lowering DEF EndBatch, Stage
<1>12. CASE EndCommit
  <2>1. CASE ~batch.saw
    BY <1>12, <2>1 DEF EndCommit, Finish, Close
  <2>2. CASE batch.saw
    <3>1. pc = "batch" /\ batch.auto /\ pc' \in {"steer", "leave"} /\ iter' = iter
      BY <1>12, <2>2 DEF EndCommit
    <3> QED BY <3>1, Lowering DEF Stage
  <2> QED BY <2>1, <2>2
<1> QED BY <1>5, <1>6, <1>8, <1>9, <1>10, <1>11, <1>12

-----------------------------------------------------------------------------
(* The theorems *)

IInv == Shape /\ SteersAnswered /\ CancelInv /\ ToolsInv /\ GroupInv /\ SearchInv

(* What the six parts say together is inductive: every run of the loop, with
   any calls, steering messages, cancels, timeouts and disconnects, keeps it. *)
THEOREM Invariance == Spec => []IInv
<1>1. Init => IInv
  <2> SUFFICES ASSUME Init PROVE IInv
    OBVIOUS
  <2>1. Shape
    BY InitShape
  <2>2. SteersAnswered /\ CancelInv /\ ToolsInv
    BY DEF Init, SteersAnswered, CancelInv, ToolsInv, Nothing
  <2>3. GroupInv
    BY DEF Init, GroupInv, Unbroken, Strays, OpenGroups, NoBatch
  <2>4. SearchInv
    <3>1. \A q : Occurrences(<<>>, q) = 0
      BY FS_EmptySet DEF Occurrences
    <3> QED BY <3>1 DEF Init, SearchInv
  <2> QED BY <2>1, <2>2, <2>3, <2>4 DEF IInv
<1>2. IInv /\ [Next]_vars => IInv'
  BY ShapeKept, SteersKept, CancelKept, ToolsKept, GroupsKept, SearchesKept DEF IInv
<1> QED BY <1>1, <1>2, PTL DEF Spec

(* TypeOK, with the limits of iterations, attempts, the steering queue and the
   search history. *)
THEOREM TypeCorrect == Spec => []TypeOK
<1>1. IInv => TypeOK
  <2> SUFFICES ASSUME IInv PROVE TypeOK
    OBVIOUS
  <2>1. Shape /\ GroupInv /\ SteersAnswered
    BY DEF IInv
  <2>2. messages \in Seq(Entries)
    BY <2>1 DEF GroupInv, Unbroken, Answering
  <2>3. batch.at \in 1..(Len(batch.calls) + 1)
    <3>1. batch.at \in Nat \ {0} /\ Len(batch.calls) \in Nat
      BY <2>1 DEF Shape, Batches
    <3> QED BY <2>1, <3>1 DEF GroupInv
  <2>4. \A i \in DOMAIN messages :
          messages[i] \in [role : {"calls", "result", "notice"}, n : Nat]
    <3>1. \A i \in DOMAIN messages : messages[i] \in Entries
      BY <2>2
    <3> QED BY <3>1, Zenon DEF Entries
  <2>5. owed \in Int /\ turn.attempt \in 0..(MaxRetries + 1)
    BY <2>1 DEF SteersAnswered, Shape, Turns
  <2>6. offered \in (2..4) \X {"brief", "skeleton", "lock", "any"}
    BY <2>1 DEF Shape, Offers
  <2> QED BY <2>1, <2>3, <2>4, <2>5, <2>6 DEF TypeOK, Shape, Levels
<1> QED BY <1>1, Invariance, PTL

(* Every group of tool calls in the runtime messages is followed by its
   results, in order and each once, before anything else comes (append of the
   assistant message, execute_batch and the append of its results, the notices
   between iterations). *)
THEOREM GroupsStayWhole == Spec => []GroupsUnbroken
<1>1. IInv => GroupsUnbroken
  BY DEF IInv, GroupInv, GroupsUnbroken, Unbroken, Answering
<1> QED BY <1>1, Invariance, PTL

(* A query is not executed a third time as long as the search history has
   dropped none, also when a parallel group holds it several times
   (SearchHistoryTracker and the scan for a group). *)
THEOREM SearchesBounded == Spec => []SearchedAtMostTwice
<1>1. IInv => SearchedAtMostTwice
  BY DEF IInv, SearchInv, SearchedAtMostTwice
<1> QED BY <1>1, Invariance, PTL

(* A request offers the tools of the plan's phase and step: whatever a batch
   did to the plan was followed by a rebuild before the next request. *)
THEOREM ToolsFit == Spec => []ToolsMatchPlan
<1>1. IInv => ToolsMatchPlan
  BY DEF IInv, ToolsInv, ToolsMatchPlan
<1> QED BY <1>1, Invariance, PTL

(* A cancel is followed by the request that was going out and its repetitions,
   or else by one call, by searches and by one planning, which writes nothing:
   whatever looks at no cancel event is bounded by what does (_check_cancelled,
   the checks of the stream and of execute_tool_batch, the retries of chat). *)
THEOREM CancelStops == Spec => []CancelHeeded
<1>1. IInv => CancelHeeded
  <2> SUFFICES ASSUME IInv PROVE CancelHeeded
    OBVIOUS
  <2>1. Shape /\ CancelInv
    BY DEF IInv
  <2>2. MaxRetries \in Nat /\ turn.attempt \in 0..(MaxRetries + 1)
    BY <2>1, Blank DEF Shape, Turns
  <2>3. late.requests <= MaxRetries + 1
    <3>1. late.requests \in Nat /\ (late.requests > 0 => late.requests <= turn.attempt)
      BY <2>1 DEF CancelInv
    <3> QED BY <2>2, <3>1
  <2> QED BY <2>1, <2>3 DEF CancelInv, CancelHeeded
<1> QED BY <1>1, Invariance, PTL

(* No accepted steering message is lost: it is in the queue until it is
   acknowledged, and the queue is empty between runs. *)
THEOREM SteersKnown == Spec => []SteersAnswered
<1>1. IInv => SteersAnswered
  BY DEF IInv
<1> QED BY <1>1, Invariance, PTL

(* A run comes to its end whatever the limits and the answers of the model: each
   of the loop's own steps lowers a rank of three natural numbers, so no hint,
   retry, backtrack, phase 3 run, or search looked at twice can keep a run in a
   round (the while loop of AgentLoop.run, the retries of chat, the two loops of
   execute_tool_batch). *)
THEOREM RunsAdvance == Spec => RunAdvances
<1>1. IInv /\ [Next]_vars =>
        [pc # "idle" => \/ pc' = "idle" \/ Below(Rank', Rank)
                        \/ (Cancel \/ Steer) /\ Rank' = Rank]_vars
  <2> SUFFICES ASSUME IInv, Next, pc # "idle"
               PROVE  \/ pc' = "idle" \/ Below(Rank', Rank)
                      \/ (Cancel \/ Steer) /\ Rank' = Rank
    OBVIOUS
  <2>1. Shape /\ batch.at <= Len(batch.calls) + 1
    <3>1. Shape /\ GroupInv
      BY DEF IInv
    <3> QED BY <3>1 DEF GroupInv, Shape, Batches
  <2>2. Shape'
    BY <2>1, ShapeKept
  <2>3. CASE Chat \/ Continue
    BY <2>3 DEF Chat, Continue, StartRun
  <2>4. CASE Cancel \/ Steer
    BY <2>4, ClientsWait
  <2>5. CASE TimeOut \/ Disconnect
    BY <2>5 DEF TimeOut, Disconnect, Close
  <2>6. CASE Work
    BY <2>1, <2>2, <2>6, TurnsFall, BatchesFall DEF Work
  <2> QED BY <2>3, <2>4, <2>5, <2>6 DEF Next
<1> QED BY <1>1, Invariance, PTL DEF Spec, RunAdvances
=============================================================================
