------------------------ MODULE ProfileMemory_proofs ------------------------
(* For any number of sessions, slots, reports and faults: however snapshots,
   late writes and the user's requests overwrite each other, the profile
   keeps unique ids, the user's say over sensitive items and honest counts,
   and a run that ends well has handled what the model reported. *)
EXTENDS ProfileMemory, FoldLemmas

-----------------------------------------------------------------------------
(* The values the variables hold *)

Fields   == [slot : Slots, value : STRING, count : Nat]
Ids      == {IdOf(b, x) : b \in Buckets, x \in Fields}
Stored   == [id : Ids, slot : Slots, value : STRING, pii : BOOLEAN, count : Nat,
             stab : STRING \cup {"pattern_observed"}, sure : BOOLEAN, status : Statuses]
Profiles == [Buckets -> Seq(Stored)]
Puts     == [bucket : Buckets, item : Stored]
Routes   == {"profile", "working"}
Points   == {"idle", "ask", "items", "put", "asknotes", "notes", "done"}
Outcomes == {"none", "skipped", "success", "warning"}
Jobs     == [pc : Points, routes : SUBSET Routes, snap : Profiles \cup {None}, todo : Seq(Reports),
             put : Puts \cup {None}, notes : Seq(STRING), failed : BOOLEAN, saved : Nat,
             outcome : Outcomes]
Writes   == [kind : {"save", "write"}, to : Profiles]

(* An item of bucket b the file may hold: the bucket is part of its id, the
   policy would not drop it, it is active in a sensitive domain only if the
   user confirmed it, and it counts no more reports than n says there were. *)
Proper(b, x, ok, n) ==
  /\ x.id[1] = b
  /\ ~Dropped(x)
  /\ (x.slot \in Sensitive /\ x.status = "active") => x.id \in ok
  /\ x.count <= n[x.slot]

(* A profile that may be written at any time. *)
Sound(p, ok, n) ==
  \A b \in Buckets :
    /\ \A k \in DOMAIN p[b] : Proper(b, p[b][k], ok, n)
    /\ \A j, k \in DOMAIN p[b] : p[b][j].id = p[b][k].id => j = k

-----------------------------------------------------------------------------
(* The inductive invariant *)

\* the file and every copy of it that may yet be written over the file
FilesInv ==
  /\ profile \in Profiles /\ Sound(profile, confirmed, seen)
  /\ edit # None => edit \in Writes /\ Sound(edit.to, confirmed, seen)
  /\ orphan # None => orphan \in Writes /\ Sound(orphan.to, confirmed, seen)
  /\ seen \in [Slots -> Nat]

\* an extraction's own copy and the item it is about to store
CopyInv(j, ok, n) ==
  /\ j.pc \in {"items", "put"} => j.snap \in Profiles /\ Sound(j.snap, ok, n)
  /\ j.pc = "put" => /\ j.put \in Puts /\ j.todo # <<>>
                     /\ Proper(j.put.bucket, j.put.item, ok, n)

\* what is still unhandled, by how far the run is
WorkInv(j) ==
  /\ j.pc # "idle" => j.outcome = "none"
  /\ j.pc \in {"ask", "items", "put", "asknotes"} => j.notes = <<>>
  /\ (j.pc \in {"asknotes", "notes", "done"} /\ ~j.failed) => j.todo = <<>>
  /\ (j.pc = "done" /\ ~j.failed) => j.notes = <<>>
  /\ j.outcome \in {"success", "skipped"} => j.todo = <<>> /\ j.notes = <<>>

JobsInv ==
  /\ job \in [Sessions -> Jobs]
  /\ \A s \in Sessions : CopyInv(job[s], confirmed, seen) /\ WorkInv(job[s])

IInv == FilesInv /\ JobsInv

-----------------------------------------------------------------------------
(* Lists of items *)

\* no two items of a list have one id
Apart(list) == \A j, k \in DOMAIN list : list[j].id = list[k].id => j = k

(* The length of two lists put together. *)
LEMMA Joining ==
  ASSUME NEW X, NEW a \in Seq(X), NEW b \in Seq(X)
  PROVE  Len(a \o b) = Len(a) + Len(b)
OBVIOUS

(* What is left of a list after its first entry. *)
LEMMA TailOfList ==
  ASSUME NEW X, NEW a \in Seq(X), a # <<>>
  PROVE  Tail(a) \in Seq(X) /\ Head(a) \in X
OBVIOUS

(* Removing an entry keeps the others, in their order. *)
LEMMA Removing ==
  ASSUME NEW X, NEW list \in Seq(X), NEW k \in DOMAIN list
  PROVE  /\ RemoveAt(list, k) \in Seq(X)
         /\ \A i \in DOMAIN RemoveAt(list, k) :
              LET o == IF i < k THEN i ELSE i + 1
              IN  o \in DOMAIN list /\ RemoveAt(list, k)[i] = list[o]
<1> DEFINE front == SubSeq(list, 1, k - 1)
           back  == SubSeq(list, k + 1, Len(list))
           n == Len(list)
<1>1. n \in Nat /\ DOMAIN list = 1..n /\ k \in 1..n
  OBVIOUS
<1>2. front \in Seq(X) /\ Len(front) = k - 1 /\ \A i \in 1..(k - 1) : front[i] = list[i]
  BY <1>1
<1>3. back \in Seq(X) /\ Len(back) = n - k /\ \A i \in 1..(n - k) : back[i] = list[k + i]
  BY <1>1
<1>4. RemoveAt(list, k) = front \o back
  BY DEF RemoveAt
<1> HIDE DEF front, back
<1>5. RemoveAt(list, k) \in Seq(X)
  BY <1>2, <1>3, <1>4
<1>6. DOMAIN RemoveAt(list, k) = 1..(n - 1)
  <2>1. Len(front \o back) = Len(front) + Len(back)
    <3>1. front \in Seq(X) /\ back \in Seq(X)
      BY <1>2, <1>3
    <3> QED BY <3>1, Joining
  <2>2. Len(front \o back) = n - 1
    BY <1>1, <1>2, <1>3, <2>1
  <2> QED BY <1>4, <1>5, <2>2
<1>7. ASSUME NEW i \in 1..(n - 1), i < k PROVE i \in DOMAIN list /\ RemoveAt(list, k)[i] = list[i]
  BY <1>1, <1>2, <1>3, <1>4, <1>7
<1>8. ASSUME NEW i \in 1..(n - 1), ~(i < k) PROVE i + 1 \in DOMAIN list /\ RemoveAt(list, k)[i] = list[i + 1]
  <2>1. (front \o back)[i] = back[i - (k - 1)]
    BY <1>1, <1>2, <1>3, <1>8
  <2>2. i - (k - 1) \in 1..(n - k) /\ k + (i - (k - 1)) = i + 1
    BY <1>1, <1>8
  <2>3. back[i - (k - 1)] = list[k + (i - (k - 1))]
    BY <1>3, <2>2
  <2>4. i + 1 \in DOMAIN list
    BY <1>1, <1>8
  <2> HIDE DEF n
  <2> QED BY <1>4, <2>1, <2>2, <2>3, <2>4
<1> QED BY <1>5, <1>6, <1>7, <1>8

(* Upserting replaces the first entry of the same id or appends. *)
LEMMA Upserting ==
  ASSUME NEW X, NEW list \in Seq(X), NEW x \in X
  PROVE  /\ Upsert(list, x) \in Seq(X)
         /\ \A i \in DOMAIN Upsert(list, x) :
              Upsert(list, x)[i] = x \/ (i \in DOMAIN list /\ Upsert(list, x)[i] = list[i])
         /\ Apart(list) => Apart(Upsert(list, x))
<1> DEFINE same == {i \in 1..Len(list) : list[i].id = x.id}
           at == SelectInSeq(list, LAMBDA y : y.id = x.id)
           up == Upsert(list, x)
<1>1. at = IF same # {} THEN Min(same) ELSE 0
  BY Zenon DEF SelectInSeq
<1>2. up = IF at = 0 THEN Append(list, x) ELSE ReplaceAt(list, at, x)
  BY Zenon DEF Upsert
<1> HIDE DEF at, up
<1>3. Len(list) \in Nat /\ DOMAIN list = 1..Len(list)
  OBVIOUS
<1>4. CASE same = {}
  <2>1. up = Append(list, x)
    BY <1>1, <1>2, <1>4
  <2>2. /\ up \in Seq(X) /\ DOMAIN up = 1..(Len(list) + 1)
        /\ \A i \in DOMAIN up : up[i] = IF i = Len(list) + 1 THEN x ELSE list[i]
    BY <1>3, <2>1
  <2>3. \A i \in DOMAIN up : i = Len(list) + 1 \/ i \in DOMAIN list
    BY <1>3, <2>2
  <2>4. \A i \in DOMAIN list : list[i].id # x.id
    BY <1>3, <1>4
  <2> HIDE DEF same
  <2>5. Apart(list) => Apart(up)
    BY <2>2, <2>3, <2>4 DEF Apart
  <2> QED BY <2>2, <2>3, <2>5 DEF up
<1>5. CASE same # {}
  <2>1. at \in same /\ at # 0
    <3>1. same \in SUBSET Nat
      OBVIOUS
    <3>2. Min(same) \in same
      <4> HIDE DEF same
      <4> QED BY <1>5, <3>1, FirstOfSome
    <3> QED BY <1>1, <1>5, <3>2
  <2>2. up = [list EXCEPT ![at] = x] /\ at \in DOMAIN list /\ list[at].id = x.id
    BY <1>2, <1>3, <2>1 DEF ReplaceAt
  <2> HIDE DEF same
  <2>3. /\ up \in Seq(X) /\ DOMAIN up = DOMAIN list
        /\ \A i \in DOMAIN up : up[i] = IF i = at THEN x ELSE list[i]
    BY <1>3, <2>2
  <2>4. Apart(list) => Apart(up)
    BY <2>2, <2>3 DEF Apart
  <2> QED BY <2>3, <2>4 DEF up
<1> QED BY <1>4, <1>5

-----------------------------------------------------------------------------
(* Writing a profile *)

(* More confirmations and more reports never make an item improper. *)
LEMMA Later ==
  ASSUME NEW n \in [Slots -> Nat], NEW m \in [Slots -> Nat], \A x \in Slots : n[x] <= m[x],
         NEW ok, NEW more, ok \subseteq more
  PROVE  /\ \A b : \A x \in Stored : Proper(b, x, ok, n) => Proper(b, x, more, m)
         /\ \A p \in Profiles : Sound(p, ok, n) => Sound(p, more, m)
<1>1. ASSUME NEW b, NEW x \in Stored, Proper(b, x, ok, n) PROVE Proper(b, x, more, m)
  <2>1. x.slot \in Slots /\ x.count \in Nat
    BY DEF Stored
  <2>2. n[x.slot] <= m[x.slot] /\ n[x.slot] \in Nat /\ m[x.slot] \in Nat
    BY <2>1
  <2>3. x.count <= m[x.slot]
    BY <1>1, <2>1, <2>2 DEF Proper
  <2> QED BY <1>1, <2>3 DEF Proper
<1>2. ASSUME NEW p \in Profiles, Sound(p, ok, n) PROVE Sound(p, more, m)
  <2>1. ASSUME NEW b \in Buckets, NEW k \in DOMAIN p[b] PROVE Proper(b, p[b][k], more, m)
    <3>1. p[b] \in Seq(Stored)
      BY DEF Profiles
    <3>2. p[b][k] \in Stored
      BY <3>1
    <3>3. Proper(b, p[b][k], ok, n)
      BY <1>2 DEF Sound
    <3> QED BY <1>1, <3>2, <3>3
  <2> QED BY <1>2, <2>1 DEF Sound
<1>3. \A b : \A x \in Stored : Proper(b, x, ok, n) => Proper(b, x, more, m)
  BY <1>1
<1> QED BY <1>2, <1>3

(* A profile is sound when one list of it is replaced by a sound one. *)
LEMMA OneList ==
  ASSUME NEW p \in Profiles, NEW b \in Buckets, NEW list \in Seq(Stored),
         NEW ok, NEW n, NEW more, Sound(p, ok, n),
         \A x \in Stored : \A c : Proper(c, x, ok, n) => Proper(c, x, more, n),
         \A k \in DOMAIN list : Proper(b, list[k], more, n), Apart(list)
  PROVE  [p EXCEPT ![b] = list] \in Profiles /\ Sound([p EXCEPT ![b] = list], more, n)
<1> DEFINE q == [p EXCEPT ![b] = list]
<1>1. q \in Profiles /\ \A c \in Buckets : q[c] = IF c = b THEN list ELSE p[c]
  BY DEF Profiles
<1> HIDE DEF q
<1>2. ASSUME NEW c \in Buckets
      PROVE  (\A k \in DOMAIN q[c] : Proper(c, q[c][k], more, n)) /\ Apart(q[c])
  <2>1. CASE c = b
    BY <1>1, <2>1
  <2>2. CASE c # b
    <3>1. q[c] = p[c] /\ p[c] \in Seq(Stored)
      BY <1>1, <2>2 DEF Profiles
    <3>2. \A k \in DOMAIN p[c] : p[c][k] \in Stored /\ Proper(c, p[c][k], ok, n)
      BY <3>1 DEF Sound
    <3>3. Apart(p[c])
      BY DEF Sound, Apart
    <3> QED BY <3>1, <3>2, <3>3
  <2> QED BY <2>1, <2>2
<1>3. Sound(q, more, n)
  BY <1>2, Zenon DEF Sound, Apart
<1> QED BY <1>1, <1>3 DEF q

(* Storing a proper item. *)
LEMMA Storing ==
  ASSUME NEW p \in Profiles, NEW put \in Puts, NEW ok, NEW n,
         Sound(p, ok, n), Proper(put.bucket, put.item, ok, n)
  PROVE  UpsertProfile(p, put) \in Profiles /\ Sound(UpsertProfile(p, put), ok, n)
<1> DEFINE b == put.bucket
           list == Upsert(p[b], put.item)
<1>1. b \in Buckets /\ put.item \in Stored
  BY DEF Puts
<1>2. p[b] \in Seq(Stored)
  BY <1>1 DEF Profiles
<1>3. Apart(p[b]) /\ \A k \in DOMAIN p[b] : Proper(b, p[b][k], ok, n)
  BY <1>1 DEF Sound, Apart
<1>4. /\ list \in Seq(Stored) /\ Apart(list)
      /\ \A i \in DOMAIN list : list[i] = put.item \/ (i \in DOMAIN p[b] /\ list[i] = p[b][i])
  <2> HIDE DEF b
  <2> QED BY <1>1, <1>2, <1>3, Upserting
<1>5. UpsertProfile(p, put) = [p EXCEPT ![b] = list]
  <2>1. [p EXCEPT ![put.bucket] = Upsert(@, put.item)] = [p EXCEPT ![b] = list]
    BY <1>1 DEF Profiles
  <2> QED BY <2>1 DEF UpsertProfile
<1> HIDE DEF list
<1>6. \A i \in DOMAIN list : Proper(b, list[i], ok, n)
  BY <1>3, <1>4
<1>7. \A x \in Stored : \A c : Proper(c, x, ok, n) => Proper(c, x, ok, n)
  OBVIOUS
<1> HIDE DEF b
<1>8. [p EXCEPT ![b] = list] \in Profiles /\ Sound([p EXCEPT ![b] = list], ok, n)
  <2>1. b \in Buckets
    BY <1>1 DEF b
  <2> QED BY <2>1, <1>4, <1>6, <1>7, OneList
<1> QED BY <1>5, <1>8

(* Deleting an item. *)
LEMMA Deleting ==
  ASSUME NEW p \in Profiles, NEW b \in Buckets, NEW k \in DOMAIN p[b], NEW ok, NEW n, Sound(p, ok, n)
  PROVE  /\ [p EXCEPT ![b] = RemoveAt(@, k)] \in Profiles
         /\ Sound([p EXCEPT ![b] = RemoveAt(@, k)], ok, n)
<1> DEFINE list == RemoveAt(p[b], k)
           Old(i) == IF i < k THEN i ELSE i + 1
<1>1. p[b] \in Seq(Stored)
  BY DEF Profiles
<1>2. list \in Seq(Stored) /\ \A i \in DOMAIN list : Old(i) \in DOMAIN p[b] /\ list[i] = p[b][Old(i)]
  BY <1>1, Removing, Zenon
<1>3. Apart(p[b]) /\ \A i \in DOMAIN p[b] : Proper(b, p[b][i], ok, n)
  BY DEF Sound, Apart
<1> HIDE DEF list
<1>4. \A i \in DOMAIN list : Proper(b, list[i], ok, n)
  <2> HIDE DEF Old
  <2> QED BY <1>2, <1>3
<1>5. Apart(list)
  <2>1. ASSUME NEW i \in DOMAIN list, NEW j \in DOMAIN list, list[i].id = list[j].id PROVE i = j
    <3>1. Old(i) = Old(j)
      <4> HIDE DEF Old
      <4> QED BY <1>2, <1>3, <2>1 DEF Apart
    <3>2. i \in Nat /\ j \in Nat /\ k \in Nat
      BY <1>1, <1>2
    <3> QED BY <3>1, <3>2
  <2> QED BY <2>1 DEF Apart
<1>6. [p EXCEPT ![b] = RemoveAt(@, k)] = [p EXCEPT ![b] = list]
  BY DEF Profiles, list
<1>7. \A x \in Stored : \A c : Proper(c, x, ok, n) => Proper(c, x, ok, n)
  OBVIOUS
<1> QED BY <1>2, <1>4, <1>5, <1>6, <1>7, OneList

(* The user's word on an item: what becomes active counts as confirmed. *)
LEMMA Marking ==
  ASSUME NEW p \in Profiles, NEW b \in Buckets, NEW k \in DOMAIN p[b], NEW ok, NEW n, Sound(p, ok, n),
         NEW status \in {"active", "rejected", "obsolete"}, NEW more, ok \subseteq more,
         status = "active" => p[b][k].id \in more
  PROVE  SetStatus(p, b, k, status) \in Profiles /\ Sound(SetStatus(p, b, k, status), more, n)
<1> DEFINE x == p[b][k]
           y == [x EXCEPT !.status = status]
           list == [p[b] EXCEPT ![k] = y]
           q == SetStatus(p, b, k, status)
           deletes == status = "obsolete" \/ (b = "preference_hypotheses" /\ status = "rejected")
<1>1. p[b] \in Seq(Stored) /\ x \in Stored
  BY DEF Profiles
<1>2. \A z \in Stored : \A c : Proper(c, z, ok, n) => Proper(c, z, more, n)
  BY DEF Proper
<1>3. Apart(p[b]) /\ \A i \in DOMAIN p[b] : Proper(b, p[b][i], ok, n)
  BY DEF Sound, Apart
<1>4. CASE deletes
  <2>1. q = [p EXCEPT ![b] = RemoveAt(@, k)]
    BY <1>4 DEF SetStatus
  <2> DEFINE r == [p EXCEPT ![b] = RemoveAt(@, k)]
  <2>2. r \in Profiles /\ Sound(r, ok, n)
    BY Deleting
  <2> HIDE DEF r
  <2>3. Sound(r, more, n)
    <3>1. ASSUME NEW c \in Buckets, NEW i \in DOMAIN r[c] PROVE Proper(c, r[c][i], more, n)
      <4>1. r[c] \in Seq(Stored)
        BY <2>2 DEF Profiles
      <4>2. r[c][i] \in Stored /\ Proper(c, r[c][i], ok, n)
        BY <2>2, <4>1 DEF Sound
      <4> QED BY <1>2, <4>2
    <3> QED BY <2>2, <3>1 DEF Sound
  <2> QED BY <2>1, <2>2, <2>3 DEF r
<1>5. CASE ~deletes
  <2>1. status \in Statuses
    BY <1>5 DEF Statuses
  <2>2. /\ y \in Stored
        /\ y.id = x.id /\ y.slot = x.slot /\ y.pii = x.pii /\ y.count = x.count /\ y.status = status
    BY <1>1, <2>1 DEF Stored
  <2>3. q = [p EXCEPT ![b] = list]
    <3>1. q = [p EXCEPT ![b][k].status = status]
      BY <1>5 DEF SetStatus
    <3>2. [p EXCEPT ![b][k].status = status] = [p EXCEPT ![b] = list]
      BY DEF Profiles
    <3> QED BY <3>1, <3>2
  <2> HIDE DEF y
  <2>4. list \in Seq(Stored) /\ DOMAIN list = DOMAIN p[b]
    BY <1>1, <2>2
  <2>5. \A i \in DOMAIN list : list[i] = IF i = k THEN y ELSE p[b][i]
    BY <1>1, <2>4
  <2> HIDE DEF list
  <2>6. Proper(b, y, more, n)
    BY <1>3, <2>2 DEF Proper, Dropped
  <2>7. \A i \in DOMAIN list : Proper(b, list[i], more, n)
    <3>1. ASSUME NEW i \in DOMAIN list, i # k PROVE Proper(b, list[i], more, n)
      <4>1. list[i] = p[b][i] /\ p[b][i] \in Stored
        BY <1>1, <2>4, <2>5, <3>1
      <4> QED BY <1>2, <1>3, <2>4, <4>1
    <3> QED BY <2>5, <2>6, <3>1
  <2>8. Apart(list)
    BY <1>3, <2>2, <2>4, <2>5 DEF Apart
  <2>9. [p EXCEPT ![b] = list] \in Profiles /\ Sound([p EXCEPT ![b] = list], more, n)
    <3> HIDE DEF q, deletes, x
    <3> QED BY <1>2, <2>4, <2>7, <2>8, OneList
  <2> HIDE DEF list
  <2> QED BY <2>3, <2>9
<1> QED BY <1>4, <1>5

-----------------------------------------------------------------------------
(* Merging a report *)

(* What is left of a reported list when the entries that do not convert are out. *)
LEMMA Parsing ==
  ASSUME NEW reported \in Seq(Reports)
  PROVE  Parsed(reported) \in Seq(Reports)
<1>1. Parsed(reported) = Sifted(reported, Convertible)
  BY DEF Parsed, Sifted
<1> QED BY <1>1, Sifting

(* A match is an entry of the profile, of the slot of the report. *)
LEMMA Matching ==
  ASSUME NEW p \in Profiles, NEW r \in Reports, Match(p, r.bucket, r) # NoMatch
  PROVE  LET hit == Match(p, r.bucket, r)
         IN  /\ hit.bucket \in Buckets /\ hit.at \in DOMAIN p[hit.bucket]
             /\ p[hit.bucket][hit.at].slot = r.slot
<1> DEFINE b == r.bucket
           order == SearchOrder(b)
           found == {i \in DOMAIN order : IndexIn(p, order[i], b, r) # 0}
           first == order[Min(found)]
           like == {k \in 1..Len(p[first]) : SameIdentity(b, p[first][k], r)}
           at == IndexIn(p, first, b, r)
<1>1. Match(p, b, r) = IF found = {} THEN NoMatch ELSE [bucket |-> first, at |-> at]
  BY Zenon DEF Match
<1>2. found # {}
  BY <1>1
<1>3. b \in Buckets /\ DOMAIN order \subseteq {1, 2} /\ \A i \in DOMAIN order : order[i] \in Buckets
  BY DEF Reports, SearchOrder, Buckets
<1>4. Min(found) \in found
  <2>1. found \in SUBSET Nat
    BY <1>3
  <2> HIDE DEF found
  <2> QED BY <1>2, <2>1, FirstOfSome
<1>5. first \in Buckets /\ at # 0
  BY <1>3, <1>4
<1>6. at = IF like # {} THEN Min(like) ELSE 0
  BY Zenon DEF IndexIn, SelectInSeq
<1> HIDE DEF first, at
<1>7. at \in like
  <2>1. like \in SUBSET Nat /\ like # {}
    BY <1>5, <1>6
  <2> HIDE DEF like
  <2> QED BY <1>6, <2>1, FirstOfSome
<1>8. at \in DOMAIN p[first] /\ p[first][at].slot = r.slot
  <2>1. p[first] \in Seq(Stored)
    BY <1>5 DEF Profiles
  <2> QED BY <1>7, <2>1 DEF SameIdentity
<1>9. Match(p, r.bucket, r) = [bucket |-> first, at |-> at]
  <2> HIDE DEF found
  <2> QED BY <1>1, <1>2 DEF b
<1> HIDE DEF b, order, found, like
<1> QED BY <1>5, <1>8, <1>9

(* What a report and the entry it was matched with are merged into is proper
   once the report is counted. *)
LEMMA Merging ==
  ASSUME NEW r \in Reports, NEW old, NEW n \in [Slots -> Nat], NEW ok,
         old = None \/ (old \in Stored /\ old.slot = r.slot /\ old.count <= n[r.slot]),
         Classify(MergedBucket(r.bucket, Count(old)), Merge(r.bucket, r, old)) # "drop"
  PROVE  LET item == Merge(r.bucket, r, old)
             to   == MergedBucket(r.bucket, item.count)
         IN  /\ to \in Buckets /\ Sanitized(to, item) \in Stored
             /\ Proper(to, Sanitized(to, item), ok, [n EXCEPT ![r.slot] = @ + 1])
<1> DEFINE item == Merge(r.bucket, r, old)
           to == MergedBucket(r.bucket, item.count)
           x == Sanitized(to, item)
           fields == [slot |-> item.slot, value |-> item.value, count |-> item.count]
           sure == r.conf = "high" \/ (old # None /\ old.sure)
           stab == IF MergedBucket(r.bucket, Count(old)) # r.bucket THEN "pattern_observed" ELSE r.stab
           m == [n EXCEPT ![r.slot] = @ + 1]
<1>1. /\ r.bucket \in Buckets /\ r.slot \in Slots /\ r.value \in STRING /\ r.stab \in STRING
      /\ r.pii \in BOOLEAN
  BY DEF Reports
<1>2. item = [slot |-> r.slot, value |-> r.value, pii |-> r.pii, count |-> Count(old),
              stab |-> stab, sure |-> sure]
  BY Zenon DEF Merge
<1>3. stab \in STRING \cup {"pattern_observed"}
  BY <1>1
<1>4. sure \in BOOLEAN
  BY DEF Stored
<1>5. Count(old) \in Nat /\ Count(old) <= n[r.slot] + 1
  <2>1. n[r.slot] \in Nat
    BY <1>1
  <2>2. CASE old = None
    BY <2>1, <2>2 DEF Count
  <2>3. CASE old # None
    <3>1. old.count \in Nat /\ old.count <= n[r.slot]
      BY <2>3 DEF Stored
    <3> QED BY <2>1, <2>3, <3>1 DEF Count
  <2> QED BY <2>2, <2>3
<1> HIDE DEF stab, sure, item
<1>6. /\ item.slot = r.slot /\ item.value = r.value /\ item.pii = r.pii /\ item.count = Count(old)
      /\ item.stab = stab /\ item.sure = sure
  BY <1>2
<1>7. to \in Buckets
  BY <1>1 DEF MergedBucket, Buckets
<1>8. Classify(to, item) # "drop" /\ Classify(to, item) \in Statuses \cup {"drop"}
  <2>1. Classify(to, item) # "drop"
    BY <1>6 DEF item
  <2>2. Classify(to, item) \in Statuses \cup {"drop"}
    BY DEF Classify, Statuses
  <2> QED BY <2>1, <2>2
<1> HIDE DEF to
<1>9. IdOf(to, item) \in Ids /\ IdOf(to, item)[1] = to
  <2>1. fields \in Fields
    BY <1>1, <1>5, <1>6 DEF Fields
  <2>2. IdOf(to, item) = IdOf(to, fields)
    BY DEF IdOf
  <2> HIDE DEF fields
  <2>3. IdOf(to, item) \in Ids
    BY <1>7, <2>1, <2>2 DEF Ids
  <2>4. IdOf(to, item)[1] = to
    BY DEF IdOf
  <2> QED BY <2>3, <2>4
<1>10. x = [id |-> IdOf(to, item), slot |-> r.slot, value |-> r.value, pii |-> r.pii,
            count |-> Count(old), stab |-> stab, sure |-> sure, status |-> Classify(to, item)]
  BY <1>6 DEF Sanitized
<1> HIDE DEF x
<1>11. x \in Stored
  BY <1>1, <1>3, <1>4, <1>5, <1>8, <1>9, <1>10 DEF Stored
<1>12. /\ x.id = IdOf(to, item) /\ x.slot = r.slot /\ x.pii = r.pii /\ x.count = Count(old)
       /\ x.status = Classify(to, item)
  BY <1>10
<1>13. ~Dropped(x) /\ ~(x.slot \in Sensitive /\ x.status = "active")
  <2>1. ~Dropped(item)
    BY <1>8 DEF Classify
  <2>2. ~Dropped(x)
    BY <1>6, <1>12, <2>1 DEF Dropped
  <2>3. ~(item.slot \in Sensitive /\ Classify(to, item) = "active")
    BY DEF Classify
  <2> QED BY <1>6, <1>12, <2>2, <2>3
<1>14. x.count <= m[x.slot]
  <2>1. m[r.slot] = n[r.slot] + 1
    BY <1>1
  <2> HIDE DEF m
  <2> QED BY <1>5, <1>12, <2>1
<1>15. Proper(to, x, ok, m)
  <2> HIDE DEF m
  <2> QED BY <1>9, <1>12, <1>13, <1>14 DEF Proper
<1> HIDE DEF m
<1> QED BY <1>7, <1>11, <1>15 DEF item, to, x, m

-----------------------------------------------------------------------------
(* The initial state *)

(* The items of a profile are finitely many. *)
LEMMA ItemsFinite ==
  ASSUME NEW p \in Profiles
  PROVE  IsFiniteSet(Items(p))
<1> DEFINE Of(b) == {p[b][k] : k \in DOMAIN p[b]}
           lists == {Of(b) : b \in Buckets}
<1>1. ASSUME NEW b \in Buckets PROVE IsFiniteSet(Of(b))
  <2>1. p[b] \in Seq(Stored)
    BY DEF Profiles
  <2>2. DOMAIN p[b] = 1..Len(p[b]) /\ Len(p[b]) \in Nat
    BY <2>1
  <2>3. IsFiniteSet(DOMAIN p[b])
    BY <2>2, FS_Interval
  <2> QED BY <2>3, FiniteImage
<1>2. IsFiniteSet(lists)
  <2>1. IsFiniteSet(Buckets)
    <3>1. IsFiniteSet({}) /\ Buckets = ((({} \cup {"constraints"}) \cup {"rejections"})
                                         \cup {"stable_preferences"}) \cup {"preference_hypotheses"}
      BY FS_EmptySet DEF Buckets
    <3> QED BY <3>1, FS_AddElement
  <2> DEFINE of == [b \in Buckets |-> Of(b)]
  <2>2. lists = {of[b] : b \in Buckets}
    OBVIOUS
  <2> HIDE DEF of, lists
  <2> QED BY <2>1, <2>2, FiniteImage
<1>3. \A T \in lists : IsFiniteSet(T)
  <2> HIDE DEF Of
  <2> QED BY <1>1
<1>4. Items(p) = UNION lists
  BY DEF Items
<1> HIDE DEF lists
<1> QED BY <1>2, <1>3, <1>4, FS_UNION

\* the reports of a slot that a profile shows
Shown(p) == [x \in Slots |-> Cardinality({i \in Items(p) : i.slot = x})]

(* Every slot of a profile's items is shown at least once. *)
LEMMA Showing ==
  ASSUME NEW p \in Profiles
  PROVE  /\ Shown(p) \in [Slots -> Nat]
         /\ \A b \in Buckets : \A k \in DOMAIN p[b] : 1 <= Shown(p)[p[b][k].slot]
<1> DEFINE Those(x) == {i \in Items(p) : i.slot = x}
<1>1. \A x : IsFiniteSet(Those(x)) /\ Cardinality(Those(x)) \in Nat
  <2>1. \A x : Those(x) \subseteq Items(p)
    OBVIOUS
  <2> HIDE DEF Those
  <2> QED BY <2>1, ItemsFinite, FS_Subset, FS_CardinalityType
<1>2. Shown(p) \in [Slots -> Nat]
  BY <1>1 DEF Shown
<1>3. ASSUME NEW b \in Buckets, NEW k \in DOMAIN p[b] PROVE 1 <= Shown(p)[p[b][k].slot]
  <2> DEFINE y == p[b][k]
  <2>1. y \in Stored
    <3>1. p[b] \in Seq(Stored)
      BY DEF Profiles
    <3> QED BY <3>1
  <2>2. y.slot \in Slots
    BY <2>1 DEF Stored
  <2>3. y \in Those(y.slot)
    BY DEF Items
  <2>4. Shown(p)[y.slot] = Cardinality(Those(y.slot))
    BY <2>2 DEF Shown
  <2> HIDE DEF y, Those
  <2>5. Those(y.slot) # {}
    BY <2>3
  <2>6. Cardinality(Those(y.slot)) \in Nat /\ Cardinality(Those(y.slot)) # 0
    BY <1>1, <2>5, FS_EmptySet
  <2> QED BY <2>4, <2>6 DEF y
<1> QED BY <1>2, <1>3

(* What earlier turns may have left is sound. *)
LEMMA Starting ==
  ASSUME NEW p \in {EmptyProfile} \cup Earlier
  PROVE  p \in Profiles /\ Sound(p, {}, Shown(p))
<1>1. CASE p = EmptyProfile
  <2>1. p = [b \in Buckets |-> <<>>]
    BY <1>1 DEF EmptyProfile
  <2>2. p \in Profiles
    BY <2>1 DEF Profiles
  <2>3. \A b \in Buckets : DOMAIN p[b] = {}
    BY <2>1
  <2> QED BY <2>2, <2>3 DEF Sound
<1>2. CASE p \in Earlier
  <2>1. /\ \A b \in Buckets : Len(p[b]) \in Nat
        /\ p = [b \in Buckets |-> [k \in 1..Len(p[b]) |-> Sanitized(b, p[b][k])]]
    BY <1>2, EarlierAssumption
  <2>2. ASSUME NEW b \in Buckets, NEW k \in DOMAIN p[b]
        PROVE  /\ p[b][k].slot \in Slots /\ p[b][k].value \in STRING /\ p[b][k].stab \in STRING
               /\ p[b][k].sure \in BOOLEAN /\ p[b][k].count = 1 /\ ~Dropped(p[b][k])
               /\ p[b][k].pii \in BOOLEAN
               /\ \A j \in DOMAIN p[b] : p[b][j].id = p[b][k].id => j = k
    BY <1>2, <2>2, EarlierAssumption DEF Count
  <2>3. \A b \in Buckets : p[b] = [k \in 1..Len(p[b]) |-> Sanitized(b, p[b][k])]
    BY <2>1, Zenon
  <2>4. ASSUME NEW b \in Buckets, NEW k \in DOMAIN p[b]
        PROVE  /\ p[b][k] \in Stored /\ p[b][k].id[1] = b
               /\ ~(p[b][k].slot \in Sensitive /\ p[b][k].status = "active")
    <3> DEFINE x == p[b][k]
               fields == [slot |-> x.slot, value |-> x.value, count |-> x.count]
    <3>1. DOMAIN p[b] = 1..Len(p[b])
      BY <2>3
    <3>2. x = Sanitized(b, x)
      BY <2>3, <3>1
    <3>3. /\ x.slot \in Slots /\ x.value \in STRING /\ x.stab \in STRING
          /\ x.sure \in BOOLEAN /\ x.count = 1 /\ ~Dropped(x) /\ x.pii \in BOOLEAN
      BY <2>2
    <3> HIDE DEF x
    <3>4. x = [id |-> IdOf(b, x), slot |-> x.slot, value |-> x.value, pii |-> x.pii,
               count |-> x.count, stab |-> x.stab, sure |-> x.sure, status |-> Classify(b, x)]
      BY <3>2, Zenon DEF Sanitized
    <3>5. IdOf(b, x) \in Ids /\ IdOf(b, x)[1] = b
      <4>1. fields \in Fields
        BY <3>3 DEF Fields
      <4>2. IdOf(b, x) = IdOf(b, fields)
        BY DEF IdOf
      <4> HIDE DEF fields
      <4>3. IdOf(b, x) \in Ids
        BY <4>1, <4>2 DEF Ids
      <4>4. IdOf(b, x)[1] = b
        BY DEF IdOf
      <4> QED BY <4>3, <4>4
    <3>6. Classify(b, x) \in Statuses
      BY <3>3 DEF Classify, Statuses
    <3>7. x.id = IdOf(b, x) /\ x.status = Classify(b, x)
      BY <3>4
    <3>8. x \in Stored
      <4>1. x.count \in Nat
        BY <3>3
      <4> QED BY <3>3, <3>4, <3>5, <3>6, <4>1 DEF Stored
    <3>9. ~(x.slot \in Sensitive /\ Classify(b, x) = "active")
      BY DEF Classify
    <3> QED BY <3>5, <3>7, <3>8, <3>9 DEF x
  <2>5. p \in Profiles
    <3>1. ASSUME NEW b \in Buckets PROVE p[b] \in Seq(Stored)
      <4> DEFINE n == Len(p[b])
                 At(k) == Sanitized(b, p[b][k])
      <4>1. n \in Nat /\ p[b] = [k \in 1..n |-> At(k)] /\ DOMAIN p[b] = 1..n
        BY <2>1, <2>3
      <4>2. \A k \in 1..n : At(k) \in Stored
        BY <2>4, <4>1
      <4> HIDE DEF n, At
      <4>3. [k \in 1..n |-> At(k)] \in Seq(Stored)
        BY <4>1, <4>2
      <4> QED BY <4>1, <4>3
    <3> DEFINE List(b) == [k \in 1..Len(p[b]) |-> Sanitized(b, p[b][k])]
    <3>2. p = [b \in Buckets |-> List(b)]
      BY <2>1, Zenon
    <3> HIDE DEF List
    <3> QED BY <3>1, <3>2 DEF Profiles
  <2>6. ASSUME NEW b \in Buckets, NEW k \in DOMAIN p[b] PROVE Proper(b, p[b][k], {}, Shown(p))
    <3>1. 1 <= Shown(p)[p[b][k].slot]
      BY <2>5, Showing
    <3>2. p[b][k].count = 1 /\ ~Dropped(p[b][k])
      BY <2>2
    <3> QED BY <2>4, <3>1, <3>2 DEF Proper
  <2>7. Sound(p, {}, Shown(p))
    BY <2>2, <2>6 DEF Sound
  <2> QED BY <2>5, <2>7
<1> QED BY <1>1, <1>2

(* The initial state satisfies the invariant. *)
LEMMA Initially == Init => IInv
<1> SUFFICES ASSUME Init PROVE IInv
  OBVIOUS
<1>1. profile \in {EmptyProfile} \cup Earlier /\ seen = Shown(profile)
  BY DEF Init, Shown
<1>2. FilesInv
  <2>1. profile \in Profiles /\ Sound(profile, {}, Shown(profile))
    BY <1>1, Starting
  <2>2. seen \in [Slots -> Nat]
    BY <1>1, <2>1, Showing
  <2>3. edit = None /\ orphan = None /\ confirmed = {}
    BY DEF Init
  <2> QED BY <1>1, <2>1, <2>2, <2>3 DEF FilesInv
<1>3. JobsInv
  <2>1. job = [s \in Sessions |-> Idle]
    BY DEF Init
  <2>2. Idle \in Jobs
    <3>1. <<>> \in Seq(Reports) /\ <<>> \in Seq(STRING)
      OBVIOUS
    <3> QED BY <3>1 DEF Idle, Jobs, Points, Outcomes
  <2>3. CopyInv(Idle, confirmed, seen) /\ WorkInv(Idle)
    BY DEF CopyInv, WorkInv, Idle
  <2> QED BY <2>1, <2>2, <2>3 DEF JobsInv
<1> QED BY <1>2, <1>3 DEF IInv

-----------------------------------------------------------------------------
(* What every step keeps *)

(* Copies stay sound when confirmations and reports are added. *)
LEMMA CopiesLast ==
  ASSUME IInv, confirmed \subseteq confirmed', seen' \in [Slots -> Nat],
         \A x \in Slots : seen[x] <= seen'[x]
  PROVE  /\ Sound(profile, confirmed', seen')
         /\ edit # None => Sound(edit.to, confirmed', seen')
         /\ orphan # None => Sound(orphan.to, confirmed', seen')
         /\ \A s \in Sessions : CopyInv(job[s], confirmed', seen')
<1>1. /\ \A b : \A x \in Stored : Proper(b, x, confirmed, seen) => Proper(b, x, confirmed', seen')
      /\ \A p \in Profiles : Sound(p, confirmed, seen) => Sound(p, confirmed', seen')
  <2>1. seen \in [Slots -> Nat]
    BY DEF IInv, FilesInv
  <2> DEFINE n == seen
             m == seen'
             ok == confirmed
             more == confirmed'
  <2>2. n \in [Slots -> Nat] /\ m \in [Slots -> Nat] /\ (\A x \in Slots : n[x] <= m[x]) /\ ok \subseteq more
    BY <2>1
  <2> HIDE DEF n, m, ok, more
  <2>3. /\ \A b : \A x \in Stored : Proper(b, x, ok, n) => Proper(b, x, more, m)
        /\ \A p \in Profiles : Sound(p, ok, n) => Sound(p, more, m)
    BY <2>2, Later
  <2> QED BY <2>3 DEF n, m, ok, more
<1>2. Sound(profile, confirmed', seen')
  BY <1>1 DEF IInv, FilesInv
<1>3. edit # None => Sound(edit.to, confirmed', seen')
  BY <1>1 DEF IInv, FilesInv, Writes
<1>4. orphan # None => Sound(orphan.to, confirmed', seen')
  BY <1>1 DEF IInv, FilesInv, Writes
<1>5. ASSUME NEW s \in Sessions PROVE CopyInv(job[s], confirmed', seen')
  <2>1. CopyInv(job[s], confirmed, seen)
    BY DEF IInv, JobsInv
  <2>2. job[s].pc \in {"items", "put"} => job[s].snap \in Profiles /\ Sound(job[s].snap, confirmed', seen')
    BY <1>1, <2>1 DEF CopyInv
  <2>3. job[s].pc = "put" => /\ job[s].put \in Puts /\ job[s].todo # <<>>
                            /\ Proper(job[s].put.bucket, job[s].put.item, confirmed', seen')
    <3>1. SUFFICES ASSUME job[s].pc = "put"
                   PROVE  /\ job[s].put \in Puts /\ job[s].todo # <<>>
                          /\ Proper(job[s].put.bucket, job[s].put.item, confirmed', seen')
      OBVIOUS
    <3>2. /\ job[s].put \in Puts /\ job[s].todo # <<>>
          /\ Proper(job[s].put.bucket, job[s].put.item, confirmed, seen)
      BY <2>1, <3>1 DEF CopyInv
    <3>3. job[s].put.item \in Stored
      BY <3>2 DEF Puts
    <3>4. Proper(job[s].put.bucket, job[s].put.item, confirmed', seen')
      <4>1. \A b : \A x \in Stored : Proper(b, x, confirmed, seen) => Proper(b, x, confirmed', seen')
        BY <1>1
      <4>2. job[s].put.bucket \in Buckets
        BY <3>2 DEF Puts
      <4> QED BY <3>2, <3>3, <4>1, Zenon
    <3> QED BY <3>2, <3>4
  <2> QED BY <2>2, <2>3 DEF CopyInv
<1> QED BY <1>2, <1>3, <1>4, <1>5

(* A step of one run, seen from the runs of all sessions. *)
LEMMA OneRunMoves ==
  ASSUME IInv, NEW s \in Sessions, NEW j \in Jobs, job' = [job EXCEPT ![s] = j],
         CopyInv(j, confirmed', seen'), WorkInv(j),
         \A t \in Sessions : CopyInv(job[t], confirmed', seen')
  PROVE  JobsInv'
<1>1. job \in [Sessions -> Jobs] /\ \A t \in Sessions : WorkInv(job[t])
  BY DEF IInv, JobsInv
<1>2. job' \in [Sessions -> Jobs]
  BY <1>1
<1>3. \A t \in Sessions : job'[t] = IF t = s THEN j ELSE job[t]
  BY <1>1
<1>4. \A t \in Sessions : CopyInv(job'[t], confirmed', seen') /\ WorkInv(job'[t])
  BY <1>1, <1>3
<1>5. \A t \in Sessions : WorkInv(job[t])' <=> WorkInv(job'[t])
  BY DEF WorkInv
<1>6. \A t \in Sessions : CopyInv(job[t], confirmed, seen)' <=> CopyInv(job'[t], confirmed', seen')
  BY DEF CopyInv, Sound, Proper
<1> QED BY <1>2, <1>4, <1>5, <1>6 DEF JobsInv

(* A step of one run that leaves every file, confirmation and count alone. *)
LEMMA QuietStep ==
  ASSUME IInv, UNCHANGED <<profile, edit, orphan, confirmed, seen>>,
         NEW s \in Sessions, NEW j \in Jobs, job' = [job EXCEPT ![s] = j],
         CopyInv(j, confirmed, seen), WorkInv(j)
  PROVE  IInv'
<1>1. FilesInv'
  BY Zenon DEF IInv, FilesInv
<1>2. \A t \in Sessions : CopyInv(job[t], confirmed', seen')
  BY DEF IInv, JobsInv
<1>3. CopyInv(j, confirmed', seen')
  OBVIOUS
<1>4. JobsInv'
  BY <1>2, <1>3, OneRunMoves
<1> QED BY <1>1, <1>4 DEF IInv

-----------------------------------------------------------------------------
(* The steps of an extraction run that touch no profile *)

(* The gate's decision starts a run without copies and without work. *)
LEMMA DecideStep ==
  ASSUME IInv, NEW s \in Sessions, NEW routes \in SUBSET Routes, Decide(s, routes)
  PROVE  IInv'
<1> DEFINE j == [Idle EXCEPT !.pc = IF "profile" \in routes THEN "ask"
                                    ELSE IF "working" \in routes THEN "asknotes" ELSE "idle",
                             !.routes = routes,
                             !.outcome = IF routes = {} THEN "skipped" ELSE "none"]
<1>1. UNCHANGED <<profile, edit, orphan, confirmed, seen>> /\ job' = [job EXCEPT ![s] = j]
  BY DEF Decide
<1>2. /\ j.pc = IF "profile" \in routes THEN "ask" ELSE IF "working" \in routes THEN "asknotes" ELSE "idle"
      /\ j.routes = routes /\ j.outcome = (IF routes = {} THEN "skipped" ELSE "none")
      /\ j.todo = <<>> /\ j.notes = <<>> /\ j.failed = FALSE
  BY DEF Idle
<1>3. j \in Jobs
  <2>1. <<>> \in Seq(Reports) /\ <<>> \in Seq(STRING)
    OBVIOUS
  <2> QED BY <2>1 DEF Idle, Jobs, Points, Outcomes
<1> HIDE DEF j
<1>4. CopyInv(j, confirmed, seen)
  BY <1>2 DEF CopyInv
<1>5. WorkInv(j)
  <2>1. j.pc # "idle" => routes # {}
    BY <1>2
  <2> QED BY <1>2, <2>1 DEF WorkInv
<1> QED BY <1>1, <1>3, <1>4, <1>5, QuietStep

(* The snapshot is the sound file of that moment. *)
LEMMA ReportItemsStep ==
  ASSUME IInv, NEW s \in Sessions, NEW answer \in Answers, ReportItems(s, answer)
  PROVE  IInv'
<1> DEFINE j == [job[s] EXCEPT !.pc = "items", !.todo = Parsed(answer), !.snap = profile]
<1>1. /\ job[s] \in Jobs /\ WorkInv(job[s]) /\ job \in [Sessions -> Jobs]
      /\ profile \in Profiles /\ Sound(profile, confirmed, seen)
  BY DEF IInv, JobsInv, FilesInv
<1>2. job[s].pc = "ask" /\ UNCHANGED <<profile, edit, orphan, confirmed, seen>>
  BY DEF ReportItems
<1>3. job' = [job EXCEPT ![s] = j]
  BY <1>1 DEF ReportItems
<1>4. Parsed(answer) \in Seq(Reports)
  BY AnswersAssumption, Parsing
<1>5. /\ j \in Jobs /\ j.pc = "items" /\ j.snap = profile /\ j.outcome = job[s].outcome
      /\ j.notes = job[s].notes
  BY <1>1, <1>4 DEF Jobs, Points
<1> HIDE DEF j
<1>6. CopyInv(j, confirmed, seen)
  BY <1>1, <1>5 DEF CopyInv
<1>7. WorkInv(j)
  BY <1>1, <1>2, <1>5 DEF WorkInv
<1> QED BY <1>2, <1>3, <1>5, <1>6, <1>7, QuietStep

(* The profile route ends when no item is left. *)
LEMMA ProfileRouteDoneStep ==
  ASSUME IInv, NEW s \in Sessions, ProfileRouteDone(s)
  PROVE  IInv'
<1> DEFINE j == [job[s] EXCEPT !.pc = NextRoute(s), !.snap = None]
<1>1. job[s] \in Jobs /\ WorkInv(job[s]) /\ job \in [Sessions -> Jobs]
  BY DEF IInv, JobsInv
<1>2. /\ job[s].pc = "items" /\ job[s].todo = <<>>
      /\ UNCHANGED <<profile, edit, orphan, confirmed, seen>>
  BY DEF ProfileRouteDone
<1>3. job' = [job EXCEPT ![s] = j]
  BY <1>1 DEF ProfileRouteDone
<1>4. NextRoute(s) \in {"asknotes", "done"}
  BY DEF NextRoute
<1>5. /\ j \in Jobs /\ j.pc = NextRoute(s) /\ j.outcome = job[s].outcome
      /\ j.notes = job[s].notes /\ j.todo = job[s].todo /\ j.failed = job[s].failed
  BY <1>1, <1>4 DEF Jobs, Points
<1> HIDE DEF j
<1>6. CopyInv(j, confirmed, seen)
  BY <1>4, <1>5 DEF CopyInv
<1>7. WorkInv(j)
  BY <1>1, <1>2, <1>4, <1>5 DEF WorkInv
<1> QED BY <1>2, <1>3, <1>5, <1>6, <1>7, QuietStep

(* The notes arrive. *)
LEMMA ReportNotesStep ==
  ASSUME IInv, NEW s \in Sessions, NEW notes \in NoteLists, ReportNotes(s, notes)
  PROVE  IInv'
<1> DEFINE j == [job[s] EXCEPT !.pc = "notes", !.notes = notes]
<1>1. job[s] \in Jobs /\ WorkInv(job[s]) /\ job \in [Sessions -> Jobs]
  BY DEF IInv, JobsInv
<1>2. job[s].pc = "asknotes" /\ UNCHANGED <<profile, edit, orphan, confirmed, seen>>
  BY DEF ReportNotes
<1>3. job' = [job EXCEPT ![s] = j]
  BY <1>1 DEF ReportNotes
<1>4. notes \in Seq(STRING)
  BY MemoryAssumption
<1>5. /\ j \in Jobs /\ j.pc = "notes" /\ j.outcome = job[s].outcome
      /\ j.todo = job[s].todo /\ j.failed = job[s].failed
  BY <1>1, <1>4 DEF Jobs, Points
<1> HIDE DEF j
<1>6. CopyInv(j, confirmed, seen)
  BY <1>5 DEF CopyInv
<1>7. WorkInv(j)
  BY <1>1, <1>2, <1>5 DEF WorkInv
<1> QED BY <1>2, <1>3, <1>5, <1>6, <1>7, QuietStep

(* One note less to save. *)
LEMMA SaveNoteStep ==
  ASSUME IInv, NEW s \in Sessions, SaveNote(s)
  PROVE  IInv'
<1> DEFINE j == [job[s] EXCEPT !.notes = Tail(@), !.saved = @ + 1]
<1>1. job[s] \in Jobs /\ WorkInv(job[s]) /\ job \in [Sessions -> Jobs]
  BY DEF IInv, JobsInv
<1>2. /\ job[s].pc = "notes" /\ job[s].notes # <<>>
      /\ UNCHANGED <<profile, edit, orphan, confirmed, seen>>
  BY DEF SaveNote
<1>3. job' = [job EXCEPT ![s] = j]
  BY <1>1 DEF SaveNote
<1>4. Tail(job[s].notes) \in Seq(STRING) /\ job[s].saved + 1 \in Nat
  <2>1. job[s].notes \in Seq(STRING) /\ job[s].saved \in Nat
    BY <1>1 DEF Jobs
  <2>2. Tail(job[s].notes) \in Seq(STRING)
    BY <1>2, <2>1, TailOfList
  <2> QED BY <2>1, <2>2
<1>5. /\ j \in Jobs /\ j.pc = "notes" /\ j.outcome = job[s].outcome
      /\ j.todo = job[s].todo /\ j.failed = job[s].failed
  BY <1>1, <1>2, <1>4 DEF Jobs
<1> HIDE DEF j
<1>6. CopyInv(j, confirmed, seen)
  BY <1>5 DEF CopyInv
<1>7. WorkInv(j)
  BY <1>1, <1>2, <1>5 DEF WorkInv
<1> QED BY <1>2, <1>3, <1>5, <1>6, <1>7, QuietStep

(* The working memory route ends when no note is left. *)
LEMMA WorkingRouteDoneStep ==
  ASSUME IInv, NEW s \in Sessions, WorkingRouteDone(s)
  PROVE  IInv'
<1> DEFINE j == [job[s] EXCEPT !.pc = "done"]
<1>1. job[s] \in Jobs /\ WorkInv(job[s]) /\ job \in [Sessions -> Jobs]
  BY DEF IInv, JobsInv
<1>2. /\ job[s].pc = "notes" /\ job[s].notes = <<>>
      /\ UNCHANGED <<profile, edit, orphan, confirmed, seen>>
  BY DEF WorkingRouteDone
<1>3. job' = [job EXCEPT ![s] = j]
  BY <1>1 DEF WorkingRouteDone
<1>4. /\ j \in Jobs /\ j.pc = "done" /\ j.outcome = job[s].outcome /\ j.notes = job[s].notes
      /\ j.todo = job[s].todo /\ j.failed = job[s].failed
  BY <1>1 DEF Jobs, Points
<1> HIDE DEF j
<1>5. CopyInv(j, confirmed, seen)
  BY <1>4 DEF CopyInv
<1>6. WorkInv(j)
  BY <1>1, <1>2, <1>4 DEF WorkInv
<1> QED BY <1>2, <1>3, <1>4, <1>5, <1>6, QuietStep

(* A failure is remembered, so what is left does not count as handled. *)
LEMMA RouteFailsStep ==
  ASSUME IInv, NEW s \in Sessions, RouteFails(s)
  PROVE  IInv'
<1> DEFINE next == IF job[s].pc \in {"asknotes", "notes"} THEN "done" ELSE NextRoute(s)
           j == [job[s] EXCEPT !.pc = next, !.snap = None, !.put = None, !.failed = TRUE]
<1>1. job[s] \in Jobs /\ WorkInv(job[s]) /\ job \in [Sessions -> Jobs]
  BY DEF IInv, JobsInv
<1>2. /\ job[s].pc \in {"ask", "items", "put", "asknotes", "notes"}
      /\ UNCHANGED <<profile, edit, orphan, confirmed, seen>>
  BY DEF RouteFails
<1>3. job' = [job EXCEPT ![s] = j]
  BY <1>1 DEF RouteFails
<1>4. next \in {"asknotes", "done"} /\ (next = "asknotes" => job[s].pc \in {"ask", "items", "put"})
  BY <1>2 DEF NextRoute
<1> HIDE DEF next
<1>5. /\ j \in Jobs /\ j.pc = next /\ j.outcome = job[s].outcome
      /\ j.notes = job[s].notes /\ j.failed = TRUE
  BY <1>1, <1>4 DEF Jobs, Points
<1> HIDE DEF j
<1>6. CopyInv(j, confirmed, seen)
  BY <1>4, <1>5 DEF CopyInv
<1>7. WorkInv(j)
  BY <1>1, <1>2, <1>4, <1>5 DEF WorkInv
<1> QED BY <1>2, <1>3, <1>5, <1>6, <1>7, QuietStep

(* Only a run without failure ends as a success or as skipped. *)
LEMMA FinishStep ==
  ASSUME IInv, NEW s \in Sessions, Finish(s)
  PROVE  IInv'
<1> DEFINE j == [job[s] EXCEPT !.pc = "idle", !.outcome = Outcome(s)]
<1>1. job[s] \in Jobs /\ WorkInv(job[s]) /\ job \in [Sessions -> Jobs]
  BY DEF IInv, JobsInv
<1>2. job[s].pc = "done" /\ UNCHANGED <<profile, edit, orphan, confirmed, seen>>
  BY DEF Finish
<1>3. job' = [job EXCEPT ![s] = j]
  BY <1>1 DEF Finish
<1>4. Outcome(s) \in Outcomes /\ (Outcome(s) # "warning" => ~job[s].failed)
  BY DEF Outcome, Outcomes
<1>5. /\ j \in Jobs /\ j.pc = "idle" /\ j.outcome = Outcome(s)
      /\ j.notes = job[s].notes /\ j.todo = job[s].todo /\ j.failed = job[s].failed
  BY <1>1, <1>4 DEF Jobs, Points
<1> HIDE DEF j
<1>6. CopyInv(j, confirmed, seen)
  BY <1>5 DEF CopyInv
<1>7. WorkInv(j)
  BY <1>1, <1>2, <1>4, <1>5 DEF WorkInv
<1> QED BY <1>2, <1>3, <1>5, <1>6, <1>7, QuietStep

-----------------------------------------------------------------------------
(* The steps that write or copy a profile *)

(* A step in which one run moves, confirmations and counts only grow, and the
   files are replaced by sound ones. *)
LEMMA WritingStep ==
  ASSUME IInv, NEW s \in Sessions, NEW j \in Jobs, job' = [job EXCEPT ![s] = j],
         confirmed' = confirmed, seen' \in [Slots -> Nat], \A x \in Slots : seen[x] <= seen'[x],
         profile' \in Profiles, Sound(profile', confirmed', seen'),
         edit' = edit,
         orphan' = orphan \/ (orphan' \in Writes /\ Sound(orphan'.to, confirmed', seen')),
         CopyInv(j, confirmed', seen'), WorkInv(j)
  PROVE  IInv'
<1>1. confirmed \subseteq confirmed'
  OBVIOUS
<1>2. /\ edit # None => Sound(edit.to, confirmed', seen')
      /\ orphan # None => Sound(orphan.to, confirmed', seen')
      /\ \A t \in Sessions : CopyInv(job[t], confirmed', seen')
  BY <1>1, CopiesLast
<1>3. edit' # None => edit' \in Writes /\ Sound(edit'.to, confirmed', seen')
  BY <1>2 DEF IInv, FilesInv
<1>4. orphan' # None => orphan' \in Writes /\ Sound(orphan'.to, confirmed', seen')
  BY <1>2 DEF IInv, FilesInv
<1>5. FilesInv'
  BY <1>3, <1>4, Zenon DEF FilesInv
<1>6. JobsInv'
  BY <1>2, OneRunMoves
<1> QED BY <1>5, <1>6 DEF IInv

(* The proper item goes into the file and into the snapshot. *)
LEMMA PutItemStep ==
  ASSUME IInv, NEW s \in Sessions, PutItem(s)
  PROVE  IInv'
<1> DEFINE put == job[s].put
           j == [job[s] EXCEPT !.pc = "items", !.todo = Tail(@), !.put = None,
                               !.snap = UpsertProfile(@, job[s].put), !.saved = @ + 1]
<1>1. /\ job[s] \in Jobs /\ WorkInv(job[s]) /\ job \in [Sessions -> Jobs]
      /\ CopyInv(job[s], confirmed, seen)
      /\ profile \in Profiles /\ Sound(profile, confirmed, seen) /\ seen \in [Slots -> Nat]
  BY DEF IInv, JobsInv, FilesInv
<1>2. /\ job[s].pc = "put" /\ profile' = UpsertProfile(profile, put)
      /\ UNCHANGED <<edit, orphan, confirmed, seen>>
  BY DEF PutItem
<1>3. job' = [job EXCEPT ![s] = j]
  BY <1>1 DEF PutItem
<1>4. /\ put \in Puts /\ job[s].todo # <<>> /\ Proper(put.bucket, put.item, confirmed, seen)
      /\ job[s].snap \in Profiles /\ Sound(job[s].snap, confirmed, seen)
  BY <1>1, <1>2 DEF CopyInv
<1> HIDE DEF put
<1>5. UpsertProfile(profile, put) \in Profiles /\ Sound(UpsertProfile(profile, put), confirmed, seen)
  BY <1>1, <1>4, Storing
<1>6. /\ UpsertProfile(job[s].snap, put) \in Profiles
      /\ Sound(UpsertProfile(job[s].snap, put), confirmed, seen)
  BY <1>4, Storing
<1>7. Tail(job[s].todo) \in Seq(Reports) /\ job[s].saved + 1 \in Nat
  <2>1. job[s].todo \in Seq(Reports) /\ job[s].saved \in Nat
    BY <1>1 DEF Jobs
  <2>2. Tail(job[s].todo) \in Seq(Reports)
    BY <1>4, <2>1, TailOfList
  <2> QED BY <2>1, <2>2
<1>8. /\ j \in Jobs /\ j.pc = "items" /\ j.outcome = job[s].outcome /\ j.notes = job[s].notes
      /\ j.snap = UpsertProfile(job[s].snap, put)
  BY <1>1, <1>6, <1>7 DEF Jobs, Points, put
<1> HIDE DEF j
<1>9. CopyInv(j, confirmed, seen)
  BY <1>6, <1>8 DEF CopyInv
<1>10. WorkInv(j)
  BY <1>1, <1>2, <1>8 DEF WorkInv
<1>11. \A x \in Slots : seen[x] <= seen'[x]
  BY <1>1, <1>2
<1>12. profile' \in Profiles /\ Sound(profile', confirmed', seen') /\ CopyInv(j, confirmed', seen')
  BY <1>2, <1>5, <1>9
<1>13. seen' \in [Slots -> Nat] /\ confirmed' = confirmed /\ edit' = edit /\ orphan' = orphan
  BY <1>1, <1>2
<1> QED BY <1>3, <1>8, <1>10, <1>11, <1>12, <1>13, WritingStep

(* A timeout may leave a write of a sound file to its thread. *)
LEMMA TimeoutStep ==
  ASSUME IInv, NEW s \in Sessions, Timeout(s)
  PROVE  IInv'
<1> DEFINE put == job[s].put
           j == [job[s] EXCEPT !.pc = "idle", !.snap = None, !.put = None, !.outcome = "warning"]
           late == [kind |-> "write", to |-> UpsertProfile(profile, put)]
<1>1. /\ job[s] \in Jobs /\ WorkInv(job[s]) /\ job \in [Sessions -> Jobs]
      /\ CopyInv(job[s], confirmed, seen)
      /\ profile \in Profiles /\ Sound(profile, confirmed, seen) /\ seen \in [Slots -> Nat]
  BY DEF IInv, JobsInv, FilesInv
<1>2. /\ UNCHANGED <<profile, edit, confirmed, seen>>
      /\ orphan' = orphan \/ (job[s].pc = "put" /\ orphan' = late)
  BY DEF Timeout
<1>3. job' = [job EXCEPT ![s] = j]
  BY <1>1 DEF Timeout
<1>4. /\ j \in Jobs /\ j.pc = "idle" /\ j.outcome = "warning"
  BY <1>1 DEF Jobs, Points, Outcomes
<1> HIDE DEF j
<1>5. CopyInv(j, confirmed, seen) /\ WorkInv(j)
  BY <1>4 DEF CopyInv, WorkInv
<1>6. job[s].pc = "put" => late \in Writes /\ Sound(late.to, confirmed, seen)
  <2>1. SUFFICES ASSUME job[s].pc = "put" PROVE late \in Writes /\ Sound(late.to, confirmed, seen)
    OBVIOUS
  <2>2. put \in Puts /\ Proper(put.bucket, put.item, confirmed, seen)
    BY <1>1, <2>1 DEF CopyInv
  <2> HIDE DEF put
  <2>3. UpsertProfile(profile, put) \in Profiles /\ Sound(UpsertProfile(profile, put), confirmed, seen)
    BY <1>1, <2>2, Storing
  <2> QED BY <2>3 DEF Writes
<1> HIDE DEF late
<1>7. /\ orphan' = orphan \/ (orphan' \in Writes /\ Sound(orphan'.to, confirmed', seen'))
      /\ profile' \in Profiles /\ Sound(profile', confirmed', seen') /\ CopyInv(j, confirmed', seen')
  BY <1>1, <1>2, <1>5, <1>6
<1>8. /\ seen' \in [Slots -> Nat] /\ confirmed' = confirmed /\ edit' = edit
      /\ \A x \in Slots : seen[x] <= seen'[x]
  BY <1>1, <1>2
<1> QED BY <1>3, <1>4, <1>5, <1>7, <1>8, WritingStep

(* A report is skipped, or counted and merged into a proper item; an item that
   changes its bucket leaves the snapshot first. *)
LEMMA MergeNextStep ==
  ASSUME IInv, NEW s \in Sessions, MergeNext(s)
  PROVE  IInv'
<1> DEFINE r     == Head(job[s].todo)
           snap  == job[s].snap
           hit   == Match(snap, r.bucket, r)
           old   == IF hit = NoMatch THEN None ELSE snap[hit.bucket][hit.at]
           item  == Merge(r.bucket, r, old)
           to    == MergedBucket(r.bucket, item.count)
           moves == hit # NoMatch /\ hit.bucket # to
           left  == IF moves THEN [snap EXCEPT ![hit.bucket] = RemoveAt(@, hit.at)] ELSE snap
           put   == [bucket |-> to, item |-> Sanitized(to, item)]
           more  == [seen EXCEPT ![r.slot] = @ + 1]
           skips == [job[s] EXCEPT !.todo = Tail(@)]
           puts  == [job[s] EXCEPT !.pc = "put", !.snap = left, !.put = put]
<1>1. /\ job[s] \in Jobs /\ WorkInv(job[s]) /\ job \in [Sessions -> Jobs]
      /\ CopyInv(job[s], confirmed, seen)
      /\ profile \in Profiles /\ Sound(profile, confirmed, seen) /\ seen \in [Slots -> Nat]
  BY DEF IInv, JobsInv, FilesInv
<1>2. /\ job[s].pc = "items" /\ job[s].todo # <<>> /\ UNCHANGED <<edit, orphan, confirmed>>
  BY DEF MergeNext
<1>3. \/ /\ Classify(to, item) = "drop"
         /\ job' = [job EXCEPT ![s].todo = Tail(@)]
         /\ UNCHANGED <<profile, seen>>
      \/ /\ Classify(to, item) # "drop"
         /\ job' = [job EXCEPT ![s].pc = "put", ![s].snap = left, ![s].put = put]
         /\ profile' = IF moves THEN left ELSE profile
         /\ seen' = more
  BY Zenon DEF MergeNext
<1>4. /\ r \in Reports /\ Tail(job[s].todo) \in Seq(Reports)
      /\ snap \in Profiles /\ Sound(snap, confirmed, seen)
  <2>1. job[s].todo \in Seq(Reports)
    BY <1>1 DEF Jobs
  <2>2. r \in Reports /\ Tail(job[s].todo) \in Seq(Reports)
    BY <1>2, <2>1, TailOfList
  <2> QED BY <1>1, <1>2, <2>2 DEF CopyInv
<1>5. CASE Classify(to, item) = "drop"
  <2>1. /\ skips \in Jobs /\ skips.pc = "items" /\ skips.snap = snap
        /\ skips.outcome = job[s].outcome /\ skips.notes = job[s].notes
    BY <1>1, <1>2, <1>4 DEF Jobs
  <2>2. job' = [job EXCEPT ![s] = skips]
    <3> HIDE DEF item, to, left, put, more
    <3> QED BY <1>1, <1>3, <1>5
  <2> HIDE DEF skips, snap
  <2>3. CopyInv(skips, confirmed, seen)
    BY <1>4, <2>1 DEF CopyInv
  <2>4. WorkInv(skips)
    BY <1>1, <1>2, <2>1 DEF WorkInv
  <2>5. UNCHANGED <<profile, edit, orphan, confirmed, seen>>
    <3> HIDE DEF item, to, left, put, more
    <3> QED BY <1>2, <1>3, <1>5
  <2> QED BY <2>1, <2>2, <2>3, <2>4, <2>5, QuietStep
<1>6. CASE Classify(to, item) # "drop"
  <2>0. /\ job' = [job EXCEPT ![s].pc = "put", ![s].snap = left, ![s].put = put]
        /\ profile' = (IF moves THEN left ELSE profile)
        /\ seen' = more
    <3> HIDE DEF item, to, left, put, more, moves
    <3> QED BY <1>3, <1>6
  <2>1. hit # NoMatch => /\ hit.bucket \in Buckets /\ hit.at \in DOMAIN snap[hit.bucket]
                         /\ snap[hit.bucket][hit.at].slot = r.slot
    <3> HIDE DEF snap, r
    <3> QED BY <1>4, Matching
  <2>2. old = None \/ (old \in Stored /\ old.slot = r.slot /\ old.count <= seen[r.slot])
    <3>1. CASE hit = NoMatch
      BY <3>1
    <3>2. CASE hit # NoMatch
      <4>1. old = snap[hit.bucket][hit.at]
        BY <3>2
      <4> HIDE DEF old, hit, snap
      <4>2. snap[hit.bucket] \in Seq(Stored) /\ Proper(hit.bucket, snap[hit.bucket][hit.at], confirmed, seen)
        BY <1>4, <2>1, <3>2 DEF Profiles, Sound
      <4>3. old \in Stored
        BY <2>1, <3>2, <4>1, <4>2
      <4>4. old.slot = r.slot /\ old.count <= seen[r.slot]
        BY <2>1, <3>2, <4>1, <4>2 DEF Proper
      <4> QED BY <4>3, <4>4
    <3> QED BY <3>1, <3>2
  <2>3. /\ to \in Buckets /\ Sanitized(to, item) \in Stored
        /\ Proper(to, Sanitized(to, item), confirmed, more)
    <3> HIDE DEF r, old
    <3>1. item.count = Count(old)
      BY DEF Merge
    <3>2. Classify(MergedBucket(r.bucket, Count(old)), Merge(r.bucket, r, old)) # "drop"
      BY <1>6, <3>1
    <3> QED BY <1>1, <1>4, <2>2, <3>2, Merging
  <2>4. put \in Puts /\ put.bucket = to /\ put.item = Sanitized(to, item)
    <3> HIDE DEF to, item
    <3> QED BY <2>3 DEF Puts
  <2>5. left \in Profiles /\ Sound(left, confirmed, seen)
    <3> HIDE DEF snap, hit, to, item
    <3>1. CASE moves
      <4> DEFINE cut == [snap EXCEPT ![hit.bucket] = RemoveAt(@, hit.at)]
      <4>1. cut \in Profiles /\ Sound(cut, confirmed, seen)
        BY <1>4, <2>1, <3>1, Deleting
      <4> QED BY <3>1, <4>1
    <3>2. CASE ~moves
      BY <1>4, <3>2
    <3> QED BY <3>1, <3>2
  <2> HIDE DEF moves, left, put, old, hit, item, to, r
  <2>6. more \in [Slots -> Nat] /\ \A x \in Slots : seen[x] <= more[x]
    <3>1. r.slot \in Slots
      BY <1>4 DEF Reports
    <3> QED BY <1>1, <3>1
  <2> HIDE DEF more
  <2>7. Sound(profile, confirmed, more) /\ Sound(left, confirmed, more)
    BY <1>1, <2>5, <2>6, Later
  <2>8. /\ puts \in Jobs /\ puts.pc = "put" /\ puts.snap = left /\ puts.put = put
        /\ puts.outcome = job[s].outcome /\ puts.notes = job[s].notes /\ puts.todo = job[s].todo
    BY <1>1, <2>4, <2>5 DEF Jobs, Points
  <2>9. job' = [job EXCEPT ![s] = puts]
    BY <1>1, <2>0
  <2> HIDE DEF puts, snap
  <2>10. CopyInv(puts, confirmed, more)
    BY <1>2, <2>3, <2>4, <2>5, <2>7, <2>8 DEF CopyInv
  <2>11. WorkInv(puts)
    BY <1>1, <1>2, <2>8 DEF WorkInv
  <2>12. profile' \in Profiles /\ Sound(profile', confirmed', seen') /\ CopyInv(puts, confirmed', seen')
    BY <1>1, <1>2, <2>0, <2>5, <2>7, <2>10
  <2>13. /\ confirmed' = confirmed /\ edit' = edit /\ orphan' = orphan
         /\ seen' \in [Slots -> Nat] /\ \A x \in Slots : seen[x] <= seen'[x]
    BY <1>2, <2>0, <2>6
  <2> QED BY <2>8, <2>9, <2>11, <2>12, <2>13, WritingStep
<1> QED BY <1>5, <1>6

-----------------------------------------------------------------------------
(* The user's requests, late writes and crashes *)

\* a file is replaced and no run moves
LEMMA RunsKept ==
  ASSUME IInv, UNCHANGED job, \A t \in Sessions : CopyInv(job[t], confirmed', seen')
  PROVE  JobsInv'
<1>1. job' \in [Sessions -> Jobs] /\ \A t \in Sessions : WorkInv(job[t])
  BY DEF IInv, JobsInv
<1>2. \A t \in Sessions : WorkInv(job[t])' <=> WorkInv(job[t])
  BY DEF WorkInv
<1>3. \A t \in Sessions : CopyInv(job[t], confirmed, seen)' <=> CopyInv(job[t], confirmed', seen')
  BY DEF CopyInv, Sound, Proper
<1> QED BY <1>1, <1>2, <1>3 DEF JobsInv

(* The user's request: the edited copy of the file is sound once a confirmation
   counts. *)
LEMMA AskStep ==
  ASSUME IInv, NEW b \in Buckets, NEW k \in DOMAIN profile[b],
         NEW status \in {"active", "rejected", "obsolete"}, Ask(b, k, status)
  PROVE  IInv'
<1> DEFINE to == SetStatus(profile, b, k, status)
<1>1. /\ profile \in Profiles /\ Sound(profile, confirmed, seen) /\ seen \in [Slots -> Nat]
  BY DEF IInv, FilesInv
<1>2. /\ edit' = [kind |-> "save", to |-> to] /\ UNCHANGED <<profile, job, orphan, seen>>
      /\ confirmed' = IF status = "active" THEN confirmed \cup {profile[b][k].id} ELSE confirmed
  BY DEF Ask
<1>3. confirmed \subseteq confirmed' /\ (status = "active" => profile[b][k].id \in confirmed')
  BY <1>2
<1>4. to \in Profiles /\ Sound(to, confirmed', seen)
  BY <1>1, <1>3, Marking
<1> HIDE DEF to
<1>5. /\ Sound(profile, confirmed', seen')
      /\ orphan # None => Sound(orphan.to, confirmed', seen')
      /\ \A s \in Sessions : CopyInv(job[s], confirmed', seen')
  <2>1. seen' \in [Slots -> Nat] /\ \A x \in Slots : seen[x] <= seen'[x]
    BY <1>1, <1>2
  <2> QED BY <1>3, <2>1, CopiesLast
<1>6. edit' \in Writes /\ edit'.to = to
  BY <1>2, <1>4 DEF Writes
<1>7. FilesInv'
  <2>1. profile' \in Profiles /\ seen' \in [Slots -> Nat]
    BY <1>1, <1>2
  <2>2. Sound(profile', confirmed', seen') /\ Sound(edit'.to, confirmed', seen')
    BY <1>2, <1>4, <1>5, <1>6
  <2>3. orphan' # None => orphan' \in Writes /\ Sound(orphan'.to, confirmed', seen')
    BY <1>2, <1>5 DEF IInv, FilesInv
  <2> QED BY <1>6, <2>1, <2>2, <2>3, Zenon DEF FilesInv
<1>8. JobsInv'
  BY <1>2, <1>5, RunsKept
<1> QED BY <1>7, <1>8 DEF IInv

\* what any sound write of the whole file keeps
LEMMA WholeFile ==
  ASSUME IInv, UNCHANGED <<job, confirmed, seen>>,
         profile' \in Profiles, Sound(profile', confirmed, seen),
         edit' \in {edit, None}, orphan' \in {orphan, None}
  PROVE  IInv'
<1>1. /\ edit' # None => edit' \in Writes /\ Sound(edit'.to, confirmed', seen')
      /\ orphan' # None => orphan' \in Writes /\ Sound(orphan'.to, confirmed', seen')
      /\ seen' \in [Slots -> Nat] /\ Sound(profile', confirmed', seen')
  BY DEF IInv, FilesInv
<1>2. FilesInv'
  BY <1>1, Zenon DEF FilesInv
<1>3. \A t \in Sessions : CopyInv(job[t], confirmed', seen')
  BY DEF IInv, JobsInv
<1>4. JobsInv'
  BY <1>3, RunsKept
<1> QED BY <1>2, <1>4 DEF IInv

(* The edited copy replaces the file. *)
LEMMA SaveEditStep ==
  ASSUME IInv, SaveEdit
  PROVE  IInv'
<1>1. edit \in Writes /\ Sound(edit.to, confirmed, seen)
  BY DEF IInv, FilesInv, SaveEdit
<1>2. profile' = edit.to /\ edit' = None /\ UNCHANGED <<job, orphan, confirmed, seen>>
  BY DEF SaveEdit
<1>3. profile' \in Profiles /\ Sound(profile', confirmed, seen)
  BY <1>1, <1>2 DEF Writes
<1> QED BY <1>2, <1>3, WholeFile

(* The late write replaces the file. *)
LEMMA LandLateStep ==
  ASSUME IInv, LandLate
  PROVE  IInv'
<1>1. orphan \in Writes /\ Sound(orphan.to, confirmed, seen)
  BY DEF IInv, FilesInv, LandLate
<1>2. profile' = orphan.to /\ orphan' = None /\ UNCHANGED <<job, edit, confirmed, seen>>
  BY DEF LandLate
<1>3. profile' \in Profiles /\ Sound(profile', confirmed, seen)
  BY <1>1, <1>2 DEF Writes
<1> QED BY <1>2, <1>3, WholeFile

(* A crash loses the copies and keeps the file. *)
LEMMA CrashStep ==
  ASSUME IInv, Crash
  PROVE  IInv'
<1>1. /\ job' = [s \in Sessions |-> Idle] /\ edit' = None /\ orphan' = None
      /\ UNCHANGED <<profile, confirmed, seen>>
  BY DEF Crash
<1>2. FilesInv'
  BY <1>1, Zenon DEF IInv, FilesInv
<1>3. JobsInv'
  <2>1. Idle \in Jobs
    <3>1. <<>> \in Seq(Reports) /\ <<>> \in Seq(STRING)
      OBVIOUS
    <3> QED BY <3>1 DEF Idle, Jobs, Points, Outcomes
  <2>2. CopyInv(Idle, confirmed', seen') /\ WorkInv(Idle)
    BY DEF CopyInv, WorkInv, Idle
  <2>3. \A t \in Sessions : job'[t] = Idle
    BY <1>1
  <2>4. \A t \in Sessions : WorkInv(job[t])' <=> WorkInv(job'[t])
    BY DEF WorkInv
  <2>5. \A t \in Sessions : CopyInv(job[t], confirmed, seen)' <=> CopyInv(job'[t], confirmed', seen')
    BY DEF CopyInv, Sound, Proper
  <2>6. job' \in [Sessions -> Jobs]
    BY <1>1, <2>1
  <2> QED BY <2>2, <2>3, <2>4, <2>5, <2>6 DEF JobsInv
<1> QED BY <1>2, <1>3 DEF IInv

(* Nothing changes. *)
LEMMA Stutter ==
  ASSUME IInv, UNCHANGED vars
  PROVE  IInv'
<1>1. UNCHANGED <<profile, job, edit, orphan, confirmed, seen>>
  BY DEF vars
<1>2. profile' \in Profiles /\ Sound(profile', confirmed, seen)
  BY <1>1 DEF IInv, FilesInv
<1> QED BY <1>1, <1>2, WholeFile

-----------------------------------------------------------------------------
(* The theorems *)

(* Every step keeps the invariant. *)
LEMMA Stepwise == IInv /\ [Next]_vars => IInv'
<1> SUFFICES ASSUME IInv, [Next]_vars PROVE IInv'
  OBVIOUS
<1>1. ASSUME NEW s \in Sessions, RunStep(s) PROVE IInv'
  <2>1. ASSUME NEW should \in BOOLEAN, NEW routes \in SUBSET Routes,
               Decide(s, RoutesOf(should, routes))
        PROVE  IInv'
    <3>1. RoutesOf(should, routes) \in SUBSET Routes
      BY DEF RoutesOf
    <3> QED BY <2>1, <3>1, DecideStep
  <2>2. ASSUME NEW answer \in Answers, ReportItems(s, answer) PROVE IInv'
    BY <2>2, ReportItemsStep
  <2>3. ASSUME NEW notes \in NoteLists, ReportNotes(s, notes) PROVE IInv'
    BY <2>3, ReportNotesStep
  <2>4. CASE MergeNext(s)
    BY <2>4, MergeNextStep
  <2>5. CASE PutItem(s)
    BY <2>5, PutItemStep
  <2>6. CASE ProfileRouteDone(s)
    BY <2>6, ProfileRouteDoneStep
  <2>7. CASE SaveNote(s)
    BY <2>7, SaveNoteStep
  <2>8. CASE WorkingRouteDone(s)
    BY <2>8, WorkingRouteDoneStep
  <2>9. CASE RouteFails(s)
    BY <2>9, RouteFailsStep
  <2>10. CASE Finish(s)
    BY <2>10, FinishStep
  <2>11. CASE Timeout(s)
    BY <2>11, TimeoutStep
  <2> QED BY <1>1, <2>1, <2>2, <2>3, <2>4, <2>5, <2>6, <2>7, <2>8, <2>9, <2>10, <2>11
          DEF RunStep, Routes
<1>2. ASSUME NEW b \in Buckets, NEW k \in DOMAIN profile[b],
             NEW status \in {"active", "rejected", "obsolete"}, Ask(b, k, status)
      PROVE  IInv'
  BY <1>2, AskStep
<1>3. CASE SaveEdit
  BY <1>3, SaveEditStep
<1>4. CASE LandLate
  BY <1>4, LandLateStep
<1>5. CASE Crash
  BY <1>5, CrashStep
<1>6. CASE UNCHANGED vars
  BY <1>6, Stutter
<1> QED BY <1>1, <1>2, <1>3, <1>4, <1>5, <1>6 DEF Next, UserStep

(* In every reachable state the file and every copy of it that may yet be
   written back (the snapshot of an extraction, a user's edit, the write a
   timeout left to its thread) are sound, and so is the item about to be put. *)
THEOREM Invariance == Spec => []IInv
<1> QED BY Initially, Stepwise, PTL DEF Spec

(* No two items of the profile ever have one id, so confirm, reject and delete
   name one item. *)
THEOREM OneItemPerId == Spec => []IdsUnique
<1>1. IInv => IdsUnique
  <2> SUFFICES ASSUME IInv, NEW b \in Buckets, NEW c \in Buckets,
                      NEW i \in DOMAIN profile[b], NEW j \in DOMAIN profile[c],
                      profile[b][i].id = profile[c][j].id
               PROVE  <<b, i>> = <<c, j>>
    BY Zenon DEF IdsUnique
  <2>1. Sound(profile, confirmed, seen)
    BY DEF IInv, FilesInv
  <2>2. profile[b][i].id[1] = b /\ profile[c][j].id[1] = c
    BY <2>1 DEF Sound, Proper
  <2>3. b = c
    BY <2>2
  <2>4. i = j
    BY <2>1, <2>3 DEF Sound
  <2> QED BY <2>3, <2>4
<1> QED BY <1>1, Invariance, PTL

(* Nothing the policy drops is stored, and an item of a sensitive domain is
   active only if the user confirmed it, whichever stale copy was written last. *)
THEOREM UserDecidesSensitive == Spec => []SensitiveNeedsUser
<1>1. IInv => SensitiveNeedsUser
  <2> SUFFICES ASSUME IInv, NEW x \in Items(profile)
               PROVE  /\ x.slot \notin Denied /\ ~x.pii
                      /\ (x.slot \in Sensitive /\ x.status = "active") => x.id \in confirmed
    BY Zenon DEF SensitiveNeedsUser
  <2>1. PICK b \in Buckets : \E k \in DOMAIN profile[b] : x = profile[b][k]
    BY DEF Items
  <2>2. Proper(b, x, confirmed, seen)
    BY <2>1 DEF IInv, FilesInv, Sound
  <2> QED BY <2>2 DEF Proper, Dropped
<1> QED BY <1>1, Invariance, PTL

(* No item counts more observations than reports of its slot were merged. *)
THEOREM CountsHonest == Spec => []CountEarned
<1>1. IInv => CountEarned
  <2> SUFFICES ASSUME IInv, NEW x \in Items(profile) PROVE x.count <= seen[x.slot]
    BY DEF CountEarned
  <2>1. PICK b \in Buckets : \E k \in DOMAIN profile[b] : x = profile[b][k]
    BY DEF Items
  <2>2. Proper(b, x, confirmed, seen)
    BY <2>1 DEF IInv, FilesInv, Sound
  <2> QED BY <2>2 DEF Proper
<1> QED BY <1>1, Invariance, PTL

(* A run whose outcome moves the extraction cursor on has handled every item
   and every note of its answers. *)
THEOREM DoneIsDone == Spec => []DoneMeansSaved
<1>1. IInv => DoneMeansSaved
  BY DEF IInv, JobsInv, WorkInv, DoneMeansSaved
<1> QED BY <1>1, Invariance, PTL
=============================================================================
