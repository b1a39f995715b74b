---------------------------- MODULE ProfileMemory ----------------------------
(***************************************************************************)
(* The long-term profile of one user and the working memory of the user's  *)
(* sessions: extraction runs of several sessions merge what a model        *)
(* reported into profile.json while the user confirms, rejects and deletes *)
(* items of it.                                                            *)
(*                                                                         *)
(* Every file operation holds the user's lock, but an extraction works on  *)
(* a snapshot it loaded once and a user request on one it loaded earlier,  *)
(* so whole-file writes of the two interleave.  A file write runs in a     *)
(* thread: the 40 s timeout cancels the coroutine, which gives the lock    *)
(* back, and the thread may finish afterwards.                             *)
(***************************************************************************)
EXTENDS Naturals, Sequences, FiniteSets, SequencesExt, FiniteSetsExt, TLC

CONSTANTS
    Sessions,    \* sessions of the user, one extraction run at a time each
    Slots,       \* <domain, canonical key> pairs
    Denied,      \* slots of a domain no profile may hold
    Sensitive,   \* slots of a domain only the user may make active
    Answers,     \* profile items the model may report, in the code's bucket order
    NoteLists,   \* working memory items the model may report
    Earlier,     \* profiles earlier turns may have left, each item reported once
    MaxRuns,     \* extraction runs (bound)
    MaxEdits,    \* requests of the user (bound)
    MaxFaults    \* timeouts, failing routes and crashes (bound)

ASSUME MemoryAssumption ==
    /\ Denied \subseteq Slots /\ Sensitive \subseteq Slots
    /\ MaxRuns \in Nat /\ MaxEdits \in Nat /\ MaxFaults \in Nat
    /\ NoteLists \subseteq Seq(STRING)

VARIABLES
    profile,     \* profile.json: per bucket the list of its items
    working,     \* per session the items of its working_memory.json
    job,         \* per session its extraction run
    edit,        \* a user's request between its load and its save
    orphan,      \* a cancelled write whose thread has not finished
    confirmed,   \* history: ids the user has confirmed
    seen,        \* history: per slot the reports merged so far
    runs, edits, faults

vars == <<profile, working, job, edit, orphan, confirmed, seen, runs, edits, faults>>

Buckets  == {"constraints", "rejections", "stable_preferences", "preference_hypotheses"}
Statuses == {"active", "pending", "rejected"}
None     == [kind |-> "none"]
Idle     == [pc |-> "idle", routes |-> {}, snap |-> None, todo |-> <<>>, put |-> None,
             notes |-> <<>>, failed |-> FALSE, saved |-> 0, outcome |-> "none"]
EmptyProfile == [b \in Buckets |-> <<>>]
Items(p) == UNION {{p[b][k] : k \in DOMAIN p[b]} : b \in Buckets}

(* What the profile tool's schema lets the model say of one item; pii says *)
(* whether any of its fields holds an identity number, e-mail or the like. *)
Report(b, slot, value, stab, conf, pii) ==
    [bucket |-> b, slot |-> slot, value |-> value, stab |-> stab, conf |-> conf, pii |-> pii]
Reports == [bucket : Buckets, slot : Slots, value : STRING, stab : STRING, conf : STRING,
            pii : BOOLEAN]
ASSUME AnswersAssumption == Answers \subseteq Seq(Reports)

Init ==
    /\ profile \in {EmptyProfile} \cup Earlier
    /\ working = [s \in Sessions |-> <<>>]
    /\ job = [s \in Sessions |-> Idle]
    /\ edit = None /\ orphan = None
    /\ confirmed = {}
    /\ seen = [x \in Slots |-> Cardinality({i \in Items(profile) : i.slot = x})]
    /\ runs = 0 /\ edits = 0 /\ faults = 0

-----------------------------------------------------------------------------
(* Merging one reported item. *)

(* Entries that do not convert (a confidence that is no number) are left out. *)
Convertible == {r \in Reports : r.conf # "bad"}
Parsed(reported) ==
    FoldLeft(LAMBDA acc, r : IF r \in Convertible THEN Append(acc, r) ELSE acc, <<>>, reported)

SameIdentity(b, x, y) ==
    /\ x.slot = y.slot
    /\ b \in {"rejections", "preference_hypotheses"} => x.value = y.value

(* A hypothesis is looked for among the stable preferences too. *)
SearchOrder(b) ==
    IF b = "preference_hypotheses" THEN <<b, "stable_preferences">> ELSE <<b>>

IndexIn(p, c, b, r) == SelectInSeq(p[c], LAMBDA x : SameIdentity(b, x, r))

NoMatch == [bucket |-> "none", at |-> 0]
Match(p, b, r) ==
    LET order == SearchOrder(b)
        found == {i \in DOMAIN order : IndexIn(p, order[i], b, r) # 0}
        first == order[Min(found)]
    IN  IF found = {} THEN NoMatch
        ELSE [bucket |-> first, at |-> IndexIn(p, first, b, r)]

CountFromTwo(old) == IF old = None THEN 2 ELSE old.count + 1
Count(old) == IF old = None THEN 1 ELSE old.count + 1

MergedBucket(b, n) ==
    IF b = "preference_hypotheses" /\ n >= 2 THEN "stable_preferences" ELSE b

Merge(b, r, old) ==
    LET n == Count(old)
    IN  [slot |-> r.slot, value |-> r.value, pii |-> r.pii, count |-> n,
         stab |-> IF MergedBucket(b, n) # b THEN "pattern_observed" ELSE r.stab,
         sure |-> r.conf = "high" \/ (old # None /\ old.sure)]

Firm(b) == IF b = "stable_preferences" THEN {"explicit_declared", "pattern_observed"}
                                       ELSE {"explicit_declared"}

Dropped(x) == x.slot \in Denied \/ x.pii

ClassifyAnyDomain(b, x) ==
    IF Dropped(x) THEN "drop"
    ELSE IF /\ b # "preference_hypotheses"
            /\ x.stab \in Firm(b) /\ x.sure
         THEN "active" ELSE "pending"
Classify(b, x) ==
    IF Dropped(x) THEN "drop"
    ELSE IF /\ b # "preference_hypotheses"
            /\ x.slot \notin Sensitive
            /\ x.stab \in Firm(b) /\ x.sure
         THEN "active" ELSE "pending"

(* The value is part of a rejection's id only; a hypothesis has its        *)
(* context, that is its count, instead.                                    *)
IdOf(b, x) ==
    <<b, x.slot, IF b = "rejections" THEN x.value
                 ELSE IF b = "preference_hypotheses" THEN ToString(x.count) ELSE "">>

Sanitized(b, x) ==
    [id |-> IdOf(b, x), slot |-> x.slot, value |-> x.value, pii |-> x.pii,
     count |-> x.count, stab |-> x.stab, sure |-> x.sure, status |-> Classify(b, x)]

(* What earlier turns left: items that went through the same sanitizing,  *)
(* none of them twice, each of one report.                                *)
ASSUME EarlierAssumption ==
    \A p \in Earlier :
        /\ \A b \in Buckets : Len(p[b]) \in Nat
        /\ p = [b \in Buckets |-> [k \in 1..Len(p[b]) |-> Sanitized(b, p[b][k])]]
        /\ \A b \in Buckets : \A k \in DOMAIN p[b] :
             /\ p[b][k].slot \in Slots /\ p[b][k].value \in STRING /\ p[b][k].stab \in STRING
             /\ p[b][k].sure \in BOOLEAN /\ p[b][k].count = Count(None) /\ ~Dropped(p[b][k])
             /\ p[b][k].pii \in BOOLEAN
             /\ \A j \in DOMAIN p[b] : p[b][j].id = p[b][k].id => j = k

UpsertAppends(list, x) == Append(list, x)
Upsert(list, x) ==
    LET k == SelectInSeq(list, LAMBDA y : y.id = x.id)
    IN  IF k = 0 THEN Append(list, x) ELSE ReplaceAt(list, k, x)

UpsertProfile(p, put) == [p EXCEPT ![put.bucket] = Upsert(@, put.item)]

-----------------------------------------------------------------------------
(* One extraction run of a session. *)

(* The gate's answer: routes count only if it says that extracting is worth it. *)
RoutesOf(should, routes) == IF should THEN routes ELSE {}

(* The gate's decision; no route also stands for the memory switched off,  *)
(* a turn without user messages and a gate that failed or timed out.       *)
Decide(s, routes) ==
    /\ job[s].pc = "idle" /\ runs < MaxRuns
    /\ runs' = runs + 1
    /\ job' = [job EXCEPT ![s] =
                 [Idle EXCEPT !.pc = IF "profile" \in routes THEN "ask"
                                     ELSE IF "working" \in routes THEN "asknotes" ELSE "idle",
                              !.routes = routes,
                              !.outcome = IF routes = {} THEN "skipped" ELSE "none"]]
    /\ UNCHANGED <<profile, working, edit, orphan, confirmed, seen, edits, faults>>

(* The model's items, then the snapshot every one of them is merged into.  *)
ReportItems(s, answer) ==
    /\ job[s].pc = "ask"
    /\ job' = [job EXCEPT ![s].pc = "items", ![s].todo = Parsed(answer), ![s].snap = profile]
    /\ UNCHANGED <<profile, working, edit, orphan, confirmed, seen, runs, edits, faults>>

(* Merge the next item.  One that changes its bucket is deleted from the   *)
(* snapshot, and the whole snapshot saved, before it is upserted.          *)
MergeNext(s) ==
    /\ job[s].pc = "items" /\ job[s].todo # <<>>
    /\ LET r     == Head(job[s].todo)
           snap  == job[s].snap
           hit   == Match(snap, r.bucket, r)
           old   == IF hit = NoMatch THEN None ELSE snap[hit.bucket][hit.at]
           item  == Merge(r.bucket, r, old)
           to    == MergedBucket(r.bucket, item.count)
           moves == hit # NoMatch /\ hit.bucket # to
           left  == IF moves THEN [snap EXCEPT ![hit.bucket] = RemoveAt(@, hit.at)] ELSE snap
       IN  IF Classify(to, item) = "drop"
           THEN /\ job' = [job EXCEPT ![s].todo = Tail(@)]
                /\ UNCHANGED <<profile, seen>>
           ELSE /\ job' = [job EXCEPT ![s].pc = "put", ![s].snap = left,
                                      ![s].put = [bucket |-> to, item |-> Sanitized(to, item)]]
                /\ profile' = IF moves THEN left ELSE profile
                /\ seen' = [seen EXCEPT ![r.slot] = @ + 1]
    /\ UNCHANGED <<working, edit, orphan, confirmed, runs, edits, faults>>

(* upsert_profile_item loads the file again under the lock. *)
PutItem(s) ==
    /\ job[s].pc = "put"
    /\ profile' = UpsertProfile(profile, job[s].put)
    /\ job' = [job EXCEPT ![s].pc = "items", ![s].todo = Tail(@), ![s].put = None,
                          ![s].snap = UpsertProfile(@, job[s].put), ![s].saved = @ + 1]
    /\ UNCHANGED <<working, edit, orphan, confirmed, seen, runs, edits, faults>>

(* The other route runs whether this one failed or not. *)
NextRoute(s) == IF "working" \in job[s].routes THEN "asknotes" ELSE "done"

ProfileRouteDone(s) ==
    /\ job[s].pc = "items" /\ job[s].todo = <<>>
    /\ job' = [job EXCEPT ![s].pc = NextRoute(s), ![s].snap = None]
    /\ UNCHANGED <<profile, working, edit, orphan, confirmed, seen, runs, edits, faults>>

ReportNotes(s, notes) ==
    /\ job[s].pc = "asknotes"
    /\ job' = [job EXCEPT ![s].pc = "notes", ![s].notes = notes]
    /\ UNCHANGED <<profile, working, edit, orphan, confirmed, seen, runs, edits, faults>>

(* The tool's schema has no id and the code makes none. *)
NoteOf(text) == [id |-> "", text |-> text]

SaveNote(s) ==
    /\ job[s].pc = "notes" /\ job[s].notes # <<>>
    /\ working' = [working EXCEPT ![s] = Upsert(@, NoteOf(Head(job[s].notes)))]
    /\ job' = [job EXCEPT ![s].notes = Tail(@), ![s].saved = @ + 1]
    /\ UNCHANGED <<profile, edit, orphan, confirmed, seen, runs, edits, faults>>

WorkingRouteDone(s) ==
    /\ job[s].pc = "notes" /\ job[s].notes = <<>>
    /\ job' = [job EXCEPT ![s].pc = "done"]
    /\ UNCHANGED <<profile, working, edit, orphan, confirmed, seen, runs, edits, faults>>

(* A failing model call, parse or file operation ends its route only; what *)
(* the route had not saved stays unsaved.                                  *)
RouteFailsUnrecorded(s) ==
    /\ faults < MaxFaults
    /\ job[s].pc \in {"ask", "items", "put", "asknotes", "notes"}
    /\ faults' = faults + 1
    /\ job' = [job EXCEPT ![s].pc = IF job[s].pc \in {"asknotes", "notes"} THEN "done"
                                    ELSE NextRoute(s),
                          ![s].snap = None, ![s].put = None]
    /\ UNCHANGED <<profile, working, edit, orphan, confirmed, seen, runs, edits>>
RouteFails(s) ==
    /\ faults < MaxFaults
    /\ job[s].pc \in {"ask", "items", "put", "asknotes", "notes"}
    /\ faults' = faults + 1
    /\ job' = [job EXCEPT ![s].pc = IF job[s].pc \in {"asknotes", "notes"} THEN "done"
                                    ELSE NextRoute(s),
                          ![s].snap = None, ![s].put = None, ![s].failed = TRUE]
    /\ UNCHANGED <<profile, working, edit, orphan, confirmed, seen, runs, edits>>

Outcome(s) == IF job[s].failed THEN "warning"
              ELSE IF job[s].saved = 0 THEN "skipped" ELSE "success"

Finish(s) ==
    /\ job[s].pc = "done"
    /\ job' = [job EXCEPT ![s].pc = "idle", ![s].outcome = Outcome(s)]
    /\ UNCHANGED <<profile, working, edit, orphan, confirmed, seen, runs, edits, faults>>

-----------------------------------------------------------------------------
(* The timeout, the thread it leaves behind, and a crash. *)

(* The whole file the cancelled write was writing. *)
Timeout(s) ==
    /\ faults < MaxFaults
    /\ job[s].pc \in {"ask", "items", "put", "asknotes", "notes"}
    /\ faults' = faults + 1
    /\ orphan' \in {orphan} \cup
         (IF job[s].pc = "put" THEN {[kind |-> "write", to |-> UpsertProfile(profile, job[s].put)]}
          ELSE {})
    /\ job' = [job EXCEPT ![s].pc = "idle", ![s].snap = None, ![s].put = None,
                          ![s].outcome = "warning"]
    /\ UNCHANGED <<profile, working, edit, confirmed, seen, runs, edits>>

LandLate ==
    /\ orphan # None
    /\ profile' = orphan.to /\ orphan' = None
    /\ UNCHANGED <<working, job, edit, confirmed, seen, runs, edits, faults>>

(* The files are replaced atomically, so a crash leaves them whole.        *)
Crash ==
    /\ faults < MaxFaults
    /\ faults' = faults + 1
    /\ job' = [s \in Sessions |-> Idle]
    /\ edit' = None /\ orphan' = None
    /\ UNCHANGED <<profile, working, confirmed, seen, runs, edits>>

-----------------------------------------------------------------------------
(* The user's requests on one item: the first bucket that holds the id. *)

SetStatus(p, b, k, status) ==
    IF status = "obsolete" \/ (b = "preference_hypotheses" /\ status = "rejected")
    THEN [p EXCEPT ![b] = RemoveAt(@, k)]
    ELSE [p EXCEPT ![b][k].status = status]

(* An unknown id is answered with 404 and changes nothing. *)
Ask(b, k, status) ==
    /\ edit = None /\ edits < MaxEdits
    /\ k \in DOMAIN profile[b]
    /\ edits' = edits + 1
    /\ edit' = [kind |-> "save", to |-> SetStatus(profile, b, k, status)]
    /\ confirmed' = IF status = "active" THEN confirmed \cup {profile[b][k].id} ELSE confirmed
    /\ UNCHANGED <<profile, working, job, orphan, seen, runs, faults>>

SaveEdit ==
    /\ edit # None
    /\ profile' = edit.to /\ edit' = None
    /\ UNCHANGED <<working, job, orphan, confirmed, seen, runs, edits, faults>>

-----------------------------------------------------------------------------

RunStep(s) ==
    \/ \E should \in BOOLEAN, routes \in SUBSET {"profile", "working"} :
         Decide(s, RoutesOf(should, routes))
    \/ \E answer \in Answers : ReportItems(s, answer)
    \/ MergeNext(s) \/ PutItem(s) \/ ProfileRouteDone(s)
    \/ \E notes \in NoteLists : ReportNotes(s, notes)
    \/ SaveNote(s) \/ WorkingRouteDone(s)
    \/ RouteFails(s) \/ Finish(s) \/ Timeout(s)

UserStep ==
    \/ \E b \in Buckets : \E k \in DOMAIN profile[b], status \in {"active", "rejected", "obsolete"} :
         Ask(b, k, status)
    \/ SaveEdit

Next == (\E s \in Sessions : RunStep(s)) \/ UserStep \/ LandLate \/ Crash

Spec == Init /\ [][Next]_vars

-----------------------------------------------------------------------------

(* Whatever snapshots are written over each other, no two items of the     *)
(* profile have one id, so a confirm, reject or delete names one item      *)
(* (memory_routes.py:74 stops at the first).                               *)
IdsUnique ==
    \A b, c \in Buckets : \A i \in DOMAIN profile[b], j \in DOMAIN profile[c] :
        profile[b][i].id = profile[c][j].id => <<b, i>> = <<c, j>>

(* An item of a sensitive domain is active only after the user confirmed   *)
(* it, and what the policy drops is never stored (policy.py:98), also     *)
(* when a hypothesis turns stable, a stale snapshot is written back or a   *)
(* cancelled write lands late.                                             *)
SensitiveNeedsUser ==
    \A x \in Items(profile) :
        /\ x.slot \notin Denied /\ ~x.pii
        /\ (x.slot \in Sensitive /\ x.status = "active") => x.id \in confirmed

(* No item claims more observations than reports of its slot were merged:  *)
(* a stale snapshot or a late write may lose a count but never add one, so *)
(* a first report is never promoted (profile_normalization.py:128).        *)
CountEarned == \A x \in Items(profile) : x.count <= seen[x.slot]

(* A run that lets the cursor advance (success or skipped) left no item    *)
(* and no note of its answers unhandled; a route that failed half-way      *)
(* turns the run into a warning, which is retried (extraction.py:846).     *)
DoneMeansSaved ==
    \A s \in Sessions :
        job[s].outcome \in {"success", "skipped"} => job[s].todo = <<>> /\ job[s].notes = <<>>

(* 已保存 {saved_count} 条工作记忆 (extraction.py:766): a run whose working   *)
(* memory route finished with n saved items finds n items in the file.     *)
WorkingSaved ==
    \A s \in Sessions :
        (job[s].outcome = "success" /\ job[s].routes = {"working"})
            => Len(working[s]) >= job[s].saved
=============================================================================
