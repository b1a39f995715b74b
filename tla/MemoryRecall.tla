---------------------------- MODULE MemoryRecall ----------------------------
(***************************************************************************)
(* Recall and archive of one user's memory: a turn decides whether to      *)
(* recall, plans, loads, retrieves and reranks, while an extraction        *)
(* rewrites profile items, runs that end in Phase 4 archive the trip, and  *)
(* vectors are warmed in threads; a restart may bring another embedding    *)
(* model.                                                                  *)
(*                                                                         *)
(* Everything on the event loop interleaves at its awaits.  Retrieval and  *)
(* reranking are one synchronous stretch: between the sidecar's read and   *)
(* its write-back (pc "ranking") only a thread that stores a warmed        *)
(* vector can step.                                                        *)
(***************************************************************************)
EXTENDS RecallPipeline

CONSTANTS
    Messages,    \* user messages, see RecallPipeline
    QueryReplies,\* what the query model may answer
    Items,       \* function: profile item id to the sequence of its texts' records
    Earlier,     \* function: per item the text earlier turns left, 0 for none
    PlanVersions,\* sequence: the trip's plan as it changes after its first run in Phase 4
    Runs,        \* agent runs that may end in Phase 4
    Models,      \* embedding models
    Themes,      \* sets of terms: what the embedding model may put near a message
    MaxRecalls,  \* turns of the user (bound)
    MaxWrites,   \* extractions and ends of runs (bound)
    MaxFaults    \* failures, timeouts and restarts (bound)

ASSUME RecallAssumption ==
    /\ MaxRecalls \in Nat /\ MaxWrites \in Nat /\ MaxFaults \in Nat
    /\ Earlier \in [DOMAIN Items -> Nat]
    /\ \A i \in DOMAIN Items : Earlier[i] <= Len(Items[i])
    /\ Len(PlanVersions) \in Nat \ {0} /\ Models # {}
    /\ \A v \in 1..Len(PlanVersions) :
          Len(PlanVersions[v].rejected) \in Nat /\ Len(PlanVersions[v].lessons) \in Nat

\* Texts have finitely many terms; of two profile items one is the newer or has the smaller id.
ASSUME RecordsAssumption ==
    /\ IsFiniteSet(DOMAIN Items)
    /\ \A i \in DOMAIN Items : Len(Items[i]) \in Nat
    /\ \A i \in DOMAIN Items : \A n \in 1..Len(Items[i]) :
          LET c == Items[i][n]
          IN  /\ c.source = "profile" /\ c.age \in 0..99
              /\ IsFiniteSet(c.domains) /\ IsFiniteSet(c.terms)
    /\ \A i, j \in DOMAIN Items : \A n \in 1..Len(Items[i]) : \A k \in 1..Len(Items[j]) :
          Items[i][n].age = Items[j][k].age => i = j
    /\ \A m \in Messages : IsFiniteSet(m.domains) /\ IsFiniteSet(m.terms)
    /\ \A p \in QueryReplies : p # NoReply => IsFiniteSet(p.terms)

VARIABLES
    profile,     \* per item id the number of its current text, 0 before the first
    plan,        \* which version the trip's plan is at
    episodes,    \* rows of episodes.jsonl
    slices,      \* rows of episode_slices.jsonl
    sidecar,     \* the vector index: key to row
    model,       \* the configured embedding model
    provider,    \* the embedding provider works (it is disabled at its first failure)
    warms,       \* rows handed to a thread and not yet stored
    recall,      \* the turn's recall
    archive,     \* per run the archive call at its end
    recalls, writes, faults

recallVars == <<profile, plan, episodes, slices, sidecar, model, provider, warms, recall, archive,
                recalls, writes, faults>>

Quiet == [pc |-> "idle", msg |-> NoReply, decision |-> "", why |-> "", plan |-> NoReply, dual |-> NoDual,
          profile |-> {}, slices |-> {}, rows |-> <<>>, used |-> {}, context |-> {}]
NoArchive == [pc |-> "idle", version |-> 0, todo |-> <<>>]

Put(f, k, v) == [x \in DOMAIN f \cup {k} |-> IF x = k THEN v ELSE f[x]]

RecallInit ==
    /\ profile = Earlier
    /\ plan = 1
    /\ episodes = <<>> /\ slices = <<>> /\ sidecar = <<>>
    /\ model \in Models /\ provider = TRUE
    /\ warms = {}
    /\ recall = Quiet
    /\ archive = [r \in Runs |-> NoArchive]
    /\ recalls = 0 /\ writes = 0 /\ faults = 0

\* From the last load on, the turn runs on the event loop to its end; only threads step.
\* While it waits for a model's answer others could step, but an answer reads and writes
\* nothing of theirs: the step commutes with theirs, and comes first here.
\* An instance of the model ends with its last turn (bound).
LoopFree == recall.pc \in {"load", "slices"} \/ (recall.pc = "idle" /\ recalls < MaxRecalls)

\* profile.json as recall candidates, and the archived slices.
ProfileRecords == {Items[i][profile[i]] : i \in {j \in DOMAIN Items : profile[j] > 0}}
SliceRecords   == {slices[k] : k \in DOMAIN slices}

\* A row remembers the text (its hash), the model and the vector.
RowFor(c) == [text |-> c.text, model |-> model, vector |-> <<c.text, model>>]
KeyOf(c)  == <<c.source, c.id>>

-----------------------------------------------------------------------------
(* The turn. *)

\* The user's message arrives; stage 0 forces, skips or asks the gate.
Ask ==
    /\ recall.pc = "idle" /\ recalls < MaxRecalls
    /\ recalls' = recalls + 1
    /\ \E m \in Messages :
        LET d == ShortCircuit(m)
        IN  recall' = [Quiet EXCEPT !.msg = m, !.decision = d,
                        !.why = CASE d = "force_recall" -> "forced"
                                  [] d = "skip_recall" -> "no"
                                  [] OTHER -> "",
                        !.pc = CASE d = "force_recall" -> "query"
                                 [] d = "skip_recall" -> "load"
                                 [] OTHER -> "gate"]
    /\ UNCHANGED <<profile, plan, episodes, slices, sidecar, model, provider, warms, archive, writes, faults>>

\* Without a usable answer of the gate the message's words decide.
GateFallback(m) ==
    [recall EXCEPT !.why = IF HeuristicPlan(m, recall.decision).fallback = "none" THEN "heuristic" ELSE "no",
                    !.pc = "load"]

Gate ==
    /\ recall.pc = "gate"
    /\ \E g \in GateReplies :
        recall' = CASE ParsedGate(g) = "recall" -> [recall EXCEPT !.why = "gate", !.pc = "query"]
                  [] ParsedGate(g) = "no"     -> [recall EXCEPT !.why = "no", !.pc = "load"]
                  [] OTHER                    -> GateFallback(recall.msg)
    /\ UNCHANGED <<profile, plan, episodes, slices, sidecar, model, provider, warms, archive, recalls, writes, faults>>

\* The gate's timeout or error.
GateUnanswered ==
    /\ recall.pc = "gate" /\ faults < MaxFaults
    /\ faults' = faults + 1
    /\ recall' = GateFallback(recall.msg)
    /\ UNCHANGED <<profile, plan, episodes, slices, sidecar, model, provider, warms, archive, recalls, writes>>

\* Stage 2: the query model answers, or its timeout or error leaves the heuristic plan.
Query ==
    /\ recall.pc = "query"
    /\ \/ /\ \E p \in QueryReplies : recall' = [recall EXCEPT !.plan = ParsedPlan(p), !.pc = "load"]
          /\ UNCHANGED faults
       \/ /\ faults < MaxFaults /\ faults' = faults + 1
          /\ recall' = [recall EXCEPT !.plan = HeuristicPlan(recall.msg, recall.decision), !.pc = "load"]
    /\ UNCHANGED <<profile, plan, episodes, slices, sidecar, model, provider, warms, archive, recalls, writes>>

\* The memory manager plans for itself when it was given no plan.
ManagerDualUnaware == DualOf(IF recall.plan = NoReply THEN HeuristicPlan(recall.msg, "") ELSE recall.plan)
ManagerDual == DualOf(IF recall.plan = NoReply THEN HeuristicPlan(recall.msg, recall.decision) ELSE recall.plan)

\* The profile is loaded whatever was decided; then the working memory, which is no
\* candidate of a recall, and the slices when an episode is wanted: one step stands for both.
LoadProfile ==
    /\ LoopFree /\ recall.pc = "load"
    /\ LET d == IF recall.why = "no" THEN NoDual ELSE ManagerDual
       IN  recall' = [recall EXCEPT !.profile = ProfileRecords, !.dual = d, !.plan = NoReply,
                      !.pc = IF d.profile \/ d.episode THEN "slices" ELSE "done"]
    /\ UNCHANGED <<profile, plan, episodes, slices, sidecar, model, provider, warms, archive, recalls, writes, faults>>

LoadSlices ==
    /\ LoopFree /\ recall.pc = "slices"
    /\ recall' = [recall EXCEPT !.pc = "fetch",
                  !.slices = IF recall.dual.episode THEN AtDestination(SliceRecords, recall.dual.dest) ELSE {}]
    /\ UNCHANGED <<profile, plan, episodes, slices, sidecar, model, provider, warms, archive, recalls, writes, faults>>

Records(source) ==
    IF source = "profile" THEN IF recall.dual.profile THEN recall.profile ELSE {}
    ELSE IF recall.dual.episode THEN recall.slices ELSE {}
Wanted == Asked(recall.dual, Records("profile")) \cup Records("episode_slice")

\* The semantic lane reads the stored vectors of its records.
FetchRows ==
    /\ recall.pc = "fetch"
    /\ recall' = [recall EXCEPT !.pc = "ranking",
                  !.rows = [k \in DOMAIN sidecar \cap {KeyOf(c) : c \in Wanted} |-> sidecar[k]]]
    /\ UNCHANGED <<profile, plan, episodes, slices, sidecar, model, provider, warms, archive, recalls, writes, faults>>

\* A stored row serves a record only if it was made of this text by this model.
ValidAnyText(row, c) == row.model = model
ValidRow(row, c) == row.text = c.text /\ row.model = model
Hit(c) == KeyOf(c) \in DOMAIN recall.rows /\ ValidRow(recall.rows[KeyOf(c)], c)

VectorOf(c) == IF Hit(c) THEN recall.rows[KeyOf(c)].vector ELSE RowFor(c).vector

\* What a source contributes; a lane that failed is left out.
Selected(source, near, semantic, n) ==
    LET recs  == Records(source)
        on    == IF semantic THEN Lanes ELSE Lanes \ {"semantic"}
        lanes == [l \in on |-> CASE l = "symbolic" -> SymbolicLane(recall.dual, recs)
                                 [] l = "lexical"  -> LexicalLane(recall.dual, recall.msg, recs)
                                 [] l = "semantic" -> SemanticLane(near \cap Wanted \cap recs)]
    IN  IF recs = {} \/ on = {} THEN {} ELSE Reranked(recall.dual, recall.msg, lanes, n)

Finished(near, semantic) ==
    [recall EXCEPT !.pc = "done",
       !.used = IF semantic THEN {<<c, VectorOf(c)>> : c \in Wanted} ELSE {},
       !.context = Selected("profile", near, semantic, ProfileTopN)
                   \cup Selected("episode_slice", near, semantic, EpisodeTopN)]

\* Missing and stale vectors are computed and written back (the write may fail), then
\* the lanes are fused and reranked.
Rank ==
    /\ recall.pc = "ranking" /\ provider /\ "semantic" \in Lanes
    /\ \E theme \in Themes : recall' = Finished({c \in Wanted : c.terms \cap theme # {}}, TRUE)
    /\ LET new == {c \in Wanted : ~Hit(c)}
       IN  \/ /\ sidecar' = [k \in DOMAIN sidecar \cup {KeyOf(c) : c \in new} |->
                                IF \E c \in new : KeyOf(c) = k
                                THEN RowFor(CHOOSE c \in new : KeyOf(c) = k) ELSE sidecar[k]]
              /\ UNCHANGED faults
           \/ /\ new # {} /\ faults < MaxFaults /\ faults' = faults + 1
              /\ UNCHANGED sidecar
    /\ UNCHANGED <<profile, plan, episodes, slices, model, provider, warms, archive, recalls, writes>>

\* The provider is off, or fails now and stays off for the life of the process.
RankWithoutVectors ==
    /\ recall.pc = "ranking"
    /\ \/ ~provider /\ UNCHANGED <<provider, faults>>
       \/ provider /\ faults < MaxFaults /\ faults' = faults + 1 /\ provider' = FALSE
    /\ recall' = Finished({}, FALSE)
    /\ UNCHANGED <<profile, plan, episodes, slices, sidecar, model, warms, archive, recalls, writes>>

\* The context goes to the agent's prompt.
Inject ==
    /\ recall.pc = "done" /\ recall' = Quiet
    /\ UNCHANGED <<profile, plan, episodes, slices, sidecar, model, provider, warms, archive, recalls, writes, faults>>

-----------------------------------------------------------------------------
(* Writers. *)

\* A vector is computed on the loop, where the provider may fail for good, and handed to a
\* thread the writer awaits; a writer that is cancelled leaves the thread to finish.
Warm(c, writer) ==
    IF provider /\ (c.source = "profile" => c.bucket \in {"constraints", "stable_preferences"})
    THEN \/ /\ warms' = warms \cup {[key |-> KeyOf(c), row |-> RowFor(c), writer |-> writer]}
            /\ UNCHANGED <<provider, faults>>
         \/ /\ faults < MaxFaults /\ faults' = faults + 1 /\ provider' = FALSE
            /\ UNCHANGED warms
    ELSE UNCHANGED <<warms, provider, faults>>
Awaits(writer) == \E w \in warms : w.writer = writer

\* An extraction stores the next text of a profile item and warms it.
Extract ==
    /\ LoopFree /\ ~Awaits("extraction")
    /\ writes < MaxWrites /\ writes' = writes + 1
    /\ \E i \in DOMAIN Items :
        /\ profile[i] < Len(Items[i])
        /\ profile' = [profile EXCEPT ![i] = @ + 1]
        /\ Warm(Items[i][profile[i] + 1], "extraction")
    /\ UNCHANGED <<plan, episodes, slices, sidecar, model, recall, archive, recalls>>

\* The 40 s of the extraction are over while its thread still runs.
ExtractTimesOut ==
    /\ LoopFree /\ faults < MaxFaults /\ faults' = faults + 1
    /\ \E w \in warms :
        /\ w.writer = "extraction"
        /\ warms' = (warms \ {w}) \cup {[w EXCEPT !.writer = "nobody"]}
    /\ UNCHANGED <<profile, plan, episodes, slices, sidecar, model, provider, recall, archive, recalls, writes>>

\* A thread stores its row, or fails to.
WarmLands ==
    /\ LoopFree \/ recall.pc \in {"fetch", "ranking"}
    /\ \E w \in warms :
        /\ warms' = warms \ {w}
        /\ \/ sidecar' = Put(sidecar, w.key, w.row) /\ UNCHANGED faults
           \/ faults < MaxFaults /\ faults' = faults + 1 /\ UNCHANGED sidecar
    /\ UNCHANGED <<profile, plan, episodes, slices, model, provider, recall, archive, recalls, writes>>

\* The plan moves on: its deliverables are frozen, or a backtrack drops them and changes it.
Replan ==
    /\ LoopFree /\ plan < Len(PlanVersions)
    /\ plan' = plan + 1
    /\ UNCHANGED <<profile, episodes, slices, sidecar, model, provider, warms, recall, archive, recalls, writes, faults>>

-----------------------------------------------------------------------------
(* The archive at the end of a run. *)

\* A run ends in Phase 4, deliverables or not: the episode is built from the plan.
EndRun(r) ==
    /\ LoopFree /\ archive[r].pc = "idle"
    /\ writes < MaxWrites /\ writes' = writes + 1
    /\ archive' = [archive EXCEPT ![r] =
                     [pc |-> "list", version |-> plan, todo |-> SliceKeys(PlanVersions[plan])]]
    /\ UNCHANGED <<profile, plan, episodes, slices, sidecar, model, provider, warms, recall, recalls, faults>>

\* A trip already archived only gets its slices.
ListEpisodes(r) ==
    /\ LoopFree /\ archive[r].pc = "list"
    /\ archive' = [archive EXCEPT ![r].pc = IF episodes = <<>> THEN "episode" ELSE "slices"]
    /\ UNCHANGED <<profile, plan, episodes, slices, sidecar, model, provider, warms, recall, recalls, writes, faults>>

\* Both files skip a row whose id they hold.
StoredEpisodeUnchecked(row) == Append(episodes, row)
StoredEpisode(row) == IF episodes = <<>> THEN Append(episodes, row) ELSE episodes
StoredSlice(row) ==
    IF \E k \in DOMAIN slices : slices[k].id = row.id THEN slices ELSE Append(slices, row)

AppendEpisode(r) ==
    /\ LoopFree /\ archive[r].pc = "episode"
    /\ episodes' = StoredEpisode([version |-> archive[r].version])
    /\ archive' = [archive EXCEPT ![r].pc = "slices"]
    /\ UNCHANGED <<profile, plan, slices, sidecar, model, provider, warms, recall, recalls, writes, faults>>

\* One slice: append it, then warm what was built, stored or not.
AppendSlice(r) ==
    /\ LoopFree /\ archive[r].pc = "slices" /\ ~Awaits(r)
    /\ LET c == SliceOf(Head(archive[r].todo), PlanVersions[archive[r].version])
       IN  slices' = StoredSlice(c) /\ Warm(c, r)
    /\ archive' = [archive EXCEPT ![r].todo = Tail(@), ![r].pc = IF Len(archive[r].todo) = 1 THEN "done" ELSE @]
    /\ UNCHANGED <<profile, plan, episodes, sidecar, model, recall, recalls, writes>>

\* An exception of the archive is swallowed; a later run of the trip tries again.
ArchiveFails(r) ==
    /\ LoopFree /\ archive[r].pc \in {"list", "episode", "slices"} /\ faults < MaxFaults
    /\ faults' = faults + 1
    /\ archive' = [archive EXCEPT ![r] = NoArchive]
    /\ warms' = {IF w.writer = r THEN [w EXCEPT !.writer = "nobody"] ELSE w : w \in warms}
    /\ UNCHANGED <<profile, plan, episodes, slices, sidecar, model, provider, recall, recalls, writes>>

\* The process dies and comes back, perhaps configured with another model.
ComeBack ==
    /\ LoopFree /\ faults < MaxFaults /\ faults' = faults + 1
    /\ model' \in Models /\ provider' = TRUE
    /\ warms' = {} /\ recall' = Quiet
    /\ archive' = [r \in Runs |-> IF archive[r].pc = "done" THEN archive[r] ELSE NoArchive]
    /\ UNCHANGED <<profile, plan, episodes, slices, sidecar, recalls, writes>>

RecallNext ==
    \/ Ask \/ Gate \/ GateUnanswered \/ Query \/ LoadProfile \/ LoadSlices \/ FetchRows
    \/ Rank \/ RankWithoutVectors \/ Inject
    \/ Extract \/ ExtractTimesOut \/ WarmLands \/ Replan \/ ComeBack
    \/ \E r \in Runs : EndRun(r) \/ ListEpisodes(r) \/ AppendEpisode(r) \/ AppendSlice(r)
                       \/ ArchiveFails(r)

RecallSpec == RecallInit /\ [][RecallNext]_recallVars

-----------------------------------------------------------------------------
(* Properties. *)

\* What a finished turn injects was asked for: nothing after a skip, only loaded records of
\* the wanted sources, buckets and destination, none the message contradicts, no two of a
\* duplicate group, and no more than the limits, whichever lanes answered.
OnlyWhatWasAsked ==
    recall.pc = "done" =>
        LET from(source) == {c \in recall.context : c.source = source}
        IN  /\ recall.context # {} => ShortCircuit(recall.msg) # "skip_recall"
            /\ \A c \in from("profile") : c \in recall.profile /\ c.bucket \in recall.dual.buckets
            /\ \A c \in from("episode_slice") :
                  /\ recall.dual.episode
                  /\ recall.dual.dest # "" => SamePlace(recall.dual.dest, c.dest)
            /\ \A c \in recall.context : ~Conflicts(c, recall.msg)
            /\ \A c, d \in recall.context : DuplicateGroup(c) = DuplicateGroup(d) => c = d
            /\ Cardinality(from("profile")) <= ProfileTopN
            /\ Cardinality(from("episode_slice")) <= EpisodeTopN

\* A turn for which the words of the message decided to recall does search: the gate's
\* fallback and the manager's own plan read them alike.
FallbackSearches ==
    recall.pc \in {"slices", "fetch", "ranking", "done"} /\ recall.why = "heuristic" =>
        recall.dual.profile \/ recall.dual.episode

\* A record is ranked by the vector of the text the turn loaded, made by the model in use,
\* whatever warmed, late or superseded rows the index holds.
FreshVectors ==
    recall.pc = "done" => \A u \in recall.used : u[2] = <<u[1].text, model>>

\* Archive calls of one trip that overlap, fail or repeat leave one episode and one row per
\* slice, and a call that ended left every slice of its plan.
ArchiveOnce ==
    /\ Len(episodes) <= 1
    /\ \A j, k \in DOMAIN slices : slices[j].id = slices[k].id => j = k
    /\ \A r \in Runs : archive[r].pc = "done" =>
          /\ episodes # <<>>
          /\ LET keys == SliceKeys(PlanVersions[archive[r].version])
             IN  \A k \in DOMAIN keys : \E j \in DOMAIN slices : slices[j].id = keys[k]

\* The archive is of the finished trip: once a run that had frozen deliverables has
\* archived, the episode is of that run's plan or of a later one.
EpisodeIsFinal ==
    \A r \in Runs : archive[r].pc = "done" /\ PlanVersions[archive[r].version].frozen =>
        episodes[1].version >= archive[r].version
=============================================================================
