--------------------------- MODULE RecallPipeline ---------------------------
(***************************************************************************)
(* The pure stages of memory recall, one operator per stage:               *)
(*   stage 0  ShortCircuit    rules over the signals of a message          *)
(*   stage 1  ParsedGate      the answer of the gate model                 *)
(*   stage 2  ParsedPlan, HeuristicPlan, DualOf    what to look for        *)
(*   stage 3  SymbolicLane, LexicalLane, SemanticLane, Fused               *)
(*   stage 4  Reranked        conflicts, duplicates, limits                *)
(* and what the archive of a trip derives from its plan (SliceKeys).       *)
(*                                                                         *)
(* A text is the set of its terms.  A message also says which categories   *)
(* of signal words it holds and which terms it speaks for (pro) and        *)
(* against (con).  A memory record has an age, its place in the order      *)
(* newest first, then by id, in which two records of a source never share  *)
(* one; the slices of a trip count as equally old and come by id.  Scores  *)
(* are the code's formulas in hundredths.                                  *)
(***************************************************************************)
EXTENDS Naturals, Sequences, FiniteSets, FiniteSetsExt, Functions

CONSTANTS
    Lanes,          \* retrieval lanes switched on
    LaneTopK,       \* candidates a lane returns at most
    FusedMax,       \* candidates of a source after fusion at most
    ProfileTopN,    \* profile items in a context at most
    EpisodeTopN,    \* episode slices in a context at most
    Normalize,      \* destination_normalization_enabled
    Canonical,      \* function: place name to its canonical name
    Region          \* function: canonical name to its region

ASSUME PipelineAssumption ==
    /\ Lanes \subseteq {"symbolic", "lexical", "semantic"}
    /\ LaneTopK \in Nat /\ FusedMax \in Nat
    /\ ProfileTopN \in Nat /\ EpisodeTopN \in Nat /\ Normalize \in BOOLEAN

\* No place of the catalog has an empty canonical name.
ASSUME CatalogAssumption == \A place \in DOMAIN Canonical : Canonical[place] # ""

Conservative == {"constraints", "rejections", "stable_preferences"}
Buckets      == Conservative \cup {"preference_hypotheses"}
Categories   == {"history", "style", "recommend", "fact_scope", "fact_field", "ack_sys"}
NoReply      == [kind |-> "none"]

-----------------------------------------------------------------------------
(* Stage 0. *)

\* Turn control without a question: a process word and a planning word.
ProcessOnly(m) == m.signals \cap {"history", "style"} = {} /\ m.process

\* The first matching rule decides; P2 and P6 leave it to the gate.
ShortCircuit(m) ==
    CASE m.blank                                        -> "undecided"
      [] m.signals \cap {"history", "style"} # {}       ->
            IF m.negated THEN "undecided" ELSE "force_recall"
      [] ProcessOnly(m)                                 -> "skip_recall"
      [] "recommend" \in m.signals                      -> "undecided"
      [] {"fact_scope", "fact_field"} \subseteq m.signals -> "skip_recall"
      [] m.signals = {"ack_sys"}                        -> "skip_recall"
      [] OTHER                                          -> "undecided"

-----------------------------------------------------------------------------
(* Stage 1. *)

RecallIntents == {"profile_preference_recall", "profile_constraint_recall",
                  "past_trip_experience_recall", "mixed_or_ambiguous"}
OtherIntents  == {"current_trip_fact", "no_recall_needed"}

\* What the gate model may answer: nothing, or a flag and an intent that may disagree.
GateReplies == {NoReply} \cup
    [kind : {"gate"}, needs : BOOLEAN,
     intent : {"profile_preference_recall", "mixed_or_ambiguous", "no_recall_needed"}]

\* "recall", "no" or "invalid".
ParsedGate(g) ==
    IF g = NoReply THEN "invalid"
    ELSE IF g.intent = "mixed_or_ambiguous" THEN "recall"
    ELSE IF g.needs # (g.intent \in RecallIntents) THEN "invalid"
    ELSE IF g.needs THEN "recall" ELSE "no"

-----------------------------------------------------------------------------
(* Stage 2. *)

Sources        == {"profile", "episode_slice", "hybrid_history"}
AllowedDomains == {"itinerary", "pace", "food", "hotel", "accommodation", "flight", "train",
                   "budget", "family", "accessibility", "planning_style", "documents", "general"}

FallbackPlan(why) ==
    [source |-> "hybrid_history", buckets |-> Conservative, domains |-> {}, dest |-> "",
     terms |-> {}, topK |-> 5, fallback |-> why]

\* The argument checks of the query tool; an episode plan has no buckets.
ValidPlan(p) ==
    /\ p.source \in Sources /\ p.fields = "exact"
    /\ p.domains \subseteq AllowedDomains
    /\ p.topK > 0 /\ p.reason
    /\ p.source = "episode_slice" \/ (p.buckets # {} /\ p.buckets \subseteq Buckets)

ParsedPlan(p) ==
    IF p = NoReply THEN FallbackPlan("fallback_default_plan")
    ELSE IF ~ValidPlan(p) THEN FallbackPlan("invalid_query_plan")
    ELSE [source |-> p.source, buckets |-> IF p.source = "episode_slice" THEN {} ELSE p.buckets,
          domains |-> p.domains, dest |-> p.dest, terms |-> p.terms,
          topK |-> Min({p.topK, 10}), fallback |-> "none"]

\* A question about the user's own habits: a profile domain and a hint word.
DirectQuery(m) == m.hint /\ m.domains # {}

Triggers(m) == ~m.blank /\ (m.cue \/ DirectQuery(m))

\* The plan read off the message's words when no model answers.
HeuristicPlan(m, decision) ==
    LET style     == decision = "force_recall" /\ "style" \in m.signals
        recommend == decision = "undecided" /\ "recommend" \in m.signals
        profile   == style \/ recommend \/ m.hint \/ m.domains # {}
        slices    == m.dest # "" \/ m.domains \cap {"hotel", "accommodation", "train"} # {}
    IN  IF ~(Triggers(m) \/ style \/ recommend)
        THEN FallbackPlan("no_historical_recall_cue")
        ELSE [source  |-> IF profile /\ (~slices \/ style \/ recommend \/ DirectQuery(m))
                          THEN "profile"
                          ELSE IF slices /\ ~profile THEN "episode_slice" ELSE "hybrid_history",
              buckets |-> Conservative, domains |-> m.domains, dest |-> m.dest,
              terms |-> m.terms, topK |-> 5, fallback |-> "none"]

\* One query per source; a plan without a cue is no plan.
NoDual == [profile |-> FALSE, episode |-> FALSE, buckets |-> {}, domains |-> {}, dest |-> "",
           terms |-> {}, topK |-> 0]
DualOf(p) ==
    IF p.fallback = "no_historical_recall_cue" THEN NoDual
    ELSE LET profile == p.source \in {"profile", "hybrid_history"}
         IN  [profile |-> profile, episode |-> p.source \in {"episode_slice", "hybrid_history"},
              buckets |-> IF profile THEN p.buckets ELSE {}, domains |-> p.domains,
              dest |-> p.dest, terms |-> p.terms, topK |-> p.topK]

-----------------------------------------------------------------------------
(* Stage 3: every lane returns a function from its candidates to their ranks. *)

Canon(place) == IF place \in DOMAIN Canonical THEN Canonical[place] ELSE place
RegionOf(c)  == IF c \in DOMAIN Region THEN Region[c] ELSE ""

\* Same place, a place and its region, or two places of one region.
SamePlace(a, b) ==
    LET x == Canon(a)  y == Canon(b)
    IN  /\ x # "" /\ y # ""
        /\ x = y \/ x = RegionOf(y) \/ y = RegionOf(x)
           \/ (RegionOf(x) # "" /\ RegionOf(x) = RegionOf(y))

\* The slices a query for a destination may see.
AtDestination(slices, dest) ==
    IF dest = "" THEN slices
    ELSE {c \in slices : IF Normalize THEN SamePlace(dest, c.dest) ELSE c.dest = dest}

ExpandedDomains(ds) ==
    ds \cup (IF ds \cap {"hotel", "accommodation"} # {} THEN {"hotel", "accommodation"} ELSE {})
       \cup (IF "pace" \in ds THEN {"planning_style"} ELSE {})

\* The k records with the smallest keys, each with its rank; key: records to numbers.
Ranked(key, k) ==
    LET rank(c) == 1 + Cardinality({d \in DOMAIN key : key[d] < key[c]})
    IN  [c \in {x \in DOMAIN key : rank(x) <= k} |-> rank(c)]

BucketRank(b) == CASE b = "constraints" -> 0 [] b = "rejections" -> 1
                   [] b = "stable_preferences" -> 2 [] OTHER -> 3

\* Buckets the symbolic lane searches: an unusable list means the conservative three.
SearchBuckets(q) == IF q.buckets \cap Buckets = {} THEN Conservative ELSE q.buckets \cap Buckets

\* A record is a hit when a domain, a keyword or (a slice) the destination matches.
SymbolicHits(q, records) ==
    {c \in records : /\ c.source = "profile" => c.bucket \in SearchBuckets(q)
                     /\ \/ q.domains \cap c.domains # {}
                        \/ q.terms \cap c.terms # {}
                        \/ c.source = "episode_slice" /\ q.dest # "" /\ c.dest = q.dest}

\* Lexicographic: bucket (or destination), domain, keyword, how many of each, age.
SymbolicKey(q, c) ==
    LET d     == Cardinality(q.domains \cap c.domains)
        w     == Cardinality(q.terms \cap c.terms)
        first == IF c.source = "profile" THEN BucketRank(c.bucket)
                 ELSE IF q.dest # "" /\ c.dest = q.dest THEN 0 ELSE 1
    IN  ((((first * 2 + (IF d = 0 THEN 1 ELSE 0)) * 2 + (IF w = 0 THEN 1 ELSE 0)) * 10
           + (9 - d)) * 10 + (9 - w)) * 100 + c.age

SymbolicLane(q, records) ==
    Ranked([c \in SymbolicHits(q, records) |-> SymbolicKey(q, c)], Min({LaneTopK, q.topK}))

Asked(q, records) == {c \in records : c.source = "profile" => c.bucket \in q.buckets}

Percent(a, b) == IF b = 0 THEN 0 ELSE (100 * a) \div b
Jaccard(a, b) == Percent(Cardinality(a \cap b), IF a = {} \/ b = {} THEN 0 ELSE Cardinality(a \cup b))

\* F1 of the shared terms; below a twentieth counts as no hit.
LexicalScore(words, c) ==
    Percent(2 * Cardinality(words \cap c.terms), Cardinality(words) + Cardinality(c.terms))

LexicalLane(q, m, records) ==
    LET words == m.terms \cup q.terms \cup ExpandedDomains(q.domains)
        hits  == {c \in Asked(q, records) : LexicalScore(words, c) >= 5}
    IN  Ranked([c \in hits |-> (100 - LexicalScore(words, c)) * 100 + c.age], LaneTopK)

\* near: the records the embedding model puts near the message, in its order of age.
SemanticLane(near) == Ranked([c \in near |-> c.age], LaneTopK)

LaneWeight(l) == CASE l = "symbolic" -> 100 [] l = "lexical" -> 60 [] l = "semantic" -> 80

\* Reciprocal rank fusion; lanes: a function from the lanes that answered to their results.
Part(lanes, c, l) == IF c \in DOMAIN lanes[l] THEN (LaneWeight(l) * 1000) \div (60 + lanes[l][c]) ELSE 0
FusedScore(lanes, c) == FoldFunction(+, 0, [l \in DOMAIN lanes |-> Part(lanes, c, l)])

Fused(lanes) ==
    LET all    == UNION {DOMAIN lanes[l] : l \in DOMAIN lanes}
        sym(c) == "symbolic" \in DOMAIN lanes /\ c \in DOMAIN lanes["symbolic"]
        key    == [c \in all |->
                     ((10000 - FusedScore(lanes, c)) * 2 + (IF sym(c) THEN 0 ELSE 1)) * 100 + c.age]
    IN  DOMAIN Ranked(key, FusedMax)

\* The best fused score of the answer is one.
Retrieval(lanes, cands, c) ==
    Percent(FusedScore(lanes, c), Max({FusedScore(lanes, d) : d \in cands}))

-----------------------------------------------------------------------------
(* Stage 4. *)

\* What the user says now overrides a record that says the opposite.
Conflicts(c, m) ==
    /\ c.terms \cap m.terms # {}
    /\ \/ /\ c.bucket \in {"rejected_option", "pitfall"} \/ c.polarity = "avoid"
          /\ c.terms \cap m.pro # {}
       \/ c.polarity = "prefer" /\ c.terms \cap m.con # {}

DuplicateGroup(c) ==
    IF c.source = "profile" THEN <<c.source, c.domain, c.key, c.polarity>>
    ELSE <<c.source, c.bucket, c.domain, c.terms>>

MatchScore(q, c) ==
    Max({Jaccard(q.domains, IF c.source = "profile" THEN {c.domain} ELSE c.domains),
         Jaccard(q.terms, c.terms),
         IF q.dest \in c.terms THEN 100 ELSE 0})

Recency(c) == 100 - c.age

ProfileScore(q, c, retrieval) ==
    LET prior == CASE c.bucket = "constraints" -> 100 [] c.bucket = "rejections" -> 92
                   [] c.bucket = "stable_preferences" -> 82 [] OTHER -> 66
    IN  40 * prior + 20 * retrieval + 30 * MatchScore(q, c) + 10 * Recency(c)

EpisodeScore(q, c, retrieval) ==
    LET type == CASE c.bucket \in {"stay_choice", "transport_choice", "itinerary_pattern"} -> 100
                  [] c.bucket \in {"rejected_option", "pitfall"} -> 88 [] OTHER -> 62
    IN  45 * retrieval + 25 * MatchScore(q, c) + 20 * type + 10 * Recency(c)

Score(q, c, retrieval) ==
    IF c.source = "profile" THEN ProfileScore(q, c, retrieval) ELSE EpisodeScore(q, c, retrieval)

\* The best of every group of duplicates, smallest key first.
Deduped(key) ==
    {c \in DOMAIN key :
        \A d \in DOMAIN key : DuplicateGroup(d) = DuplicateGroup(c) => key[c] <= key[d]}

\* The records of S a context takes: no duplicates, at most n.
BestOf(q, lanes, S, n) ==
    LET best == Fused(lanes)
        key  == [c \in S |-> (20000 - Score(q, c, Retrieval(lanes, best, c))) * 100 + c.age]
    IN  DOMAIN Ranked([c \in Deduped(key) |-> key[c]], n)

RerankedUnfiltered(q, m, lanes, n) == BestOf(q, lanes, Fused(lanes), n)
Reranked(q, m, lanes, n) ==
    BestOf(q, lanes, {c \in Fused(lanes) : ~Conflicts(c, m)}, n)

-----------------------------------------------------------------------------
(* The archive of a trip. *)

\* A pattern and a budget line always (an archived plan has a destination), a slice per
\* choice the plan made, at most two rejections and two lessons.
SliceKeys(p) ==
    LET one(kind, when) == IF when THEN <<[kind |-> kind, nr |-> 1]>> ELSE <<>>
        upTo2(kind, n)  == [k \in 1..Min({n, 2}) |-> [kind |-> kind, nr |-> k]]
    IN  one("itinerary_pattern", TRUE) \o one("stay_choice", p.stay # "")
        \o one("transport_choice", p.transport # "") \o one("budget_signal", TRUE)
        \o upTo2("rejected_option", Len(p.rejected)) \o upTo2("pitfall", Len(p.lessons))

SliceDomains(kind) ==
    CASE kind = "itinerary_pattern" -> <<"planning_style", "pace", "itinerary">>
      [] kind = "stay_choice"       -> <<"hotel", "accommodation">>
      [] kind = "transport_choice"  -> <<"transport", "train", "flight">>
      [] kind = "budget_signal"     -> <<"budget">>
      [] kind = "rejected_option"   -> <<"general">>
      [] kind = "pitfall"           -> <<"general", "pace">>

SliceContent(key, p) ==
    CASE key.kind = "stay_choice"      -> {p.stay}
      [] key.kind = "transport_choice" -> {p.transport}
      [] key.kind = "rejected_option"  -> {p.rejected[key.nr]}
      [] key.kind = "pitfall"          -> {p.lessons[key.nr]}
      [] OTHER                         -> {p.dest}

\* The place of a slice among those of its trip, in the order of their ids.
SlicePlace(key) ==
    key.nr + CASE key.kind = "budget_signal"   -> 0
               [] key.kind = "itinerary_pattern" -> 2
               [] key.kind = "pitfall"         -> 4
               [] key.kind = "rejected_option" -> 6
               [] key.kind = "stay_choice"     -> 8
               [] key.kind = "transport_choice" -> 10

\* The slice as a recall candidate; its text is named by its id and the plan's version.
SliceOf(key, p) ==
    LET ds == SliceDomains(key.kind)
    IN  [source |-> "episode_slice", id |-> key, bucket |-> key.kind, key |-> "", polarity |-> "",
         domain |-> Head(ds), domains |-> {ds[k] : k \in DOMAIN ds}, dest |-> p.dest,
         terms |-> SliceContent(key, p), text |-> <<key.kind, key.nr, p.version>>,
         age |-> SlicePlace(key)]
=============================================================================
