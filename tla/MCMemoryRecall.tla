--------------------------- MODULE MCMemoryRecall ---------------------------
(* Instance of MemoryRecall for TLC: a few messages, profile items and plans. *)
EXTENDS MemoryRecall, TLC

Msg(signals, cue, hint, domains, dest, terms, pro) ==
    [blank |-> FALSE, signals |-> signals, negated |-> FALSE, process |-> FALSE, cue |-> cue,
     hint |-> hint, domains |-> domains, dest |-> dest, terms |-> terms, pro |-> pro, con |-> {}]

\* "as last time, the inn in Kyoto", "recommend me one, an inn is fine",
\* "what is the budget of this trip", "do not go by my habits: no spicy food".
SomeMessages ==
    {Msg({"history"}, TRUE, FALSE, {"hotel"}, "kyoto", {"inn"}, {}),
     Msg({"recommend"}, FALSE, FALSE, {}, "", {"inn"}, {"inn"}),
     Msg({"fact_scope", "fact_field"}, FALSE, FALSE, {"hotel"}, "", {"inn"}, {}),
     [Msg({"style"}, FALSE, TRUE, {"food"}, "", {"spicy"}, {}) EXCEPT !.negated = TRUE, !.con = {"spicy"}]}

Reply(source, buckets, domains, dest, topK) ==
    [kind |-> "query", source |-> source, fields |-> "exact", buckets |-> buckets,
     domains |-> domains, dest |-> dest, terms |-> {"inn"}, topK |-> topK, reason |-> TRUE]
SomeReplies ==
    {Reply("profile", {}, {"hotel"}, "", 5), Reply("hybrid_history", Conservative, {"hotel"}, "kansai", 20),
     Reply("episode_slice", {}, {"hotel", "general"}, "kyoto", 1)}

Item(id, bucket, domain, polarity, term, text, age) ==
    [source |-> "profile", id |-> id, bucket |-> bucket, key |-> "k", polarity |-> polarity,
     domain |-> domain, domains |-> {domain}, dest |-> "", terms |-> {term},
     text |-> <<id, text>>, age |-> age]
SomeItems ==
    [avoid |-> <<Item("avoid", "constraints", "hotel", "avoid", "inn", 1, 1),
                 Item("avoid", "constraints", "hotel", "avoid", "noise", 2, 1)>>,
     taste |-> <<Item("taste", "stable_preferences", "hotel", "avoid", "inn", 1, 2)>>,
     spicy |-> <<Item("spicy", "stable_preferences", "food", "prefer", "spicy", 1, 3)>>]

Plan(version, frozen, stay, rejected) ==
    [version |-> version, frozen |-> frozen, dest |-> "kyoto", stay |-> stay, transport |-> "",
     rejected |-> rejected, lessons |-> <<>>]
SomePlans == <<Plan(1, FALSE, "", <<>>), Plan(2, TRUE, "inn", <<>>)>>
SomeThemes == {{}, {"inn"}, {"kyoto", "noise", "spicy"}}

SomeEarlier == [avoid |-> 1, taste |-> 1, spicy |-> 1]
Alike == Permutations(Runs) \cup Permutations(Models)
Places  == [Kyoto |-> "kyoto"]
Regions == [kyoto |-> "kansai", osaka |-> "kansai", kansai |-> "kansai"]
=============================================================================
