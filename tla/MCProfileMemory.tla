--------------------------- MODULE MCProfileMemory ---------------------------
(* Reports that meet each other: a hypothesis two runs report, a sensitive *)
(* item firmly declared, a denied one, an entry that does not convert.     *)
EXTENDS ProfileMemory

Item(b, slot, value, stab, conf) == Report(b, slot, value, stab, conf, FALSE)

SomeAnswers ==
    { <<Item("constraints", "knee", "yes", "explicit_declared", "high"),
        Item("stable_preferences", "card", "visa", "explicit_declared", "high"),
        Item("preference_hypotheses", "knee", "yes", "soft_constraint", "low")>>,
      <<Item("rejections", "spicy", "no", "explicit_declared", "bad"),
        Report("rejections", "spicy", "hot", "explicit_declared", "high", TRUE),
        Item("preference_hypotheses", "spicy", "hot", "soft_constraint", "low")>> }

(* What three earlier turns left: two hypotheses and a firm rejection.      *)
SomeEarlier ==
    LET First(b, slot, value, conf) == Sanitized(b, Merge(b, Item(b, slot, value, "explicit_declared", conf), None))
    IN  { [EmptyProfile EXCEPT
             !["preference_hypotheses"] = <<First("preference_hypotheses", "spicy", "hot", "high"),
                                            First("preference_hypotheses", "knee", "yes", "high")>>,
             !["rejections"] = <<First("rejections", "spicy", "no", "high")>>] }

SomeNotes == {<<"a">>}
TwoNotes  == {<<"a", "b">>}

SessionSymmetry == Permutations(Sessions)
=============================================================================
