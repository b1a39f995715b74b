SPECIFICATION Spec
CONSTANTS
    Sessions = {s1, s2}
    Slots = {"spicy", "knee", "card"}
    Denied = {"card"}
    Sensitive = {"knee"}
    Answers <- SomeAnswers
    NoteLists <- SomeNotes
    Earlier <- SomeEarlier
    MaxRuns = 2
    MaxEdits = 1
    MaxFaults = 1
SYMMETRY SessionSymmetry
CHECK_DEADLOCK FALSE
INVARIANT IdsUnique
INVARIANT SensitiveNeedsUser
INVARIANT CountEarned
INVARIANT DoneMeansSaved
