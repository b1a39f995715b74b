SPECIFICATION Spec
CONSTANTS
    Sessions = {s1}
    Slots = {"spicy", "knee", "card"}
    Denied = {"card"}
    Sensitive = {"knee"}
    Answers <- SomeAnswers
    NoteLists <- TwoNotes
    Earlier = {}
    MaxRuns = 1
    MaxEdits = 0
    MaxFaults = 0
CHECK_DEADLOCK FALSE
INVARIANT WorkingSaved
