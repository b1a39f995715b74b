SPECIFICATION Spec
CONSTANTS
    Slots = {s1, s2}
    s1 = s1
    s2 = s2
    Window = 2
    Clips = FALSE
    MaxTurns = 3
    Budget <- Each
INVARIANT NewestWaits
INVARIANT NoDoubleExtraction
PROPERTY NewestIsStarted
CHECK_DEADLOCK FALSE
