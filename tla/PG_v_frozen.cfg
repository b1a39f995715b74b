SPECIFICATION Spec
CONSTANTS
    MaxDays = 2
    MinDays = 2
    Drafts <- SomeDrafts
    Restored = {}
    Targets = {1, 2, 3}
    MaxRetries = 1
    Noted = {}
    MaxCalls = 1
    MaxFaults = 1
    Overlap = FALSE
INVARIANT FrozenInPhase4
