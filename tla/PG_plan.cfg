SPECIFICATION Spec
CONSTANTS
    MaxDays = 2
    MinDays = 2
    Drafts <- SomeDrafts
    Restored <- SomeRestored
    Targets = {1, 2, 3}
    MaxRetries = 1
    Noted = {"shortlist", "selected_transport"}
    MaxCalls = 2
    MaxFaults = 1
    Overlap = FALSE
INVARIANT TypeOK
INVARIANT PhaseEarned
INVARIANT DeliverablesBacked
PROPERTY RewriteKeepsChoice
