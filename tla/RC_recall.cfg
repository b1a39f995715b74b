SPECIFICATION RecallSpec
CONSTANTS
    Lanes = {"symbolic", "lexical", "semantic"}
    LaneTopK = 2
    FusedMax = 3
    ProfileTopN = 2
    EpisodeTopN = 2
    Normalize = TRUE
    Canonical <- Places
    Region <- Regions
    Messages <- SomeMessages
    QueryReplies <- SomeReplies
    Items <- SomeItems
    Earlier <- SomeEarlier
    PlanVersions <- SomePlans
    Runs = {r1, r2}
    Models = {m1, m2}
    Themes <- SomeThemes
    MaxRecalls = 1
    MaxWrites = 2
    MaxFaults = 1
SYMMETRY Alike
CHECK_DEADLOCK FALSE
INVARIANT OnlyWhatWasAsked
INVARIANT FallbackSearches
INVARIANT FreshVectors
INVARIANT ArchiveOnce
