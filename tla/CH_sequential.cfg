SPECIFICATION Spec
CONSTANTS
    Runs = {r1}
    r1 = r1
    LastPhase = 4
    Steps = {"brief", "lock"}
    MaxMsgs = 6
    MaxEpoch = 3
    Budget <- Backtracks
INVARIANT CursorFresh
INVARIANT HistoryComplete
INVARIANT LoopKeepsPhase
INVARIANT ReasonOnFirstRow
CHECK_DEADLOCK FALSE
