SPECIFICATION Spec
CONSTANTS
    Runs = {r1, r2}
    r1 = r1
    r2 = r2
    LastPhase = 3
    Steps = {"brief", "lock"}
    MaxMsgs = 4
    MaxEpoch = 2
    Budget <- Faults
INVARIANT EpochsOrdered
INVARIANT NoDuplicateMessage
INVARIANT Contiguous
INVARIANT MarkedHasRow
INVARIANT IInv
SYMMETRY RunSymmetry
CHECK_DEADLOCK FALSE
