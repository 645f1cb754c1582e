SPECIFICATION Spec
CONSTANTS
    Account = {a1, a2}
    NoId = NoId
    Run = {r1, r2}
    MaxAsOf = 1
    MaxFiles = 2
    MaxPurges = 1
    Malformed = TRUE
    Legacy = TRUE
    RunsOverlap = FALSE
    PurgeOverlaps = FALSE
    OthersHold = FALSE
SYMMETRY Symmetry
CHECK_DEADLOCK FALSE
INVARIANTS GreenShown PurgedStays PurgedLeavesGold
PROPERTIES AccountsMoveOn OperationsKept
