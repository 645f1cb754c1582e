SPECIFICATION Spec
CONSTANTS
    Run = {r1, r2}
    Event = {e1}
    MaxClock = 4
    MaxVersion = 2
    Overlap = TRUE
    Established = TRUE
    OpenMayFail = TRUE
    Broker = "ibkr"
    WindowMoves = TRUE
SYMMETRY Symmetry
CHECK_DEADLOCK FALSE
INVARIANTS RawOneRowPerKey AloneGreenStored
PROPERTY ImplementsEventStore
