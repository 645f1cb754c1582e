SPECIFICATION Spec
CONSTANTS
    Run = {r1, r2, r3}
    Event = {e1}
    MaxClock = 6
    MaxVersion = 2
    Overlap = FALSE
    Established = FALSE
    OpenMayFail = TRUE
    Broker = "trading212"
    WindowMoves = TRUE
SYMMETRY Symmetry
CHECK_DEADLOCK FALSE
 
PROPERTIES VersionsNeverRegress 
