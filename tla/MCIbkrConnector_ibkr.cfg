SPECIFICATION ConnectorSpec
CONSTANTS
    Retries = 2
    Delay = 3
    InitialDelay = 3
    Window = 2
    Paper = TRUE
    U1 = U1
    U2 = U2
    A1 = A1
    A2 = A2
    Accounts = {U1, U2}
    Activities = {A1, A2}
    LastDay = 5
    MaxRuns = 3
CHECK_DEADLOCK FALSE
SYMMETRY Symmetry
INVARIANTS GivesUpAfterAllPolls FillsKept OneDepositFirst
