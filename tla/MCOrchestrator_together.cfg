SPECIFICATION Spec
CONSTANTS
    ibkr = ibkr
    xtb = xtb
    schedule = schedule
    arrival = arrival
    Connectors = {ibkr, xtb}
    Executions = {schedule, arrival}
    Listed <- ScheduleAndArrival
    MaxConcurrency = 3
    MaxAttempts = 0
    MaxUnread = 0
    Overlap = TRUE
CHECK_DEADLOCK FALSE
INVARIANT GoldConverted
PROPERTY GoldAfterGreen
