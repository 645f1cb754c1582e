SPECIFICATION FairSpec
CONSTANTS
    ibkr = ibkr
    xtb = xtb
    schedule = schedule
    arrival = arrival
    Connectors = {ibkr, xtb}
    Executions = {schedule, arrival}
    Listed <- OneEach
    MaxConcurrency = 3
    MaxAttempts = 1
    MaxUnread = 2
    Overlap = FALSE
CHECK_DEADLOCK FALSE
INVARIANTS GoldHoldsItsRun GoldShowsSilver
PROPERTIES GoldNeverOlder ExecutionsEnd
