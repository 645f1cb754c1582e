SPECIFICATION FairCommandSpec
CONSTANTS
    Registry = {ibkr, trading212, xtb}
    Timeout = 6
    Interval = 2
CHECK_DEADLOCK FALSE
INVARIANTS NothingRunsBeside GreenMeansAll WaitTellsTruth
PROPERTY CommandEnds
