SPECIFICATION FairGoldSpec
CONSTANTS
    Reports <- MCReports
    HoldingLists <- MCHoldings
    EventLists <- MCEvents
    Targets = {"EUR", "GBP"}
    ManualRates = {{}, {"GBP"}}
    Retries = 1
    MaxQuotes = 1
    MaxRuns = 2
    Unreadable = {"xtb"}
INVARIANTS RatesLeadToTarget NothingAtPar PenceFollowPounds AmountsAsLabelled CashReconciles GoldTablesAgree
PROPERTY ConversionEnds
