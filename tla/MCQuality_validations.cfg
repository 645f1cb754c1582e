SPECIFICATION Spec
CONSTANTS
    Connectors = {ibkr, xtb}
    Silver = {"events"}
    Gold = {"dividend_income"}
    RowCounts = {1, 3}
    MaxCommands = 2
    MaxPoor = 2
    MaxUnread = 1
    ibkr = ibkr
    xtb = xtb
SYMMETRY ConnectorSymmetry
CHECK_DEADLOCK FALSE
INVARIANTS GreenIsValid DropNoticedIfCovered ReportHidesBroken
PROPERTY GoldFromValidSilver
