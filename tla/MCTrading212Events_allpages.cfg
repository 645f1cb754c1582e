SPECIFICATION Spec
CONSTANTS
    Endpoints <- TwoEndpoints
    PageSize = 2
    MaxItems = 3
    MaxFetches = 2
CHECK_DEADLOCK FALSE
INVARIANT AllPagesStored
