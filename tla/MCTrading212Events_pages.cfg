SPECIFICATION Spec
CONSTANTS
    Endpoints <- TwoEndpoints
    PageSize = 2
    MaxItems = 4
    MaxFetches = 3
CHECK_DEADLOCK FALSE
INVARIANTS PagesCoverHistory EndpointsOfOneFetch
