SPECIFICATION Spec
CONSTANTS
    NFilters = 2
    MaxCalls = 2
    PausesOnDispatch = TRUE
    StuckCalls = {}
INVARIANT
    CallsEndBeforeRequest
