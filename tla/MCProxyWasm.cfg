SPECIFICATION Spec
CONSTANTS
    NFilters = 3
    MaxCalls = 3
    PausesOnDispatch = TRUE
    StuckCalls = {3}
INVARIANTS
    TypeOK
    FiltersRunInOrder
    NoLostWakeup
PROPERTIES
    HeldUntilAnswered
    ChainResumes
