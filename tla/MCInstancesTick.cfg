CONSTANTS
    Chain <- MCChain
    ModuleOf <- MCOneModule
    Ticking = {"f1"}
    Retiming = {"f1"}
    Requests = {"r1"}
    Isolations = {"none"}
    MayOutliveTrap = {"none"}
    MaxInstances = 4
    MaxRoots = 7
    MaxEvents = 3
SPECIFICATION Spec
INVARIANTS
    TreesMatchContexts
    RunsOnSoundInstance
    TickArmed
CHECK_DEADLOCK FALSE
