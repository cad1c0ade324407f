CONSTANTS
    Chain <- MCChain
    ModuleOf <- MCOneModule
    Ticking = {}
    Retiming = {}
    Requests <- MCRequests
    Isolations = {"none", "stream", "filter"}
    MayOutliveTrap = {"none", "stream"}
    MaxInstances = 4
    MaxRoots = 7
    MaxEvents = 3
SPECIFICATION Spec
INVARIANTS
    TypeOK
    TreesMatchContexts
    RootBeforeContexts
    IsolationKept
    RunsOnSoundInstance
    NoInstanceLeak
CHECK_DEADLOCK FALSE
