CONSTANTS
    Chain <- MCChain
    ModuleOf <- MCOneModule
    Ticking = {"f1"}
    Retiming = {}
    Requests = {}
    Isolations = {"none"}
    MayOutliveTrap = {"none"}
    MaxInstances = 3
    MaxRoots = 5
    MaxEvents = 3
SPECIFICATION Spec
INVARIANTS
    SingleTick
CHECK_DEADLOCK FALSE
