CONSTANTS
    Runtimes = {"wasmtime", "wasmer", "v8"}
    Wat = TRUE
    Programs <- MCPrograms
    NModules = 2
    Plans <- MCPlans
    NConf = 1
    Phases <- MCPhases
    MaxLinks = 2
    MaxWrtLinks = 1
SPECIFICATION Spec
INVARIANTS
    
    AllReleased
    UsedWhileLive
    LinkedImports
    CallsOnce
CHECK_DEADLOCK FALSE
