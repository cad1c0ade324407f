SPECIFICATION Spec
CONSTANTS
    Names = {"metric"}
    Definitions <- MCDefinitions
    Values = {1, 6, 9}
    Offsets = {1}
    Confs <- MCConfs
    BINS_INIT = 2
    BINS_MAX = 3
    BINS_INCREMENT = 2
    Width = 4
    MaxUpdates = 2
    MaxReaders = 1
    MaxMsec = 1
    MaxCycles = 2
INVARIANTS
    CountsKept
    BinsCover
    ReadsInWindow
PROPERTIES
    ReloadKeepsReadings
CHECK_DEADLOCK FALSE
