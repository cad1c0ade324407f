SPECIFICATION Spec
CONSTANTS
    Workers = {w1, w2}
    NoWorker = NoWorker
    Capacity = 7
    Header = 2
    Messages <- MCMessages
INVARIANTS
    TypeOK
    EntriesFillRing
    EntriesIntact
    CopiesInBounds
PROPERTY
    FifoSpec
