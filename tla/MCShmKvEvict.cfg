SPECIFICATION Spec
CONSTANTS
    Workers = {w1, w2}
    Keys = {k1, k2}
    Values <- MCValues
    ValLen <- MCValLen
    NodeSize = 1
    MinShift = 1
    PageShift = 3
    Pages = 2
    CasWidth = 8
    Garbage = Garbage
    small = small
    middle = middle
    large = large
    huge = huge
INVARIANT
    EvictionEndsInWrite
