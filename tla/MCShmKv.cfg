SPECIFICATION Spec
CONSTANTS
    Workers = {w1}
    Keys = {k1, k2, k3}
    Values <- MCValues
    ValLen <- MCValLen
    NodeSize = 1
    MinShift = 1
    PageShift = 3
    Pages = 2
    CasWidth = 2
    Garbage = Garbage
    small = small
    middle = middle
    large = large
    huge = huge
SYMMETRY Symmetry
INVARIANTS
    TypeOK
    QueuesMatchTree
PROPERTIES
    VictimsLeastUseful
    MapSpec
