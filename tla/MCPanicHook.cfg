SPECIFICATION Spec
CONSTANTS
    c1 = c1
    c2 = c2
    t1 = t1
    t2 = t2
    Calls = {c1, c2}
    Tests = {t1, t2}
    Addresses = 8
    Allocations <- MCAllocations
    p1 = p1
    p2 = p2
    Pages = {p1, p2}
    SharedPages = TRUE
SYMMETRY Symmetry
PROPERTIES
    SilencedOnlyInSelfTest
CHECK_DEADLOCK FALSE
