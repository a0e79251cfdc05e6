SPECIFICATION Spec
CONSTANTS
    a = a
    b = b
    c1 = c1
    c2 = c2
    c3 = c3
    Calls = {c1, c2, c3}
    Outputs = {a, b}
    OutputOf <- MCOutputOf
    Blocks <- MCBlocks
    Overlap = TRUE
INVARIANTS
    PublishedWhole
CHECK_DEADLOCK FALSE
