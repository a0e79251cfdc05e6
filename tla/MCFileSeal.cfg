SPECIFICATION Spec
CONSTANTS
    ChunkSize = 2
    Requests = {{}, {1, 5}, {2, 3}, {3, 4}, {4}, {5, 6}, {6, 7}, {7}}
    Radix = 2
    CounterBytes = 3
    NonceBytes = 5
    MaxCounter = 7
    MaxBytes = 16
    MaxGrowth = 2
INVARIANTS
    TypeOK
    SealedWhole
    NonceOnce
    NonceAgrees
    SealedInOrder
PROPERTIES
    WireFormat
    Returns
CHECK_DEADLOCK FALSE
