SPECIFICATION MemSpec
CONSTANTS
    ChunkSize = 3
    MaxBytes = 16
    MaxEvent = 8
INVARIANTS
    TypeOK
    SealedWhole
    ClosedOnlyAtEnd
    LagBounded
    BuffersReturned
PROPERTIES
    WireFormat
CHECK_DEADLOCK FALSE
