SPECIFICATION Spec
CONSTANTS
    ChunkSize = 2
    TagLen = 2
    Tag = 2
    Sizes = {0, 2, 4, 5}
    SealChunks = {1, 2, 3}
    MaxPieces = 3
    MaxForeign = 3
    Streams <- MCStreams
    Received <- MCReceived
INVARIANTS
    TypeOK
    AcceptedIffIntact
    VerdictOfWire
PROPERTIES
    ReleasesInOrder
CHECK_DEADLOCK FALSE
