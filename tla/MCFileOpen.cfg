SPECIFICATION Spec
CONSTANTS
    ChunkSize = 2
    Requests = {{}, {5, 7}}
    MaxCounter = 2
    TagLen = 2
    Tag = 2
    Growing = TRUE
    Sizes = {0, 2, 3, 5}
    SealChunks = {2, 3}
    MaxPieces = 2
    MaxForeign = 2
    Streams <- MCStreams
    Received <- MCReceived
INVARIANTS
    TypeOK
    AcceptedWhole
    VerdictOfWire
PROPERTIES
    ReleasesInOrder
    Returns
CHECK_DEADLOCK FALSE
