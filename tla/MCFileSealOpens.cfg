SPECIFICATION Spec
CONSTANTS
    ChunkSize = 2
    Requests = {{}}
    Radix = 2
    CounterBytes = 3
    NonceBytes = 5
    MaxCounter = 7
    MaxBytes = 5
    MaxGrowth = 3
INVARIANTS
    SealedFileOpens
CHECK_DEADLOCK FALSE
