SPECIFICATION ProvidersSpec
CONSTANTS
    Isolates = {"main", "worker"}
    Paths = {"libpqforge_core"}
    MaxEpochs = 1
    MaxHandles = 2
    MaxMade = 2
INVARIANTS
    SelectorTypeOK
    ResolvedOnce
    ProvidersTypeOK
    SeedsAreHonoured
    SignaturesCarryOver
