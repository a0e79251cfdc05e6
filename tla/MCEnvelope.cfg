SPECIFICATION Spec
CONSTANTS
    Seals = {1, 2}
    CiphertextUnits <- MCCiphertextUnits
    Aads <- MCAads
    MaxDamaged = 2
INVARIANTS
    TypeOK
    OpenedIffIntact
    ErrorFollowsShape
CHECK_DEADLOCK FALSE
