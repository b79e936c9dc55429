\* Two watches of a path that changes three times.
SPECIFICATION Spec
CONSTANTS
    Jobs = {j1, j2}
    MaxEdits = 3
    MaxStrays = 1
    PruneMissing = TRUE
    None = None
SYMMETRY Symmetry
INVARIANTS
    TypeOK
    RegistryWhole
    IdleIsCurrent
    
PROPERTIES
    IndexGoesForward
CHECK_DEADLOCK FALSE
