\* Two overlapping roots, synchronised two at a time.
SPECIFICATION Spec
CONSTANTS
    Requests = {r1, r2}
    Roots = {"parent", "child"}
    Files = {1, 2}
    Contents = {c1, c2}
    Under <- MCUnder
    Calls <- MCCalls
    MaxGeneration = 2
    None = None
SYMMETRY Symmetry
INVARIANTS
    TypeOK
    GoneIsDeleted
    CirclesAreExplained
PROPERTIES
    SynchronisationsAreSerial
