\* Inserts and status changes, concurrently on two memories.
SPECIFICATION Spec
CONSTANTS
    Requests = {r1, r2}
    Memories = {m1, m2}
    Keys = {}
    None = None
    Passages = {p}
    Inferred = {}
    Calls <- HistoryCalls
    MaxPassages = 1
    MaxVersion = 3
SYMMETRY Symmetry
INVARIANTS
    TypeOK
    HistoryComplete
PROPERTIES
    NoLostUpdate
    ImplementsVersionLog
