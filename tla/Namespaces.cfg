\* Three transactions on a path of three namespaces.
SPECIFICATION Spec
CONSTANTS
    Segments = {"a", "b", "c"}
    Codes <- Branch
    Txns = {t1, t2, t3}
    None = None
    Calls <- BranchCalls
SYMMETRY Symmetry
INVARIANTS
    TypeOK
    ActiveUnderActive
    NoRecordsInTombstone
    CountsAreExact
    DeadlockOnlyAtWorkers
