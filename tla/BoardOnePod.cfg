\* Three agents on the threads of one pod.
SPECIFICATION Spec
CONSTANTS
    Agents = {a1, a2, a3}
    Threads = {t1}
    Pods = {p1}
    None = None
    MaxMessages = 3
    MaxClock = 3
SYMMETRY Symmetry
INVARIANTS
    TypeOK
    FollowsAll
PROPERTIES
    NoCrossPost
