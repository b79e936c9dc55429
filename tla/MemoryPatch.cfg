\* Concurrent patches beside requests that are retried under a key.
SPECIFICATION Spec
CONSTANTS
    Requests = {r1, r2}
    Memories = {m1, m2}
    Keys = {k1}
    None = None
    Passages = {p, i}
    Inferred = {i}
    Calls <- PatchCalls
    MaxPassages = 2
    MaxVersion = 3
SYMMETRY RequestSymmetry
INVARIANTS
    OneAnswerPerKey
PROPERTIES
    AmendInPlace
