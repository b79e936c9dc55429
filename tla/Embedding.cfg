\* Old and new pods with different models, every mutation, failures and restarts.
SPECIFICATION FairSpec
CONSTANTS
    old = old
    new = new
    w1 = w1
    w2 = w2
    w3 = w3
    small = small
    large = large
    Memories = {m1}
    Texts = {a, b}
    Models = {small, large}
    Pods = {old, new}
    Retiring = {old}
    Workers = {w1, w2, w3}
    PodOf <- RolloutPodOf
    ModelOf <- RolloutModelOf
    None = None
    MaxAttempts = 2
    MaxVersion = 3
    MaxStops = 2
CHECK_DEADLOCK FALSE
INVARIANTS
    TypeOK
    ActiveVectorCurrent
PROPERTIES
    EventuallyEmbedded
