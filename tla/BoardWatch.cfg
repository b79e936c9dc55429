\* Counts and two watchers beside two messages, of which an answer holds one.
SPECIFICATION FairSpec
CONSTANTS
    Messages = {m1, m2}
    Watchers = {w1, w2}
    None = None
    Lookback = 1
    Limit = 1
    MaxActors = 3
INVARIANTS
    TypeOK
    
PROPERTIES
    EventuallyTold
