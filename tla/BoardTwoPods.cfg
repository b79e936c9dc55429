\* Two agents on two pods whose clocks differ.
SPECIFICATION Spec
CONSTANTS
    Agents = {a1, a2}
    Threads = {t1}
    Pods = {p1, p2}
    None = None
    MaxMessages = 3
    MaxClock = 3
SYMMETRY Symmetry
PROPERTIES
    NoCrossPost
