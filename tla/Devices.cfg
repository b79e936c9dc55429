\* Two requests at a time, from three installations of one machine; two of them
\* also refresh, claim and migrate.
SPECIFICATION Spec
CONSTANTS
    Requests = {r1, r2}
    Pods = {p1}
    Machines = {m1}
    Installations = {i1, i2, i3}
    Devices = {1, 2}
    Callers = {i1, i2}
    Named = {}
    None = None
SYMMETRY Symmetry
INVARIANTS
    TypeOK
    MergesEnd
    OnActiveDevice
    NoWaitCycle
