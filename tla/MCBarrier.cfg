\* Four users, three rounds: a fast user can be a whole round ahead of a slow one.
CONSTANTS
    Procs = {p1, p2, p3, p4}
    N = 4
    Waits = 3
    Objects = {o1, o2, o3}
    None = None
SPECIFICATION Spec
SYMMETRY Symmetry
INVARIANTS
    TypeOK
    SameInitializedMemory
    BarrierSafety
    CountersInRange
    NoEarlyLeave
    LastUserUnlinks
    NoDeadlock
PROPERTIES
    ImplementsBarrier
