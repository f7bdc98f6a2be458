\* Two users, three rounds, with fairness; no symmetry, the properties are temporal.
CONSTANTS
    Procs = {p1, p2}
    N = 2
    Waits = 3
    Objects = {o1, o2, o3}
    None = None
SPECIFICATION FairSpec
PROPERTIES
    ImplementsFairBarrier
    Termination
