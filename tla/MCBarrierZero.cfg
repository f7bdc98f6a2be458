\* --loop-size=0: the Wait loop runs zero times.
CONSTANTS
    Procs = {p1, p2}
    N = 2
    Waits = 0
    Objects = {o1, o2, o3}
    None = None
SPECIFICATION FairSpec
PROPERTIES
    AllJoinedProceed
