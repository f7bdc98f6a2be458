\* TestConstructor run twice: what the straggler of run 1 unlinks in run 2.
CONSTANTS
    Runs <- MCRuns
    Waits = 1
    Objects = {o1, o2, o3, o4, o5, o6, o7, o8, o9, o10}
    None = None
    Harnesses = {"constructor"}
SPECIFICATION FairSpec
INVARIANTS
    SameObjects
