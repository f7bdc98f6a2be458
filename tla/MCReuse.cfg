\* The three harnesses: waitpid before the parent's own destructor, after it, never.
CONSTANTS
    Runs <- MCRuns
    Waits = 2
    Objects = {o1, o2, o3, o4, o5, o6, o7, o8, o9, o10}
    None = None
    Harnesses = {"latency", "wait", "constructor"}
SPECIFICATION FairSpec
INVARIANTS
    WaitpidKeepsObjects
    
    NoStraggler
PROPERTIES
    AllRunsEnd
    
