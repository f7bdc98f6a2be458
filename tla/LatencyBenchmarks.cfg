\* Three iterations of two turns: a turn that follows a turn, an iteration that
\* follows an iteration, and a last one of each.
CONSTANTS
    LoopSize = 2
    Iterations = 3
SPECIFICATION Spec
INVARIANTS
    OneInFlight
    CleanIterations
    NoDeadlock
PROPERTIES
    ImplementsPingPong
    Termination
