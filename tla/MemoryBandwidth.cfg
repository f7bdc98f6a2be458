\* Five bytes through slots of two: a full, a full, a short and an empty chunk.
CONSTANTS
    DataSize = 5
    BufferSize = 2
    Iterations = 3
SPECIFICATION Spec
INVARIANTS
    SlotExclusion
    ReceivedIsPrefix
    NoOverrun
    OwnMemory
    NoDeadlock
PROPERTIES
    Termination
