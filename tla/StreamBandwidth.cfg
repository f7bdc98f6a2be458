\* Five bytes in chunks of two, the last one short, through a kernel buffer of
\* two bytes (messages).
CONSTANTS
    DataSize = 5
    BufferSize = 2
    Capacity = 2
    Iterations = 3
SPECIFICATION Spec
INVARIANTS
    TypeOK
    ReadsOwnIteration
    VerifiesFreshData
    BytesConserved
    EndsStayOpen
    OwnConnection
    NoDeadlock
PROPERTIES
    EndsUnlessLost
