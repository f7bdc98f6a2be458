\* As uds_bandwidth_test.cc: three iterations, one chunk each.
CONSTANTS
    DataSize = 1
    BufferSize = 1
    Capacity = 1
    Iterations = 3
SPECIFICATION Spec
PROPERTIES
    Termination
CHECK_DEADLOCK FALSE
