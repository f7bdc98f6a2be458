\* Three iterations, the fewest akbench accepts: one is left by the filter.
CONSTANTS
    NumWarmups = 1
    NumIterations = 3
    DataSize = 5
    Durations = {1, 2, 4}
    ThreadCounts = {1}
SPECIFICATION Spec
INVARIANTS
    LatencyWithinRange
