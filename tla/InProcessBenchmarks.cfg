\* One, two and three threads of five bytes, which do not divide them, and four
\* and six: with six the chunks of all but the last are empty.
CONSTANTS
    NumWarmups = 1
    NumIterations = 3
    DataSize = 5
    Durations = {1, 2, 4}
    ThreadCounts = {1, 2, 3, 4, 6}
SPECIFICATION Spec
INVARIANTS
    RaceFree
    BandwidthWithinRange
PROPERTIES
    ImplementsMemcpy
    EveryBenchmarkEnds
