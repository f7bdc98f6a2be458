\* Three options on a command line: any three, also of the same option.
CONSTANTS
    Width = 4
    IntMax = 7
    CHECKSUM_SIZE = 2
    DEFAULT_BUFFER_SIZE = 4
    Default <- MCDefault
    Arguments <- MCArguments
    MaxOptions = 3
    Null = Null
    Invalid = Invalid
SPECIFICATION Spec
INVARIANTS
    ExitStatusIsTrue
PROPERTIES
    EndsUnlessKnown
