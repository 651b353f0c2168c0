\* A server that comes and goes, batches of three pieces.
CONSTANTS
    connectTimeout = 1
    sendTimeout = 1
    kRetryInitial = 2
    kRetryMax = 7
    Batch = 3
    Room = 2
SPECIFICATION Spec
INVARIANTS
    LinesAreWhole
    CallsAreBounded
PROPERTIES
    AttemptsSpaced
    Recovers
CHECK_DEADLOCK FALSE
