\* One couple of a sound board sends extended time stamps, the other does not.
CONSTANTS
    Couples = {0, 1}
    ExtendedSets <- Mixed
    Wrap = 4
    ExtendedWrap = 32
    NumWords = 10
    EvtSize = 2
    EvtSizes = {0}
    Reserved = TRUE
    Stamps = {1}
    MaxTime = 12
    psPerTick = 2
    Capacities = {0, 2}
    MaxBlocks = 5
    MaxCalls = 0
SPECIFICATION Spec
INVARIANT MixedTimesAreTrue
CHECK_DEADLOCK FALSE
