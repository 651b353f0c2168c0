\* Buffers of a sound board and of arbitrary words; the tap is switched while they are decoded.
CONSTANTS
    Couples = {0, 1}
    ExtendedSets <- Uniform
    Wrap = 8
    ExtendedWrap = 64
    NumWords = 10
    EvtSize = 2
    EvtSizes = {0}
    Reserved = TRUE
    Stamps = {1}
    MaxTime = 16
    psPerTick = 2
    Capacities = {0, 2}
    MaxBlocks = 2
    MaxCalls = 2
SPECIFICATION FairSpec
INVARIANTS
    InBounds
    SoundBufferRead
    TimesAreTrue
    TapAccounts
PROPERTIES
    DecodeReturns
CHECK_DEADLOCK FALSE
