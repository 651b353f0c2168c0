\* Parts of at most 3 bytes beside files of earlier runs; the disk fills up.
CONSTANTS
    maxFileBytes = 3
    HeaderBytes = 1
    LastSuffix = 1
    Sizes = {2, 4}
    BufferSize = 2
    Earlier <- EarlierNames
    MaxBlocks = 4
    MaxFaults = 2
SPECIFICATION Spec
INVARIANTS
    PartsHoldTheRun
    FlushedSurvives
    PartsRespectLimit
PROPERTIES
    NeverOverwrites
CHECK_DEADLOCK FALSE
