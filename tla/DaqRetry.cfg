\* start() is called again after it failed on the first board.
CONSTANTS
    NBoards = 2
    Synced = {1, 2}
    Mocks = {}
    Writers = {1, 2}
    Decoders = {}
    WriteCapacity = 2
    DecodeCapacity = 1
    MaxBuffers = 2
    MaxErrors = 0
    DrainReads = 2
    Faults = {"start"}
    RegId <- FirstIsMaster
    MaxStarts = 2
SPECIFICATION Spec
INVARIANTS
    RunTakesBlocks
CHECK_DEADLOCK FALSE
