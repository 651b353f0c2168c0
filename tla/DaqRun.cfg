\* A free-running board that is decoded and a synchronised one that is written, on one bridge.
CONSTANTS
    NBoards = 2
    Synced = {2}
    Mocks = {}
    Writers = {2}
    Decoders = {1}
    WriteCapacity = 1
    DecodeCapacity = 1
    MaxBuffers = 2
    MaxErrors = 0
    DrainReads = 1
    Faults = {"start", "trigger", "stop", "write"}
    RegId <- LastIsMaster
    MaxStarts = 1
SPECIFICATION FairSpec
INVARIANTS
    
    DecoderSeesAll
PROPERTIES
    CallsReturn
    WriterFailureStopsReaders
    WrittenIsFlushed
CHECK_DEADLOCK FALSE
