\* A mock and the master of a chain of its own; any call may fail; start() may be called again.
CONSTANTS
    NBoards = 2
    Synced = {2}
    Mocks = {1}
    Writers = {1, 2}
    Decoders = {}
    WriteCapacity = 1
    DecodeCapacity = 1
    MaxBuffers = 2
    MaxErrors = 1
    DrainReads = 2
    Faults = {"open", "file", "start", "trigger", "read", "stop", "write"}
    RegId <- LastIsMaster
    MaxStarts = 2
SPECIFICATION Spec
INVARIANTS
    FileKeepsBoardOrder
    StopAccountsForAll
    RestIsQuiet
CHECK_DEADLOCK FALSE
