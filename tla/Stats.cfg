\* Boards count, a sample fails, interval and server change; the loop goes on until stop().
CONSTANTS
    Boards = {1, 2}
    boardRegId <- DistinctIds
    Targets = {t1}
    NoTarget = NoTarget
    Prefixes = {p1, p2}
    NoPrefix = NoPrefix
    FirstPrefix = p1
    Requests = {0, 9}
    kMinIntervalMs = 1
    kMaxIntervalMs = 2
    firstIntervalMs = 2
    MaxCalls = 1
    MaxConfigured = 2
    MaxCount = 1
    MaxThrows = 1
SPECIFICATION FairSpec
INVARIANTS
    SinkMatchesPrefix
    RatesAddUp
    IntervalIsFelt
PROPERTIES
    StopReturns
    KeepsPublishing
CHECK_DEADLOCK FALSE
