\* Two readers on the shared write queue with one place (a capacity of 0).
CONSTANTS
    p1 = p1
    p2 = p2
    Producers <- TwoProducers
    Capacity = 0
    MaxPushes = 3
    TimedPop = TRUE
SPECIFICATION FairSpec
INVARIANTS
    ConsumerSleepsSoundly
    RoomIsAnnounced
    CloseWakesProducers
PROPERTIES
    PushReturns
    ConsumerFinishes
    ImplementsBoundedQueue
\* Every thread may be done.
CHECK_DEADLOCK FALSE
