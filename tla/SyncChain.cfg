\* Three boards in every wiring; an access fails, a PLL loses its lock.
CONSTANTS
    N = 3
    MaxPolls = 1
    MaxFaults = 1
    MaxUnlocks = 2
SPECIFICATION Spec
INVARIANTS
    LockedMeansAligned
    HealthyChainIsAligned
    EveryBoardStarts
CHECK_DEADLOCK FALSE
