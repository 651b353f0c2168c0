\* Two outages, register accesses and a sibling that may keep the link.
CONSTANTS
    MaxOutages = 2
    MaxAccesses = 2
    MaxDrain = 1
SPECIFICATION WedgeSpec
INVARIANTS
    NoUseAfterClose
    BusIsSerialised
    ClosedIsStopped
PROPERTIES
    ReconnectRestarts
    TeardownReturns
CHECK_DEADLOCK FALSE
