\* One outage that outlasts the first attempt to reconnect.
CONSTANTS
    MaxOutages = 1
    MaxAccesses = 0
    MaxDrain = 0
SPECIFICATION FairSpec
PROPERTIES
    ReadsResume
CHECK_DEADLOCK FALSE
