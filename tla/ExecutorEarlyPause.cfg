SPECIFICATION Spec
CONSTANTS
    Scenarios <- EarlyPause
    Prefetch = 3
    MaxHeadQueue = 2
    Ttl = 1
PROPERTIES MainboardReadyExpected
CHECK_DEADLOCK FALSE
