SPECIFICATION Spec
CONSTANTS
    Conns = {c1, c2}
    Wreck = wreck
    MaxJobs = 2
    MaxCrashes = 1
INVARIANTS
    OneDriver
    Recorded
PROPERTIES
    JobKept
    Released
CHECK_DEADLOCK FALSE
