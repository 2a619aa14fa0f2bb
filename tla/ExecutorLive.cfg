SPECIFICATION FairSpec
CONSTANTS
    Scenarios <- LiveJob
    Prefetch = 3
    MaxHeadQueue = 2
    Ttl = 1
PROPERTIES PausingEnds ResumingEnds EndCloses JobEnds
CHECK_DEADLOCK FALSE
