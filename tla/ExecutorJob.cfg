SPECIFICATION Spec
CONSTANTS
    Scenarios <- Jobs
    Prefetch = 3
    MaxHeadQueue = 2
    Ttl = 1
INVARIANTS TypeOK CompletedMeansAll HotWhenMoving InJobOrder StashDiscipline PausedIsStill StandbyWhenPaused
PROPERTIES FinalIsFinal
CHECK_DEADLOCK FALSE
