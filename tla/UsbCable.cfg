SPECIFICATION Spec
CONSTANTS
    Queue = 2
    FaultKinds = {"unplug", "usb error", "tx timeout", "init", "fork", "refuse", "robot"}
    MaxFaults = 3
INVARIANTS
    NoUseAfterFree
    KilledOnlyInRaces
PROPERTY
    DeadIsReplaced
CHECK_DEADLOCK FALSE
