SPECIFICATION Spec
CONSTANTS
    LocalMod = 4
    RemoteMod = 3
    Low = 2
    High = 2
    Burst = 1
    MaxSent = 6
    MaxQueue = 2
    MaxWire = 3
    MaxSessions = 2
    MaxLost = 2
INVARIANT
    AckedIsDelivered
PROPERTY
    ExactlyOnceInOrder
CHECK_DEADLOCK FALSE
