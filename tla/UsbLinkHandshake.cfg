SPECIFICATION Spec
CONSTANTS
    LocalMod = 4
    RemoteMod = 3
    Low = 2
    High = 2
    Burst = 1
    MaxSent = 5
    MaxQueue = 2
    MaxWire = 3
    MaxSessions = 2
    MaxLost = 1
PROPERTY
    HandshakeOnRequest
CHECK_DEADLOCK FALSE
