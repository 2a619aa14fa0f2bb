CONSTANTS
    c1 = c1
    c2 = c2
    Command = {c1}
    BufSize = 2
    MaxRetry = 1
    FaultKinds = {"lose line", "garble line", "lose reply"}
    MaxFaults = 1
    MaxIssued = 3
    MaxWire = 2
SPECIFICATION FairSpec
INVARIANT NoUncheckedLine
PROPERTIES Delivery WakeUp EndIsHeard
CHECK_DEADLOCK FALSE
