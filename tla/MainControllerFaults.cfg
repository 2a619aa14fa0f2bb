CONSTANTS
    c1 = c1
    c2 = c2
    Command = {c1, c2}
    BufSize = 2
    MaxRetry = 1
    FaultKinds = {"lose line", "garble line", "lose reply", "runout"}
    MaxFaults = 2
    MaxIssued = 3
    MaxWire = 1
SYMMETRY Symmetry
CONSTRAINT RunoutAlone
SPECIFICATION Spec
INVARIANTS IInv SlotIntegrity ExactlyOnceInOrder NothingForgotten NoOverrun DrainedMeansDone
CHECK_DEADLOCK FALSE
PROPERTY ImplementsPipe
