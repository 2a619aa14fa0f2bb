SPECIFICATION Spec
CONSTANTS
    Unset = nan
    Level = {0, 1}
    Hot = {1}
    Reading = {0, 1}
    RequiredSet = {"EXTRUDER"}
    HeadSet = {"EXTRUDER"}
    MaxRetry = 1
    Calls = {"bootstrap"}
    MaxCalls = 1
    FaultKinds = {}
    MaxFaults = 0
INVARIANT FreshIsAllset
CHECK_DEADLOCK FALSE
