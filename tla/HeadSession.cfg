SPECIFICATION FairSpec
CONSTANTS
    Unset = nan
    Level = {0, 1}
    Hot = {1}
    Reading = {1}
    RequiredSet = {"any", "N/A", "EXTRUDER", "LASER"}
    HeadSet = {"EXTRUDER", "LASER", "BARE", "UNKNOWN", "absent"}
    MaxRetry = 1
    Calls = {"bootstrap", "recover", "standby", "set heater", "command callback", "reset", "allset callback"}
    MaxCalls = 3
    FaultKinds = {"lose", "reset", "error"}
    MaxFaults = 1
INVARIANTS IInv RightHead
PROPERTIES BootEnds OpEnds ResetNoticed
CHECK_DEADLOCK FALSE
