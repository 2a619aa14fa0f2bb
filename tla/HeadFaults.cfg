SPECIFICATION Spec
CONSTANTS
    Unset = nan
    Level = {0, 1}
    Hot = {1}
    Reading = {1}
    RequiredSet = {"EXTRUDER"}
    HeadSet = {"EXTRUDER"}
    MaxRetry = 2
    Calls = {"bootstrap", "recover", "standby", "shutdown", "set heater", "set fan", "command callback"}
    MaxCalls = 4
    FaultKinds = {"lose", "slow", "reset", "refuse"}
    MaxFaults = 2
INVARIANTS ConfirmedApplied ConfirmedSettled ToleratesLosses
CHECK_DEADLOCK FALSE
