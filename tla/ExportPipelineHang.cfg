CONSTANTS
    Events = {e1}
    Sinks = {sink}
    Ctl = Ctl
    Sup = Sup
    Capacity = 1
    UsizeModulus = 8
    MaxCrashes = 1
    LateRecords = TRUE
    AllowTimeout = TRUE
SPECIFICATION LiveSpec
PROPERTY ShutdownCompletes
CHECK_DEADLOCK FALSE
