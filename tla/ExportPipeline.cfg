CONSTANTS
    Events = {e1, e2}
    Sinks = {sink}
    Ctl = Ctl
    Sup = Sup
    Capacity = 1
    UsizeModulus = 8
    MaxCrashes = 1
    LateRecords = FALSE
    AllowTimeout = TRUE
    Listeners = {l1}
    MaxCount = 1
    Reporters = {r1, r2}
    FailureLimit = 2
SPECIFICATION MCSpec
CHECK_DEADLOCK FALSE
INVARIANTS StopsClean NoSilentLoss ExportLossVisible
PROPERTIES ShutdownCompletes NbiLossNotMasked
