CONSTANTS
    Keys = {k1, k2, k3}
    Threads = {t1, t2}
    None = None
    MaxFlows = 2
    RecentLimit = 2
    Timeout = 1
    MaxIds = 3
    MaxTime = 1
    Ops = {"get_or_create", "update", "remove", "sweep", "clear"}
SPECIFICATION Spec
SYMMETRY Symmetry
CHECK_DEADLOCK FALSE
INVARIANTS IndexesAgree CapacityRespected
PROPERTIES NoOverwrite SweepSparesLive
