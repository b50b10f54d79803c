CONSTANTS
    Events = {e1, e2}
    Tasks = {worker, supervisor}
    Senders = {worker}
    None = None
    BatchSize = 2
    MaxBuffered = 2
    AllowCancel = TRUE
SPECIFICATION Spec
INVARIANT FlushingIsOwned
CHECK_DEADLOCK FALSE
