CONSTANTS
    Events = {1, 2, 3}
    Few = 2
    Tasks = {worker, supervisor}
    Senders = {worker}
    None = None
    BatchSize = 2
    MaxBuffered = 2
    AllowCancel = TRUE
SPECIFICATION MCSpec
CHECK_DEADLOCK FALSE
INVARIANTS TypeOK AtMostOnce DroppedStaysOut
PROPERTIES ContractSpec MCBatchDrains
