CONSTANTS
    Peers = {p1}
    Dests = {d1, d2}
    Local = Local
    Processes = {proc}
    NoProcess = NoProcess
    Ttl = 1
    MaxSessions = 1
    MaxPerFlow = 2
    MaxFlows = 1
    MaxTime = 1
    Conns = {c1, c2}
    Datagrams = {u1}
    Forwarded = {d1, d2}
    MaxConnections = 1
    MaxUdpTasks = 1
    KernelKnows = FALSE
    SocketLoses = TRUE
    TaskPanics = TRUE
    PromptAccept = TRUE
    MaxPackets = 0
    Keys = {k1, k2}
    Files = {f1}
    Tasks = {t1, t2}
    None = None
    MaxActive = 1
    MaxUpload = 2
    FileBlocks = 2
    BlockModulus = 6
SPECIFICATION MCSpec
SYMMETRY Symmetry
CHECK_DEADLOCK FALSE
INVARIANTS TcpDestinationIsOwn NothingLeftBehind SlotsKept TransfersFaithful
