CONSTANTS
    Peers = {p1}
    Dests = {d1, d2}
    Local = Local
    Processes = {proc}
    NoProcess = NoProcess
    Ttl = 2
    MaxSessions = 1
    MaxPerFlow = 3
    MaxFlows = 2
    MaxTime = 0
    Conns = {}
    Datagrams = {u1, u2, u3}
    Forwarded = {d1, d2}
    MaxConnections = 2
    MaxUdpTasks = 1
    KernelKnows = FALSE
    SocketLoses = TRUE
    TaskPanics = FALSE
    PromptAccept = TRUE
    MaxPackets = 1
SPECIFICATION Spec
CHECK_DEADLOCK FALSE
INVARIANT UdpDestinationIsOwn
