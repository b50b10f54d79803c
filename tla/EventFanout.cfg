CONSTANTS
    Events = {e1, e2}
    Sinks = {s1, s2}
    BufferingSinks = {s1}
    MaxTries = 1
    AllowInterrupt = TRUE
    SinkEvents = {1, 2, 3, 4}
    Oversized = {4}
    Publishers = {p1, p2}
    Processor = p2
    Subscriptions = {1, 2}
    Subscribed = {1}
    Handlers = {h1, h2}
    buffer_size = 1
    MaxPublished = 2
    MaxHandlerCalls = 3
SPECIFICATION MCSpec
SYMMETRY Symmetry
CHECK_DEADLOCK FALSE
INVARIANTS EventsKept LinesTruthful BusTruthful
PROPERTIES FinalLossIsReal TcpContract
