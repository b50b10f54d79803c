CONSTANTS
    Events = {e1}
    Sinks = {s1, s2}
    BufferingSinks = {s1}
    MaxTries = 2
    AllowInterrupt = FALSE
SPECIFICATION Spec
INVARIANT UnknownIsCounted
CHECK_DEADLOCK FALSE
