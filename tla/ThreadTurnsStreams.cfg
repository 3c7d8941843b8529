SPECIFICATION Spec
CONSTANTS
    Requests = {r1, r2, r3}
    Transports = {"blocking", "stream", "cli"}
    MaxFaults = 1
    NoRequest = NoRequest
INVARIANT
    StreamsEnd
CHECK_DEADLOCK FALSE
