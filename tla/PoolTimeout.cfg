SPECIFICATION Spec
CONSTANTS
    a = a
    b = b
    c = c
    Nothing = Nothing
    Thread = {a, b, c}
    Priority <- MCPriority
    PrioFlag = TRUE
    BusyDetach = FALSE
    Value = {v1, v2}
    MaxValue = 2
    Bit = {1, 2}
    Interest <- MCInterest
    MbSize = 2
    Item = {1, 2}
    Block = {1, 2}
    MaxWaits = 5
    DqSize = 2
    Lwm = 0
    IndexRange = 8
    MaxPut = 4
    bufsz = 3
    Work = {w1, w2}
    Worker = a
    Clients = {b}
    WorkerFirst = TRUE
    Kind = {"pool"}
INVARIANT CountsWaiters
CHECK_DEADLOCK FALSE
