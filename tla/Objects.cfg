SPECIFICATION Spec
CONSTANTS
    a = a
    b = b
    c = c
    Nothing = Nothing
    Thread = {a, b, c}
    Priority <- MCPriority
    PrioFlag = TRUE
    BusyDetach = FALSE
    Value = {v1, v2}
    MaxValue = 2
    Bit = {1, 2}
    Interest <- MCInterest
    MbSize = 2
    Item = {1, 2}
    Block = {1, 2}
    MaxWaits = 5
    DqSize = 2
    Lwm = 0
    IndexRange = 8
    MaxPut = 4
    bufsz = 3
    Work = {w1, w2}
    Worker = a
    Clients = {b}
    WorkerFirst = TRUE
    Kind = {"sem", "event", "mb", "mq", "pool", "completion", "dq", "tx", "int_rx", "dma_rx",
            "work"}
INVARIANTS
    TypeOK
    NoLostWakeup
    TokensConserved
    ItemsConserved
    BlocksConserved
    RxKeepsLatest
    DetachWakesAll
PROPERTIES
    EventsTakenOnce
    MailboxIsQueue
    MessagesAreQueue
    DataQueueIsQueue
CHECK_DEADLOCK FALSE
