SPECIFICATION Spec
CONSTANTS
    high = high
    mid = mid
    low = low
    outer = outer
    inner = inner
    alone = alone
    Nobody = Nobody
    Thread = {high, mid, low}
    Mutex = {outer, inner, alone}
    Priority <- MCPriority
    PrioFlag = {inner, alone}
    Nests <- MCNests
    Removable = {alone}
    InOrder = TRUE
    MaxTakes = 3
INVARIANTS
    TypeOK
    TakersOwn
    WaitEndsOnce
    PriorityRestored
    OwnerInherits
PROPERTIES
    PassedInTurn
