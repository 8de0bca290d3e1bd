SPECIFICATION Spec
CONSTANTS
    high = high
    mid = mid
    low = low
    outer = outer
    inner = inner
    alone = alone
    Nobody = Nobody
    Thread = {high, mid, low}
    Mutex = {outer, inner, alone}
    Priority <- MCPriority
    PrioFlag = {inner, alone}
    Nests <- MCNests
    Removable = {alone}
    InOrder = FALSE
    MaxTakes = 2
INVARIANTS
    PriorityRestored
