SPECIFICATION FairSpec
CONSTANTS
    x = x
    y = y
    chained = chained
    c1 = c1
    c2 = c2
    Nobody = Nobody
    Timer <- MCTimers
    Thread = {c1, c2}
    Owner <- MCOwner
    Calls <- MCCalls
    TickBits = 3
    Times = {1, 2}
    InitTime <- MCInitTime
    Periodic = {x}
    Temporary = {y}
    MaxLate = 1
INVARIANTS
    TypeOK
    ActiveMeansLinked
PROPERTIES
    TiesInOrder
    KeepsPromise
    EveryTimerEnds
