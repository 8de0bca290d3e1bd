SPECIFICATION Spec
CONSTANTS
    idle = idle
    main = main
    a = a
    b = b
    Nobody = Nobody
    Idle = idle
    Thread <- MCThread
    Booted <- MCBooted
    PrioMax = 3
    InitPriority <- MCInitPriority
    InitTick <- MCInitTick
    Static = {idle, b}
    Cleanup = {}
    NewPriority = {1, 2}
    Sources = {"tick", "device"}
    MaxLock = 1
    Manages <- MCManages
    DeleteSleeping = TRUE
INVARIANTS
    ClosedIsOffQueues
