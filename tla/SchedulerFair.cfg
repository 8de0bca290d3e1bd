SPECIFICATION FairSpec
CONSTANTS
    idle = idle
    main = main
    a = a
    b = b
    Nobody = Nobody
    Idle = idle
    Thread <- MCThread
    Booted <- FairBooted
    PrioMax = 2
    InitPriority <- FairInitPriority
    InitTick <- MCInitTick
    Static = {idle, b}
    Cleanup = {b}
    NewPriority = {1}
    Sources = {"tick"}
    MaxLock = 1
    Manages <- MCManages
    DeleteSleeping = FALSE
PROPERTIES
    TopThreadsShare
    ClosedAreFreed
