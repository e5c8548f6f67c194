SPECIFICATION FairSpec
CHECK_DEADLOCK FALSE
CONSTANTS
    t1 = t1
    t2 = t2
    t3 = t3
    Tasks <- AllTasks
    Threads = {w1, w2}
    Main = main
    NULL = NULL
    Priorities <- Levels
    WithCallback <- AllTasks
    Adders <- AllTasks
    Ops <- JoinOnly
    MaxCalls = 1
CONSTRAINT UntilLate
INVARIANTS NoStrandedTask JoinWaitsUnlessLate
PROPERTIES RefinesSerialQueue
