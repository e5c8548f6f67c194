SPECIFICATION Spec
CHECK_DEADLOCK FALSE
CONSTANTS
    t1 = t1
    t2 = t2
    t3 = t3
    Tasks <- TwoTasks
    Threads = {w1, w2}
    Main = main
    NULL = NULL
    Priorities <- OneLevel
    WithCallback <- OnlyFirst
    Adders <- NoTasks
    Ops <- JoinOnly
    MaxCalls = 1
INVARIANTS JoinWaitsForAll
