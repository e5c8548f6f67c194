SPECIFICATION FairSpec
CHECK_DEADLOCK FALSE
CONSTANTS
    t1 = t1
    t2 = t2
    t3 = t3
    Tasks <- TwoTasks
    Threads = {w1, w2}
    Main = main
    NULL = NULL
    Priorities <- Levels
    WithCallback <- OnlyFirst
    Adders <- OnlyFirst
    Ops <- AllButJoin
    MaxCalls = 2
CONSTRAINT LateWithoutCalls
INVARIANTS TypeOK ListOrdered AtMostOneWorker RunsOnce
PROPERTIES RemovedNeverRuns AddedIsFinished DisposeReturns
