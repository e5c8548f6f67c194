SPECIFICATION FairSpec
CHECK_DEADLOCK FALSE
CONSTANTS
    app = app
    Requests <- FanRequests
    Posts <- SomePosts
    NoPage = NoPage
    MaxTasks = 3
    DevelMode = FALSE
    Main = main
    Worker = worker
    NULL = NULL
INVARIANTS PostRefreshesCache
PROPERTIES CalledBack
