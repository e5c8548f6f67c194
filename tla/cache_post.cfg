SPECIFICATION Spec
CHECK_DEADLOCK FALSE
CONSTANTS
    app = app
    Requests <- TwoRequests
    Posts <- CommentPost
    NoPage = NoPage
    MaxTasks = 3
    DevelMode = TRUE
    Main = main
    Worker = worker
    NULL = NULL
INVARIANTS PostRefreshesCache
