SPECIFICATION Spec
CHECK_DEADLOCK FALSE
CONSTANTS
    app = app
    Requests <- MixedRequests
    Posts <- SomePosts
    NoPage = NoPage
    MaxTasks = 3
    DevelMode = TRUE
    Main = main
    Worker = worker
    NULL = NULL
INVARIANTS TypeOK FetchedIsFresh SavedIsFresh NoDangling
