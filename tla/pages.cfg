SPECIFICATION FairSpec
CHECK_DEADLOCK FALSE
CONSTANTS
    games = games
    Categories <- OneCategory
    Total <- Totals
    PageSize = 2
    MaxClicks = 4
    NULL = NULL
INVARIANTS TypeOK LockProtects ArrowsFitList TasksAlive FanAgrees
PROPERTIES ReturnsToList Unlocked
