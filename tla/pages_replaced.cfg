SPECIFICATION Spec
CHECK_DEADLOCK FALSE
CONSTANTS
    games = games
    Categories <- OneCategory
    Total <- Totals
    PageSize = 2
    MaxClicks = 4
    NULL = NULL
INVARIANTS PagesAreProtected
