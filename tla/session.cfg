SPECIFICATION FairSpec
CHECK_DEADLOCK FALSE
CONSTANTS
    ann = ann
    bob = bob
    pa = pa
    pb = pb
    games = games
    other = other
    c1 = c1
    c2 = c2
    c3 = c3
    Users <- MCUsers
    Passwords <- MCPasswords
    Accounts <- MCAccounts
    Files <- MCFiles
    Groups <- MCGroups
    Other = other
    Catalogues <- MCCatalogues
    Forms <- MCForms
    MaxClicks = 5
    Unreadable = Unreadable
    NULL = NULL
INVARIANTS TypeOK Admitted ShownIsUsed EveryCategoryListed
PROPERTIES StartsAsLastLogin PageComes
