SPECIFICATION FairSpec
CHECK_DEADLOCK FALSE
CONSTANTS
    s1 = s1
    s2 = s2
    b1 = b1
    b2 = b2
    edit = edit
    play = play
    Urls <- MCUrls
    Apps <- MCApps
    Small <- MCSmall
    Big <- MCBig
    Lists <- MCLists
    Rows = 2
    MaxClicks = 5
    NULL = NULL
INVARIANTS TypeOK ViewFits SettledOnCurrent
PROPERTIES KeptOnceFetched AllServed
