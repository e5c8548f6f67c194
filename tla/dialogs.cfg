SPECIFICATION FairSpec
CHECK_DEADLOCK FALSE
CONSTANTS
    inbox = inbox
    sent = sent
    Boxes = {b1, b2}
    Folders <- MCFolders
    Default = inbox
    Full <- MCFull
    Friends = 1
    Links = 2
    Downloaded = 7
    MaxClicks = 4
    NULL = NULL
INVARIANTS TypeOK PaidOnce LockedWhileAsked FreshWhenQuiet ListFits
PROPERTIES SpinStops
