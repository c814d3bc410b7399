\* Is an approved background mission ever forgotten, when it may also be rolled back?
SPECIFICATION FairSpec
CONSTANTS
    None = None
    talk = talk
    plan1 = plan1
    yes = yes
    go = go
    bg1 = bg1
    bg2 = bg2
    halt = halt
    undo = undo
    safe = safe
    Op <- OpOf
    Calls = {talk, yes, undo, bg1, bg2}
    Approvals = {a1}
    AutoResume = TRUE
    SerialHuman = TRUE
    MaxCrashes = 1
PROPERTIES
    ApprovedIsSettled
CHECK_DEADLOCK FALSE
