\* An API run and two background runs of one mission overlap, with a crash.
SPECIFICATION Spec
CONSTANTS
    None = None
    talk = talk
    plan1 = plan1
    yes = yes
    go = go
    bg1 = bg1
    bg2 = bg2
    halt = halt
    undo = undo
    safe = safe
    Op <- OpOf
    Calls = {talk, yes, go, bg1, bg2}
    Approvals = {a1}
    AutoResume = TRUE
    SerialHuman = FALSE
    MaxCrashes = 1
INVARIANTS
    IndInv
    ResumeFindsItsInputs
    CompletedIsEarned
    StateAnnounced
    
CHECK_DEADLOCK FALSE
