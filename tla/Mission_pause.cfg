\* Does a pause hold against a run in progress?
SPECIFICATION Spec
CONSTANTS
    None = None
    talk = talk
    plan1 = plan1
    yes = yes
    go = go
    bg1 = bg1
    bg2 = bg2
    halt = halt
    undo = undo
    safe = safe
    Op <- OpOf
    Calls = {plan1, yes, go, halt}
    Approvals = {a1}
    AutoResume = FALSE
    SerialHuman = TRUE
    MaxCrashes = 0
INVARIANTS
    PauseHolds
CHECK_DEADLOCK FALSE
