\* A rejected mission of higher priority and a failing cycle.
SPECIFICATION FairSpec
CONSTANTS
    None = None
    m1 = m1
    m2 = m2
    w1 = w1
    sub1 = sub1
    sub2 = sub2
    fin1 = fin1
    live1 = live1
    beat1 = beat1
    no = no
    Op <- OpOf
    Arg <- ArgOf
    By <- ByOf
    Priority <- PriorityOf
    Eligible <- AnyWorker
    Preferred <- PrefersNone
    Rank <- SameRank
    RequestFor <- ForM2
    JobFor <- JobsM1
    ApprovalOp <- ApprovalOpOf
    ApprovalArg <- ApprovalArgOf
    Key <- OwnKey
    Depends <- NoDepends
    Missions = {m1, m2}
    Workers = {w1}
    Jobs = {}
    Loops = {l1}
    Calls = {sub1, sub2, beat1}
    Leaving = {}
    Delayed = {m1}
    Requests = {r1}
    ApprovalCalls = {no}
    MaxAttempts = 1
    MaxLeases = 3
    MaxStops = 0
    MaxFaults = 1
PROPERTY
    ReadyIsTaken
CHECK_DEADLOCK FALSE
