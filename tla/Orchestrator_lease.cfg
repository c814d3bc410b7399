\* Two loop threads acquire the same mission.
SPECIFICATION Spec
CONSTANTS
    None = None
    m1 = m1
    m2 = m2
    w1 = w1
    sub1 = sub1
    sub2 = sub2
    fin1 = fin1
    live1 = live1
    beat1 = beat1
    no = no
    Op <- OpOf
    Arg <- ArgOf
    By <- ByOf
    Priority <- PriorityOf
    Eligible <- AnyWorker
    Preferred <- PrefersNone
    Rank <- SameRank
    RequestFor <- ForM2
    JobFor <- JobsM1
    ApprovalOp <- ApprovalOpOf
    ApprovalArg <- ApprovalArgOf
    Key <- OwnKey
    Depends <- NoDepends
    Missions = {m1}
    Workers = {w1}
    Jobs = {}
    Loops = {l1, l2}
    Calls = {sub1}
    Leaving = {}
    Delayed = {}
    Requests = {}
    ApprovalCalls = {}
    MaxAttempts = 2
    MaxLeases = 2
    MaxStops = 1
    MaxFaults = 0
INVARIANT
    OneLivingLease
CHECK_DEADLOCK FALSE
