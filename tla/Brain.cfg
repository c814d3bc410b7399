\* The orchestrator under faults, and the components that decide what agents do, each on its own.
SPECIFICATION SuiteSpec
CONSTANTS
    None = None
    m1 = m1
    m2 = m2
    w1 = w1
    sub1 = sub1
    sub2 = sub2
    fin1 = fin1
    live1 = live1
    beat1 = beat1
    no = no
    Op <- OpOf
    Arg <- ArgOf
    By <- ByOf
    Priority <- PriorityOf
    Eligible <- AnyWorker
    Preferred <- PrefersNone
    Rank <- SameRank
    RequestFor <- ForM2
    JobFor <- JobsM1
    ApprovalOp <- ApprovalOpOf
    ApprovalArg <- ApprovalArgOf
    Key <- OwnKey
    Depends <- NoDepends
    Missions = {m1}
    Workers = {w1}
    Jobs = {j1, j2}
    Loops = {l1}
    Calls = {sub1, fin1, live1}
    Leaving = {w1}
    Delayed = {}
    Requests = {}
    ApprovalCalls = {}
    MaxAttempts = 1
    MaxLeases = 2
    MaxStops = 0
    MaxFaults = 1
    MaxEscalations = 1
    MaxTurns = 2
    MaxRoster = 2
    MaxRuns = 3
    MemoryKinds = {"unverified_inference", "fact", "decision"}
    WorkingThreshold = 1
    SemanticThreshold = 2
    MaxMemories = 2
    MaxBrainOps = 3
    EvidenceRefs = {"e1", "e2"}
    Traits = {"t1"}
    MoralValues = {1, 2, 3}
    MaxSoulOps = 2
    Goals <- TwoGoals
    ConstraintSets <- TimeConstraints
    IntelMissions = {1}
    MaxLessons = 1
    Proposals = {"p1", "p2"}
    BoundActions = {"b1", "b2"}
    EffectWorkers = {1, 2}
    EffectActions = {"x", "y"}
    MaxStep = 2
    MaxEvoOps = 4
INVARIANTS
    
    AttemptsBounded
    
    
    
SYMMETRY JobSymmetry
CHECK_DEADLOCK FALSE
