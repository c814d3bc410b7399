\* Liveness of the program loop, and the components at the border of the system, each on its own.
SPECIFICATION SuiteSpec
CONSTANTS
    LoopThreads = {1, 2}
    LoopCalls = {"st1", "st2", "pa", "sp", "re"}
    LoopOp <- LoopOpOf
    LoopMissions = {"m1"}
    MaxCycles = 1
    CheckpointInterval = 1
    MaxLoopCrashes = 1
    Senders = {1, 2}
    Drafts = {"d1"}
    MaxSends = 2
    SessionIds = {"s1"}
    Clients = {1, 2}
    Bindables = {"v1"}
    MaxVersion = 4
    Ledgers = {1, 2}
    MaxAudit = 5
    FailureThreshold = 2
    RecoveryTimeout = 2
    MaxInFlight = 2
    MaxTicks = 4
    MaxLaunches = 2
    Invocations = {1, 2}
    EscapeTests = 2
    Hosts = {"h1", "h2"}
    MaxNav = 2
    MaxWebOps = 3
    Assessors = {1, 2}
    GateApprovals = {"a1", "a2"}
    Contents = {"c1"}
    GateRisks = {"R3", "R4"}
    Expected <- PolicyOn
    TwinStates <- TwinOutcomes
    MaxAssessments = 2
    MaxRewrites = 1
INVARIANTS
    LoopAccounted
    PromotionSound
    
PROPERTIES
    StopEnds
    SessionsAdvance
CHECK_DEADLOCK FALSE
