\* One human among the runs of a mission, and each record-keeping component under races, crashes, retries and damaged rows.
SPECIFICATION SuiteSpec
CONSTANTS
    None = None
    talk = talk
    plan1 = plan1
    yes = yes
    go = go
    bg1 = bg1
    bg2 = bg2
    halt = halt
    undo = undo
    safe = safe
    Op <- OpOf
    Calls = {plan1, yes, go, undo, safe, halt}
    Approvals = {a1}
    AutoResume = FALSE
    SerialHuman = TRUE
    MaxCrashes = 0
    Requests = {r1}
    ApprovalCalls = {"yes", "yes2", "no", "back", "use", "use2", "lapse"}
    ApprovalOp <- QueueOpOf
    ApprovalArg <- QueueArgOf
    RecordIds = {"a", "e", "x"}
    RecordKind <- KindOf
    Holders = {1}
    MaxStoreOps = 5
    MaxOpens = 2
    Callers = {1, 2}
    EvidenceKeys = {"k1"}
    MaxCalls = 3
    MemWriters = {1, 2}
    MemTexts = {"t1", "t2"}
    MaxMems = 2
    MaxMemCalls = 2
    ChatClients = {1, 2}
    MaxChatTurns = 3
    MaxToolSteps = 1
    KeyedTurns = {TRUE}
    FactTexts = {"t1", "t2"}
    FactMissions = {0, 1, 2}
    TopK = 1
    ChunkSize = 4
    ChunkOverlap = 2
    MaxFacts = 2
    MaxDocs = 2
    MaxLength = 9
INVARIANTS
    ExecutionIsApproved
    ReportWasAuthorised
    ConsumptionIsGranted
    RecordsSound
    
    ConversationSound
CHECK_DEADLOCK FALSE
