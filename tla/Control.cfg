\* Racing decisions of the approval engine, and the components that act under it, each on its own.
SPECIFICATION SuiteSpec
CONSTANTS
    a1 = a1
    agent = agent
    None = None
    NoKey = NoKey
    Approvals = {a1, a2}
    Humans = {h1, h2}
    Actors = {agent}
    Keys = {k1}
    Args = {x1}
    Calls = {c1}
    Decides = {d1, d2}
    Uses <- KeyedUses
    Scope <- MixedScope
    Executor <- MixedExecutor
    AgentTasks = {1, 2, 3}
    MaxAgentRuns = 2
    Decisions = {"g1", "g2"}
    BrainMissions = {"m1", "m2"}
    BrainActions = {"b1", "b2"}
    BrainBudget = 1
    LedgerScopes = {"daily", "session"}
    LedgerKeys = {"k1", "k2"}
    Limits = {0, 2}
    Categories = {"tokens", "agents"}
    MaxUsage = 3
    GatewayCalls = {1, 2}
    Primary = "deepseek"
    MaxAttempts = 2
    Threshold = 3
    Timeout = 1
    MaxGatewayClock = 2
    Failures = {"f1", "f2"}
    MaxRepairCalls = 2
    GitFiles = {"a", "s"}
    SecretFiles = {"s"}
    MaxGitOps = 4
    DeploySteps = 2
    MaxDeployCalls = 2
    Caps = {"c1", "c2"}
    OutcomeKeys = {"", "k1"}
    MaxOutcomes = 2
    MaxRestarts = 1
INVARIANTS
    HistoryAgrees
    OneDecisionStands
    
    
    SpendingSound
    
    OutcomesCountedOnce
PROPERTIES
    StatusMovesForward
CHECK_DEADLOCK FALSE
