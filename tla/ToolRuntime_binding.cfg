\* Does a single-action approval run one exact request?
SPECIFICATION Spec
CONSTANTS
    a1 = a1
    agent = agent
    None = None
    NoKey = NoKey
    Approvals = {a1}
    Humans = {human}
    Actors = {agent}
    Keys = {k1}
    Args = {x1, x2}
    Calls = {c1, c2, c3}
    Decides = {d1}
    Uses <- KeyedUses
    Scope <- SingleScope
    Executor <- SingleExecutor
SYMMETRY CallSymmetry
INVARIANTS
    OneRequestPerApproval
CHECK_DEADLOCK FALSE
