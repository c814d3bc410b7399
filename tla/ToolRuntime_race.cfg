\* Three calls race for one single-action approval.
SPECIFICATION Spec
CONSTANTS
    a1 = a1
    agent = agent
    None = None
    NoKey = NoKey
    Approvals = {a1}
    Humans = {human}
    Actors = {agent, other}
    Keys = {k1}
    Args = {x1, x2}
    Calls = {c1, c2, c3}
    Decides = {d1}
    Uses <- KeyedUses
    Scope <- SingleScope
    Executor <- SingleExecutor
SYMMETRY CallSymmetry
INVARIANTS
    IndInv
    SingleUse
    UnkeyedRunsOnce
    ReplayMatchesClaim
    OneReturnPerKey
PROPERTIES
    ImplementsContract
CHECK_DEADLOCK FALSE
