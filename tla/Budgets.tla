------------------------------- MODULE Budgets ------------------------------
(***************************************************************************)
(* The budgets: the resource budget of a mission (resource_budget.py) and  *)
(* the token ledger by scope (cost_governor.py).  Fractions of a limit are *)
(* compared as integers; the cost in dollars is left out.                  *)
(***************************************************************************)
EXTENDS Integers, FiniteSets, FiniteSetsExt

CONSTANTS
    LedgerScopes,   \* a subset of SCOPES with "daily"
    LedgerKeys,     \* keys callers pass
    Limits,         \* limits that may be set
    Categories,     \* categories of a resource budget
    MaxUsage        \* bound on recorded usage
ASSUME BudgetAssumption == IsFiniteSet(Categories) /\ Limits \subseteq Nat

NoLimit == -1

VARIABLES
    ledger,      \* TokenGovernor._usage: tokens by (scope, key)
    limits,      \* TokenGovernor._budgets
    recorded,    \* history: tokens recorded by the (scope, key) of the caller
    resources,   \* BudgetUsage: amount by category
    budget       \* ResourceBudget: limit by category

budgetVars == <<ledger, limits, recorded, resources, budget>>

ScopeKeys == LedgerScopes \X (LedgerKeys \cup {"daily"})

BudgetInit ==
    /\ ledger = [sk \in ScopeKeys |-> 0] /\ recorded = [sk \in ScopeKeys |-> 0]
    /\ limits = [sk \in ScopeKeys |-> NoLimit]
    /\ resources = [c \in Categories |-> 0] /\ budget = [c \in Categories |-> 1]

------------------------------------------------------------------------------
(* The token ledger. *)

ScopeKeyRaw(s, k) == <<s, k>>

\* daily is one global scope, whatever key the caller names.
ScopeKey(s, k) == IF s = "daily" THEN <<s, "daily">> ELSE <<s, k>>

LedgerStatus(tokens, limit) ==
    CASE limit = NoLimit -> "OK"
      [] limit # NoLimit /\ tokens > limit -> "BLOCK"
      [] limit # NoLimit /\ tokens <= limit ->
           IF tokens >= (limit * 8) \div 10 THEN "WARN" ELSE "OK"

SetBudget(s, k, limit) ==
    /\ limits' = [limits EXCEPT ![ScopeKey(s, k)] = limit]
    /\ UNCHANGED <<ledger, recorded, resources, budget>>

RecordUsage(s, k, n) ==
    /\ ledger[ScopeKey(s, k)] + n <= MaxUsage
    /\ ledger' = [ledger EXCEPT ![ScopeKey(s, k)] = @ + n]
    /\ recorded' = [recorded EXCEPT ![<<s, k>>] = @ + n]
    /\ UNCHANGED <<limits, resources, budget>>

ResetDaily ==
    /\ ledger' = [sk \in ScopeKeys |-> IF sk[1] = "daily" THEN 0 ELSE ledger[sk]]
    /\ recorded' = [sk \in ScopeKeys |-> IF sk[1] = "daily" THEN 0 ELSE recorded[sk]]
    /\ UNCHANGED <<limits, resources, budget>>

------------------------------------------------------------------------------
(* The resource budget of a mission. *)

BudgetActions == <<"warn", "degrade_model", "reduce_agents", "compress_context",
             "request_human", "stop">>
Thresholds == <<80, 95, 100, 110, 125, 150>>

\* Percent of a limit; a limit of 0 counts as unused.
Pct(used, limit) == IF limit > 0 THEN (used * 100) \div limit ELSE 0

\* The rung of the ladder a percentage reaches: 0 is ok, 6 is stop.
Rung(pct) == Cardinality({i \in 1..6 : pct >= Thresholds[i]})

Violated(u, b) == {c \in Categories : u[c] > b[c]}
MaxPct(u, b) == Max({Pct(u[c], b[c]) : c \in Categories} \cup {0})
CheckBudget(u, b) ==
    [within |-> Violated(u, b) = {}, rung |-> Rung(MaxPct(u, b))]

CreateBudget(b) ==
    /\ budget' = b /\ resources' = [c \in Categories |-> 0]
    /\ UNCHANGED <<ledger, limits, recorded>>

TrackUsage(c, n) ==
    /\ resources[c] + n <= MaxUsage
    /\ resources' = [resources EXCEPT ![c] = @ + n]
    /\ UNCHANGED <<ledger, limits, recorded, budget>>

LedgerNext ==
    \/ \E s \in LedgerScopes, k \in LedgerKeys :
         \/ \E l \in Limits \cup {NoLimit} : SetBudget(s, k, l)
         \/ \E n \in 1..2 : RecordUsage(s, k, n)
    \/ ResetDaily
ResourceNext ==
    \/ \E b \in [Categories -> Limits] : CreateBudget(b)
    \/ \E c \in Categories, n \in 1..2 : TrackUsage(c, n)

BudgetNext == LedgerNext \/ ResourceNext
BudgetSpec == BudgetInit /\ [][BudgetNext]_budgetVars

------------------------------------------------------------------------------
\* The tokens the callers recorded for a day, each by its key and number.
DayTokens(r) == UNION {{k} \X (1..r[<<"daily", k>>]) : k \in LedgerKeys}
Owed(s, k) == IF s # "daily" THEN recorded[<<s, k>>] ELSE Cardinality(DayTokens(recorded))

\* A scope is blocked exactly when what its callers recorded exceeds the limit
\* set for it; for daily that is what all of them recorded together since the
\* last reset, so no caller gets around the limit by naming another key.
LedgerBlocks ==
    \A s \in LedgerScopes, k \in LedgerKeys :
        LET limit == limits[ScopeKey(s, k)]
        IN  LedgerStatus(ledger[ScopeKey(s, k)], limit) = "BLOCK"
              <=> limit # NoLimit /\ Owed(s, k) > limit

\* A budget that is exceeded in a category with a positive limit is answered
\* with at least reduce_agents, and no category alone would ask for more than
\* the answer.
LadderHolds ==
    LET answer == CheckBudget(resources, budget)
    IN  \A c \in Categories :
          /\ answer.rung >= Rung(Pct(resources[c], budget[c]))
          /\ c \in Violated(resources, budget) /\ budget[c] > 0 => answer.rung >= 3

\* The budgets agree with what was spent.
BudgetsHold == LedgerBlocks /\ LadderHolds
=============================================================================
