------------------------------ MODULE MCControl ------------------------------
(* Small instances of the approval engine and of the components that act for   *)
(* the agents under its control: the brain's governance, an agent run, budgets,*)
(* the model gateway, the repair loop, the adapters for git and deployments,   *)
(* and the capability registry.  They share no state, so one run checks them   *)
(* side by side: focus says which one moves.                                   *)
EXTENDS MCToolRuntime, AgentRun, BrainGovernance, Budgets, ModelGateway,
        RepairLoop, GitAdapter, DeploymentAdapter, Capabilities

\* The request the tools hold while another component is in focus.
AnyRequest == CHOOSE r \in ToolRequest : TRUE

------------------------------------------------------------------------------
\* The component this behaviour is about; the others stay as they start.
VARIABLE focus

\* Everything but the component in focus is left alone.
Elsewhere ==
    /\ UNCHANGED focus
    /\ focus # "tools" => UNCHANGED vars
    /\ focus # "agents" => UNCHANGED agentVars
    /\ focus # "governance" => UNCHANGED govVars
    /\ focus \notin {"ledger", "resources"} => UNCHANGED budgetVars
    /\ focus # "gateway" => UNCHANGED gatewayVars
    /\ focus # "repair" => UNCHANGED repairVars
    /\ focus # "git" => UNCHANGED gitVars
    /\ focus # "deploy" => UNCHANGED deployVars
    /\ focus # "capabilities" => UNCHANGED capVars

Invokes == focus = "tools" /\ Elsewhere /\ Next
RunsAgents == focus = "agents" /\ Elsewhere /\ AgentNext
Governs == focus = "governance" /\ Elsewhere /\ GovNext
Charges == focus = "ledger" /\ Elsewhere /\ LedgerNext
Allots == focus = "resources" /\ Elsewhere /\ ResourceNext
Routes == focus = "gateway" /\ Elsewhere /\ GatewayNext
Repairs == focus = "repair" /\ Elsewhere /\ RepairNext
Commits == focus = "git" /\ Elsewhere /\ GitNext
Deploys == focus = "deploy" /\ Elsewhere /\ DeployNext
Scores == focus = "capabilities" /\ Elsewhere /\ CapNext

SuiteInit ==
    /\ focus \in {"tools", "agents", "governance", "ledger", "resources",
                  "gateway", "repair", "git", "deploy",
                  "capabilities"}
    /\ Init /\ AgentInit /\ GovInit /\ BudgetInit /\ GatewayInit /\ RepairInit
    /\ GitInit /\ DeployInit /\ CapInit
    /\ focus # "tools" => \A c \in Calls : req[c] = AnyRequest

SuiteNext ==
    \/ Invokes \/ RunsAgents \/ Governs \/ Charges \/ Allots \/ Routes
    \/ Repairs \/ Commits \/ Deploys \/ Scores
suiteVars == <<vars, agentVars, govVars, budgetVars, gatewayVars,
    repairVars, gitVars, deployVars, capVars, focus>>
SuiteSpec == SuiteInit /\ [][SuiteNext]_suiteVars

------------------------------------------------------------------------------
\* An agent run accounts for every task and never leaves two writers at work,
\* and a repair that reports success has passed its checks, each attempt with a
\* hypothesis of its own, also when attempts by hand overlap the loop.
RunsSound == /\ focus = "agents" => AgentRunSound
             /\ focus = "repair" => RepairSound

\* Usage is charged to the scope and key it belongs to, and the gateway sends
\* and charges a call as often as it says, with a breaker that counts failures
\* of the provider it guards.
SpendingSound == /\ focus \in {"ledger", "resources"} => BudgetsHold
                 /\ focus = "gateway" => GatewaySound

\* No step through an adapter goes round its governance: nothing secret is
\* committed, no protected branch is moved without an approval, a deployment
\* in production runs approved steps in order and is undone in reverse.
AdaptersSound == /\ focus = "git" => GitGoverned
                 /\ focus = "deploy" => DeploymentSound
==============================================================================
