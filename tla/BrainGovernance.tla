-------------------------- MODULE BrainGovernance ---------------------------
(***************************************************************************)
(* The governance layer of the brain: the approval decisions and the       *)
(* policy of brain/governance/autonomous_governance.py, the admission      *)
(* guard of kernel_boundary.py behind ChiefBrainKernel.submit, and the     *)
(* decision gate of ChiefBrainKernel.decide with its budget.  No method    *)
(* sets expires_at, so a decision never expires here.  decide leaves       *)
(* estimated_tokens at 0 and every selected model starts with deepseek, so *)
(* its two later checks never change the action that evaluate chose.       *)
(***************************************************************************)
EXTENDS Integers, FiniteSets

CONSTANTS Decisions, BrainMissions, BrainActions, BrainBudget

\* The budget is a number of tokens.
ASSUME GovernanceAssumption == BrainBudget \in Nat

Risks == {"R0", "R1", "R2", "R3", "R4"}
RiskApproval == [R0 |-> "auto", R1 |-> "auto", R2 |-> "confirm",
                 R3 |-> "human", R4 |-> "blocked"]
RequiresApproval == {"R2", "R3", "R4"}

\* authorize: what may run without any decision.
CanExecute(r) == RiskApproval[r] # "blocked" /\ r \notin RequiresApproval

VARIABLES
    decision,   \* ApprovalOrchestrator._decisions: [Decisions -> a record]
    pending,    \* ApprovalOrchestrator._pending
    lastAct,    \* history: the last method that wrote each decision
    guard,      \* KernelExecutionGuard._active_context (at most one mission)
    brainUsed   \* ReasoningBudgetManager._used

govVars == <<decision, pending, lastAct, guard, brainUsed>>

NoVerdict == [status |-> "none", mission |-> "none", action |-> "none",
               level |-> "none"]

GovInit ==
    /\ decision = [d \in Decisions |-> NoVerdict]
    /\ pending = {} /\ guard = {} /\ brainUsed = 0
    /\ lastAct = [d \in Decisions |-> "none"]

------------------------------------------------------------------------------
(* Decisions. *)

DecidedActions(d, status) ==
    /\ decision[d].status # "none"
    /\ decision' = [decision EXCEPT ![d].status = status]
    /\ lastAct' = [lastAct EXCEPT ![d] = status]
    /\ UNCHANGED <<guard, brainUsed>>

RequestDecision(d, m, a, r) ==
    /\ decision[d].status = "none"
    /\ decision' = [decision EXCEPT ![d] = [status |-> "pending", mission |-> m,
                                            action |-> a, level |-> RiskApproval[r]]]
    /\ pending' = IF RiskApproval[r] \in {"confirm", "human"}
                  THEN pending \cup {d} ELSE pending
    /\ UNCHANGED <<lastAct, guard, brainUsed>>

Approve(d) == DecidedActions(d, "approved") /\ pending' = pending \ {d}
Reject(d)  == DecidedActions(d, "rejected") /\ pending' = pending \ {d}
\* revoke leaves the decision in _pending.
Revoke(d)  == DecidedActions(d, "revoked") /\ UNCHANGED pending

IsValid(d) == decision[d].status = "approved"

ConsumeDecision(d) == IsValid(d) /\ DecidedActions(d, "consumed") /\ UNCHANGED pending

\* A decision found by its action alone, whatever mission asked for it.
VerifyAction(d, m, a) == IsValid(d) /\ decision[d].action = a

\* verify: any mismatch, and a decision at level blocked, is refused.
Verify(d, m, a) ==
    /\ IsValid(d)
    /\ decision[d].mission = m /\ decision[d].action = a
    /\ decision[d].level # "blocked"

\* enforce; d is empty for a call without decision_id.  A refusal is logged.
Allowed(r, a, d, m, allowedActions, forbidden) ==
    /\ a \notin forbidden /\ a \in allowedActions
    /\ RiskApproval[r] # "blocked"
    /\ r \in RequiresApproval => \E x \in d : Verify(x, m, a)

------------------------------------------------------------------------------
(* The kernel. *)

Gates == {"contract", "state", "governance", "evidence"}

\* submit raises at the first missing gate; the guard then keeps the context
\* of the mission admitted before.
Submit(m, gates) ==
    /\ guard' = IF gates = Gates THEN {m} ELSE guard
    /\ UNCHANGED <<decision, pending, lastAct, brainUsed>>

ClearGuard == guard' = {} /\ UNCHANGED <<decision, pending, lastAct, brainUsed>>

Remaining == IF brainUsed > BrainBudget THEN 0 ELSE BrainBudget - brainUsed

ClassifyAction(r, caps, budget) ==
    IF r \in {"R3", "R4"} \/ budget <= 0 THEN "escalate"
    ELSE IF caps = {} THEN "reject"
    ELSE IF r = "R2" /\ "write_report" \notin caps THEN "delegate"
    ELSE "execute"

DecideMission(r, caps) == ClassifyAction(r, caps, Remaining)

\* A provider that reports no cost adds nothing.
ObserveResult(cost) ==
    /\ brainUsed <= BrainBudget
    /\ brainUsed' = brainUsed + cost
    /\ UNCHANGED <<decision, pending, lastAct, guard>>

GovNext ==
    \/ \E d \in Decisions :
         \/ Approve(d) \/ Reject(d) \/ Revoke(d) \/ ConsumeDecision(d)
         \/ \E m \in BrainMissions, a \in BrainActions, r \in Risks :
              RequestDecision(d, m, a, r)
    \/ \E m \in BrainMissions, g \in SUBSET Gates : Submit(m, g)
    \/ ClearGuard
    \/ \E cost \in 0..1 : ObserveResult(cost)

GovSpec == GovInit /\ [][GovNext]_govVars

------------------------------------------------------------------------------
GovTypeOK ==
    /\ decision \in [Decisions -> [status : {"none", "pending", "approved", "rejected",
                                            "revoked", "consumed"},
                                  mission : BrainMissions \cup {"none"},
                                  action : BrainActions \cup {"none"},
                                  level : {"none", "auto", "confirm", "human", "blocked"}]]
    /\ pending \subseteq Decisions
    /\ guard \in SUBSET BrainMissions
    /\ brainUsed \in Nat
    /\ lastAct \in [Decisions -> {"none", "approved", "rejected", "revoked", "consumed"}]

\* The brain fails closed in every order of request, approval, rejection,
\* revocation and consumption: above R1 an action is allowed only by a decision
\* that was asked for this mission and this action below R4 and whose last
\* change was an approval, and the kernel decides to execute a mission that
\* could not be allowed without a decision only with a report capability and
\* budget left.
BrainFailsClosed ==
    \A r \in {x \in Risks : ~CanExecute(x)}, a \in BrainActions, m \in BrainMissions :
        /\ \A d \in {{}} \cup {{x} : x \in Decisions} :
             Allowed(r, a, d, m, BrainActions, {}) =>
               /\ r # "R4"
               /\ \E x \in d : /\ lastAct[x] = "approved"
                               /\ decision[x].mission = m /\ decision[x].action = a
                               /\ decision[x].level # "blocked"
        /\ \A caps \in SUBSET {"write_report", "read"} :
             DecideMission(r, caps) = "execute" =>
               r = "R2" /\ "write_report" \in caps /\ brainUsed < BrainBudget
=============================================================================
