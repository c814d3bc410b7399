-------------------------- MODULE DeploymentAdapter --------------------------
(***************************************************************************)
(* The governed deployment adapter (deployment_adapter.py).  One plan, with *)
(* its settings, goes through create_plan, preview, execute, health_check   *)
(* and rollback; one call runs at a time and each driver call is a step.    *)
(* A driver step completes, fails, or raises out of the whole call.  The    *)
(* caller keeps the step objects it passed in and may edit their commands.  *)
(***************************************************************************)
EXTENDS Integers, Sequences, SequencesExt

CONSTANTS
    DeploySteps,    \* number of steps of the plan, and of its rollback; a dry run calls none an error
    MaxDeployCalls  \* bound on calls of execute and rollback

ASSUME DeployStepsAssumption == DeploySteps \in Nat \ {0}

Environments == {"staging", "production"}

VARIABLES
    deployCfg,   \* the adapter's constructor arguments
    plan,        \* <<>> before create_plan, else the only plan as a 1-tuple
    command,     \* what each step's command now is: "ok" or "edited"
    integrity,   \* integrity_sha256 of each step: the command it was taken of
    stage,       \* the call in progress: "idle", "steps", "health", "rollback"
    stepsRan,    \* steps of the last execute that completed, in order
    undone,      \* rollback steps of the last _rollback that completed
    forced,      \* the force argument of the last execute
    escaped,     \* the last driver call raised
    deployCalls

deployVars == <<deployCfg, plan, command, integrity, stage, stepsRan, undone, forced, escaped,
                deployCalls>>

StepNos == 1..DeploySteps
DeployConfigs == [production : BOOLEAN, autoRollback : BOOLEAN, health : BOOLEAN,
                  approvals : BOOLEAN]

DeployInit ==
    /\ deployCfg = [production |-> FALSE, autoRollback |-> TRUE, health |-> TRUE,
                    approvals |-> FALSE]
    /\ plan = <<>> /\ command = [s \in StepNos |-> "ok"] /\ integrity = command
    /\ stage = "idle" /\ stepsRan = <<>> /\ undone = <<>> /\ forced = FALSE
    /\ escaped = FALSE /\ deployCalls = 0

DeployIdle == stage = "idle"
ThePlan == plan[1]
PlanState(s) == plan' = [plan EXCEPT ![1].state = s]

\* create_plan: the digest takes the integrity of every step.
CreateDeployPlan(cfg, env, rb) ==
    /\ plan = <<>>
    /\ deployCfg' = cfg
    /\ plan' = <<[env |-> env, rollback |-> rb, state |-> "DRAFT"]>>
    /\ integrity' = command
    /\ UNCHANGED <<command, stage, stepsRan, undone, forced, escaped, deployCalls>>

EditStep(s) ==
    /\ plan # <<>> /\ command[s] = "ok" /\ command' = [command EXCEPT ![s] = "edited"]
    /\ UNCHANGED <<deployCfg, plan, integrity, stage, stepsRan, undone, forced, escaped, deployCalls>>

\* preview: whatever the dry run found, and takes the digest again.
PreviewPlan ==
    /\ DeployIdle /\ plan # <<>> /\ PlanState("PREVIEWED") /\ integrity' = command
    /\ UNCHANGED <<deployCfg, command, stage, stepsRan, undone, forced, escaped, deployCalls>>

\* The production gate.  With an approval engine and no force flag the request
\* is built from plan.mission_id, which plans lack: the call raises.
ProductionGate(force) ==
    ThePlan.env = "production" => /\ deployCfg.production
                                  /\ force \/ ~deployCfg.approvals

\* compute_integrity stores what it computes before the comparison reads it.
IntegrityHolds(taken) == \A s \in StepNos : command[s] = taken[s]

\* execute up to its first driver call; the plan's state is not looked at.
StartExecute(force) ==
    /\ DeployIdle /\ plan # <<>> /\ deployCalls < MaxDeployCalls
    /\ deployCalls' = deployCalls + 1
    /\ IF ProductionGate(force)
       THEN /\ integrity' = command
            /\ IF IntegrityHolds(integrity')
               THEN stage' = "steps" /\ stepsRan' = <<>> /\ forced' = force /\ UNCHANGED plan
               ELSE PlanState("FAILED") /\ UNCHANGED <<stage, stepsRan, forced>>
            /\ undone' = <<>> /\ escaped' = FALSE
       ELSE UNCHANGED <<integrity, stage, stepsRan, forced, plan, undone, escaped>>
    /\ UNCHANGED <<deployCfg, command>>

\* A failure goes to the rollback when there is one and it is automatic.
FailTo(s) ==
    IF deployCfg.autoRollback /\ ThePlan.rollback
    THEN stage' = "rollback" /\ undone' = <<>> /\ PlanState("ROLLING_BACK")
    ELSE stage' = "idle" /\ UNCHANGED undone /\ PlanState(s)

ExecuteStep(outcome) ==
    /\ stage = "steps"
    /\ CASE outcome = "completed" ->
              LET all == Append(stepsRan, Len(stepsRan) + 1)
                  over == Len(all) = DeploySteps
              IN  /\ stepsRan' = all
                  /\ stage' = IF ~over THEN "steps" ELSE IF deployCfg.health THEN "health" ELSE "idle"
                  /\ IF over THEN PlanState("DEPLOYED") ELSE UNCHANGED plan
                  /\ UNCHANGED <<undone, escaped>>
         [] outcome = "failed" -> FailTo("FAILED") /\ UNCHANGED <<stepsRan, escaped>>
         [] outcome = "raised" -> /\ stage' = "idle" /\ escaped' = TRUE
                                  /\ UNCHANGED <<stepsRan, undone, plan>>
    /\ UNCHANGED <<deployCfg, command, integrity, forced, deployCalls>>

DeployHealth(outcome) ==
    /\ stage = "health"
    /\ CASE outcome = "completed" -> stage' = "idle" /\ PlanState("HEALTHY") /\ UNCHANGED undone
         [] outcome = "failed" -> FailTo("UNHEALTHY")
         [] outcome = "raised" -> stage' = "idle" /\ UNCHANGED <<plan, undone>>
    /\ escaped' = (outcome = "raised")
    /\ UNCHANGED <<deployCfg, command, integrity, stepsRan, forced, deployCalls>>

ManualRollback ==
    /\ DeployIdle /\ plan # <<>> /\ ThePlan.rollback /\ deployCalls < MaxDeployCalls
    /\ deployCalls' = deployCalls + 1
    /\ stage' = "rollback" /\ undone' = <<>> /\ escaped' = FALSE /\ PlanState("ROLLING_BACK")
    /\ UNCHANGED <<deployCfg, command, integrity, stepsRan, forced>>

NextUndoneFirst == Len(undone) + 1

\* _rollback takes the rollback steps last first.
NextUndone == DeploySteps - Len(undone)

RollbackStep(outcome) ==
    /\ stage = "rollback"
    /\ IF outcome = "completed"
       THEN LET all == Append(undone, NextUndone)
                over == Len(all) = DeploySteps
            IN  /\ undone' = all /\ UNCHANGED escaped
                /\ stage' = IF over THEN "idle" ELSE "rollback"
                /\ IF over THEN PlanState("ROLLED_BACK") ELSE UNCHANGED plan
       ELSE /\ stage' = "idle" /\ UNCHANGED undone /\ escaped' = (outcome = "raised")
            /\ IF outcome = "failed" THEN PlanState("FAILED") ELSE UNCHANGED plan
    /\ UNCHANGED <<deployCfg, command, integrity, stepsRan, forced, deployCalls>>

DeployNext ==
    \/ \E cfg \in DeployConfigs, env \in Environments, rb \in BOOLEAN :
         CreateDeployPlan(cfg, env, rb)
    \/ \E s \in StepNos : EditStep(s)
    \/ PreviewPlan
    \/ \E force \in BOOLEAN : StartExecute(force)
    \/ \E outcome \in {"completed", "failed", "raised"} :
         ExecuteStep(outcome) \/ DeployHealth(outcome) \/ RollbackStep(outcome)
    \/ ManualRollback

DeploySpec == DeployInit /\ [][DeployNext]_deployVars

------------------------------------------------------------------------------
PlanStates == {"DRAFT", "PREVIEWED", "FAILED", "ROLLING_BACK", "DEPLOYED", "HEALTHY", "UNHEALTHY",
               "ROLLED_BACK"}
DeployPlans == [env : Environments, rollback : BOOLEAN, state : PlanStates]

\* The state keeps its shape.
DeployTypeOK ==
    /\ deployCfg \in DeployConfigs /\ (plan = <<>> \/ \E p \in DeployPlans : plan = <<p>>)
    /\ command \in [StepNos -> {"ok", "edited"}] /\ integrity \in [StepNos -> {"ok", "edited"}]
    /\ stage \in {"idle", "steps", "health", "rollback"}
    /\ stepsRan \in Seq(StepNos) /\ undone \in Seq(StepNos)
    /\ forced \in BOOLEAN /\ escaped \in BOOLEAN /\ deployCalls \in Nat

\* Between calls: no step of a production plan has run while production
\* deployments are off, or without the force flag where there is an approval
\* engine; a plan is HEALTHY or DEPLOYED only when every step of its last
\* execution completed in order, and ROLLED_BACK only when every rollback step
\* did, last first; a failed or unhealthy plan that has rollback steps and
\* rolls back automatically has tried them; none of this for a call a driver
\* raised out of, which leaves whatever state the plan had.
DeploymentSound ==
    /\ plan # <<>> /\ ThePlan.env = "production" /\ (stepsRan # <<>> \/ stage = "steps") =>
         deployCfg.production /\ (forced \/ ~deployCfg.approvals)
    /\ DeployIdle /\ plan # <<>> /\ ~escaped =>
         /\ ThePlan.state \in {"HEALTHY", "DEPLOYED"} => stepsRan = [i \in StepNos |-> i]
         /\ ThePlan.state = "HEALTHY" => deployCfg.health
         /\ ThePlan.state = "ROLLED_BACK" => undone = Reverse([i \in StepNos |-> i])
         /\ ThePlan.state = "ROLLING_BACK" => FALSE
         /\ ThePlan.state = "UNHEALTHY" => ~(deployCfg.autoRollback /\ ThePlan.rollback)
=============================================================================
