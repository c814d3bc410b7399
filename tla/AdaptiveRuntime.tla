--------------------------- MODULE AdaptiveRuntime ---------------------------
(***************************************************************************)
(* The adaptive runtime of a mission: triage into a mode S0 to S3          *)
(* (mission_triage.py), the plan of agents with its ROI gate               *)
(* (adaptive_scheduler.py), escalation (escalation.py) and the disclosure  *)
(* level of the compiled context (token_compiler.py), in the order in      *)
(* which adaptive_runtime.py calls them.  Scores are integers in           *)
(* ten-thousandths (the code rounds to four digits), return on investment  *)
(* in thousandths; the denominator of the ROI is 1 because no risk exceeds *)
(* 1.  Costs, durations and texts are left out.                            *)
(***************************************************************************)
EXTENDS Integers, FiniteSets, Sequences, SequencesExt

CONSTANTS MaxEscalations, MaxTurns, MaxRoster

Modes == <<"S0", "S1", "S2", "S3">>
ModeRank(mode) == CHOOSE i \in 1..4 : Modes[i] = mode

VARIABLES
    mode,          \* mission.adaptive_mode
    triage,        \* the last MissionTriageResult, <<>> before the first
    plan,          \* mission.scheduling_plan: [mode, agents], agents by role
    roster,        \* AdaptiveMultiAgentScheduler._active_agents
    turns,         \* number of triages and plans made
    escalations,   \* mission.escalation_history: <<from, to>>
    disclosure     \* TokenCompiler._disclosure_levels of the mission

adaptiveVars == <<mode, triage, plan, roster, turns, escalations, disclosure>>

NoPlan == [mode |-> "none", agents |-> <<>>]

AdaptiveInit ==
    /\ mode = "S0" /\ triage = <<>> /\ plan = NoPlan /\ roster = <<>>
    /\ turns = 0 /\ escalations = <<>> /\ disclosure = 1

------------------------------------------------------------------------------
(* Triage: factors are in tenths. *)

ComputeComplexity(tools, uncertainty, duration, tokens) ==
    ((15 * tools + 15 * uncertainty + 10 * duration + 5 * tokens) * 10000 + 225) \div 450

Sensitivity(s) == CASE s = "none" -> 0 [] s = "medium" -> 5 [] s = "high" -> 8
                    [] s = "critical" -> 10 [] OTHER -> 2

ComputeRisk(external, reversible, sensitivity, complexity) ==
    ((IF external THEN 250000 ELSE 0) + (IF reversible THEN 0 ELSE 70000)
       + 15000 * Sensitivity(sensitivity) + 10 * complexity + 30) \div 60

\* The scores alone, without the two overrides at the end of _recommend_mode.
ScoredMode(complexity, risk, uncertainty, external, reversible) ==
    CASE risk >= 6500 \/ complexity >= 6500 \/ (external /\ ~reversible /\ risk >= 6000) -> "S3"
      [] risk < 6500 /\ complexity < 6500 /\ ~(external /\ ~reversible /\ risk >= 6000) ->
           IF risk >= 4500 \/ complexity >= 4500 \/ uncertainty >= 5 THEN "S2"
           ELSE IF complexity >= 2500 \/ risk >= 2000 \/ uncertainty >= 2 THEN "S1" ELSE "S0"

RecommendMode(complexity, risk, uncertainty, external, reversible) ==
    LET scored == ScoredMode(complexity, risk, uncertainty, external, reversible)
    IN  IF external THEN "S3"
        ELSE IF ~reversible /\ ModeRank(scored) < 3 THEN "S2" ELSE scored

DeriveGovernance(risk, sensitivity) ==
    IF risk >= 6000 \/ sensitivity \in {"critical", "high"} THEN "strict"
    ELSE IF risk >= 3000 \/ sensitivity = "medium" THEN "standard" ELSE "relaxed"

TriageResult(tools, uncertainty, duration, tokens, external, reversible, sensitivity, level) ==
    LET complexity == ComputeComplexity(tools, uncertainty, duration, tokens)
        risk == ComputeRisk(external, reversible, sensitivity, complexity)
    IN  [complexity |-> complexity, risk |-> risk, uncertainty |-> uncertainty,
         external |-> external, reversible |-> reversible, level |-> level, sensitivity |-> sensitivity,
         mode |-> RecommendMode(complexity, risk, uncertainty, external, reversible),
         governance |-> DeriveGovernance(risk, sensitivity)]

TriageMission(tools, uncertainty, duration, tokens, external, reversible, sensitivity, level) ==
    /\ turns < MaxTurns /\ turns' = turns + 1
    /\ triage' = TriageResult(tools, uncertainty, duration, tokens, external, reversible, sensitivity, level)
    /\ mode' = triage'.mode
    /\ UNCHANGED <<plan, roster, escalations, disclosure>>

------------------------------------------------------------------------------
(* The scheduler. *)

MaxAgents(m) == IF m = "S3" THEN 8 ELSE 3   \* SchedulerPolicyVersion
RoiThreshold == 300

Deep(t) == t.level \in {"detailed", "comprehensive"}
NeedsReviewer(t) == Deep(t) \/ t.risk > 5000
Single(t) == t.mode \in {"S0", "S1"}

Joined(agents, r, joins) == IF joins THEN Append(agents, r) ELSE agents

BaseRoles(t) ==
    LET acting == Joined(<<"Orchestrator">>, "Executor", ~Single(t) \/ Deep(t))
        planned == Joined(acting, "Planner", t.complexity > 4000)
        analysed == Joined(planned, "Analyst", t.sensitivity \in {"medium", "high"})
        informed == Joined(analysed, "Researcher", Deep(t))
    IN  Joined(informed, "Reviewer", Single(t) /\ NeedsReviewer(t))

QualityGain(r, t) ==
    CASE r = "Orchestrator" -> 500
      [] r = "Planner" -> IF t.complexity > 5000 THEN 400 ELSE 200
      [] r = "Analyst" -> IF t.sensitivity = "high" THEN 350 ELSE 150
      [] r = "Researcher" -> IF t.level = "comprehensive" THEN 400 ELSE 200
      [] r = "Executor" -> 300
      [] r = "Reviewer" -> IF t.risk > 5000 THEN 300 ELSE 100
      [] r = "Auditor" -> 250
      [] r = "Archivist" -> 100

\* Tokens and latency, weighted as in the score.
Overhead == [Orchestrator |-> 80 + 200, Planner |-> 60 + 300, Analyst |-> 50 + 250,
             Researcher |-> 70 + 400, Executor |-> 40 + 150, Reviewer |-> 30 + 100,
             Auditor |-> 40 + 120, Archivist |-> 20 + 80]

Partners(r) == CASE r = "Reviewer" -> {"Executor", "Orchestrator"}
                 [] r = "Auditor" -> {"Reviewer", "Executor"}
                 [] r = "Planner" -> {"Orchestrator", "Executor"}
                 [] OTHER -> {}

Coupling(r, base) == 5 + 15 * Cardinality(Partners(r) \cap ToSet(base))

RoiScore(r, t, base) ==
    QualityGain(r, t) - Overhead[r] - Coupling(r, base)
      + (IF NeedsReviewer(t) THEN 100 ELSE 0) + (IF Single(t) THEN 0 ELSE 150)

\* One more role, if it earns its place and there is room for it.
Tried(agents, r, t, base) ==
    Joined(agents, r, /\ Len(agents) < MaxAgents(t.mode) /\ r \notin ToSet(base)
                      /\ r = "Archivist" => t.level = "comprehensive"
                      /\ RoiScore(r, t, base) >= RoiThreshold)

\* The roles are tried in the order of RuntimeRole, of which the orchestrator is
\* in every base, and the archivist last.
Scaled(t, base) ==
    LET planned == Tried(base, "Planner", t, base)
        analysed == Tried(planned, "Analyst", t, base)
        informed == Tried(analysed, "Researcher", t, base)
        acting == Tried(informed, "Executor", t, base)
        reviewed == Tried(acting, "Reviewer", t, base)
        audited == Tried(reviewed, "Auditor", t, base)
    IN  Tried(audited, "Archivist", t, base)

ReviewersOf(agents) == Cardinality({i \in DOMAIN agents : agents[i] = "Reviewer"})

DualVerificationOnce(t, agents) ==
    Joined(agents, "Reviewer", t.mode = "S3" /\ ReviewersOf(agents) = 0 /\ Len(agents) < MaxAgents(t.mode))

\* S3 is given reviewers up to two while there is room.
WithReviewer(t, agents) ==
    Joined(agents, "Reviewer", t.mode = "S3" /\ ReviewersOf(agents) < 2 /\ Len(agents) < MaxAgents(t.mode))
DualVerification(t, agents) == WithReviewer(t, WithReviewer(t, agents))

ScheduleRoles(t) == DualVerification(t, Scaled(t, BaseRoles(t)))

CreateRole(r) == [role |-> r, status |-> "created", caps |-> {r}]

ScheduleMission ==
    /\ triage # <<>> /\ turns < MaxTurns
    /\ LET agents == ScheduleRoles(triage)
       IN  /\ plan' = [mode |-> triage.mode, agents |-> agents]
           /\ roster' = roster \o [i \in DOMAIN agents |-> CreateRole(agents[i])]
    /\ turns' = turns + 1
    /\ UNCHANGED <<mode, triage, escalations, disclosure>>

\* The lifecycle of a role.
SetStatus(i, status) ==
    /\ i \in DOMAIN roster /\ roster' = [roster EXCEPT ![i].status = status]
    /\ UNCHANGED <<mode, triage, plan, turns, escalations, disclosure>>
AssignRole(i) == SetStatus(i, "assigned")
PauseRole(i) == SetStatus(i, "paused")
RetireRole(i) == SetStatus(i, "retired")

MergeRoles(i, j) ==
    /\ {i, j} \subseteq DOMAIN roster
    /\ roster' = LET merged == [roster EXCEPT ![i].caps = @ \cup roster[j].caps]
                 IN  [merged EXCEPT ![j].status = "retired"]
    /\ UNCHANGED <<mode, triage, plan, turns, escalations, disclosure>>

\* The new agent takes over the capabilities of the one it replaces.
ReplaceRole(i, r) ==
    /\ i \in DOMAIN roster /\ Len(roster) < MaxRoster
    /\ roster' = Append([roster EXCEPT ![i].status = "retired"],
                        [role |-> r, status |-> "created", caps |-> roster[i].caps])
    /\ UNCHANGED <<mode, triage, plan, turns, escalations, disclosure>>

ReleaseAll ==
    /\ roster # <<>>
    /\ roster' = [i \in DOMAIN roster |-> [roster[i] EXCEPT !.status = "retired"]]
    /\ UNCHANGED <<mode, triage, plan, turns, escalations, disclosure>>

------------------------------------------------------------------------------
(* Escalation and disclosure. *)

ShouldEscalate(triggers) == triggers # {} /\ mode # "S3"

\* check_escalation appends the decision to the history; neither it nor
\* execute_escalation changes the mission's mode, which only triage sets.
CheckEscalation(triggers) ==
    /\ Len(escalations) < MaxEscalations /\ triage # <<>> /\ ShouldEscalate(triggers)
    /\ escalations' = Append(escalations, <<mode, Modes[ModeRank(mode) + 1]>>)
    /\ UNCHANGED <<mode, triage, plan, roster, turns, disclosure>>

\* should_de_escalate: one mode down when a trigger is active, never below S0.
ShouldDeEscalate(m, triggers) == triggers # {} /\ m # "S0"
DeEscalated(m) == Modes[ModeRank(m) - 1]

\* What executing a decision adds to the mission's agents and governance, and
\* what it takes away.
ExecuteEscalation(from, to) ==
    IF ModeRank(to) > ModeRank(from)
    THEN [added |-> (IF to \in {"S2", "S3"} THEN {"Reviewer"} ELSE {})
                    \cup (IF to = "S3" THEN {"Auditor", "verification", "approval"} ELSE {}),
          removed |-> {}]
    ELSE [added |-> {},
          removed |-> CASE from = "S3" -> {"Auditor", "Reviewer", "verification"}
                        [] from = "S2" -> {"Reviewer"} [] OTHER -> {}]

CompileContext(critical) ==
    /\ disclosure' = IF critical THEN 2 ELSE 1
    /\ UNCHANGED <<mode, triage, plan, roster, turns, escalations>>

IncreaseDisclosure ==
    /\ disclosure' = IF disclosure < 3 THEN disclosure + 1 ELSE 3
    /\ UNCHANGED <<mode, triage, plan, roster, turns, escalations>>

AdaptiveNext ==
    \/ \E tools, load \in {0, 10}, uncertainty \in {0, 3, 10},
          external, reversible \in BOOLEAN, s \in {"R2", "medium", "critical"},
          level \in {"minimal", "comprehensive"} :
         TriageMission(tools, uncertainty, load, load, external, reversible, s, level)
    \/ ScheduleMission
    \/ \E i \in {1, 2} : \/ AssignRole(i) \/ PauseRole(i) \/ RetireRole(i)
                         \/ MergeRoles(i, 3 - i) \/ ReplaceRole(i, "Reviewer")
    \/ ReleaseAll
    \/ \E issues \in SUBSET {"validation_failed"} : CheckEscalation(issues)
    \/ \E critical \in BOOLEAN : CompileContext(critical)
    \/ IncreaseDisclosure
AdaptiveSpec == AdaptiveInit /\ [][AdaptiveNext]_adaptiveVars

------------------------------------------------------------------------------
\* A mission with external effects is governed (S3), an irreversible one is at
\* least in S2, and a plan made for S3 has two reviewers within eight agents:
\* the last seat is free because no archivist earns the threshold.
PlanIsGoverned ==
    /\ triage # <<>> => /\ triage.external => mode = "S3"
                        /\ ~triage.reversible => ModeRank(mode) >= 3
    /\ plan.mode = "S3" => Len(plan.agents) <= 8 /\ ReviewersOf(plan.agents) = 2

\* Every recorded escalation goes up one mode, brings a reviewer from S2 on and
\* the auditor with S3; the de-escalation that undoes it takes back every agent
\* it brought and leaves the approval it asked for; and the agents of a plan
\* stay known to the scheduler.
EscalationsClimb ==
    /\ \A i \in DOMAIN escalations :
         LET from == escalations[i][1]
             to == escalations[i][2]
             up == ExecuteEscalation(from, to).added
         IN  /\ ModeRank(to) = ModeRank(from) + 1
             /\ ModeRank(to) >= 3 => "Reviewer" \in up
             /\ to = "S3" <=> "Auditor" \in up
             /\ ShouldDeEscalate(to, {"task_resolved"}) /\ DeEscalated(to) = from
             /\ ExecuteEscalation(to, DeEscalated(to)).removed = up \ {"approval"}
    /\ Len(plan.agents) <= Len(roster)

\* The adaptive runtime governs what it plans.
AdaptiveSound == PlanIsGoverned /\ EscalationsClimb
=============================================================================
