------------------------- MODULE MissionIntelligence -------------------------
(***************************************************************************)
(* The mission intelligence engine (brain/mission_intelligence_engine.py):  *)
(* parse, classify, decompose, assess and compile, each answered from a     *)
(* cache when its key was seen before, over a memory that goes on learning. *)
(* A goal is what parsing extracts from it.  Scores and confidences count   *)
(* hundredths; FallsShort says where the sums of binary floats differ.      *)
(***************************************************************************)
EXTENDS Integers, Sequences, FiniteSets

CONSTANTS
    Goals,          \* [type, domain, entities, urgent]: goals users state
    ConstraintSets, \* [keys, on]: constraints given, and those of them that are truthy
    IntelMissions,  \* mission ids
    MaxLessons      \* bound on changes of the memory

VARIABLES
    stage,      \* _state
    classified, \* _cache of classify_mission: <<type, domain>> -> confidence
    assessed,   \* _cache of assess_risk: <<type, tasks, keys>> -> [score, level]
    contracts,  \* _cache of compile_contract: mission -> contract
    trend,      \* type -> what its episodic records say of failures
    lessons

intelVars == <<stage, classified, assessed, contracts, trend, lessons>>

MissionTypes == {"CODE_GEN", "REFACTOR", "RESEARCH", "AUDIT", "DEPLOY", "RECOVERY", "UNKNOWN"}
\* No related record, under 5 %, 5 to 10 %, 10 to 30 %, over 30 % failures, or
\* a memory that raises.
Trends == {"none", "clean", "few", "some", "many", "raises"}
Extend(f, key, value) == [k \in DOMAIN f \cup {key} |-> IF k = key THEN value ELSE f[k]]

IntelInit ==
    /\ stage = "IDLE" /\ classified = <<>> /\ assessed = <<>> /\ contracts = <<>>
    /\ trend = [t \in MissionTypes |-> "none"] /\ lessons = 0

------------------------------------------------------------------------------
\* classify_mission without history; the domain is never "unknown".
Confidence(goal, related) ==
    IF goal.type = "UNKNOWN" THEN 0
    ELSE 50 + 10 + (IF goal.entities >= 2 THEN 10 ELSE 0) + (IF goal.urgent THEN 5 ELSE 0)
            + (IF related THEN 5 ELSE 0)
ClassifiedWith(goal) ==
    LET key == <<goal.type, goal.domain>>
    IN IF key \in DOMAIN classified THEN classified
       ELSE Extend(classified, key, Confidence(goal, trend[goal.type] \notin {"none", "raises"}))

\* decompose_goal: a chain of this many tasks, one to a parallel group.
TaskCount(type) == CASE type = "CODE_GEN" -> 5 [] type \in {"REFACTOR", "RESEARCH", "DEPLOY"} -> 4 [] OTHER -> 3

\* assess_risk: the profile of the type, the task count, the constraints and
\* the failures remembered.
BaseScore(type) == CASE type = "CODE_GEN" -> 20 [] type \in {"RESEARCH", "AUDIT"} -> 15 [] type = "REFACTOR" -> 40
                     [] type = "DEPLOY" -> 70 [] type = "RECOVERY" -> 45 [] OTHER -> 50
Weight(c) == CASE c = "time" -> 5 [] c = "budget" -> 3 [] OTHER -> 10
ConstraintScore(on) == LET w(c) == IF c \in on THEN Weight(c) ELSE 0
                       IN w("time") + w("budget") + w("forbidden") + w("security")
TrendScore(t) == CASE t = "many" -> 20 [] t = "some" -> 10 [] t = "clean" -> -5 [] t = "raises" -> 5 [] OTHER -> 0
Clamp(s) == IF s < 0 THEN 0 ELSE IF s > 100 THEN 100 ELSE s
Score(type, on, t) == Clamp(BaseScore(type) + (IF TaskCount(type) <= 3 THEN -5 ELSE 0)
                            + ConstraintScore(on) + TrendScore(t))
\* The sums whose double is just under the threshold they should reach, by
\* evaluating the code's additions for every type, constraint set and trend.
FallsShort(type, on, t) ==
    \/ type = "DEPLOY" /\ t = "clean" /\ on \in {{}, {"forbidden", "security"}}
    \/ type = "UNKNOWN" /\ t = "clean" /\ on = {"time", "forbidden", "security"}
    \/ type = "CODE_GEN" /\ t = "many" /\ on = {"time", "forbidden", "security"}

\* Half-open intervals.
Level(score) == CASE score < 15 -> "R0" [] score \in 15..34 -> "R1" [] score \in 35..64 -> "R2"
                  [] score \in 65..84 -> "R3" [] OTHER -> "R4"
\* What the engine computes: the level of the double, the score rounded.
Assessment(type, on, t) ==
    LET s == Score(type, on, t)
    IN [score |-> s, level |-> Level(IF FallsShort(type, on, t) THEN s - 1 ELSE s)]
NeedsApproval(level) == level \in {"R2", "R3", "R4"}

\* The key of assess_risk has the names of the constraints and not their values.
AssessKey(type, cons) == <<type, TaskCount(type), cons.keys>>
AssessedWith(type, cons) ==
    LET key == AssessKey(type, cons)
    IN IF key \in DOMAIN assessed THEN assessed
       ELSE Extend(assessed, key, Assessment(type, cons.on, trend[type]))
\* compile_contract: the key is the mission alone.
CompileContract(mission, type, risk) ==
    IF mission \in DOMAIN contracts THEN contracts
    ELSE Extend(contracts, mission, [type |-> type, level |-> risk.level, approval |-> NeedsApproval(risk.level)])

------------------------------------------------------------------------------
\* Stages called one by one: each sets the state it stands for, whatever the
\* state was.
ParseIntent(goal) == /\ stage' = "PARSING"
                     /\ UNCHANGED <<classified, assessed, contracts, trend, lessons>>
ClassifyMission(goal) == /\ stage' = "CLASSIFYING" /\ classified' = ClassifiedWith(goal)
                         /\ UNCHANGED <<assessed, contracts, trend, lessons>>
DecomposeGoal(type) == /\ stage' = "DECOMPOSING"
                       /\ UNCHANGED <<classified, assessed, contracts, trend, lessons>>
AssessRisk(type, cons) == /\ stage' = "ASSESSING" /\ assessed' = AssessedWith(type, cons)
                          /\ UNCHANGED <<classified, contracts, trend, lessons>>
\* run_pipeline: all five, each reading what the one before returned.
RunPipeline(goal, cons, mission) ==
    /\ classified' = ClassifiedWith(goal) /\ assessed' = AssessedWith(goal.type, cons)
    /\ contracts' = CompileContract(mission, goal.type, assessed'[AssessKey(goal.type, cons)])
    /\ stage' = "DONE" /\ UNCHANGED <<trend, lessons>>

\* Missions end and their outcomes enter the memory.
MemoryLearns(type, t) ==
    /\ lessons < MaxLessons /\ lessons' = lessons + 1
    /\ trend' = [trend EXCEPT ![type] = t]
    /\ UNCHANGED <<stage, classified, assessed, contracts>>

IntelNext ==
    \/ \E g \in Goals : ParseIntent(g) \/ ClassifyMission(g) \/ DecomposeGoal(g.type)
    \/ \E g \in Goals, c \in ConstraintSets : AssessRisk(g.type, c)
    \/ \E g \in Goals, c \in ConstraintSets, m \in IntelMissions : RunPipeline(g, c, m)
    \/ \E g \in Goals, t \in Trends : MemoryLearns(g.type, t)
IntelSpec == IntelInit /\ [][IntelNext]_intelVars

------------------------------------------------------------------------------
\* Neither a clean history nor a cached answer talks a mission type with a
\* managed profile out of approval: every contract for a deployment, a
\* refactoring, a recovery or an unrecognised goal requires it, the lowest
\* sums land exactly on the threshold of R2.  Nothing remembered raises a
\* confidence past certainty, and an unrecognised goal is never confident.
IntelligenceSound ==
    /\ \A m \in DOMAIN contracts :
          contracts[m].type \in {"DEPLOY", "REFACTOR", "RECOVERY", "UNKNOWN"} => contracts[m].approval
    /\ \A k \in DOMAIN classified : classified[k] <= 100 /\ (k[1] = "UNKNOWN" => classified[k] = 0)
==============================================================================
