------------------------------- MODULE MCBrain -------------------------------
(* Small instances of the orchestrator and of the components that decide what  *)
(* the agents do: the adaptive team, the council, memory, character, mission   *)
(* intelligence and evolution.  They share no state, so one run checks them    *)
(* side by side: focus says which one moves.                                   *)
EXTENDS MCOrchestrator, AdaptiveRuntime, Council, BrainMemory, Soul,
        MissionIntelligence, BrainEvolution

\* A deployment and an urgent recovery; a constraint may be absent, off or on.
DeployGoal == [type |-> "DEPLOY", domain |-> "ci", entities |-> 1, urgent |-> FALSE]
RecoveryGoal == [type |-> "RECOVERY", domain |-> "api", entities |-> 2, urgent |-> TRUE]
TwoGoals == {DeployGoal, RecoveryGoal}
TimeConstraints == {[keys |-> {}, on |-> {}], [keys |-> {"time"}, on |-> {}],
                    [keys |-> {"time"}, on |-> {"time"}]}

------------------------------------------------------------------------------
\* The component this behaviour is about; the others stay as they start.
VARIABLE focus

\* Everything but the component in focus is left alone.
Elsewhere ==
    /\ UNCHANGED focus
    /\ focus # "orchestrator" => UNCHANGED vars
    /\ focus # "team" => UNCHANGED adaptiveVars
    /\ focus # "council" => UNCHANGED councilVars
    /\ focus # "memory" => UNCHANGED brainVars
    /\ focus # "soul" => UNCHANGED soulVars
    /\ focus # "intelligence" => UNCHANGED intelVars
    /\ focus \notin {"evolution", "boundary", "durable"} => UNCHANGED evoVars

Orchestrates == focus = "orchestrator" /\ Elsewhere /\ Next
Adapts == focus = "team" /\ Elsewhere /\ AdaptiveNext
Deliberates == focus = "council" /\ Elsewhere /\ CouncilNext
Remembers == focus = "memory" /\ Elsewhere /\ BrainMemoryNext
Matures == focus = "soul" /\ Elsewhere /\ SoulNext
Assesses == focus = "intelligence" /\ Elsewhere /\ IntelNext
Evolves == focus = "evolution" /\ Elsewhere /\ EvolutionNext
Bounds == focus = "boundary" /\ Elsewhere /\ BoundaryNext
Persists == focus = "durable" /\ Elsewhere /\ DurableNext

SuiteInit ==
    /\ focus \in {"orchestrator", "team", "council", "memory", "soul",
                  "intelligence", "evolution", "boundary",
                  "durable"}
    /\ Init /\ AdaptiveInit /\ CouncilInit /\ BrainMemoryInit /\ SoulInit
    /\ IntelInit /\ EvoInit

SuiteNext ==
    \/ Orchestrates \/ Adapts \/ Deliberates \/ Remembers \/ Matures
    \/ Assesses \/ Evolves \/ Bounds \/ Persists
suiteVars == <<vars, adaptiveVars, councilVars, brainVars, soulVars,
    intelVars, evoVars, focus>>
SuiteSpec == SuiteInit /\ [][SuiteNext]_suiteVars

------------------------------------------------------------------------------
\* A team never works without the verification its risk calls for, however
\* often it is escalated and scaled back, and the council's pipeline passes no
\* gate a seat has refused, also when stages are run again out of turn.
TeamsSound == /\ focus = "team" => AdaptiveSound
              /\ focus = "council" => CouncilSound

\* Neither the brain's memory nor the soul comes to hold what nothing supports:
\* decay, consolidation and restored files keep confidence and origin, and
\* traits and moral weight rest on evidence that was verified.
MindSound == /\ focus = "memory" => BrainMemorySound
             /\ focus = "soul" => SoulSound

\* A published risk level and contract follow from the classified goal, and a
\* proposal, a veto and a durable effect keep what was recorded about them
\* through repeated evaluation, a restart and two workers.
JudgementSound == /\ focus = "intelligence" => IntelligenceSound
                  /\ focus \in {"evolution", "boundary", "durable"} => EvolutionSound
==============================================================================
