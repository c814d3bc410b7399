------------------------------- MODULE Council -------------------------------
(***************************************************************************)
(* The council: the mission DNA (council/mission_dna.py), the execution    *)
(* pipeline over ten stages (council/pipeline.py), the routing of a        *)
(* mission to seats, the resolution of votes and vetoes and the seats kept *)
(* under a token budget (council/runtime).  The words of an objective are  *)
(* the kind of mission they classify it as; the files of a receipt are     *)
(* left out.                                                               *)
(***************************************************************************)
EXTENDS Integers, FiniteSets, Sequences

CONSTANT MaxRuns   \* bound on calls of run and run_stage

Stages == <<"REQUIREMENT_INPUT", "DNA_GENERATION", "COUNCIL_DELIBERATION",
            "RED_TEAM_ATTACK", "JUDGE_ADJUDICATION", "EXECUTION_PLAN", "HERMES_RUNNER",
            "EVIDENCE_COLLECTION", "VERIFICATION", "MEMORY_COMMIT">>
RedTeam == 4   Judge == 5   Verification == 9   Commit == 10

Seats == {"CHAIRMAN", "STAFF", "ARCH", "CODE", "EXEC", "RED", "JUDGE", "MEM", "TOKEN"}
CouncilRisks == <<"R0", "R1", "R2", "R3", "R4">>
Kinds == {"ARCHITECTURE", "SECURITY_AUDIT", "GOVERNANCE", "DEPLOYMENT", "CONSTITUTIONAL",
          "IMPLEMENTATION", "OTHER"}

VARIABLES
    dna,       \* the MissionDNA: [complete, kind, production, risk (1..5)]
    stages,    \* PipelineState.stages: status by stage number
    risks,     \* risks_found in the output of the red team
    current,   \* PipelineState.current_stage
    running,   \* a call of run is under way
    calls,     \* number of calls made
    byStage,   \* history: stages that run_stage executed
    councilReceipts   \* receipts written by the commit stage, with what they saw

councilVars == <<dna, stages, risks, current, running, calls, byStage, councilReceipts>>

\* The constructor takes any DNA; the builder's build refuses an incomplete one.
CouncilInit ==
    /\ dna = [complete |-> FALSE, kind |-> "OTHER", production |-> FALSE, risk |-> 2]
    /\ stages = [s \in 1..10 |-> "PENDING"] /\ risks = {} /\ current = 1
    /\ running = FALSE /\ calls = 0 /\ byStage = {} /\ councilReceipts = <<>>

NewDNA(complete, kind, production, risk) ==
    /\ calls = 0 /\ ~running
    /\ production => kind \in {"ARCHITECTURE", "SECURITY_AUDIT", "GOVERNANCE", "DEPLOYMENT"}
    /\ dna' = [complete |-> complete, kind |-> kind, production |-> production, risk |-> risk]
    /\ UNCHANGED <<stages, risks, current, running, calls, byStage, councilReceipts>>

------------------------------------------------------------------------------
(* Routing and conflicts. *)

Classify(d) == IF d.kind # "OTHER" THEN d.kind
               ELSE IF d.risk >= 4 THEN "DEPLOYMENT" ELSE "ROUTINE"

RequiredSeats(kind) ==
    CASE kind \in {"ARCHITECTURE", "IMPLEMENTATION"} -> {"CHAIRMAN", "ARCH", "CODE"}
      [] kind = "SECURITY_AUDIT" -> {"RED", "JUDGE", "CHAIRMAN"}
      [] kind = "GOVERNANCE" -> {"JUDGE", "CHAIRMAN", "STAFF"}
      [] kind = "DEPLOYMENT" -> {"CHAIRMAN", "EXEC", "RED", "JUDGE", "CODE"}
      [] kind = "CONSTITUTIONAL" -> Seats
      [] kind = "ROUTINE" -> {"CODE"}

RouteSeats(d) ==
    (IF d.risk >= 5 THEN Seats
     ELSE RequiredSeats(Classify(d)) \cup (IF d.risk >= 4 THEN {"RED", "JUDGE"} ELSE {}))
    \cup {"TOKEN", "MEM"}

ResolveVoteTie(votes, chairman) ==
    LET for == Cardinality({s \in DOMAIN votes : votes[s] = "APPROVE"})
        against == Cardinality({s \in DOMAIN votes : votes[s] = "REJECT"})
    IN  IF for > against THEN "APPROVE" ELSE IF against > for THEN "REJECT" ELSE chairman

\* Who rules on a veto; a veto of another seat stays open.
HandleVeto(seat) == CASE seat = "RED" -> "JUDGE" [] seat = "JUDGE" -> "CHAIRMAN"
                      [] OTHER -> "none"

SeatBudget(s) == CASE s = "CHAIRMAN" -> 12 [] s = "STAFF" -> 10 [] s = "MEM" -> 6
                   [] s \in {"EXEC", "TOKEN"} -> 4 [] OTHER -> 8

\* Python sorts stably, so of two seats of one price the earlier comes first.
SeatOrder == <<"CHAIRMAN", "STAFF", "ARCH", "CODE", "EXEC", "RED", "JUDGE", "MEM", "TOKEN">>
Cheaper(s, t) ==
    \/ SeatBudget(s) < SeatBudget(t)
    \/ /\ SeatBudget(s) = SeatBudget(t)
       /\ \E i, j \in 1..9 : SeatOrder[i] = s /\ SeatOrder[j] = t /\ i < j

\* AGGRESSIVE: chairman, red team and judge stay, then the five cheapest.
OptimizeRouting(agents) ==
    LET rest == agents \ {"CHAIRMAN", "RED", "JUDGE"}
    IN  (agents \ rest) \cup {s \in rest : Cardinality({t \in rest : Cheaper(t, s)}) < 5}

------------------------------------------------------------------------------
(* The stages. *)

\* _stage_red_team_attack: only a production warning blocks; the R3 warning on
\* databases changes nothing and is left out.
RisksFound == (IF dna.production THEN {"R4"} ELSE {})
              \cup (IF dna.complete THEN {} ELSE {"R2"})

\* What a stage returns.  An incomplete DNA fails the first two stages without
\* raising; no handler raises on these inputs.
Handler(s) ==
    CASE s \in {1, 2} -> IF dna.complete THEN "COMPLETED" ELSE "FAILED"
      [] s = RedTeam -> IF "R4" \in RisksFound THEN "BLOCKED" ELSE "COMPLETED"
      [] s = Judge -> IF "R4" \in risks THEN "BLOCKED" ELSE "COMPLETED"
      [] s = Verification -> IF \E t \in 1..10 : t # s /\ stages[t] \in {"FAILED", "BLOCKED"}
                             THEN "FAILED" ELSE "COMPLETED"
      [] OTHER -> "COMPLETED"

\* The handler and the result it leaves; the commit stage writes a receipt that
\* counts the stages completed before it.
ExecuteStage(s) ==
    /\ stages' = [stages EXCEPT ![s] = Handler(s)]
    /\ risks' = IF s = RedTeam THEN RisksFound ELSE risks
    /\ councilReceipts' = IF s = Commit
                   THEN Append(councilReceipts, {t \in 1..9 : stages[t] = "COMPLETED"})
                   ELSE councilReceipts
    /\ current' = s
    /\ UNCHANGED dna

StartRun ==
    /\ ~running /\ calls < MaxRuns
    /\ running' = TRUE /\ calls' = calls + 1
    /\ UNCHANGED <<dna, stages, risks, current, byStage, councilReceipts>>

\* A loop that goes on to the next stage whatever the status.
RunOnward(s) ==
    /\ ExecuteStage(s)
    /\ running' = (s < Commit)
    /\ UNCHANGED <<calls, byStage>>

\* One turn of run: a blocked stage ends it, a failed one does not.
RunTurn(s) ==
    /\ ExecuteStage(s)
    /\ running' = (s < Commit /\ Handler(s) # "BLOCKED")
    /\ UNCHANGED <<calls, byStage>>

\* The first turn of a call repeats the current stage, the others go on.
Turn == running /\ \/ stages[current] = "PENDING" /\ RunTurn(current)
                   \/ stages[current] # "PENDING" /\ current < Commit /\ RunTurn(current + 1)

\* run called again: it starts with the stage it ended at, completed or not.
Rerun ==
    /\ ~running /\ calls < MaxRuns /\ stages[current] # "PENDING"
    /\ calls' = calls + 1 /\ ExecuteStage(current)
    /\ running' = (current < Commit /\ Handler(current) # "BLOCKED")
    /\ UNCHANGED byStage

RunStage(s) ==
    /\ ~running /\ calls < MaxRuns /\ calls' = calls + 1
    /\ ExecuteStage(s) /\ byStage' = byStage \cup {s}
    /\ UNCHANGED running

CouncilNext ==
    \/ \E c, p \in BOOLEAN, k \in Kinds, r \in 1..5 : NewDNA(c, k, p, r)
    \/ (stages[current] = "PENDING" /\ StartRun) \/ Turn \/ Rerun
    \/ \E s \in 1..10 : RunStage(s)
CouncilSpec == CouncilInit /\ [][CouncilNext]_councilVars

------------------------------------------------------------------------------
\* A production mission that only run executes never reaches the execution
\* plan, however often run is called; and a verification that completed, and
\* was not followed by a single stage of its own, saw every stage before it
\* completed.
PipelineGates ==
    byStage = {} =>
      /\ dna.production => \A s \in 5..10 : stages[s] = "PENDING"
      /\ stages[Verification] = "COMPLETED" => \A s \in 1..8 : stages[s] = "COMPLETED"
      /\ \A i \in DOMAIN councilReceipts : dna.complete => 1..9 \subseteq councilReceipts[i]

\* A high-risk mission is heard by the red team and the judge, a critical one
\* by every seat; the token budget never drops them or the chairman, and what it
\* drops costs no less than the seats it keeps beside them; and no seat rules on
\* its own veto.
SeatsHeard ==
    /\ LET seats == RouteSeats(dna)
           heard == OptimizeRouting(seats)
       IN  /\ dna.risk >= 4 => {"RED", "JUDGE"} \subseteq heard
           /\ dna.risk = 5 => seats = Seats
           /\ "CHAIRMAN" \in seats => "CHAIRMAN" \in heard
           /\ \A s \in seats \ heard, t \in heard \ {"CHAIRMAN", "RED", "JUDGE"} :
                 SeatBudget(s) >= SeatBudget(t)
    /\ \A s \in Seats : HandleVeto(s) # s

\* The council's gates and seats.
CouncilSound == PipelineGates /\ SeatsHeard
=============================================================================
