------------------------------ MODULE RepairLoop -----------------------------
(***************************************************************************)
(* The automated repair loop (repair_loop.py).  repair runs up to          *)
(* MAX_ATTEMPTS attempts for one failure; calls for different failures     *)
(* share the loop object, and with it the slot _active_apply_patch_fn that *)
(* every attempt reads.  An attempt itself is one step.  A hypothesis is   *)
(* its variant number: the base text depends on the failure alone.         *)
(***************************************************************************)
EXTENDS Integers, FiniteSets, FiniteSetsExt, Sequences, SequencesExt

CONSTANTS Failures, MaxRepairCalls   \* bound on attempts made by hand

MAX_ATTEMPTS == 3
NoFn == "none"

VARIABLES
    failure,    \* _failures: [known, files, retry] by failure
    contracts,  \* _contracts: the contracts of each failure in order
    active,     \* _active_apply_patch_fn: NoFn or the failure whose call set it
    repairing,       \* repair's loop for each failure: [left, given, result]
    alone,      \* history: the repair calls no other call has overlapped
    byHand      \* number of attempt_repair calls from outside repair

repairVars == <<failure, contracts, active, repairing, alone, byHand>>

RepairInit ==
    /\ failure = [f \in Failures |-> [known |-> FALSE, files |-> {}, retry |-> 0]]
    /\ contracts = [f \in Failures |-> <<>>]
    /\ active = NoFn /\ alone = {} /\ byHand = 0
    /\ repairing = [f \in Failures |-> [left |-> 0, given |-> FALSE, result |-> "none"]]

RepairRunning == {f \in Failures : repairing[f].result = "running"}

\* detect_failure with its classification.
DetectFailure(f, files) ==
    /\ ~failure[f].known
    /\ failure' = [failure EXCEPT ![f] = [known |-> TRUE, files |-> files, retry |-> 0]]

\* The files named in the traceback.
AnalyzeRootCause(f) == failure[f].files

HypothesisAgain(f, used) == 0

\* The first variant that no contract of the failure has used.
Hypothesis(f, used) == Min((0..Cardinality(used)) \ used)

\* PatchGenerator.generate: attempt_number counts the contracts so far.
Generate(f) ==
    [hypothesis |-> Hypothesis(f, {contracts[f][i].hypothesis : i \in DOMAIN contracts[f]}),
     attempt |-> Len(contracts[f]) + 1, files |-> AnalyzeRootCause(f)]

\* The patch, the test plan and the rollback plan are never empty.
Review(contract) == contract.files # {} /\ contract.attempt <= MAX_ATTEMPTS

\* What applying comes to: the caller's function may fail, raise or leave tests
\* failing; without one the patch is taken as applied and tested.
Applied(fn) == IF fn = NoFn THEN {"resolved"} ELSE {"resolved", "tests_fail", "failed"}

\* attempt_repair: the result and the state it leaves.
AttemptRepair(f, outcome) ==
    LET contract == Generate(f)
        status == IF Review(contract) THEN outcome ELSE "reviewing"
    IN  /\ failure[f].retry < MAX_ATTEMPTS
        /\ Review(contract) => outcome \in Applied(active)
        /\ contracts' = [contracts EXCEPT ![f] = Append(@,
                           [hypothesis |-> contract.hypothesis, attempt |-> contract.attempt,
                            files |-> contract.files, status |-> status, by |-> active])]
        /\ failure' = [failure EXCEPT ![f].retry =
                         IF status = "resolved" THEN 0 ELSE @ + 1]

Outcomes == {"resolved", "tests_fail", "failed"}

StartRepair(f, files, given) ==
    /\ DetectFailure(f, files)
    /\ active' = IF given THEN f ELSE NoFn
    /\ repairing' = [repairing EXCEPT ![f] = [left |-> MAX_ATTEMPTS, given |-> given, result |-> "running"]]
    /\ alone' = IF RepairRunning = {} THEN {f} ELSE {}
    /\ UNCHANGED <<contracts, byHand>>

\* One turn of the loop; leaving it clears the slot, whoever set it.
RepairTurn(f, outcome) ==
    LET status == contracts'[f][Len(contracts'[f])].status
        result == IF status = "resolved" THEN "resolved"
                  ELSE IF repairing[f].left = 1 THEN "escalated" ELSE "running"
    IN  /\ repairing[f].result = "running" /\ AttemptRepair(f, outcome)
        /\ repairing' = [repairing EXCEPT ![f].left = @ - 1, ![f].result = result]
        /\ active' = IF result = "running" THEN active ELSE NoFn
        /\ alone' = IF RepairRunning = {f} THEN alone ELSE {}
        /\ UNCHANGED byHand

\* An attempt refused at the limit ends the loop with an escalation.
RepairRefused(f) ==
    /\ repairing[f].result = "running" /\ failure[f].retry >= MAX_ATTEMPTS
    /\ repairing' = [repairing EXCEPT ![f].result = "escalated"]
    /\ active' = NoFn
    /\ UNCHANGED <<failure, contracts, alone, byHand>>

AttemptByHand(f, outcome) ==
    /\ byHand < MaxRepairCalls /\ byHand' = byHand + 1
    /\ failure[f].known /\ AttemptRepair(f, outcome)
    /\ alone' = alone \ {f}
    /\ UNCHANGED <<active, repairing>>

RepairNext ==
    \E f \in Failures :
        \/ \E files \in SUBSET {"file"}, given \in BOOLEAN : StartRepair(f, files, given)
        \/ \E o \in Outcomes : RepairTurn(f, o) \/ AttemptByHand(f, o)
        \/ RepairRefused(f)

RepairSpec == RepairInit /\ [][RepairNext]_repairVars

------------------------------------------------------------------------------
Contracts == [hypothesis : Nat, attempt : Nat, files : SUBSET {"file"},
              status : Outcomes \cup {"reviewing"}, by : Failures \cup {NoFn}]

\* The state keeps its shape.
RepairTypeOK ==
    /\ failure \in [Failures -> [known : BOOLEAN, files : SUBSET {"file"}, retry : 0..MAX_ATTEMPTS]]
    /\ contracts \in [Failures -> Seq(Contracts)] /\ active \in Failures \cup {NoFn}
    /\ repairing \in [Failures -> [left : Int, given : BOOLEAN,
                                   result : {"none", "running", "resolved", "escalated"}]]
    /\ alone \subseteq Failures /\ byHand \in Nat

\* Every attempt on a failure tries a hypothesis of its own; a patch is applied
\* only by one of the first three contracts of its failure and never without a
\* file; and six contracts are the most a failure can have, a success between
\* them included.
AttemptsDiffer ==
    \A f \in Failures :
        /\ IsInjective([i \in DOMAIN contracts[f] |-> contracts[f][i].hypothesis])
        /\ Len(contracts[f]) <= 2 * MAX_ATTEMPTS
        /\ \A i \in DOMAIN contracts[f] :
             contracts[f][i].status \in Outcomes => i <= MAX_ATTEMPTS /\ failure[f].files # {}

\* A repair that no other call overlapped ends as resolved only through its own
\* patch function, if it was given one, and escalates only when nothing was
\* resolved.
ResultIsEarned ==
    \A f \in alone :
        LET last == contracts[f][Len(contracts[f])]
        IN  /\ repairing[f].result = "resolved" =>
                 last.status = "resolved" /\ last.by = (IF repairing[f].given THEN f ELSE NoFn)
            /\ repairing[f].result = "escalated" =>
                 \A i \in DOMAIN contracts[f] : contracts[f][i].status # "resolved"

\* The repair loop keeps its constraints.
RepairSound == AttemptsDiffer /\ ResultIsEarned
=============================================================================
