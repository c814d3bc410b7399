--------------------------- MODULE Control_proofs ---------------------------
(***************************************************************************)
(* What holds of the components that act for the agents, whatever the      *)
(* tasks, failures, files and steps: an agent run and the repair loop keep *)
(* their accounts, the brain's governance fails closed, and the git and    *)
(* deployment adapters stay within theirs.  Each part has an inductive     *)
(* invariant of its own; at the end the suite, in which one component      *)
(* moves and the others stay, is shown to implement each of them.          *)
(*                                                                         *)
(* Agent run.  Only the task at the cursor runs, and a failed one that the *)
(* cursor has passed was counted; the writer slot holds the task that runs *)
(* alone, unless a callback that raised left it taken.                     *)
(* Repair loop.  Each attempt takes the least hypothesis its failure has   *)
(* not used; a loop that no call overlapped still applies the function it  *)
(* was given, and reports what its last attempt brought.                   *)
(* Adapters.  What was done was allowed when it was done; the gate of a    *)
(* production plan is passed before its first step and stays passed.       *)
(* Budgets.  The day's tokens are as many as its keys recorded together.   *)
(* Gateway.  Where a call stands says what it sent and was charged.        *)
(* Capabilities.  What a history saved is, in order, what the store has.   *)
(***************************************************************************)
EXTENDS MCControl, TLAPS, FiniteSetTheorems, NaturalsInduction, WellFoundedInduction

------------------------------------------------------------------------------
(* A run of the agents. *)

\* The tasks an execution has gone past: a failed one was counted, and a completed one
\* follows completed ones.
FailureCounted(t) == agentTask[t].status = "failed" => agentReport.failed > 0

\* A task that ran follows completed ones.
FollowsCompleted(t) ==
    agentTask[t].status \in {"running", "completed"} =>
      \A d \in agentTask[t].deps : d < t => agentTask[d].status = "completed"

\* The writer slot holds at most the task that runs, unless a callback raised.
WriterHeld ==
    ~leftBehind => activeWriter = {} \/ /\ agentCursor \in AgentTasks /\ activeWriter = {agentCursor}
                                        /\ agentTask[agentCursor].status = "running"

\* Only the task at the cursor runs.
OnlyCursorRuns ==
    \A t \in AgentTasks : agentTask[t].status = "running" => t = agentCursor /\ FollowsCompleted(t)

\* An execution has no report yet, and what it went past was counted.
PassedTasks ==
    agentCursor # 0 => /\ agentReport.status = "none"
                       /\ \A t \in AgentTasks : t < agentCursor => FailureCounted(t) /\ FollowsCompleted(t)

\* A report of success goes with no failed task.
ReportHolds ==
    /\ agentReport.status = "completed" => \A t \in AgentTasks : agentTask[t].status # "failed"
    /\ agentReport.status # "none" => \A t \in AgentTasks : FollowsCompleted(t)

\* The inductive invariant of an agent run.
AgentInv == AgentTypeOK /\ WriterHeld /\ OnlyCursorRuns /\ PassedTasks /\ ReportHolds

\* The tasks are numbered from 1, so the cursor has a next one until the
\* last.
LEMMA AgentTasksAre ==
    /\ 0 \notin AgentTasks /\ Cardinality(AgentTasks) + 1 # 0 /\ Cardinality(AgentTasks) + 1 \notin AgentTasks
    /\ \A t \in AgentTasks : /\ t \in Nat /\ t < Cardinality(AgentTasks) + 1 /\ t + 1 # 0
                             /\ t + 1 \in AgentTasks \cup {Cardinality(AgentTasks) + 1}
    /\ \A t, d \in AgentTasks : t < d + 1 => t < d \/ t = d
    /\ 1 \in AgentTasks \cup {Cardinality(AgentTasks) + 1} /\ \A t \in AgentTasks : ~(t < 1)
<1>1. PICK n \in Nat : AgentTasks = 1..n
  BY AgentTasksAssumption, FS_CardinalityType
<1>2. Cardinality(1..n) = n
  BY FS_Interval
<1> QED  BY <1>1, <1>2

\* A task of the cursor gets another status; the cursor stays or moves on.
LEMMA CursorTaskMoves ==
    ASSUME AgentInv, NEW t \in AgentTasks, agentCursor = t,
           NEW s \in AgentStatus, agentTask' = [agentTask EXCEPT ![t].status = s]
    PROVE  /\ agentTask' \in [AgentTasks -> AgentTaskType]
           /\ agentTask'[t].status = s
           /\ \A d \in AgentTasks \ {t} : agentTask'[d] = agentTask[d]
           /\ \A d \in AgentTasks : /\ agentTask'[d].deps = agentTask[d].deps
                                    /\ agentTask'[d].deps \subseteq AgentTasks
           /\ \A d \in AgentTasks : d < t => FollowsCompleted(d)'
           /\ agentReport.status = "none" /\ agentReport \in ReportType
           /\ \A d \in AgentTasks \ {t} : agentTask[d].status # "running"
<1>1. agentTask \in [AgentTasks -> AgentTaskType] /\ agentReport \in ReportType
  BY DEF AgentInv, AgentTypeOK
<1>2. /\ agentTask' \in [AgentTasks -> AgentTaskType]
      /\ agentTask'[t].status = s
      /\ \A d \in AgentTasks \ {t} : agentTask'[d] = agentTask[d]
      /\ \A d \in AgentTasks : agentTask'[d].deps = agentTask[d].deps
  BY <1>1 DEF AgentTaskType
<1>3. \A d \in AgentTasks : agentTask[d].deps \subseteq AgentTasks
  BY <1>1 DEF AgentTaskType
<1>4. \A d \in AgentTasks : d \in Nat
  BY AgentTasksAre
<1>5. /\ agentReport.status = "none" /\ \A d \in AgentTasks : d < t => FollowsCompleted(d)
      /\ \A d \in AgentTasks \ {t} : agentTask[d].status # "running"
  BY AgentTasksAre DEF AgentInv, PassedTasks, OnlyCursorRuns
<1>6. \A d \in AgentTasks : d < t => FollowsCompleted(d)'
  BY <1>2, <1>3, <1>4, <1>5 DEF FollowsCompleted
<1> QED  BY <1>1, <1>2, <1>3, <1>5, <1>6

\* A task whose dependencies did not complete, or that finds the writer slot
\* taken, is passed over.
LEMMA SkipKeeps ==
    ASSUME AgentInv, NEW t \in AgentTasks, AgentSkip(t)
    PROVE  AgentInv'
<1>1. /\ agentCursor = t /\ agentTask[t].status # "running" /\ agentCursor' = t + 1
      /\ agentTask' = [agentTask EXCEPT ![t].status = "blocked"] /\ "blocked" \in AgentStatus
      /\ UNCHANGED <<activeWriter, agentReport, leftBehind, agentRuns>>
  BY DEF AgentSkip, AgentStatus
<1>2. /\ agentTask' \in [AgentTasks -> AgentTaskType]
      /\ agentTask'[t].status = "blocked"
      /\ \A d \in AgentTasks \ {t} : agentTask'[d] = agentTask[d]
      /\ \A d \in AgentTasks : d < t => FollowsCompleted(d)'
      /\ agentReport.status = "none" /\ agentReport \in ReportType
      /\ \A d \in AgentTasks \ {t} : agentTask[d].status # "running"
  BY <1>1, CursorTaskMoves
<1>3. AgentTypeOK'
  BY <1>1, <1>2, AgentTasksAre DEF AgentInv, AgentTypeOK
<1>4. WriterHeld'
  BY <1>1 DEF WriterHeld, AgentInv
<1>5. OnlyCursorRuns'
  BY <1>2 DEF OnlyCursorRuns
<1>6. PassedTasks'
  BY <1>1, <1>2, AgentTasksAre DEF PassedTasks, AgentInv, FailureCounted, FollowsCompleted
<1>7. ReportHolds'
  BY <1>1, <1>2 DEF ReportHolds
<1> QED  BY <1>3, <1>4, <1>5, <1>6, <1>7 DEF AgentInv

\* A task runs when its dependencies completed, and as the only writer.
LEMMA RunTaskKeeps ==
    ASSUME AgentInv, NEW t \in AgentTasks, AgentRunTask(t)
    PROVE  AgentInv'
<1>1. /\ agentCursor = t /\ agentTask[t].status # "running" /\ agentCursor' = t
      /\ ~AgentBlocked(t) /\ (agentTask[t].writer => activeWriter = {})
      /\ agentTask' = [agentTask EXCEPT ![t].status = "running"] /\ "running" \in AgentStatus
      /\ activeWriter' = AcquireWriter(t)
      /\ UNCHANGED <<agentReport, leftBehind, agentRuns>>
  BY DEF AgentRunTask, AgentStatus
<1>2. /\ agentTask' \in [AgentTasks -> AgentTaskType]
      /\ agentTask'[t].status = "running"
      /\ \A d \in AgentTasks \ {t} : agentTask'[d] = agentTask[d]
      /\ \A d \in AgentTasks : /\ agentTask'[d].deps = agentTask[d].deps
                               /\ agentTask'[d].deps \subseteq AgentTasks
      /\ \A d \in AgentTasks : d < t => FollowsCompleted(d)'
      /\ agentReport.status = "none" /\ agentReport \in ReportType
      /\ \A d \in AgentTasks \ {t} : agentTask[d].status # "running"
  BY <1>1, CursorTaskMoves
<1>3. AgentTypeOK'
  BY <1>1, <1>2 DEF AgentInv, AgentTypeOK, AcquireWriter
<1>4. WriterHeld'
  BY <1>1, <1>2 DEF WriterHeld, AgentInv, AcquireWriter
<1>5. FollowsCompleted(t)'
  BY <1>1, <1>2, AgentTasksAre DEF FollowsCompleted, AgentBlocked
<1>6. OnlyCursorRuns'
  BY <1>1, <1>2, <1>5 DEF OnlyCursorRuns
<1>7. PassedTasks'
  BY <1>1, <1>2, AgentTasksAre DEF PassedTasks, AgentInv, FailureCounted
<1>8. ReportHolds'
  BY <1>1, <1>2 DEF ReportHolds
<1> QED  BY <1>3, <1>4, <1>6, <1>7, <1>8 DEF AgentInv

\* A task ends, counted as counts says.
LEMMA EndsCounted ==
    ASSUME AgentInv, NEW t \in AgentTasks, NEW s \in {"completed", "failed", "timed_out"}, NEW counts,
           AgentEnds(t, s, counts), s = "failed" => "failed" \in counts
    PROVE  /\ agentCursor = t /\ agentTask[t].status = "running" /\ agentRuns' = agentRuns
           /\ agentTask' \in [AgentTasks -> AgentTaskType] /\ agentTask'[t].status = s
           /\ \A d \in AgentTasks \ {t} : agentTask'[d] = agentTask[d] /\ agentTask[d].status # "running"
           /\ \A d \in AgentTasks : d < t => FollowsCompleted(d)'
           /\ agentReport' \in ReportType /\ agentReport'.status = "none"
           /\ FollowsCompleted(t)' /\ \A d \in AgentTasks : d < t + 1 => FailureCounted(d)'
<1>1. /\ agentCursor = t /\ agentTask[t].status = "running" /\ s \in AgentStatus
      /\ agentTask' = [agentTask EXCEPT ![t].status = s] /\ agentRuns' = agentRuns
  BY DEF AgentEnds, AgentStatus
<1>2. /\ agentTask' \in [AgentTasks -> AgentTaskType]
      /\ agentTask'[t].status = s
      /\ \A d \in AgentTasks \ {t} : agentTask'[d] = agentTask[d]
      /\ \A d \in AgentTasks : /\ agentTask'[d].deps = agentTask[d].deps
                               /\ agentTask'[d].deps \subseteq AgentTasks
      /\ \A d \in AgentTasks : d < t => FollowsCompleted(d)'
      /\ agentReport.status = "none" /\ agentReport \in ReportType
      /\ \A d \in AgentTasks \ {t} : agentTask[d].status # "running"
  BY <1>1, CursorTaskMoves
<1>3. PICK x, y, z \in {0, 1} :
        /\ agentReport' = [agentReport EXCEPT !.completed = @ + x, !.failed = @ + y, !.timedOut = @ + z]
        /\ s = "failed" => y = 1
  BY DEF AgentEnds
<1>4. /\ agentReport' \in ReportType /\ agentReport'.status = "none"
      /\ agentReport'.failed = agentReport.failed + y /\ agentReport.failed \in Nat
  <2>1. /\ agentReport.completed \in Nat /\ agentReport.failed \in Nat /\ agentReport.timedOut \in Nat
        /\ agentReport = [completed |-> agentReport.completed, failed |-> agentReport.failed,
                          timedOut |-> agentReport.timedOut, status |-> agentReport.status]
    BY <1>2 DEF ReportType
  <2>2. agentReport.completed + x \in Nat /\ agentReport.failed + y \in Nat /\ agentReport.timedOut + z \in Nat
    BY <2>1
  <2>3. agentReport' = [completed |-> agentReport.completed + x, failed |-> agentReport.failed + y,
                        timedOut |-> agentReport.timedOut + z, status |-> agentReport.status]
    BY <1>3, <2>1
  <2> QED  BY <1>2, <2>1, <2>2, <2>3 DEF ReportType
<1>5. FollowsCompleted(t)'
  BY <1>1, <1>2, AgentTasksAre DEF FollowsCompleted, AgentInv, OnlyCursorRuns
<1>6. \A d \in AgentTasks : d < t + 1 => FailureCounted(d)'
  <2>1. \A d \in AgentTasks : d < t => FailureCounted(d)
    BY <1>1, AgentTasksAre DEF AgentInv, PassedTasks
  <2> QED  BY <1>2, <1>3, <1>4, <2>1, AgentTasksAre DEF FailureCounted
<1> QED  BY <1>1, <1>2, <1>4, <1>5, <1>6

\* A task that ends is counted and frees the writer slot.
LEMMA FinishKeeps ==
    ASSUME AgentInv, NEW t \in AgentTasks, AgentFinish(t)
    PROVE  AgentInv'
<1>1. PICK s \in {"completed", "failed", "timed_out"}, counts \in SUBSET {"completed", "failed", "timed_out"} :
        AgentEnds(t, s, counts) /\ (s = "failed" => "failed" \in counts)
  BY DEF AgentFinish
<1>2. activeWriter' = activeWriter \ {t} /\ agentCursor' = t + 1 /\ leftBehind' = leftBehind
  BY DEF AgentFinish, ReleaseWriter
<1>3. /\ agentCursor = t /\ agentTask[t].status = "running" /\ agentRuns' = agentRuns
      /\ agentTask' \in [AgentTasks -> AgentTaskType] /\ agentTask'[t].status = s
      /\ \A d \in AgentTasks \ {t} : agentTask'[d] = agentTask[d] /\ agentTask[d].status # "running"
      /\ \A d \in AgentTasks : d < t => FollowsCompleted(d)'
      /\ agentReport' \in ReportType /\ agentReport'.status = "none"
      /\ FollowsCompleted(t)' /\ \A d \in AgentTasks : d < t + 1 => FailureCounted(d)'
  BY <1>1, EndsCounted
<1>4. AgentTypeOK'
  BY <1>2, <1>3, AgentTasksAre DEF AgentInv, AgentTypeOK
<1>5. WriterHeld'
  BY <1>2, <1>3 DEF WriterHeld, AgentInv
<1>6. OnlyCursorRuns'
  BY <1>3 DEF OnlyCursorRuns
<1>7. PassedTasks'
  BY <1>2, <1>3, AgentTasksAre DEF PassedTasks
<1>8. ReportHolds'
  BY <1>3 DEF ReportHolds
<1> QED  BY <1>4, <1>5, <1>6, <1>7, <1>8 DEF AgentInv

\* A callback that raises ends the execution and leaves the writer slot
\* taken.
LEMMA AbortKeeps ==
    ASSUME AgentInv, NEW t \in AgentTasks, AgentAbort(t)
    PROVE  AgentInv'
<1>1. PICK s \in {"completed", "failed", "timed_out"}, counts \in SUBSET {"completed", "failed", "timed_out"} :
        AgentEnds(t, s, counts) /\ (s = "failed" => "failed" \in counts)
  BY DEF AgentAbort
<1>2. agentCursor' = 0 /\ leftBehind' = TRUE /\ activeWriter' = activeWriter
  BY DEF AgentAbort
<1>3. /\ agentCursor = t /\ agentRuns' = agentRuns
      /\ agentTask' \in [AgentTasks -> AgentTaskType] /\ agentTask'[t].status = s
      /\ \A d \in AgentTasks \ {t} : agentTask'[d] = agentTask[d] /\ agentTask[d].status # "running"
      /\ agentReport' \in ReportType /\ agentReport'.status = "none"
  BY <1>1, EndsCounted
<1>4. AgentTypeOK'
  BY <1>2, <1>3 DEF AgentInv, AgentTypeOK
<1>5. WriterHeld' /\ PassedTasks' /\ ReportHolds'
  BY <1>2, <1>3 DEF WriterHeld, PassedTasks, ReportHolds
<1>6. OnlyCursorRuns'
  BY <1>3 DEF OnlyCursorRuns
<1> QED  BY <1>4, <1>5, <1>6 DEF AgentInv

\* Every step of an agent run keeps the invariant.
LEMMA AgentStepKeeps == AgentInv /\ [AgentNext]_agentVars => AgentInv'
<1> SUFFICES ASSUME AgentInv, [AgentNext]_agentVars
             PROVE  AgentInv'
  OBVIOUS
<1>1. CASE AgentPlan
  <2>1. PICK deps \in [AgentTasks -> SUBSET AgentTasks], w \in [AgentTasks -> BOOLEAN] :
          agentTask' = [t \in AgentTasks |-> [NewAgentTask EXCEPT !.deps = deps[t], !.writer = w[t]]]
    BY <1>1 DEF AgentPlan
  <2>2. /\ agentCursor = 0 /\ agentRuns' = 1 /\ agentCursor' = 1 /\ agentReport' = NoReport
        /\ UNCHANGED <<activeWriter, leftBehind>>
    BY <1>1 DEF AgentPlan
  <2>3. \A t \in AgentTasks : agentTask'[t] \in AgentTaskType /\ agentTask'[t].status = "pending"
    BY <2>1 DEF NewAgentTask, AgentTaskType, AgentStatus
  <2>4. agentTask' \in [AgentTasks -> AgentTaskType]
    BY <2>1, <2>3
  <2>5. agentReport' \in ReportType /\ agentReport'.status = "none"
    BY <2>2 DEF NoReport, ReportType
  <2>6. AgentTypeOK'
    BY <2>2, <2>4, <2>5, AgentTasksAre DEF AgentInv, AgentTypeOK
  <2>7. WriterHeld'
    BY <2>2, AgentTasksAre DEF WriterHeld, AgentInv
  <2> QED  BY <2>2, <2>3, <2>5, <2>6, <2>7, AgentTasksAre DEF AgentInv, OnlyCursorRuns, PassedTasks, ReportHolds
<1>2. CASE AgentExecute
  <2>1. /\ agentCursor = 0 /\ agentRuns' = agentRuns + 1 /\ agentCursor' = 1 /\ agentReport' = NoReport
        /\ UNCHANGED <<agentTask, activeWriter, leftBehind>>
    BY <1>2 DEF AgentExecute
  <2>2. agentReport' \in ReportType /\ agentReport'.status = "none"
    BY <2>1 DEF NoReport, ReportType
  <2>3. AgentTypeOK'
    BY <2>1, <2>2, AgentTasksAre DEF AgentInv, AgentTypeOK
  <2>4. \A t \in AgentTasks : agentTask[t].status # "running"
    BY <2>1, AgentTasksAre DEF AgentInv, OnlyCursorRuns
  <2>5. WriterHeld'
    BY <2>1, AgentTasksAre DEF WriterHeld, AgentInv
  <2> QED  BY <2>1, <2>2, <2>3, <2>4, <2>5, AgentTasksAre DEF AgentInv, OnlyCursorRuns, PassedTasks, ReportHolds
<1>3. CASE AgentResult
  <2>1. /\ agentCursor = Cardinality(AgentTasks) + 1 /\ agentCursor' = 0
        /\ UNCHANGED <<agentTask, activeWriter, leftBehind, agentRuns>>
    BY <1>3 DEF AgentResult
  <2>2. agentReport' = [agentReport EXCEPT !.status = IF agentReport.failed = 0 THEN "completed"
                                                      ELSE "partial_failure"]
    BY <1>3 DEF AgentResult
  <2>3. /\ agentReport' \in ReportType /\ agentReport'.status # "none"
        /\ agentReport'.status = "completed" => ~(agentReport.failed > 0)
    BY <2>2 DEF ReportType, AgentInv, AgentTypeOK
  <2>4. AgentTypeOK'
    BY <2>1, <2>3 DEF AgentInv, AgentTypeOK
  <2>5. \A t \in AgentTasks : t < agentCursor /\ FailureCounted(t) /\ FollowsCompleted(t) /\ agentTask[t].status # "running"
    BY <2>1, AgentTasksAre DEF AgentInv, PassedTasks, OnlyCursorRuns
  <2>6. WriterHeld' /\ OnlyCursorRuns' /\ PassedTasks'
    BY <2>1, <2>5, AgentTasksAre DEF AgentInv, WriterHeld, OnlyCursorRuns, PassedTasks
  <2>7. ReportHolds'
    BY <2>1, <2>3, <2>5 DEF ReportHolds, FailureCounted, FollowsCompleted
  <2> QED  BY <2>4, <2>6, <2>7 DEF AgentInv
<1>4. ASSUME NEW t \in AgentTasks, AgentStep(t)
      PROVE  AgentInv'
  BY <1>4, SkipKeeps, RunTaskKeeps, FinishKeeps, AbortKeeps DEF AgentStep
<1>5. CASE UNCHANGED agentVars
  BY <1>5 DEF agentVars, AgentInv, AgentTypeOK, WriterHeld, OnlyCursorRuns, PassedTasks, ReportHolds,
     FailureCounted, FollowsCompleted
<1> QED  BY <1>1, <1>2, <1>3, <1>4, <1>5 DEF AgentNext

\* Before any execution the invariant holds.
LEMMA AgentStarts == AgentInit => AgentInv
<1> SUFFICES ASSUME AgentInit PROVE AgentInv
  OBVIOUS
<1>1. \A t \in AgentTasks : agentTask[t] \in AgentTaskType /\ agentTask[t].status = "pending"
  BY DEF AgentInit, NewAgentTask, AgentTaskType, AgentStatus
<1>2. agentReport \in ReportType /\ agentReport.status = "none"
  BY DEF AgentInit, NoReport, ReportType
<1>3. AgentTypeOK
  BY <1>1, <1>2 DEF AgentInit, AgentTypeOK
<1> QED  BY <1>1, <1>2, <1>3 DEF AgentInit, AgentInv, WriterHeld, OnlyCursorRuns, PassedTasks, ReportHolds

\* The invariant implies what is promised of an agent run.
LEMMA AgentEnough == AgentInv => AgentRunSound
  BY DEF AgentInv, AgentRunSound, WriterHeld, ReportHolds, FollowsCompleted

\* A task runs after its dependencies, one writer at a time, and a report of
\* success hides no failure (agent_orchestrator.py).
THEOREM AgentRunTheorem == AgentSpec => []AgentRunSound
  BY AgentStarts, AgentStepKeeps, AgentEnough, PTL DEF AgentSpec

------------------------------------------------------------------------------
(* The repair loop. *)

\* The contracts of a failure so far: their hypotheses differ, an applied one was
\* among the first and named a file, and the retries bound their number.
ContractsGood(f) ==
    /\ \A i, j \in DOMAIN contracts[f] : contracts[f][i].hypothesis = contracts[f][j].hypothesis => i = j
    /\ \A i \in DOMAIN contracts[f] :
         contracts[f][i].status \in Outcomes => i <= MAX_ATTEMPTS /\ failure[f].files # {}
    /\ Len(contracts[f]) <= MAX_ATTEMPTS + failure[f].retry
    /\ ~failure[f].known => contracts[f] = <<>> /\ repairing[f].result = "none"

\* No attempt resolved the failure.
NothingResolved(f) == \A i \in DOMAIN contracts[f] : contracts[f][i].status # "resolved"

\* The function a call was given to repair with, if any.
OwnFn(f) == IF repairing[f].given THEN f ELSE NoFn

\* A call that no other has overlapped is the only one that may run, and what it
\* applies is what it was given.
AloneGood(f) ==
    /\ RepairRunning \subseteq {f}
    /\ repairing[f].result = "running" => active = OwnFn(f) /\ NothingResolved(f)
    /\ repairing[f].result = "escalated" => NothingResolved(f)
    /\ repairing[f].result = "resolved" =>
         LET last == contracts[f][Len(contracts[f])]
         IN  last.status = "resolved" /\ last.by = OwnFn(f)

\* The inductive invariant of the repair loop.
RepairInv == /\ RepairTypeOK /\ \A f \in Failures : ContractsGood(f)
             /\ \A f \in alone : AloneGood(f)

\* A set of numbers that is not empty has a least one.
LEMMA LeastIsOne ==
    ASSUME NEW S \in SUBSET Nat, S # {}
    PROVE  Min(S) \in S
<1>1. PICK k \in S : \A j \in S : ~(<<j, k>> \in OpToRel(<, Nat))
  BY NatLessThanWellFounded, WFMin
<1>2. \A j \in S : ~(j < k)
  BY <1>1, Zenon DEF OpToRel
<1>3. \A j \in S : k <= j
  BY <1>2
<1> QED  BY <1>3 DEF Min

\* There is always a variant that was not used yet.
LEMMA HypothesisIsNew ==
    ASSUME NEW f, NEW used \in SUBSET Nat, IsFiniteSet(used)
    PROVE  Hypothesis(f, used) \in Nat /\ Hypothesis(f, used) \notin used
<1>1. PICK n \in Nat : n = Cardinality(used)
  BY FS_CardinalityType
<1>2. IsFiniteSet(0..n) /\ Cardinality(0..n) = n + 1
  BY FS_Interval
<1>3. ~(0..n \subseteq used)
  BY <1>1, <1>2, FS_Subset
<1>4. (0..n) \ used \in SUBSET Nat /\ (0..n) \ used # {}
  BY <1>3
<1>5. Min((0..n) \ used) \in (0..n) \ used
  BY <1>4, LeastIsOne
<1>6. Hypothesis(f, used) = Min((0..n) \ used)
  BY <1>1 DEF Hypothesis
<1> QED  BY <1>5, <1>6

\* The hypotheses used so far are finitely many numbers.
LEMMA HypothesesUsed ==
    ASSUME RepairTypeOK, NEW f \in Failures
    PROVE  LET used == {contracts[f][i].hypothesis : i \in DOMAIN contracts[f]}
           IN  used \in SUBSET Nat /\ IsFiniteSet(used)
<1> DEFINE used == {contracts[f][i].hypothesis : i \in DOMAIN contracts[f]}
           F == [i \in DOMAIN contracts[f] |-> contracts[f][i].hypothesis]
<1>1. contracts[f] \in Seq(Contracts) /\ DOMAIN contracts[f] = 1..Len(contracts[f]) /\ Len(contracts[f]) \in Nat
  BY DEF RepairTypeOK
<1>2. \A i \in DOMAIN contracts[f] : contracts[f][i] \in Contracts
  BY <1>1
<1>3. used \in SUBSET Nat
  BY <1>2 DEF Contracts
<1>4. IsFiniteSet(DOMAIN contracts[f])
  BY <1>1, FS_Interval
<1>5. F \in Surjection(DOMAIN contracts[f], used)
  BY DEF Surjection
<1>6. IsFiniteSet(used)
  BY <1>4, <1>5, FS_Surjection
<1> QED  BY <1>3, <1>6

\* A contract is added to those of a failure.
ContractAdded(f, k) ==
    /\ contracts' = [contracts EXCEPT ![f] = Append(@, k)] /\ k.by = active
    /\ failure' \in [Failures -> [known : BOOLEAN, files : SUBSET {"file"}, retry : 0..MAX_ATTEMPTS]]
    /\ \A g \in Failures : /\ failure'[g].known = failure[g].known /\ failure'[g].files = failure[g].files
                           /\ g # f => failure'[g] = failure[g]
    /\ k.status \in Outcomes => Len(contracts[f]) + 1 <= MAX_ATTEMPTS /\ failure[f].files # {}
    /\ failure'[f].retry = IF k.status = "resolved" THEN 0 ELSE failure[f].retry + 1
    /\ failure[f].retry < MAX_ATTEMPTS
    /\ \A i \in DOMAIN contracts[f] : contracts[f][i].hypothesis # k.hypothesis

\* An attempt adds one contract with a hypothesis of its own.
LEMMA AttemptAdds ==
    ASSUME RepairInv, NEW f \in Failures, NEW o \in Outcomes, AttemptRepair(f, o), failure[f].known
    PROVE  \E k \in Contracts :
             ContractAdded(f, k)
<1>1. /\ failure \in [Failures -> [known : BOOLEAN, files : SUBSET {"file"}, retry : 0..MAX_ATTEMPTS]]
      /\ contracts[f] \in Seq(Contracts) /\ Len(contracts[f]) \in Nat /\ active \in Failures \cup {NoFn}
      /\ RepairTypeOK
  BY DEF RepairInv, RepairTypeOK
<1>2. PICK used : used = {contracts[f][i].hypothesis : i \in DOMAIN contracts[f]}
  OBVIOUS
<1>3. Hypothesis(f, used) \in Nat /\ Hypothesis(f, used) \notin used
  BY <1>1, <1>2, HypothesesUsed, HypothesisIsNew
<1>4. PICK h \in Nat : h = Hypothesis(f, used)
  BY <1>3
<1>5. PICK n \in Nat : n = Len(contracts[f]) + 1
  BY <1>1
<1>6. PICK contract : contract = [hypothesis |-> h, attempt |-> n, files |-> failure[f].files]
  OBVIOUS
<1>7. Generate(f) = contract
  BY <1>2, <1>4, <1>5, <1>6 DEF Generate, AnalyzeRootCause
<1>8. PICK st \in Outcomes \cup {"reviewing"} : st = IF Review(contract) THEN o ELSE "reviewing"
  OBVIOUS
<1>9. PICK k : k = [hypothesis |-> h, attempt |-> n, files |-> failure[f].files, status |-> st, by |-> active]
  OBVIOUS
<1>10. k \in Contracts /\ k.by = active /\ k.status = st /\ k.hypothesis = h
  BY <1>1, <1>8, <1>9 DEF Contracts
<1>11. /\ failure[f].retry < MAX_ATTEMPTS
       /\ contracts' = [contracts EXCEPT ![f] = Append(@, k)]
       /\ failure' = [failure EXCEPT ![f].retry = IF st = "resolved" THEN 0 ELSE @ + 1]
  BY <1>6, <1>7, <1>8, <1>9 DEF AttemptRepair
<1>12. st \in Outcomes => n <= MAX_ATTEMPTS /\ failure[f].files # {}
  BY <1>6, <1>8 DEF Review, Outcomes
<1>13. /\ failure' \in [Failures -> [known : BOOLEAN, files : SUBSET {"file"}, retry : 0..MAX_ATTEMPTS]]
       /\ \A g \in Failures : /\ failure'[g].known = failure[g].known /\ failure'[g].files = failure[g].files
                              /\ g # f => failure'[g] = failure[g]
       /\ failure'[f].retry = IF st = "resolved" THEN 0 ELSE failure[f].retry + 1
  <2>1. PICK r : r = IF st = "resolved" THEN 0 ELSE failure[f].retry + 1
    OBVIOUS
  <2>2. r \in 0..MAX_ATTEMPTS
    BY <1>1, <1>11, <2>1 DEF MAX_ATTEMPTS
  <2>3. failure' = [failure EXCEPT ![f].retry = r]
    BY <1>11, <2>1
  <2> QED  BY <1>1, <2>1, <2>2, <2>3
<1>14. \A i \in DOMAIN contracts[f] : contracts[f][i].hypothesis # k.hypothesis
  BY <1>2, <1>3, <1>4, <1>10
<1> QED  BY <1>5, <1>10, <1>11, <1>12, <1>13, <1>14 DEF ContractAdded

\* With the contract added the histories are still good.
LEMMA AddedIsGood ==
    ASSUME RepairInv, NEW f \in Failures, NEW k \in Contracts,
           ContractAdded(f, k), failure[f].known,
           \A g \in Failures : repairing'[g].result = repairing[g].result \/ g = f
    PROVE  /\ contracts' \in [Failures -> Seq(Contracts)]
           /\ \A g \in Failures : ContractsGood(g)'
           /\ \A g \in Failures \ {f} : contracts'[g] = contracts[g]
           /\ Len(contracts'[f]) = Len(contracts[f]) + 1 /\ Len(contracts[f]) \in Nat
           /\ DOMAIN contracts'[f] = 1..(Len(contracts[f]) + 1)
           /\ contracts'[f][Len(contracts[f]) + 1] = k
           /\ \A i \in DOMAIN contracts[f] : contracts'[f][i] = contracts[f][i]
           /\ DOMAIN contracts[f] = 1..Len(contracts[f])
<1>1. /\ contracts \in [Failures -> Seq(Contracts)] /\ contracts[f] \in Seq(Contracts)
      /\ Len(contracts[f]) \in Nat /\ DOMAIN contracts[f] = 1..Len(contracts[f])
      /\ failure[f].retry \in Nat
  <2>1. contracts \in [Failures -> Seq(Contracts)] /\ failure[f].retry \in 0..MAX_ATTEMPTS
    BY DEF RepairInv, RepairTypeOK
  <2> QED  BY <2>1 DEF MAX_ATTEMPTS
<1>2. PICK cs : cs = contracts[f]
  OBVIOUS
<1>3. /\ contracts'[f] = Append(cs, k) /\ \A g \in Failures \ {f} : contracts'[g] = contracts[g]
      /\ contracts' \in [Failures -> Seq(Contracts)]
  BY <1>1, <1>2 DEF ContractAdded
<1>4. PICK n \in Nat : n = Len(cs)
  BY <1>1, <1>2
<1>5. /\ Len(contracts'[f]) = n + 1 /\ DOMAIN contracts'[f] = 1..(n + 1) /\ DOMAIN cs = 1..n
      /\ contracts'[f][n + 1] = k /\ \A i \in 1..n : contracts'[f][i] = cs[i]
  BY <1>1, <1>2, <1>3, <1>4
<1>6. ContractsGood(f)
  BY DEF RepairInv
<1>7. ContractsGood(f)'
  <2>1. ASSUME NEW i \in 1..(n + 1), NEW j \in 1..(n + 1), contracts'[f][i].hypothesis = contracts'[f][j].hypothesis
        PROVE  i = j
    <3>1. CASE i \in 1..n /\ j \in 1..n
      <4>1. cs[i].hypothesis = cs[j].hypothesis
        BY <1>5, <2>1, <3>1
      <4> QED  BY <1>2, <1>5, <1>6, <3>1, <4>1 DEF ContractsGood
    <3>2. CASE i = n + 1 /\ j \in 1..n
      BY <1>2, <1>5, <2>1, <3>2 DEF ContractAdded
    <3>3. CASE i \in 1..n /\ j = n + 1
      BY <1>2, <1>5, <2>1, <3>3 DEF ContractAdded
    <3> QED  BY <3>1, <3>2, <3>3
  <2>2. ASSUME NEW i \in 1..(n + 1), contracts'[f][i].status \in Outcomes
        PROVE  i <= MAX_ATTEMPTS /\ failure'[f].files # {}
    <3>1. CASE i \in 1..n
      <4>1. cs[i].status \in Outcomes
        BY <1>5, <2>2, <3>1
      <4>2. i <= MAX_ATTEMPTS /\ failure[f].files # {}
        BY <1>2, <1>5, <1>6, <3>1, <4>1 DEF ContractsGood
      <4> QED  BY <4>2 DEF ContractAdded
    <3>2. CASE i = n + 1
      BY <1>2, <1>4, <1>5, <2>2, <3>2 DEF ContractAdded
    <3> QED  BY <3>1, <3>2
  <2>3. n + 1 <= MAX_ATTEMPTS + failure'[f].retry
    <3>1. CASE k.status = "resolved"
      BY <1>2, <1>4, <3>1 DEF Outcomes, MAX_ATTEMPTS, ContractAdded
    <3>2. CASE k.status # "resolved"
      BY <1>1, <1>2, <1>4, <1>6, <3>2 DEF ContractsGood, MAX_ATTEMPTS, ContractAdded
    <3> QED  BY <3>1, <3>2
  <2> QED  BY <1>5, <2>1, <2>2, <2>3 DEF ContractsGood, ContractAdded
<1>8. ASSUME NEW g \in Failures \ {f}
      PROVE  ContractsGood(g)'
  BY <1>3 DEF ContractsGood, RepairInv, ContractAdded
<1> QED  BY <1>1, <1>2, <1>3, <1>4, <1>5, <1>7, <1>8

------------------------------------------------------------------------------
\* A repair begins with its attempts left, and is alone when no other runs.
LEMMA StartRepairKeeps ==
    ASSUME RepairInv, NEW f \in Failures, NEW files \in SUBSET {"file"}, NEW given \in BOOLEAN,
           StartRepair(f, files, given)
    PROVE  RepairInv'
<1>1. /\ ~failure[f].known
      /\ failure' = [failure EXCEPT ![f] = [known |-> TRUE, files |-> files, retry |-> 0]]
      /\ active' = IF given THEN f ELSE NoFn
      /\ repairing' = [repairing EXCEPT ![f] = [left |-> MAX_ATTEMPTS, given |-> given, result |-> "running"]]
      /\ alone' = IF RepairRunning = {} THEN {f} ELSE {}
      /\ UNCHANGED <<contracts, byHand>>
  BY DEF StartRepair, DetectFailure
<1>2. contracts[f] = <<>> /\ RepairTypeOK
  BY <1>1 DEF RepairInv, ContractsGood
<1>3. RepairTypeOK'
  BY <1>1, <1>2 DEF RepairTypeOK, MAX_ATTEMPTS
<1>4. /\ failure'[f].known /\ failure'[f].retry = 0
      /\ \A g \in Failures \ {f} : failure'[g] = failure[g] /\ repairing'[g] = repairing[g]
      /\ repairing'[f].given = given /\ repairing'[f].result = "running"
  BY <1>1, <1>2 DEF RepairTypeOK
<1>5. ContractsGood(f)'
  BY <1>1, <1>2, <1>4 DEF ContractsGood, MAX_ATTEMPTS
<1>6. \A g \in Failures \ {f} : ContractsGood(g)'
  BY <1>1, <1>4 DEF ContractsGood, RepairInv
<1>7. ASSUME NEW g \in alone'
      PROVE  AloneGood(g)'
  <2>1. g = f /\ RepairRunning = {}
    BY <1>1, <1>7
  <2>2. RepairRunning' \subseteq {f}
    BY <1>4, <2>1 DEF RepairRunning
  <2>3. NothingResolved(f)' /\ active' = OwnFn(f)'
    BY <1>1, <1>2, <1>4 DEF NothingResolved, OwnFn
  <2> QED  BY <1>4, <2>1, <2>2, <2>3 DEF AloneGood
<1> QED  BY <1>3, <1>5, <1>6, <1>7 DEF RepairInv

\* A turn of the loop adds an attempt with a hypothesis of its own.
LEMMA RepairTurnKeeps ==
    ASSUME RepairInv, NEW f \in Failures, NEW o \in Outcomes, RepairTurn(f, o)
    PROVE  RepairInv'
<1>1. /\ repairing[f].result = "running" /\ AttemptRepair(f, o) /\ byHand' = byHand
      /\ alone' = IF RepairRunning = {f} THEN alone ELSE {}
      /\ RepairTypeOK /\ failure[f].known
  BY DEF RepairTurn, RepairInv, ContractsGood
<1>2. PICK k \in Contracts :
             ContractAdded(f, k)
  BY <1>1, AttemptAdds
<1>3. PICK result \in {"resolved", "escalated", "running"} :
        /\ repairing' = [repairing EXCEPT ![f].left = @ - 1, ![f].result = result]
        /\ active' = IF result = "running" THEN active ELSE NoFn
        /\ result = "resolved" <=> contracts'[f][Len(contracts'[f])].status = "resolved"
  BY DEF RepairTurn
<1>4. /\ repairing' \in [Failures -> [left : Int, given : BOOLEAN,
                                      result : {"none", "running", "resolved", "escalated"}]]
      /\ repairing'[f].given = repairing[f].given /\ repairing'[f].result = result
      /\ \A g \in Failures \ {f} : repairing'[g] = repairing[g]
  <2>1. PICK l \in Int : l = repairing[f].left - 1
    BY <1>1 DEF RepairTypeOK
  <2>2. repairing' = [repairing EXCEPT ![f] = [repairing[f] EXCEPT !.left = l, !.result = result]]
    BY <1>1, <1>3, <2>1 DEF RepairTypeOK
  <2>3. PICK r : r = repairing[f] /\ r \in [left : Int, given : BOOLEAN,
                                            result : {"none", "running", "resolved", "escalated"}]
    BY <1>1 DEF RepairTypeOK
  <2>4. PICK q : q = [r EXCEPT !.left = l, !.result = result]
    OBVIOUS
  <2>5. /\ q \in [left : Int, given : BOOLEAN, result : {"none", "running", "resolved", "escalated"}]
        /\ q.given = r.given /\ q.result = result
    BY <2>1, <2>3, <2>4
  <2>6. repairing' = [repairing EXCEPT ![f] = q]
    BY <2>2, <2>3, <2>4
  <2> QED  BY <1>1, <2>3, <2>5, <2>6 DEF RepairTypeOK
<1>5. /\ contracts' \in [Failures -> Seq(Contracts)]
      /\ \A g \in Failures : ContractsGood(g)'
      /\ Len(contracts'[f]) = Len(contracts[f]) + 1 /\ Len(contracts[f]) \in Nat
      /\ DOMAIN contracts'[f] = 1..(Len(contracts[f]) + 1)
      /\ contracts'[f][Len(contracts[f]) + 1] = k
      /\ \A i \in DOMAIN contracts[f] : contracts'[f][i] = contracts[f][i]
      /\ DOMAIN contracts[f] = 1..Len(contracts[f])
  <2>1. \A g \in Failures : repairing'[g].result = repairing[g].result \/ g = f
    BY <1>4
  <2> QED  BY <1>1, <1>2, <2>1, AddedIsGood
<1>6. RepairTypeOK'
  BY <1>1, <1>2, <1>3, <1>4, <1>5 DEF RepairTypeOK, ContractAdded
<1>7. ASSUME NEW g \in alone'
      PROVE  AloneGood(g)'
  <2>1. RepairRunning = {f} /\ g \in alone /\ g \in Failures
    BY <1>1, <1>7 DEF RepairTypeOK
  <2>2. g = f /\ active = OwnFn(f) /\ NothingResolved(f)
    BY <1>1, <2>1 DEF RepairInv, AloneGood
  <2>3. RepairRunning' \subseteq {f}
    BY <1>4, <2>1 DEF RepairRunning
  <2>4. OwnFn(f)' = OwnFn(f)
    BY <1>4 DEF OwnFn
  <2>5. CASE result = "resolved"
    BY <1>2, <1>3, <1>4, <1>5, <2>2, <2>3, <2>4, <2>5 DEF AloneGood, ContractAdded
  <2>6. CASE result # "resolved"
    <3>1. k.status # "resolved"
      BY <1>3, <1>5, <2>6
    <3>2. NothingResolved(f)'
      BY <1>5, <2>2, <3>1 DEF NothingResolved
    <3> QED  BY <1>3, <1>4, <2>2, <2>3, <2>4, <2>6, <3>2 DEF AloneGood
  <2> QED  BY <2>5, <2>6
<1> QED  BY <1>5, <1>6, <1>7 DEF RepairInv

\* An attempt refused at the limit ends the loop with an escalation.
LEMMA RepairRefusedKeeps ==
    ASSUME RepairInv, NEW f \in Failures, RepairRefused(f)
    PROVE  RepairInv'
<1>1. /\ repairing[f].result = "running" /\ repairing' = [repairing EXCEPT ![f].result = "escalated"]
      /\ active' = NoFn /\ UNCHANGED <<failure, contracts, alone, byHand>> /\ RepairTypeOK
  BY DEF RepairRefused, RepairInv
<1>2. RepairTypeOK'
  BY <1>1 DEF RepairTypeOK
<1>3. /\ repairing'[f].given = repairing[f].given /\ repairing'[f].result = "escalated"
      /\ \A g \in Failures \ {f} : repairing'[g] = repairing[g]
  BY <1>1 DEF RepairTypeOK
<1>4. \A g \in Failures : ContractsGood(g)'
  BY <1>1, <1>3 DEF ContractsGood, RepairInv
<1>5. ASSUME NEW g \in alone'
      PROVE  AloneGood(g)'
  <2>1. g \in Failures /\ AloneGood(g)
    BY <1>1, <1>5 DEF RepairInv, RepairTypeOK
  <2>2. g = f
    BY <1>1, <2>1 DEF AloneGood, RepairRunning
  <2>3. RepairRunning' \subseteq {f}
    BY <1>3, <2>1, <2>2 DEF RepairRunning, AloneGood
  <2>4. NothingResolved(f)'
    BY <1>1, <2>1, <2>2 DEF AloneGood, NothingResolved
  <2> QED  BY <1>3, <2>2, <2>3, <2>4 DEF AloneGood
<1> QED  BY <1>2, <1>4, <1>5 DEF RepairInv

\* An attempt by hand counts like one of the loop, and the failure is no
\* longer the loop's alone.
LEMMA AttemptByHandKeeps ==
    ASSUME RepairInv, NEW f \in Failures, NEW o \in Outcomes, AttemptByHand(f, o)
    PROVE  RepairInv'
<1>1. /\ byHand' = byHand + 1 /\ failure[f].known /\ AttemptRepair(f, o) /\ alone' = alone \ {f}
      /\ active' = active /\ repairing' = repairing /\ RepairTypeOK
  BY DEF AttemptByHand, RepairInv
<1>2. PICK k \in Contracts :
             ContractAdded(f, k)
  BY <1>1, AttemptAdds
<1>3. /\ contracts' \in [Failures -> Seq(Contracts)]
      /\ \A g \in Failures : ContractsGood(g)'
      /\ \A g \in Failures \ {f} : contracts'[g] = contracts[g]
  BY <1>1, <1>2, AddedIsGood
<1>4. RepairTypeOK'
  BY <1>1, <1>2, <1>3 DEF RepairTypeOK, ContractAdded
<1>5. ASSUME NEW g \in alone'
      PROVE  AloneGood(g)'
  <2>1. g \in Failures \ {f} /\ AloneGood(g)
    BY <1>1, <1>5 DEF RepairInv, RepairTypeOK
  <2>2. contracts'[g] = contracts[g] /\ RepairRunning' = RepairRunning
    BY <1>1, <1>3, <2>1 DEF RepairRunning
  <2> QED  BY <1>1, <2>1, <2>2 DEF AloneGood, NothingResolved, OwnFn
<1> QED  BY <1>3, <1>4, <1>5 DEF RepairInv

\* Every step of the repair loop keeps the invariant.
LEMMA RepairStepKeeps == RepairInv /\ [RepairNext]_repairVars => RepairInv'
<1> SUFFICES ASSUME RepairInv, [RepairNext]_repairVars
             PROVE  RepairInv'
  OBVIOUS
<1>1. ASSUME NEW f \in Failures,
             \/ \E files \in SUBSET {"file"}, given \in BOOLEAN : StartRepair(f, files, given)
             \/ \E o \in Outcomes : RepairTurn(f, o) \/ AttemptByHand(f, o)
             \/ RepairRefused(f)
      PROVE  RepairInv'
  BY <1>1, StartRepairKeeps, RepairTurnKeeps, AttemptByHandKeeps, RepairRefusedKeeps
<1>2. CASE UNCHANGED repairVars
  BY <1>2 DEF repairVars, RepairInv, RepairTypeOK, ContractsGood, AloneGood, NothingResolved, OwnFn, RepairRunning
<1> QED  BY <1>1, <1>2 DEF RepairNext

\* Before any repair the invariant holds.
LEMMA RepairStarts == RepairInit => RepairInv
<1> SUFFICES ASSUME RepairInit PROVE RepairInv
  OBVIOUS
<1>1. \A f \in Failures : contracts[f] = <<>> /\ failure[f].retry = 0 /\ ~failure[f].known /\ repairing[f].result = "none"
  BY DEF RepairInit
<1>2. RepairTypeOK
  BY DEF RepairInit, RepairTypeOK, MAX_ATTEMPTS
<1>3. \A f \in Failures : ContractsGood(f)
  BY <1>1 DEF ContractsGood, MAX_ATTEMPTS
<1> QED  BY <1>2, <1>3 DEF RepairInit, RepairInv

\* The invariant implies what is promised of the repair loop.
LEMMA RepairEnough == RepairInv => RepairSound
<1> SUFFICES ASSUME RepairInv PROVE RepairSound
  OBVIOUS
<1>1. ASSUME NEW f \in Failures
      PROVE  /\ IsInjective([i \in DOMAIN contracts[f] |-> contracts[f][i].hypothesis])
             /\ Len(contracts[f]) <= 2 * MAX_ATTEMPTS
             /\ \A i \in DOMAIN contracts[f] :
                  contracts[f][i].status \in Outcomes => i <= MAX_ATTEMPTS /\ failure[f].files # {}
  <2>1. ContractsGood(f) /\ failure[f].retry \in 0..MAX_ATTEMPTS /\ Len(contracts[f]) \in Nat
    BY DEF RepairInv, RepairTypeOK
  <2>2. IsInjective([i \in DOMAIN contracts[f] |-> contracts[f][i].hypothesis])
    BY <2>1 DEF ContractsGood, IsInjective
  <2>3. Len(contracts[f]) <= 2 * MAX_ATTEMPTS
    BY <2>1 DEF ContractsGood, MAX_ATTEMPTS
  <2> QED  BY <2>1, <2>2, <2>3 DEF ContractsGood
<1>2. \A f \in alone : AloneGood(f)
  BY DEF RepairInv
<1> QED  BY <1>1, <1>2 DEF RepairSound, AttemptsDiffer, ResultIsEarned, AloneGood, NothingResolved, OwnFn

\* A repair that reports success resolved its failure, within its attempts
\* and with a new hypothesis each (repair_loop.py).
THEOREM RepairTheorem == RepairSpec => []RepairSound
  BY RepairStarts, RepairStepKeeps, RepairEnough, PTL DEF RepairSpec

------------------------------------------------------------------------------
(* The governance of the brain. *)

\* A decision that is approved was approved by the last method that wrote it.
ApprovedLast == \A d \in Decisions : IsValid(d) => lastAct[d] = "approved"

\* The inductive invariant of the brain's governance.
GovInv == GovTypeOK /\ ApprovedLast

\* Every step of the governance keeps the invariant.
LEMMA GovStep == GovInv /\ [GovNext]_govVars => GovInv'
<1> SUFFICES ASSUME GovInv, [GovNext]_govVars
             PROVE  GovInv'
  OBVIOUS
<1> USE DEF GovInv, GovTypeOK, ApprovedLast, IsValid
<1>1. ASSUME NEW d \in Decisions, NEW status \in {"approved", "rejected", "revoked", "consumed"},
             DecidedActions(d, status), pending' \subseteq Decisions
      PROVE  GovInv'
  BY <1>1 DEF DecidedActions
<1>2. ASSUME NEW d \in Decisions, Approve(d) \/ Reject(d) \/ Revoke(d) \/ ConsumeDecision(d)
      PROVE  GovInv'
  BY <1>1, <1>2 DEF Approve, Reject, Revoke, ConsumeDecision
<1>3. ASSUME NEW d \in Decisions, NEW m \in BrainMissions, NEW a \in BrainActions,
             NEW r \in Risks, RequestDecision(d, m, a, r)
      PROVE  GovInv'
  BY <1>3 DEF RequestDecision, RiskApproval, Risks
<1>4. ASSUME NEW m \in BrainMissions, NEW g \in SUBSET Gates, Submit(m, g)
      PROVE  GovInv'
  BY <1>4 DEF Submit
<1>5. CASE ClearGuard
  BY <1>5 DEF ClearGuard
<1>6. ASSUME NEW cost \in 0..1, ObserveResult(cost)
      PROVE  GovInv'
  BY <1>6 DEF ObserveResult
<1>7. CASE UNCHANGED govVars
  BY <1>7 DEF govVars
<1> QED
  BY <1>2, <1>3, <1>4, <1>5, <1>6, <1>7 DEF GovNext

\* The brain allows nothing above R1 but what a standing approval asked for,
\* and executes only what its budget and capabilities allow.
THEOREM BrainFailsClosedTheorem == GovSpec => []BrainFailsClosed
<1>1. GovInit => GovInv
  BY DEF GovInit, GovInv, GovTypeOK, ApprovedLast, IsValid, NoVerdict
<1>2. ASSUME GovInv
      PROVE  BrainFailsClosed
  <2> SUFFICES ASSUME NEW r \in Risks, ~CanExecute(r), NEW a \in BrainActions, NEW m \in BrainMissions
               PROVE  /\ \A d \in {{}} \cup {{x} : x \in Decisions} :
                           Allowed(r, a, d, m, BrainActions, {}) =>
                             /\ r # "R4"
                             /\ \E x \in d : /\ lastAct[x] = "approved"
                                             /\ decision[x].mission = m /\ decision[x].action = a
                                             /\ decision[x].level # "blocked"
                      /\ \A caps \in SUBSET {"write_report", "read"} :
                           DecideMission(r, caps) = "execute" =>
                             r = "R2" /\ "write_report" \in caps /\ brainUsed < BrainBudget
    BY DEF BrainFailsClosed
  <2>1. r \in RequiresApproval
    BY DEF CanExecute, Risks, RiskApproval, RequiresApproval
  <2>2. ASSUME NEW d \in {{}} \cup {{x} : x \in Decisions},
               Allowed(r, a, d, m, BrainActions, {})
        PROVE  /\ r # "R4"
               /\ \E x \in d : /\ lastAct[x] = "approved"
                               /\ decision[x].mission = m /\ decision[x].action = a
                               /\ decision[x].level # "blocked"
    BY <1>2, <2>1, <2>2 DEF Allowed, Verify, GovInv, ApprovedLast, IsValid, RiskApproval
  <2>3. ASSUME NEW caps \in SUBSET {"write_report", "read"}, DecideMission(r, caps) = "execute"
        PROVE  r = "R2" /\ "write_report" \in caps /\ brainUsed < BrainBudget
    BY <1>2, <2>1, <2>3, GovernanceAssumption
       DEF DecideMission, ClassifyAction, Remaining, RequiresApproval, GovInv, GovTypeOK
  <2> QED  BY <2>2, <2>3
<1> QED
  BY <1>1, <1>2, GovStep, PTL DEF GovSpec

------------------------------------------------------------------------------
(* The git adapter. *)

\* The repository as the properties see it: nothing secret is committed and the
\* remote's protected branch has not moved; one that is read only is as it was.
RepoGood ==
    /\ \A i \in DOMAIN commits : commits[i].files \cap SecretFiles = {}
    /\ remoteRef["main"] = 1
    /\ driver = "read_only" \/ gitDone = <<>> => Len(commits) = 1 /\ staged = {} /\ prs = <<>>

\* The inductive invariant of the git adapter: what was done was allowed or
\* asked for.
GitInv == GitTypeOK /\ RepoGood /\ ToSet(gitDone) \subseteq AutoAllow \cup asked

\* The types of the repository.
RepoTypeOK ==
    /\ head \in GitBranches /\ staged \subseteq GitFiles
    /\ branchRef \in [GitBranches -> Nat] /\ remoteRef \in [GitBranches -> Nat]
    /\ commits \in Seq([branch : GitBranches, files : SUBSET GitFiles])
    /\ prs \in Seq([base : GitBranches, head : GitBranches, merged : BOOLEAN])

\* What the adapter does around a driver call.
AdapterDid(action) ==
    /\ Ask(action) /\ driver' = driver /\ action \in GitActions
    /\ \/ gitDone' = gitDone
       \/ gitDone' = Append(gitDone, action) /\ GitClassify(action) # "DENY"

\* A call of the adapter keeps the invariant when its driver call leaves the
\* repository good.
LEMMA AdapterRecords ==
    ASSUME GitInv, NEW action, AdapterDid(action), RepoTypeOK', RepoGood'
    PROVE  GitInv'
<1>1. /\ asked' \subseteq GitActions /\ asked \subseteq asked'
      /\ GitClassify(action) = "REQUIRE_APPROVAL" => action \in asked'
  BY DEF Ask, GitInv, GitTypeOK, AdapterDid
<1>2. gitDone \in Seq(GitActions) /\ gitDone' \in Seq(GitActions)
  <2>1. gitDone \in Seq(GitActions) /\ action \in GitActions
    BY DEF GitInv, GitTypeOK, AdapterDid
  <2>2. Append(gitDone, action) \in Seq(GitActions)
    BY <2>1
  <2> QED  BY <2>1, <2>2 DEF AdapterDid
<1>3. GitTypeOK'
  BY <1>1, <1>2 DEF GitInv, GitTypeOK, RepoTypeOK, AdapterDid
<1>4. ToSet(gitDone') \subseteq AutoAllow \cup asked'
  <2>1. CASE gitDone' = gitDone
    BY <1>1, <2>1 DEF GitInv
  <2>2. CASE gitDone' = Append(gitDone, action) /\ GitClassify(action) # "DENY"
    <3>1. action \in AutoAllow \cup asked'
      BY <1>1, <2>2 DEF GitClassify
    <3>2. ToSet(gitDone') \subseteq ToSet(gitDone) \cup {action}
      BY <1>2, <2>2 DEF ToSet
    <3> QED  BY <1>1, <3>1, <3>2 DEF GitInv
  <2> QED  BY <2>1, <2>2 DEF AdapterDid
<1> QED  BY <1>3, <1>4 DEF GitInv

\* What the adapter has done is not empty once it has done something.
LEMMA DoneIsNotEmpty ==
    ASSUME GitInv, NEW action \in GitActions, gitDone' = Append(gitDone, action)
    PROVE  gitDone' # <<>>
<1>1. gitDone \in Seq(GitActions)
  BY DEF GitInv, GitTypeOK
<1> QED  BY <1>1

\* A call that is refused, or whose driver call changes nothing.
LEMMA NothingChanged ==
    ASSUME GitInv, NEW action, AdapterDid(action),
           UNCHANGED <<branchRef, commits, head, staged, remoteRef, prs>>
    PROVE  GitInv'
<1>1. gitDone' = <<>> => gitDone = <<>>
  BY DoneIsNotEmpty DEF AdapterDid
<1>2. RepoTypeOK'
  BY DEF GitInv, GitTypeOK, RepoTypeOK
<1>3. RepoGood'
  BY <1>1 DEF GitInv, RepoGood, AdapterDid
<1> QED  BY <1>2, <1>3, AdapterRecords

\* Some positions of a sequence have a greatest one.
LEMMA GreatestPosition ==
    ASSUME NEW n \in Nat, NEW S \in SUBSET (1..n), S # {}
    PROVE  \E i \in S : \A j \in S : j <= i
<1> DEFINE T == {n - i : i \in S}
<1>1. \A i \in S : i \in Nat /\ n - i \in Nat
  OBVIOUS
<1>2. T \in SUBSET Nat /\ T # {}
  BY <1>1
<1>3. PICK k \in T : \A j \in T : ~(<<j, k>> \in OpToRel(<, Nat))
  BY <1>2, NatLessThanWellFounded, WFMin
<1>4. \A j \in T : ~(j < k)
  BY <1>2, <1>3, Zenon DEF OpToRel
<1>5. PICK i \in S : k = n - i
  BY <1>3
<1>6. \A j \in S : j <= i
  <2> TAKE j \in S
  <2>1. ~(n - j < n - i)
    BY <1>4, <1>5
  <2> QED  BY <1>1, <2>1
<1> QED  BY <1>6

\* A commit is added to the local repository.
LEMMA CommitAdded ==
    ASSUME GitInv, NEW b \in GitBranches, NEW files \in SUBSET GitFiles, files \cap SecretFiles = {},
           commits' = Append(commits, [branch |-> b, files |-> files])
    PROVE  /\ commits' \in Seq([branch : GitBranches, files : SUBSET GitFiles])
           /\ \A i \in DOMAIN commits' : commits'[i].files \cap SecretFiles = {}
           /\ Len(commits) + 1 \in Nat
<1>1. commits \in Seq([branch : GitBranches, files : SUBSET GitFiles])
      /\ \A i \in DOMAIN commits : commits[i].files \cap SecretFiles = {}
  BY DEF GitInv, GitTypeOK, RepoGood
<1>2. PICK k : k = [branch |-> b, files |-> files]
  OBVIOUS
<1>3. k \in [branch : GitBranches, files : SUBSET GitFiles] /\ k.files \cap SecretFiles = {}
  BY <1>2
<1>4. commits' = Append(commits, k)
  BY <1>2
<1> QED  BY <1>1, <1>3, <1>4

\* The head is the position of a commit, or 0.
LEMMA HeadShaIs ==
    ASSUME GitInv
    PROVE  HeadSha \in Nat
<1> DEFINE mine == {i \in DOMAIN commits : commits[i].branch = head}
<1>1. commits \in Seq([branch : GitBranches, files : SUBSET GitFiles])
  BY DEF GitInv, GitTypeOK
<1>2. PICK n \in Nat : DOMAIN commits = 1..n
  BY <1>1
<1>3. mine \in SUBSET (1..n)
  BY <1>2
<1>4. CASE mine = {}
  BY <1>4 DEF HeadSha
<1>5. CASE mine # {}
  <2>1. \E i \in mine : \A j \in mine : j <= i
    BY <1>3, <1>5, GreatestPosition
  <2>2. (CHOOSE i \in mine : \A j \in mine : j <= i) \in mine
    BY <2>1
  <2> QED  BY <1>3, <1>5, <2>2 DEF HeadSha
<1> QED  BY <1>4, <1>5

\* Every step of the git adapter keeps the invariant.
LEMMA GitStepKeeps == GitInv /\ [GitNext]_gitVars => GitInv'
<1> SUFFICES ASSUME GitInv, [GitNext]_gitVars
             PROVE  GitInv'
  OBVIOUS
<1>t. GitTypeOK /\ RepoGood
  BY DEF GitInv
<1>h. HeadSha \in Nat
  BY HeadShaIs
<1>1. CASE \E d \in {"mock", "read_only"} : GitUse(d)
  BY <1>1, <1>t DEF GitUse, GitInv, GitTypeOK, RepoGood
<1>2. CASE \E a \in Deny \cup AutoAllow : Execute(a, "", 0, DriverStatus)
  <2>1. PICK a \in Deny \cup AutoAllow : Execute(a, "", 0, DriverStatus)
    BY <1>2
  <2>2. AdapterDid(a) /\ UNCHANGED <<branchRef, commits, head, staged, remoteRef, prs>>
    BY <2>1 DEF Execute, DriverStatus, AdapterDid, Passes, GitActions
  <2> QED  BY <2>2, NothingChanged
<1>3. ASSUME NEW b \in GitBranches, Execute("checkout_branch", b, 0, DriverCheckout(b))
      PROVE  GitInv'
  <2>1. AdapterDid("checkout_branch")
    BY <1>3 DEF Execute, AdapterDid, Passes, GitActions
  <2>2. CASE UNCHANGED <<branchRef, commits, head, staged, remoteRef, prs>>
    BY <2>1, <2>2, NothingChanged
  <2>3. CASE ~UNCHANGED <<branchRef, commits, head, staged, remoteRef, prs>>
    <3>1. /\ DriverCheckout(b) /\ gitDone' = Append(gitDone, "checkout_branch") /\ driver # "read_only"
      BY <1>3, <1>t, <2>3 DEF Execute, Passes, Writable, AutoAllow
    <3>2. gitDone' # <<>> /\ driver' = driver
      BY <2>1, <3>1, DoneIsNotEmpty DEF AdapterDid
    <3>8. RepoTypeOK'
      BY <1>t, <3>1, <3>2 DEF DriverCheckout, GitTypeOK, RepoGood, RepoTypeOK
    <3>9. RepoGood'
      BY <1>t, <3>1, <3>2 DEF DriverCheckout, GitTypeOK, RepoGood
    <3> QED  BY <2>1, <3>8, <3>9, AdapterRecords
  <2> QED  BY <2>2, <2>3
<1>4. ASSUME NEW base \in GitBranches \cup {"HEAD"},
             Execute("create_branch", "work", 0, DriverCreateBranch("work", base))
      PROVE  GitInv'
  <2>1. AdapterDid("create_branch")
    BY <1>4 DEF Execute, AdapterDid, Passes, GitActions
  <2>2. CASE UNCHANGED <<branchRef, commits, head, staged, remoteRef, prs>>
    BY <2>1, <2>2, NothingChanged
  <2>3. CASE ~UNCHANGED <<branchRef, commits, head, staged, remoteRef, prs>>
    <3>1. /\ DriverCreateBranch("work", base) /\ gitDone' = Append(gitDone, "create_branch") /\ driver # "read_only"
      BY <1>4, <1>t, <2>3 DEF Execute, Passes, Writable, AutoAllow
    <3>2. gitDone' # <<>> /\ driver' = driver
      BY <2>1, <3>1, DoneIsNotEmpty DEF AdapterDid
    <3>3. branchRef' \in [GitBranches -> Nat]
      BY <1>t, <1>h, <3>1 DEF DriverCreateBranch, GitTypeOK
    <3>8. RepoTypeOK'
      BY <1>t, <3>1, <3>2, <3>3 DEF DriverCreateBranch, GitTypeOK, RepoGood, RepoTypeOK
    <3>9. RepoGood'
      BY <1>t, <3>1, <3>2, <3>3 DEF DriverCreateBranch, GitTypeOK, RepoGood
    <3> QED  BY <2>1, <3>8, <3>9, AdapterRecords
  <2> QED  BY <2>2, <2>3
<1>5. ASSUME NEW files \in SUBSET GitFiles,
             Execute("stage_files", "", 0, DriverStage(files))
      PROVE  GitInv'
  <2>1. AdapterDid("stage_files")
    BY <1>5 DEF Execute, AdapterDid, Passes, GitActions
  <2>2. CASE UNCHANGED <<branchRef, commits, head, staged, remoteRef, prs>>
    BY <2>1, <2>2, NothingChanged
  <2>3. CASE ~UNCHANGED <<branchRef, commits, head, staged, remoteRef, prs>>
    <3>1. /\ DriverStage(files) /\ gitDone' = Append(gitDone, "stage_files") /\ driver # "read_only"
      BY <1>5, <1>t, <2>3 DEF Execute, Passes, Writable, AutoAllow
    <3>2. gitDone' # <<>> /\ driver' = driver
      BY <2>1, <3>1, DoneIsNotEmpty DEF AdapterDid
    <3>8. RepoTypeOK'
      BY <1>t, <3>1, <3>2 DEF DriverStage, GitTypeOK, RepoGood, RepoTypeOK
    <3>9. RepoGood'
      BY <1>t, <3>1, <3>2 DEF DriverStage, GitTypeOK, RepoGood
    <3> QED  BY <2>1, <3>8, <3>9, AdapterRecords
  <2> QED  BY <2>2, <2>3
<1>6. ASSUME NEW files \in SUBSET GitFiles,
             Execute("unstage_files", "", 0, DriverUnstage(files))
      PROVE  GitInv'
  <2>1. AdapterDid("unstage_files")
    BY <1>6 DEF Execute, AdapterDid, Passes, GitActions
  <2>2. CASE UNCHANGED <<branchRef, commits, head, staged, remoteRef, prs>>
    BY <2>1, <2>2, NothingChanged
  <2>3. CASE ~UNCHANGED <<branchRef, commits, head, staged, remoteRef, prs>>
    <3>1. /\ DriverUnstage(files) /\ gitDone' = Append(gitDone, "unstage_files") /\ driver # "read_only"
      BY <1>6, <1>t, <2>3 DEF Execute, Passes, Writable, AutoAllow
    <3>2. gitDone' # <<>> /\ driver' = driver
      BY <2>1, <3>1, DoneIsNotEmpty DEF AdapterDid
    <3>8. RepoTypeOK'
      BY <1>t, <3>1, <3>2 DEF DriverUnstage, GitTypeOK, RepoGood, RepoTypeOK
    <3>9. RepoGood'
      BY <1>t, <3>1, <3>2 DEF DriverUnstage, GitTypeOK, RepoGood
    <3> QED  BY <2>1, <3>8, <3>9, AdapterRecords
  <2> QED  BY <2>2, <2>3
<1>7. CASE Execute("commit", "", 0, DriverCommit)
  <2>1. AdapterDid("commit")
    BY <1>7 DEF Execute, AdapterDid, Passes, GitActions
  <2>2. CASE UNCHANGED <<branchRef, commits, head, staged, remoteRef, prs>>
    BY <2>1, <2>2, NothingChanged
  <2>3. CASE ~UNCHANGED <<branchRef, commits, head, staged, remoteRef, prs>>
    <3>1. /\ DriverCommit /\ gitDone' = Append(gitDone, "commit") /\ driver # "read_only" /\ staged \cap SecretFiles = {}
      BY <1>7, <1>t, <2>3 DEF Execute, Passes, Writable, AutoAllow, SecretsFound
    <3>2. gitDone' # <<>> /\ driver' = driver
      BY <2>1, <3>1, DoneIsNotEmpty DEF AdapterDid
    <3>3. /\ commits' = Append(commits, [branch |-> head, files |-> staged])
          /\ branchRef' = [branchRef EXCEPT ![head] = Len(commits) + 1]
          /\ staged' = {} /\ UNCHANGED <<head, remoteRef, prs>>
      BY <2>3, <3>1 DEF DriverCommit, DriverStatus
    <3>4. /\ commits' \in Seq([branch : GitBranches, files : SUBSET GitFiles])
          /\ \A i \in DOMAIN commits' : commits'[i].files \cap SecretFiles = {}
          /\ Len(commits) + 1 \in Nat
      BY <1>t, <3>1, <3>3, CommitAdded DEF GitTypeOK
    <3>8. RepoTypeOK'
      BY <1>t, <3>1, <3>2, <3>3, <3>4 DEF GitTypeOK, RepoGood, RepoTypeOK
    <3>9. RepoGood'
      BY <1>t, <3>1, <3>2, <3>3, <3>4 DEF GitTypeOK, RepoGood
    <3> QED  BY <2>1, <3>8, <3>9, AdapterRecords
  <2> QED  BY <2>2, <2>3
<1>8. ASSUME NEW b \in GitBranches, NEW expected \in 0..Len(commits), Execute("push", b, expected, DriverPush(b))
      PROVE  GitInv'
  <2>1. AdapterDid("push")
    BY <1>8 DEF Execute, AdapterDid, Passes, GitActions
  <2>2. CASE UNCHANGED <<branchRef, commits, head, staged, remoteRef, prs>>
    BY <2>1, <2>2, NothingChanged
  <2>3. CASE ~UNCHANGED <<branchRef, commits, head, staged, remoteRef, prs>>
    <3>1. /\ DriverPush(b) /\ gitDone' = Append(gitDone, "push") /\ driver # "read_only" /\ b # "main"
      BY <1>8, <1>t, <2>3 DEF Execute, Passes, Writable, AutoAllow, IsProtectedBranch, Protected
    <3>2. gitDone' # <<>> /\ driver' = driver
      BY <2>1, <3>1, DoneIsNotEmpty DEF AdapterDid
    <3>3. remoteRef' \in [GitBranches -> Nat] /\ remoteRef'["main"] = 1
      BY <1>t, <3>1 DEF DriverPush, GitTypeOK, RepoGood, GitBranches
    <3>8. RepoTypeOK'
      BY <1>t, <3>1, <3>2, <3>3 DEF DriverPush, GitTypeOK, RepoGood, RepoTypeOK
    <3>9. RepoGood'
      BY <1>t, <3>1, <3>2, <3>3 DEF DriverPush, GitTypeOK, RepoGood
    <3> QED  BY <2>1, <3>8, <3>9, AdapterRecords
  <2> QED  BY <2>2, <2>3
<1>9. ASSUME NEW base \in GitBranches, Execute("open_pr", base, 0, DriverOpenPr(base))
      PROVE  GitInv'
  <2>1. AdapterDid("open_pr")
    BY <1>9 DEF Execute, AdapterDid, Passes, GitActions
  <2>2. CASE UNCHANGED <<branchRef, commits, head, staged, remoteRef, prs>>
    BY <2>1, <2>2, NothingChanged
  <2>3. CASE ~UNCHANGED <<branchRef, commits, head, staged, remoteRef, prs>>
    <3>1. /\ DriverOpenPr(base) /\ gitDone' = Append(gitDone, "open_pr") /\ driver # "read_only"
      BY <1>9, <1>t, <2>3 DEF Execute, Passes, Writable, AutoAllow
    <3>2. gitDone' # <<>> /\ driver' = driver
      BY <2>1, <3>1, DoneIsNotEmpty DEF AdapterDid
    <3>3. prs' \in Seq([base : GitBranches, head : GitBranches, merged : BOOLEAN])
      BY <1>t, <3>1 DEF DriverOpenPr, GitTypeOK
    <3>8. RepoTypeOK'
      BY <1>t, <3>1, <3>2, <3>3 DEF DriverOpenPr, GitTypeOK, RepoGood, RepoTypeOK
    <3>9. RepoGood'
      BY <1>t, <3>1, <3>2, <3>3 DEF DriverOpenPr, GitTypeOK, RepoGood
    <3> QED  BY <2>1, <3>8, <3>9, AdapterRecords
  <2> QED  BY <2>2, <2>3
<1>10. ASSUME NEW i \in 1..2, Execute("merge_pr", "", 0, DriverMergePr(i))
       PROVE  GitInv'
  <2>1. AdapterDid("merge_pr")
    BY <1>10 DEF Execute, AdapterDid, Passes, GitActions
  <2>2. CASE UNCHANGED <<branchRef, commits, head, staged, remoteRef, prs>>
    BY <2>1, <2>2, NothingChanged
  <2>3. CASE ~UNCHANGED <<branchRef, commits, head, staged, remoteRef, prs>>
    <3>1. /\ DriverMergePr(i) /\ gitDone' = Append(gitDone, "merge_pr") /\ driver # "read_only"
      BY <1>10, <1>t, <2>3 DEF Execute, Passes, Writable, AutoAllow
    <3>2. gitDone' # <<>> /\ driver' = driver
      BY <2>1, <3>1, DoneIsNotEmpty DEF AdapterDid
    <3>3. /\ i \in DOMAIN prs /\ prs' = [prs EXCEPT ![i].merged = TRUE]
          /\ commits' = Append(commits, [branch |-> prs[i].base, files |-> {}])
          /\ branchRef' = [branchRef EXCEPT ![prs[i].base] = Len(commits) + 1]
          /\ UNCHANGED <<head, staged, remoteRef>>
      BY <2>3, <3>1 DEF DriverMergePr, DriverStatus
    <3>4. /\ prs[i].base \in GitBranches
          /\ prs' \in Seq([base : GitBranches, head : GitBranches, merged : BOOLEAN])
      <4> DEFINE P == [base : GitBranches, head : GitBranches, merged : BOOLEAN]
      <4>1. prs \in Seq(P)
        BY <1>t DEF GitTypeOK
      <4> HIDE DEF P
      <4>2. prs[i] \in P
        BY <3>3, <4>1
      <4>3. PICK q : q = [prs[i] EXCEPT !.merged = TRUE]
        OBVIOUS
      <4>4. q \in P /\ prs[i].base \in GitBranches
        BY <4>2, <4>3 DEF P
      <4>5. prs' = [prs EXCEPT ![i] = q]
        BY <3>3, <4>3
      <4>6. prs' \in Seq(P)
        <5>1. PICK n \in Nat : n = Len(prs) /\ DOMAIN prs = 1..n
          BY <4>1
        <5>2. prs \in [1..n -> P] /\ i \in 1..n
          BY <3>3, <4>1, <5>1
        <5>3. prs' \in [1..n -> P]
          BY <4>4, <4>5, <5>2
        <5> QED  BY <5>1, <5>3
      <4> QED  BY <4>4, <4>6 DEF P
    <3>5. /\ commits' \in Seq([branch : GitBranches, files : SUBSET GitFiles])
          /\ \A k \in DOMAIN commits' : commits'[k].files \cap SecretFiles = {}
          /\ Len(commits) + 1 \in Nat
      <4>1. {} \in SUBSET GitFiles /\ {} \cap SecretFiles = {}
        OBVIOUS
      <4> QED  BY <3>3, <3>4, <4>1, CommitAdded
    <3>6. branchRef' \in [GitBranches -> Nat]
      BY <1>t, <3>3, <3>4, <3>5 DEF GitTypeOK
    <3>8. RepoTypeOK'
      BY <1>t, <3>1, <3>2, <3>3, <3>4, <3>5, <3>6 DEF GitTypeOK, RepoGood, RepoTypeOK
    <3>9. RepoGood'
      BY <1>t, <3>1, <3>2, <3>3, <3>4, <3>5, <3>6 DEF GitTypeOK, RepoGood
    <3> QED  BY <2>1, <3>8, <3>9, AdapterRecords
  <2> QED  BY <2>2, <2>3
<1>11. CASE UNCHANGED gitVars
  BY <1>11, <1>t DEF gitVars, GitInv, GitTypeOK, RepoGood
<1> QED  BY <1>1, <1>2, <1>3, <1>4, <1>5, <1>6, <1>7, <1>8, <1>9, <1>10, <1>11 DEF GitNext

\* The repository as it is found satisfies the invariant.
LEMMA GitStarts == GitInit => GitInv
<1> SUFFICES ASSUME GitInit PROVE GitInv
  OBVIOUS
<1>1. GitTypeOK
  BY DEF GitInit, GitTypeOK, GitBranches
<1>2. RepoGood
  BY DEF GitInit, RepoGood, GitBranches
<1>3. ToSet(gitDone) = {}
  BY DEF GitInit, ToSet
<1> QED  BY <1>1, <1>2, <1>3 DEF GitInv

\* No secret is committed, the protected branch stays and nothing that needs
\* approval is done unasked (git_adapter.py).
THEOREM GitTheorem == GitSpec => []GitGoverned
<1>1. GitInv => GitGoverned
  BY DEF GitInv, GitGoverned, RepoGood, Protected
<1> QED  BY <1>1, GitStarts, GitStepKeeps, PTL DEF GitSpec

------------------------------------------------------------------------------
(* The deployment adapter. *)

\* Steps ran in order and are undone last first, and a call in progress has some left.
InOrder ==
    /\ Len(stepsRan) <= DeploySteps /\ \A i \in 1..Len(stepsRan) : stepsRan[i] = i
    /\ Len(undone) <= DeploySteps /\ \A i \in 1..Len(undone) : undone[i] = DeploySteps - i + 1
    /\ stage = "steps" => Len(stepsRan) < DeploySteps
    /\ stage = "rollback" => Len(undone) < DeploySteps /\ ThePlan.state = "ROLLING_BACK"
    /\ stage = "health" => Len(stepsRan) = DeploySteps /\ deployCfg.health

\* Steps of a production plan ran only with production allowed and the
\* approval forced or not needed.
GatePassed ==
    plan # <<>> /\ ThePlan.env = "production" /\ (stepsRan # <<>> \/ stage = "steps") =>
      deployCfg.production /\ (forced \/ ~deployCfg.approvals)

\* What a plan says of itself between calls.
StateHolds ==
    stage = "idle" /\ plan # <<>> /\ ~escaped =>
      /\ ThePlan.state \in {"HEALTHY", "DEPLOYED"} => Len(stepsRan) = DeploySteps
      /\ ThePlan.state = "HEALTHY" => deployCfg.health
      /\ ThePlan.state = "ROLLED_BACK" => Len(undone) = DeploySteps
      /\ ThePlan.state # "ROLLING_BACK"
      /\ ThePlan.state = "UNHEALTHY" => ~(deployCfg.autoRollback /\ ThePlan.rollback)

\* The inductive invariant of the deployment adapter.
DeployInv ==
    /\ DeployTypeOK /\ InOrder /\ GatePassed /\ StateHolds
    /\ plan = <<>> => stage = "idle" /\ stepsRan = <<>>

\* The plan in its new state.
LEMMA PlanStateIs ==
    ASSUME DeployTypeOK, plan # <<>>, NEW s \in PlanStates, PlanState(s)
    PROVE  /\ \E p \in DeployPlans : plan' = <<p>>
           /\ plan' # <<>> /\ ThePlan'.state = s
           /\ ThePlan'.env = ThePlan.env /\ ThePlan'.rollback = ThePlan.rollback
<1>1. PICK p \in DeployPlans : plan = <<p>>
  BY DEF DeployTypeOK
<1>2. PICK q : q = [p EXCEPT !.state = s]
  OBVIOUS
<1>3. q \in DeployPlans /\ q.state = s /\ q.env = p.env /\ q.rollback = p.rollback
  BY <1>1, <1>2 DEF DeployPlans
<1>4. plan' = <<q>>
  BY <1>1, <1>2 DEF PlanState
<1> QED  BY <1>1, <1>3, <1>4 DEF ThePlan

\* A plan that exists is one.
LEMMA PlanIs ==
    ASSUME DeployTypeOK, plan # <<>>
    PROVE  ThePlan \in DeployPlans
  BY DEF DeployTypeOK, ThePlan

\* No steps are a sequence of steps.
LEMMA NoneRan == <<>> \in Seq(StepNos)
  OBVIOUS

\* A new plan has run no step.
LEMMA CreateKeeps ==
    ASSUME DeployInv, NEW cfg \in DeployConfigs, NEW env \in Environments, NEW rb \in BOOLEAN,
           CreateDeployPlan(cfg, env, rb)
    PROVE  DeployInv'
<1>1. /\ stage = "idle" /\ stepsRan = <<>> /\ deployCfg' = cfg /\ integrity' = command /\ DeployTypeOK
      /\ UNCHANGED <<command, stage, stepsRan, undone, forced, escaped, deployCalls>>
  BY DEF DeployInv, CreateDeployPlan
<1>2. PICK p \in DeployPlans : plan' = <<p>> /\ p.state = "DRAFT"
  BY DEF CreateDeployPlan, DeployPlans, PlanStates
<1>3. plan' # <<>> /\ ThePlan' = p
  BY <1>2 DEF ThePlan
<1>4. DeployTypeOK'
  BY <1>1, <1>2 DEF DeployTypeOK
<1>5. InOrder' /\ GatePassed' /\ StateHolds'
  BY <1>1, <1>2, <1>3 DEF DeployInv, InOrder, GatePassed, StateHolds
<1> QED  BY <1>3, <1>4, <1>5 DEF DeployInv

\* A step's command that is edited moves no plan.
LEMMA EditKeeps ==
    ASSUME DeployInv, NEW s \in StepNos, EditStep(s)
    PROVE  DeployInv'
<1>1. /\ command' = [command EXCEPT ![s] = "edited"]
      /\ UNCHANGED <<deployCfg, plan, integrity, stage, stepsRan, undone, forced, escaped, deployCalls>>
  BY DEF EditStep
<1>2. DeployTypeOK'
  BY <1>1 DEF DeployInv, DeployTypeOK
<1> QED  BY <1>1, <1>2 DEF DeployInv, InOrder, GatePassed, StateHolds, ThePlan

\* A preview takes the digest again and changes only the state of the plan.
LEMMA PreviewKeeps ==
    ASSUME DeployInv, PreviewPlan
    PROVE  DeployInv'
<1>1. /\ stage = "idle" /\ plan # <<>> /\ PlanState("PREVIEWED") /\ integrity' = command /\ DeployTypeOK
      /\ UNCHANGED <<deployCfg, command, stage, stepsRan, undone, forced, escaped, deployCalls>>
  BY DEF PreviewPlan, DeployIdle, DeployInv
<1>2. /\ \E p \in DeployPlans : plan' = <<p>>
      /\ plan' # <<>> /\ ThePlan'.state = "PREVIEWED"
      /\ ThePlan'.env = ThePlan.env /\ ThePlan'.rollback = ThePlan.rollback
  BY <1>1, PlanStateIs DEF PlanStates
<1>3. DeployTypeOK'
  BY <1>1, <1>2 DEF DeployTypeOK
<1>4. InOrder' /\ GatePassed' /\ StateHolds'
  BY <1>1, <1>2 DEF DeployInv, InOrder, GatePassed, StateHolds
<1> QED  BY <1>2, <1>3, <1>4 DEF DeployInv

\* An execution begins only behind the gate.
LEMMA StartExecuteKeeps ==
    ASSUME DeployInv, NEW force \in BOOLEAN, StartExecute(force)
    PROVE  DeployInv'
<1>1. /\ stage = "idle" /\ plan # <<>> /\ deployCalls' = deployCalls + 1 /\ DeployTypeOK
      /\ UNCHANGED <<deployCfg, command>>
  BY DEF StartExecute, DeployIdle, DeployInv
<1>2. CASE ~ProductionGate(force)
  <2>1. UNCHANGED <<integrity, stage, stepsRan, forced, plan, undone, escaped>>
    BY <1>2 DEF StartExecute
  <2>2. DeployTypeOK'
    BY <1>1, <2>1 DEF DeployTypeOK
  <2> QED  BY <1>1, <2>1, <2>2 DEF DeployInv, InOrder, GatePassed, StateHolds, ThePlan
<1>3. CASE ProductionGate(force)
  <2>1. integrity' = command /\ undone' = <<>> /\ escaped' = FALSE
    BY <1>3 DEF StartExecute
  <2>2. stage' = "steps" /\ stepsRan' = <<>> /\ forced' = force /\ UNCHANGED plan
    BY <1>3, <2>1 DEF StartExecute, IntegrityHolds
  <2>3. DeployTypeOK'
    <3>1. /\ deployCalls' \in Nat /\ integrity' \in [StepNos -> {"ok", "edited"}]
          /\ plan' = <<>> \/ \E p \in DeployPlans : plan' = <<p>>
      BY <1>1, <2>1, <2>2 DEF DeployTypeOK
    <3>2. stepsRan' \in Seq(StepNos) /\ undone' \in Seq(StepNos)
      BY <2>1, <2>2, NoneRan
    <3> QED  BY <1>1, <2>1, <2>2, <3>1, <3>2 DEF DeployTypeOK
  <2>4. InOrder' /\ StateHolds'
    BY <1>1, <2>1, <2>2, DeployStepsAssumption DEF InOrder, StateHolds, ThePlan
  <2>5. GatePassed'
    BY <1>1, <1>3, <2>2 DEF GatePassed, ProductionGate, ThePlan
  <2> QED  BY <1>1, <2>2, <2>3, <2>4, <2>5 DEF DeployInv
<1> QED  BY <1>2, <1>3

\* A failure, with the steps that ran as they were.
LEMMA FailKeeps ==
    ASSUME DeployInv, stage \in {"steps", "health"}, NEW s \in {"FAILED", "UNHEALTHY"}, FailTo(s),
           UNCHANGED <<deployCfg, command, integrity, stepsRan, forced, deployCalls>>, escaped' \in BOOLEAN
    PROVE  DeployInv'
<1>1. plan # <<>> /\ DeployTypeOK
  BY DEF DeployInv
<1>2. /\ stage' \in {"idle", "rollback"} /\ undone' \in {<<>>, undone}
      /\ stage' = "rollback" => undone' = <<>> /\ PlanState("ROLLING_BACK")
      /\ stage' = "idle" => PlanState(s) /\ ~(deployCfg.autoRollback /\ ThePlan.rollback)
  BY DEF FailTo
<1>3. /\ \E p \in DeployPlans : plan' = <<p>>
      /\ plan' # <<>> /\ ThePlan'.state = IF stage' = "idle" THEN s ELSE "ROLLING_BACK"
      /\ ThePlan'.env = ThePlan.env /\ ThePlan'.rollback = ThePlan.rollback
  BY <1>1, <1>2, PlanStateIs DEF PlanStates
<1>4. DeployTypeOK'
  BY <1>1, <1>2, <1>3, NoneRan DEF DeployTypeOK
<1>5. InOrder'
  BY <1>2, <1>3, DeployStepsAssumption DEF DeployInv, InOrder
<1>6. GatePassed'
  BY <1>1, <1>2, <1>3 DEF GatePassed, DeployInv, InOrder
<1>7. StateHolds'
  BY <1>2, <1>3 DEF StateHolds
<1> QED  BY <1>3, <1>4, <1>5, <1>6, <1>7 DEF DeployInv

\* Steps run in order; the last one leads to the health check, and a failed
\* one may lead to a rollback.
LEMMA ExecuteStepKeeps ==
    ASSUME DeployInv, NEW outcome \in {"completed", "failed", "raised"}, ExecuteStep(outcome)
    PROVE  DeployInv'
<1>1. /\ stage = "steps" /\ plan # <<>> /\ DeployTypeOK
      /\ UNCHANGED <<deployCfg, command, integrity, forced, deployCalls>>
  BY DEF ExecuteStep, DeployInv
<1>2. CASE outcome = "completed"
  <2>1. PICK n \in Nat : n = Len(stepsRan) /\ n < DeploySteps
    BY <1>1 DEF DeployInv, InOrder, DeployTypeOK
  <2>2. /\ stepsRan' = Append(stepsRan, n + 1) /\ UNCHANGED <<undone, escaped>>
        /\ Len(stepsRan') # DeploySteps => stage' = "steps" /\ UNCHANGED plan
        /\ Len(stepsRan') = DeploySteps => /\ stage' = IF deployCfg.health THEN "health" ELSE "idle"
                                           /\ PlanState("DEPLOYED")
    BY <1>2, <2>1 DEF ExecuteStep
  <2>3. stepsRan \in Seq(StepNos) /\ n + 1 \in StepNos
    BY <1>1, <2>1, DeployStepsAssumption DEF DeployTypeOK, StepNos
  <2>4. /\ stepsRan' \in Seq(StepNos) /\ Len(stepsRan') = n + 1 /\ n + 1 <= DeploySteps
        /\ \A i \in 1..(n + 1) : stepsRan'[i] = i
    BY <2>1, <2>2, <2>3, DeployStepsAssumption DEF DeployInv, InOrder
  <2>5. CASE n + 1 # DeploySteps
    <3>1. stage' = "steps" /\ UNCHANGED plan
      BY <2>2, <2>4, <2>5
    <3>2. DeployTypeOK'
      BY <1>1, <2>2, <2>4, <3>1 DEF DeployTypeOK
    <3>3. InOrder'
      BY <1>1, <2>2, <2>4, <2>5, <3>1, DeployStepsAssumption DEF DeployInv, InOrder
    <3>4. GatePassed' /\ StateHolds'
      BY <1>1, <3>1 DEF DeployInv, GatePassed, StateHolds, ThePlan
    <3> QED  BY <1>1, <3>1, <3>2, <3>3, <3>4 DEF DeployInv
  <2>6. CASE n + 1 = DeploySteps
    <3>1. stage' = (IF deployCfg.health THEN "health" ELSE "idle") /\ PlanState("DEPLOYED")
      BY <2>2, <2>4, <2>6
    <3>2. /\ \E p \in DeployPlans : plan' = <<p>>
          /\ plan' # <<>> /\ ThePlan'.state = "DEPLOYED"
          /\ ThePlan'.env = ThePlan.env /\ ThePlan'.rollback = ThePlan.rollback
      BY <1>1, <3>1, PlanStateIs DEF PlanStates
    <3>3. DeployTypeOK'
      BY <1>1, <2>2, <2>4, <3>1, <3>2 DEF DeployTypeOK
    <3>4. InOrder'
      BY <1>1, <2>2, <2>4, <2>6, <3>1, DeployStepsAssumption DEF DeployInv, InOrder
    <3>5. GatePassed'
      BY <1>1, <3>2 DEF DeployInv, GatePassed
    <3>6. StateHolds'
      BY <1>1, <2>4, <2>6, <3>1, <3>2 DEF StateHolds
    <3> QED  BY <3>2, <3>3, <3>4, <3>5, <3>6 DEF DeployInv
  <2> QED  BY <2>5, <2>6
<1>3. CASE outcome = "failed"
  <2>1. FailTo("FAILED") /\ UNCHANGED <<stepsRan, escaped>>
    BY <1>3 DEF ExecuteStep
  <2>2. escaped' \in BOOLEAN
    BY <1>1, <2>1 DEF DeployTypeOK
  <2> QED  BY <1>1, <2>1, <2>2, FailKeeps
<1>4. CASE outcome = "raised"
  <2>1. stage' = "idle" /\ escaped' = TRUE /\ UNCHANGED <<stepsRan, undone, plan>>
    BY <1>4 DEF ExecuteStep
  <2>2. DeployTypeOK'
    BY <1>1, <2>1 DEF DeployTypeOK
  <2> QED  BY <1>1, <2>1, <2>2 DEF DeployInv, InOrder, GatePassed, StateHolds, ThePlan
<1> QED  BY <1>2, <1>3, <1>4

\* The health check decides the state of a plan whose steps all ran.
LEMMA DeployHealthKeeps ==
    ASSUME DeployInv, NEW outcome \in {"completed", "failed", "raised"}, DeployHealth(outcome)
    PROVE  DeployInv'
<1>1. /\ stage = "health" /\ plan # <<>> /\ DeployTypeOK /\ escaped' = (outcome = "raised")
      /\ UNCHANGED <<deployCfg, command, integrity, stepsRan, forced, deployCalls>>
      /\ Len(stepsRan) = DeploySteps /\ deployCfg.health
  BY DEF DeployHealth, DeployInv, InOrder
<1>2. CASE outcome = "completed"
  <2>1. stage' = "idle" /\ PlanState("HEALTHY") /\ UNCHANGED undone
    BY <1>2 DEF DeployHealth
  <2>2. /\ \E p \in DeployPlans : plan' = <<p>>
        /\ plan' # <<>> /\ ThePlan'.state = "HEALTHY"
        /\ ThePlan'.env = ThePlan.env /\ ThePlan'.rollback = ThePlan.rollback
    BY <1>1, <2>1, PlanStateIs DEF PlanStates
  <2>3. DeployTypeOK'
    BY <1>1, <2>1, <2>2 DEF DeployTypeOK
  <2>4. InOrder' /\ StateHolds'
    BY <1>1, <2>1, <2>2 DEF DeployInv, InOrder, StateHolds
  <2>5. GatePassed'
    BY <1>1, <2>1, <2>2 DEF DeployInv, GatePassed
  <2> QED  BY <2>2, <2>3, <2>4, <2>5 DEF DeployInv
<1>3. CASE outcome = "failed"
  BY <1>1, <1>3, FailKeeps DEF DeployHealth
<1>4. CASE outcome = "raised"
  <2>1. stage' = "idle" /\ escaped' = TRUE /\ UNCHANGED <<undone, plan>>
    BY <1>1, <1>4 DEF DeployHealth
  <2>2. DeployTypeOK'
    BY <1>1, <2>1 DEF DeployTypeOK
  <2> QED  BY <1>1, <2>1, <2>2 DEF DeployInv, InOrder, GatePassed, StateHolds, ThePlan
<1> QED  BY <1>2, <1>3, <1>4

\* A rollback by hand begins with the last step.
LEMMA ManualRollbackKeeps ==
    ASSUME DeployInv, ManualRollback
    PROVE  DeployInv'
<1>1. /\ stage = "idle" /\ plan # <<>> /\ DeployTypeOK /\ PlanState("ROLLING_BACK")
      /\ stage' = "rollback" /\ undone' = <<>> /\ escaped' = FALSE /\ deployCalls' = deployCalls + 1
      /\ UNCHANGED <<deployCfg, command, integrity, stepsRan, forced>>
  BY DEF ManualRollback, DeployIdle, DeployInv
<1>2. /\ \E p \in DeployPlans : plan' = <<p>>
      /\ plan' # <<>> /\ ThePlan'.state = "ROLLING_BACK"
      /\ ThePlan'.env = ThePlan.env /\ ThePlan'.rollback = ThePlan.rollback
  BY <1>1, PlanStateIs DEF PlanStates
<1>3. DeployTypeOK'
  <2>1. deployCalls' \in Nat /\ undone' \in Seq(StepNos)
    BY <1>1, NoneRan DEF DeployTypeOK
  <2> QED  BY <1>1, <1>2, <2>1 DEF DeployTypeOK
<1>4. InOrder' /\ GatePassed' /\ StateHolds'
  BY <1>1, <1>2, DeployStepsAssumption DEF DeployInv, InOrder, GatePassed, StateHolds
<1> QED  BY <1>2, <1>3, <1>4 DEF DeployInv

\* Steps are undone last first; a failed one ends the rollback.
LEMMA RollbackStepKeeps ==
    ASSUME DeployInv, NEW outcome \in {"completed", "failed", "raised"}, RollbackStep(outcome)
    PROVE  DeployInv'
<1>1. /\ stage = "rollback" /\ plan # <<>> /\ DeployTypeOK
      /\ UNCHANGED <<deployCfg, command, integrity, stepsRan, forced, deployCalls>>
  BY DEF RollbackStep, DeployInv
<1>2. CASE outcome = "completed"
  <2>1. PICK n \in Nat : n = Len(undone) /\ n < DeploySteps
    BY <1>1 DEF DeployInv, InOrder, DeployTypeOK
  <2>2. PICK x \in Int : x = DeploySteps - n
    BY <2>1, DeployStepsAssumption
  <2>3. /\ undone' = Append(undone, x) /\ UNCHANGED escaped
        /\ stage' = IF Len(undone') = DeploySteps THEN "idle" ELSE "rollback"
        /\ Len(undone') # DeploySteps => UNCHANGED plan
        /\ Len(undone') = DeploySteps => PlanState("ROLLED_BACK")
    BY <1>2, <2>1, <2>2 DEF RollbackStep, NextUndone
  <2>4. undone \in Seq(StepNos) /\ x \in StepNos
    BY <1>1, <2>1, <2>2, DeployStepsAssumption DEF DeployTypeOK, StepNos
  <2>5. /\ undone' \in Seq(StepNos) /\ Len(undone') = n + 1 /\ n + 1 <= DeploySteps
        /\ \A i \in 1..(n + 1) : undone'[i] = DeploySteps - i + 1
    BY <2>1, <2>2, <2>3, <2>4, DeployStepsAssumption DEF DeployInv, InOrder
  <2>6. CASE n + 1 # DeploySteps
    <3>1. stage' = "rollback" /\ UNCHANGED plan
      BY <2>3, <2>5, <2>6
    <3>2. DeployTypeOK'
      BY <1>1, <2>3, <2>5, <3>1 DEF DeployTypeOK
    <3>3. InOrder'
      <4>1. ThePlan'.state = "ROLLING_BACK"
        BY <1>1, <3>1 DEF DeployInv, InOrder, ThePlan
      <4>2. n + 1 < DeploySteps
        BY <2>5, <2>6, DeployStepsAssumption
      <4> QED  BY <1>1, <2>5, <3>1, <4>1, <4>2 DEF DeployInv, InOrder
    <3>4. GatePassed' /\ StateHolds'
      BY <1>1, <3>1 DEF DeployInv, GatePassed, StateHolds, ThePlan
    <3> QED  BY <1>1, <3>1, <3>2, <3>3, <3>4 DEF DeployInv
  <2>7. CASE n + 1 = DeploySteps
    <3>1. stage' = "idle" /\ PlanState("ROLLED_BACK")
      BY <2>3, <2>5, <2>7
    <3>2. /\ \E p \in DeployPlans : plan' = <<p>>
          /\ plan' # <<>> /\ ThePlan'.state = "ROLLED_BACK"
          /\ ThePlan'.env = ThePlan.env /\ ThePlan'.rollback = ThePlan.rollback
      BY <1>1, <3>1, PlanStateIs DEF PlanStates
    <3>3. DeployTypeOK'
      BY <1>1, <2>3, <2>5, <3>1, <3>2 DEF DeployTypeOK
    <3>4. InOrder'
      BY <1>1, <2>3, <2>5, <2>7, <3>1, DeployStepsAssumption DEF DeployInv, InOrder
    <3>5. GatePassed'
      BY <1>1, <3>1, <3>2 DEF DeployInv, GatePassed
    <3>6. StateHolds'
      BY <1>1, <2>5, <2>7, <3>1, <3>2 DEF StateHolds
    <3> QED  BY <3>2, <3>3, <3>4, <3>5, <3>6 DEF DeployInv
  <2> QED  BY <2>6, <2>7
<1>3. CASE outcome = "failed"
  <2>1. stage' = "idle" /\ UNCHANGED undone /\ escaped' = FALSE /\ PlanState("FAILED")
    BY <1>3 DEF RollbackStep
  <2>2. /\ \E p \in DeployPlans : plan' = <<p>>
        /\ plan' # <<>> /\ ThePlan'.state = "FAILED"
        /\ ThePlan'.env = ThePlan.env /\ ThePlan'.rollback = ThePlan.rollback
    BY <1>1, <2>1, PlanStateIs DEF PlanStates
  <2>3. DeployTypeOK'
    BY <1>1, <2>1, <2>2 DEF DeployTypeOK
  <2>4. InOrder' /\ StateHolds'
    BY <1>1, <2>1, <2>2 DEF DeployInv, InOrder, StateHolds
  <2>5. GatePassed'
    BY <1>1, <2>1, <2>2 DEF DeployInv, GatePassed
  <2> QED  BY <2>2, <2>3, <2>4, <2>5 DEF DeployInv
<1>4. CASE outcome = "raised"
  <2>1. stage' = "idle" /\ UNCHANGED <<undone, plan>> /\ escaped' = TRUE
    BY <1>4 DEF RollbackStep
  <2>2. DeployTypeOK'
    BY <1>1, <2>1 DEF DeployTypeOK
  <2> QED  BY <1>1, <2>1, <2>2 DEF DeployInv, InOrder, GatePassed, StateHolds, ThePlan
<1> QED  BY <1>2, <1>3, <1>4

\* Every step of the deployment adapter keeps the invariant.
LEMMA DeployStepKeeps == DeployInv /\ [DeployNext]_deployVars => DeployInv'
<1> SUFFICES ASSUME DeployInv, [DeployNext]_deployVars
             PROVE  DeployInv'
  OBVIOUS
<1>1. CASE UNCHANGED deployVars
  BY <1>1 DEF deployVars, DeployInv, DeployTypeOK, InOrder, GatePassed, StateHolds, ThePlan
<1>2. CASE DeployNext
  BY <1>2, CreateKeeps, EditKeeps, PreviewKeeps, StartExecuteKeeps, ExecuteStepKeeps, DeployHealthKeeps,
     RollbackStepKeeps, ManualRollbackKeeps DEF DeployNext
<1> QED  BY <1>1, <1>2

\* Without a plan the invariant holds.
LEMMA DeployStarts == DeployInit => DeployInv
<1> SUFFICES ASSUME DeployInit PROVE DeployInv
  OBVIOUS
<1>1. DeployTypeOK
  BY NoneRan DEF DeployInit, DeployTypeOK, DeployConfigs
<1> QED  BY <1>1, DeployStepsAssumption DEF DeployInit, DeployInv, InOrder, GatePassed, StateHolds

\* The invariant implies what is promised of a deployment.
LEMMA DeployEnough == DeployInv => DeploymentSound
<1> SUFFICES ASSUME DeployInv PROVE DeploymentSound
  OBVIOUS
<1>1. DeploySteps \in Nat /\ DeployTypeOK
  BY DeployStepsAssumption DEF DeployInv
<1>2. Len(stepsRan) = DeploySteps => stepsRan = [i \in StepNos |-> i]
  BY <1>1 DEF DeployInv, DeployTypeOK, InOrder, StepNos
<1>3. Len(undone) = DeploySteps => undone = Reverse([i \in StepNos |-> i])
  <2>1. PICK s : s = [i \in 1..DeploySteps |-> i]
    OBVIOUS
  <2>2. s \in Seq(Nat) /\ Len(s) = DeploySteps
    BY <1>1, <2>1
  <2>3. \A i \in 1..DeploySteps : s[(DeploySteps - i) + 1] = DeploySteps - i + 1
    BY <1>1, <2>1
  <2>4. Reverse(s) = [i \in 1..DeploySteps |-> DeploySteps - i + 1]
    BY <2>2, <2>3 DEF Reverse
  <2>5. Len(undone) = DeploySteps => undone = [i \in 1..DeploySteps |-> DeploySteps - i + 1]
    BY <1>1 DEF DeployInv, DeployTypeOK, InOrder
  <2> QED  BY <2>1, <2>4, <2>5 DEF StepNos
<1> QED  BY <1>2, <1>3 DEF DeployInv, DeploymentSound, GatePassed, StateHolds, DeployIdle

\* A production plan runs behind its gate, in order, and what it says of
\* itself is so (deployment_adapter.py).
THEOREM DeploymentTheorem == DeploySpec => []DeploymentSound
  BY DeployStarts, DeployStepKeeps, DeployEnough, PTL DEF DeploySpec

------------------------------------------------------------------------------
(* The capability registry. *)

\* An outcome held in memory.
HeldOutcome == [key : OutcomeKeys, ev : Nat, saved : BOOLEAN]

\* An outcome in the store, with a reference or without.
StoredOutcome == [key : OutcomeKeys, ev : 0..1]

\* The types of the registry.
CapTypeOK ==
    /\ capHistory \in [Caps -> Seq(HeldOutcome)]
    /\ capStore \in [Caps -> Seq(StoredOutcome)]

\* The row of a capability at a position is stored with a key.
HasKey(s, i, key) == i \in DOMAIN s /\ s[i].key = key

\* A key is stored once, for one capability.
StoresOnce(store) ==
    \A c, d \in Caps : \A i, j, key :
        HasKey(store[c], i, key) /\ HasKey(store[d], j, key) /\ key # "" => c = d /\ i = j

\* The registry's store does.
KeyStoredOnce == StoresOnce(capStore)

\* The saved outcomes of a history are in order the stored ones.
Follows(h, s) ==
    /\ SavedUpTo(h, Len(h)) = Len(s)
    /\ \A i \in DOMAIN h : h[i].saved => h[i].key = s[SavedUpTo(h, i)].key

\* Every history that was not dropped follows the store.
HistoryFollows == \A c \in Caps \ capReset : Follows(capHistory[c], capStore[c])

\* A score counts no more evidence than there are outcomes.
ScoreSound ==
    /\ DOMAIN capScores \subseteq Caps
    /\ capScores \in [DOMAIN capScores -> [conf : 1..10, evidence : Nat]]
    /\ \A c \in DOMAIN capScores : capScores[c].evidence <= Len(capHistory[c])

\* The inductive invariant of the registry.
CapInv == CapTypeOK /\ KeyStoredOnce /\ HistoryFollows /\ ScoreSound

\* The positions up to a number are as many.
LEMMA Positions ==
    ASSUME NEW n \in Nat
    PROVE  IsFiniteSet(1..n) /\ Cardinality(1..n) = n
<1>1. PICK one \in Int : one = 1
  OBVIOUS
<1>2. IsFiniteSet(one..n) /\ Cardinality(one..n) = IF one > n THEN 0 ELSE n - one + 1
  BY FS_Interval
<1> QED  BY <1>1, <1>2

\* A function on them is a sequence.
LEMMA IsSequence ==
    ASSUME NEW S, NEW n \in Nat, NEW f \in [1..n -> S]
    PROVE  f \in Seq(S) /\ Len(f) = n /\ DOMAIN f = 1..n
<1>1. f \in Seq(S)
  OBVIOUS
<1> QED  BY <1>1

\* Some of them are no more.
LEMMA SomePositions ==
    ASSUME NEW n \in Nat, NEW T \in SUBSET (1..n)
    PROVE  IsFiniteSet(T) /\ Cardinality(T) \in Nat /\ Cardinality(T) <= n
<1>1. IsFiniteSet(1..n) /\ Cardinality(1..n) = n
  BY Positions
<1>2. IsFiniteSet(T) /\ Cardinality(T) <= Cardinality(1..n)
  BY <1>1, FS_Subset
<1> QED  BY <1>1, <1>2, FS_CardinalityType

\* The saved outcomes among the first ones are counted.
LEMMA SavedIs ==
    ASSUME NEW h \in Seq(HeldOutcome), NEW n \in 0..Len(h)
    PROVE  /\ SavedUpTo(h, n) \in Nat /\ SavedUpTo(h, n) <= SavedUpTo(h, Len(h))
           /\ n \in DOMAIN h /\ h[n].saved => SavedUpTo(h, n) >= 1
<1> DEFINE U(m) == {j \in 1..m : h[j].saved}
<1>1. U(n) \subseteq U(Len(h)) /\ U(n) \in SUBSET (1..n) /\ U(Len(h)) \in SUBSET (1..Len(h))
  OBVIOUS
<1>2. IsFiniteSet(U(n)) /\ IsFiniteSet(U(Len(h))) /\ Cardinality(U(n)) \in Nat
  BY <1>1, SomePositions
<1>3. Cardinality(U(n)) <= Cardinality(U(Len(h)))
  BY <1>1, <1>2, FS_Subset
<1>4. ASSUME n \in DOMAIN h, h[n].saved PROVE Cardinality(U(n)) >= 1
  <2>1. n \in U(n)
    BY <1>4
  <2>2. Cardinality(U(n)) # 0
    BY <1>2, <2>1, FS_EmptySet
  <2> QED  BY <1>2, <2>2
<1> QED  BY <1>2, <1>3, <1>4 DEF SavedUpTo

\* One more outcome counts if it is saved, and changes no earlier count.
LEMMA SavedAppended ==
    ASSUME NEW h \in Seq(HeldOutcome), NEW e \in HeldOutcome
    PROVE  LET g == Append(h, e) IN
           /\ \A n \in 0..Len(h) : SavedUpTo(g, n) = SavedUpTo(h, n)
           /\ SavedUpTo(g, Len(g)) = SavedUpTo(h, Len(h)) + (IF e.saved THEN 1 ELSE 0)
<1> DEFINE g == Append(h, e)
<1>1. g \in Seq(HeldOutcome) /\ Len(g) = Len(h) + 1 /\ g[Len(h) + 1] = e /\ Len(h) \in Nat
      /\ \A j \in 1..Len(h) : g[j] = h[j]
  OBVIOUS
<1> HIDE DEF g
<1>2. ASSUME NEW n \in 0..Len(h) PROVE SavedUpTo(g, n) = SavedUpTo(h, n)
  <2>1. {j \in 1..n : g[j].saved} = {j \in 1..n : h[j].saved}
    BY <1>1
  <2> QED  BY <2>1 DEF SavedUpTo
<1> DEFINE U == {j \in 1..Len(h) : h[j].saved}
<1>3. IsFiniteSet(U) /\ Cardinality(U) \in Nat
  BY <1>1, SomePositions
<1>4. CASE e.saved
  <2>1. {j \in 1..Len(g) : g[j].saved} = U \cup {Len(h) + 1}
    BY <1>1, <1>4
  <2>2. Len(h) + 1 \notin U
    BY <1>1
  <2>3. Cardinality(U \cup {Len(h) + 1}) = Cardinality(U) + 1
    BY <1>3, <2>2, FS_AddElement
  <2> QED  BY <1>2, <1>4, <2>1, <2>3 DEF SavedUpTo, g
<1>5. CASE ~e.saved
  <2>1. {j \in 1..Len(g) : g[j].saved} = U
    BY <1>1, <1>5
  <2>2. SavedUpTo(g, Len(g)) = Cardinality(U) /\ SavedUpTo(h, Len(h)) = Cardinality(U)
    BY <2>1 DEF SavedUpTo
  <2> QED  BY <1>2, <1>3, <1>5, <2>2 DEF g
<1> QED  BY <1>4, <1>5

\* An outcome recorded in memory and in the store, or in memory alone, keeps the order.
LEMMA FollowsOn ==
    ASSUME NEW h \in Seq(HeldOutcome), NEW s \in Seq(StoredOutcome), Follows(h, s),
           NEW e \in HeldOutcome, NEW r \in StoredOutcome, r.key = e.key
    PROVE  Follows(Append(h, e), IF e.saved THEN Append(s, r) ELSE s)
<1> DEFINE g == Append(h, e)
           t == IF e.saved THEN Append(s, r) ELSE s
<1>1. /\ Len(g) = Len(h) + 1 /\ g[Len(h) + 1] = e /\ Len(h) \in Nat /\ Len(s) \in Nat
      /\ \A j \in 1..Len(h) : g[j] = h[j]
      /\ DOMAIN g = 1..(Len(h) + 1) /\ DOMAIN h = 1..Len(h)
  OBVIOUS
<1>2. /\ \A j \in 1..Len(s) : t[j] = s[j]
      /\ Len(t) = Len(s) + (IF e.saved THEN 1 ELSE 0)
      /\ e.saved => t[Len(s) + 1] = r
  OBVIOUS
<1>3. /\ \A n \in 0..Len(h) : SavedUpTo(g, n) = SavedUpTo(h, n)
      /\ SavedUpTo(g, Len(g)) = SavedUpTo(h, Len(h)) + (IF e.saved THEN 1 ELSE 0)
  BY SavedAppended
<1>4. SavedUpTo(h, Len(h)) = Len(s)
  BY DEF Follows
<1>5. SavedUpTo(g, Len(g)) = Len(t)
  BY <1>2, <1>3, <1>4
<1> HIDE DEF g, t
<1>6. ASSUME NEW i \in DOMAIN g, g[i].saved PROVE g[i].key = t[SavedUpTo(g, i)].key
  <2>1. CASE i \in 1..Len(h)
    <3>1. h[i].saved /\ i \in DOMAIN h /\ i \in 0..Len(h) /\ g[i] = h[i]
      BY <1>1, <1>6, <2>1
    <3>2. SavedUpTo(h, i) \in 1..Len(s)
      BY <1>4, <3>1, SavedIs
    <3> QED  BY <1>2, <1>3, <3>1, <3>2 DEF Follows
  <2>2. CASE i = Len(h) + 1
    <3>1. e.saved /\ SavedUpTo(g, i) = Len(s) + 1
      BY <1>1, <1>3, <1>4, <1>6, <2>2
    <3> QED  BY <1>1, <1>2, <2>2, <3>1
  <2> QED  BY <1>1, <1>6, <2>1, <2>2
<1> QED  BY <1>5, <1>6 DEF Follows, g, t

\* References set anywhere in a history leave a history.
LEMMA EvidenceType ==
    ASSUME NEW h \in Seq(HeldOutcome), NEW i, NEW ev \in Nat
    PROVE  LET g == [h EXCEPT ![i].ev = ev] IN
           /\ g \in Seq(HeldOutcome) /\ Len(g) = Len(h)
           /\ \A j \in DOMAIN h : g[j].key = h[j].key /\ (g[j].saved <=> h[j].saved)
<1> DEFINE g == [h EXCEPT ![i].ev = ev]
<1>1. ASSUME NEW j \in DOMAIN h
      PROVE  /\ [h[j] EXCEPT !.ev = ev] \in HeldOutcome
             /\ [h[j] EXCEPT !.ev = ev].key = h[j].key
             /\ [h[j] EXCEPT !.ev = ev].saved = h[j].saved
  <2>1. PICK o \in HeldOutcome : o = h[j]
    OBVIOUS
  <2>2. /\ [o EXCEPT !.ev = ev] \in HeldOutcome
        /\ [o EXCEPT !.ev = ev].key = o.key /\ [o EXCEPT !.ev = ev].saved = o.saved
    BY DEF HeldOutcome
  <2> QED  BY <2>1, <2>2
<1>3. \A j \in DOMAIN h : g[j] = h[j] \/ g[j] = [h[j] EXCEPT !.ev = ev]
  OBVIOUS
<1>a. \A j \in DOMAIN h : g[j] \in HeldOutcome
  BY <1>1, <1>3
<1>b. DOMAIN h = 1..Len(h) /\ Len(h) \in Nat /\ DOMAIN g = DOMAIN h /\ g = [j \in 1..Len(h) |-> g[j]]
  OBVIOUS
<1>2. g \in Seq(HeldOutcome) /\ Len(g) = Len(h)
  <2>1. g \in [1..Len(h) -> HeldOutcome]
    BY <1>a, <1>b
  <2> QED  BY <1>b, <2>1, IsSequence
<1>4. \A j \in DOMAIN h : g[j].key = h[j].key /\ (g[j].saved <=> h[j].saved)
  BY <1>1, <1>3
<1> QED  BY <1>2, <1>4

\* References set anywhere in a history change neither its keys nor what was saved.
LEMMA EvidenceSet ==
    ASSUME NEW h \in Seq(HeldOutcome), NEW i, NEW ev \in Nat, NEW s, Follows(h, s)
    PROVE  LET g == [h EXCEPT ![i].ev = ev] IN
           g \in Seq(HeldOutcome) /\ Len(g) = Len(h) /\ Follows(g, s)
<1> DEFINE g == [h EXCEPT ![i].ev = ev]
<1>1. g \in Seq(HeldOutcome) /\ Len(g) = Len(h)
  BY EvidenceType
<1>2. DOMAIN g = DOMAIN h /\ DOMAIN h = 1..Len(h) /\ Len(h) \in Nat
  OBVIOUS
<1>4. \A j \in DOMAIN h : g[j].key = h[j].key /\ (g[j].saved <=> h[j].saved)
  BY EvidenceType
<1> HIDE DEF g
<1>5. ASSUME NEW n \in 0..Len(h) PROVE SavedUpTo(g, n) = SavedUpTo(h, n)
  <2>1. {j \in 1..n : g[j].saved} = {j \in 1..n : h[j].saved}
    BY <1>2, <1>4
  <2> QED  BY <2>1 DEF SavedUpTo
<1>6. \A j \in DOMAIN g : g[j].saved => g[j].key = s[SavedUpTo(g, j)].key
  BY <1>2, <1>4, <1>5 DEF Follows
<1>7. SavedUpTo(g, Len(g)) = Len(s)
  BY <1>1, <1>2, <1>5 DEF Follows
<1> QED  BY <1>1, <1>6, <1>7 DEF Follows, g

\* A loaded history follows the store, and has at most one reference an outcome.
LEMMA LoadedFollows ==
    ASSUME CapTypeOK, NEW c \in Caps
    PROVE  LET h == LoadedHistory(c) IN
           /\ h \in Seq(HeldOutcome) /\ Follows(h, capStore[c])
           /\ References(h) \in Nat /\ References(h) <= Len(h)
<1> DEFINE h == LoadedHistory(c)
<1>1. PICK s \in Seq(StoredOutcome) : s = capStore[c]
  BY DEF CapTypeOK
<1>a. DOMAIN s = 1..Len(s) /\ Len(s) \in Nat /\ \A i \in 1..Len(s) : s[i] \in StoredOutcome
  OBVIOUS
<1>2. /\ DOMAIN s = 1..Len(s) /\ Len(s) \in Nat
      /\ \A i \in 1..Len(s) : s[i].key \in OutcomeKeys /\ s[i].ev \in 0..1
  BY <1>a DEF StoredOutcome
<1>3. h = [i \in 1..Len(s) |-> [key |-> s[i].key, ev |-> s[i].ev, saved |-> TRUE]]
  BY <1>1, <1>2 DEF LoadedHistory
<1>4. ASSUME NEW i \in 1..Len(s)
      PROVE  h[i] \in HeldOutcome /\ h[i].saved /\ h[i].key = s[i].key /\ h[i].ev \in 0..1
  <2>1. TRUE \in BOOLEAN
    BY Zenon
  <2> QED  BY <1>2, <1>3, <2>1 DEF HeldOutcome
<1>5. h \in Seq(HeldOutcome) /\ Len(h) = Len(s) /\ DOMAIN h = 1..Len(s)
  <2>1. h \in [1..Len(s) -> HeldOutcome]
    BY <1>3, <1>4
  <2> QED  BY <1>2, <2>1, IsSequence
<1> HIDE DEF h
<1>6. ASSUME NEW n \in 0..Len(s) PROVE SavedUpTo(h, n) = n
  <2>1. {j \in 1..n : h[j].saved} = 1..n
    BY <1>2, <1>4
  <2>2. n \in Nat
    BY <1>2
  <2> QED  BY <2>1, <2>2, Positions DEF SavedUpTo
<1>7. Follows(h, s)
  <2>1. SavedUpTo(h, Len(h)) = Len(s)
    BY <1>2, <1>5, <1>6
  <2>2. \A i \in 1..Len(s) : SavedUpTo(h, i) = i /\ h[i].key = s[i].key
    BY <1>2, <1>4, <1>6
  <2> QED  BY <1>5, <2>1, <2>2 DEF Follows
<1> DEFINE Refs == UNION {{i} \X (1..h[i].ev) : i \in DOMAIN h}
           F == [i \in 1..Len(s) |-> <<i, 1>>]
           Ones == {<<i, 1>> : i \in 1..Len(s)}
<1>8. IsFiniteSet(Ones) /\ Cardinality(Ones) <= Len(s)
  <2>1. F \in Surjection(1..Len(s), Ones)
    BY DEF Surjection
  <2>2. IsFiniteSet(1..Len(s)) /\ Cardinality(1..Len(s)) = Len(s)
    BY <1>2, Positions
  <2> QED  BY <2>1, <2>2, FS_Surjection
<1>9. Refs \subseteq Ones
  <2>1. ASSUME NEW i \in DOMAIN h, NEW e \in {i} \X (1..h[i].ev) PROVE e \in Ones
    <3>1. PICK n \in 1..h[i].ev : e = <<i, n>>
      BY <2>1
    <3>0. i \in 1..Len(s)
      BY <1>5
    <3>a. h[i].ev = 0 \/ h[i].ev = 1
      BY <1>4, <3>0
    <3>2. n = 1
      BY <3>1, <3>a
    <3> QED  BY <1>5, <3>1, <3>2
  <2> QED  BY <2>1
<1>10. IsFiniteSet(Refs) /\ Cardinality(Refs) <= Cardinality(Ones) /\ Cardinality(Refs) \in Nat
       /\ Cardinality(Ones) \in Nat
  BY <1>8, <1>9, FS_Subset, FS_CardinalityType
<1>11. References(h) = Cardinality(Refs)
  BY DEF References
<1>12. References(h) \in Nat /\ References(h) <= Len(h)
  BY <1>2, <1>5, <1>8, <1>10, <1>11
<1> QED  BY <1>1, <1>5, <1>7, <1>12 DEF h

\* The confidence of any number of outcomes is within its bounds.
LEMMA ConfidenceType == ASSUME NEW n \in Nat PROVE Confidence(n) \in 1..10
BY DEF Confidence

\* What an outcome of record_history leaves in memory and in the store: the keys
\* stay stored once and the history follows the store.
LEMMA OutcomeKeeps ==
    ASSUME CapTypeOK, KeyStoredOnce, NEW c \in Caps, NEW key \in OutcomeKeys, NEW ev \in Nat,
           NEW saved \in BOOLEAN, capStore' = StoreAfter(c, key, ev, saved)
    PROVE  LET h == HistoryAfter(c, key, ev, saved) IN
           /\ h \in Seq(HeldOutcome) /\ Len(h) >= Len(capHistory[c]) /\ Len(h) \in Nat
           /\ Len(capHistory[c]) \in Nat
           /\ capStore' \in [Caps -> Seq(StoredOutcome)]
           /\ KeyStoredOnce'
           /\ \A d \in Caps \ {c} : capStore'[d] = capStore[d]
           /\ Follows(capHistory[c], capStore[c]) => Follows(h, capStore'[c])
<1> DEFINE h == HistoryAfter(c, key, ev, saved)
<1>0. capHistory[c] \in Seq(HeldOutcome) /\ capStore[c] \in Seq(StoredOutcome)
      /\ Len(capHistory[c]) \in Nat
  BY DEF CapTypeOK
<1>1. CASE Known(c, key)
  <2>1. h = capHistory[c] /\ capStore' = capStore
    BY <1>1 DEF HistoryAfter, StoreAfter
  <2> QED  BY <1>0, <2>1 DEF CapTypeOK, KeyStoredOnce
<1>2. CASE ~Known(c, key)
  <2>1. PICK e \in HeldOutcome : /\ e = [key |-> key, ev |-> ev, saved |-> saved]
                                 /\ e.key = key /\ e.saved = saved
    <3>1. [key |-> key, ev |-> ev, saved |-> saved] \in HeldOutcome
      BY DEF HeldOutcome
    <3> QED  BY <3>1
  <2>2. PICK r \in StoredOutcome : r = [key |-> key, ev |-> IF ev > 0 THEN 1 ELSE 0] /\ r.key = key
    <3>1. [key |-> key, ev |-> IF ev > 0 THEN 1 ELSE 0] \in StoredOutcome
      BY DEF StoredOutcome
    <3> QED  BY <3>1
  <2>3. h = Append(capHistory[c], e)
    BY <1>2, <2>1 DEF HistoryAfter
  <2>4. h \in Seq(HeldOutcome) /\ Len(h) = Len(capHistory[c]) + 1
    BY <1>0, <2>3
  <2>5. CASE ~saved
    <3>1. capStore' = capStore
      BY <2>5 DEF StoreAfter
    <3>2. ASSUME Follows(capHistory[c], capStore[c]) PROVE Follows(h, capStore'[c])
      <4>1. Follows(Append(capHistory[c], e), IF e.saved THEN Append(capStore[c], r) ELSE capStore[c])
        BY <1>0, <2>1, <2>2, <3>2, FollowsOn
      <4>2. Follows(Append(capHistory[c], e), capStore[c])
        BY <2>1, <2>5, <4>1
      <4> QED  BY <2>3, <3>1, <4>2
    <3> QED  BY <1>0, <2>4, <3>1, <3>2 DEF CapTypeOK, KeyStoredOnce
  <2>6. CASE saved
    <3>1. capStore' = [capStore EXCEPT ![c] = Append(capStore[c], r)]
      BY <1>2, <2>2, <2>6 DEF StoreAfter
    <3>2. /\ \A d \in Caps : capStore'[d] = IF d = c THEN Append(capStore[c], r) ELSE capStore[d]
          /\ capStore' \in [Caps -> Seq(StoredOutcome)]
      BY <1>0, <3>1 DEF CapTypeOK
    <3>3. ASSUME Follows(capHistory[c], capStore[c]) PROVE Follows(h, capStore'[c])
      <4>1. Follows(Append(capHistory[c], e), IF e.saved THEN Append(capStore[c], r) ELSE capStore[c])
        BY <1>0, <2>1, <2>2, <3>3, FollowsOn
      <4>2. Follows(Append(capHistory[c], e), Append(capStore[c], r))
        BY <2>1, <2>6, <4>1
      <4> QED  BY <2>3, <3>2, <4>2
    <3>4. ASSUME NEW d \in Caps, NEW i, NEW k, HasKey(capStore'[d], i, k)
          PROVE  HasKey(capStore[d], i, k) \/ (d = c /\ i = Len(capStore[c]) + 1 /\ k = key)
      <4>1. CASE d # c
        BY <3>2, <3>4, <4>1
      <4>2. CASE d = c
        <5>1. PICK s \in Seq(StoredOutcome) : s = capStore[c]
          BY <1>0
        <5>2. HasKey(Append(s, r), i, k)
          BY <3>2, <3>4, <4>2, <5>1
        <5>3. /\ DOMAIN Append(s, r) = 1..(Len(s) + 1) /\ Append(s, r)[Len(s) + 1] = r
              /\ \A n \in 1..Len(s) : Append(s, r)[n] = s[n]
              /\ DOMAIN s = 1..Len(s) /\ Len(s) \in Nat
          OBVIOUS
        <5>4. i \in 1..Len(s) \/ i = Len(s) + 1
          BY <5>2, <5>3 DEF HasKey
        <5> QED  BY <2>2, <4>2, <5>1, <5>2, <5>3, <5>4 DEF HasKey
      <4> QED  BY <4>1, <4>2
    <3>5. ASSUME key # "", NEW d \in Caps, NEW i, HasKey(capStore[d], i, key)
          PROVE  FALSE
      BY <1>2, <3>5 DEF Known, Stored, HasKey
    <3>6. KeyStoredOnce'
      <4>1. ASSUME NEW d \in Caps, NEW b \in Caps, NEW i, NEW j, NEW k,
                   HasKey(capStore'[d], i, k), HasKey(capStore'[b], j, k), k # ""
            PROVE  d = b /\ i = j
        <5>1. HasKey(capStore[d], i, k) /\ HasKey(capStore[b], j, k) => d = b /\ i = j
          BY <4>1 DEF KeyStoredOnce, StoresOnce
        <5>2. HasKey(capStore[d], i, k) \/ (d = c /\ i = Len(capStore[c]) + 1 /\ k = key)
          BY <3>4, <4>1
        <5>3. HasKey(capStore[b], j, k) \/ (b = c /\ j = Len(capStore[c]) + 1 /\ k = key)
          BY <3>4, <4>1
        <5>4. k = key => ~HasKey(capStore[d], i, k) /\ ~HasKey(capStore[b], j, k)
          BY <3>5, <4>1
        <5> QED  BY <5>1, <5>2, <5>3, <5>4
      <4> QED  BY <4>1 DEF KeyStoredOnce, StoresOnce
    <3> QED  BY <1>0, <2>4, <3>2, <3>3, <3>6
  <2> QED  BY <2>5, <2>6
<1> QED  BY <1>1, <1>2

\* Every step of the registry keeps its invariant.
LEMMA CapStep == CapInv /\ [CapNext]_capVars => CapInv'
<1> SUFFICES ASSUME CapInv, [CapNext]_capVars
             PROVE  CapInv'
  OBVIOUS
<1> USE DEF CapInv
<1>1. CASE UNCHANGED capVars
  BY <1>1 DEF capVars, CapTypeOK, KeyStoredOnce, HistoryFollows, ScoreSound
<1>2. ASSUME NEW c \in Caps, RegisterV2(c)
      PROVE  CapInv'
  <2>0. capStore' = capStore /\ capHistory' = [capHistory EXCEPT ![c] = <<>>]
        /\ capScores' = Put(capScores, c, [conf |-> 5, evidence |-> 0])
        /\ capReset' = IF capHistory[c] # <<>> THEN capReset \cup {c} ELSE capReset
    BY <1>2 DEF RegisterV2
  <2>1. <<>> \in Seq(HeldOutcome)
    OBVIOUS
  <2>2. CapTypeOK' /\ KeyStoredOnce'
    BY <2>0, <2>1 DEF CapTypeOK, KeyStoredOnce
  <2>3. \A d \in Caps : capHistory'[d] = IF d = c THEN <<>> ELSE capHistory[d]
    BY <2>0 DEF CapTypeOK
  <2>4. HistoryFollows'
    <3>1. ASSUME NEW d \in Caps \ capReset' PROVE d \notin capReset /\ capHistory'[d] = capHistory[d]
      BY <2>0, <2>3, <3>1
    <3> QED  BY <2>0, <3>1 DEF HistoryFollows
  <2>5. [conf |-> 5, evidence |-> 0] \in [conf : 1..10, evidence : Nat]
    OBVIOUS
  <2>6. /\ DOMAIN capScores' = DOMAIN capScores \cup {c}
        /\ \A d \in DOMAIN capScores' :
              capScores'[d] = IF d = c THEN [conf |-> 5, evidence |-> 0] ELSE capScores[d]
        /\ capScores' = [d \in DOMAIN capScores' |-> capScores'[d]]
    BY <2>0 DEF Put
  <2>7. Len(<<>>) = 0 /\ [conf |-> 5, evidence |-> 0].evidence = 0
    OBVIOUS
  <2>8. ASSUME NEW d \in DOMAIN capScores'
        PROVE  /\ capScores'[d] \in [conf : 1..10, evidence : Nat]
               /\ capScores'[d].evidence <= Len(capHistory'[d])
    <3>1. CASE d = c
      BY <2>3, <2>5, <2>6, <2>7, <3>1
    <3>2. CASE d # c
      BY <2>3, <2>6, <2>8, <3>2 DEF ScoreSound
    <3> QED  BY <3>1, <3>2
  <2>9. ScoreSound'
    BY <2>6, <2>8 DEF ScoreSound
  <2> QED  BY <2>2, <2>4, <2>9
<1>3. ASSUME NEW c \in Caps, GetScoreOverdue(c, 4)
      PROVE  CapInv'
  <2>0. UNCHANGED <<capHistory, capStore, capReset>> /\ c \in DOMAIN capScores
    BY <1>3 DEF GetScoreOverdue
  <2>1. PICK old \in [conf : 1..10, evidence : Nat] : old = capScores[c]
    BY <2>0 DEF ScoreSound
  <2>2. PICK n \in 1..10 : n = IF old.conf - 4 > 1 THEN old.conf - 4 ELSE 1
    BY <2>1
  <2>3. capScores' = [capScores EXCEPT ![c].conf = n]
    BY <1>3, <2>1, <2>2 DEF GetScoreOverdue
  <2>4. PICK new : new = [old EXCEPT !.conf = n]
    OBVIOUS
  <2>5. new \in [conf : 1..10, evidence : Nat] /\ new.evidence = old.evidence
    BY <2>4
  <2>6. /\ DOMAIN capScores' = DOMAIN capScores
        /\ \A d \in DOMAIN capScores : capScores'[d] = IF d = c THEN new ELSE capScores[d]
        /\ capScores' = [d \in DOMAIN capScores' |-> capScores'[d]]
    BY <2>1, <2>3, <2>4 DEF ScoreSound
  <2>7. ASSUME NEW d \in DOMAIN capScores'
        PROVE  /\ capScores'[d] \in [conf : 1..10, evidence : Nat]
               /\ capScores'[d].evidence <= Len(capHistory'[d])
    BY <2>0, <2>1, <2>5, <2>6 DEF ScoreSound
  <2>8. ScoreSound'
    BY <2>6, <2>7 DEF ScoreSound
  <2> QED  BY <2>0, <2>8 DEF CapTypeOK, KeyStoredOnce, HistoryFollows
<1>4. ASSUME NEW c \in Caps, NEW key \in OutcomeKeys, NEW ev \in Nat, NEW saved \in BOOLEAN,
             RecordHistory(c, key, ev, saved)
      PROVE  CapInv'
  <2> DEFINE h == HistoryAfter(c, key, ev, saved)
  <2>0. /\ capHistory' = [capHistory EXCEPT ![c] = h]
        /\ capStore' = StoreAfter(c, key, ev, saved)
        /\ UNCHANGED <<capScores, capReset>>
    BY <1>4 DEF RecordHistory
  <2> HIDE DEF h
  <2>1. /\ h \in Seq(HeldOutcome) /\ Len(h) >= Len(capHistory[c]) /\ Len(h) \in Nat
        /\ Len(capHistory[c]) \in Nat
        /\ capStore' \in [Caps -> Seq(StoredOutcome)] /\ KeyStoredOnce'
        /\ \A d \in Caps \ {c} : capStore'[d] = capStore[d]
        /\ Follows(capHistory[c], capStore[c]) => Follows(h, capStore'[c])
    BY <2>0, OutcomeKeeps DEF h
  <2>2. \A d \in Caps : capHistory'[d] = IF d = c THEN h ELSE capHistory[d]
    BY <2>0 DEF CapTypeOK
  <2>3. CapTypeOK'
    BY <2>0, <2>1 DEF CapTypeOK
  <2>4. HistoryFollows'
    BY <2>0, <2>1, <2>2 DEF HistoryFollows
  <2>5. ScoreSound'
    BY <2>0, <2>1, <2>2 DEF ScoreSound
  <2> QED  BY <2>1, <2>3, <2>4, <2>5
<1>5. ASSUME NEW c \in Caps, NEW key \in OutcomeKeys, NEW ev \in Nat, UpdateScore(c, key, ev)
      PROVE  CapInv'
  <2> DEFINE h == HistoryAfter(c, key, ev, TRUE)
             at == TargetEntry(h, key)
             full == IF h = <<>> THEN h ELSE [h EXCEPT ![at].ev = ev]
  <2>0. /\ capHistory' = [capHistory EXCEPT ![c] = full]
        /\ capScores' = IF full = <<>> THEN capScores
                        ELSE [capScores EXCEPT ![c] = [conf |-> Confidence(Evidenced(full)),
                                                       evidence |-> Evidenced(full)]]
        /\ capStore' = StoreAfter(c, key, ev, TRUE)
        /\ capReset' = capReset /\ c \in DOMAIN capScores
    BY <1>5 DEF UpdateScore
  <2> HIDE DEF h, at
  <2>1. /\ h \in Seq(HeldOutcome) /\ Len(h) >= Len(capHistory[c]) /\ Len(h) \in Nat
        /\ Len(capHistory[c]) \in Nat
        /\ capStore' \in [Caps -> Seq(StoredOutcome)] /\ KeyStoredOnce'
        /\ \A d \in Caps \ {c} : capStore'[d] = capStore[d]
        /\ Follows(capHistory[c], capStore[c]) => Follows(h, capStore'[c])
    <3>1. TRUE \in BOOLEAN
      BY Zenon
    <3> QED  BY <2>0, <3>1, OutcomeKeeps DEF h
  <2>2. /\ full \in Seq(HeldOutcome) /\ Len(full) = Len(h)
        /\ Follows(capHistory[c], capStore[c]) => Follows(full, capStore'[c])
        /\ full = <<>> => h = <<>>
    <3>1. CASE h = <<>>
      BY <2>1, <3>1
    <3>2. CASE h # <<>>
      <4>1. full = [h EXCEPT ![at].ev = ev]
        BY <3>2
      <4>2. ASSUME NEW s, Follows(h, s)
            PROVE  full \in Seq(HeldOutcome) /\ Len(full) = Len(h) /\ Follows(full, s)
        BY <2>1, <4>1, <4>2, EvidenceSet
      <4>3. full \in Seq(HeldOutcome) /\ Len(full) = Len(h)
        BY <2>1, <4>1, EvidenceType
      <4>4. h # <<>> => Len(h) # 0
        BY <2>1
      <4>5. full = <<>> => Len(full) = 0
        OBVIOUS
      <4> HIDE DEF full
      <4> QED  BY <2>1, <3>2, <4>2, <4>3, <4>4, <4>5
    <3> QED  BY <3>1, <3>2
  <2>3. Evidenced(full) \in Nat /\ Evidenced(full) <= Len(full)
    <3>1. {i \in DOMAIN full : full[i].ev > 0} \in SUBSET (1..Len(full)) /\ Len(full) \in Nat
      BY <2>2
    <3> QED  BY <3>1, SomePositions DEF Evidenced
  <2> HIDE DEF full
  <2>4. \A d \in Caps : capHistory'[d] = IF d = c THEN full ELSE capHistory[d]
    BY <2>0 DEF CapTypeOK
  <2>5. CapTypeOK'
    BY <2>0, <2>1, <2>2 DEF CapTypeOK
  <2>6. HistoryFollows'
    BY <2>0, <2>1, <2>2, <2>4 DEF HistoryFollows
  <2>7. ScoreSound'
    <3>1. CASE full = <<>>
      <4>1. Len(full) >= Len(capHistory[c])
        BY <2>1, <2>2
      <4> QED  BY <2>0, <2>1, <2>2, <2>4, <3>1, <4>1 DEF ScoreSound
    <3>2. CASE full # <<>>
      <4>1. PICK new : new = [conf |-> Confidence(Evidenced(full)), evidence |-> Evidenced(full)]
        OBVIOUS
      <4>2. new \in [conf : 1..10, evidence : Nat] /\ new.evidence <= Len(full)
        BY <2>3, <4>1, ConfidenceType
      <4>3. capScores' = [capScores EXCEPT ![c] = new]
        BY <2>0, <3>2, <4>1
      <4>4. /\ DOMAIN capScores' = DOMAIN capScores
            /\ \A d \in DOMAIN capScores : capScores'[d] = IF d = c THEN new ELSE capScores[d]
            /\ capScores' = [d \in DOMAIN capScores' |-> capScores'[d]]
        BY <4>3 DEF ScoreSound
      <4>5. ASSUME NEW d \in DOMAIN capScores'
            PROVE  /\ capScores'[d] \in [conf : 1..10, evidence : Nat]
                   /\ capScores'[d].evidence <= Len(capHistory'[d])
        BY <2>4, <4>2, <4>4 DEF ScoreSound
      <4> QED  BY <4>4, <4>5 DEF ScoreSound
    <3> QED  BY <3>1, <3>2
  <2> QED  BY <2>1, <2>5, <2>6, <2>7
<1>6. CASE RestartRegistry
  <2>0. /\ capHistory' = [c \in Caps |-> LoadedHistory(c)]
        /\ capScores' = [c \in {d \in Caps : LoadedHistory(d) # <<>>} |->
                           [conf |-> Confidence(References(LoadedHistory(c))),
                            evidence |-> References(LoadedHistory(c))]]
        /\ capReset' = {} /\ capStore' = capStore
    BY <1>6 DEF RestartRegistry
  <2>1. \A c \in Caps : /\ LoadedHistory(c) \in Seq(HeldOutcome) /\ Follows(LoadedHistory(c), capStore[c])
                         /\ References(LoadedHistory(c)) \in Nat
                         /\ References(LoadedHistory(c)) <= Len(LoadedHistory(c))
    BY LoadedFollows
  <2>2. CapTypeOK' /\ KeyStoredOnce' /\ HistoryFollows'
    BY <2>0, <2>1 DEF CapTypeOK, KeyStoredOnce, HistoryFollows
  <2>3. DOMAIN capScores' \subseteq Caps
    BY <2>0
  <2>4. ASSUME NEW c \in DOMAIN capScores'
        PROVE  /\ capScores'[c] \in [conf : 1..10, evidence : Nat]
               /\ capScores'[c].evidence <= Len(capHistory'[c])
    <3>1. PICK n \in Nat : n = References(LoadedHistory(c)) /\ n <= Len(LoadedHistory(c))
      BY <2>1, <2>3
    <3>2. capScores'[c] = [conf |-> Confidence(n), evidence |-> n]
      BY <2>0, <3>1
    <3>3. capHistory'[c] = LoadedHistory(c)
      BY <2>0, <2>3
    <3> QED  BY <3>1, <3>2, <3>3, ConfidenceType
  <2>5. capScores' = [c \in DOMAIN capScores' |-> capScores'[c]]
    BY <2>0
  <2> QED  BY <2>2, <2>3, <2>4, <2>5 DEF ScoreSound
<1>7. \A ev \in {0, 2} : ev \in Nat
  OBVIOUS
<1> QED  BY <1>1, <1>2, <1>3, <1>4, <1>5, <1>6, <1>7 DEF CapNext

\* The start.
LEMMA CapStarts == CapInit => CapInv
<1> SUFFICES ASSUME CapInit
             PROVE  CapInv
  OBVIOUS
<1>1. capHistory = [c \in Caps |-> <<>>] /\ capStore = [c \in Caps |-> <<>>]
      /\ capScores = [c \in {} |-> {}] /\ capReset = {}
  BY DEF CapInit
<1>2. <<>> \in Seq(HeldOutcome)
  OBVIOUS
<1>3. <<>> \in Seq(StoredOutcome)
  OBVIOUS
<1>4. CapTypeOK
  BY <1>1, <1>2, <1>3 DEF CapTypeOK
<1>5. KeyStoredOnce
  <2>1. \A c \in Caps : \A i, key : ~HasKey(capStore[c], i, key)
    <3>1. DOMAIN <<>> = {}
      OBVIOUS
    <3> QED  BY <1>1, <3>1 DEF HasKey
  <2> QED  BY <2>1 DEF KeyStoredOnce, StoresOnce
<1>6. Follows(<<>>, <<>>)
  <2>1. Len(<<>>) = 0 /\ DOMAIN <<>> = {}
    OBVIOUS
  <2>2. {j \in 1..0 : <<>>[j].saved} = {}
    OBVIOUS
  <2>3. SavedUpTo(<<>>, 0) = 0
    BY <2>2, FS_EmptySet DEF SavedUpTo
  <2> QED  BY <2>1, <2>3 DEF Follows
<1>7. HistoryFollows
  BY <1>1, <1>6 DEF HistoryFollows
<1>8. ScoreSound
  BY <1>1 DEF ScoreSound
<1> QED  BY <1>4, <1>5, <1>7, <1>8 DEF CapInv

\* However outcomes are recorded, retried, lost by a failing save and reloaded, each
\* is counted once (capabilities.py).
THEOREM OutcomesTheorem == CapSpec => []OutcomesCountedOnce
<1>1. CapInv => OutcomesCountedOnce
  <2> SUFFICES ASSUME CapInv
               PROVE  OutcomesCountedOnce
    OBVIOUS
  <2>1. ASSUME NEW c \in Caps, NEW d \in Caps, NEW i \in DOMAIN capStore[c], NEW j \in DOMAIN capStore[d],
               capStore[c][i].key = capStore[d][j].key, capStore[c][i].key # ""
        PROVE  c = d /\ i = j
    <3>1. PICK key : key = capStore[c][i].key
      OBVIOUS
    <3>2. HasKey(capStore[c], i, key) /\ HasKey(capStore[d], j, key) /\ key # ""
      BY <2>1, <3>1 DEF HasKey
    <3> QED  BY <3>2 DEF CapInv, KeyStoredOnce, StoresOnce
  <2>2. \A c \in Caps \ capReset :
            LET h == capHistory[c]
            IN  /\ SavedUpTo(h, Len(h)) = Len(capStore[c])
                /\ \A i \in DOMAIN h : h[i].saved => h[i].key = capStore[c][SavedUpTo(h, i)].key
    BY DEF CapInv, HistoryFollows, Follows
  <2>3. \A c \in DOMAIN capScores : /\ capScores[c].conf \in 1..10
                                    /\ capScores[c].evidence <= Len(capHistory[c])
    BY DEF CapInv, ScoreSound
  <2> QED  BY <2>1, <2>2, <2>3, Zenon DEF OutcomesCountedOnce
<1> QED  BY <1>1, CapStarts, CapStep, PTL DEF CapSpec

------------------------------------------------------------------------------
(* The budgets. *)

\* The types of the ledger and of the budget of a mission.
BudgetTypeOK ==
    /\ ledger \in [ScopeKeys -> Nat] /\ recorded \in [ScopeKeys -> Nat]
    /\ limits \in [ScopeKeys -> Nat \cup {NoLimit}]
    /\ resources \in [Categories -> Nat] /\ budget \in [Categories -> Nat]

\* A scope holds what its key recorded, the day what all keys recorded together.
Balanced ==
    /\ \A s \in LedgerScopes \ {"daily"}, k \in LedgerKeys : ledger[<<s, k>>] = recorded[<<s, k>>]
    /\ "daily" \in LedgerScopes => /\ IsFiniteSet(DayTokens(recorded))
                                   /\ ledger[<<"daily", "daily">>] = Cardinality(DayTokens(recorded))

\* The inductive invariant of the budgets.
BudgetInv == BudgetTypeOK /\ Balanced

\* A token of the day is of one of the keys and within what that key recorded.
Counted(e, r) == \E k \in LedgerKeys : \E i \in 1..r[<<"daily", k>>] : e = <<k, i>>

\* The tokens of the day are the counted ones.
LEMMA IsToken ==
    ASSUME NEW r, NEW e
    PROVE  e \in DayTokens(r) <=> Counted(e, r)
<1>1. \A k : e \in {k} \X (1..r[<<"daily", k>>]) <=> \E i \in 1..r[<<"daily", k>>] : e = <<k, i>>
  OBVIOUS
<1> QED  BY <1>1 DEF DayTokens, Counted

\* One more token of a key is one more token of the day.
LEMMA OneToken ==
    ASSUME NEW T, NEW t, IsFiniteSet(T), t \notin T
    PROVE  IsFiniteSet(T \cup {t}) /\ Cardinality(T \cup {t}) = Cardinality(T) + 1
BY FS_AddElement

\* Usage recorded for the day by any key adds its tokens, by another scope none.
LEMMA UsageKeeps ==
    ASSUME BudgetInv, NEW s \in LedgerScopes, NEW k \in LedgerKeys, NEW n \in 1..2, RecordUsage(s, k, n)
    PROVE  BudgetInv'
<1> DEFINE sk == ScopeKey(s, k)
           r == recorded[<<s, k>>]
<1>1. /\ ledger' = [ledger EXCEPT ![sk] = ledger[sk] + n]
      /\ recorded' = [recorded EXCEPT ![<<s, k>>] = r + n]
      /\ UNCHANGED <<limits, resources, budget>>
  BY DEF RecordUsage
<1>2. sk \in ScopeKeys /\ <<s, k>> \in ScopeKeys
  BY DEF ScopeKey, ScopeKeys
<1>3. r \in Nat /\ ledger[sk] \in Nat /\ n \in Nat
  BY <1>2 DEF BudgetInv, BudgetTypeOK
<1>4. BudgetTypeOK'
  BY <1>1, <1>2, <1>3 DEF BudgetInv, BudgetTypeOK
<1>5. /\ \A p \in ScopeKeys : ledger'[p] = IF p = sk THEN ledger[sk] + n ELSE ledger[p]
      /\ \A p \in ScopeKeys : recorded'[p] = IF p = <<s, k>> THEN r + n ELSE recorded[p]
  BY <1>1 DEF BudgetInv, BudgetTypeOK
<1> HIDE DEF sk, r
<1>6. ASSUME NEW u \in LedgerScopes \ {"daily"}, NEW j \in LedgerKeys
      PROVE  ledger'[<<u, j>>] = recorded'[<<u, j>>]
  <2>1. <<u, j>> \in ScopeKeys /\ ledger[<<u, j>>] = recorded[<<u, j>>]
    BY DEF ScopeKeys, BudgetInv, Balanced
  <2>2. <<u, j>> = sk <=> <<u, j>> = <<s, k>>
    BY DEF sk, ScopeKey
  <2> QED  BY <1>5, <2>1, <2>2 DEF r
<1>7. ASSUME "daily" \in LedgerScopes
      PROVE  /\ IsFiniteSet(DayTokens(recorded'))
             /\ ledger'[<<"daily", "daily">>] = Cardinality(DayTokens(recorded'))
  <2>1. <<"daily", "daily">> \in ScopeKeys /\ \A j \in LedgerKeys : <<"daily", j>> \in ScopeKeys
    BY <1>7 DEF ScopeKeys
  <2>2. /\ IsFiniteSet(DayTokens(recorded))
        /\ ledger[<<"daily", "daily">>] = Cardinality(DayTokens(recorded))
    BY <1>7 DEF BudgetInv, Balanced
  <2>3. CASE s # "daily"
    <3>1. \A j \in LedgerKeys : recorded'[<<"daily", j>>] = recorded[<<"daily", j>>]
      BY <1>5, <2>1, <2>3
    <3>2. DayTokens(recorded') = DayTokens(recorded)
      BY <3>1 DEF DayTokens
    <3>3. sk # <<"daily", "daily">>
      BY <2>3 DEF sk, ScopeKey
    <3> QED  BY <1>5, <2>1, <2>2, <3>2, <3>3
  <2>4. CASE s = "daily"
    <3>1. sk = <<"daily", "daily">> /\ ledger'[<<"daily", "daily">>] = Cardinality(DayTokens(recorded)) + n
      BY <1>5, <2>1, <2>2, <2>4 DEF sk, ScopeKey
    <3>2. \A j \in LedgerKeys :
             recorded'[<<"daily", j>>] = IF j = k THEN r + n ELSE recorded[<<"daily", j>>]
      BY <1>5, <2>1, <2>4
    <3>3. recorded[<<"daily", k>>] = r
      BY <2>4 DEF r
    <3> DEFINE more == IF n = 1 THEN {<<k, r + 1>>} ELSE {<<k, r + 1>>, <<k, r + 2>>}
    <3>4. ASSUME NEW e PROVE e \in DayTokens(recorded') <=> e \in DayTokens(recorded) \cup more
      <4>1. e \in DayTokens(recorded') <=> Counted(e, recorded')
        <5>1. PICK R : R = recorded'
          OBVIOUS
        <5>2. e \in DayTokens(R) <=> Counted(e, R)
          BY IsToken
        <5> QED  BY <5>1, <5>2
      <4>2. e \in DayTokens(recorded) <=> Counted(e, recorded)
        BY IsToken
      <4>3. e \in more <=> \E i \in (r + 1)..(r + n) : e = <<k, i>>
        BY <1>3
      <4>4. ASSUME e \in DayTokens(recorded') PROVE e \in DayTokens(recorded) \cup more
        <5>0. Counted(e, recorded')
          BY <4>1, <4>4
        <5>1. PICK j \in LedgerKeys : \E i \in 1..recorded'[<<"daily", j>>] : e = <<j, i>>
          BY <5>0 DEF Counted
        <5>2. PICK i \in 1..recorded'[<<"daily", j>>] : e = <<j, i>>
          BY <5>1
        <5>3. ASSUME i \in 1..recorded[<<"daily", j>>] PROVE e \in DayTokens(recorded)
          <6>1. Counted(e, recorded)
            BY <5>2, <5>3 DEF Counted
          <6> QED  BY <4>2, <6>1
        <5>4. CASE j # k
          BY <3>2, <5>2, <5>3, <5>4
        <5>5. CASE j = k
          <6>1. i \in 1..(r + n)
            BY <3>2, <5>2, <5>5
          <6>2. CASE i <= r
            BY <1>3, <3>3, <5>3, <5>5, <6>1, <6>2
          <6>3. CASE i > r
            <7>1. i \in (r + 1)..(r + n)
              BY <1>3, <6>1, <6>3
            <7> QED  BY <4>3, <5>2, <5>5, <7>1
          <6> QED  BY <1>3, <6>1, <6>2, <6>3
        <5> QED  BY <5>4, <5>5
      <4>5. ASSUME e \in DayTokens(recorded) PROVE e \in DayTokens(recorded')
        <5>0. Counted(e, recorded)
          BY <4>2, <4>5
        <5>1. PICK j \in LedgerKeys : \E i \in 1..recorded[<<"daily", j>>] : e = <<j, i>>
          BY <5>0 DEF Counted
        <5>2. PICK i \in 1..recorded[<<"daily", j>>] : e = <<j, i>>
          BY <5>1
        <5>3. i \in 1..recorded'[<<"daily", j>>]
          BY <1>3, <3>2, <3>3, <5>2
        <5>4. Counted(e, recorded')
          BY <5>2, <5>3 DEF Counted
        <5> QED  BY <4>1, <5>4
      <4>6. ASSUME e \in more PROVE e \in DayTokens(recorded')
        <5>1. PICK i \in (r + 1)..(r + n) : e = <<k, i>>
          BY <4>3, <4>6
        <5>2. i \in 1..recorded'[<<"daily", k>>]
          BY <1>3, <3>2, <5>1
        <5>3. Counted(e, recorded')
          BY <5>1, <5>2 DEF Counted
        <5> QED  BY <4>1, <5>3
      <4> QED  BY <4>4, <4>5, <4>6
    <3>5. DayTokens(recorded') = DayTokens(recorded) \cup more
      BY <3>4
    <3>6. \A i \in Nat : i > r => <<k, i>> \notin DayTokens(recorded)
      <4>1. SUFFICES ASSUME NEW i \in Nat, i > r, <<k, i>> \in DayTokens(recorded) PROVE FALSE
        OBVIOUS
      <4>0. Counted(<<k, i>>, recorded)
        BY <4>1, IsToken
      <4>2. PICK j \in LedgerKeys : \E h \in 1..recorded[<<"daily", j>>] : <<k, i>> = <<j, h>>
        BY <4>0 DEF Counted
      <4>3. i \in 1..r
        BY <3>3, <4>2
      <4> QED  BY <1>3, <4>1, <4>3
    <3> DEFINE T == DayTokens(recorded)
               T1 == T \cup {<<k, r + 1>>}
    <3>7. T1 = T \cup {<<k, r + 1>>} /\ IsFiniteSet(T1) /\ Cardinality(T1) = Cardinality(T) + 1
      <4>1. <<k, r + 1>> \notin T
        BY <1>3, <3>6
      <4> QED  BY <2>2, <4>1, OneToken
    <3>8. Cardinality(T) \in Nat
      BY <2>2, FS_CardinalityType
    <3>9. CASE n = 1
      BY <3>1, <3>5, <3>7, <3>9
    <3>10. CASE n = 2
      <4>1. <<k, r + 2>> \notin T1
        BY <1>3, <3>6
      <4>2. IsFiniteSet(T1 \cup {<<k, r + 2>>}) /\ Cardinality(T1 \cup {<<k, r + 2>>}) = Cardinality(T1) + 1
        BY <3>7, <4>1, OneToken
      <4>3. DayTokens(recorded') = T1 \cup {<<k, r + 2>>}
        BY <3>5, <3>10
      <4> QED  BY <3>1, <3>7, <3>8, <3>10, <4>2, <4>3
    <3> QED  BY <3>9, <3>10
  <2> QED  BY <2>3, <2>4
<1>8. Balanced'
  BY <1>6, <1>7 DEF Balanced
<1> QED  BY <1>4, <1>8 DEF BudgetInv

\* The reset empties the day, for its callers and for their records.
LEMMA ResetKeeps ==
    ASSUME BudgetInv, ResetDaily
    PROVE  BudgetInv'
<1>1. /\ ledger' = [sk \in ScopeKeys |-> IF sk[1] = "daily" THEN 0 ELSE ledger[sk]]
      /\ recorded' = [sk \in ScopeKeys |-> IF sk[1] = "daily" THEN 0 ELSE recorded[sk]]
      /\ UNCHANGED <<limits, resources, budget>>
  BY DEF ResetDaily
<1>2. BudgetTypeOK'
  BY <1>1 DEF BudgetInv, BudgetTypeOK
<1>3. ASSUME NEW s \in LedgerScopes \ {"daily"}, NEW k \in LedgerKeys
      PROVE  ledger'[<<s, k>>] = recorded'[<<s, k>>]
  BY <1>1 DEF ScopeKeys, BudgetInv, Balanced
<1>4. ASSUME "daily" \in LedgerScopes
      PROVE  /\ IsFiniteSet(DayTokens(recorded'))
             /\ ledger'[<<"daily", "daily">>] = Cardinality(DayTokens(recorded'))
  <2>1. \A k \in LedgerKeys : recorded'[<<"daily", k>>] = 0
    BY <1>1, <1>4 DEF ScopeKeys
  <2>2. DayTokens(recorded') = {}
    <3>1. ASSUME NEW e \in DayTokens(recorded') PROVE FALSE
      <4>1. PICK k \in LedgerKeys : \E i \in 1..recorded'[<<"daily", k>>] : e = <<k, i>>
        <5>1. PICK R : R = recorded'
          OBVIOUS
        <5>2. e \in DayTokens(R)
          BY <3>1, <5>1
        <5>3. Counted(e, R)
          BY <5>2, IsToken
        <5>4. Counted(e, recorded')
          BY <5>1, <5>3
        <5> QED  BY <5>4 DEF Counted
      <4>2. 1..recorded'[<<"daily", k>>] = {}
        BY <2>1
      <4> QED  BY <4>1, <4>2
    <3> QED  BY <3>1
  <2>3. ledger'[<<"daily", "daily">>] = 0
    BY <1>1, <1>4 DEF ScopeKeys
  <2> QED  BY <2>2, <2>3, FS_EmptySet
<1> QED  BY <1>2, <1>3, <1>4 DEF BudgetInv, Balanced

\* What leaves ledger and records alone keeps the balance.
LEMMA BalanceStays ==
    ASSUME BudgetInv, UNCHANGED <<ledger, recorded>>, BudgetTypeOK'
    PROVE  BudgetInv'
<1>1. DayTokens(recorded') = DayTokens(recorded)
  BY DEF DayTokens
<1> QED  BY <1>1 DEF BudgetInv, Balanced

\* Every step of the budgets keeps their invariant.
LEMMA BudgetStep == BudgetInv /\ [BudgetNext]_budgetVars => BudgetInv'
<1> SUFFICES ASSUME BudgetInv, [BudgetNext]_budgetVars
             PROVE  BudgetInv'
  OBVIOUS
<1>1. ASSUME NEW s \in LedgerScopes, NEW k \in LedgerKeys, NEW l \in Limits \cup {NoLimit}, SetBudget(s, k, l)
      PROVE  BudgetInv'
  <2>1. l \in Nat \cup {NoLimit}
    BY BudgetAssumption
  <2> QED  BY <1>1, <2>1, BalanceStays DEF SetBudget, BudgetInv, BudgetTypeOK
<1>2. ASSUME NEW s \in LedgerScopes, NEW k \in LedgerKeys, NEW n \in 1..2, RecordUsage(s, k, n)
      PROVE  BudgetInv'
  BY <1>2, UsageKeeps
<1>3. ASSUME NEW b \in [Categories -> Limits], CreateBudget(b)
      PROVE  BudgetInv'
  <2>1. b \in [Categories -> Nat]
    BY BudgetAssumption
  <2> QED  BY <1>3, <2>1, BalanceStays DEF CreateBudget, BudgetInv, BudgetTypeOK
<1>4. ASSUME NEW c \in Categories, NEW n \in 1..2, TrackUsage(c, n)
      PROVE  BudgetInv'
  BY <1>4, BalanceStays DEF TrackUsage, BudgetInv, BudgetTypeOK
<1>5. CASE UNCHANGED budgetVars
  BY <1>5, BalanceStays DEF budgetVars, BudgetInv, BudgetTypeOK
<1> QED  BY <1>1, <1>2, <1>3, <1>4, <1>5, ResetKeeps DEF BudgetNext, LedgerNext, ResourceNext

\* The budgets start in it.
LEMMA BudgetStarts == BudgetInit => BudgetInv
<1> SUFFICES ASSUME BudgetInit
             PROVE  BudgetInv
  OBVIOUS
<1>1. BudgetTypeOK
  BY DEF BudgetInit, BudgetTypeOK
<1>2. \A s \in LedgerScopes \ {"daily"}, k \in LedgerKeys : ledger[<<s, k>>] = recorded[<<s, k>>]
  BY DEF BudgetInit, ScopeKeys
<1>3. ASSUME "daily" \in LedgerScopes
      PROVE  DayTokens(recorded) = {} /\ ledger[<<"daily", "daily">>] = 0
  <2>1. \A k \in LedgerKeys : recorded[<<"daily", k>>] = 0
    BY <1>3 DEF BudgetInit, ScopeKeys
  <2>2. ASSUME NEW e \in DayTokens(recorded) PROVE FALSE
    <3>0. Counted(e, recorded)
      BY IsToken
    <3>1. PICK k \in LedgerKeys : \E i \in 1..recorded[<<"daily", k>>] : e = <<k, i>>
      BY <3>0 DEF Counted
    <3>2. 1..recorded[<<"daily", k>>] = {}
      BY <2>1
    <3> QED  BY <3>1, <3>2
  <2> QED  BY <1>3, <2>2 DEF BudgetInit, ScopeKeys
<1> QED  BY <1>1, <1>2, <1>3, FS_EmptySet DEF BudgetInv, Balanced

\* A finite set of numbers that is not empty has a largest one.
LEMMA MaxIsThere ==
    ASSUME NEW S \in SUBSET Nat, IsFiniteSet(S), S # {}
    PROVE  Max(S) \in S /\ \A y \in S : y <= Max(S)
<1> DEFINE HasMax(U) == \E x \in U : \A y \in U : y <= x
           Bad == {n \in Nat : \E U \in SUBSET S : U # {} /\ ~HasMax(U) /\ Cardinality(U) = n}
<1>1. Bad = {}
  <2> SUFFICES ASSUME Bad # {} PROVE FALSE
    OBVIOUS
  <2>1. PICK n \in Bad : \A m \in Bad : ~(<<m, n>> \in OpToRel(<, Nat))
    BY NatLessThanWellFounded, WFMin
  <2>1a. \A m \in Bad : ~(m < n)
    BY <2>1, Zenon DEF OpToRel
  <2>2. PICK U \in SUBSET S : U # {} /\ ~HasMax(U) /\ Cardinality(U) = n
    OBVIOUS
  <2>3. PICK x \in U : TRUE
    BY <2>2
  <2>4. IsFiniteSet(U)
    BY FS_Subset
  <2> DEFINE V == U \ {x}
  <2>5. IsFiniteSet(V) /\ Cardinality(V) = n - 1 /\ n \in Nat /\ Cardinality(V) \in Nat
    BY <2>2, <2>3, <2>4, FS_RemoveElement, FS_CardinalityType
  <2>6. V # {}
    BY <2>2, <2>3
  <2>7. HasMax(V)
    <3>1. n - 1 \notin Bad
      BY <2>1a, <2>5
    <3> QED  BY <2>5, <2>6, <3>1
  <2>8. PICK m \in V : \A y \in V : y <= m
    BY <2>7
  <2>9. m \in Nat /\ x \in Nat /\ m \in U
    OBVIOUS
  <2>10. CASE m <= x
    <3>1. \A y \in U : y <= x
      BY <2>8, <2>9, <2>10
    <3> QED  BY <2>2, <3>1
  <2>11. CASE x <= m
    <3>1. \A y \in U : y <= m
      BY <2>8, <2>11
    <3> QED  BY <2>2, <2>9, <3>1
  <2> QED  BY <2>9, <2>10, <2>11
<1>2. HasMax(S)
  BY <1>1, FS_CardinalityType
<1>3. PICK x \in S : \A y \in S : y <= x
  BY <1>2
<1>4. \E z \in S : \A y \in S : z >= y
  BY <1>3
<1>5. Max(S) \in S /\ \A y \in S : Max(S) >= y
  BY <1>4 DEF Max
<1> QED  BY <1>5

\* The rungs of the ladder are climbed in order.
LEMMA RungClimbs ==
    ASSUME NEW p \in Nat, NEW q \in Nat, p <= q
    PROVE  Rung(p) <= Rung(q) /\ (p >= 100 => Rung(p) >= 3) /\ Rung(p) \in Nat /\ Rung(q) \in Nat
<1> DEFINE at(x) == {i \in 1..6 : x >= Thresholds[i]}
<1>1. IsFiniteSet(1..6)
  <2>1. PICK n \in Int : n = 6
    OBVIOUS
  <2>2. PICK k \in Int : k = 1
    OBVIOUS
  <2>3. IsFiniteSet(k..n)
    BY FS_Interval
  <2> QED  BY <2>1, <2>2, <2>3
<1>2. at(p) \subseteq at(q) /\ at(q) \subseteq 1..6
  BY DEF Thresholds
<1>3. IsFiniteSet(at(q)) /\ IsFiniteSet(at(p)) /\ Cardinality(at(p)) <= Cardinality(at(q))
  BY <1>1, <1>2, FS_Subset
<1>4. Cardinality(at(p)) \in Nat /\ Cardinality(at(q)) \in Nat
  BY <1>3, FS_CardinalityType
<1>5. ASSUME p >= 100 PROVE Cardinality(at(p)) >= 3
  <2>1. 1..3 \subseteq at(p)
    BY <1>5 DEF Thresholds
  <2>2. Cardinality(1..3) = 3
    <3>1. PICK n \in Int : n = 3
      OBVIOUS
    <3>2. Cardinality(1..n) = IF 1 > n THEN 0 ELSE n - 1 + 1
      BY FS_Interval
    <3> QED  BY <3>1, <3>2
  <2> QED  BY <1>3, <2>1, <2>2, FS_Subset
<1> QED  BY <1>3, <1>4, <1>5 DEF Rung

\* What exceeds a positive limit is past a hundred percent.
LEMMA PctType ==
    ASSUME NEW u \in Nat, NEW b \in Nat
    PROVE  Pct(u, b) \in Nat /\ (u > b /\ b > 0 => Pct(u, b) >= 100)
<1>1. CASE b = 0
  BY <1>1 DEF Pct
<1>2. CASE b > 0
  <2>1. PICK q : q = (u * 100) \div b
    OBVIOUS
  <2>2. u * 100 \in Nat
    OBVIOUS
  <2>3. q \in Int /\ b * q <= u * 100 /\ u * 100 < b * (q + 1)
    BY <1>2, <2>1, <2>2
  <2>4. q >= 0
    BY <1>2, <2>2, <2>3
  <2>5. u > b => q >= 100
    BY <1>2, <2>3
  <2> QED  BY <1>2, <2>1, <2>3, <2>4, <2>5 DEF Pct
<1> QED  BY <1>1, <1>2

\* The answer of check_budget is at least what each category asks for.
LEMMA LadderLemma == BudgetTypeOK => LadderHolds
<1> SUFFICES ASSUME BudgetTypeOK, NEW c \in Categories
             PROVE  LET answer == CheckBudget(resources, budget)
                    IN  /\ answer.rung >= Rung(Pct(resources[c], budget[c]))
                        /\ c \in Violated(resources, budget) /\ budget[c] > 0 => answer.rung >= 3
  BY DEF LadderHolds
<1> DEFINE P == {Pct(resources[d], budget[d]) : d \in Categories} \cup {0}
           pct == Pct(resources[c], budget[c])
<1>1. P \in SUBSET Nat /\ P # {}
  <2>1. \A d \in Categories : Pct(resources[d], budget[d]) \in Nat
    BY PctType DEF BudgetTypeOK
  <2> QED  BY <2>1
<1>2. IsFiniteSet(P)
  <2> DEFINE T == {Pct(resources[d], budget[d]) : d \in Categories}
             F == [d \in Categories |-> Pct(resources[d], budget[d])]
  <2>1. IsFiniteSet(T)
    <3>1. F \in Surjection(Categories, T)
      BY DEF Surjection
    <3> QED  BY <3>1, BudgetAssumption, FS_Surjection
  <2> QED  BY <2>1, FS_AddElement
<1>3. Max(P) \in Nat /\ pct <= Max(P) /\ pct \in Nat
  BY <1>1, <1>2, MaxIsThere
<1>4. resources[c] \in Nat /\ budget[c] \in Nat
  BY DEF BudgetTypeOK
<1>5. c \in Violated(resources, budget) /\ budget[c] > 0 => pct >= 100
  BY <1>4, PctType DEF Violated
<1>6. CheckBudget(resources, budget).rung = Rung(Max(P))
  BY DEF CheckBudget, MaxPct
<1> HIDE DEF P, pct
<1>7. Rung(pct) <= Rung(Max(P)) /\ (pct >= 100 => Rung(pct) >= 3) /\ Rung(pct) \in Nat /\ Rung(Max(P)) \in Nat
  BY <1>3, RungClimbs
<1> QED  BY <1>5, <1>6, <1>7 DEF pct

\* A scope is blocked exactly on what was recorded for it.
LEMMA LedgerLemma == BudgetInv => LedgerBlocks
<1> SUFFICES ASSUME BudgetInv, NEW s \in LedgerScopes, NEW k \in LedgerKeys
             PROVE  LET limit == limits[ScopeKey(s, k)]
                    IN  LedgerStatus(ledger[ScopeKey(s, k)], limit) = "BLOCK"
                          <=> limit # NoLimit /\ Owed(s, k) > limit
  BY DEF LedgerBlocks
<1>1. PICK sk : sk = ScopeKey(s, k)
  OBVIOUS
<1>2. sk \in ScopeKeys
  BY <1>1 DEF ScopeKey, ScopeKeys
<1>3. PICK limit : limit = limits[sk]
  OBVIOUS
<1>4. PICK tokens : tokens = ledger[sk]
  OBVIOUS
<1>5. limit \in Nat \cup {NoLimit} /\ tokens \in Nat
  BY <1>2, <1>3, <1>4 DEF BudgetInv, BudgetTypeOK
<1>6. Owed(s, k) = tokens
  BY <1>1, <1>4 DEF Owed, ScopeKey, BudgetInv, Balanced
<1>7. LedgerStatus(tokens, limit) = "BLOCK" <=> limit # NoLimit /\ tokens > limit
  BY <1>5 DEF LedgerStatus, NoLimit
<1> QED  BY <1>1, <1>3, <1>4, <1>6, <1>7

\* For any scopes, keys, limits and categories a limit binds and the ladder answers
\* (cost_governor.py, TokenGovernor; resource_budget.py, check_budget).
THEOREM BudgetTheorem == BudgetSpec => []BudgetsHold
<1>1. BudgetInv => BudgetsHold
  BY LedgerLemma, LadderLemma DEF BudgetInv, BudgetsHold
<1> QED  BY <1>1, BudgetStarts, BudgetStep, PTL DEF BudgetSpec

------------------------------------------------------------------------------
(* The model gateway and the router. *)

\* Where a call may be.
Attempting == {"idle", "refused", "try", "sent", "fallback", "answered", "failed"}

\* A call, with its attempts counted from one.
CallState == [phase : Attempting, attempt : Nat]

\* The breaker of a provider.
BreakerState == [failures : Nat, open : BOOLEAN, at : Nat]

\* The shapes of the gateway's state.
GatewayTypeOK ==
    /\ gclock \in Nat
    /\ breaker \in [Providers -> BreakerState]
    /\ call \in [GatewayCalls -> CallState]
    /\ sent \in [GatewayCalls -> Nat]
    /\ charged \in [GatewayCalls -> Nat]
    /\ fatal \subseteq GatewayCalls

\* What one call has done, by where it is: a request is sent at most once for each
\* attempt, and a fatal answer is never followed by another attempt.
CallKept(s, n, u, isFatal) ==
    /\ u = IF s.phase = "answered" THEN 1 ELSE 0
    /\ s.phase = "idle" => n = 0
    /\ s.phase = "refused" => n = 0
    /\ s.phase = "try" => s.attempt >= 1 /\ s.attempt <= MaxAttempts /\ n < s.attempt
    /\ s.phase = "sent" => s.attempt >= 1 /\ s.attempt <= MaxAttempts /\ n <= s.attempt
    /\ n <= MaxAttempts
    /\ isFatal => s.phase \in {"fallback", "answered", "failed"}

\* Each call is where its requests, its charge and its answers say.
CallsKept == \A c \in GatewayCalls : CallKept(call[c], sent[c], charged[c], c \in fatal)

\* The inductive invariant of the gateway.
GatewayInv == GatewayTypeOK /\ CallsKept /\ BreakerCounts

\* A failure is counted and opens the breaker from the threshold on.
LEMMA FailureCounts ==
    ASSUME GatewayTypeOK, BreakerCounts, NEW p \in Providers
    PROVE  LET b == RecordFailure(breaker, p) IN
           /\ b \in [Providers -> BreakerState]
           /\ \A q \in Providers : (b[q].open <=> b[q].failures >= Threshold) /\ b[q].at <= gclock
<1> DEFINE b == RecordFailure(breaker, p)
<1>0. Threshold \in Nat /\ gclock \in Nat
  BY GatewayAssumption DEF GatewayTypeOK
<1>1. breaker \in [Providers -> BreakerState]
  BY DEF GatewayTypeOK
<1>2. PICK n \in Nat : breaker[p].failures = n
  BY <1>1 DEF BreakerState
<1>3. CASE n + 1 >= Threshold
  <2>1. b[p] = [failures |-> n + 1, open |-> TRUE, at |-> gclock]
    BY <1>1, <1>2, <1>3 DEF RecordFailure
  <2>2. b[p] \in BreakerState
    BY <2>1, <1>0, <1>2 DEF BreakerState
  <2>3. b = [breaker EXCEPT ![p] = b[p]]
    BY <2>1, <1>1, <1>2, <1>3 DEF RecordFailure
  <2>4. \A q \in Providers : q # p => b[q] = breaker[q]
    BY <2>3, <1>1
  <2>5. b \in [Providers -> BreakerState]
    BY <2>2, <2>3, <1>1
  <2>6. (b[p].open <=> b[p].failures >= Threshold) /\ b[p].at <= gclock
    BY <2>1, <1>3, <1>0
  <2>7. \A q \in Providers : (b[q].open <=> b[q].failures >= Threshold) /\ b[q].at <= gclock
    BY <2>4, <2>6 DEF BreakerCounts
  <2> QED  BY <2>5, <2>7
<1>4. CASE ~(n + 1 >= Threshold)
  <2>0. PICK old \in BreakerState : old = breaker[p]
    BY <1>1
  <2>b. b[p] = IF old.failures + 1 >= Threshold
               THEN [failures |-> old.failures + 1, open |-> TRUE, at |-> gclock]
               ELSE [old EXCEPT !.failures = old.failures + 1]
    BY <1>1, <2>0 DEF RecordFailure
  <2>a. b[p] = [old EXCEPT !.failures = old.failures + 1]
    BY <1>2, <1>4, <2>0, <2>b
  <2>1. b[p] = [breaker[p] EXCEPT !.failures = n + 1]
    BY <2>0, <2>a, <1>2
  <2>2. b[p] \in BreakerState /\ b[p].failures = n + 1 /\ b[p].open = breaker[p].open
        /\ b[p].at = breaker[p].at
    BY <2>1, <1>1, <1>2 DEF BreakerState
  <2>3. b = [breaker EXCEPT ![p] = b[p]]
    BY <2>1, <1>1, <1>2, <1>4 DEF RecordFailure
  <2>4. \A q \in Providers : q # p => b[q] = breaker[q]
    BY <2>3, <1>1
  <2>5. b \in [Providers -> BreakerState]
    BY <2>2, <2>3, <1>1
  <2>6. (b[p].open <=> b[p].failures >= Threshold) /\ b[p].at <= gclock
    BY <2>2, <1>4, <1>0, <1>2 DEF BreakerCounts
  <2>7. \A q \in Providers : (b[q].open <=> b[q].failures >= Threshold) /\ b[q].at <= gclock
    BY <2>4, <2>6 DEF BreakerCounts
  <2> QED  BY <2>5, <2>7
<1> QED  BY <1>3, <1>4

\* A success closes the breaker with no failure left.
LEMMA SuccessCounts ==
    ASSUME GatewayTypeOK, BreakerCounts, NEW p \in Providers
    PROVE  LET b == RecordSuccess(breaker, p) IN
           /\ b \in [Providers -> BreakerState]
           /\ \A q \in Providers : (b[q].open <=> b[q].failures >= Threshold) /\ b[q].at <= gclock
<1> DEFINE b == RecordSuccess(breaker, p)
<1>0. Threshold \in Nat \ {0}
  BY GatewayAssumption
<1>1. breaker \in [Providers -> BreakerState]
  BY DEF GatewayTypeOK
<1>2. b[p] = [[breaker[p] EXCEPT !.failures = 0] EXCEPT !.open = FALSE]
  BY <1>1 DEF RecordSuccess
<1>a. PICK clear : clear = [breaker[p] EXCEPT !.failures = 0]
  OBVIOUS
<1>b. clear \in BreakerState /\ clear.failures = 0 /\ clear.at = breaker[p].at
  BY <1>a, <1>1 DEF BreakerState
<1>c. b[p] = [clear EXCEPT !.open = FALSE]
  BY <1>2, <1>a
<1>d. FALSE \in BOOLEAN
  BY Zenon
<1>3. b[p] \in BreakerState /\ b[p].failures = 0 /\ b[p].open = FALSE /\ b[p].at = breaker[p].at
  BY <1>b, <1>c, <1>d DEF BreakerState
<1>4. b \in [Providers -> BreakerState] /\ \A q \in Providers : q # p => b[q] = breaker[q]
  BY <1>3, <1>1 DEF RecordSuccess
<1>5. (b[p].open <=> b[p].failures >= Threshold) /\ b[p].at <= gclock
  BY <1>3, <1>0 DEF BreakerCounts
<1> QED  BY <1>4, <1>5 DEF BreakerCounts

\* The check of a breaker whose time is up closes it with no failure left.
LEMMA CheckedCounts ==
    ASSUME GatewayTypeOK, BreakerCounts, NEW p \in Providers
    PROVE  LET b == Checked(p) IN
           /\ b \in [Providers -> BreakerState]
           /\ \A q \in Providers : (b[q].open <=> b[q].failures >= Threshold) /\ b[q].at <= gclock
<1> DEFINE b == Checked(p)
<1>0. Threshold \in Nat \ {0}
  BY GatewayAssumption
<1>1. breaker \in [Providers -> BreakerState]
  BY DEF GatewayTypeOK
<1>2. CASE breaker[p].open /\ ~IsOpen(p)
  <2>1. b[p] = [[breaker[p] EXCEPT !.open = FALSE] EXCEPT !.failures = 0]
    BY <1>1, <1>2 DEF Checked
  <2>a. PICK clear : clear = [breaker[p] EXCEPT !.open = FALSE]
    OBVIOUS
  <2>b. FALSE \in BOOLEAN
    BY Zenon
  <2>c. clear \in BreakerState /\ clear.open = FALSE /\ clear.at = breaker[p].at
    BY <2>a, <2>b, <1>1 DEF BreakerState
  <2>d. b[p] = [clear EXCEPT !.failures = 0]
    BY <2>1, <2>a
  <2>2. b[p] \in BreakerState /\ b[p].failures = 0 /\ b[p].open = FALSE /\ b[p].at = breaker[p].at
    BY <2>c, <2>d DEF BreakerState
  <2>3. b \in [Providers -> BreakerState] /\ \A q \in Providers : q # p => b[q] = breaker[q]
    BY <2>2, <1>1, <1>2 DEF Checked
  <2>4. (b[p].open <=> b[p].failures >= Threshold) /\ b[p].at <= gclock
    BY <2>2, <1>0 DEF BreakerCounts
  <2> QED  BY <2>3, <2>4 DEF BreakerCounts
<1>3. CASE ~(breaker[p].open /\ ~IsOpen(p))
  BY <1>1, <1>3 DEF Checked, BreakerCounts
<1> QED  BY <1>2, <1>3

\* A failed attempt leads to the next one, while there is one, or ends the call.
LEMMA FailureLeads ==
    ASSUME GatewayTypeOK, CallsKept, NEW c \in GatewayCalls, NEW retryable \in BOOLEAN,
           call[c].phase \in {"try", "sent"}
    PROVE  LET s == AfterFailure(c, retryable) IN
           /\ s \in CallState /\ CallKept(s, sent[c], charged[c], FALSE)
           /\ ~retryable => s.phase \in {"fallback", "failed"}
<1>0. MaxAttempts \in Nat
  BY GatewayAssumption
<1>1. PICK m \in Nat : call[c].attempt = m
  BY DEF GatewayTypeOK, CallState
<1>2. sent[c] \in Nat /\ charged[c] = 0 /\ m <= MaxAttempts /\ sent[c] <= m
  BY <1>0, <1>1 DEF CallsKept, CallKept, GatewayTypeOK
<1>3. CASE retryable /\ m < MaxAttempts
  <2>1. AfterFailure(c, retryable) = [phase |-> "try", attempt |-> m + 1]
    BY <1>1, <1>3 DEF AfterFailure
  <2>2. [phase |-> "try", attempt |-> m + 1] \in CallState
    BY DEF CallState, Attempting
  <2>3. CallKept([phase |-> "try", attempt |-> m + 1], sent[c], charged[c], FALSE)
    BY <1>0, <1>2, <1>3 DEF CallKept
  <2> QED  BY <2>1, <2>2, <2>3, <1>3
<1>4. CASE ~(retryable /\ m < MaxAttempts)
  <2>1. PICK ph \in {"fallback", "failed"} : AfterFailure(c, retryable) = [phase |-> ph, attempt |-> m]
    BY <1>1, <1>4 DEF AfterFailure
  <2>2. [phase |-> ph, attempt |-> m] \in CallState
    BY DEF CallState, Attempting
  <2>3. CallKept([phase |-> ph, attempt |-> m], sent[c], charged[c], FALSE)
    <3>1. sent[c] <= MaxAttempts
      BY <1>0, <1>2
    <3>2. CASE ph = "fallback"
      BY <3>1, <3>2, <1>2 DEF CallKept
    <3>3. CASE ph = "failed"
      BY <3>1, <3>3, <1>2 DEF CallKept
    <3> QED  BY <3>2, <3>3
  <2>4. [phase |-> ph, attempt |-> m].phase \in {"fallback", "failed"}
    OBVIOUS
  <2> QED  BY <2>1, <2>2, <2>3, <2>4
<1> QED  BY <1>3, <1>4

\* The first of the three candidates that is in a set.
LEMMA FirstIs ==
    ASSUME NEW S \in SUBSET (1..3), S # {}
    PROVE  Min(S) \in S /\ \A y \in S : Min(S) <= y
<1>1. \E x \in S : \A y \in S : x <= y
  <2>1. CASE 1 \in S
    BY <2>1
  <2>2. CASE 1 \notin S /\ 2 \in S
    BY <2>2
  <2>3. CASE 1 \notin S /\ 2 \notin S
    <3>1. \A y \in S : y = 3
      BY <2>3
    <3>2. 3 \in S
      BY <3>1
    <3> QED  BY <3>1, <3>2
  <2> QED  BY <2>1, <2>2, <2>3
<1> QED  BY <1>1 DEF Min

\* Whatever the breakers say, the router names a provider that is up when one is.
LEMMA RouterNames == RouteIsUp
<1> SUFFICES ASSUME NEW demanding \in BOOLEAN, NEW large \in BOOLEAN, NEW urgent \in BOOLEAN,
                    NEW down \in SUBSET Routed
             PROVE  LET up == {p \in Routed \ down : ~IsOpen(p)}
                        tier == ChooseTier(demanding, large, urgent)
                        d == SelectHealthy(RankCandidates(tier), down)
                    IN  up # {} => /\ d.primary \in up /\ d.primary # d.fallback
                                   /\ Tier(d.primary) # tier => \A p \in up : Tier(p) # tier
  BY DEF RouteIsUp
<1> DEFINE up == {p \in Routed \ down : ~IsOpen(p)}
           tier == ChooseTier(demanding, large, urgent)
           d == SelectHealthy(RankCandidates(tier), down)
<1> SUFFICES ASSUME up # {}
             PROVE  /\ d.primary \in up /\ d.primary # d.fallback
                    /\ Tier(d.primary) # tier => \A p \in up : Tier(p) # tier
  OBVIOUS
<1>t. tier \in {"flash", "pro"}
  BY DEF ChooseTier
<1>1. PICK cands : /\ cands = RankCandidates(tier) /\ DOMAIN cands = 1..3
                   /\ {cands[i] : i \in 1..3} = Routed
                   /\ \A i, j \in 1..3 : i # j => cands[i] # cands[j]
                   /\ \A i, j \in 1..3 : Tier(cands[i]) # tier /\ i < j => Tier(cands[j]) # tier
  <2>1. CASE tier = "flash"
    <3>1. RankCandidates(tier) = <<"mock", "flash", "pro">>
      BY <2>1 DEF RankCandidates
    <3> QED  BY <3>1, <2>1 DEF Routed, Tier
  <2>2. CASE tier = "pro"
    <3>1. RankCandidates(tier) = <<"pro", "mock", "flash">>
      BY <2>2 DEF RankCandidates
    <3> QED  BY <3>1, <2>2 DEF Routed, Tier
  <2> QED  BY <2>1, <2>2, <1>t
<1> DEFINE healthy == {i \in DOMAIN cands : cands[i] \notin down /\ ~IsOpen(cands[i])}
<1>2. healthy \in SUBSET (1..3) /\ healthy # {} /\ \A i \in 1..3 : i \in healthy <=> cands[i] \in up
  BY <1>1
<1>3. PICK m \in 1..3 : m = Min(healthy) /\ m \in healthy /\ \A y \in healthy : m <= y
  BY <1>2, FirstIs
<1>4. PICK n \in 1..3 : n = Min(DOMAIN cands \ {m}) /\ n # m
  <2>1. (1..3) \ {m} \in SUBSET (1..3) /\ (1..3) \ {m} # {}
    BY 1 \in 1..3, 2 \in 1..3
  <2> QED  BY <2>1, FirstIs, <1>1
<1>5. d.primary = cands[m] /\ d.fallback = cands[n]
  BY <1>1, <1>2, <1>3, <1>4 DEF SelectHealthy
<1>6. d.primary \in up /\ d.primary # d.fallback
  BY <1>1, <1>2, <1>3, <1>4, <1>5
<1>7. ASSUME Tier(d.primary) # tier, NEW p \in up
      PROVE  Tier(p) # tier
  <2>1. PICK i \in 1..3 : cands[i] = p
    BY <1>1
  <2>2. i \in healthy /\ (m = i \/ m < i)
    BY <2>1, <1>2, <1>3
  <2> QED  BY <2>1, <2>2, <1>1, <1>5, <1>7
<1> QED  BY <1>6, <1>7

\* The invariant is kept by every step.
LEMMA GatewayStep == GatewayInv /\ [GatewayNext]_gatewayVars => GatewayInv'
<1> SUFFICES ASSUME GatewayInv, [GatewayNext]_gatewayVars
             PROVE  GatewayInv'
  OBVIOUS
<1> USE DEF GatewayInv
<1>p. Primary \in Providers /\ Routed \subseteq Providers /\ "flash" \in Providers
  BY DEF Providers, Routed
<1>1. CASE UNCHANGED gatewayVars
  BY <1>1 DEF gatewayVars, GatewayTypeOK, CallsKept, BreakerCounts
<1>2. ASSUME NEW name, NEW m \in BOOLEAN, NEW k \in BOOLEAN, NEW f \in BOOLEAN,
             BuildModelGateway(name, m, k, f)
      PROVE  GatewayInv'
  BY <1>2 DEF BuildModelGateway, GatewayTypeOK, CallsKept, BreakerCounts
<1>3. ASSUME NEW c \in GatewayCalls, NEW b \in BOOLEAN, Complete(c, b)
      PROVE  GatewayInv'
  <2>1. PICK s : /\ call' = [call EXCEPT ![c] = s]
                 /\ s \in {[phase |-> "try", attempt |-> 1], [phase |-> "refused", attempt |-> 0]}
    BY <1>3 DEF Complete
  <2>2. s \in CallState
    BY <2>1 DEF CallState, Attempting
  <2>3. call[c].phase = "idle" /\ sent[c] = 0 /\ charged[c] = 0 /\ c \notin fatal /\ MaxAttempts \in Nat
        /\ MaxAttempts >= 1
    BY <1>3, GatewayAssumption DEF Complete, CallsKept, CallKept
  <2>4. CallKept(s, sent[c], charged[c], c \in fatal)
    <3>1. CASE s = [phase |-> "try", attempt |-> 1]
      BY <3>1, <2>3 DEF CallKept
    <3>2. CASE s = [phase |-> "refused", attempt |-> 0]
      BY <3>2, <2>3 DEF CallKept
    <3> QED  BY <2>1, <3>1, <3>2
  <2>5. UNCHANGED <<breaker, gclock, sent, fatal, charged>>
    BY <1>3 DEF Complete
  <2>6. GatewayTypeOK' /\ BreakerCounts'
    BY <2>1, <2>2, <2>5 DEF GatewayTypeOK, BreakerCounts
  <2>7. \A x \in GatewayCalls : call'[x] = IF x = c THEN s ELSE call[x]
    BY <2>1 DEF GatewayTypeOK
  <2>8. CallsKept'
    BY <2>4, <2>5, <2>7 DEF CallsKept
  <2> QED  BY <2>6, <2>8
<1>4. ASSUME NEW c \in GatewayCalls, CheckBreaker(c)
      PROVE  GatewayInv'
  <2>0. MaxAttempts \in Nat /\ UNCHANGED <<gclock, fatal, charged>>
    BY <1>4, GatewayAssumption DEF CheckBreaker
  <2>1. CASE IsOpen(Primary)
    <3>1. PICK s : s = AfterFailure(c, TRUE)
      OBVIOUS
    <3>2. s \in CallState /\ CallKept(s, sent[c], charged[c], FALSE)
      BY <3>1, <1>4, FailureLeads DEF CheckBreaker
    <3>3. c \notin fatal
      BY <1>4 DEF CheckBreaker, CallsKept, CallKept
    <3>4. CallKept(s, sent[c], charged[c], c \in fatal)
      BY <3>2, <3>3 DEF CallKept
    <3>5. call' = [call EXCEPT ![c] = s] /\ sent' = sent /\ breaker' = RecordFailure(breaker, Primary)
      BY <2>1, <3>1, <1>4 DEF CheckBreaker
    <3>6. breaker' \in [Providers -> BreakerState] /\ BreakerCounts'
      BY <3>5, <2>0, <1>p, FailureCounts DEF BreakerCounts
    <3>7. GatewayTypeOK'
      BY <3>6, <3>5, <3>2, <2>0 DEF GatewayTypeOK
    <3>8. \A x \in GatewayCalls : call'[x] = IF x = c THEN s ELSE call[x]
      BY <3>5 DEF GatewayTypeOK
    <3>9. CallsKept'
      BY <3>4, <3>5, <3>8, <2>0 DEF CallsKept
    <3> QED  BY <3>6, <3>7, <3>9
  <2>2. CASE ~IsOpen(Primary)
    <3>1. PICK n \in Nat, a \in Nat : sent[c] = n /\ call[c].attempt = a
      BY DEF GatewayTypeOK, CallState
    <3>2. call' = [call EXCEPT ![c].phase = "sent"] /\ sent' = [sent EXCEPT ![c] = n + 1]
          /\ breaker' = Checked(Primary)
      BY <2>2, <3>1, <1>4 DEF CheckBreaker
    <3>3. PICK s : s = [call[c] EXCEPT !.phase = "sent"]
      OBVIOUS
    <3>4. s \in CallState /\ s.phase = "sent" /\ s.attempt = a
      BY <3>1, <3>3 DEF GatewayTypeOK, CallState, Attempting
    <3>5. c \notin fatal /\ charged[c] = 0 /\ n < a /\ a >= 1 /\ a <= MaxAttempts
      BY <1>4, <3>1, <2>0 DEF CheckBreaker, CallsKept, CallKept
    <3>6. CallKept(s, n + 1, charged[c], c \in fatal)
      BY <3>4, <3>5, <3>1, <2>0 DEF CallKept
    <3>7. breaker' \in [Providers -> BreakerState] /\ BreakerCounts'
      BY <3>2, <2>0, <1>p, CheckedCounts DEF BreakerCounts
    <3>8. \A x \in GatewayCalls : /\ call'[x] = IF x = c THEN s ELSE call[x]
                                  /\ sent'[x] = IF x = c THEN n + 1 ELSE sent[x]
      BY <3>2, <3>3 DEF GatewayTypeOK
    <3>9. GatewayTypeOK'
      BY <3>7, <3>2, <3>4, <3>3, <2>0 DEF GatewayTypeOK
    <3>10. CallsKept'
      BY <3>6, <3>8, <2>0 DEF CallsKept
    <3> QED  BY <3>7, <3>9, <3>10
  <2> QED  BY <2>1, <2>2
<1>5. ASSUME NEW c \in GatewayCalls, NEW o \in {"ok", "retryable", "fatal"}, Answer(c, o)
      PROVE  GatewayInv'
  <2>0. UNCHANGED <<gclock, sent>> /\ call[c].phase = "sent" /\ c \notin fatal /\ charged[c] = 0
    BY <1>5 DEF Answer, CallsKept, CallKept
  <2>1. CASE o = "ok"
    <3>1. call' = [call EXCEPT ![c].phase = "answered"] /\ charged' = [charged EXCEPT ![c] = 1]
          /\ breaker' = RecordSuccess(breaker, Primary) /\ fatal' = fatal
      BY <2>1, <2>0, <1>5 DEF Answer, Charge, GatewayTypeOK
    <3>2. PICK s : s = [call[c] EXCEPT !.phase = "answered"]
      OBVIOUS
    <3>3. s \in CallState /\ s.phase = "answered"
      BY <3>2 DEF GatewayTypeOK, CallState, Attempting
    <3>4. CallKept(s, sent[c], 1, c \in fatal)
      BY <3>3, <2>0 DEF CallKept, CallsKept
    <3>5. breaker' \in [Providers -> BreakerState] /\ BreakerCounts'
      BY <3>1, <2>0, <1>p, SuccessCounts DEF BreakerCounts
    <3>6. \A x \in GatewayCalls : /\ call'[x] = IF x = c THEN s ELSE call[x]
                                  /\ charged'[x] = IF x = c THEN 1 ELSE charged[x]
      BY <3>1, <3>2 DEF GatewayTypeOK
    <3>7. GatewayTypeOK'
      BY <3>1, <3>2, <3>3, <3>5, <2>0 DEF GatewayTypeOK
    <3>8. CallsKept'
      BY <3>1, <3>4, <3>6, <2>0 DEF CallsKept
    <3> QED  BY <3>5, <3>7, <3>8
  <2>2. CASE o # "ok"
    <3>0. PICK retryable \in BOOLEAN : retryable <=> o # "fatal"
      BY Zenon
    <3>1. PICK s : s = AfterFailure(c, retryable)
      OBVIOUS
    <3>2. /\ s \in CallState /\ CallKept(s, sent[c], charged[c], FALSE)
          /\ ~retryable => s.phase \in {"fallback", "failed"}
      BY <3>1, <2>0, FailureLeads
    <3>3. AfterFailure(c, o # "fatal") = AfterFailure(c, retryable)
      BY <3>0 DEF AfterFailure
    <3>4. call' = [call EXCEPT ![c] = s] /\ breaker' = RecordFailure(breaker, Primary)
          /\ charged' = charged /\ fatal' = IF o = "fatal" THEN fatal \cup {c} ELSE fatal
      BY <2>2, <3>1, <3>3, <1>5 DEF Answer
    <3>5. CallKept(s, sent[c], charged[c], c \in fatal')
      BY <3>2, <3>4, <3>0, <2>0 DEF CallKept
    <3>6. breaker' \in [Providers -> BreakerState] /\ BreakerCounts'
      BY <3>4, <2>0, <1>p, FailureCounts DEF BreakerCounts
    <3>7. \A x \in GatewayCalls : /\ call'[x] = IF x = c THEN s ELSE call[x]
                                  /\ x # c => (x \in fatal' <=> x \in fatal)
      BY <3>4 DEF GatewayTypeOK
    <3>8. GatewayTypeOK'
      BY <3>2, <3>4, <3>6, <2>0 DEF GatewayTypeOK
    <3>9. ASSUME NEW x \in GatewayCalls
          PROVE  CallKept(call'[x], sent'[x], charged'[x], x \in fatal')
      <4>1. CASE x = c
        BY <4>1, <3>4, <3>5, <3>7, <2>0
      <4>2. CASE x # c
        BY <4>2, <3>4, <3>7, <2>0 DEF CallsKept, CallKept
      <4> QED  BY <4>1, <4>2
    <3>10. CallsKept'
      BY <3>9 DEF CallsKept
    <3> QED  BY <3>6, <3>8, <3>10
  <2> QED  BY <2>1, <2>2
<1>6. ASSUME NEW c \in GatewayCalls, NEW ok \in BOOLEAN, FallbackAnswer(c, ok)
      PROVE  GatewayInv'
  <2>0. UNCHANGED <<gclock, breaker, sent, fatal>> /\ call[c].phase = "fallback" /\ charged[c] = 0
    BY <1>6 DEF FallbackAnswer, CallsKept, CallKept
  <2>1. PICK ph \in {"answered", "failed"} :
          /\ call' = [call EXCEPT ![c].phase = ph]
          /\ charged' = [charged EXCEPT ![c] = IF ph = "answered" THEN 1 ELSE 0]
    <3>1. CASE ok
      BY <3>1, <2>0, <1>6 DEF FallbackAnswer, Charge, GatewayTypeOK
    <3>2. CASE ~ok
      <4>1. charged = [charged EXCEPT ![c] = 0]
        BY <2>0 DEF GatewayTypeOK
      <4> QED  BY <3>2, <4>1, <1>6 DEF FallbackAnswer
    <3> QED  BY <3>1, <3>2
  <2>2. PICK s : s = [call[c] EXCEPT !.phase = ph]
    OBVIOUS
  <2>3. s \in CallState /\ s.phase = ph
    BY <2>2 DEF GatewayTypeOK, CallState, Attempting
  <2>4. CallKept(s, sent[c], IF ph = "answered" THEN 1 ELSE 0, c \in fatal)
    BY <2>3, <2>0 DEF CallKept, CallsKept
  <2>5. \A x \in GatewayCalls : /\ call'[x] = IF x = c THEN s ELSE call[x]
                                /\ charged'[x] = IF x = c THEN (IF ph = "answered" THEN 1 ELSE 0)
                                                 ELSE charged[x]
    BY <2>1, <2>2 DEF GatewayTypeOK
  <2>6. call' \in [GatewayCalls -> CallState]
    BY <2>1, <2>2, <2>3 DEF GatewayTypeOK
  <2>7. GatewayTypeOK' /\ BreakerCounts'
    BY <2>0, <2>1, <2>6 DEF GatewayTypeOK, BreakerCounts
  <2>8. CallsKept'
    BY <2>4, <2>5, <2>0 DEF CallsKept
  <2> QED  BY <2>7, <2>8
<1>7. ASSUME NEW down \in SUBSET Routed, Route(down)
      PROVE  GatewayInv'
  <2>1. UNCHANGED <<gclock, call, sent, fatal, charged>>
    BY <1>7 DEF Route
  <2>2. \A p \in Providers : breaker'[p] = Checked(p)[p] \/ breaker'[p] = breaker[p]
    BY <1>7 DEF Route
  <2>3. \A p \in Providers : /\ Checked(p)[p] \in BreakerState
                             /\ Checked(p)[p].open <=> Checked(p)[p].failures >= Threshold
                             /\ Checked(p)[p].at <= gclock
    BY CheckedCounts
  <2>4. \A p \in Providers : breaker'[p] \in BreakerState
    BY <2>2, <2>3 DEF GatewayTypeOK
  <2>5. breaker' \in [Providers -> BreakerState]
    BY <2>4, <1>7 DEF Route
  <2>6. BreakerCounts'
    BY <2>1, <2>2, <2>3 DEF BreakerCounts
  <2> QED  BY <2>1, <2>5, <2>6 DEF GatewayTypeOK, CallsKept
<1>8. ASSUME NEW s \in BOOLEAN, TrackResult("flash", s)
      PROVE  GatewayInv'
  <2>1. UNCHANGED <<gclock, call, sent, fatal, charged>>
    BY <1>8 DEF TrackResult
  <2>2. breaker' = RecordSuccess(breaker, "flash") \/ breaker' = RecordFailure(breaker, "flash")
    BY <1>8 DEF TrackResult
  <2>3. breaker' \in [Providers -> BreakerState] /\ BreakerCounts'
    BY <2>1, <2>2, <1>p, SuccessCounts, FailureCounts DEF BreakerCounts
  <2> QED  BY <2>1, <2>3 DEF GatewayTypeOK, CallsKept
<1>9. CASE GatewayTick
  BY <1>9 DEF GatewayTick, GatewayTypeOK, CallsKept, BreakerCounts, BreakerState
<1> QED  BY <1>1, <1>2, <1>3, <1>4, <1>5, <1>6, <1>7, <1>8, <1>9 DEF GatewayNext

\* The start.
LEMMA GatewayStarts == GatewayInit => GatewayInv
<1> SUFFICES ASSUME GatewayInit
             PROVE  GatewayInv
  OBVIOUS
<1>0. MaxAttempts \in Nat /\ Threshold \in Nat \ {0}
  BY GatewayAssumption
<1>1. GatewayTypeOK
  <2>1. [failures |-> 0, open |-> FALSE, at |-> 0] \in BreakerState
    <3>1. FALSE \in BOOLEAN
      BY Zenon
    <3> QED  BY <3>1 DEF BreakerState
  <2>2. [phase |-> "idle", attempt |-> 0] \in CallState
    BY DEF CallState, Attempting
  <2> QED  BY <2>1, <2>2 DEF GatewayInit, GatewayTypeOK
<1>2. CallsKept
  BY <1>0 DEF GatewayInit, CallsKept, CallKept
<1>3. BreakerCounts
  BY <1>0 DEF GatewayInit, BreakerCounts
<1> QED  BY <1>1, <1>2, <1>3 DEF GatewayInv

\* A call is charged once if it answered and never otherwise, breakers count, and the
\* router names a provider that is up (model_gateway.py, model_router.py).
THEOREM GatewayTheorem == GatewaySpec => []GatewaySound
<1>1. GatewayInv => GatewaySound
  <2>1. GatewayInv => CallsAccounted
    BY DEF GatewayInv, CallsKept, CallKept, CallsAccounted
  <2> QED  BY <2>1, RouterNames DEF GatewayInv, GatewaySound
<1> QED  BY <1>1, GatewayStarts, GatewayStep, PTL DEF GatewaySpec

------------------------------------------------------------------------------
(* The suite: the component in focus moves and the others stay. *)

\* A behaviour of the suite is one of each of its components.
LEMMA SuiteRuns ==
    /\ SuiteSpec => AgentSpec
    /\ SuiteSpec => RepairSpec
    /\ SuiteSpec => GitSpec
    /\ SuiteSpec => DeploySpec
    /\ SuiteSpec => BudgetSpec
    /\ SuiteSpec => GatewaySpec
<1>1. SuiteInit => AgentInit /\ RepairInit /\ GitInit /\ DeployInit /\ BudgetInit /\ GatewayInit
  BY DEF SuiteInit
<1>2. [SuiteNext]_suiteVars => /\ [AgentNext]_agentVars /\ [RepairNext]_repairVars
                               /\ [GitNext]_gitVars /\ [DeployNext]_deployVars
                               /\ [BudgetNext]_budgetVars /\ [GatewayNext]_gatewayVars
  <2>1. CASE UNCHANGED suiteVars
    BY <2>1 DEF suiteVars
  <2>2. CASE SuiteNext
    BY <2>2 DEF SuiteNext, Elsewhere, Invokes, RunsAgents, Governs, Charges, Allots, Routes, Repairs, Commits,
                Deploys, Scores, BudgetNext
  <2> QED  BY <2>1, <2>2
<1> QED
  BY <1>1, <1>2, PTL DEF SuiteSpec, AgentSpec, RepairSpec, GitSpec, DeploySpec, BudgetSpec, GatewaySpec

\* The agents and the repair loop keep their accounts in every behaviour of the suite
\* (agent_orchestrator.py, repair_loop.py).
THEOREM RunsTheorem == SuiteSpec => []RunsSound
<1>1. AgentRunSound /\ RepairSound => RunsSound
  BY DEF RunsSound
<1> QED  BY <1>1, SuiteRuns, AgentRunTheorem, RepairTheorem, PTL

\* Usage is charged where it belongs and a call is sent and charged as often as
\* the gateway says, in every behaviour of the suite (cost_governor.py,
\* resource_budget.py, model_gateway.py, model_router.py).
THEOREM SpendingTheorem == SuiteSpec => []SpendingSound
<1>1. BudgetsHold /\ GatewaySound => SpendingSound
  BY DEF SpendingSound
<1> QED  BY <1>1, SuiteRuns, BudgetTheorem, GatewayTheorem, PTL

\* The adapters keep to their governance in every behaviour of the suite
\* (git_adapter.py, deployment_adapter.py).
THEOREM AdaptersTheorem == SuiteSpec => []AdaptersSound
<1>1. GitGoverned /\ DeploymentSound => AdaptersSound
  BY DEF AdaptersSound
<1> QED  BY <1>1, SuiteRuns, GitTheorem, DeploymentTheorem, PTL
=============================================================================
