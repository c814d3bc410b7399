------------------------------ MODULE AgentRun ------------------------------
(***************************************************************************)
(* brain/agent_orchestrator.py runs the tasks of a plan one after another  *)
(* in the order they were planned, with dependencies, one writer slot and  *)
(* callbacks that may raise.  Nothing adds to _tokens_used, so the token   *)
(* budget never runs out.                                                  *)
(***************************************************************************)
EXTENDS Integers, FiniteSets

CONSTANTS
    AgentTasks,      \* 1..n, in the order of the plan
    MaxAgentRuns     \* bound on calls of execute

ASSUME AgentTasksAssumption == IsFiniteSet(AgentTasks) /\ AgentTasks = 1..Cardinality(AgentTasks)

VARIABLES
    agentTask,    \* _tasks: [AgentTasks -> status, dependencies, writer]
    agentCursor,  \* the task execute is at; 0 when it is not running
    activeWriter, \* _active_writer, a set of at most one task
    agentReport,  \* the result of the last execute
    leftBehind,   \* history: a callback raised out of execute
    agentRuns

agentVars == <<agentTask, agentCursor, activeWriter, agentReport, leftBehind,
               agentRuns>>

AgentStatus == {"pending", "running", "completed", "failed", "cancelled",
                "timed_out", "blocked"}
NewAgentTask == [status |-> "pending", deps |-> {}, writer |-> FALSE]
NoReport == [completed |-> 0, failed |-> 0, timedOut |-> 0, status |-> "none"]

AgentInit ==
    /\ agentTask = [t \in AgentTasks |-> NewAgentTask]
    /\ agentCursor = 0 /\ activeWriter = {} /\ agentReport = NoReport
    /\ leftBehind = FALSE /\ agentRuns = 0

\* A step may name any other step, later ones and itself included.
AgentPlan ==
    /\ agentRuns = 0 /\ agentCursor = 0
    /\ \E deps \in [AgentTasks -> SUBSET AgentTasks], w \in [AgentTasks -> BOOLEAN] :
         agentTask' = [t \in AgentTasks |->
                         [NewAgentTask EXCEPT !.deps = deps[t], !.writer = w[t]]]
    /\ agentRuns' = 1 /\ agentCursor' = 1 /\ agentReport' = NoReport
    /\ UNCHANGED <<activeWriter, leftBehind>>

\* execute again: every task is gone through again, whatever its status.
AgentExecute ==
    /\ agentRuns \in 1..(MaxAgentRuns - 1) /\ agentCursor = 0
    /\ agentRuns' = agentRuns + 1 /\ agentCursor' = 1 /\ agentReport' = NoReport
    /\ UNCHANGED <<agentTask, activeWriter, leftBehind>>

AgentBlocked(t) == \E d \in agentTask[t].deps : agentTask[d].status # "completed"

AcquireWriter(t) == IF agentTask[t].writer THEN activeWriter \cup {t} ELSE activeWriter
ReleaseWriter(t) == activeWriter \ {t}

\* A task that waits for another one, or for the writer slot, is passed over.
AgentSkip(t) ==
    /\ agentCursor = t /\ agentTask[t].status # "running"
    /\ AgentBlocked(t) \/ (agentTask[t].writer /\ activeWriter # {})
    /\ agentTask' = [agentTask EXCEPT ![t].status = "blocked"]
    /\ agentCursor' = t + 1
    /\ UNCHANGED <<activeWriter, agentReport, leftBehind, agentRuns>>

AgentRunTask(t) ==
    /\ agentCursor = t /\ agentTask[t].status # "running"
    /\ ~AgentBlocked(t) /\ (agentTask[t].writer => activeWriter = {})
    /\ agentTask' = [agentTask EXCEPT ![t].status = "running"]
    /\ activeWriter' = AcquireWriter(t)
    /\ UNCHANGED <<agentCursor, agentReport, leftBehind, agentRuns>>

AgentEnds(t, status, counts) ==
    /\ agentCursor = t /\ agentTask[t].status = "running"
    /\ agentTask' = [agentTask EXCEPT ![t].status = status]
    /\ agentReport' = [agentReport EXCEPT
                         !.completed = @ + (IF "completed" \in counts THEN 1 ELSE 0),
                         !.failed = @ + (IF "failed" \in counts THEN 1 ELSE 0),
                         !.timedOut = @ + (IF "timed_out" \in counts THEN 1 ELSE 0)]
    /\ UNCHANGED agentRuns

\* An on_progress that raises marks the task but is not counted.
AgentFinishQuiet(t) ==
    /\ \/ AgentEnds(t, "completed", {"completed"})
       \/ AgentEnds(t, "failed", {"completed"})
       \/ AgentEnds(t, "failed", {"failed"})
       \/ AgentEnds(t, "timed_out", {"timed_out"})
    /\ activeWriter' = ReleaseWriter(t)
    /\ agentCursor' = t + 1 /\ UNCHANGED leftBehind

\* The outcome of the executor.  on_progress is called inside the try: when it
\* raises, the task that was counted as completed is counted as failed too.
AgentFinish(t) ==
    /\ \/ AgentEnds(t, "completed", {"completed"})
       \/ AgentEnds(t, "failed", {"completed", "failed"})
       \/ AgentEnds(t, "failed", {"failed"})
       \/ AgentEnds(t, "timed_out", {"timed_out"})
    /\ activeWriter' = ReleaseWriter(t)
    /\ agentCursor' = t + 1 /\ UNCHANGED leftBehind

\* on_error raises out of execute: no result, and the writer slot stays taken.
AgentAbort(t) ==
    /\ AgentEnds(t, "failed", {"failed"}) \/ AgentEnds(t, "timed_out", {"timed_out"})
    /\ agentCursor' = 0 /\ leftBehind' = TRUE /\ UNCHANGED activeWriter

AgentResult ==
    /\ agentCursor = Cardinality(AgentTasks) + 1
    /\ agentCursor' = 0
    /\ agentReport' = [agentReport EXCEPT
                         !.status = IF agentReport.failed = 0 THEN "completed"
                                    ELSE "partial_failure"]
    /\ UNCHANGED <<agentTask, activeWriter, leftBehind, agentRuns>>

AgentStep(t) == AgentSkip(t) \/ AgentRunTask(t) \/ AgentFinish(t) \/ AgentAbort(t)

AgentNext ==
    \/ AgentPlan \/ AgentExecute \/ AgentResult
    \/ \E t \in AgentTasks : AgentStep(t)

AgentSpec == AgentInit /\ [][AgentNext]_agentVars

------------------------------------------------------------------------------
AgentTaskType == [status : AgentStatus, deps : SUBSET AgentTasks, writer : BOOLEAN]
ReportType == [completed : Nat, failed : Nat, timedOut : Nat,
               status : {"none", "completed", "partial_failure"}]

\* The state keeps its shape.
AgentTypeOK ==
    /\ agentTask \in [AgentTasks -> AgentTaskType]
    /\ agentCursor \in AgentTasks \cup {0, Cardinality(AgentTasks) + 1}
    /\ activeWriter \subseteq AgentTasks /\ agentReport \in ReportType
    /\ leftBehind \in BOOLEAN /\ agentRuns \in Nat

\* Whatever the order of the plan and whichever callback raises: the writer
\* slot belongs to the running task or to one whose error callback raised out
\* of execute; a result that says completed hides no failed task; and a task
\* completed in a finished run follows only completed tasks it depends on.
AgentRunSound ==
    /\ activeWriter # {} =>
         leftBehind \/ (agentCursor \in activeWriter
                       /\ agentTask[agentCursor].status = "running")
    /\ agentReport.status = "completed" =>
         \A t \in AgentTasks : agentTask[t].status # "failed"
    /\ agentReport.status # "none" =>
         \A t \in AgentTasks : agentTask[t].status = "completed" =>
           \A d \in agentTask[t].deps : d < t => agentTask[d].status = "completed"
=============================================================================
