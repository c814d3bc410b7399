----------------------------- MODULE ProgramLoop ----------------------------
(***************************************************************************)
(* program_loop.py: start, pause, resume, stop and recover are called by   *)
(* any thread while the loop's own threads run cycles.  The status and the *)
(* counters change under a lock; the two events, the in-memory leases and  *)
(* the creation of the thread do not, so each is a step of its own.  The   *)
(* store lease of _acquire_lease is never written (its payload reads an    *)
(* attribute that does not exist and the exception is swallowed), so only  *)
(* the in-memory lease is state.                                           *)
(***************************************************************************)
EXTENDS Integers, FiniteSets

CONSTANTS
    LoopThreads,         \* threads that may be made, one per start
    LoopCalls,           \* API calls, each made at most once
    LoopOp,              \* [LoopCalls -> the method it calls]
    LoopMissions,        \* the missions the store lists
    MaxCycles,           \* config.max_cycles
    CheckpointInterval,  \* config.checkpoint_interval
    MaxLoopCrashes       \* bound on crashes of the process

VARIABLES
    loop,          \* state.status, the two events, the counters
    loopThread,    \* [LoopThreads -> pc, mission, result of its cycle]
    current,       \* _thread: the last thread made (a set of at most one)
    activeLeases,  \* _active_leases
    runnable,      \* the missions whose stored state is runnable
    saved,         \* counters of the last checkpoint in the store, if any
    loopCall,      \* [LoopCalls -> how far the call got]
    loopCrashes

loopVars == <<loop, loopThread, current, activeLeases, runnable, saved,
              loopCall, loopCrashes>>

LoopStatus == {"stopped", "starting", "running", "pausing", "paused",
               "resuming", "stopping"}
NoCounts == [cycles |-> 0, ok |-> 0, bad |-> 0]
NewLoop == [status |-> "stopped", stop |-> FALSE, go |-> TRUE, n |-> NoCounts]
NoThread == [pc |-> "none", m |-> {}, ok |-> FALSE]

LoopInit ==
    /\ loop = NewLoop
    /\ loopThread = [t \in LoopThreads |-> NoThread]
    /\ current = {} /\ activeLeases = {} /\ runnable = LoopMissions
    /\ saved = {} /\ loopCrashes = 0
    /\ loopCall = [c \in LoopCalls |-> "idle"]

LoopAlive(t) == loopThread[t].pc \notin {"none", "done"}
LoopCallTo(c, pc) == loopCall' = [loopCall EXCEPT ![c] = pc]
LoopThreadTo(t, pc) == loopThread' = [loopThread EXCEPT ![t].pc = pc]
LoopCallOnly == UNCHANGED <<loopThread, current, activeLeases, runnable, saved,
                            loopCrashes>>

------------------------------------------------------------------------------
(* The API. *)

LoopCallStart(c) ==
    /\ LoopOp[c] = "start" /\ loopCall[c] = "idle"
    /\ IF loop.status \in {"running", "starting"}
       THEN LoopCallTo(c, "done") /\ UNCHANGED loop
       ELSE /\ loop' = [loop EXCEPT !.status = "starting", !.stop = FALSE,
                                    !.go = TRUE]
            /\ LoopCallTo(c, "spawn")
    /\ LoopCallOnly

\* LoopThreads bounds the threads that may be made.
LoopSpawn(c) ==
    /\ loopCall[c] = "spawn" /\ \E t \in LoopThreads : loopThread[t].pc = "none"
    /\ LET t == CHOOSE u \in LoopThreads : loopThread[u].pc = "none"
       IN  /\ LoopThreadTo(t, "new")
           /\ current' = {t}
    /\ LoopCallTo(c, "done")
    /\ UNCHANGED <<loop, activeLeases, runnable, saved, loopCrashes>>

LoopCallPause(c) ==
    /\ LoopOp[c] = "pause" /\ loopCall[c] = "idle"
    /\ IF loop.status # "running"
       THEN LoopCallTo(c, "done") /\ UNCHANGED loop
       ELSE LoopCallTo(c, "clear") /\ loop' = [loop EXCEPT !.status = "pausing"]
    /\ LoopCallOnly

LoopPauseClear(c) ==
    /\ loopCall[c] = "clear"
    /\ loop' = [loop EXCEPT !.go = FALSE]
    /\ LoopCallTo(c, "done") /\ LoopCallOnly

LoopCallResume(c) ==
    /\ LoopOp[c] = "resume" /\ loopCall[c] = "idle"
    /\ IF loop.status # "paused"
       THEN LoopCallTo(c, "done") /\ UNCHANGED loop
       ELSE LoopCallTo(c, "set") /\ loop' = [loop EXCEPT !.status = "resuming"]
    /\ LoopCallOnly

LoopResumeSet(c) ==
    /\ loopCall[c] = "set"
    /\ loop' = [loop EXCEPT !.go = TRUE]
    /\ LoopCallTo(c, "done") /\ LoopCallOnly

LoopCallStop(c) ==
    /\ LoopOp[c] = "stop" /\ loopCall[c] = "idle"
    /\ IF loop.status \in {"stopped", "stopping"}
       THEN LoopCallTo(c, "done") /\ UNCHANGED loop
       ELSE LoopCallTo(c, "events") /\ loop' = [loop EXCEPT !.status = "stopping"]
    /\ LoopCallOnly

LoopStopEvent(c) ==
    /\ loopCall[c] = "events"
    /\ loop' = [loop EXCEPT !.stop = TRUE]
    /\ LoopCallTo(c, "wake") /\ LoopCallOnly

LoopStopWake(c) ==
    /\ loopCall[c] = "wake"
    /\ loop' = [loop EXCEPT !.go = TRUE]
    /\ LoopCallTo(c, IF \E t \in current : LoopAlive(t) THEN "join" ELSE "done")
    /\ LoopCallOnly

\* join returns when the thread ended or the timeout passed; a thread that is
\* still alive then (the joined one or a newer one) is reported as stopped.
LoopJoin(c) ==
    /\ loopCall[c] = "join"
    /\ loop' = IF \E t \in current : LoopAlive(t)
               THEN [loop EXCEPT !.status = "stopped"] ELSE loop
    /\ LoopCallTo(c, "done") /\ LoopCallOnly

\* Called on restart, before the loop is started again.
LoopRecover ==
    /\ loopCrashes > 0 /\ loop = NewLoop /\ saved # {}
    /\ \A t \in LoopThreads : ~LoopAlive(t)
    /\ loop' = [loop EXCEPT !.n = CHOOSE s \in saved : TRUE]
    /\ UNCHANGED loopCall /\ LoopCallOnly

------------------------------------------------------------------------------
(* The loop threads. *)

LoopBegin(t) ==
    /\ loopThread[t].pc = "new"
    /\ loop' = [loop EXCEPT !.status = "running"]
    /\ LoopThreadTo(t, "head")
    /\ UNCHANGED <<current, activeLeases, runnable, saved, loopCall, loopCrashes>>

LoopHeadPauseFirst(t) ==
    /\ loopThread[t].pc = "head"
    /\ \/ loop.stop /\ loop.go /\ LoopThreadTo(t, "exit") /\ UNCHANGED loop
       \/ ~loop.go /\ LoopThreadTo(t, "hold") /\ UNCHANGED loop
       \/ /\ ~loop.stop /\ loop.go /\ loop.n.cycles >= MaxCycles
          /\ loop' = [loop EXCEPT !.status = "stopping"]
          /\ LoopThreadTo(t, "exit")
       \/ /\ ~loop.stop /\ loop.go /\ loop.n.cycles < MaxCycles
          /\ LoopThreadTo(t, "select") /\ UNCHANGED loop
    /\ UNCHANGED <<current, activeLeases, runnable, saved, loopCall, loopCrashes>>

LoopHead(t) ==
    /\ loopThread[t].pc = "head"
    /\ \/ loop.stop /\ LoopThreadTo(t, "exit") /\ UNCHANGED loop
       \/ ~loop.stop /\ ~loop.go /\ LoopThreadTo(t, "hold") /\ UNCHANGED loop
       \/ /\ ~loop.stop /\ loop.go /\ loop.n.cycles >= MaxCycles
          /\ loop' = [loop EXCEPT !.status = "stopping"]
          /\ LoopThreadTo(t, "exit")
       \/ /\ ~loop.stop /\ loop.go /\ loop.n.cycles < MaxCycles
          /\ LoopThreadTo(t, "select") /\ UNCHANGED loop
    /\ UNCHANGED <<current, activeLeases, runnable, saved, loopCall, loopCrashes>>

LoopHold(t) ==
    /\ loopThread[t].pc = "hold"
    /\ loop' = [loop EXCEPT !.status = "paused"]
    /\ LoopThreadTo(t, "paused")
    /\ UNCHANGED <<current, activeLeases, runnable, saved, loopCall, loopCrashes>>

\* wait(timeout=0.5) returns with the event set or without it.
LoopWake(t) ==
    /\ loopThread[t].pc = "paused"
    /\ loop' = [loop EXCEPT !.status = "running"]
    /\ LoopThreadTo(t, "head")
    /\ UNCHANGED <<current, activeLeases, runnable, saved, loopCall, loopCrashes>>

\* A cycle that finds no mission is a success; the choice is a scheduler's or,
\* by default, the oldest.
LoopSelect(t) ==
    /\ loopThread[t].pc = "select"
    /\ IF runnable = {}
       THEN loopThread' = [loopThread EXCEPT ![t].pc = "count", ![t].ok = TRUE]
       ELSE \E m \in runnable :
                loopThread' = [loopThread EXCEPT ![t].pc = "acquire", ![t].m = {m}]
    /\ UNCHANGED <<loop, current, activeLeases, runnable, saved, loopCall, loopCrashes>>

LoopAcquire(t) ==
    /\ loopThread[t].pc = "acquire"
    /\ loopThread' = IF loopThread[t].m \subseteq activeLeases
                     THEN [loopThread EXCEPT ![t].pc = "count", ![t].ok = FALSE]
                     ELSE [loopThread EXCEPT ![t].pc = "claim"]
    /\ UNCHANGED <<loop, current, activeLeases, runnable, saved, loopCall, loopCrashes>>

LoopClaim(t) ==
    /\ loopThread[t].pc = "claim"
    /\ activeLeases' = activeLeases \cup loopThread[t].m
    /\ LoopThreadTo(t, "exec")
    /\ UNCHANGED <<loop, current, runnable, saved, loopCall, loopCrashes>>

\* run_mission succeeds, fails or raises, and may leave the mission runnable.
LoopExecute(t) ==
    /\ loopThread[t].pc = "exec"
    /\ \E ok \in BOOLEAN :
          loopThread' = [loopThread EXCEPT ![t].pc = "release", ![t].ok = ok]
    /\ runnable' \in {runnable, runnable \ loopThread[t].m}
    /\ UNCHANGED <<loop, current, activeLeases, saved, loopCall, loopCrashes>>

\* A failed execution returned before the release.
LoopReleaseOnSuccess(t) ==
    /\ loopThread[t].pc = "release"
    /\ activeLeases' = IF loopThread[t].ok THEN activeLeases \ loopThread[t].m
                       ELSE activeLeases
    /\ LoopThreadTo(t, "count")
    /\ UNCHANGED <<loop, current, runnable, saved, loopCall, loopCrashes>>

LoopRelease(t) ==
    /\ loopThread[t].pc = "release"
    /\ activeLeases' = activeLeases \ loopThread[t].m
    /\ LoopThreadTo(t, "count")
    /\ UNCHANGED <<loop, current, runnable, saved, loopCall, loopCrashes>>

Tally(n, ok) == [cycles |-> n.cycles + 1, ok |-> n.ok + (IF ok THEN 1 ELSE 0),
                 bad |-> n.bad + (IF ok THEN 0 ELSE 1)]

LoopCountHalf(t) ==
    /\ loopThread[t].pc = "count"
    /\ \E n \in {Tally(loop.n, loopThread[t].ok)} :
          loop' \in {[loop EXCEPT !.n = n], [loop EXCEPT !.n = [n EXCEPT !.bad = @ + 1]]}
    /\ LoopThreadTo(t, "checkpoint")
    /\ UNCHANGED <<current, activeLeases, runnable, saved, loopCall, loopCrashes>>

\* on_cycle is called inside the try: when it raises, the cycle that has just
\* been counted is counted once more, as a failure.
LoopCount(t) ==
    /\ loopThread[t].pc = "count"
    /\ \E n \in {Tally(loop.n, loopThread[t].ok)} :
          loop' \in {[loop EXCEPT !.n = n], [loop EXCEPT !.n = Tally(n, FALSE)]}
    /\ LoopThreadTo(t, "checkpoint")
    /\ UNCHANGED <<current, activeLeases, runnable, saved, loopCall, loopCrashes>>

LoopCheckpoint(t) ==
    /\ loopThread[t].pc = "checkpoint"
    /\ saved' = IF loop.n.cycles > 0 /\ loop.n.cycles % CheckpointInterval = 0
                THEN {loop.n} ELSE saved
    /\ loopThread' = [loopThread EXCEPT ![t] = [NoThread EXCEPT !.pc = "head"]]
    /\ UNCHANGED <<loop, current, activeLeases, runnable, loopCall, loopCrashes>>

LoopExit(t) ==
    /\ loopThread[t].pc = "exit"
    /\ loop' = [loop EXCEPT !.status = "stopped"]
    /\ LoopThreadTo(t, "done")
    /\ UNCHANGED <<current, activeLeases, runnable, saved, loopCall, loopCrashes>>

\* The process dies; the store keeps the missions and the checkpoint.
LoopCrash ==
    /\ loopCrashes < MaxLoopCrashes
    /\ loopCrashes' = loopCrashes + 1
    /\ loop' = NewLoop /\ current' = {} /\ activeLeases' = {}
    /\ loopThread' = [t \in LoopThreads |->
                        IF LoopAlive(t) THEN [NoThread EXCEPT !.pc = "done"]
                        ELSE loopThread[t]]
    /\ loopCall' = [c \in LoopCalls |->
                        IF loopCall[c] = "idle" THEN "idle" ELSE "done"]
    /\ UNCHANGED <<runnable, saved>>

LoopCallStep(c) ==
    \/ LoopCallStart(c) \/ LoopCallPause(c) \/ LoopCallResume(c)
    \/ LoopCallStop(c)
LoopCallRest(c) ==
    \/ LoopSpawn(c) \/ LoopPauseClear(c) \/ LoopResumeSet(c)
    \/ LoopStopEvent(c) \/ LoopStopWake(c) \/ LoopJoin(c)
LoopCycle(t) ==
    \/ LoopSelect(t) \/ LoopAcquire(t) \/ LoopClaim(t)
    \/ LoopExecute(t) \/ LoopRelease(t)
LoopThreadStep(t) ==
    \/ LoopBegin(t) \/ LoopHead(t) \/ LoopHold(t) \/ LoopWake(t)
    \/ LoopCycle(t) \/ LoopCount(t) \/ LoopCheckpoint(t) \/ LoopExit(t)

LoopNext ==
    \/ \E c \in LoopCalls : LoopCallStep(c) \/ LoopCallRest(c)
    \/ \E t \in LoopThreads : LoopThreadStep(t)
    \/ LoopCrash \/ LoopRecover

LoopFairness ==
    /\ \A c \in LoopCalls : WF_loopVars(LoopCallRest(c))
    /\ \A t \in LoopThreads : WF_loopVars(LoopThreadStep(t))

LoopSpec == LoopInit /\ [][LoopNext]_loopVars

------------------------------------------------------------------------------
LoopPcs == {"none", "new", "head", "hold", "paused", "select", "acquire", "claim", "exec",
            "release", "count", "checkpoint", "exit", "done"}
LoopCounts == [cycles : Nat, ok : Nat, bad : Nat]

\* What the fields hold.
LoopTypeOK ==
    /\ loop \in [status : LoopStatus, stop : BOOLEAN, go : BOOLEAN, n : LoopCounts]
    /\ loopThread \in [LoopThreads -> [pc : LoopPcs, m : SUBSET LoopMissions, ok : BOOLEAN]]
    /\ activeLeases \subseteq LoopMissions /\ runnable \subseteq LoopMissions
    /\ saved \subseteq LoopCounts

\* A lease of _active_leases always belongs to a thread that is executing the
\* mission and will release it: neither a failed execution nor the race of two
\* threads for one mission leaves a lease that keeps the mission out for good.
LeaseHasHolder ==
    \A m \in activeLeases : \E t \in LoopThreads :
        m \in loopThread[t].m /\ loopThread[t].pc \in {"exec", "release"}

\* Every cycle is counted as a success or a failure exactly once, in the state
\* and in the checkpoint recover reads, with two threads counting at once.
CountsBalance ==
    \A n \in {loop.n} \cup saved : n.cycles = n.ok + n.bad

\* What the loop keeps in memory agrees with what its threads are doing.
LoopAccounted == LeaseHasHolder /\ CountsBalance

\* Once the stop event stays set every loop thread ends and the status says
\* so, also when a pause that had passed its check clears the pause event
\* after stop has set it (program_loop.py:161, 178).
StopEnds ==
    (<>[]loop.stop) =>
        <>[](loop.status = "stopped" /\ \A t \in LoopThreads : ~LoopAlive(t))
=============================================================================
