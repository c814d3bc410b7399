---------------------------- MODULE Orchestrator ----------------------------
(***************************************************************************)
(* The autonomous control plane of src/nexara_prime/orchestration.py: the  *)
(* mission queue, the worker registry, the durable writer leases, the      *)
(* evidence queue and the loop that dispatches missions to workers, next   *)
(* to the approval queue of ApprovalQueue.                                 *)
(*                                                                         *)
(* All of them keep their records in one SQLite store and change them by   *)
(* reading a record and writing it back whole; nothing is compared.  The   *)
(* loop threads and the calls of workers and clients take one step for     *)
(* each access, so they interleave between any two accesses.  The loop     *)
(* runs on a thread that start() makes and that stop() only asks to end,   *)
(* so a stop followed by a start can leave two of them (Loops).            *)
(*                                                                         *)
(* Time is a choice: a lease, a worker's heartbeat, a delayed mission and  *)
(* an approval run out at any moment.  A lease's acquired_at is a stamp.   *)
(* What a worker is capable of, compared with a mission's requirements and *)
(* risk, is the set Eligible.                                              *)
(***************************************************************************)
EXTENDS ApprovalQueue

CONSTANTS
    Missions, Workers, Jobs,
    Loops,       \* loop threads
    Calls,       \* calls of workers and clients; each runs once
    Op,          \* call -> operation
    Arg,         \* call -> the mission it is about
    By,          \* call -> the worker that makes it
    Key,         \* mission -> idempotency_key
    Priority,    \* mission -> priority
    Depends,     \* mission -> the missions it depends on
    Delayed,     \* the missions submitted with available_at in the future
    Eligible,    \* mission -> workers with its capabilities, fit for its risk
    Preferred,   \* mission -> preferred_worker, or None
    Leaving,     \* the workers that may unregister or fall silent
    Rank,        \* worker -> position by writer_capable, then health
    RequestFor,  \* approval request -> mission
    JobFor,      \* evidence job -> mission
    None,
    MaxAttempts, \* max_attempts of a queue item
    MaxLeases,   \* bound on the number of lease records
    MaxStops,    \* bound on the number of stop() calls
    MaxFaults    \* bound on crashes and failing cycles

ASSUME OrchestratorAssumption ==
    /\ Op \in [Calls -> {"submit", "complete", "heartbeat", "renew",
                         "release", "beat"}]
    /\ Arg \in [Calls -> Missions] /\ By \in [Calls -> Workers]
    /\ Priority \in [Missions -> Nat] /\ Rank \in [Workers -> Nat]
    /\ Depends \in [Missions -> SUBSET Missions]
    /\ Delayed \subseteq Missions /\ Leaving \subseteq Workers
    /\ Eligible \in [Missions -> SUBSET Workers]
    /\ Preferred \in [Missions -> Workers \cup {None}]
    /\ RequestFor \in [Requests -> Missions] /\ JobFor \in [Jobs -> Missions]
    /\ None \notin Workers \cup Missions
    /\ MaxAttempts \in Nat \ {0} /\ MaxLeases \in Nat
    /\ MaxStops \in Nat /\ MaxFaults \in Nat

VARIABLES
    queue,   \* mission -> its queue item
    due,     \* the missions whose available_at has passed
    leases,  \* stamp -> lease record
    stamp,   \* the last stamp taken
    worker,  \* worker -> its registration
    jobs,    \* evidence job -> verification_status
    recovery,\* mission -> number of recovery items
    done,    \* history: the missions that were completed at some time
    active, stopping, \* _active and _stop_flag
    stops, faults,    \* counters for the bounds
    loop,    \* loop thread -> its local state
    call     \* call -> its local state

stores == <<queue, due, leases, stamp, worker, jobs, recovery, done>>
control == <<active, stopping, stops, faults>>
vars == <<approvalVars, stores, control, loop, call>>

-----------------------------------------------------------------------------
QueueItemState == {"absent", "queued", "ready", "running", "waiting_approval",
                   "completed", "blocked"}
Item == [state : QueueItemState, attempts : Nat, owner : Workers \cup {None}]
NewItem == [state |-> "queued", attempts |-> 0, owner |-> None]
NoItem == [NewItem EXCEPT !.state = "absent"]

Stamps == 1..MaxLeases
LeaseState == {"absent", "active", "released", "stale"}
Lease == [mission : Missions \cup {None}, worker : Workers \cup {None},
          state : LeaseState, live : BOOLEAN]
NoLease == [mission |-> None, worker |-> None, state |-> "absent",
            live |-> FALSE]

LoopPC == {"off", "top", "expire", "expiring", "resume", "reget", "bump",
           "bumped", "reread", "recover", "approvals", "sweeping", "promote",
           "promoting", "waiting", "wakening", "dequeue", "check", "schedule",
           "acquire", "claim", "read", "write"}
CallPC == {"submit", "get", "held", "pending", "failed", "read",
           "write", "lease", "saveLease", "beat", "saveBeat", "done"}

LoopState == [pc : LoopPC, next : LoopPC, m : Missions \cup {None},
              w : Workers \cup {None}, at : Stamps \cup {0}, copy : Item,
              target : QueueItemState, expired : SUBSET Stamps,
              stale : SUBSET Stamps, sweep : SUBSET Requests,
              batch : SUBSET Missions, seen : SUBSET Missions]
LoopOff == [pc |-> "off", next |-> "off", m |-> None, w |-> None, at |-> 0,
            copy |-> NoItem, target |-> "absent", expired |-> {},
            stale |-> {}, sweep |-> {}, batch |-> {}, seen |-> {}]
AtTop == [LoopOff EXCEPT !.pc = "top"]

CallState == [pc : CallPC, item : Item, at : Stamps \cup {0}, lease : Lease,
              jobs : SUBSET Jobs]

\* A call that has not begun is at its first access to the store.
Entry(c) == CASE Op[c] = "submit"   -> "submit"
              [] Op[c] = "complete" -> "get"
              [] Op[c] = "beat"     -> "beat"
              [] OTHER              -> "lease"
NewCall(c) == [pc |-> Entry(c), item |-> NoItem, at |-> 0, lease |-> NoLease,
               jobs |-> {}]

\* The type of every variable.
TypeOK ==
    /\ ApprovalTypeOK
    /\ queue \in [Missions -> Item]
    /\ due \subseteq Missions
    /\ leases \in [Stamps -> Lease]
    /\ stamp \in Stamps \cup {0}
    /\ worker \in [Workers -> {"absent", "fresh", "stale", "unregistered"}]
    /\ jobs \in [Jobs -> {"absent", "pending", "verified", "failed"}]
    /\ recovery \in [Missions -> Nat]
    /\ done \subseteq Missions
    /\ active \in BOOLEAN /\ stopping \in BOOLEAN
    /\ stops \in Nat /\ faults \in Nat
    /\ loop \in [Loops -> LoopState]
    /\ call \in [Calls -> CallState]

Init ==
    /\ ApprovalInit
    /\ queue = [m \in Missions |-> NoItem]
    /\ due = Missions \ Delayed
    /\ leases = [s \in Stamps |-> NoLease]
    /\ stamp = 0
    /\ worker = [w \in Workers |-> "absent"]
    /\ jobs = [j \in Jobs |-> "absent"]
    /\ recovery = [m \in Missions |-> 0]
    /\ done = {}
    /\ active = FALSE /\ stopping = FALSE
    /\ stops = 0 /\ faults = 0
    /\ loop = [l \in Loops |-> LoopOff]
    /\ call = [c \in Calls |-> NewCall(c)]

-----------------------------------------------------------------------------
(* What the stores say *)

\* mutant: a dependency that was never submitted counts as met.
DependenciesMetLoosely(m) ==
    \A d \in Depends[m] : queue[d].state \in {"absent", "completed"}

DependenciesMet(m) == \A d \in Depends[m] : queue[d].state = "completed"

LeasesOf(m) == {s \in Stamps : leases[s].mission = m}

\* _latest_active_lease: the newest record, if any, whatever its state.
Latest(m) == {s \in LeasesOf(m) : \A t \in LeasesOf(m) : t <= s}

\* An active, unexpired lease keeps others from acquiring the mission.
Leased(m) == \E s \in LeasesOf(m) : leases[s].state = "active" /\ leases[s].live

HasPendingApproval(m) ==
    \E r \in Requests : RequestFor[r] = m /\ request[r] = "pending"

\* _is_approval_blocked goes by the first of the mission's requests; which
\* one that is depends on when each record was last saved, and is left open.
ApprovalVerdict(m) ==
    LET asked == {r \in Requests : RequestFor[r] = m /\ request[r] # "absent"}
    IN  IF asked = {} THEN {FALSE}
        ELSE {request[r] \notin {"approved", "consumed"} : r \in asked}

ListAvailable == {w \in Workers : worker[w] = "fresh"}

\* schedule: the preferred worker if it is a candidate, else the best ranked.
Schedule(m) ==
    LET candidates == ListAvailable \cap Eligible[m]
    IN  IF Preferred[m] \in candidates THEN {Preferred[m]}
        ELSE {w \in candidates : \A v \in candidates : Rank[w] <= Rank[v]}

\* dequeue: the ready missions that may run, the highest priority first.
Dequeue ==
    LET candidates == {m \in due : queue[m].state = "ready" /\ DependenciesMet(m)}
    IN  {m \in candidates : \A n \in candidates : Priority[n] <= Priority[m]}

-----------------------------------------------------------------------------
(* The loop thread: one cycle of _execute_cycle *)

LGoto(l, pc) == loop' = [loop EXCEPT ![l].pc = pc]
OnlyLoop == UNCHANGED <<approvalVars, stores, control, call>>

\* start: does nothing when active, else a new thread runs the loop.
Start(l) ==
    /\ ~active
    /\ loop[l].pc = "off"
    /\ active' = TRUE /\ stopping' = FALSE
    /\ LGoto(l, "top")
    /\ UNCHANGED <<approvalVars, stores, stops, faults, call>>

\* stop does not wait for the thread.
Stop ==
    /\ active /\ stops < MaxStops
    /\ active' = FALSE /\ stopping' = TRUE
    /\ stops' = stops + 1
    /\ UNCHANGED <<approvalVars, stores, faults, loop, call>>

\* _run_loop: the test before each cycle.
RunLoop(l) ==
    /\ loop[l].pc = "top"
    /\ loop' = [loop EXCEPT ![l] = [LoopOff EXCEPT !.pc =
                    IF active /\ ~stopping THEN "expire" ELSE "off"]]
    /\ OnlyLoop

\* mutant: transition forgets the extra fields.
TransitionReadPlain(l) ==
    /\ loop[l].pc = "read"
    /\ loop' = [loop EXCEPT ![l].pc = "write",
           ![l].copy = [queue[loop[l].m] EXCEPT !.state = loop[l].target]]
    /\ OnlyLoop

\* transition, its read: the item with its new state.
TransitionRead(l) ==
    /\ loop[l].pc = "read"
    /\ loop' = [loop EXCEPT ![l].pc = "write",
           ![l].copy = [queue[loop[l].m] EXCEPT
                           !.state = loop[l].target,
                           !.owner = IF loop[l].target = "running"
                                     THEN loop[l].w ELSE @]]
    /\ OnlyLoop

\* transition, its write.
TransitionWrite(l) ==
    /\ loop[l].pc = "write"
    /\ queue' = [queue EXCEPT ![loop[l].m] = loop[l].copy]
    /\ loop' = [loop EXCEPT ![l].pc = loop[l].next, ![l].copy = NoItem,
                            ![l].target = "absent", ![l].w = None,
                            ![l].m = IF loop[l].next = "recover" THEN @ ELSE None]
    /\ UNCHANGED <<approvalVars, due, leases, stamp, worker, jobs, recovery,
                   done, control, call>>

\* The loop goes on with a transition of mission m and then with next.
Transit(l, m, target, next) ==
    [loop[l] EXCEPT !.pc = "read", !.m = m, !.target = target, !.next = next]

\* leases.expire_stale, the listing.
ExpireList(l) ==
    /\ loop[l].pc = "expire"
    /\ LET lapsed == {s \in Stamps : leases[s].state = "active"
                                       /\ ~leases[s].live}
       IN  loop' = [loop EXCEPT ![l].expired = lapsed,
               ![l].pc = IF lapsed = {} THEN "approvals" ELSE "expiring"]
    /\ OnlyLoop

\* leases.expire_stale, each listed lease is saved as it was, but stale.
ExpireLease(l) ==
    /\ loop[l].pc = "expiring"
    /\ \E s \in loop[l].expired :
          /\ leases' = [leases EXCEPT ![s].state = "stale", ![s].live = FALSE]
          /\ loop' = [loop EXCEPT ![l].expired = @ \ {s},
                 ![l].stale = @ \cup {s},
                 ![l].pc = IF loop[l].expired = {s} THEN "resume" ELSE @]
    /\ UNCHANGED <<approvalVars, queue, due, stamp, worker, jobs, recovery,
                   done, control, call>>

\* Where _crash_resume goes when it is through with one of the leases.
Resuming(rest) == IF rest = {} THEN "approvals" ELSE "resume"

\* _crash_resume, for each lease that was marked: recover_stale.
RecoverStale(l) ==
    /\ loop[l].pc = "resume"
    /\ \E s \in loop[l].stale :
          LET m    == leases[s].mission
              rest == loop[l].stale \ {s}
          IN  loop' = [loop EXCEPT ![l] =
                 IF \E t \in LeasesOf(m) : leases[t].state = "stale"
                 THEN [@ EXCEPT !.stale = rest, !.m = m, !.pc = "reget"]
                 ELSE [@ EXCEPT !.stale = rest, !.pc = Resuming(rest)]]
    /\ OnlyLoop

\* _crash_resume: only a mission that is running is given another attempt.
ResumeMission(l) ==
    /\ loop[l].pc = "reget"
    /\ loop' = [loop EXCEPT ![l] =
           IF queue[loop[l].m].state = "running"
           THEN [@ EXCEPT !.pc = "bump"]
           ELSE [@ EXCEPT !.pc = Resuming(loop[l].stale), !.m = None]]
    /\ OnlyLoop

\* bump_attempt, its read.
BumpRead(l) ==
    /\ loop[l].pc = "bump"
    /\ loop' = [loop EXCEPT ![l].pc = "bumped",
           ![l].copy = [queue[loop[l].m] EXCEPT !.attempts = @ + 1]]
    /\ OnlyLoop

\* bump_attempt, its write: the whole item as it was read.
BumpWrite(l) ==
    /\ loop[l].pc = "bumped"
    /\ queue' = [queue EXCEPT ![loop[l].m] = loop[l].copy]
    /\ loop' = [loop EXCEPT ![l].pc = "reread", ![l].copy = NoItem]
    /\ UNCHANGED <<approvalVars, due, leases, stamp, worker, jobs, recovery,
                   done, control, call>>

\* mutant: the last attempt does not count.
ExhaustedLate(m) == queue[m].attempts > MaxAttempts

Exhausted(m) == queue[m].attempts >= MaxAttempts

\* _crash_resume: another attempt, or the mission is blocked.
Requeue(l) ==
    LET m == loop[l].m
    IN  /\ loop[l].pc = "reread"
        /\ loop' = [loop EXCEPT ![l] =
               IF Exhausted(m) THEN Transit(l, m, "blocked", "recover")
                               ELSE Transit(l, m, "ready", Resuming(loop[l].stale))]
        /\ OnlyLoop

\* recovery.enqueue for a blocked mission.
EnqueueRecovery(l) ==
    /\ loop[l].pc = "recover"
    /\ recovery' = [recovery EXCEPT ![loop[l].m] = @ + 1]
    /\ loop' = [loop EXCEPT ![l].pc = Resuming(loop[l].stale), ![l].m = None]
    /\ UNCHANGED <<approvalVars, queue, due, leases, stamp, worker, jobs, done,
                   control, call>>

\* approvals.expire_stale, the listing.
SweepList(l) ==
    /\ loop[l].pc = "approvals"
    /\ loop' = [loop EXCEPT ![l].sweep = Sweepable,
                   ![l].pc = IF Sweepable = {} THEN "promote" ELSE "sweeping"]
    /\ OnlyLoop

\* approvals.expire_stale, one save.
Sweep(l) ==
    /\ loop[l].pc = "sweeping"
    /\ \E r \in loop[l].sweep :
          /\ SweepRequest(r)
          /\ loop' = [loop EXCEPT ![l].sweep = @ \ {r},
                 ![l].pc = IF loop[l].sweep = {r} THEN "promote" ELSE @]
    /\ UNCHANGED <<stores, control, call>>

ListByState(state) == {m \in Missions : queue[m].state = state}

\* The loop works through the listed missions at pc and then goes to next.
Working(rest, pc, next) == IF rest = {} THEN next ELSE pc

\* The queued missions, listed once, ...
PromoteList(l) ==
    /\ loop[l].pc = "promote"
    /\ LET batch == ListByState("queued")
       IN  loop' = [loop EXCEPT ![l].batch = batch,
                       ![l].pc = Working(batch, "promoting", "waiting")]
    /\ OnlyLoop

\* ... become ready when their dependencies are completed.
Promote(l) ==
    /\ loop[l].pc = "promoting"
    /\ \E m \in loop[l].batch :
          LET rest == loop[l].batch \ {m}
              pc   == Working(rest, "promoting", "waiting")
          IN  loop' = [loop EXCEPT ![l] =
                 [(IF DependenciesMet(m) THEN Transit(l, m, "ready", pc)
                                         ELSE [@ EXCEPT !.pc = pc])
                  EXCEPT !.batch = rest]]
    /\ OnlyLoop

\* The missions that wait for an approval, listed once, ...
WaitingList(l) ==
    /\ loop[l].pc = "waiting"
    /\ LET batch == ListByState("waiting_approval")
       IN  loop' = [loop EXCEPT ![l].batch = batch,
                       ![l].pc = Working(batch, "wakening", "dequeue")]
    /\ OnlyLoop

\* ... become ready when no request of theirs is pending.
Waken(l) ==
    /\ loop[l].pc = "wakening"
    /\ \E m \in loop[l].batch :
          LET rest == loop[l].batch \ {m}
              pc   == Working(rest, "wakening", "dequeue")
          IN  loop' = [loop EXCEPT ![l] =
                 [(IF HasPendingApproval(m) THEN [@ EXCEPT !.pc = pc]
                                            ELSE Transit(l, m, "ready", pc))
                  EXCEPT !.batch = rest]]
    /\ OnlyLoop

\* The next mission; the cycle ends with none, or with one seen before.
TakeNext(l) ==
    /\ loop[l].pc = "dequeue"
    /\ \/ /\ Dequeue = {} \/ \E m \in Dequeue : m \in loop[l].seen
          /\ loop' = [loop EXCEPT ![l] = AtTop]
       \/ \E m \in Dequeue \ loop[l].seen :
             loop' = [loop EXCEPT ![l].pc = "check", ![l].m = m,
                                 ![l].seen = @ \cup {m}]
    /\ OnlyLoop

\* mutant: a mission that waits for its approval ends the cycle.
CheckStalls(l) ==
    /\ loop[l].pc = "check"
    /\ \E blocked \in ApprovalVerdict(loop[l].m) :
           LGoto(l, IF blocked THEN "top" ELSE "schedule")
    /\ OnlyLoop

\* A mission without approval is put aside.
CheckApproval(l) ==
    LET m == loop[l].m
    IN  /\ loop[l].pc = "check"
        /\ \E blocked \in ApprovalVerdict(m) :
               loop' = [loop EXCEPT ![l] =
                  IF blocked THEN Transit(l, m, "waiting_approval", "dequeue")
                             ELSE [@ EXCEPT !.pc = "schedule"]]
        /\ OnlyLoop

\* A mission that no worker is fit for is blocked.
PickWorker(l) ==
    LET m == loop[l].m
    IN  /\ loop[l].pc = "schedule"
        /\ \/ /\ Schedule(m) = {}
              /\ loop' = [loop EXCEPT ![l] = Transit(l, m, "blocked", "dequeue")]
           \/ \E w \in Schedule(m) :
                 loop' = [loop EXCEPT ![l].pc = "acquire", ![l].w = w]
        /\ OnlyLoop

\* leases.acquire, its scan: the stamp is taken before it.
AcquireScan(l) ==
    /\ loop[l].pc = "acquire"
    /\ \/ /\ Leased(loop[l].m)
          /\ loop' = [loop EXCEPT ![l].pc = "dequeue", ![l].m = None, ![l].w = None]
          /\ UNCHANGED stamp
       \/ /\ ~Leased(loop[l].m)
          /\ stamp < MaxLeases
          /\ stamp' = stamp + 1
          /\ loop' = [loop EXCEPT ![l].pc = "claim", ![l].at = stamp + 1]
    /\ UNCHANGED <<approvalVars, queue, due, leases, worker, jobs, recovery,
                   done, control, call>>

\* leases.acquire, its insertion: the claim's id contains the worker and the
\* stamp, so it is always absent; then the mission is running.
AcquireClaim(l) ==
    /\ loop[l].pc = "claim"
    /\ leases' = [leases EXCEPT ![loop[l].at] =
                     [mission |-> loop[l].m, worker |-> loop[l].w,
                      state |-> "active", live |-> TRUE]]
    /\ loop' = [loop EXCEPT ![l] =
                   [Transit(l, loop[l].m, "running", "dequeue") EXCEPT !.at = 0]]
    /\ UNCHANGED <<approvalVars, queue, due, stamp, worker, jobs, recovery,
                   done, control, call>>

LoopStep(l) ==
    \/ RunLoop(l) \/ TransitionRead(l) \/ TransitionWrite(l)
    \/ ExpireList(l) \/ ExpireLease(l) \/ RecoverStale(l) \/ ResumeMission(l)
    \/ BumpRead(l) \/ BumpWrite(l) \/ Requeue(l) \/ EnqueueRecovery(l)
    \/ SweepList(l) \/ Sweep(l) \/ PromoteList(l) \/ Promote(l)
    \/ WaitingList(l) \/ Waken(l) \/ TakeNext(l) \/ CheckApproval(l)
    \/ PickWorker(l) \/ AcquireScan(l) \/ AcquireClaim(l)

-----------------------------------------------------------------------------
(* The calls of workers and clients *)

CGoto(c, pc) == call' = [call EXCEPT ![c].pc = pc]
OnlyCall == UNCHANGED <<approvalVars, stores, control, loop>>

\* enqueue, its scan: an unfinished item with the same key is returned.
SubmitScan(c) ==
    /\ call[c].pc = "submit"
    /\ CGoto(c, IF \E m \in Missions : /\ Key[m] = Key[Arg[c]]
                                      /\ queue[m].state \notin {"absent", "completed"}
                THEN "done" ELSE "write")
    /\ OnlyCall

\* enqueue, its write: a new item, whatever is stored for the mission.
SubmitWrite(c) ==
    /\ Op[c] = "submit"
    /\ call[c].pc = "write"
    /\ queue' = [queue EXCEPT ![Arg[c]] = NewItem]
    /\ CGoto(c, "done")
    /\ UNCHANGED <<approvalVars, due, leases, stamp, worker, jobs, recovery,
                   done, control, loop>>

\* complete_mission: the mission must be running, ...
CompleteGet(c) ==
    /\ call[c].pc = "get"
    /\ CGoto(c, IF queue[Arg[c]].state = "running" THEN "held" ELSE "done")
    /\ OnlyCall

\* ... its newest lease active (expired or not) and the caller's, ...
CompleteHeld(c) ==
    /\ call[c].pc = "held"
    /\ CGoto(c, IF \E s \in Latest(Arg[c]) : /\ leases[s].state = "active"
                                           /\ leases[s].worker = By[c]
                THEN "pending" ELSE "done")
    /\ OnlyCall

JobsOf(m, status) == {j \in Jobs : JobFor[j] = m /\ jobs[j] = status}

\* mutant: the gate looks for failed jobs first and for pending ones second.
GateSwapped == <<"failed", "pending">>

\* completion_gate_passed looks for pending jobs first, for failed ones second.
Gate == <<"pending", "failed">>

\* ... no evidence job of it pending, ...
GatePending(c) ==
    /\ call[c].pc = "pending"
    /\ call' = [call EXCEPT
           ![c].pc = IF JobsOf(Arg[c], Gate[1]) = {} THEN "failed" ELSE "done",
           ![c].jobs = {j \in Jobs : JobFor[j] = Arg[c] /\ jobs[j] # "absent"}]
    /\ OnlyCall

\* ... none failed, and the worker's own result, if any, a success.
GateFailed(c) ==
    /\ call[c].pc = "failed"
    /\ \/ CGoto(c, "done")
       \/ JobsOf(Arg[c], Gate[2]) = {} /\ CGoto(c, "read")
    /\ OnlyCall

CompleteRead(c) ==
    /\ call[c].pc = "read"
    /\ call' = [call EXCEPT ![c].pc = "write",
           ![c].item = [queue[Arg[c]] EXCEPT !.state = "completed"]]
    /\ OnlyCall

\* The mission is completed; then its lease is released.
CompleteWrite(c) ==
    /\ Op[c] = "complete"
    /\ call[c].pc = "write"
    /\ queue' = [queue EXCEPT ![Arg[c]] = call[c].item]
    /\ done' = done \cup {Arg[c]}
    /\ call' = [call EXCEPT ![c].pc = "lease", ![c].item = NoItem,
                             ![c].jobs = {}]
    /\ UNCHANGED <<approvalVars, due, leases, stamp, worker, jobs, recovery,
                   control, loop>>

\* What heartbeat, renew and release make of the newest lease of the mission;
\* only heartbeat looks at its state and expiry.
LeaseAllows(c, lease) ==
    /\ lease.worker = By[c]
    /\ Op[c] = "heartbeat" => lease.state = "active" /\ lease.live

LeaseAfter(c, lease) ==
    IF Op[c] \in {"heartbeat", "renew"} THEN [lease EXCEPT !.live = TRUE]
                                       ELSE [lease EXCEPT !.state = "released"]

LeaseRead(c) ==
    LET allowed == {s \in Latest(Arg[c]) : LeaseAllows(c, leases[s])}
    IN  /\ call[c].pc = "lease"
        /\ \/ allowed = {} /\ CGoto(c, "done")
           \/ \E s \in allowed :
                 call' = [call EXCEPT ![c].pc = "saveLease", ![c].at = s,
                                      ![c].lease = LeaseAfter(c, leases[s])]
        /\ OnlyCall

LeaseWrite(c) ==
    /\ call[c].pc = "saveLease"
    /\ leases' = [leases EXCEPT ![call[c].at] = call[c].lease]
    /\ call' = [call EXCEPT ![c].pc = "done", ![c].at = 0, ![c].lease = NoLease]
    /\ UNCHANGED <<approvalVars, queue, due, stamp, worker, jobs, recovery, done,
                   control, loop>>

\* WorkerScheduler.heartbeat: refused when the worker is not available.
BeatRead(c) ==
    /\ call[c].pc = "beat"
    /\ CGoto(c, IF worker[By[c]] \in {"fresh", "stale"} THEN "saveBeat" ELSE "done")
    /\ OnlyCall

BeatWrite(c) ==
    /\ call[c].pc = "saveBeat"
    /\ worker' = [worker EXCEPT ![By[c]] = "fresh"]
    /\ CGoto(c, "done")
    /\ UNCHANGED <<approvalVars, queue, due, leases, stamp, jobs, recovery, done,
                   control, loop>>

CallStep(c) ==
    \/ SubmitScan(c) \/ SubmitWrite(c) \/ CompleteGet(c) \/ CompleteHeld(c)
    \/ GatePending(c) \/ GateFailed(c) \/ CompleteRead(c) \/ CompleteWrite(c)
    \/ LeaseRead(c) \/ LeaseWrite(c) \/ BeatRead(c) \/ BeatWrite(c)

-----------------------------------------------------------------------------
(* Workers, evidence jobs, time and failures *)

\* register.
Register(w) ==
    /\ worker[w] = "absent"
    /\ worker' = [worker EXCEPT ![w] = "fresh"]
    /\ UNCHANGED <<approvalVars, queue, due, leases, stamp, jobs, recovery, done,
                   control, loop, call>>

\* unregister, mark_unavailable.
Unregister(w) ==
    /\ worker[w] \in {"fresh", "stale"}
    /\ worker' = [worker EXCEPT ![w] = "unregistered"]
    /\ UNCHANGED <<approvalVars, queue, due, leases, stamp, jobs, recovery, done,
                   control, loop, call>>

\* EvidenceQueue.enqueue.
EnqueueJob(j) ==
    /\ jobs[j] = "absent"
    /\ queue[JobFor[j]].state # "absent"
    /\ jobs' = [jobs EXCEPT ![j] = "pending"]
    /\ UNCHANGED <<approvalVars, queue, due, leases, stamp, worker, recovery,
                   done, control, loop, call>>

\* EvidenceQueue.complete, with an exit code and checksum that fit or do not;
\* a job is reported once.
ReportJob(j) ==
    /\ jobs[j] = "pending"
    /\ \E status \in {"verified", "failed"} : jobs' = [jobs EXCEPT ![j] = status]
    /\ UNCHANGED <<approvalVars, queue, due, leases, stamp, worker, recovery,
                   done, control, loop, call>>

\* A lease's expires_at passes.
Lapse(s) ==
    /\ leases[s].live
    /\ leases' = [leases EXCEPT ![s].live = FALSE]
    /\ UNCHANGED <<approvalVars, queue, due, stamp, worker, jobs, recovery, done,
                   control, loop, call>>

\* A worker's heartbeat is older than the threshold of list_available.
GrowStale(w) ==
    /\ worker[w] = "fresh"
    /\ worker' = [worker EXCEPT ![w] = "stale"]
    /\ UNCHANGED <<approvalVars, queue, due, leases, stamp, jobs, recovery, done,
                   control, loop, call>>

\* A delayed mission's available_at passes.
BecomeDue(m) ==
    /\ m \notin due
    /\ due' = due \cup {m}
    /\ UNCHANGED <<approvalVars, queue, leases, stamp, worker, jobs, recovery,
                   done, control, loop, call>>

\* _run_loop survives an exception of the store: the cycle is given up.
CycleFails(l) ==
    /\ faults < MaxFaults
    /\ loop[l].pc \notin {"off", "top"}
    /\ faults' = faults + 1
    /\ loop' = [loop EXCEPT ![l] = AtTop]
    /\ UNCHANGED <<approvalVars, stores, active, stopping, stops, call>>

\* The orchestrator's process ends.
Crash ==
    /\ faults < MaxFaults
    /\ \E l \in Loops : loop[l].pc # "off"
    /\ faults' = faults + 1
    /\ active' = FALSE /\ stopping' = FALSE
    /\ loop' = [l \in Loops |-> LoopOff]
    /\ UNCHANGED <<approvalVars, stores, stops, call>>

Approving == ApprovalNext /\ UNCHANGED <<stores, control, loop, call>>

Next ==
    \/ \E l \in Loops : Start(l) \/ LoopStep(l) \/ CycleFails(l)
    \/ \E c \in Calls : CallStep(c)
    \/ \E w \in Workers : Register(w)
    \/ \E w \in Leaving : Unregister(w) \/ GrowStale(w)
    \/ \E j \in Jobs : EnqueueJob(j) \/ ReportJob(j)
    \/ \E s \in Stamps : Lapse(s)
    \/ \E m \in Missions : BecomeDue(m)
    \/ Approving
    \/ Stop
    \/ Crash

Spec == Init /\ [][Next]_vars

\* A thread that runs is scheduled, a call that has begun goes on, time
\* passes, and an orchestrator that was not stopped is started again.
FairSpec ==
    /\ Spec
    /\ \A l \in Loops : WF_vars(LoopStep(l))
    /\ \A c \in Calls : WF_vars(call[c].pc # Entry(c) /\ CallStep(c))
    /\ \A s \in Stamps : WF_vars(Lapse(s))
    /\ \A m \in Missions : WF_vars(BecomeDue(m))
    /\ WF_vars(~stopping /\ \E l \in Loops : Start(l))

-----------------------------------------------------------------------------
(* Properties *)

\* A mission is dispatched only after each mission it depends on was completed,
\* with any number of loop threads, stale writes and repeated submissions.
DependenciesHonoured ==
    \A m \in Missions : queue[m].state = "running" => Depends[m] \subseteq done

\* A running mission has an owner, and the owner took a lease on it: no write
\* of an older copy of the item separates the two.
RunningWasLeased ==
    \A m \in Missions : queue[m].state = "running" =>
        /\ queue[m].owner # None
        /\ \E s \in LeasesOf(m) : leases[s].worker = queue[m].owner

\* The gate of complete_mission holds although its two looks at the evidence
\* queue are not one: when it lets a mission through, every job that was there
\* when it began is verified.
GateHolds ==
    \A c \in Calls :
        call[c].pc \in {"read", "write"} /\ Op[c] = "complete" =>
            \A j \in call[c].jobs : jobs[j] = "verified"

\* With one loop thread, and one call each that submits and that completes it, a
\* mission gets max_attempts attempts and at most one more for each cycle that
\* was interrupted between counting an attempt and deciding on it, whatever
\* heartbeats, renewals and releases do to its lease; and it is handed to the
\* recovery queue once.
AttemptsBounded ==
    \A m \in Missions :
        /\ queue[m].attempts <= MaxAttempts + faults
        /\ recovery[m] <= 1

\* A ready mission is taken up, or made to wait, in the end: others that wait
\* for approval, lack a worker or cannot be leased do not hold it up.
ReadyIsTaken ==
    \A m \in Missions : queue[m].state = "ready" ~> queue[m].state # "ready"

-----------------------------------------------------------------------------
(* A claim of the code's comments that the code does not keep. *)

\* acquire: "only the first writer across ALL connections/processes succeeds".
OneLivingLease ==
    \A m \in Missions :
        Cardinality({s \in LeasesOf(m) : leases[s].state = "active"
                                            /\ leases[s].live}) <= 1
=============================================================================
