# NEXARA PRIME: verification of the governed core

NEXARA PRIME (`src/src/nexara_prime`) is a local agent runtime. A human states a
mission; the runtime plans it, asks for an approval, executes it through
policy-gated tools, keeps evidence of every step, and can be paused, resumed,
taken over, rolled back or restarted at any time. A second, autonomous control
plane (`orchestration.py`) queues missions for workers. This directory holds the
TLA+ models of the parts where several threads, a crash or a human decision meet
in one store, the TLC configurations that check them on small instances, and the
TLAPS proofs for instances of any size.

## 1. The system and its parts

All durable state is in one SQLite file (`db.py`). Each call of the store is a
transaction of its own. The API serves requests on threads, an approved mission
runs on a background thread, the orchestrator has a loop thread, and the CLI may
be another process. So *between any two calls of the store anything else may
run, and a crash may fall there too*: this is the granularity of every model.

| component | state | operations | interacts with | what is hard | correct when |
|---|---|---|---|---|---|
| `ApprovalEngine` (`governance.py`) | approval records, their events | request, decide, expire, consume_single_action | tool runtime, mission runtime | two decisions at once, expiry between read and commit, record and event written together | one decision stands, the status moves forward, record and events agree |
| `ToolRuntime` (`tools.py`) | tool records, claims, receipts | invoke | approval engine, evidence, events | lookup, claim, consumption, effect and record are separate; retries with the same key; crash after the effect | one use per single-action approval, replays are the bound request, one returned invocation per key |
| `NexaraRuntime` (`runtime.py`, `state_machine.py`, `recovery.py`) | the mission record | plan, approve, run (stages), pause, resume, takeover, safe_mode, rollback, resume after restart | approval engine, tools, model gateway, memory, evaluation, conversations | every operation saves a whole private copy; overlapping runs; crash between stages | a stored state always has the results of the stages before it; execution only with an approval; completion is earned; nothing approved is forgotten |
| `ApprovalQueue` (`orchestration.py`) | approval requests of the control plane | create, approve, reject, revoke, consume, expire_stale | orchestrator | all but consume write without comparing | no consumption without an approval of its own |
| `MissionQueue`, `WorkerScheduler`, `WriterLeaseManager`, `EvidenceQueue`, `RecoveryQueue`, `RuntimeOrchestrator` (`orchestration.py`) | queue items, workers, leases, evidence jobs, recovery items | enqueue, dequeue, transition, register, heartbeat, acquire, renew, release, expire, complete_mission, the loop's cycle | approval queue, workers | read-modify-write everywhere, two loop threads after stop/start, lapsed leases, failing cycles | dependencies honoured, a running mission was leased to its owner, the evidence gate holds, attempts bounded, nobody starves |
| `SQLiteStore` (`db.py`) | rows with envelope and origin hashes, the event log, claims | save, compare-and-set with event, claim, repair, publish, reads that demand integrity, schema upgrade | everything | an upgrade that dies half-way, rows changed behind the store, envelopes read long before they are used | a readable governed record is anchored in its creation event, a transition is announced once |
| evidence (`evidence.py`) | artifacts, their creation and verification events | add, repair of a legacy event, verify, receipt_status | store, events | read, decide and write apart; damaged content | a key keeps the content first recorded, a repair never undoes a verification |
| conversations (`conversations.py`, `attachments.py`, `answer_conversation`) | the conversation's record, messages, attempts | append, close, reopen, attach, a turn with tools and mission admission | mission runtime, gateway | whole-record saves, turns that die and are retried | every listed message exists, a key has one message and one reply |
| memory (`memory.py`, `memory_os.py`, `memory_archive.py`) and retrieval (`rag_pipeline.py`, `knowledge.py`) | memory records, patches, chunks and hashes | write, propose, commit, review, archive, restore; ingest, search, clear | evidence, mission runtime | several saves per call, concurrent writers | no inference becomes knowledge, a search sees only its scope |
| program loop (`program_loop.py`) | status, events, counters, in-memory leases, checkpoints | start, pause, resume, stop, recover, the cycle | mission runtime | calls against the loop's threads, two threads | a lease has a holder, cycles are counted once, a stop ends the threads |
| model gateway and router, budgets (`model_gateway.py`, `model_router.py`, `cost_governor.py`, `resource_budget.py`) | breaker, usage, limits | complete, route, record, reset, check | missions | a shared breaker under overlapping calls, limits reached | a call is charged once, a route is up, a limit binds |
| agents and repairs (`brain/agent_orchestrator.py`, `repair_loop.py`) | tasks, writer slot; contracts, attempts | plan, execute; repair, attempt | brain | callbacks that raise, a shared slot | no hidden failure, hypotheses differ, a result is earned |
| brain governance (`brain/governance`, `brain/kernel.py`, `kernel_boundary.py`) | decisions, admission guard, budget | request, approve, reject, revoke, consume, submit, decide | brain | any order of decisions | fails closed |
| team and council (`adaptive_*.py`, `escalation.py`, `mission_triage.py`, `token_compiler.py`, `council/`) | mode, plan, roster; stages, seats | triage, schedule, escalate; run, run_stage, rule | budgets | repeated stages, up and down | governed missions are reviewed, a refused gate stays refused |
| brain memory and soul (`brain/memory_controller.py`, `soul.py`) | memories by layer, provenance; character, audit, snapshot | commit, consolidate, decay, collect; learn, decide, save, restart | evidence | statements that commit one by one, restarts | confidence has a floor, origin is traceable, character is earned |
| mission intelligence, evolution (`brain/mission_intelligence_engine.py`, `brain/evolution*`, `brain/runtime/persistent_runtime.py`, `product_reality/`) | caches and lessons; proposals, vetoes, checkpoints, effects; promotions | assess, compile; evaluate, apply, veto, record; assess a promotion | store | stale caches, repeated evaluation, restart, two workers, checks before consumption | risky types need approval, a veto halts, one effect is recorded, an approval carries one promotion |
| adapters (`git_adapter.py`, `deployment_adapter.py`, `message_adapter.py`, `browser_adapter.py`, `computer_use_adapter.py`) and `network_policy.py` | branches, plans, sent keys, logs | git operations; execute, rollback; send; navigate, type | approvals | failing and raising drivers, overlapping sends | nothing protected moves, states tell the truth, policies hold |
| connectors, sandbox (`connectors/`, `sandbox_v2.py`) | registry, circuit, browsers; processes, profiles | start, stop, invoke; run, time out | operating system | overlapping outcomes, children of a process | an open circuit stays shut, nothing confined escapes |
| sessions, capabilities, audit (`session*.py`, `identity.py`, `capabilities.py`, `security_audit.py`) | session records, permissions; outcomes and scores; a hash chain | update, bind, grant; record, score, reload; record, verify | store | whole-record saves, failed saves, two processes | legal moves, counted once, the chain survives |
| CLI, user interfaces, provider clients, reasoning and text | | | | I/O and text | not modelled, section 8 |

`PROJECT.json` lists every component with its sources and status, and every
hazard with the line where it bites.

## 2. Modules

| module | models | extends |
|---|---|---|
| `ApprovalContract` | abstract: an approval is answered once, spent by one owner, and only the owner runs | |
| `ApprovalEngine` | the approval authority of `governance.py` with the compare-and-set of `db.py` | |
| `ToolRuntime` | `ToolRuntime.invoke` with the approval engine; its properties, inductive invariant and refinement mapping | `ApprovalEngine` |
| `MissionRuntime` | one mission and all calls that work on it | |
| `ApprovalQueue` | the approval queue of the control plane | |
| `Orchestrator` | queue, workers, leases, evidence jobs and loop threads | `ApprovalQueue` |
| `ToolRuntime_proofs`, `MissionRuntime_proofs` | the proofs of the core | the module they are about |
| `Brain_proofs` (orchestrator and approval queue first), `Stores_proofs`, `Control_proofs`, `Borders_proofs` | the proofs of the suites' components and of the suites | `MCBrain`, `MCStores`, `MCControl`, `MCBorders` |
| `RecordStore`, `EvidenceStore`, `MemoryStore`, `Conversations`, `Retrieval` | the stores | |
| `AgentRun`, `BrainGovernance`, `Budgets`, `ModelGateway`, `RepairLoop`, `GitAdapter`, `DeploymentAdapter`, `Capabilities` | what acts under control | |
| `AdaptiveRuntime`, `Council`, `BrainMemory`, `Soul`, `MissionIntelligence`, `BrainEvolution` | what decides and remembers | |
| `ProgramLoop`, `PromotionGate`, `MessageAdapter`, `Sessions`, `AuditLedger`, `Connectors`, `Sandbox`, `WebAccess` | the loop, the gate and the borders | |
| `MCToolRuntime`, `MCMissionRuntime`, `MCOrchestrator` | instances of one component | the component |
| `MCControl`, `MCStores`, `MCBrain`, `MCBorders` | suites: instances of several components side by side | an instance above and the components |

### ApprovalEngine and ToolRuntime

`approval[a]` is the mutable part of an approval's record; its immutable fields
(scope, executor) are constants, which is what the origin hash protects in the
code. `decidedEvt`, `expiredEvt`, `consumedEvt` are the events with the keys
`approval.decided:<id>` and so on. A compare-and-set on the integrity hash is a
comparison with the snapshot that was read. `decide()` is `DecideRead` and
`DecideCommit`; a tool call goes through `Invoke` (replay and policy),
`ValidateApproval`, `ClaimApprovedAction`, `AuthoriseReplay` or
`ConsumeRead`/`ConsumeCommit`, `SideEffect`, `SaveRecord`, `PublishEvent`,
`AddReceipt`, `BindReceipt`, and may crash or raise on the way. A retry is another
call with the same key. `ran` is a history variable: the calls whose side effect
happened.

### MissionRuntime

`mission` is the stored record, `copy[c]` the copy of call `c`. `Begin` loads it;
each stage of `run_mission` is one or more steps up to the next access to a
store; `SaveMission` writes the whole copy. A transition is announced
(`Transition`, an event) before it is saved (`SaveAdvance`), as
`MissionStateMachine.transition` and `_advance` do. `artifacts` are the records
with an idempotency key; a stage that finds its key takes the stored one.
`Crash` ends all calls, `Restart` starts the background run again when
`NEXARA_RESUME_BACKGROUND_MISSIONS` is set (`AutoResume`). `SerialHuman` says
whether the human's own calls overlap. Using an approval is one step here,
because `ToolRuntime` treats its steps.

### ApprovalQueue and Orchestrator

Every operation is a read and a write apart. `consume` alone compares and sets.
The loop thread's program counter follows `_execute_cycle`: expire leases, take
back their missions (`RecoverStale`, `ResumeMission`, `BumpRead`, `BumpWrite`,
`Requeue`, `EnqueueRecovery`), expire approvals, promote queued missions, wake the
waiting ones, then dequeue, check the approval, pick a worker, acquire a lease
and mark the mission running. `stop` does not join its thread, so `Loops` may
have two members that run. A call of a worker or client is one of submit,
complete, heartbeat, renew, release (lease), beat (worker). Time is a choice:
`Lapse`, `GrowStale`, `BecomeDue`, `ExpiresAtPasses`. `CycleFails` is the
exception that `_run_loop` swallows. A worker registers once. Which of several
requests of a mission `_is_approval_blocked` meets first depends on the order of
saving and is left open.

### The stores

`RecordStore`: `rows[i]` holds payload, origin and whether the hashes agree; a hash is
the content it was computed over. `log` is the event log by record. A process that
opens an older database runs the upgrade, whose `ALTER TABLE` statements commit on
their own and whose backfill is one transaction, so a crash falls between them.
`Holders` keep envelopes they read earlier and hand them to the compare-and-sets.
`EvidenceStore` treats `add`, its repair and `verify` as a read and a later write that
demands the row it read; a row may be damaged, or resealed, in between.
`MemoryStore` has one step per save of the kernel, for one key; the patch review,
archive and lifecycle layer work on the same records. `Conversations` has the
whole-record saves of `append_message`, `close` and `reopen`, and the turns of
`answer_conversation`. `Retrieval` leaves open which chunks are similar, so its
properties hold for any ranking; the chunker is an action system of its own
(`ChunkNext`).

### Control and brain

A call that runs under a lock, or in one thread without callbacks, is one step; a
callback, a provider or a driver that may raise ends a step. So `AgentRun` has
the task, its outcome and the raising callback apart, `ModelGateway` the check of
the breaker and the answer, `DeploymentAdapter` each driver call, `BrainMemory`
each SQL statement, `BrainEvolution` the duplicate check, the effect and its
record. Scores are integers: hundredths, tenths or twentieths as the module's
header says, and where binary floats fall short of the decimal sum the model does
too (`MissionIntelligence!FallsShort`).

### Loop, gate and borders

`ProgramLoop` follows the calls and the threads between two critical sections.
`PromotionGate` reads evidence, checkpoint and approvals one store call at a time
and consumes at the end. `Sessions` has each update as read and save,
`MessageAdapter` the provider between the lookup of the key and its insertion,
`Connectors` an asynchronous start and overlapping outcomes at the breaker,
`Sandbox` the process group with children that hold or close the pipes.
`WebAccess` and `GitAdapter` are governed state machines under any sequence of
operations.

### Suites

Independent components share a run. `focus` is chosen in `SuiteInit` and never
changes; only the component in focus moves, and a group property says what holds
of each (`focus = "council" => CouncilSound`). The state space is the sum of
the components' and not the product, and each component is explored exactly as it
would be alone. Each conjunct of a group property has a mutated definition beside
the one it mutates (`NextUndoneFirst`, ...): the one that stands
for the group in `PROJECT.json`, the others kept to try a conjunct on its own.

## 3. Runs

| run | instance | checks |
|---|---|---|
| `tool_race` | 3 calls, 2 actors, 1 key or none, 2 argument values, 1 decision, 1 single-action approval | `IndInv`, `SingleUse`, `UnkeyedRunsOnce`, `ReplayMatchesClaim`, `OneReturnPerKey`, `ImplementsContract` |
| `mission_race` | a conversation plans, an approval, an API run, 2 background runs, 1 crash | `IndInv`, `ResumeFindsItsInputs`, `CompletedIsEarned`, `StateAnnounced`, `NotifiedOnce` |
| `mission_settles` (`FairSpec`) | a conversation plans, an approval, a rollback, 2 background runs, 1 crash | `ApprovedIsSettled` |
| `orch_dispatch` | 2 loop threads after a stop, 2 missions in a chain, 2 leases, completion | `DependenciesHonoured`, `RunningWasLeased` |
| `orch_ready` (`FairSpec`) | 2 missions, the one of higher priority rejected, a delayed one, a worker's heartbeat, 1 fault | `ReadyIsTaken` |
| `control` | 2 humans decide a single-action and a mission-wide approval while a call uses one; 3 agent tasks in 2 runs; 2 brain decisions; 2 scopes and 2 keys of the ledger; 2 gateway calls with 2 attempts and a breaker of 3; 2 failures to repair; 4 git operations; a deployment of 2 steps; 2 capabilities and a restart | `HistoryAgrees`, `OneDecisionStands`, `StatusMovesForward`, `BrainFailsClosed`, `RunsSound`, `SpendingSound`, `AdaptersSound`, `OutcomesCountedOnce` |
| `stores` | one human: plan, approve, pause, rollback, safe mode, one after another, and a run; 1 queued request with 2 approvals, reject, revoke, expire, 2 consumptions; 3 records, 5 operations, 2 openings of the store; 2 callers of evidence, 3 calls; 2 memory writers; 2 chat clients, 3 turns; 2 facts and documents; texts up to 9 in chunks of 4 | `ExecutionIsApproved`, `ReportWasAuthorised`, `ConsumptionIsGranted`, `RecordsSound`, `KnowledgeSound`, `ConversationSound` |
| `brain` | 1 loop, 2 evidence jobs, completion, lease heartbeat, a leaving worker, 1 failing cycle or crash; 1 escalation, 2 turns; 3 runs of the council; 2 memories of 3 kinds; 2 references and a trait; 2 goals and 3 constraint sets; 2 proposals, 2 actions, 2 workers | `GateHolds`, `AttemptsBounded`, `TeamsSound`, `MindSound`, `JudgementSound` |
| `borders` (loop under fairness) | 2 starts, pause, resume and stop of the loop, 1 crash; 2 assessments of 2 approvals; 2 senders of 1 draft; 2 clients of 1 session; 2 ledgers, 5 entries; 2 requests in flight, 2 launches; 2 invocations; 2 hosts | `LoopAccounted`, `StopEnds`, `PromotionSound`, `SessionsAdvance`, `BordersSound` |
| `tool_binding`, `mission_pause`, `orch_lease` | | expected violations, section 7 |

*Why the bounds are enough to be interesting.* Three tool calls are the least
with which one consumes, one replays and one comes from somebody else. Two
overlapping runs and a crash already allow any stored copy to be older or newer
than any other. Two loop threads and two leases allow a double dispatch and a
lapsed lease beside a living one. The attempts are bounded by 1 there so that the
exhausting attempt is reached within two leases; in `orch_ready` three leases are
more than the missions can use, so the bound never stops the loop. In the suites
every race is between two: two writers, callers, clients, senders, ledgers or
assessments, which is the least with which a value is stale when it is used, and
the bound on operations leaves room for one that comes after the race (a retry, a
restart, a second consumption). A breaker of 3 with two calls of two attempts opens in
the middle of a retry. A text of 9 in chunks of 4 with overlap 2 has several
chunks and an incomplete last one. Symmetry is used only for identical calls,
threads or jobs in runs without liveness. Deadlock checking is off because every
call runs once and the operations are bounded: an instance is finished when its
calls are.

*What the instances leave out of the models.* `resume`, `takeover`, `renew` and a `release`
call of its own are operations of the models (and of the proofs about
`MissionRuntime`) that no instance uses: the first two differ from pause and safe mode in
one field, the last happens in `complete_mission`. The instances have one worker, so
`Preferred` and `Rank` decide nothing in them.

## 4. Fairness

`MissionRuntime!FairSpec`: a call that has begun and a background thread that was
started are scheduled (weak fairness of `Progress(c)`, `Background(c)`), and a
crashed process is restarted. Nobody is obliged to begin a call, so no human is
assumed to act. `ApprovedIsSettled` therefore says: an approved background mission
settles, is paused or waits for its provider. With auto-resume off (the code's
default) the property does not hold after a crash, and the run says so by setting
it on.

`Orchestrator!FairSpec`: a running loop thread is scheduled, a call that has begun
goes on, time passes, and an orchestrator that was not stopped is started.
Workers are not assumed to complete, to beat or to exist.

`ProgramLoop`, in `MCBorders!SuiteSpec`: a thread of the loop is scheduled, and a call
that has begun goes on; no call need begin, and no crash need happen. The
operating system's scheduler gives that much, and the loop's waits all have a
timeout or an event. `StopEnds` assumes in its own premise that the stop event
stays set, since `start` clears it.

## 5. Proofs

Every theorem holds for any constants that satisfy the modules' named
assumptions.

* **ToolRuntime.** `IndInv` is `TypeOK` with four parts: `HistoryInv` (status and
  events of an approval), `DecideInv` (a decision waiting to commit saw the
  request pending; a decision taken is the recorded one), `CallInv` (what a call
  past validation, claim or consumption knows about the approval and the claim)
  and `UnkeyedInv` (two calls without key never both get through). The
  strengthening is needed because the properties speak of calls that ran, while
  the protocol is decided at the calls in flight. From it follow `SingleUse`,
  `UnkeyedRunsOnce`, `ReplayMatchesClaim`, `HistoryAgrees`, `OneDecisionStands`,
  the action property `StatusMovesForward`, and the refinement
  `Spec => Contract!Spec`: the initial state maps to an open approval, and each
  step to an answer, a spending, a run or a stutter. `OneReturnPerKey` needs in
  addition what a call has written by the step it has reached (`Reports`): a keyed
  call past its receipt is the one the receipt of its key names, which holds
  because a receipt is never replaced.
* **MissionRuntime.** `IndInv` says of the stored record *and of every copy alive*
  that it is consistent with the approvals, the announced states, the stored
  artifacts and the evaluation (`RecordOK`), since any copy may be stored next;
  `StepOK` adds what the step of a call says about its copy. Consistency refers
  only to things that grow or stay (announced states, artifacts, a granted
  approval), so a step of one call cannot spoil the copy of another: that is the
  lemma the proof is built on. It gives `ResumeFindsItsInputs`,
  `ExecutionIsApproved`, `CompletedIsEarned`, `ReportWasAuthorised`, `StateAnnounced`
  and `NotifiedOnce`.
* **ApprovalQueue.** `ApprovalInv` adds to `ConsumptionIsGranted` that a call is
  counted when it writes and not before (`ProgressInv`); with it each approval
  adds one to the grants and each won compare-and-set uses one up.
* **Orchestrator.** `OInv` says of every copy that a loop thread or a call holds,
  and may write at any time, what it says of the stored items: one that is running
  has its dependencies in `done` and a lease taken by its owner (`ItemGood`,
  `LoopGood`, `CallGood`); and the stamps of the leases about to be claimed are
  free and distinct (`ClaimInv`). A copy stays good while others write because a
  completion, a lease taken and a job reported are never undone (`Keeps`,
  `Reported`). It gives `DependenciesHonoured`, `RunningWasLeased` and `GateHolds`.
  `AttemptsBounded` is about what a copy *counts* (`AttemptsInv`): an item stands at the
  limit, with one attempt allowed for each interrupted cycle, only when it has ended or
  the thread is deciding on its last attempt (`Deciding`); a copy that puts a mission
  back in the queue counts less; a completion writes no more attempts than are stored,
  and while one is under way the thread's copy is not behind the item (`NoneLost`).
  The theorem needs one loop thread (`OneThread`) and at most one call each that submits
  and that completes a mission (`OnceEach`), and says so in its hypotheses: with two of
  either, a stale copy or a second submission sets the count back and the property is
  false.
* **ProgramLoop.** `LoopAccounted` is inductive over the types: the step that takes
  a lease makes its thread the holder, and when two threads execute one mission
  whoever releases it removes the lease. Each cycle is counted in one critical
  section, so the balance survives two threads.
* **PromotionGate.** The invariant adds what an assessment under way holds: approvals
  decided by the owner for its content and risk (`GrantedTo`, which no step takes
  back), as many as the risk needs when it reaches the consumption (`Enough`), and
  that each consumption event names a decision that used it. The two approvals of
  an R4 differ because they were requested for different actions. The compare-and-set
  does the rest. It gives `PromotionSound`.

* **Record and evidence store.** A readable governed record is `Anchored`: its origin is
  what its event carries, in an upgraded database what a *whole* event carries. It
  lasts because an origin is only written together with an event, or backfilled from
  one, and events are never removed. `EvidenceInv` adds, for each call under way, what
  the copy it read may still be compared with, and for each answer given, that the
  content is the first one recorded.
* **Memory.** `MemoryInv` says that every record that is *or was* current is warranted
  (a restored one must be too), that what a call under way will mark and save was
  checked (`MemWriterGood`), that a superseded record has a successor or the writer
  about to save it (`MemSucceeded`), and that one keyed call runs at a time while the
  key is free (`MemKeySound`), unless two overlapped or one died.
* **Retrieval.** Every hash leads to the document it was taken of; what is committed for
  one mission has one content; the chunker stands `ChunkOverlap` before the end of the
  last chunk, which makes the next one start later (`CutSoFar`, by `ChunkAssumption`:
  the overlap is at most half of the size, and every chunk but the last is longer). The bound on the hits
  needs that the set of chunks is finite.
* **Conversations.** `TurnGood` says what a turn under way may rely on: its message
  exists, nothing overlapped it so nobody else answered, its attempt succeeded before
  it replies. `OneTurn`, `IdsGood`, `KeysGood` and `MissionsGood` are the promises
  over the whole record; all but the plain references hold only while no turn
  overlapped, or no stale copy was saved, as the property says.
* **Agents and repairs.** `AgentInv`: only the task at the cursor runs, a failed task
  the cursor has passed was counted, and the writer slot is its own unless a callback
  raised. `RepairInv`: the hypotheses of a failure differ, because each attempt takes
  the least number not used yet (which needs that those used are finitely many), and a
  loop no other call overlapped still applies the function it was given.
* **Brain governance.** A decision is valid only while its last act was an approval
  (`ApprovedLast`), and keeps the mission, action and level it was asked for.
* **Budgets.** A scope holds what its key recorded; the day holds what all keys recorded
  together, stated without a sum: its tokens, each of a key and numbered by what that key
  recorded (`DayTokens`), are as many as the ledger says (`Balanced`). Recording adds as
  many tokens, a reset removes one key's, and both are facts about cardinalities. The
  ladder needs that a finite set of percentages has a largest one (`MaxIsThere`), hence
  finitely many `Categories` (`BudgetAssumption`).
* **Gateway.** `GatewayInv` says of each call what it has sent, been charged and been told
  by where it is (`CallKept`), whatever the others do to the shared breaker, and that the
  breaker is open exactly from the threshold on (`BreakerCounts`). That the router names
  the first provider that is up, of the wanted tier if there is one, is a lemma about its
  list (`RouterNames`).
* **Capabilities.** No two rows of the store have one key (`KeyStoredOnce`), the saved
  outcomes of a history are in order the rows of the store (`HistoryFollows`: the n-th
  saved one is the n-th row, by the number saved before it), and a score counts no more
  evidence than the history has (`ScoreSound`). A reload starts the history from the
  store, a failing save leaves an outcome that no row has to match.
* **Git and deployment.** `GitInv` says of the branches and the remote that what is there
  was allowed when it was done. `DeployInv` keeps the order of the steps
  (`InOrder`), the gate once passed (`GatePassed`), and the state a plan shows between
  calls (`StateHolds`).
* **Borders.** `MessageInv`, `AuditInv`, `ConnectorInv`, `SandboxInv` and `WebInv` add to
  the property what a call under way has checked before it acts: the draft at the
  provider was validated, the tail a ledger writes from, the request the circuit let
  through, the process a receipt will speak of, the target of a navigation.
  `SessionInv` adds that a save under way is a legal move of what its client read; the
  action property follows step by step.
* **Memory of the brain.** `BrainMemoryInv` says of each row by itself that its confidence
  stands above the floor of its kind (`Kept`), and of its origin that the entry which
  names it is there, torn by a crash, or the statement about to be executed
  (`Provided`, `Copied`). `BrainMemorySound` is the part of it that a reader sees.
* **Soul.** `SoulInv` adds that a snapshot is of a whole soul, so a restart takes nothing
  to heart that was not learned. That a decision follows the order of the values is a
  lemma about the comparison (`FewerIsAsymmetric`), by `MoralAssumption`: values are
  numbers, the smaller the higher.
* **Mission intelligence.** The lowest sum a managed type can reach is R2
  (`ManagedScore`), so every assessment on record asks for approval, and a contract is
  compiled from one.
* **Evolution.** `LifecycleInv` counts: an applied proposal was applied more often than
  verified. `NumberedRows` numbers the checkpoints from the oldest to the newest,
  through replacement and deletion. `EffectInv` counts, for every action, the workers
  that are about to perform the effect or to record it, which bounds how often it ran; it
  needs finitely many workers (`EffectWorkersAssumption`).
* **Council.** As long as no stage was run by itself the stages that ran are the ones up to
  the current one (`InOrder`); with what a blocked call leaves (`HaltsAtRedTeam`) and what
  a verification saw (`SawAll`) this gives `PipelineGates`, for any number of runs. A seat
  is dropped when as many cheaper ones stand before it as the mission may have, so the
  cheapest of those that may not be dropped stay (`CheapestStay`), red team and judge among
  them: `SeatsHeard`.
* **Team.** Of the roles an S3 base lacks only the reviewer and the auditor can earn their
  place in it (`FewEarn`), so scaling never fills the places that the second reviewer
  needs (`ScaledS3`, `ScheduledS3`). `AdaptiveInv` adds that the triage on record is one
  that was computed, that escalations climb one mode at a time, and that the roster is at
  least as long as the plan. It gives `AdaptiveSound`.
* **Suites.** A behaviour of `MCStores`, `MCControl`, `MCBrain` or `MCBorders` is one of each of
  its components, since the component in focus moves and the others stay
  (`SuiteRuns`); so each group property follows from the theorems of its components.

The assumptions on constants are as weak as the code's: finitely many threads, calls,
categories or keys where the property counts them, `AgentTasks` numbered in the order of
the plan, at least one deployment step (a plan without any is an error of
the dry run), a failure threshold
of at least 1, numbers for limits and budgets, and model values for "nothing" that are
no identifiers.

*What a proof attempt found.* Some `CASE` expressions had arms that overlapped. TLC takes the
first that holds, as the code's `if` chain does, but the language leaves the value open, so
nothing could be proved about them: `ApprovalQueue!Check` and `DecideTo`,
`EvidenceStore!ReceiptStatus` and `BrainEvolution!BoundaryCheck` are `IF` chains now, and
the arms of `MissionIntelligence!Level` exclude each other. Definitions by a fold or a
filter of a sequence say what the code computes but give a prover no fact to start
from. `Budgets!DayTokens`, `Capabilities!SavedUpTo` and `Council!SeatsHeard` say the same by
sets and their cardinalities, and `AdaptiveRuntime` appends to its list of agents role by
role (`Joined`). And `AttemptsBounded`, stated with one loop thread in mind, turned out to
need `OnceEach` as well. Without either hypothesis the checker finds, with one attempt
allowed and no cycle interrupted, a mission that stands at two: two threads each count an
attempt of the expiry they both saw; a second submission, or a completion that read the
item before an attempt was counted, sets the count back while the thread decides, the
thread puts the mission back to work, and a completion whose copy holds the old count
writes it before the next expiry is counted.

Some of these properties are checked by a run in a suite (`HistoryAgrees`,
`ExecutionIsApproved`, `ConsumptionIsGranted`, ...); the theorem is about the
component's own specification.

## 6. Only model-checked

* Liveness (`ApprovedIsSettled`, `ReadyIsTaken`, `StopEnds`), which is beyond the
  prover.

Every other property of a passing run is stated by a theorem of section 5. The one with
hypotheses beyond the modules' assumptions is `AttemptsTheorem`: for two loop threads, or
two submissions or completions of one mission, no bound on the attempts holds, and none is
claimed.

## 7. Where the code and its documents disagree

Each of these runs ends in a counterexample.

* `tool_binding` (`OneRequestPerApproval`): while an approval is still approved the
  result of the claim is ignored, so the request that runs need not be the one
  the claim was bound to.
* `mission_pause` (`PauseHolds`): a pause that has returned is undone by the next
  save of a run that loaded the mission before it.
* `orch_lease` (`OneLivingLease`): two loop threads both acquire a mission, because
  the "deterministic" claim id contains the worker and the time.

Modelling met further behaviours of the same kind that the code does not prevent.
No property is stated for them; where a property comes near, its statement names
the exception (a call that overlapped, a crash, a save that failed).

*Missions and orchestrator.* A human call may store an older
stage over a newer one; all runs of a mission share the writer name `vertex`, so
the writer lease does not exclude them; the memory stage repeats its lifecycle
entry after a crash; a mission that crashes while being planned stays there; a
request of the approval queue can be consumed, reopened by a decision in flight
and consumed again; a mission completed while its lapsed lease is recovered is
dispatched again; a cycle that fails after marking leases stale loses their
missions; a worker's heartbeat undoes its `unregister`; two submissions with one
key are both queued.

*Loop and agents.* A thread that exits late sets STOPPED while a newer one runs;
`start` while paused makes a second thread; a resume before the loop reached PAUSED is
lost; the store lease is never written. Tasks run in the order of the plan and not
of their dependencies; an error callback that raises leaves the writer slot taken;
overlapping repairs share the patch function.

*Governance.* The brain's `approve` has no status check and revoking leaves the id in the
pending list. A resource limit of 0 that is exceeded is a violation with the
action "ok". Refusals of an open breaker count as failures and renew it. A stage of
the council that returns FAILED does not stop `run`. The promotion gate checks
evidence, checkpoint and expiry before, and not at, the consumption.

*Adapters.* `execute` of the deployment adapter recomputes the integrity hash it
compares; the production approval reads an attribute a plan does not have, and the
message approval one a draft does not have. A second start of the browser connector
leaks a browser; children that left the process group outlive the sandbox.

*Stores.* After an upgrade that died, rows without origin stay unreadable until the
store is opened again; evidence verification does not check the origin, so a record
resealed throughout verifies; a failed audit write breaks the stored chain. A memory
write that dies leaves a superseded entry without a successor; a keyed proposal that finds its content
committed is answered with that record and its key is not saved; archive clears
`superseded_by` and restore revives the entry; an approved patch is never applied.
Closing, reopening and appending overwrite each other; a keyed message retried in a
closed conversation still admits a mission. Clearing working memory leaves its
chunks in the index.

*Brain.* Decay compounds; consolidation is not idempotent and its copies have no
provenance row. `record_experience` cannot succeed; a restored soul has lost its
audit. A published risk score of 0.65 may carry level R2 because 0.70 - 0.05 is less
than 0.65 in binary. A proposal that was applied may be evaluated again; vetoes are
stored but not loaded after a restart. `update_score` of a replayed key may change another
capability's entry; every overdue read of a score decays it again.

## 8. Not modelled

* Provider, council and connector clients, the command line and the user interfaces:
  network, terminal and other languages, without state the properties could speak of.
* Reasoning, knowledge graph, planning, self-reflection, preference and the
  `intelligence` package: sequential scoring and text, each object used within a call.
* The error recovery policy: a table consulted within one call.
* Schedulers, upgrade and migration: called by hand, with no second actor in the code.
* Secrets, telemetry, benchmarks and reports.
* In the modelled components: wording, ranking, costs in dollars, read-only queries
  and reports, and the evidence records the adapters write about themselves.

## 9. Plan

1. Theorems: a refinement of `MissionRuntime` to an abstract mission whose stages only
   advance between human decisions.
2. Composition: the program loop over the mission runtime; `answer_conversation`
   over the evidence and memory stores.
