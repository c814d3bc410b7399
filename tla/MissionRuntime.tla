--------------------------- MODULE MissionRuntime ---------------------------
(***************************************************************************)
(* The life of one mission in src/nexara_prime/runtime.py: it is planned,  *)
(* waits for a human approval, is executed stage by stage, and can at any  *)
(* time be paused, resumed, taken over, put in safe mode or rolled back.   *)
(*                                                                         *)
(* Every operation loads the whole mission record, works on its own copy,  *)
(* and saves the whole copy back without comparing it with what is stored  *)
(* (_load_mission, _save_mission).  The API serves each request on a       *)
(* thread of its own and approved missions also run on a background        *)
(* thread, so the copies of several calls are alive at once: a call takes  *)
(* one step for each access to a store, and the others run in between.     *)
(* A crash ends every call; the stores survive it.                         *)
(*                                                                         *)
(* The planner's inputs, the model's text and the report's text are left   *)
(* out: mission.result is the set of the result keys that are present, and *)
(* a tool call or an evidence record is its idempotency key.  How a tool   *)
(* call uses an approval in several steps is the subject of ToolRuntime;   *)
(* here using it is one step.  Missions with adaptive states (Created ..   *)
(* RollingBack) run in adaptive_runtime.py and are not modelled here.      *)
(***************************************************************************)
EXTENDS Naturals, FiniteSets

CONSTANTS
    Calls,       \* calls of the runtime's operations; each runs once
    Op,          \* call -> the operation it performs
    Approvals,   \* approval ids
    None,        \* Python's None
    AutoResume,  \* NEXARA_RESUME_BACKGROUND_MISSIONS
    SerialHuman, \* do the human's calls come one after another
    MaxCrashes   \* bound on the number of crashes

HumanOps  == {"plan", "converse", "approve", "pause", "resume", "takeover",
              "rollback", "safe_mode"}
RunnerOps == {"run", "background"}

ASSUME RuntimeAssumption ==
    /\ Op \in [Calls -> HumanOps \cup RunnerOps]
    /\ None \notin Approvals
    /\ AutoResume \in BOOLEAN
    /\ SerialHuman \in BOOLEAN
    /\ MaxCrashes \in Nat

VARIABLES
    mission,   \* the stored mission record
    copy,      \* call -> its copy of the record
    pc,        \* call -> what it does next
    approvals, \* approval -> status
    events,    \* the states that a mission.state_changed event has announced
    artifacts, \* the keyed records stored for this mission
    passed,    \* the outcome in the stored evaluation record
    report,    \* has the report file been written
    leases,    \* the calls holding an active writer lease on the report
    notices,   \* number of completion notifications sent
    ordered,   \* what the last completed pause or resume asked for
    crashes,   \* number of crashes so far
    up         \* is the process running

stores == <<approvals, events, artifacts, passed, report, leases,
            notices>>
system == <<ordered, crashes, up>>
vars   == <<mission, copy, pc, stores, system>>

-----------------------------------------------------------------------------
(* The mission record. *)

PlanStates   == {"Intent", "Context", "Contract", "Plan", "Simulation"}
RunStates    == {"Execution", "Verification", "Evidence", "MemoryPatch",
                 "Evaluation"}
SettledStates == {"Completed", "Blocked", "Failed", "RolledBack"}
MissionState == PlanStates \cup {"Approval"} \cup RunStates \cup SettledStates

Results == {"model", "report", "verification", "result", "memory",
            "evaluation", "passed", "recovery", "error"}

MissionRecord == [state      : MissionState,
                  paused     : BOOLEAN,
                  safe_mode  : BOOLEAN,
                  owner      : {"runtime", "human"},
                  background : BOOLEAN,
                  contract   : {"none", "draft", "approved"},
                  approval   : Approvals \cup {None},
                  result     : SUBSET Results]

NewMission == [state |-> "Intent", paused |-> FALSE, safe_mode |-> FALSE,
               owner |-> "runtime", background |-> FALSE,
               contract |-> "none", approval |-> None, result |-> {}]

NextStage == [s \in PlanStates \cup RunStates |->
                 CASE s = "Intent"       -> "Context"
                   [] s = "Context"      -> "Contract"
                   [] s = "Contract"     -> "Plan"
                   [] s = "Plan"         -> "Simulation"
                   [] s = "Simulation"   -> "Approval"
                   [] s = "Execution"    -> "Verification"
                   [] s = "Verification" -> "Evidence"
                   [] s = "Evidence"     -> "MemoryPatch"
                   [] s = "MemoryPatch"  -> "Evaluation"
                   [] s = "Evaluation"   -> "Completed"]

\* TRANSITIONS, without the adaptive states.
CanTransition(s, t) ==
    \/ s \in DOMAIN NextStage /\ t \in {NextStage[s], "Blocked", "Failed"}
    \/ s = "Simulation" /\ t = "Execution"
    \/ s = "Approval" /\ t \in {"Execution", "Blocked", "Failed"}
    \/ s \in {"Execution", "Verification", "Evaluation", "Completed",
              "Blocked", "Failed"} /\ t = "RolledBack"
    \/ s = "Blocked" /\ t = "Failed"

ApprovalStatus == {"absent", "pending", "approved", "consumed", "paused",
                   "changes_requested", "rejected", "expired"}

PC == {"idle", "load", "work", "saveModel", "saveOutage", "probe", "lease",
       "authorise", "write", "record", "release", "saveWork", "announce",
       "saveAdvance", "final", "decide", "save", "reject", "attach",
       "saveAttach", "spawn", "notify", "saveError", "announceFail",
       "saveFail", "done", "raised", "crashed"}

Ended   == {"done", "raised", "crashed"}
Live(c) == pc[c] \notin Ended \cup {"idle"}

\* The type of every variable: the record and each call's copy of it.
TypeOK ==
    /\ mission \in MissionRecord
    /\ copy \in [Calls -> MissionRecord]
    /\ pc \in [Calls -> PC]
    /\ approvals \in [Approvals -> ApprovalStatus]
    /\ events \subseteq MissionState
    /\ artifacts \subseteq Results
    /\ passed \in BOOLEAN
    /\ report \in BOOLEAN
    /\ leases \subseteq Calls
    /\ notices \in Nat
    /\ ordered \in BOOLEAN
    /\ crashes \in Nat
    /\ up \in BOOLEAN

Init ==
    /\ mission = NewMission
    /\ copy = [c \in Calls |-> NewMission]
    /\ pc = [c \in Calls |-> "idle"]
    /\ approvals = [a \in Approvals |-> "absent"]
    /\ events = {}
    /\ artifacts = {}
    /\ passed = FALSE
    /\ report = FALSE
    /\ leases = {}
    /\ notices = 0
    /\ ordered = FALSE
    /\ crashes = 0
    /\ up = TRUE

-----------------------------------------------------------------------------
(* What a call does to its own state, and saving. *)

Goto(c, next) == pc' = [pc EXCEPT ![c] = next]

Hold(c, record) == copy' = [copy EXCEPT ![c] = record]

\* _save_mission: the copy replaces the record, whatever that has become.
SaveMission(c, next) ==
    /\ mission' = copy[c]
    /\ Goto(c, next)
    /\ UNCHANGED <<copy, stores, system>>

\* What a call does to the record it has just loaded.
Loaded(c) ==
    CASE Op[c] = "pause"     -> [mission EXCEPT !.paused = TRUE]
      [] Op[c] = "resume"    -> [mission EXCEPT !.paused = FALSE]
      [] Op[c] = "takeover"  -> [mission EXCEPT !.owner = "human"]
      [] Op[c] = "safe_mode" -> [mission EXCEPT !.safe_mode = TRUE]
      [] OTHER               -> mission

\* The early returns and errors of each operation, and its first step.
FirstStep(c) ==
    CASE Op[c] = "plan" ->
            IF mission.state = "Intent" THEN "announce" ELSE "done"
      [] Op[c] = "converse" ->
            IF mission.state = "Intent" THEN "announce" ELSE "attach"
      [] Op[c] = "approve" ->
            IF mission.approval = None THEN "raised" ELSE "decide"
      [] Op[c] \in {"pause", "takeover", "safe_mode"} -> "save"
      [] Op[c] = "resume" ->
            IF mission.paused THEN "save" ELSE "done"
      [] Op[c] = "rollback" ->
            IF mission.state = "RolledBack" THEN "done"
            ELSE IF CanTransition(mission.state, "RolledBack")
                 THEN "announce" ELSE "raised"
      [] OTHER ->
            CASE mission.state = "Completed" ->
                    IF Op[c] = "background" THEN "notify" ELSE "done"
              [] mission.state # "Completed" /\ mission.paused -> "done"
              [] mission.state = "Approval" /\ ~mission.paused ->
                    IF mission.safe_mode THEN "raised" ELSE "done"
              [] mission.state \in RunStates /\ ~mission.paused -> "work"
              [] OTHER -> "raised"

HumanBusy == \E d \in Calls : Op[d] \in HumanOps /\ Live(d)

\* An operation begins by loading the mission.
Begin(c) ==
    /\ up
    /\ \/ pc[c] = "idle" /\ Op[c] # "background"
       \/ pc[c] = "load"
    /\ SerialHuman /\ Op[c] \in HumanOps => ~HumanBusy
    /\ Hold(c, Loaded(c))
    /\ Goto(c, FirstStep(c))
    /\ UNCHANGED <<mission, stores, system>>

\* The single save of pause, resume, takeover and safe_mode, and that of an
\* approval that pauses the mission or asks for changes.
SaveAndReturn(c) ==
    /\ pc[c] = "save"
    /\ mission' = copy[c]
    /\ Goto(c, "done")
    /\ ordered' = CASE Op[c] = "resume" -> FALSE
                    [] Op[c] = "pause"  -> TRUE
                    [] OTHER            -> ordered
    /\ UNCHANGED <<copy, stores, crashes, up>>

-----------------------------------------------------------------------------
(* _advance: the state machine checks the copy's state and publishes the   *)
(* event, the copy changes, and the copy is saved.                         *)

\* mutant: the event is published after the save.
TransitionUnannounced(c, target, next) ==
    /\ CanTransition(copy[c].state, target)
    /\ Hold(c, [copy[c] EXCEPT !.state = target])
    /\ Goto(c, next)
    /\ UNCHANGED <<mission, stores, system>>

Transition(c, target, next) ==
    /\ CanTransition(copy[c].state, target)
    /\ events' = events \cup {target}
    /\ Hold(c, [copy[c] EXCEPT !.state = target])
    /\ Goto(c, next)
    /\ UNCHANGED <<mission, approvals, artifacts, passed, report, leases,
                   notices, system>>

AfterAdvance(c) ==
    CASE Op[c] = "plan" ->
            IF copy[c].state = "Approval" THEN "done" ELSE "work"
      [] Op[c] = "converse" ->
            IF copy[c].state = "Approval" THEN "attach" ELSE "work"
      [] Op[c] = "approve" ->
            IF copy[c].state = "Execution" /\ copy[c].background
            THEN "spawn" ELSE "done"
      [] Op[c] = "rollback" -> "final"
      [] OTHER ->
            IF copy[c].state \in SettledStates THEN "final" ELSE "work"

SaveAdvance(c) ==
    /\ pc[c] = "saveAdvance"
    /\ SaveMission(c, AfterAdvance(c))

\* rollback() and _evaluate_stage save once more after the last transition.
SaveFinal(c) ==
    /\ pc[c] = "final"
    /\ SaveMission(c, IF Op[c] = "background" /\ copy[c].state = "Completed"
                      THEN "notify" ELSE "done")

SaveWork(c) ==
    /\ pc[c] = "saveWork"
    /\ SaveMission(c, "announce")

-----------------------------------------------------------------------------
(* plan_mission, and the part of answer_conversation that plans a mission  *)
(* and binds it to background execution.                                   *)

PlanOps == {"plan", "converse"}

\* The work of a planning stage, saved at once.  Every report write is R2,
\* which the policy always submits to approval, so the last stage always
\* requests one; only the save of the transition stores its id.
PlanWork(c) ==
    /\ Op[c] \in PlanOps
    /\ pc[c] = "work"
    /\ Goto(c, "announce")
    /\ \/ /\ copy[c].state = "Context"
          /\ UNCHANGED <<mission, copy, approvals>>
       \/ /\ copy[c].state = "Contract"
          /\ Hold(c, [copy[c] EXCEPT !.contract = "draft"])
          /\ mission' = [copy[c] EXCEPT !.contract = "draft"]
          /\ UNCHANGED approvals
       \/ /\ copy[c].state = "Plan"
          /\ mission' = copy[c]
          /\ UNCHANGED <<copy, approvals>>
       \/ /\ copy[c].state = "Simulation"
          /\ mission' = copy[c]
          /\ \E a \in Approvals :
                /\ approvals[a] = "absent"
                /\ approvals' = [approvals EXCEPT ![a] = "pending"]
                /\ Hold(c, [copy[c] EXCEPT !.approval = a])
    /\ UNCHANGED <<events, artifacts, passed, report, leases,
                   notices, system>>

PlanAnnounce(c) ==
    /\ Op[c] \in PlanOps
    /\ pc[c] = "announce"
    /\ Transition(c, NextStage[copy[c].state], "saveAdvance")

\* The conversation loads the planned mission again.  It starts no thread
\* itself: a mission in Execution always has its approval id set.
Attach(c) ==
    /\ pc[c] = "attach"
    /\ Hold(c, [mission EXCEPT !.background = TRUE])
    /\ Goto(c, "saveAttach")
    /\ UNCHANGED <<mission, stores, system>>

SaveAttach(c) ==
    /\ pc[c] = "saveAttach"
    /\ SaveMission(c, "done")

-----------------------------------------------------------------------------
(* approve_mission: the approval is decided first, then the mission moves. *)

\* mutant: any decision that is not a rejection is taken for an approval.
GrantedLoosely(status) == status \in {"approved", "paused", "changes_requested"}

Granted(status) == status = "approved"

\* decide() accepts one decision, and only of a pending approval that has
\* not expired; all other outcomes are errors.
Decide(c) ==
    /\ Op[c] = "approve"
    /\ pc[c] = "decide"
    /\ LET a == copy[c].approval IN
       \/ /\ approvals[a] # "pending"
          /\ Goto(c, "raised")
          /\ UNCHANGED <<copy, approvals>>
       \/ /\ approvals[a] = "pending"
          /\ approvals' = [approvals EXCEPT ![a] = "expired"]
          /\ Goto(c, "raised")
          /\ UNCHANGED copy
       \/ /\ approvals[a] = "pending"
          /\ \E status \in {"approved", "paused", "changes_requested",
                            "rejected"} :
                /\ approvals' = [approvals EXCEPT ![a] = status]
                /\ IF Granted(status)
                   THEN /\ Hold(c, [copy[c] EXCEPT !.contract = "approved"])
                        /\ Goto(c, "announce")
                   ELSE IF status = "rejected"
                   THEN /\ Goto(c, "reject")
                        /\ UNCHANGED copy
                   ELSE /\ Hold(c, [copy[c] EXCEPT !.paused =
                                       @ \/ status = "paused"])
                        /\ Goto(c, "save")
    /\ UNCHANGED <<mission, events, artifacts, passed, report, leases,
                   notices, system>>

\* A record whose approval is still undecided is in state Approval, so the
\* transition is always allowed.
ApproveAnnounce(c) ==
    /\ Op[c] = "approve"
    /\ \/ pc[c] = "announce" /\ Transition(c, "Execution", "saveAdvance")
       \/ pc[c] = "reject" /\ Transition(c, "Blocked", "saveAdvance")

\* _start_background_execution: one live thread per mission.
Spawn(c) ==
    /\ pc[c] = "spawn"
    /\ IF \E b \in Calls : Op[b] = "background" /\ Live(b)
       THEN Goto(c, "done")
       ELSE \E b \in Calls :
               /\ Op[b] = "background" /\ pc[b] = "idle"
               /\ pc' = [pc EXCEPT ![c] = "done", ![b] = "load"]
    /\ UNCHANGED <<mission, copy, stores, system>>

-----------------------------------------------------------------------------
(* rollback *)

RollbackAnnounce(c) ==
    /\ Op[c] = "rollback"
    /\ pc[c] = "announce"
    /\ Transition(c, "RolledBack", "saveAdvance")

-----------------------------------------------------------------------------
(* run_mission: the stages of an approved mission.  Any of them may raise. *)

Runner(c) == Op[c] \in RunnerOps

At(c, stage) == Runner(c) /\ pc[c] = "work" /\ copy[c].state = stage

\* A context hash differs, a reviewer or auditor rejects, an evidence record
\* conflicts, a tool fails.
StageRaises(c) ==
    /\ Runner(c)
    /\ pc[c] = "work"
    /\ Goto(c, "saveError")
    /\ Hold(c, [copy[c] EXCEPT !.result = @ \cup {"error"}])
    /\ UNCHANGED <<mission, stores, system>>

\* The mission's age exceeds max_execution_seconds when the run begins.
BeginTooLate(c) ==
    /\ up
    /\ \/ pc[c] = "idle" /\ Op[c] = "run"
       \/ pc[c] = "load"
    /\ FirstStep(c) = "work"
    /\ Hold(c, mission)
    /\ Goto(c, "announceFail")
    /\ UNCHANGED <<mission, stores, system>>

SaveError(c) ==
    /\ pc[c] = "saveError"
    /\ SaveMission(c, "announceFail")

FailAnnounce(c) ==
    /\ pc[c] = "announceFail"
    /\ Transition(c, "Failed", "saveFail")

SaveFail(c) ==
    /\ pc[c] = "saveFail"
    /\ SaveMission(c, "raised")

\* _checkpointed_model: a response already in the record is not asked for
\* again.
UseSavedModel(c) ==
    /\ At(c, "Execution")
    /\ "model" \in copy[c].result
    /\ Goto(c, "probe")
    /\ UNCHANGED <<mission, copy, stores, system>>

CallModel(c) ==
    /\ At(c, "Execution")
    /\ "model" \notin copy[c].result
    /\ \/ /\ Hold(c, [copy[c] EXCEPT !.result =
                        (@ \cup {"model"}) \ {"recovery"}])
          /\ Goto(c, "saveModel")
       \/ /\ Hold(c, [copy[c] EXCEPT !.result = @ \cup {"recovery"}])
          /\ Goto(c, "saveOutage")
    /\ UNCHANGED <<mission, stores, system>>

SaveModel(c) ==
    /\ pc[c] = "saveModel"
    /\ SaveMission(c, "probe")

\* ProviderUnavailable: the mission is saved where it is, and the call raises.
SaveOutage(c) ==
    /\ pc[c] = "saveOutage"
    /\ SaveMission(c, "raised")

\* The code_exec check: safe mode denies it; a missing sandbox is noted.
Probe(c) ==
    /\ pc[c] = "probe"
    /\ \/ /\ ~copy[c].safe_mode
          /\ Goto(c, "lease")
          /\ UNCHANGED <<mission, copy>>
       \/ /\ ~copy[c].safe_mode
          /\ mission' = copy[c]
          /\ Goto(c, "lease")
          /\ UNCHANGED copy
       \/ /\ copy[c].safe_mode
          /\ Hold(c, [copy[c] EXCEPT !.result = @ \cup {"error"}])
          /\ Goto(c, "saveError")
          /\ UNCHANGED mission
    /\ UNCHANGED <<stores, system>>

\* Every run takes the lease under the one writer name "vertex".
Writer(c) == "vertex"

AcquireLease(c) ==
    /\ pc[c] = "lease"
    /\ \A d \in leases : Writer(d) = Writer(c)
    /\ leases' = leases \cup {c}
    /\ Goto(c, "authorise")
    /\ UNCHANGED <<mission, copy, approvals, events, artifacts, passed,
                   report, notices, system>>

MayWrite(status) == status \in {"approved", "consumed"}

\* mutant: the approval is checked and not consumed.
AuthoriseUnconsumed(c) ==
    /\ pc[c] = "authorise"
    /\ MayWrite(approvals[copy[c].approval])
    /\ Goto(c, "write")
    /\ UNCHANGED <<mission, copy, stores, system>>

\* The report tool: an earlier record is returned; an approved approval is
\* consumed; a consumed one serves the same request again, not another.
Authorise(c) ==
    /\ pc[c] = "authorise"
    /\ LET a == copy[c].approval IN
       \/ /\ "report" \in artifacts
          /\ Goto(c, "release")
          /\ UNCHANGED <<copy, approvals, leases>>
       \/ /\ "report" \notin artifacts
          /\ MayWrite(approvals[a])
          /\ approvals' = [approvals EXCEPT ![a] = "consumed"]
          /\ Goto(c, "write")
          /\ UNCHANGED <<copy, leases>>
       \/ /\ "report" \notin artifacts
          /\ approvals[a] # "approved"
          /\ leases' = leases \ {c}
          /\ Hold(c, [copy[c] EXCEPT !.result = @ \cup {"error"}])
          /\ Goto(c, "saveError")
          /\ UNCHANGED approvals
    /\ UNCHANGED <<mission, events, artifacts, passed, report,
                   notices, system>>

WriteReport(c) ==
    /\ pc[c] = "write"
    /\ report' = TRUE
    /\ Goto(c, "record")
    /\ UNCHANGED <<mission, copy, approvals, events, artifacts, passed,
                   leases, notices, system>>

\* The tool raises; the lease is released all the same.
WriteRaises(c) ==
    /\ pc[c] = "write"
    /\ leases' = leases \ {c}
    /\ Hold(c, [copy[c] EXCEPT !.result = @ \cup {"error"}])
    /\ Goto(c, "saveError")
    /\ UNCHANGED <<mission, approvals, events, artifacts, passed, report,
                   notices, system>>

\* mutant: the invocation is not recorded.
ReportUnrecorded(c) ==
    /\ pc[c] = "record"
    /\ Goto(c, "release")
    /\ UNCHANGED <<mission, copy, stores, system>>

RecordReport(c) ==
    /\ pc[c] = "record"
    /\ artifacts' = artifacts \cup {"report"}
    /\ Goto(c, "release")
    /\ UNCHANGED <<mission, copy, approvals, events, passed, report, leases,
                   notices, system>>

ReleaseLease(c) ==
    /\ pc[c] = "release"
    /\ leases' = leases \ {c}
    /\ Hold(c, [copy[c] EXCEPT !.result = @ \cup {"report"}])
    /\ Goto(c, "saveWork")
    /\ UNCHANGED <<mission, approvals, events, artifacts, passed, report,
                   notices, system>>

\* A stage that stores one keyed record: the verification report, the
\* execution result.  A record that is already there is taken as it is.
StoreEvidence(c, stage, key) ==
    /\ At(c, stage)
    /\ artifacts' = artifacts \cup {key}
    /\ Hold(c, [copy[c] EXCEPT !.result = @ \cup {key}])
    /\ Goto(c, "saveWork")
    /\ UNCHANGED <<mission, approvals, events, passed, report, leases,
                   notices, system>>

Verify(c)         == StoreEvidence(c, "Verification", "verification")
CommitEvidence(c) == StoreEvidence(c, "Evidence", "result")

\* mutant: the patch is not linked from the record.
MemoryUnlinked(c) ==
    /\ At(c, "MemoryPatch")
    /\ artifacts' = artifacts \cup {"memory"}
    /\ Goto(c, "saveWork")
    /\ UNCHANGED <<mission, copy, approvals, events, passed, report, leases,
                   notices, system>>

\* The memory patch is keyed; the lifecycle entry beside it is not, but nothing
\* reads it.
UpdateMemory(c) ==
    /\ At(c, "MemoryPatch")
    /\ artifacts' = artifacts \cup {"memory"}
    /\ Hold(c, [copy[c] EXCEPT !.result = @ \cup {"memory"}])
    /\ Goto(c, "saveWork")
    /\ UNCHANGED <<mission, approvals, events, passed, report, leases,
                   notices, system>>

\* The first evaluation is stored and stands; it needs the report.
Evaluate(c) ==
    /\ At(c, "Evaluation")
    /\ \/ "evaluation" \in artifacts /\ UNCHANGED <<artifacts, passed>>
       \/ /\ "evaluation" \notin artifacts
          /\ artifacts' = artifacts \cup {"evaluation"}
          /\ passed' \in BOOLEAN
          /\ passed' => "report" \in copy[c].result
    /\ Hold(c, [copy[c] EXCEPT !.result =
                  (@ \ {"passed"}) \cup {"evaluation"}
                     \cup (IF passed' THEN {"passed"} ELSE {})])
    /\ Goto(c, "saveWork")
    /\ UNCHANGED <<mission, approvals, events, report, leases,
                   notices, system>>

\* mutant: the gate does not look at the evaluation.
GateWithoutEvaluation(c) ==
    /\ copy[c].contract = "approved"
    /\ \E a \in Approvals : approvals[a] \in {"approved", "consumed"}
    /\ mission.state # "Blocked"

\* _completion_gate, as far as it depends on the mission.  The last conjunct
\* reads the stored record, not the copy.
CompletionGate(c) ==
    /\ copy[c].contract = "approved"
    /\ "passed" \in copy[c].result
    /\ \E a \in Approvals : approvals[a] \in {"approved", "consumed"}
    /\ mission.state # "Blocked"

\* A stage ends by advancing.  The gate may also refuse for an evidence
\* record or memory mapping that does not verify.
RunAnnounce(c) ==
    /\ Runner(c)
    /\ pc[c] = "announce"
    /\ \/ /\ copy[c].state = "Evaluation"
          /\ Transition(c, "Blocked", "saveAdvance")
       \/ /\ copy[c].state = "Evaluation" => CompletionGate(c)
          /\ Transition(c, NextStage[copy[c].state], "saveAdvance")

\* mutant: the notification is sent whether or not it is on record.
NotifyAgain(c) ==
    /\ pc[c] = "notify"
    /\ notices' = notices + 1
    /\ Goto(c, "done")
    /\ UNCHANGED <<mission, copy, approvals, events, artifacts, passed,
                   report, leases, system>>

\* _notify_mission_completed: saved if absent, then sent.
Notify(c) ==
    /\ pc[c] = "notify"
    /\ notices' = IF notices = 0 THEN 1 ELSE notices
    /\ Goto(c, "done")
    /\ UNCHANGED <<mission, copy, approvals, events, artifacts, passed,
                   report, leases, system>>

-----------------------------------------------------------------------------
(* The process *)

Crash ==
    /\ up
    /\ crashes < MaxCrashes
    /\ crashes' = crashes + 1
    /\ up' = FALSE
    /\ pc' = [c \in Calls |-> IF Live(c) THEN "crashed" ELSE pc[c]]
    /\ UNCHANGED <<mission, copy, stores, ordered>>

\* mutant: only missions still in Execution are resumed.
ResumableInExecution == {"Execution"}

Resumable == RunStates

\* _resume_background_missions, when it is enabled.
Restart ==
    /\ ~up
    /\ up' = TRUE
    /\ IF AutoResume /\ mission.state \in Resumable /\ ~mission.paused
       THEN \E b \in Calls :
               /\ Op[b] = "background" /\ pc[b] = "idle"
               /\ pc' = [pc EXCEPT ![b] = "load"]
       ELSE UNCHANGED pc
    /\ UNCHANGED <<mission, copy, stores, ordered, crashes>>

\* The steps of a call that has begun.
Progress(c) ==
    \/ SaveAndReturn(c) \/ SaveAdvance(c) \/ SaveFinal(c) \/ SaveWork(c)
    \/ PlanWork(c) \/ PlanAnnounce(c) \/ Attach(c) \/ SaveAttach(c)
    \/ Decide(c) \/ ApproveAnnounce(c) \/ Spawn(c) \/ RollbackAnnounce(c)
    \/ StageRaises(c) \/ SaveError(c) \/ FailAnnounce(c) \/ SaveFail(c)
    \/ UseSavedModel(c) \/ CallModel(c) \/ SaveModel(c) \/ SaveOutage(c)
    \/ Probe(c) \/ AcquireLease(c) \/ Authorise(c) \/ WriteReport(c)
    \/ WriteRaises(c) \/ RecordReport(c) \/ ReleaseLease(c)
    \/ Verify(c) \/ CommitEvidence(c) \/ UpdateMemory(c) \/ Evaluate(c)
    \/ RunAnnounce(c) \/ Notify(c)

Next ==
    \/ \E c \in Calls : Begin(c) \/ BeginTooLate(c) \/ Progress(c)
    \/ Crash
    \/ Restart

Spec == Init /\ [][Next]_vars

\* Threads that run are scheduled: a call that has begun, and a background
\* thread that was started, go on; a process that crashed is started again.
\* Nobody has to begin a call.
Background(c) == pc[c] = "load" /\ (Begin(c) \/ BeginTooLate(c))

FairSpec ==
    /\ Spec
    /\ \A c \in Calls : WF_vars(Progress(c)) /\ WF_vars(Background(c))
    /\ WF_vars(Restart)

-----------------------------------------------------------------------------
(* Properties *)

Keyed == {"report", "verification", "result", "memory", "evaluation"}

\* What the stages before a state have put into the record.
Earned(state) ==
    CASE state = "Verification" -> {"model", "report"}
      [] state = "Evidence"     -> {"model", "report", "verification"}
      [] state = "MemoryPatch"  -> {"model", "report", "verification", "result"}
      [] state = "Evaluation"   -> {"model", "report", "verification",
                                    "result", "memory"}
      [] state = "Completed"    -> {"model", "passed"} \cup Keyed
      [] OTHER                  -> {}

\* Whatever copies overwrite each other and wherever a crash falls, a run that
\* starts from the stored state finds there the results of all earlier stages
\* (run_mission dispatches on the state alone), and the records they name.
ResumeFindsItsInputs ==
    /\ Earned(mission.state) \subseteq mission.result
    /\ mission.result \cap Keyed \subseteq artifacts
    /\ "report" \in artifacts => report

\* A stored mission is in an executing state, or completed, only with an
\* approved contract and under an approval that a human granted
\* (approve_mission), however approvals, plans and stale saves interleave.
ExecutionIsApproved ==
    mission.state \in RunStates \cup {"Completed"} =>
        /\ mission.contract = "approved"
        /\ mission.approval # None
        /\ approvals[mission.approval] \in {"approved", "consumed"}

\* The gate of _evaluate_stage: a completed mission passed its evaluation,
\* and the report it reports on was written under a consumed approval.
CompletedIsEarned ==
    mission.state = "Completed" =>
        /\ "passed" \in mission.result
        /\ passed
        /\ report
        /\ \E a \in Approvals : approvals[a] = "consumed"

\* No report is on disk that no granted approval was consumed for.
ReportWasAuthorised ==
    report => \E a \in Approvals : approvals[a] = "consumed"

\* MissionStateMachine.transition publishes before anything is saved: a
\* state that can be loaded has been announced, also after a crash.
StateAnnounced ==
    mission.state # "Intent" => mission.state \in events

\* At most one completion notification, and only of a mission that a run
\* completed, although a completed mission may be run again.
NotifiedOnce ==
    /\ notices <= 1
    /\ notices = 1 => "Completed" \in events

\* An approved mission in background execution is not forgotten: it settles,
\* is paused, or waits for a provider, also when the process crashes.
ApprovedIsSettled ==
    (mission.state \in RunStates /\ mission.background)
        ~> \/ mission.state \in SettledStates
           \/ mission.paused
           \/ "recovery" \in mission.result

-----------------------------------------------------------------------------
(* The inductive invariant behind the safety properties: it says of every  *)
(* copy that is alive what the properties say of the stored record, because*)
(* any copy may be what is stored next.                                    *)

GrantedStatus == {"approved", "consumed"}

ApprovedUnder(r, status) ==
    /\ r.contract = "approved"
    /\ r.approval \in Approvals
    /\ status[r.approval] \in GrantedStatus

\* A record is consistent with the approvals' status, the announced states,
\* the stored artifacts and the stored evaluation.
Consistent(r, status, announced, stored, outcome) ==
    /\ r.state # "Intent" => r.state \in announced
    /\ r.state \in RunStates \cup {"Completed"} => ApprovedUnder(r, status)
    /\ Earned(r.state) \subseteq r.result
    /\ r.result \cap Keyed \subseteq stored
    /\ "passed" \in r.result => outcome

RecordOK(r) == Consistent(r, approvals, events, artifacts, passed)

WritingPC == {"probe", "lease", "authorise", "write", "record", "release"}

\* What the step a call is at says about its copy.
StepOK(c) ==
    /\ Op[c] \in PlanOps =>
          /\ pc[c] \in {"announce", "work"} => copy[c].state \in PlanStates
          /\ pc[c] = "saveAdvance" =>
                copy[c].state \in PlanStates \cup {"Approval"}
    /\ Op[c] = "approve" =>
          /\ pc[c] = "decide" => copy[c].approval \in Approvals
          /\ pc[c] = "announce" => ApprovedUnder(copy[c], approvals)
          /\ pc[c] = "saveAdvance" => copy[c].state \in {"Execution", "Blocked"}
    /\ pc[c] \in WritingPC \cup {"saveModel"} =>
          /\ Runner(c)
          /\ copy[c].state = "Execution"
          /\ "model" \in copy[c].result
    /\ pc[c] = "saveWork" => Runner(c)
    /\ Runner(c) =>
          /\ pc[c] = "work" => copy[c].state \in RunStates
          /\ pc[c] = "saveAdvance" =>
                copy[c].state \in RunStates \cup {"Completed", "Blocked"}
          /\ pc[c] \in {"saveWork", "announce"} =>
                /\ copy[c].state \in RunStates
                /\ Earned(NextStage[copy[c].state]) \ {"passed"}
                      \subseteq copy[c].result
    /\ pc[c] \in {"write", "record"} => approvals[copy[c].approval] = "consumed"
    /\ pc[c] = "record" => report
    /\ pc[c] = "release" => "report" \in artifacts
    /\ pc[c] = "notify" => "Completed" \in events

StoreInv ==
    /\ "report" \in artifacts => report
    /\ ReportWasAuthorised
    /\ passed => "evaluation" \in artifacts
    /\ NotifiedOnce

\* The conjunction is inductive; TLC checks it on the instances, the proofs
\* are in MissionRuntime_proofs.
IndInv ==
    /\ TypeOK
    /\ StoreInv
    /\ RecordOK(mission)
    /\ \A c \in Calls : RecordOK(copy[c]) /\ StepOK(c)

-----------------------------------------------------------------------------
(* A claim of the repository's documents that the code does not keep. *)

\* A pause that has returned holds until a resume returns.
PauseHolds == ordered => mission.paused
=============================================================================
