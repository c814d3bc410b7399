------------------------ MODULE MissionRuntime_proofs ------------------------
(***************************************************************************)
(* Proofs about MissionRuntime, for any set of calls of its operations,    *)
(* any set of approvals and any number of crashes.                         *)
(*                                                                         *)
(* Saves overwrite the record with whatever copy a call holds, so what is  *)
(* true of the stored record can only be proved by proving it of every     *)
(* copy as well (RecordOK).  The stores themselves only grow: events and   *)
(* artifacts are never removed and a granted approval stays granted        *)
(* (Grow), which is why an old copy stays consistent with them.            *)
(***************************************************************************)
EXTENDS MissionRuntime, TLAPS

-----------------------------------------------------------------------------
(* Types *)

\* The state machine never leads out of the set of states.
LEMMA CanTransitionType ==
    ASSUME NEW s, NEW t, CanTransition(s, t)
    PROVE  t \in MissionState
<1>1. \A q \in PlanStates \cup RunStates : NextStage[q] \in MissionState
  BY DEF NextStage, PlanStates, RunStates, SettledStates, MissionState
<1>2. DOMAIN NextStage = PlanStates \cup RunStates
  BY DEF NextStage
<1> QED
  BY <1>1, <1>2 DEF CanTransition, MissionState, RunStates, SettledStates

\* The fields of a mission record can be replaced one at a time.
LEMMA RecordFields ==
    ASSUME NEW r \in MissionRecord
    PROVE  /\ \A v \in MissionState : [r EXCEPT !.state = v] \in MissionRecord
           /\ \A v \in BOOLEAN : [r EXCEPT !.paused = v] \in MissionRecord
           /\ \A v \in BOOLEAN : [r EXCEPT !.safe_mode = v] \in MissionRecord
           /\ \A v \in BOOLEAN : [r EXCEPT !.background = v] \in MissionRecord
           /\ [r EXCEPT !.owner = "human"] \in MissionRecord
           /\ [r EXCEPT !.contract = "draft"] \in MissionRecord
           /\ [r EXCEPT !.contract = "approved"] \in MissionRecord
           /\ \A v \in Approvals : [r EXCEPT !.approval = v] \in MissionRecord
           /\ \A v \in SUBSET Results :
                 [r EXCEPT !.result = v] \in MissionRecord
BY DEF MissionRecord

\* Loading yields a record.
LEMMA LoadedType ==
    ASSUME NEW c \in Calls, mission \in MissionRecord
    PROVE  Loaded(c) \in MissionRecord
<1>1. /\ [mission EXCEPT !.paused = TRUE] \in MissionRecord
      /\ [mission EXCEPT !.paused = FALSE] \in MissionRecord
      /\ [mission EXCEPT !.owner = "human"] \in MissionRecord
      /\ [mission EXCEPT !.safe_mode = TRUE] \in MissionRecord
  BY RecordFields
<1> QED
  BY <1>1 DEF Loaded

\* The program counter stays in its set.
LEMMA StepNames ==
    ASSUME NEW c \in Calls
    PROVE  FirstStep(c) \in PC /\ AfterAdvance(c) \in PC
<1>1. FirstStep(c) \in {"announce", "done", "attach", "raised", "decide",
                        "save", "notify", "work"}
  BY DEF FirstStep
<1>2. AfterAdvance(c) \in {"done", "work", "attach", "spawn", "final"}
  BY DEF AfterAdvance
<1> QED
  BY <1>1, <1>2 DEF PC

\* Saving a copy, and advancing it, keep the types.
LEMMA SaveType ==
    ASSUME TypeOK, NEW c \in Calls, NEW next \in PC, SaveMission(c, next)
    PROVE  TypeOK'
BY DEF TypeOK, SaveMission, Goto, stores, system

\* A transition keeps the types.
LEMMA TransitionType ==
    ASSUME TypeOK, NEW c \in Calls, NEW target, NEW next \in PC,
           Transition(c, target, next)
    PROVE  TypeOK'
<1>1. target \in MissionState
  BY CanTransitionType DEF Transition
<1>2. [copy[c] EXCEPT !.state = target] \in MissionRecord
  BY <1>1, RecordFields DEF TypeOK
<1> QED
  BY <1>1, <1>2 DEF TypeOK, Transition, Hold, Goto, system

\* The type invariant is kept by every step.
LEMMA TypeStep ==
    ASSUME TypeOK, [Next]_vars
    PROVE  TypeOK'
<1>1. CASE UNCHANGED vars
  BY <1>1 DEF vars, stores, system, TypeOK
<1>2. ASSUME NEW c \in Calls, Begin(c) PROVE TypeOK'
  BY <1>2, LoadedType, StepNames DEF Begin, Hold, Goto, TypeOK, stores, system
<1>3. ASSUME NEW c \in Calls, BeginTooLate(c) PROVE TypeOK'
  BY <1>3 DEF BeginTooLate, Hold, Goto, TypeOK, stores, system, PC
<1>4. ASSUME NEW c \in Calls, SaveAndReturn(c) PROVE TypeOK'
  BY <1>4 DEF SaveAndReturn, Goto, TypeOK, stores, PC
<1>5. ASSUME NEW c \in Calls,
             SaveAdvance(c) \/ SaveFinal(c) \/ SaveWork(c) \/ SaveAttach(c)
                \/ SaveError(c) \/ SaveFail(c) \/ SaveModel(c) \/ SaveOutage(c)
      PROVE  TypeOK'
  <2>1. {"notify", "done", "announce", "announceFail", "raised", "probe"}
           \subseteq PC
    BY DEF PC
  <2>2. PICK next \in PC : SaveMission(c, next)
    BY <1>5, <2>1, StepNames
    DEF SaveAdvance, SaveFinal, SaveWork, SaveAttach, SaveError, SaveFail,
        SaveModel, SaveOutage
  <2> QED
    BY <2>2, SaveType
<1>6. ASSUME NEW c \in Calls, PlanWork(c) PROVE TypeOK'
  <2>1. copy[c] \in MissionRecord
    BY DEF TypeOK
  <2>2. /\ [copy[c] EXCEPT !.contract = "draft"] \in MissionRecord
        /\ \A a \in Approvals : [copy[c] EXCEPT !.approval = a] \in MissionRecord
    BY <2>1, RecordFields
  <2>3. copy' \in [Calls -> MissionRecord] /\ mission' \in MissionRecord
    BY <1>6, <2>1, <2>2 DEF PlanWork, Hold, TypeOK
  <2> QED
    BY <1>6, <2>3 DEF PlanWork, Goto, TypeOK, system, PC, ApprovalStatus
<1>7. ASSUME NEW c \in Calls,
             PlanAnnounce(c) \/ ApproveAnnounce(c) \/ RollbackAnnounce(c)
                \/ FailAnnounce(c) \/ RunAnnounce(c)
      PROVE  TypeOK'
  <2>1. "saveAdvance" \in PC /\ "saveFail" \in PC
    BY DEF PC
  <2>2. PICK target \in MissionState \cup {NextStage[copy[c].state]},
             next \in PC : Transition(c, target, next)
    BY <1>7, <2>1
    DEF PlanAnnounce, ApproveAnnounce, RollbackAnnounce, FailAnnounce,
        RunAnnounce, MissionState, RunStates, SettledStates
  <2> QED
    BY <2>2, TransitionType
<1>8. ASSUME NEW c \in Calls, Attach(c) PROVE TypeOK'
  <2>1. [mission EXCEPT !.background = TRUE] \in MissionRecord
    BY RecordFields DEF TypeOK
  <2> QED
    BY <1>8, <2>1 DEF Attach, Hold, Goto, TypeOK, stores, system, PC
<1>9. ASSUME NEW c \in Calls, Decide(c) PROVE TypeOK'
  <2>1. copy[c] \in MissionRecord /\ copy[c].paused \in BOOLEAN
    BY DEF TypeOK, MissionRecord
  <2>2. /\ [copy[c] EXCEPT !.contract = "approved"] \in MissionRecord
        /\ \A v \in BOOLEAN : [copy[c] EXCEPT !.paused = v] \in MissionRecord
    BY <2>1, RecordFields
  <2>3. \A status : [copy[c] EXCEPT !.paused = @ \/ status = "paused"]
                       \in MissionRecord
    BY <2>1, <2>2
  <2>4. copy' \in [Calls -> MissionRecord]
    BY <1>9, <2>2, <2>3 DEF Decide, Hold, TypeOK
  <2> QED
    BY <1>9, <2>4 DEF Decide, Goto, TypeOK, system, PC, ApprovalStatus
<1>10. ASSUME NEW c \in Calls, Spawn(c) PROVE TypeOK'
  BY <1>10 DEF Spawn, Goto, TypeOK, stores, system, PC
<1>11. ASSUME NEW c \in Calls,
              StageRaises(c) \/ UseSavedModel(c) \/ CallModel(c) \/ Probe(c)
       PROVE  TypeOK'
  <2>1. copy[c] \in MissionRecord /\ copy[c].result \subseteq Results
    BY DEF TypeOK, MissionRecord
  <2>2. \A v \in SUBSET Results : [copy[c] EXCEPT !.result = v] \in MissionRecord
    BY <2>1, RecordFields
  <2>3. /\ [copy[c] EXCEPT !.result = @ \cup {"error"}] \in MissionRecord
        /\ [copy[c] EXCEPT !.result = @ \cup {"recovery"}] \in MissionRecord
        /\ [copy[c] EXCEPT !.result = (@ \cup {"model"}) \ {"recovery"}]
              \in MissionRecord
    BY <2>1, <2>2 DEF Results
  <2>4. copy' \in [Calls -> MissionRecord]
    BY <1>11, <2>3 DEF StageRaises, UseSavedModel, CallModel, Probe, Hold, TypeOK
  <2> QED
    BY <1>11, <2>1, <2>4
    DEF StageRaises, UseSavedModel, CallModel, Probe, Goto, TypeOK, stores,
        system, PC
<1>12. ASSUME NEW c \in Calls,
              AcquireLease(c) \/ Authorise(c) \/ WriteReport(c)
                 \/ WriteRaises(c) \/ RecordReport(c) \/ ReleaseLease(c)
       PROVE  TypeOK'
  <2>1. copy[c] \in MissionRecord /\ copy[c].result \subseteq Results
    BY DEF TypeOK, MissionRecord
  <2>2. /\ [copy[c] EXCEPT !.result = @ \cup {"error"}] \in MissionRecord
        /\ [copy[c] EXCEPT !.result = @ \cup {"report"}] \in MissionRecord
    BY <2>1, RecordFields DEF Results
  <2>3. copy' \in [Calls -> MissionRecord]
    BY <1>12, <2>2
    DEF AcquireLease, Authorise, WriteReport, WriteRaises,
        RecordReport, ReleaseLease, Hold,
        TypeOK
  <2>4. approvals' \in [Approvals -> ApprovalStatus]
    BY <1>12
    DEF AcquireLease, Authorise, WriteReport, WriteRaises,
        RecordReport, ReleaseLease,
        TypeOK, ApprovalStatus
  <2> QED
    BY <1>12, <2>3, <2>4
    DEF AcquireLease, Authorise, WriteReport, WriteRaises,
        RecordReport, ReleaseLease, Goto,
        TypeOK, system, PC, Results
<1>13. ASSUME NEW c \in Calls,
              Verify(c) \/ CommitEvidence(c) \/ UpdateMemory(c) \/ Evaluate(c)
       PROVE  TypeOK'
  <2>1. copy[c] \in MissionRecord /\ copy[c].result \subseteq Results
    BY DEF TypeOK, MissionRecord
  <2>2. \A v \in SUBSET Results : [copy[c] EXCEPT !.result = v] \in MissionRecord
    BY <2>1, RecordFields
  <2>3. /\ [copy[c] EXCEPT !.result = @ \cup {"verification"}] \in MissionRecord
        /\ [copy[c] EXCEPT !.result = @ \cup {"result"}] \in MissionRecord
        /\ [copy[c] EXCEPT !.result = @ \cup {"memory"}] \in MissionRecord
        /\ [copy[c] EXCEPT !.result =
              (@ \ {"passed"}) \cup {"evaluation"} \cup {"passed"}]
              \in MissionRecord
        /\ [copy[c] EXCEPT !.result =
              (@ \ {"passed"}) \cup {"evaluation"} \cup {}] \in MissionRecord
    BY <2>1, <2>2 DEF Results
  <2>4. copy' \in [Calls -> MissionRecord]
    BY <1>13, <2>3
    DEF Verify, CommitEvidence, StoreEvidence, UpdateMemory, Evaluate, Hold,
        TypeOK
  <2>5. passed' \in BOOLEAN
    BY <1>13
    DEF Verify, CommitEvidence, StoreEvidence, UpdateMemory, Evaluate, TypeOK
  <2>6. artifacts' \subseteq Results
    BY <1>13
    DEF Verify, CommitEvidence, StoreEvidence, UpdateMemory, Evaluate, TypeOK,
        Results
  <2> QED
    BY <1>13, <2>4, <2>5, <2>6
    DEF Verify, CommitEvidence, StoreEvidence, UpdateMemory, Evaluate, Goto,
        TypeOK, system, PC
<1>14. ASSUME NEW c \in Calls, Notify(c) PROVE TypeOK'
  BY <1>14 DEF Notify, Goto, TypeOK, system, PC
<1>15. CASE Crash
  <2>1. pc' \in [Calls -> PC]
    BY <1>15 DEF Crash, Live, TypeOK, PC
  <2>2. /\ UNCHANGED <<mission, copy, stores, ordered>>
        /\ crashes' = crashes + 1
        /\ up' = FALSE
    BY <1>15, Zenon DEF Crash
  <2>3. crashes' \in Nat
    BY <2>2 DEF TypeOK
  <2>4. up' \in BOOLEAN /\ ordered' \in BOOLEAN
    BY <2>2, Zenon DEF TypeOK
  <2>5. /\ passed' \in BOOLEAN /\ report' \in BOOLEAN
        /\ leases' \subseteq Calls /\ notices' \in Nat
    BY <2>2 DEF TypeOK, stores
  <2>6. /\ mission' \in MissionRecord /\ copy' \in [Calls -> MissionRecord]
        /\ approvals' \in [Approvals -> ApprovalStatus]
        /\ events' \subseteq MissionState /\ artifacts' \subseteq Results
    BY <2>2 DEF TypeOK, stores
  <2> QED
    BY <2>1, <2>3, <2>4, <2>5, <2>6 DEF TypeOK
<1>16. CASE Restart
  BY <1>16 DEF Restart, TypeOK, stores, PC
<1> QED
  BY <1>1, <1>2, <1>3, <1>4, <1>5, <1>6, <1>7, <1>8, <1>9, <1>10, <1>11, <1>12,
     <1>13, <1>14, <1>15, <1>16 DEF Next, Progress

-----------------------------------------------------------------------------
(* What one step of one call leaves alone. *)

\* The stores only grow.
Grow ==
    /\ events \subseteq events'
    /\ artifacts \subseteq artifacts'
    /\ passed => passed'
    /\ report => report'
    /\ \A a \in Approvals :
          /\ approvals[a] \in GrantedStatus => approvals'[a] \in GrantedStatus
          /\ approvals[a] = "consumed" => approvals'[a] = "consumed"

\* A record that is consistent with the stores stays so as they grow.
LEMMA RecordKept ==
    ASSUME Grow
    PROVE  \A r : RecordOK(r) =>
               Consistent(r, approvals', events', artifacts', passed')
<1> SUFFICES ASSUME NEW r, RecordOK(r)
             PROVE  Consistent(r, approvals', events', artifacts', passed')
  OBVIOUS
<1>1. /\ r.state # "Intent" => r.state \in events'
      /\ r.result \cap Keyed \subseteq artifacts'
      /\ Earned(r.state) \subseteq r.result
  BY DEF Grow, RecordOK, Consistent
<1>2. "passed" \in r.result => passed'
  BY Zenon DEF Grow, RecordOK, Consistent
<1>3. ASSUME r.state \in RunStates \cup {"Completed"}
      PROVE  ApprovedUnder(r, approvals')
  BY <1>3 DEF Grow, RecordOK, Consistent, ApprovedUnder
<1> QED
  BY <1>1, <1>2, <1>3, Zenon DEF Consistent

\* A call that does not move keeps what its step says about its copy.
LEMMA StepKept ==
    ASSUME Grow, NEW d \in Calls, RecordOK(copy[d]), StepOK(d),
           pc'[d] = pc[d], copy'[d] = copy[d]
    PROVE  StepOK(d)'
<1>1. ASSUME ApprovedUnder(copy[d], approvals)
      PROVE  ApprovedUnder(copy[d], approvals)'
  BY <1>1 DEF Grow, ApprovedUnder
<1>2. ASSUME pc[d] \in {"write", "record"}
      PROVE  approvals'[copy[d].approval] = "consumed"
  <2>1. copy[d].state = "Execution" /\ approvals[copy[d].approval] = "consumed"
    BY <1>2 DEF StepOK, WritingPC
  <2>2. copy[d].approval \in Approvals
    BY <2>1 DEF RecordOK, Consistent, RunStates, ApprovedUnder
  <2> QED
    BY <2>1, <2>2 DEF Grow
<1>3. pc[d] = "record" => report'
  BY Zenon DEF StepOK, Grow
<1>4. /\ pc[d] = "release" => "report" \in artifacts'
      /\ pc[d] = "notify" => "Completed" \in events'
  BY DEF StepOK, Grow
<1> QED
  BY <1>1, <1>2, <1>3, <1>4, Zenon DEF StepOK, Runner

\* Only this call moves.
OnlyCall(c) ==
    \A d \in Calls \ {c} : pc'[d] = pc[d] /\ copy'[d] = copy[d]

\* To show that a step of call c keeps the invariant, look at c alone.
LEMMA OneCall ==
    ASSUME IndInv, [Next]_vars, NEW c \in Calls, Grow, OnlyCall(c),
           StoreInv', RecordOK(mission)', RecordOK(copy[c])', StepOK(c)'
    PROVE  IndInv'
<1>1. TypeOK'
  BY TypeStep DEF IndInv
<1>2. ASSUME NEW d \in Calls \ {c}
      PROVE  RecordOK(copy[d])' /\ StepOK(d)'
  <2>1. pc'[d] = pc[d] /\ copy'[d] = copy[d]
    BY DEF OnlyCall
  <2>2. RecordOK(copy[d]) /\ StepOK(d)
    BY DEF IndInv
  <2>3. RecordOK(copy[d])'
    BY <2>1, <2>2, RecordKept DEF RecordOK
  <2> QED
    BY <2>1, <2>2, <2>3, StepKept
<1> QED
  BY <1>1, <1>2 DEF IndInv

\* A step of one call that only saves its copy.
LEMMA SaveInv ==
    ASSUME IndInv, [Next]_vars, NEW c \in Calls, NEW next, Goto(c, next),
           mission' = copy[c], UNCHANGED <<copy, stores>>, StepOK(c)'
    PROVE  IndInv'
<1>1. Grow
  BY DEF stores, Grow
<1>2. OnlyCall(c)
  BY DEF Goto, OnlyCall, IndInv, TypeOK
<1>3. RecordOK(copy[c])
  BY DEF IndInv
<1>4. RecordOK(mission)' /\ RecordOK(copy[c])'
  BY <1>1, <1>3, RecordKept DEF RecordOK
<1>5. StoreInv'
  BY DEF stores, IndInv, StoreInv, ReportWasAuthorised, NotifiedOnce
<1> QED
  BY <1>1, <1>2, <1>4, <1>5, OneCall

\* A step of one call that only changes its own copy.
LEMMA LocalInv ==
    ASSUME IndInv, [Next]_vars, NEW c \in Calls, OnlyCall(c),
           UNCHANGED <<mission, stores>>, RecordOK(copy[c])', StepOK(c)'
    PROVE  IndInv'
<1>1. Grow
  BY DEF stores, Grow
<1>2. RecordOK(mission)'
  BY <1>1, RecordKept DEF RecordOK, IndInv
<1>3. StoreInv'
  BY DEF stores, IndInv, StoreInv, ReportWasAuthorised, NotifiedOnce
<1> QED
  BY <1>1, <1>2, <1>3, OneCall

\* The part of a record that a stage changes, or that a transition changes.
LEMMA WithResult ==
    ASSUME NEW r \in MissionRecord, NEW v, NEW st, NEW ev, NEW art, NEW pa,
           Consistent(r, st, ev, art, pa),
           Earned(r.state) \subseteq v,
           v \cap Keyed \subseteq art,
           "passed" \in v => pa
    PROVE  Consistent([r EXCEPT !.result = v], st, ev, art, pa)
<1> DEFINE q == [r EXCEPT !.result = v]
<1>1. /\ q.state = r.state /\ q.contract = r.contract
      /\ q.approval = r.approval /\ q.result = v
  BY DEF MissionRecord
<1> HIDE DEF q
<1>2. Consistent(q, st, ev, art, pa)
  BY <1>1, Zenon DEF Consistent, ApprovedUnder
<1> QED
  BY <1>2 DEF q

\* A transition to a state that is announced, approved if need be, and earned.
LEMMA WithState ==
    ASSUME NEW r \in MissionRecord, NEW t, NEW st, NEW ev, NEW art, NEW pa,
           Consistent(r, st, ev, art, pa),
           t \in ev,
           t \in RunStates \cup {"Completed"} => ApprovedUnder(r, st),
           Earned(t) \subseteq r.result
    PROVE  Consistent([r EXCEPT !.state = t], st, ev, art, pa)
<1> DEFINE q == [r EXCEPT !.state = t]
<1>1. /\ q.state = t /\ q.contract = r.contract
      /\ q.approval = r.approval /\ q.result = r.result
  BY DEF MissionRecord
<1> HIDE DEF q
<1>2. Consistent(q, st, ev, art, pa)
  BY <1>1, Zenon DEF Consistent, ApprovedUnder
<1> QED
  BY <1>2 DEF q

\* What a stage has earned, and what the next one needs.
LEMMA EarnedFacts ==
    /\ \A s \in MissionState \ {"Verification", "Evidence", "MemoryPatch",
                                "Evaluation", "Completed"} : Earned(s) = {}
    /\ Earned("Verification") = {"model", "report"}
    /\ Earned("Evidence") = {"model", "report", "verification"}
    /\ Earned("MemoryPatch") = {"model", "report", "verification", "result"}
    /\ Earned("Evaluation") =
          {"model", "report", "verification", "result", "memory"}
    /\ Earned("Completed") = {"model", "passed"} \cup Keyed
BY DEF Earned

\* The order of the stages.
LEMMA NextStageFacts ==
    /\ NextStage["Intent"] = "Context"
    /\ NextStage["Context"] = "Contract"
    /\ NextStage["Contract"] = "Plan"
    /\ NextStage["Plan"] = "Simulation"
    /\ NextStage["Simulation"] = "Approval"
    /\ NextStage["Execution"] = "Verification"
    /\ NextStage["Verification"] = "Evidence"
    /\ NextStage["Evidence"] = "MemoryPatch"
    /\ NextStage["MemoryPatch"] = "Evaluation"
    /\ NextStage["Evaluation"] = "Completed"
BY DEF NextStage, PlanStates, RunStates

\* A transition of call c's copy.
LEMMA TransitionInv ==
    ASSUME IndInv, [Next]_vars, NEW c \in Calls, NEW target, NEW next,
           Transition(c, target, next),
           target \in RunStates \cup {"Completed"} =>
               ApprovedUnder(copy[c], approvals),
           Earned(target) \subseteq copy[c].result,
           StepOK(c)'
    PROVE  IndInv'
<1>1. Grow
  BY DEF Transition, Grow
<1>2. OnlyCall(c)
  BY DEF Transition, Hold, Goto, OnlyCall, IndInv, TypeOK
<1>3. copy'[c] = [copy[c] EXCEPT !.state = target]
  BY DEF Transition, Hold, IndInv, TypeOK
<1>4. RecordOK(mission)'
  BY <1>1, RecordKept DEF RecordOK, IndInv, Transition
<1>5. Consistent(copy[c], approvals', events', artifacts', passed')
  BY <1>1, RecordKept DEF IndInv
<1>6. /\ copy[c] \in MissionRecord
      /\ target \in events'
      /\ approvals' = approvals
  BY DEF IndInv, TypeOK, Transition
<1>7. RecordOK(copy[c])'
  BY <1>3, <1>5, <1>6, WithState DEF RecordOK
<1>8. StoreInv'
  BY DEF Transition, IndInv, StoreInv, ReportWasAuthorised, NotifiedOnce
<1> QED
  BY <1>1, <1>2, <1>4, <1>7, <1>8, OneCall

-----------------------------------------------------------------------------
(* One lemma per group of actions: each keeps the invariant. *)

\* What a call changes while loading is not what the invariant is about.
LEMMA LoadedFacts ==
    ASSUME NEW c \in Calls, mission \in MissionRecord
    PROVE  /\ Loaded(c).state = mission.state
           /\ Loaded(c).contract = mission.contract
           /\ Loaded(c).approval = mission.approval
           /\ Loaded(c).result = mission.result
<1>1. CASE Op[c] = "pause"
  BY <1>1 DEF Loaded, MissionRecord
<1>2. CASE Op[c] = "resume"
  BY <1>2 DEF Loaded, MissionRecord
<1>3. CASE Op[c] = "takeover"
  BY <1>3 DEF Loaded, MissionRecord
<1>4. CASE Op[c] = "safe_mode"
  BY <1>4 DEF Loaded, MissionRecord
<1>5. CASE Op[c] \notin {"pause", "resume", "takeover", "safe_mode"}
  BY <1>5 DEF Loaded
<1> QED
  BY <1>1, <1>2, <1>3, <1>4, <1>5

\* The first step of each operation, and what it has checked.
LEMMA FirstStepFacts ==
    ASSUME NEW c \in Calls
    PROVE  /\ FirstStep(c) \in {"announce", "done", "attach", "raised",
                                "decide", "save", "notify", "work"}
           /\ Op[c] \in PlanOps =>
                /\ FirstStep(c) \in {"announce", "done", "attach"}
                /\ FirstStep(c) = "announce" => mission.state = "Intent"
           /\ Op[c] = "approve" =>
                /\ FirstStep(c) \in {"raised", "decide"}
                /\ FirstStep(c) = "decide" => mission.approval # None
           /\ Runner(c) =>
                /\ FirstStep(c) \in {"notify", "done", "raised", "work"}
                /\ FirstStep(c) = "work" => mission.state \in RunStates
           /\ FirstStep(c) = "notify" => mission.state = "Completed"
<1>1. Op[c] \in PlanOps =>
        /\ FirstStep(c) \in {"announce", "done", "attach"}
        /\ FirstStep(c) = "announce" => mission.state = "Intent"
  BY DEF FirstStep, PlanOps
<1>2. Op[c] = "approve" =>
        /\ FirstStep(c) \in {"raised", "decide"}
        /\ FirstStep(c) = "decide" => mission.approval # None
  BY DEF FirstStep
<1>3. Op[c] \in {"pause", "takeover", "safe_mode", "resume", "rollback"} =>
        FirstStep(c) \in {"save", "done", "announce", "raised"}
  BY DEF FirstStep
<1>4. Op[c] \in RunnerOps =>
        /\ FirstStep(c) \in {"notify", "done", "raised", "work"}
        /\ FirstStep(c) = "work" => mission.state \in RunStates
        /\ FirstStep(c) = "notify" => mission.state = "Completed"
  BY DEF FirstStep, RunnerOps
<1>5. Op[c] \in HumanOps \cup RunnerOps
  BY RuntimeAssumption
<1> QED
  BY <1>1, <1>2, <1>3, <1>4, <1>5 DEF HumanOps, PlanOps, Runner

\* Loading the mission keeps the invariant.
LEMMA BeginInv ==
    ASSUME IndInv, [Next]_vars, NEW c \in Calls, Begin(c) \/ BeginTooLate(c)
    PROVE  IndInv'
<1>1. TypeOK /\ RecordOK(mission)
  BY DEF IndInv
<1>2. OnlyCall(c) /\ UNCHANGED <<mission, stores>>
  BY <1>1 DEF Begin, BeginTooLate, Hold, Goto, OnlyCall, TypeOK
<1>3. CASE Begin(c)
  <2>1. copy'[c] = Loaded(c) /\ pc'[c] = FirstStep(c)
    BY <1>1, <1>3 DEF Begin, Hold, Goto, TypeOK
  <2>2. RecordOK(copy[c])'
    <3>1. Consistent(Loaded(c), approvals, events, artifacts, passed)
      BY <1>1, LoadedFacts, Zenon
      DEF RecordOK, Consistent, ApprovedUnder, TypeOK
    <3> QED
      BY <2>1, <3>1, <1>2 DEF RecordOK, stores
  <2>3. StepOK(c)'
    <3>1. mission.approval # None => mission.approval \in Approvals
      BY <1>1 DEF TypeOK, MissionRecord
    <3>2. mission.state = "Completed" => "Completed" \in events'
      BY <1>1, <1>2 DEF RecordOK, Consistent, stores
    <3>3. /\ copy'[c].state = mission.state
          /\ copy'[c].approval = mission.approval
      BY <2>1, <1>1, LoadedFacts DEF TypeOK
    <3> QED
      BY <2>1, <3>1, <3>2, <3>3, FirstStepFacts
      DEF StepOK, WritingPC, PlanStates, Runner, PlanOps, RunnerOps
  <2> QED
    BY <1>2, <2>2, <2>3, LocalInv
<1>4. CASE BeginTooLate(c)
  <2>1. copy'[c] = mission /\ pc'[c] = "announceFail"
    BY <1>1, <1>4 DEF BeginTooLate, Hold, Goto, TypeOK
  <2>2. RecordOK(copy[c])'
    BY <2>1, <1>1, <1>2 DEF RecordOK, stores
  <2>3. StepOK(c)'
    BY <2>1 DEF StepOK, WritingPC
  <2> QED
    BY <1>2, <2>2, <2>3, LocalInv
<1> QED
  BY <1>3, <1>4

\* Every blind save keeps the invariant: the copy was consistent.
LEMMA SavingInv ==
    ASSUME IndInv, [Next]_vars, NEW c \in Calls,
           SaveAndReturn(c) \/ SaveFinal(c) \/ SaveAttach(c) \/ SaveError(c)
              \/ SaveFail(c) \/ SaveOutage(c) \/ SaveModel(c) \/ SaveWork(c)
              \/ SaveAdvance(c)
    PROVE  IndInv'
<1> USE DEF SaveMission
<1>1. TypeOK /\ RecordOK(copy[c]) /\ StepOK(c)
  BY DEF IndInv
<1>2. mission' = copy[c] /\ UNCHANGED <<copy, stores>>
  BY DEF SaveAndReturn, SaveFinal, SaveAttach, SaveError, SaveFail, SaveOutage,
         SaveModel, SaveWork, SaveAdvance
<1>3. PICK next : Goto(c, next)
  BY DEF SaveAndReturn, SaveFinal, SaveAttach, SaveError, SaveFail, SaveOutage,
         SaveModel, SaveWork, SaveAdvance
<1>4. pc'[c] = next
  BY <1>1, <1>3 DEF Goto, TypeOK
<1>5. StepOK(c)'
  <2>1. CASE SaveAndReturn(c) \/ SaveAttach(c) \/ SaveError(c) \/ SaveFail(c)
                \/ SaveOutage(c)
    <3>1. pc'[c] \in {"done", "announceFail", "raised"}
      BY <2>1, <1>1 DEF SaveAndReturn, SaveAttach, SaveError, SaveFail,
         SaveOutage, Goto, TypeOK
    <3> QED
      BY <3>1 DEF StepOK, WritingPC
  <2>2. CASE SaveFinal(c)
    <3>1. pc'[c] \in {"done", "notify"}
          /\ (pc'[c] = "notify" => copy[c].state = "Completed")
      BY <2>2, <1>1 DEF SaveFinal, Goto, TypeOK
    <3>2. pc'[c] = "notify" => "Completed" \in events'
      BY <3>1, <1>1, <1>2 DEF RecordOK, Consistent, stores
    <3> QED
      BY <3>1, <3>2 DEF StepOK, WritingPC
  <2>3. CASE SaveModel(c)
    <3>1. pc[c] = "saveModel" /\ pc'[c] = "probe" /\ copy'[c] = copy[c]
      BY <2>3, <1>1 DEF SaveModel, Goto, TypeOK
    <3> QED
      BY <3>1, <1>1 DEF StepOK, WritingPC, Runner, RunnerOps, PlanOps
  <2>4. CASE SaveWork(c)
    <3>1. pc[c] = "saveWork" /\ pc'[c] = "announce" /\ copy'[c] = copy[c]
      BY <2>4, <1>1 DEF SaveWork, Goto, TypeOK
    <3> QED
      BY <3>1, <1>1 DEF StepOK, WritingPC, Runner, RunnerOps, PlanOps
  <2>5. CASE SaveAdvance(c)
    <3>1. pc[c] = "saveAdvance" /\ pc'[c] = AfterAdvance(c) /\ copy'[c] = copy[c]
      BY <2>5, <1>1 DEF SaveAdvance, Goto, TypeOK
    <3>2. /\ AfterAdvance(c) \in {"done", "work", "attach", "spawn", "final"}
          /\ Op[c] \in PlanOps /\ AfterAdvance(c) = "work" =>
                copy[c].state # "Approval"
          /\ Runner(c) /\ AfterAdvance(c) = "work" =>
                copy[c].state \notin SettledStates
      BY DEF AfterAdvance, PlanOps, Runner, RunnerOps
    <3> QED
      BY <3>1, <3>2, <1>1 DEF StepOK, WritingPC, SettledStates
  <2> QED
    BY <2>1, <2>2, <2>3, <2>4, <2>5
<1> QED
  BY <1>2, <1>3, <1>5, SaveInv

\* A record that does not claim to be approved may change its other fields.
LEMMA Unapproved ==
    ASSUME NEW r, NEW q, NEW st, NEW ev, NEW art, NEW pa,
           Consistent(r, st, ev, art, pa),
           q.state = r.state, q.result = r.result,
           r.state \notin RunStates \cup {"Completed"}
    PROVE  Consistent(q, st, ev, art, pa)
BY DEF Consistent

\* The planning stages keep the invariant.
LEMMA PlanWorkInv ==
    ASSUME IndInv, [Next]_vars, NEW c \in Calls, PlanWork(c)
    PROVE  IndInv'
<1>1. /\ TypeOK /\ RecordOK(mission) /\ RecordOK(copy[c]) /\ StepOK(c)
      /\ copy[c] \in MissionRecord
  BY DEF IndInv, TypeOK
<1>2. copy[c].state \in PlanStates /\ Op[c] \in PlanOps
  BY <1>1 DEF PlanWork, StepOK
<1>3. Grow
  BY <1>1 DEF PlanWork, Grow, GrantedStatus, TypeOK
<1>4. /\ OnlyCall(c) /\ pc'[c] = "announce"
      /\ UNCHANGED <<events, artifacts, passed, report, notices>>
  BY <1>1 DEF PlanWork, Goto, Hold, OnlyCall, TypeOK
<1> DEFINE drafted == [copy[c] EXCEPT !.contract = "draft"]
<1>5. drafted.state = copy[c].state /\ drafted.result = copy[c].result
  BY <1>1 DEF MissionRecord
<1>6. ASSUME NEW a \in Approvals
      PROVE  /\ [copy[c] EXCEPT !.approval = a].state = copy[c].state
             /\ [copy[c] EXCEPT !.approval = a].result = copy[c].result
  BY <1>1 DEF MissionRecord
<1>7. /\ copy'[c].state = copy[c].state
      /\ copy'[c].result = copy[c].result
  BY <1>1, <1>5, <1>6 DEF PlanWork, Hold, TypeOK
<1>8. \/ mission' = mission
      \/ mission'.state = copy[c].state /\ mission'.result = copy[c].result
  BY <1>5 DEF PlanWork
<1>9. copy[c].state \notin RunStates \cup {"Completed"}
  BY <1>2 DEF PlanStates, RunStates
<1>10. Consistent(copy[c], approvals', events', artifacts', passed')
  BY <1>1, <1>3, RecordKept
<1>11. RecordOK(copy[c])'
  BY <1>7, <1>9, <1>10, Unapproved DEF RecordOK
<1>12. RecordOK(mission)'
  BY <1>1, <1>3, <1>8, <1>9, <1>10, Unapproved, RecordKept DEF RecordOK
<1>13. StepOK(c)'
  BY <1>2, <1>4, <1>7 DEF StepOK, WritingPC, Runner, RunnerOps, PlanOps
<1>14. StoreInv'
  <2>1. \A a \in Approvals : approvals[a] = "consumed" => approvals'[a] = "consumed"
    BY <1>3 DEF Grow
  <2> QED
    BY <1>4, <2>1 DEF IndInv, StoreInv, ReportWasAuthorised, NotifiedOnce
<1> QED
  BY <1>3, <1>4, <1>11, <1>12, <1>13, <1>14, OneCall

\* Every transition of plan, approve, rollback and run keeps the invariant.
LEMMA AnnounceInv ==
    ASSUME IndInv, [Next]_vars, NEW c \in Calls,
           PlanAnnounce(c) \/ ApproveAnnounce(c) \/ RollbackAnnounce(c)
              \/ FailAnnounce(c) \/ RunAnnounce(c)
    PROVE  IndInv'
<1>1. /\ TypeOK /\ RecordOK(copy[c]) /\ StepOK(c)
      /\ copy[c] \in MissionRecord
  BY DEF IndInv, TypeOK
<1>2. ASSUME NEW target, NEW next, Transition(c, target, next)
      PROVE  pc'[c] = next /\ copy'[c].state = target
  BY <1>1, <1>2 DEF Transition, Goto, Hold, TypeOK, MissionRecord
<1>3. CASE PlanAnnounce(c)
  <2> DEFINE target == NextStage[copy[c].state]
  <2>1. copy[c].state \in PlanStates /\ Op[c] \in PlanOps
    BY <1>1, <1>3 DEF PlanAnnounce, StepOK
  <2>2. target \in (PlanStates \cup {"Approval"})
    BY <2>1, NextStageFacts DEF PlanStates
  <2>3. Earned(target) = {} /\ target \notin RunStates \cup {"Completed"}
    BY <2>2, EarnedFacts DEF PlanStates, RunStates, MissionState
  <2>4. Transition(c, target, "saveAdvance")
    BY <1>3 DEF PlanAnnounce
  <2>5. pc'[c] = "saveAdvance" /\ copy'[c].state = target
    BY <2>4, <1>2
  <2> HIDE DEF target
  <2>6. StepOK(c)'
    BY <2>1, <2>2, <2>5 DEF StepOK, WritingPC, Runner, RunnerOps, PlanOps
  <2> QED
    BY <2>3, <2>4, <2>6, TransitionInv
<1>4. CASE ApproveAnnounce(c)
  <2>1. CASE pc[c] = "announce" /\ Transition(c, "Execution", "saveAdvance")
    <3>1. ApprovedUnder(copy[c], approvals)
      BY <1>1, <1>4, <2>1 DEF ApproveAnnounce, StepOK
    <3>2. StepOK(c)'
      BY <1>2, <1>4, <2>1
      DEF ApproveAnnounce, StepOK, WritingPC, Runner, RunnerOps, PlanOps
    <3>3. Earned("Execution") = {}
      BY EarnedFacts DEF MissionState, RunStates
    <3> QED
      BY <2>1, <3>1, <3>2, <3>3, TransitionInv
  <2>2. CASE Transition(c, "Blocked", "saveAdvance")
    <3>1. StepOK(c)'
      BY <1>2, <1>4, <2>2
      DEF ApproveAnnounce, StepOK, WritingPC, Runner, RunnerOps, PlanOps
    <3>2. Earned("Blocked") = {} /\ "Blocked" \notin RunStates \cup {"Completed"}
      BY EarnedFacts DEF MissionState, SettledStates, RunStates
    <3> QED
      BY <2>2, <3>1, <3>2, TransitionInv
  <2> QED
    BY <1>4, <2>1, <2>2 DEF ApproveAnnounce
<1>5. CASE RollbackAnnounce(c)
  <2>1. StepOK(c)'
    BY <1>2, <1>5
    DEF RollbackAnnounce, StepOK, WritingPC, Runner, RunnerOps, PlanOps
  <2>2. Earned("RolledBack") = {}
        /\ "RolledBack" \notin RunStates \cup {"Completed"}
    BY EarnedFacts DEF MissionState, SettledStates, RunStates
  <2> QED
    BY <1>5, <2>1, <2>2, TransitionInv DEF RollbackAnnounce
<1>6. CASE FailAnnounce(c)
  <2>1. StepOK(c)'
    BY <1>2, <1>6 DEF FailAnnounce, StepOK, WritingPC
  <2>2. Earned("Failed") = {} /\ "Failed" \notin RunStates \cup {"Completed"}
    BY EarnedFacts DEF MissionState, SettledStates, RunStates
  <2> QED
    BY <1>6, <2>1, <2>2, TransitionInv DEF FailAnnounce
<1>7. CASE RunAnnounce(c)
  <2>1. /\ Runner(c) /\ pc[c] = "announce"
        /\ copy[c].state \in RunStates
        /\ Earned(NextStage[copy[c].state]) \ {"passed"} \subseteq copy[c].result
    BY <1>1, <1>7 DEF RunAnnounce, StepOK
  <2>2. ApprovedUnder(copy[c], approvals)
    BY <1>1, <2>1 DEF RecordOK, Consistent
  <2>3. CASE Transition(c, "Blocked", "saveAdvance")
    <3>1. StepOK(c)'
      BY <1>2, <2>1, <2>3 DEF StepOK, WritingPC, Runner, RunnerOps, PlanOps
    <3>2. Earned("Blocked") = {}
      BY EarnedFacts DEF MissionState, SettledStates
    <3> QED
      BY <2>2, <2>3, <3>1, <3>2, TransitionInv
  <2>4. CASE /\ copy[c].state = "Evaluation" => CompletionGate(c)
             /\ Transition(c, NextStage[copy[c].state], "saveAdvance")
    <3> DEFINE target == NextStage[copy[c].state]
    <3>1. target \in RunStates \cup {"Completed"}
      BY <2>1, NextStageFacts DEF RunStates
    <3>2. Earned(target) \subseteq copy[c].result
      <4>1. CASE copy[c].state = "Evaluation"
        BY <2>1, <2>4, <4>1 DEF CompletionGate
      <4>2. CASE copy[c].state # "Evaluation"
        <5>1. target \in {"Verification", "Evidence", "MemoryPatch", "Evaluation"}
          BY <2>1, <4>2, NextStageFacts DEF RunStates
        <5>2. "passed" \notin Earned(target)
          BY <5>1, EarnedFacts
        <5> QED
          BY <2>1, <5>2
      <4> QED
        BY <4>1, <4>2
    <3>3. pc'[c] = "saveAdvance" /\ copy'[c].state = target
      BY <2>4, <1>2
    <3>4. Transition(c, target, "saveAdvance")
      BY <2>4
    <3> HIDE DEF target
    <3>5. StepOK(c)'
      BY <2>1, <3>1, <3>3 DEF StepOK, WritingPC, Runner, RunnerOps, PlanOps
    <3> QED
      BY <2>2, <3>2, <3>4, <3>5, TransitionInv
  <2> QED
    BY <1>7, <2>3, <2>4 DEF RunAnnounce
<1> QED
  BY <1>3, <1>4, <1>5, <1>6, <1>7

\* Binding the mission to a conversation keeps the invariant.
LEMMA AttachInv ==
    ASSUME IndInv, [Next]_vars, NEW c \in Calls, Attach(c)
    PROVE  IndInv'
<1>1. TypeOK /\ RecordOK(mission)
  BY DEF IndInv
<1>2. OnlyCall(c) /\ UNCHANGED <<mission, stores>>
  BY <1>1 DEF Attach, Hold, Goto, OnlyCall, TypeOK
<1>3. copy'[c] = [mission EXCEPT !.background = TRUE] /\ pc'[c] = "saveAttach"
  BY <1>1 DEF Attach, Hold, Goto, TypeOK
<1>4. /\ copy'[c].state = mission.state
      /\ copy'[c].contract = mission.contract
      /\ copy'[c].approval = mission.approval
      /\ copy'[c].result = mission.result
  BY <1>1, <1>3 DEF TypeOK, MissionRecord
<1>5. Consistent(copy'[c], approvals, events, artifacts, passed)
  BY <1>1, <1>4, Zenon DEF RecordOK, Consistent, ApprovedUnder
<1>6. RecordOK(copy[c])'
  BY <1>2, <1>5 DEF RecordOK, stores
<1>7. StepOK(c)'
  BY <1>3 DEF StepOK, WritingPC
<1> QED
  BY <1>2, <1>6, <1>7, LocalInv

\* Deciding the approval keeps the invariant.
LEMMA DecideInv ==
    ASSUME IndInv, [Next]_vars, NEW c \in Calls, Decide(c)
    PROVE  IndInv'
<1> DEFINE a == copy[c].approval
<1>1. /\ TypeOK /\ RecordOK(mission) /\ RecordOK(copy[c]) /\ StepOK(c)
      /\ copy[c] \in MissionRecord
  BY DEF IndInv, TypeOK
<1>2. Op[c] = "approve" /\ pc[c] = "decide" /\ a \in Approvals
  BY <1>1 DEF Decide, StepOK
<1>3. \/ approvals' = approvals
      \/ /\ approvals[a] = "pending"
         /\ \E v : approvals' = [approvals EXCEPT ![a] = v]
  BY DEF Decide
<1>4. Grow
  <2>1. \A b \in Approvals : approvals[b] # "pending" => approvals'[b] = approvals[b]
    BY <1>1, <1>3 DEF TypeOK
  <2> QED
    BY <2>1 DEF Decide, Grow, GrantedStatus
<1>5. /\ OnlyCall(c) /\ mission' = mission
      /\ UNCHANGED <<events, artifacts, passed, report, notices>>
  BY <1>1 DEF Decide, Hold, Goto, OnlyCall, TypeOK
<1>6. RecordOK(mission)'
  BY <1>1, <1>4, <1>5, RecordKept DEF RecordOK
<1>7. Consistent(copy[c], approvals', events', artifacts', passed')
  BY <1>1, <1>4, RecordKept
<1>8. /\ copy'[c].state = copy[c].state
      /\ copy'[c].approval = copy[c].approval
      /\ copy'[c].result = copy[c].result
      /\ copy'[c].contract \in {copy[c].contract, "approved"}
  BY <1>1 DEF Decide, Hold, TypeOK, MissionRecord
<1>9. RecordOK(copy[c])'
  BY <1>7, <1>8 DEF RecordOK, Consistent, ApprovedUnder
<1>10. pc'[c] \in {"raised", "announce", "reject", "save"}
  BY <1>1 DEF Decide, Goto, TypeOK
<1>11. ASSUME pc'[c] = "announce"
       PROVE  copy'[c].contract = "approved" /\ approvals'[a] = "approved"
  <2>1. PICK status \in {"approved", "paused", "changes_requested", "rejected"} :
           /\ approvals' = [approvals EXCEPT ![a] = status]
           /\ Granted(status)
           /\ Hold(c, [copy[c] EXCEPT !.contract = "approved"])
    BY <1>1, <1>11 DEF Decide, Goto, TypeOK
  <2> QED
    BY <1>1, <1>2, <2>1 DEF Granted, Hold, TypeOK, MissionRecord
<1>12. StepOK(c)'
  <2>1. pc'[c] = "announce" => ApprovedUnder(copy[c], approvals)'
    BY <1>2, <1>8, <1>11 DEF ApprovedUnder, GrantedStatus
  <2> QED
    BY <1>2, <1>10, <2>1 DEF StepOK, WritingPC, Runner, RunnerOps, PlanOps
<1>13. StoreInv'
  <2>1. \A b \in Approvals : approvals[b] = "consumed" => approvals'[b] = "consumed"
    BY <1>4 DEF Grow
  <2> QED
    BY <1>5, <2>1 DEF IndInv, StoreInv, ReportWasAuthorised, NotifiedOnce
<1> QED
  BY <1>4, <1>5, <1>6, <1>9, <1>12, <1>13, OneCall

\* Steps that start or end threads change only program counters, to values
\* that say nothing about the copies.
LEMMA ThreadInv ==
    ASSUME IndInv, [Next]_vars,
           UNCHANGED <<mission, copy, stores>>,
           \A d \in Calls : pc'[d] \in {pc[d], "done", "load", "crashed"}
    PROVE  IndInv'
<1>1. TypeOK'
  BY TypeStep DEF IndInv
<1>2. Grow
  BY DEF stores, Grow
<1>3. RecordOK(mission)'
  BY <1>2, RecordKept DEF RecordOK, IndInv
<1>4. StoreInv'
  BY DEF stores, IndInv, StoreInv, ReportWasAuthorised, NotifiedOnce
<1>5. ASSUME NEW d \in Calls
      PROVE  RecordOK(copy[d])' /\ StepOK(d)'
  <2>1. RecordOK(copy[d]) /\ StepOK(d) /\ copy'[d] = copy[d]
    BY DEF IndInv
  <2>2. RecordOK(copy[d])'
    BY <1>2, <2>1, RecordKept DEF RecordOK
  <2>3. ASSUME pc'[d] = pc[d] PROVE StepOK(d)'
    BY <1>2, <2>1, <2>3, StepKept
  <2>4. ASSUME pc'[d] \in {"done", "load", "crashed"} PROVE StepOK(d)'
    BY <2>4 DEF StepOK, WritingPC
  <2>5. pc'[d] = pc[d] \/ pc'[d] \in {"done", "load", "crashed"}
    OBVIOUS
  <2> QED
    BY <2>2, <2>3, <2>4, <2>5
<1> QED
  BY <1>1, <1>3, <1>4, <1>5 DEF IndInv

\* Starting a thread, a crash and a restart keep the invariant.
LEMMA ProcessInv ==
    ASSUME IndInv, [Next]_vars,
           (\E c \in Calls : Spawn(c)) \/ Crash \/ Restart
    PROVE  IndInv'
<1>1. TypeOK
  BY DEF IndInv
<1>2. CASE \E c \in Calls : Spawn(c)
  <2>1. PICK c \in Calls : Spawn(c)
    BY <1>2
  <2>2. \A d \in Calls : pc'[d] \in {pc[d], "done", "load", "crashed"}
    BY <1>1, <2>1 DEF Spawn, Goto, TypeOK
  <2> QED
    BY <2>1, <2>2, ThreadInv DEF Spawn
<1>3. CASE Crash
  <2>1. \A d \in Calls : pc'[d] \in {pc[d], "done", "load", "crashed"}
    BY <1>3 DEF Crash, Live
  <2>2. UNCHANGED <<mission, copy, stores>>
    BY <1>3, Zenon DEF Crash
  <2> QED
    BY <2>1, <2>2, ThreadInv
<1>4. CASE Restart
  <2>1. \A d \in Calls : pc'[d] \in {pc[d], "done", "load", "crashed"}
    BY <1>1, <1>4 DEF Restart, TypeOK
  <2> QED
    BY <1>4, <2>1, ThreadInv DEF Restart
<1> QED
  BY <1>2, <1>3, <1>4

\* The steps of a run that touch nothing but its copy, and the probe.
LEMMA ModelInv ==
    ASSUME IndInv, [Next]_vars, NEW c \in Calls,
           StageRaises(c) \/ UseSavedModel(c) \/ CallModel(c) \/ Probe(c)
    PROVE  IndInv'
<1>1. /\ TypeOK /\ RecordOK(mission) /\ RecordOK(copy[c]) /\ StepOK(c)
      /\ copy[c] \in MissionRecord /\ copy[c].result \subseteq Results
  BY DEF IndInv, TypeOK, MissionRecord
<1> DEFINE r == copy[c].result
<1>2. /\ Earned(copy[c].state) \subseteq r
      /\ r \cap Keyed \subseteq artifacts
      /\ "passed" \in r => passed
  BY <1>1, Zenon DEF RecordOK, Consistent
<1>3. ASSUME NEW v, v \in {r \cup {"error"}, r \cup {"recovery"}}
      PROVE  Consistent([copy[c] EXCEPT !.result = v],
                        approvals, events, artifacts, passed)
  <2>1. Earned(copy[c].state) \subseteq v /\ v \cap Keyed \subseteq artifacts
    BY <1>2, <1>3 DEF Keyed
  <2>2. "passed" \in v => passed
    BY <1>2, <1>3
  <2> QED
    BY <1>1, <2>1, <2>2, WithResult DEF RecordOK
<1>4. CASE StageRaises(c)
  <2>1. /\ OnlyCall(c) /\ UNCHANGED <<mission, stores>>
        /\ copy'[c] = [copy[c] EXCEPT !.result = r \cup {"error"}]
        /\ pc'[c] = "saveError"
    BY <1>1, <1>4 DEF StageRaises, Hold, Goto, OnlyCall, TypeOK
  <2>2. RecordOK(copy[c])'
    BY <1>3, <2>1 DEF RecordOK, stores
  <2>3. StepOK(c)'
    BY <2>1 DEF StepOK, WritingPC
  <2> QED
    BY <2>1, <2>2, <2>3, LocalInv
<1>5. CASE UseSavedModel(c)
  <2>1. /\ OnlyCall(c) /\ UNCHANGED <<mission, stores>>
        /\ copy'[c] = copy[c] /\ pc'[c] = "probe"
    BY <1>1, <1>5 DEF UseSavedModel, Goto, OnlyCall, TypeOK
  <2>2. RecordOK(copy[c])'
    BY <1>1, <2>1 DEF RecordOK, stores
  <2>3. StepOK(c)'
    BY <1>5, <2>1
    DEF UseSavedModel, At, StepOK, WritingPC, Runner, RunnerOps, PlanOps
  <2> QED
    BY <2>1, <2>2, <2>3, LocalInv
<1>6. CASE CallModel(c)
  <2>1. /\ OnlyCall(c) /\ UNCHANGED <<mission, stores>>
        /\ Runner(c) /\ copy[c].state = "Execution"
    BY <1>1, <1>6 DEF CallModel, At, Hold, Goto, OnlyCall, TypeOK
  <2>2. CASE /\ Hold(c, [copy[c] EXCEPT !.result = r \cup {"recovery"}])
             /\ Goto(c, "saveOutage")
    <3>1. /\ copy'[c] = [copy[c] EXCEPT !.result = r \cup {"recovery"}]
          /\ pc'[c] = "saveOutage"
      BY <1>1, <2>2 DEF Hold, Goto, TypeOK
    <3>2. RecordOK(copy[c])'
      BY <1>3, <2>1, <3>1 DEF RecordOK, stores
    <3>3. StepOK(c)'
      BY <3>1 DEF StepOK, WritingPC
    <3> QED
      BY <2>1, <3>2, <3>3, LocalInv
  <2>3. CASE /\ Hold(c, [copy[c] EXCEPT !.result =
                            (r \cup {"model"}) \ {"recovery"}])
             /\ Goto(c, "saveModel")
    <3> DEFINE v == (r \cup {"model"}) \ {"recovery"}
    <3>1. /\ copy'[c] = [copy[c] EXCEPT !.result = v]
          /\ pc'[c] = "saveModel"
      BY <1>1, <2>3 DEF Hold, Goto, TypeOK
    <3>2. Earned(copy[c].state) \subseteq v /\ v \cap Keyed \subseteq artifacts
      BY <1>2, <2>1, EarnedFacts DEF Keyed, MissionState, RunStates
    <3>3. "passed" \in v => passed
      BY <1>2
    <3>4. Consistent([copy[c] EXCEPT !.result = v],
                     approvals, events, artifacts, passed)
      BY <1>1, <3>2, <3>3, WithResult DEF RecordOK
    <3>5. RecordOK(copy[c])'
      BY <2>1, <3>1, <3>4 DEF RecordOK, stores
    <3>6. copy'[c].state = "Execution" /\ "model" \in copy'[c].result
      BY <1>1, <2>1, <3>1 DEF MissionRecord
    <3>7. StepOK(c)'
      BY <2>1, <3>1, <3>6 DEF StepOK, WritingPC, Runner, RunnerOps, PlanOps
    <3> QED
      BY <2>1, <3>5, <3>7, LocalInv
  <2> QED
    BY <1>6, <2>2, <2>3 DEF CallModel
<1>7. CASE Probe(c)
  <2>1. OnlyCall(c) /\ UNCHANGED stores
    BY <1>1, <1>7 DEF Probe, Hold, Goto, OnlyCall, TypeOK
  <2>2. CASE Goto(c, "lease") /\ UNCHANGED copy
    <3>1. copy'[c] = copy[c] /\ pc[c] = "probe" /\ pc'[c] = "lease"
      BY <1>1, <1>7, <2>2 DEF Probe, Goto, TypeOK
    <3>2. StepOK(c)'
      BY <1>1, <3>1 DEF StepOK, WritingPC, Runner, RunnerOps, PlanOps
    <3>3. CASE UNCHANGED mission
      <4>1. RecordOK(copy[c])'
        BY <1>1, <2>1, <3>1 DEF RecordOK, stores
      <4> QED
        BY <2>1, <3>2, <3>3, <4>1, LocalInv
    <3>4. CASE mission' = copy[c]
      BY <2>1, <2>2, <3>2, <3>4, SaveInv
    <3> QED
      BY <1>7, <2>2, <3>3, <3>4 DEF Probe
  <2>3. CASE /\ Hold(c, [copy[c] EXCEPT !.result = r \cup {"error"}])
             /\ Goto(c, "saveError")
             /\ UNCHANGED mission
    <3>1. /\ copy'[c] = [copy[c] EXCEPT !.result = r \cup {"error"}]
          /\ pc'[c] = "saveError"
      BY <1>1, <2>3 DEF Hold, Goto, TypeOK
    <3>2. RecordOK(copy[c])'
      BY <1>3, <2>1, <3>1 DEF RecordOK, stores
    <3>3. StepOK(c)'
      BY <3>1 DEF StepOK, WritingPC
    <3> QED
      BY <2>1, <2>3, <3>2, <3>3, LocalInv
  <2> QED
    BY <1>7, <2>2, <2>3 DEF Probe
<1> QED
  BY <1>4, <1>5, <1>6, <1>7

\* The report tool, under the lease.
LEMMA WriteInv ==
    ASSUME IndInv, [Next]_vars, NEW c \in Calls,
           AcquireLease(c) \/ Authorise(c) \/ WriteReport(c)
              \/ WriteRaises(c) \/ RecordReport(c) \/ ReleaseLease(c)
    PROVE  IndInv'
<1> DEFINE a == copy[c].approval
           r == copy[c].result
<1>1. /\ TypeOK /\ RecordOK(mission) /\ RecordOK(copy[c]) /\ StepOK(c)
      /\ copy[c] \in MissionRecord /\ StoreInv
  BY DEF IndInv, TypeOK
<1>2. /\ Runner(c) /\ copy[c].state = "Execution" /\ "model" \in r
  BY <1>1 DEF AcquireLease, Authorise, WriteReport, WriteRaises,
        RecordReport, ReleaseLease,
     StepOK, WritingPC
<1>3. a \in Approvals
  BY <1>1, <1>2 DEF RecordOK, Consistent, ApprovedUnder, RunStates
<1>4. \/ approvals' = approvals
      \/ /\ MayWrite(approvals[a])
         /\ approvals' = [approvals EXCEPT ![a] = "consumed"]
  BY DEF AcquireLease, Authorise, WriteReport, WriteRaises,
        RecordReport, ReleaseLease
<1>5. /\ events' = events /\ artifacts \subseteq artifacts' /\ passed' = passed
      /\ notices' = notices /\ mission' = mission /\ OnlyCall(c)
  BY <1>1 DEF AcquireLease, Authorise, WriteReport, WriteRaises,
        RecordReport, ReleaseLease,
     Hold, Goto, OnlyCall, TypeOK
<1>6. report => report'
  BY Zenon DEF AcquireLease, Authorise, WriteReport, WriteRaises,
        RecordReport, ReleaseLease
<1>7. Grow
  <2>1. \A b \in Approvals :
           /\ approvals[b] \in GrantedStatus => approvals'[b] \in GrantedStatus
           /\ approvals[b] = "consumed" => approvals'[b] = "consumed"
    BY <1>1, <1>3, <1>4 DEF GrantedStatus, TypeOK
  <2> QED
    BY <1>5, <1>6, <2>1 DEF Grow
<1>8. RecordOK(mission)'
  BY <1>1, <1>5, <1>7, RecordKept DEF RecordOK
<1>9. Consistent(copy[c], approvals', events', artifacts', passed')
  BY <1>1, <1>7, RecordKept
<1>10. \A b \in Approvals : approvals[b] = "consumed" => approvals'[b] = "consumed"
  BY <1>7 DEF Grow
<1>11. CASE AcquireLease(c)
  <2>1. /\ copy'[c] = copy[c] /\ pc'[c] = "authorise"
        /\ UNCHANGED <<approvals, artifacts, report>>
    BY <1>1, <1>11 DEF AcquireLease, Goto, TypeOK
  <2>2. RecordOK(copy[c])'
    BY <1>9, <2>1 DEF RecordOK
  <2>3. StepOK(c)'
    BY <1>2, <2>1 DEF StepOK, WritingPC, Runner, RunnerOps, PlanOps
  <2>4. StoreInv'
    BY <1>1, <1>5, <2>1 DEF StoreInv, ReportWasAuthorised, NotifiedOnce
  <2> QED
    BY <1>5, <1>7, <1>8, <2>2, <2>3, <2>4, OneCall
<1>12. CASE Authorise(c)
  <2>1. UNCHANGED <<artifacts, report>>
    BY <1>12 DEF Authorise
  <2>2. StoreInv'
    BY <1>1, <1>5, <1>10, <2>1 DEF StoreInv, ReportWasAuthorised, NotifiedOnce
  <2>3. CASE /\ "report" \in artifacts
             /\ Goto(c, "release")
             /\ UNCHANGED copy
    <3>1. copy'[c] = copy[c] /\ pc'[c] = "release"
      BY <1>1, <2>3 DEF Goto, TypeOK
    <3>2. RecordOK(copy[c])'
      BY <1>9, <3>1 DEF RecordOK
    <3>3. StepOK(c)'
      BY <1>2, <2>1, <2>3, <3>1 DEF StepOK, WritingPC, Runner, RunnerOps, PlanOps
    <3> QED
      BY <1>5, <1>7, <1>8, <2>2, <3>2, <3>3, OneCall
  <2>4. CASE /\ approvals' = [approvals EXCEPT ![a] = "consumed"]
             /\ Goto(c, "write")
             /\ UNCHANGED copy
    <3>1. /\ copy'[c] = copy[c] /\ pc'[c] = "write"
          /\ approvals'[a] = "consumed"
      BY <1>1, <1>3, <2>4 DEF Goto, TypeOK
    <3>2. RecordOK(copy[c])'
      BY <1>9, <3>1 DEF RecordOK
    <3>3. StepOK(c)'
      BY <1>2, <3>1 DEF StepOK, WritingPC, Runner, RunnerOps, PlanOps
    <3> QED
      BY <1>5, <1>7, <1>8, <2>2, <3>2, <3>3, OneCall
  <2>5. CASE /\ Hold(c, [copy[c] EXCEPT !.result = r \cup {"error"}])
             /\ Goto(c, "saveError")
    <3>1. /\ copy'[c] = [copy[c] EXCEPT !.result = r \cup {"error"}]
          /\ pc'[c] = "saveError"
      BY <1>1, <2>5 DEF Hold, Goto, TypeOK
    <3>2. /\ Earned(copy[c].state) \subseteq r
          /\ r \cap Keyed \subseteq artifacts'
          /\ "passed" \in r => passed'
      BY <1>9, Zenon DEF Consistent
    <3>3. /\ Earned(copy[c].state) \subseteq r \cup {"error"}
          /\ (r \cup {"error"}) \cap Keyed \subseteq artifacts'
      BY <3>2 DEF Keyed
    <3>4. "passed" \in r \cup {"error"} => passed'
      BY <3>2
    <3>5. RecordOK(copy[c])'
      BY <1>1, <1>9, <3>1, <3>3, <3>4, WithResult DEF RecordOK
    <3>6. StepOK(c)'
      BY <3>1 DEF StepOK, WritingPC
    <3> QED
      BY <1>5, <1>7, <1>8, <2>2, <3>5, <3>6, OneCall
  <2> QED
    BY <1>12, <2>3, <2>4, <2>5 DEF Authorise
<1>13. CASE WriteReport(c)
  <2>1. /\ copy'[c] = copy[c] /\ pc[c] = "write" /\ pc'[c] = "record"
        /\ UNCHANGED <<approvals, artifacts>>
    BY <1>1, <1>13 DEF WriteReport, Goto, TypeOK
  <2>2. report' = TRUE
    BY <1>13, Zenon DEF WriteReport
  <2>3. approvals[a] = "consumed"
    BY <1>1, <2>1 DEF StepOK
  <2>4. RecordOK(copy[c])'
    BY <1>9, <2>1 DEF RecordOK
  <2>5. StepOK(c)'
    BY <1>2, <2>1, <2>2, <2>3 DEF StepOK, WritingPC, Runner, RunnerOps, PlanOps
  <2>6. StoreInv'
    BY <1>1, <1>3, <1>5, <2>1, <2>2, <2>3
    DEF StoreInv, ReportWasAuthorised, NotifiedOnce
  <2> QED
    BY <1>5, <1>7, <1>8, <2>4, <2>5, <2>6, OneCall
<1>16. CASE WriteRaises(c)
  <2>1. /\ copy'[c] = [copy[c] EXCEPT !.result = r \cup {"error"}]
        /\ pc'[c] = "saveError"
        /\ UNCHANGED <<approvals, artifacts, report>>
    BY <1>1, <1>16 DEF WriteRaises, Hold, Goto, TypeOK
  <2>2. /\ Earned(copy[c].state) \subseteq r
        /\ r \cap Keyed \subseteq artifacts'
        /\ "passed" \in r => passed'
    BY <1>9, Zenon DEF Consistent
  <2>3. /\ Earned(copy[c].state) \subseteq r \cup {"error"}
        /\ (r \cup {"error"}) \cap Keyed \subseteq artifacts'
    BY <2>2 DEF Keyed
  <2>4. "passed" \in r \cup {"error"} => passed'
    BY <2>2
  <2>5. RecordOK(copy[c])'
    BY <1>1, <1>9, <2>1, <2>3, <2>4, WithResult DEF RecordOK
  <2>6. StepOK(c)'
    BY <2>1 DEF StepOK, WritingPC
  <2>7. StoreInv'
    BY <1>1, <1>5, <2>1 DEF StoreInv, ReportWasAuthorised, NotifiedOnce
  <2> QED
    BY <1>5, <1>7, <1>8, <2>5, <2>6, <2>7, OneCall
<1>14. CASE RecordReport(c)
  <2>1. /\ copy'[c] = copy[c] /\ pc[c] = "record" /\ pc'[c] = "release"
        /\ UNCHANGED <<approvals, report>>
        /\ artifacts' = artifacts \cup {"report"}
    BY <1>1, <1>14 DEF RecordReport, Goto, TypeOK
  <2>2. report
    BY <1>1, <2>1, Zenon DEF StepOK
  <2>3. RecordOK(copy[c])'
    BY <1>9, <2>1 DEF RecordOK
  <2>4. StepOK(c)'
    BY <1>2, <2>1 DEF StepOK, WritingPC, Runner, RunnerOps, PlanOps
  <2>5. StoreInv'
    BY <1>1, <1>5, <2>1, <2>2 DEF StoreInv, ReportWasAuthorised, NotifiedOnce
  <2> QED
    BY <1>5, <1>7, <1>8, <2>3, <2>4, <2>5, OneCall
<1>15. CASE ReleaseLease(c)
  <2>1. /\ copy'[c] = [copy[c] EXCEPT !.result = r \cup {"report"}]
        /\ pc[c] = "release" /\ pc'[c] = "saveWork"
        /\ UNCHANGED <<approvals, artifacts, report>>
    BY <1>1, <1>15 DEF ReleaseLease, Hold, Goto, TypeOK
  <2>2. "report" \in artifacts
    BY <1>1, <2>1 DEF StepOK
  <2>3. /\ Earned(copy[c].state) \subseteq r
        /\ r \cap Keyed \subseteq artifacts'
        /\ "passed" \in r => passed'
    BY <1>9, Zenon DEF Consistent
  <2>4. /\ Earned(copy[c].state) \subseteq r \cup {"report"}
        /\ (r \cup {"report"}) \cap Keyed \subseteq artifacts'
    BY <2>1, <2>2, <2>3 DEF Keyed
  <2>5. "passed" \in r \cup {"report"} => passed'
    BY <2>3
  <2>6. RecordOK(copy[c])'
    BY <1>1, <1>9, <2>1, <2>4, <2>5, WithResult DEF RecordOK
  <2>7. copy'[c].state = "Execution" /\ copy'[c].result = r \cup {"report"}
    BY <1>1, <1>2, <2>1 DEF MissionRecord
  <2>8. Earned(NextStage["Execution"]) \ {"passed"} \subseteq copy'[c].result
    BY <1>2, <2>7, NextStageFacts, EarnedFacts
  <2>9. StepOK(c)'
    BY <1>2, <2>1, <2>7, <2>8
    DEF StepOK, WritingPC, Runner, RunnerOps, PlanOps, RunStates
  <2>10. StoreInv'
    BY <1>1, <1>5, <2>1 DEF StoreInv, ReportWasAuthorised, NotifiedOnce
  <2> QED
    BY <1>5, <1>7, <1>8, <2>6, <2>9, <2>10, OneCall
<1> QED
  BY <1>11, <1>12, <1>13, <1>14, <1>15, <1>16

\* A later stage of a run adds its keyed record to the store and its result
\* to the copy, and is then ready to advance.
LEMMA StageInv ==
    ASSUME IndInv, [Next]_vars, NEW c \in Calls, NEW stage \in RunStates,
           NEW v, At(c, stage),
           copy' = [copy EXCEPT ![c] = [copy[c] EXCEPT !.result = v]],
           Goto(c, "saveWork"),
           UNCHANGED <<mission, approvals, events, report, notices>>,
           artifacts \subseteq artifacts', passed => passed',
           "report" \in artifacts' => "report" \in artifacts,
           passed' => "evaluation" \in artifacts',
           Earned(stage) \subseteq v, v \cap Keyed \subseteq artifacts',
           "passed" \in v => passed',
           Earned(NextStage[stage]) \ {"passed"} \subseteq v
    PROVE  IndInv'
<1>1. /\ TypeOK /\ RecordOK(mission) /\ RecordOK(copy[c]) /\ StoreInv
      /\ copy[c] \in MissionRecord /\ copy[c].state = stage /\ Runner(c)
  BY DEF IndInv, TypeOK, At
<1>2. OnlyCall(c)
  BY <1>1 DEF Goto, OnlyCall, TypeOK
<1>3. Grow
  BY Zenon DEF Grow
<1>4. RecordOK(mission)'
  BY <1>1, <1>3, RecordKept DEF RecordOK
<1>5. Consistent(copy[c], approvals', events', artifacts', passed')
  BY <1>1, <1>3, RecordKept
<1>6. /\ copy'[c] = [copy[c] EXCEPT !.result = v]
      /\ pc'[c] = "saveWork"
  BY <1>1 DEF Goto, TypeOK
<1>7. copy'[c].state = stage /\ copy'[c].result = v
  BY <1>1, <1>6 DEF MissionRecord
<1>8. RecordOK(copy[c])'
  BY <1>1, <1>5, <1>6, WithResult DEF RecordOK
<1>9. StepOK(c)'
  BY <1>1, <1>6, <1>7 DEF StepOK, WritingPC, Runner, RunnerOps, PlanOps
<1>10. StoreInv'
  BY <1>1, Zenon DEF StoreInv, ReportWasAuthorised, NotifiedOnce
<1> QED
  BY <1>2, <1>3, <1>4, <1>8, <1>9, <1>10, OneCall

\* The stages after the report keep the invariant.
LEMMA EvidenceInv ==
    ASSUME IndInv, [Next]_vars, NEW c \in Calls,
           Verify(c) \/ CommitEvidence(c) \/ UpdateMemory(c) \/ Evaluate(c)
    PROVE  IndInv'
<1> DEFINE r == copy[c].result
<1>1. /\ TypeOK /\ RecordOK(copy[c]) /\ StoreInv /\ copy[c] \in MissionRecord
  BY DEF IndInv, TypeOK
<1>2. /\ Earned(copy[c].state) \subseteq r
      /\ r \cap Keyed \subseteq artifacts
      /\ "passed" \in r => passed
      /\ passed => "evaluation" \in artifacts
  BY <1>1, Zenon DEF RecordOK, Consistent, StoreInv
<1>3. ASSUME NEW stage \in {"Verification", "Evidence", "MemoryPatch"},
             NEW key \in {"verification", "result", "memory"},
             Earned(NextStage[stage]) = Earned(stage) \cup {key},
             At(c, stage),
             artifacts' = artifacts \cup {key},
             Hold(c, [copy[c] EXCEPT !.result = r \cup {key}]),
             Goto(c, "saveWork"),
             UNCHANGED <<mission, approvals, events, passed, report, notices>>
      PROVE  IndInv'
  <2> DEFINE v == r \cup {key}
  <2>1. copy[c].state = stage /\ stage \in RunStates
    BY <1>3 DEF At, RunStates
  <2>2. /\ Earned(stage) \subseteq v
        /\ Earned(NextStage[stage]) \ {"passed"} \subseteq v
        /\ v \cap Keyed \subseteq artifacts'
    BY <1>2, <1>3, <2>1
  <2>3. /\ "passed" \in v => passed'
        /\ passed' => "evaluation" \in artifacts'
        /\ passed => passed'
    BY <1>2, <1>3
  <2>4. /\ artifacts \subseteq artifacts'
        /\ "report" \in artifacts' => "report" \in artifacts
    BY <1>3
  <2>5. copy' = [copy EXCEPT ![c] = [copy[c] EXCEPT !.result = v]]
    BY <1>3 DEF Hold
  <2> HIDE DEF v
  <2> QED
    BY <1>3, <2>1, <2>2, <2>3, <2>4, <2>5, StageInv
<1>4. /\ Earned(NextStage["Verification"]) = Earned("Verification") \cup {"verification"}
      /\ Earned(NextStage["Evidence"]) = Earned("Evidence") \cup {"result"}
      /\ Earned(NextStage["MemoryPatch"]) = Earned("MemoryPatch") \cup {"memory"}
  BY EarnedFacts, NextStageFacts
<1>5. CASE Verify(c)
  BY <1>3, <1>4, <1>5 DEF Verify, StoreEvidence
<1>6. CASE CommitEvidence(c)
  BY <1>3, <1>4, <1>6 DEF CommitEvidence, StoreEvidence
<1>7. CASE UpdateMemory(c)
  BY <1>3, <1>4, <1>7 DEF UpdateMemory
<1>8. CASE Evaluate(c)
  <2> DEFINE v == (r \ {"passed"}) \cup {"evaluation"}
                     \cup (IF passed' THEN {"passed"} ELSE {})
  <2>1. copy[c].state = "Evaluation" /\ At(c, "Evaluation") /\ "Evaluation" \in RunStates
    BY <1>8 DEF Evaluate, At, RunStates
  <2>2. "evaluation" \in artifacts' /\ artifacts \subseteq artifacts'
        /\ ("report" \in artifacts' => "report" \in artifacts)
    BY <1>8 DEF Evaluate
  <2>3. passed => passed'
    BY <1>2, <1>8, Zenon DEF Evaluate
  <2>4. "passed" \in v => passed'
    OBVIOUS
  <2>5. /\ Earned("Evaluation") \subseteq v
        /\ Earned(NextStage["Evaluation"]) \ {"passed"} \subseteq v
        /\ v \cap Keyed \subseteq artifacts'
    <3>1. /\ r \ {"passed"} \subseteq v /\ "evaluation" \in v
          /\ v \subseteq r \cup {"evaluation", "passed"}
      OBVIOUS
    <3> HIDE DEF v
    <3> QED
      BY <1>2, <2>1, <2>2, <3>1, EarnedFacts, NextStageFacts DEF Keyed
  <2>6. copy' = [copy EXCEPT ![c] = [copy[c] EXCEPT !.result = v]]
    BY <1>8 DEF Evaluate, Hold
  <2>7. /\ Goto(c, "saveWork")
        /\ UNCHANGED <<mission, approvals, events, report, notices>>
    BY <1>8, Zenon DEF Evaluate
  <2> HIDE DEF v
  <2> QED
    BY <2>1, <2>2, <2>3, <2>4, <2>5, <2>6, <2>7, StageInv
<1> QED
  BY <1>5, <1>6, <1>7, <1>8

\* The notification keeps the invariant.
LEMMA NotifyInv ==
    ASSUME IndInv, [Next]_vars, NEW c \in Calls, Notify(c)
    PROVE  IndInv'
<1>1. TypeOK /\ RecordOK(mission) /\ RecordOK(copy[c]) /\ StepOK(c) /\ StoreInv
  BY DEF IndInv
<1>2. /\ UNCHANGED <<mission, copy, approvals, events, artifacts, passed, report>>
      /\ OnlyCall(c) /\ pc'[c] = "done" /\ pc[c] = "notify"
  BY <1>1 DEF Notify, Goto, OnlyCall, TypeOK
<1>3. Grow
  BY <1>2 DEF Grow
<1>4. RecordOK(mission)' /\ RecordOK(copy[c])'
  BY <1>1, <1>2, <1>3, RecordKept DEF RecordOK
<1>5. StepOK(c)'
  BY <1>2 DEF StepOK, WritingPC
<1>6. "Completed" \in events
  BY <1>1, <1>2 DEF StepOK
<1>7. NotifiedOnce'
  BY <1>1, <1>2, <1>6 DEF Notify, StoreInv, NotifiedOnce, TypeOK
<1>8. StoreInv'
  BY <1>1, <1>2, <1>7 DEF StoreInv, ReportWasAuthorised
<1> QED
  BY <1>2, <1>3, <1>4, <1>5, <1>8, OneCall

-----------------------------------------------------------------------------
(* Theorems *)

\* The invariant holds of a new mission.
LEMMA InitInv == Init => IndInv
<1> SUFFICES ASSUME Init PROVE IndInv
  OBVIOUS
<1>1. NewMission \in MissionRecord
  BY DEF NewMission, MissionRecord, MissionState, PlanStates
<1>2. TypeOK
  BY <1>1, RuntimeAssumption DEF Init, TypeOK, PC, ApprovalStatus
<1>3. StoreInv
  BY DEF Init, StoreInv, ReportWasAuthorised, NotifiedOnce
<1>4. Consistent(NewMission, approvals, events, artifacts, passed)
  <2>1. NewMission.state = "Intent" /\ NewMission.result = {}
    BY DEF NewMission
  <2>2. Earned("Intent") = {}
    BY EarnedFacts DEF MissionState, PlanStates
  <2> QED
    BY <2>1, <2>2 DEF Consistent, RunStates
<1>5. ASSUME NEW c \in Calls PROVE RecordOK(copy[c]) /\ StepOK(c)
  BY <1>4 DEF Init, RecordOK, StepOK, WritingPC
<1> QED
  BY <1>2, <1>3, <1>4, <1>5 DEF IndInv, RecordOK, Init

\* Every step keeps the invariant.
LEMMA NextInv ==
    ASSUME IndInv, [Next]_vars
    PROVE  IndInv'
<1>1. CASE UNCHANGED vars
  BY <1>1, ThreadInv DEF vars
<1>2. CASE Next
  BY <1>2, BeginInv, SavingInv, PlanWorkInv, AnnounceInv, AttachInv, DecideInv,
     ProcessInv, ModelInv, WriteInv, EvidenceInv, NotifyInv DEF Next, Progress
<1> QED
  BY <1>1, <1>2

\* The inductive invariant holds in every reachable state, for any number of
\* concurrent calls of the runtime's operations and any number of crashes.
THEOREM Invariance == Spec => []IndInv
BY InitInv, NextInv, PTL DEF Spec

\* Every variable keeps its type.
THEOREM TypeCorrect == Spec => []TypeOK
<1>1. IndInv => TypeOK
  BY DEF IndInv
<1> QED
  BY <1>1, Invariance, PTL

\* A run that starts from the stored state finds the results of all earlier
\* stages, in the record and in the stores, however blind saves interleave.
THEOREM ResumeTheorem == Spec => []ResumeFindsItsInputs
<1>1. IndInv => ResumeFindsItsInputs
  BY DEF IndInv, StoreInv, RecordOK, Consistent, ResumeFindsItsInputs
<1> QED
  BY <1>1, Invariance, PTL

\* No stored mission executes, or is completed, without an approved contract
\* and a granted approval.
THEOREM ApprovalTheorem == Spec => []ExecutionIsApproved
<1>1. IndInv => ExecutionIsApproved
  BY RuntimeAssumption
  DEF IndInv, RecordOK, Consistent, ApprovedUnder, GrantedStatus,
      ExecutionIsApproved
<1> QED
  BY <1>1, Invariance, PTL

\* A completed mission passed its evaluation, and its report was written
\* under a consumed approval.
THEOREM CompletionTheorem == Spec => []CompletedIsEarned
<1>1. ASSUME IndInv, mission.state = "Completed"
      PROVE  /\ "passed" \in mission.result /\ passed /\ report
             /\ \E a \in Approvals : approvals[a] = "consumed"
  <2>1. /\ Earned("Completed") \subseteq mission.result
        /\ mission.result \cap Keyed \subseteq artifacts
    BY <1>1 DEF IndInv, RecordOK, Consistent
  <2>2. "passed" \in mission.result /\ "report" \in artifacts
    BY <2>1, EarnedFacts DEF Keyed
  <2>3. passed /\ report
    BY <1>1, <2>2, Zenon DEF IndInv, RecordOK, Consistent, StoreInv
  <2> QED
    BY <1>1, <2>2, <2>3 DEF IndInv, StoreInv, ReportWasAuthorised
<1>2. IndInv => CompletedIsEarned
  BY <1>1 DEF CompletedIsEarned
<1> QED
  BY <1>2, Invariance, PTL

\* Every state that can be loaded has been announced by an event.
THEOREM AnnouncedTheorem == Spec => []StateAnnounced
<1>1. IndInv => StateAnnounced
  BY DEF IndInv, RecordOK, Consistent, StateAnnounced
<1> QED
  BY <1>1, Invariance, PTL

\* No report is on disk without a consumed approval.
THEOREM ReportTheorem == Spec => []ReportWasAuthorised
<1>1. IndInv => ReportWasAuthorised
  BY DEF IndInv, StoreInv
<1> QED
  BY <1>1, Invariance, PTL

\* At most one completion notification is sent, and only of a completed mission.
THEOREM NotificationTheorem == Spec => []NotifiedOnce
<1>1. IndInv => NotifiedOnce
  BY DEF IndInv, StoreInv
<1> QED
  BY <1>1, Invariance, PTL
=============================================================================
