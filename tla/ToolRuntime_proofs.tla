------------------------- MODULE ToolRuntime_proofs -------------------------
(***************************************************************************)
(* Theorems about ToolRuntime for any sets of approvals, humans, actors,   *)
(* calls, decisions, keys and arguments.                                   *)
(***************************************************************************)
EXTENDS ToolRuntime, TLAPS

\* The steps of a call that leave the engine's variables alone.
LocalStep(c) ==
    \/ Invoke(c) \/ ValidateApproval(c) \/ ClaimApprovedAction(c)
    \/ AuthoriseReplay(c) \/ ConsumeRead(c) \/ SideEffect(c) \/ SaveRecord(c)
    \/ PublishEvent(c) \/ AddReceipt(c) \/ BindReceipt(c)
    \/ ConsumeCommit(c) /\ UNCHANGED engineVars

\* The step of a call that consumes its approval.
ConsumeStep(c) ==
    /\ pc[c] = "consuming"
    /\ ConsumeCommits(req[c].approval, seen[c])
    /\ Consume(req[c].approval, req[c].actor, req[c].key)
    /\ Goto(c, "authorised")
    /\ UNCHANGED <<req, seen, claimOK, claim, ran, tool, toolEvt, receipt, bound>>

\* A call's step is local or a consumption.
LEMMA CallStepCases ==
    ASSUME NEW c \in Calls, CallStep(c)
    PROVE  (LocalStep(c) /\ UNCHANGED engineVars) \/ ConsumeStep(c)
BY DEF CallStep, LocalStep, ConsumeStep, Invoke, ValidateApproval,
       ClaimApprovedAction, AuthoriseReplay, ConsumeRead, ConsumeCommit,
       SideEffect, SaveRecord, PublishEvent, AddReceipt, BindReceipt

-----------------------------------------------------------------------------
(***************************************************************************)
(* Type correctness.                                                       *)
(***************************************************************************)

\* The engine's steps keep the types of the engine's variables; the shape of
\* a decision waiting to commit is needed for its event.
LEMMA EngineTyping ==
    ASSUME EngineTypeOK, DecideInv, EngineStep
    PROVE  EngineTypeOK'
<1> USE EngineAssumption DEF EngineTypeOK
<1>1. ASSUME NEW a \in Approvals, Request(a) PROVE EngineTypeOK'
  BY <1>1 DEF Request, Undecided, ApprovalRecord, Status
<1>2. ASSUME NEW a \in Approvals, ExpiresAtPasses(a) PROVE EngineTypeOK'
  BY <1>2 DEF ExpiresAtPasses
<1>3. ASSUME NEW d \in Decides, NEW a \in Approvals, NEW x \in Decision,
             NEW h \in Humans, DecideRead(d, a, x, h)
      PROVE  EngineTypeOK'
  <2>1. approval[a] \in ApprovalRecord
    OBVIOUS
  <2>2. DecidePayload(a, x, h) \in ApprovalRecord
    BY <2>1 DEF DecidePayload, ApprovalRecord, Status
  <2>3. [pc |-> "commit", approval |-> a, seen |-> approval[a],
         new |-> DecidePayload(a, x, h)] \in DecideState
    BY <2>1, <2>2 DEF DecideState
  <2>4. decide' \in [Decides -> DecideState]
    BY <1>3, <2>3 DEF DecideRead
  <2> QED
    BY <1>3, <2>4 DEF DecideRead
<1>4. ASSUME NEW d \in Decides, DecideCommit(d) PROVE EngineTypeOK'
  <2>1. /\ decide[d].pc = "commit"
        /\ decide[d].approval \in Approvals
        /\ decide[d].new \in ApprovalRecord
    BY <1>4 DEF DecideCommit, DecideInv, DecideState
  <2>2. approval' \in [Approvals -> ApprovalRecord]
    BY <1>4, <2>1 DEF DecideCommit
  <2>3. decidedEvt' \in [Approvals -> DecidedPayload]
    <3>1. decide[d].new.status # "expired" =>
            [decision |-> decide[d].new.decision,
             actor |-> decide[d].new.decided_by] \in DecidedPayload
      <4>1. CASE decide[d].new = Undecided("expired")
        BY <4>1 DEF Undecided
      <4>2. ASSUME NEW x \in Decision, NEW h \in Humans,
                   decide[d].new = Decided(x, h)
            PROVE  [decision |-> decide[d].new.decision,
                    actor |-> decide[d].new.decided_by] \in DecidedPayload
        BY <4>2 DEF Decided, DecidedPayload
      <4> QED
        BY <2>1, <4>1, <4>2 DEF DecideInv
    <3> QED
      BY <1>4, <2>1, <3>1 DEF DecideCommit
  <2>4. decide' \in [Decides -> DecideState]
    <3>1. \A p \in {"decided", "raised"} :
            [decide[d] EXCEPT !.pc = p] \in DecideState
      BY DEF DecideState
    <3> QED
      BY <1>4, <3>1 DEF DecideCommit
  <2> QED
    BY <1>4, <2>2, <2>3, <2>4 DEF DecideCommit
<1> QED
  BY <1>1, <1>2, <1>3, <1>4 DEF EngineStep

\* Every step of the composition keeps TypeOK.
LEMMA Typing ==
    ASSUME TypeOK, DecideInv, [Next]_vars
    PROVE  TypeOK'
<1> USE EngineAssumption, ToolAssumption
<1>1. CASE EngineStep /\ UNCHANGED toolVars
  BY <1>1, EngineTyping DEF TypeOK, toolVars
<1>2. ASSUME NEW c \in Calls, LocalStep(c), UNCHANGED engineVars
      PROVE  TypeOK'
  <2>1. EngineTypeOK'
    BY <1>2 DEF TypeOK, EngineTypeOK, engineVars
  <2>2. req[c] \in ToolRequest /\ req[c].approval \in Approvals
    BY DEF TypeOK, ToolRequest
  <2>3. ClaimOf(c) \in ClaimRecord
    BY <2>2 DEF ClaimOf, ClaimRecord, ToolRequest
  <2>4. approval[req[c].approval] \in ApprovalRecord
    BY <2>2 DEF TypeOK, EngineTypeOK
  <2>5. /\ pc' \in [Calls -> PC]
        /\ req' \in [Calls -> ToolRequest]
        /\ seen' \in [Calls -> ApprovalRecord]
        /\ ran' \in SUBSET Calls
        /\ tool' \in [Calls -> {"none", "completed", "failed"}]
        /\ toolEvt' \in [Keys -> Calls \cup {None}]
        /\ receipt' \in [Keys -> Calls \cup {None}]
        /\ bound' \in SUBSET Calls
    BY <1>2, <2>4 DEF LocalStep, TypeOK, Goto, PC, Running, Ended, Keyed,
         Invoke, ValidateApproval, ClaimApprovedAction, AuthoriseReplay,
         ConsumeRead, ConsumeCommit, SideEffect, SaveRecord, PublishEvent,
         AddReceipt, BindReceipt
  <2>6. claim' \in [Keys -> ClaimRecord \cup {NoClaim}]
    BY <1>2, <2>3 DEF LocalStep, TypeOK, Keyed,
         Invoke, ValidateApproval, ClaimApprovedAction, AuthoriseReplay,
         ConsumeRead, ConsumeCommit, SideEffect, SaveRecord, PublishEvent,
         AddReceipt, BindReceipt
  <2>7. claimOK' \in [Calls -> BOOLEAN]
    BY <1>2 DEF LocalStep, TypeOK, ClaimHolds,
         Invoke, ValidateApproval, ClaimApprovedAction, AuthoriseReplay,
         ConsumeRead, ConsumeCommit, SideEffect, SaveRecord, PublishEvent,
         AddReceipt, BindReceipt
  <2> QED
    BY <2>1, <2>5, <2>6, <2>7 DEF TypeOK
<1>3. ASSUME NEW c \in Calls, ConsumeStep(c) PROVE TypeOK'
  <2>1. req[c].approval \in Approvals /\ req[c].actor \in Actors
        /\ req[c].key \in Uses
    BY DEF TypeOK, ToolRequest
  <2>2. approval' \in [Approvals -> ApprovalRecord]
    <3>1. \A r \in ApprovalRecord :
            [r EXCEPT !.status = "consumed"] \in ApprovalRecord
      BY DEF ApprovalRecord, Status
    <3> QED
      BY <1>3, <2>1, <3>1 DEF ConsumeStep, Consume, TypeOK, EngineTypeOK
  <2>3. consumedEvt' \in [Approvals -> ConsumedPayload]
    BY <1>3, <2>1 DEF ConsumeStep, Consume, TypeOK, EngineTypeOK,
                      ConsumedPayload
  <2>4. pc' \in [Calls -> PC]
    BY <1>3 DEF ConsumeStep, Goto, TypeOK, PC, Running
  <2> QED
    BY <1>3, <2>2, <2>3, <2>4 DEF ConsumeStep, Consume, TypeOK, EngineTypeOK
<1>4. CASE Crash
  BY <1>4 DEF Crash, TypeOK, EngineTypeOK, DecideState, PC, Ended
<1>5. CASE UNCHANGED vars
  BY <1>5 DEF vars, engineVars, toolVars, TypeOK, EngineTypeOK
<1> QED
  BY <1>1, <1>2, <1>3, <1>4, <1>5, CallStepCases DEF Next

-----------------------------------------------------------------------------
(***************************************************************************)
(* The inductive invariant, conjunct by conjunct.                          *)
(***************************************************************************)

\* An approval's status and its events stay in step: each of the three
\* transactions that change a status also writes the event it needs.
LEMMA HistoryStep ==
    ASSUME IndInv, [Next]_vars
    PROVE  HistoryInv'
<1> USE EngineAssumption
<1>0. TypeOK /\ HistoryInv /\ DecideInv /\ CallInv
  BY DEF IndInv
<1>1. CASE UNCHANGED <<approval, decidedEvt, expiredEvt, consumedEvt>>
  BY <1>0, <1>1 DEF HistoryInv
<1>2. ASSUME NEW a \in Approvals, Request(a) PROVE HistoryInv'
  BY <1>0, <1>2 DEF Request, HistoryInv, Undecided, TypeOK, EngineTypeOK,
                    Decision
<1>3. ASSUME NEW d \in Decides, DecideCommit(d) PROVE HistoryInv'
  <2> DEFINE a == decide[d].approval
             new == decide[d].new
  <2>1. /\ a \in Approvals
        /\ decide[d].seen = Undecided("pending")
        /\ \/ new = Undecided("expired")
           \/ \E x \in Decision, h \in Humans : new = Decided(x, h)
    BY <1>0, <1>3 DEF DecideCommit, DecideInv
  <2>2. CASE approval' = approval /\ decidedEvt' = decidedEvt
    BY <1>0, <1>3, <2>2 DEF DecideCommit, HistoryInv, TypeOK, EngineTypeOK
  <2>3. CASE /\ approval[a] = Undecided("pending")
             /\ approval' = [approval EXCEPT ![a] = new]
             /\ new = Undecided("expired")
             /\ decidedEvt' = decidedEvt
             /\ expiredEvt' = [expiredEvt EXCEPT ![a] = TRUE]
             /\ consumedEvt' = consumedEvt
    BY <1>0, <2>1, <2>3 DEF HistoryInv, Undecided, TypeOK, EngineTypeOK,
                            Decision
  <2>4. ASSUME NEW x \in Decision, NEW h \in Humans,
               approval[a] = Undecided("pending"),
               approval' = [approval EXCEPT ![a] = Decided(x, h)],
               decidedEvt' = [decidedEvt EXCEPT
                                ![a] = [decision |-> x, actor |-> h]],
               expiredEvt' = expiredEvt, consumedEvt' = consumedEvt
        PROVE  HistoryInv'
    BY <1>0, <2>1, <2>4 DEF HistoryInv, Undecided, Decided, TypeOK,
                            EngineTypeOK, Decision
  <2>5. \A x \in Decision, h \in Humans :
          /\ Decided(x, h).status = x /\ Decided(x, h).decision = x
          /\ Decided(x, h).decided_by = h /\ x # "expired"
    BY DEF Decided, Decision
  <2>6. Undecided("expired").status = "expired"
    BY DEF Undecided
  <2> QED
    BY <1>3, <2>1, <2>2, <2>3, <2>4, <2>5, <2>6
       DEF DecideCommit, IntegrityMatches
<1>4. ASSUME NEW c \in Calls, ConsumeStep(c) PROVE HistoryInv'
  <2>1. /\ req[c].approval \in Approvals /\ req[c].actor \in Actors
        /\ req[c].key \in Uses
        /\ Executor[req[c].approval] \in {None, req[c].actor}
        /\ approval[req[c].approval].status = "approved"
    BY <1>0, <1>4 DEF TypeOK, ToolRequest, CallInv, ConsumeStep,
                      ConsumeCommits
  <2> QED
    BY <1>0, <1>4, <2>1 DEF ConsumeStep, Consume, HistoryInv, TypeOK,
         EngineTypeOK, ApprovalRecord, Decision
<1> QED
  BY <1>1, <1>2, <1>3, <1>4, CallStepCases
     DEF Next, EngineStep, ExpiresAtPasses, DecideRead, Crash, vars, engineVars

\* A decision waiting to commit read the approval pending.
LEMMA CommitShape ==
    ASSUME DecideInv, NEW d \in Decides, decide[d].pc = "commit"
    PROVE  /\ decide[d].approval \in Approvals
           /\ decide[d].seen.status = "pending"
           /\ decide[d].new.status \in Decision \cup {"expired"}
<1>1. /\ decide[d].approval \in Approvals
      /\ decide[d].seen = Undecided("pending")
      /\ \/ decide[d].new = Undecided("expired")
         \/ \E x \in Decision, h \in Humans : decide[d].new = Decided(x, h)
  BY DEF DecideInv
<1>2. \A x \in Decision, h \in Humans : Decided(x, h).status = x
  BY DEF Decided
<1>3. /\ Undecided("pending").status = "pending"
      /\ Undecided("expired").status = "expired"
  BY DEF Undecided
<1> QED
  BY <1>1, <1>2, <1>3

\* A status changes only forward: what StatusMovesForward says of one step.
LEMMA ForwardStep ==
    ASSUME IndInv, [Next]_vars, NEW a \in Approvals
    PROVE  LegalMove(approval[a].status, approval'[a].status)
<1> USE EngineAssumption
<1>0. TypeOK /\ HistoryInv /\ DecideInv
  BY DEF IndInv
<1>1. CASE approval' = approval
  BY <1>1 DEF LegalMove
<1>2. ASSUME NEW b \in Approvals, Request(b)
      PROVE  LegalMove(approval[a].status, approval'[a].status)
  BY <1>0, <1>2 DEF Request, LegalMove, Undecided, TypeOK, EngineTypeOK
<1>3. ASSUME NEW d \in Decides, DecideCommit(d)
      PROVE  LegalMove(approval[a].status, approval'[a].status)
  <2>1. /\ decide[d].approval \in Approvals
        /\ decide[d].seen.status = "pending"
        /\ decide[d].new.status \in Decision \cup {"expired"}
    BY <1>0, <1>3, CommitShape DEF DecideCommit
  <2> QED
    BY <1>0, <1>3, <2>1 DEF DecideCommit, IntegrityMatches, LegalMove,
                            TypeOK, EngineTypeOK
<1>4. ASSUME NEW c \in Calls, ConsumeStep(c)
      PROVE  LegalMove(approval[a].status, approval'[a].status)
  BY <1>0, <1>4 DEF ConsumeStep, Consume, ConsumeCommits, LegalMove, TypeOK,
                    EngineTypeOK, ApprovalRecord
<1> QED
  BY <1>1, <1>2, <1>3, <1>4, CallStepCases
     DEF Next, EngineStep, ExpiresAtPasses, DecideRead, Crash, vars, engineVars

\* A decision, once in the record, is never rewritten.
LEMMA DecisionKept ==
    ASSUME IndInv, [Next]_vars, NEW a \in Approvals,
           approval[a].status \in Decision \cup {"consumed"}
    PROVE  /\ approval'[a].status \in Decision \cup {"consumed"}
           /\ approval'[a].decision = approval[a].decision
           /\ approval'[a].decided_by = approval[a].decided_by
<1> USE EngineAssumption
<1>0. TypeOK /\ HistoryInv /\ DecideInv
  BY DEF IndInv
<1>1. CASE approval' = approval
  BY <1>1
<1>2. ASSUME NEW b \in Approvals, Request(b) PROVE approval'[a] = approval[a]
  BY <1>0, <1>2 DEF Request, TypeOK, EngineTypeOK, Decision
<1>3. ASSUME NEW d \in Decides, DecideCommit(d)
      PROVE  approval'[a] = approval[a]
  BY <1>0, <1>3 DEF DecideCommit, IntegrityMatches, DecideInv, Undecided,
                    TypeOK, EngineTypeOK, Decision
<1>4. ASSUME NEW c \in Calls, ConsumeStep(c)
      PROVE  /\ approval'[a].status \in Decision \cup {"consumed"}
             /\ approval'[a].decision = approval[a].decision
             /\ approval'[a].decided_by = approval[a].decided_by
  BY <1>0, <1>4 DEF ConsumeStep, Consume, TypeOK, EngineTypeOK, ApprovalRecord
<1> QED
  BY <1>1, <1>2, <1>3, <1>4, CallStepCases
     DEF Next, EngineStep, ExpiresAtPasses, DecideRead, Crash, vars, engineVars

\* What a pending or finished decide() call knows stays true.
LEMMA DecideStep ==
    ASSUME IndInv, [Next]_vars
    PROVE  DecideInv'
<1> USE EngineAssumption
<1>0. TypeOK /\ HistoryInv /\ DecideInv
  BY DEF IndInv
<1>1. ASSUME \A d \in Decides :
               /\ decide'[d].pc \in {"commit", "decided"} =>
                    decide'[d] = decide[d]
      PROVE  DecideInv'
  BY <1>0, <1>1, DecisionKept DEF DecideInv
<1>2. ASSUME NEW d \in Decides, NEW a \in Approvals, NEW x \in Decision,
             NEW h \in Humans, DecideRead(d, a, x, h)
      PROVE  DecideInv'
  <2>1. approval[a] = Undecided("pending")
    BY <1>0, <1>2 DEF DecideRead, HistoryInv
  <2>2. DecidePayload(a, x, h) \in {Undecided("expired"), Decided(x, h)}
    BY <2>1 DEF DecidePayload, Undecided, Decided
  <2>3. /\ decide'[d].pc = "commit"
        /\ decide'[d].approval = a
        /\ decide'[d].seen = approval[a]
        /\ decide'[d].new = DecidePayload(a, x, h)
        /\ \A e \in Decides \ {d} : decide'[e] = decide[e]
    BY <1>0, <1>2 DEF DecideRead, TypeOK, EngineTypeOK
  <2>4. approval' = approval
    BY <1>2 DEF DecideRead
  <2> QED
    BY <1>0, <2>1, <2>2, <2>3, <2>4 DEF DecideInv
<1>3. ASSUME NEW d \in Decides, DecideCommit(d) PROVE DecideInv'
  <2> DEFINE a == decide[d].approval
             new == decide[d].new
  <2>1. /\ decide[d].pc = "commit"
        /\ a \in Approvals
        /\ decide[d].seen.status = "pending"
        /\ new.status = "expired" \/ new.status \in Decision
    BY <1>0, <1>3, CommitShape DEF DecideCommit
  <2>2. /\ decide'[d].pc \in {"decided", "raised"}
        /\ decide'[d].approval = a
        /\ decide'[d].new = new
        /\ \A e \in Decides \ {d} : decide'[e] = decide[e]
    BY <1>0, <1>3 DEF DecideCommit, TypeOK, EngineTypeOK, DecideState
  <2>3. CASE decide'[d].pc = "raised"
    BY <1>0, <2>2, <2>3, DecisionKept DEF DecideInv
  <2>4. CASE decide'[d].pc = "decided"
    <3>1. approval[a].status = "pending" /\ approval'[a] = new
          /\ new.status \in Decision
      BY <1>0, <1>3, <2>1, <2>2, <2>4
         DEF DecideCommit, IntegrityMatches, TypeOK, EngineTypeOK, DecideState
    <3>2. \A e \in Decides \ {d} :
            decide[e].pc = "decided" => decide[e].approval # a
      BY <1>0, <3>1 DEF DecideInv, Decision
    <3> QED
      BY <1>0, <2>1, <2>2, <2>4, <3>1, <3>2, DecisionKept DEF DecideInv
  <2> QED
    BY <2>2, <2>3, <2>4
<1>4. CASE Crash
  <2>1. \A d \in Decides : decide'[d].pc \in {"commit", "decided"} =>
                             decide'[d] = decide[d]
    BY <1>0, <1>4 DEF Crash, TypeOK, EngineTypeOK, DecideState
  <2> QED
    BY <1>1, <2>1
<1>5. CASE decide' = decide
  BY <1>1, <1>5
<1> QED
  BY <1>2, <1>3, <1>4, <1>5, CallStepCases
     DEF Next, EngineStep, Request, ExpiresAtPasses, ConsumeStep, Consume,
         vars, engineVars

\* What every step leaves alone: requests, grants, consumptions and claims.
LEMMA Monotone ==
    ASSUME IndInv, [Next]_vars
    PROVE  /\ req' = req
           /\ \A a \in Approvals :
                /\ approval[a].status \in {"approved", "consumed"} =>
                     approval'[a].status \in {"approved", "consumed"}
                /\ consumedEvt[a] # NoUse => consumedEvt'[a] = consumedEvt[a]
           /\ \A k \in Keys : claim[k] # NoClaim => claim'[k] = claim[k]
<1>0. TypeOK
  BY DEF IndInv
<1>1. req' = req
  BY DEF Next, CallStep, Invoke, ValidateApproval, ClaimApprovedAction,
         AuthoriseReplay, ConsumeRead, ConsumeCommit, SideEffect, SaveRecord,
         PublishEvent, AddReceipt, BindReceipt, Crash, vars, toolVars
<1>2. ASSUME NEW a \in Approvals,
             approval[a].status \in {"approved", "consumed"}
      PROVE  approval'[a].status \in {"approved", "consumed"}
  BY <1>2, ForwardStep DEF LegalMove, Decision
<1>3. ASSUME NEW a \in Approvals, consumedEvt[a] # NoUse
      PROVE  consumedEvt'[a] = consumedEvt[a]
  <2>1. CASE consumedEvt' = consumedEvt
    BY <2>1
  <2>2. ASSUME NEW c \in Calls, ConsumeStep(c)
        PROVE  consumedEvt'[a] = consumedEvt[a]
    BY <1>0, <1>3, <2>2 DEF ConsumeStep, Consume, ConsumeCommits, TypeOK,
                            EngineTypeOK
  <2> QED
    BY <2>1, <2>2, CallStepCases
       DEF Next, EngineStep, Request, ExpiresAtPasses, DecideRead,
           DecideCommit, Crash, vars, engineVars
<1>4. ASSUME NEW k \in Keys, claim[k] # NoClaim
      PROVE  claim'[k] = claim[k]
  <2>1. CASE claim' = claim
    BY <2>1
  <2>2. ASSUME NEW c \in Calls, ClaimApprovedAction(c)
        PROVE  claim'[k] = claim[k]
    BY <1>0, <1>4, <2>2 DEF ClaimApprovedAction, TypeOK
  <2> QED
    BY <2>1, <2>2
       DEF Next, CallStep, Invoke, ValidateApproval, AuthoriseReplay,
           ConsumeRead, ConsumeCommit, SideEffect, SaveRecord, PublishEvent,
           AddReceipt, BindReceipt, Crash, vars, toolVars
<1> QED
  BY <1>1, <1>2, <1>3, <1>4

\* CallInv, for one call.
CallInvOf(c) ==
    /\ pc[c] \in {"new", "looked", "validated", "claimed", "consuming"}
          => c \notin ran
    /\ pc[c] \in {"validated", "claimed", "consuming"} =>
         /\ seen[c].status \in {"approved", "consumed"}
         /\ approval[req[c].approval].status \in {"approved", "consumed"}
         /\ Executor[req[c].approval] \in {None, req[c].actor}
    /\ pc[c] = "consuming" =>
         /\ seen[c].status = "approved"
         /\ Scope[req[c].approval] = "single_action"
    /\ pc[c] = "claimed" /\ claimOK[c] =>
         IF Keyed(c) THEN claim[req[c].key] = ClaimOf(c)
                     ELSE seen[c].status = "approved"
    /\ Through(c) => Granted(c)
    /\ Through(c) /\ seen[c].status = "consumed" =>
         Keyed(c) /\ claim[req[c].key] = ClaimOf(c)

\* Steps of others, and the crash, do not disturb what a call relies on.
LEMMA OthersKeepCallInv ==
    ASSUME IndInv, [Next]_vars, NEW c \in Calls,
           pc'[c] \in {pc[c], "crashed"}, seen'[c] = seen[c],
           claimOK'[c] = claimOK[c], c \in ran' <=> c \in ran
    PROVE  CallInvOf(c)'
<1>0. TypeOK /\ CallInvOf(c)
  BY DEF IndInv, CallInv, CallInvOf
<1>1. req[c] \in ToolRequest /\ req[c].approval \in Approvals
      /\ req[c].actor \in Actors /\ req[c].key \in Uses
  BY <1>0 DEF TypeOK, ToolRequest
<1>2. ClaimOf(c) # NoClaim /\ UserOf(c) # NoUse
  BY <1>1, EngineAssumption DEF ClaimOf, NoClaim, UserOf, NoUse
<1>3. req' = req /\ ClaimOf(c)' = ClaimOf(c) /\ UserOf(c)' = UserOf(c)
      /\ Keyed(c)' = Keyed(c)
  BY Monotone DEF ClaimOf, UserOf, Keyed
<1>4. Keyed(c) /\ claim[req[c].key] = ClaimOf(c) =>
        claim'[req[c].key] = ClaimOf(c)
  BY <1>2, Monotone DEF Keyed
<1>5. Granted(c) => Granted(c)'
  BY <1>1, <1>2, <1>3, Monotone DEF Granted
<1>6. Through(c)' => Through(c)
  BY DEF Through
<1>7. approval[req[c].approval].status \in {"approved", "consumed"} =>
        approval'[req[c].approval].status \in {"approved", "consumed"}
  BY <1>1, Monotone
<1> QED
  BY <1>0, <1>3, <1>4, <1>5, <1>6, <1>7 DEF CallInvOf

\* A call's own steps: validation, claim, replay or consumption.
LEMMA OwnKeepsCallInv ==
    ASSUME IndInv, [Next]_vars, NEW c \in Calls, CallStep(c)
    PROVE  CallInvOf(c)'
<1> USE EngineAssumption
<1>0. TypeOK /\ CallInvOf(c) /\ HistoryInv
  BY DEF IndInv, CallInv, CallInvOf
<1>1. req[c] \in ToolRequest /\ req[c].approval \in Approvals
      /\ req[c].actor \in Actors /\ req[c].key \in Uses
  BY <1>0 DEF TypeOK, ToolRequest
<1>2. req' = req /\ ClaimOf(c)' = ClaimOf(c) /\ UserOf(c)' = UserOf(c)
      /\ Keyed(c)' = Keyed(c)
  BY Monotone DEF ClaimOf, UserOf, Keyed
<1>3. CASE Invoke(c)
  BY <1>0, <1>2, <1>3 DEF Invoke, Goto, CallInvOf, Through, TypeOK, engineVars
<1>4. CASE ValidateApproval(c)
  BY <1>0, <1>1, <1>2, <1>4 DEF ValidateApproval, Goto, CallInvOf, Through,
       Usable, TypeOK, engineVars
<1>5. CASE ClaimApprovedAction(c)
  BY <1>0, <1>1, <1>2, <1>5 DEF ClaimApprovedAction, Goto, CallInvOf, Through,
       TypeOK, engineVars, Keyed, ClaimHolds
<1>6. CASE AuthoriseReplay(c)
  <2>1. CASE pc'[c] = "authorised"
    <3>1. /\ claimOK[c]
          /\ consumedEvt[req[c].approval] = UserOf(c)
          /\ seen[c].status = "consumed" /\ pc[c] = "claimed"
      BY <1>0, <1>6, <2>1
         DEF AuthoriseReplay, Goto, ConsumptionMatches, UserOf, TypeOK
    <3>2. Granted(c)' /\ Keyed(c)' /\ claim'[req[c].key] = ClaimOf(c)
      BY <1>0, <1>2, <1>6, <3>1 DEF AuthoriseReplay, CallInvOf, Granted,
                                    engineVars
    <3> QED
      BY <1>0, <1>2, <1>6, <2>1, <3>2 DEF AuthoriseReplay, CallInvOf, engineVars
  <2>2. CASE pc'[c] = "denied"
    BY <1>0, <1>6, <2>2 DEF AuthoriseReplay, CallInvOf, Through
  <2> QED
    BY <1>0, <1>6, <2>1, <2>2 DEF AuthoriseReplay, Goto, TypeOK
<1>7. CASE ConsumeRead(c)
  <2>1. /\ pc[c] = "claimed" /\ c \notin ran /\ ran' = ran
        /\ approval' = approval
        /\ Scope[req[c].approval] = "single_action" =>
             seen'[c] = approval[req[c].approval]
    BY <1>0, <1>7 DEF ConsumeRead, CallInvOf, TypeOK, engineVars
  <2>2. CASE Scope[req[c].approval] # "single_action"
    <3>1. pc'[c] = "authorised" /\ seen' = seen /\ seen[c].status = "approved"
      BY <1>0, <1>7, <2>2 DEF ConsumeRead, ConsumeReadable, Goto, TypeOK
    <3>2. Granted(c)'
      BY <1>0, <1>2, <2>1, <2>2 DEF CallInvOf, Granted
    <3> QED
      BY <1>2, <2>1, <2>2, <3>1, <3>2 DEF CallInvOf
  <2>3. CASE pc'[c] = "consuming" /\ Scope[req[c].approval] = "single_action"
        /\ approval[req[c].approval].status = "approved"
    BY <1>0, <1>2, <2>1, <2>3 DEF CallInvOf, Through
  <2>4. CASE pc'[c] = "denied"
    BY <1>0, <2>1, <2>4 DEF CallInvOf, Through
  <2> QED
    BY <1>0, <1>7, <2>2, <2>3, <2>4
       DEF ConsumeRead, Goto, ConsumeReadable, TypeOK
<1>8. CASE ConsumeStep(c)
  BY <1>0, <1>1, <1>2, <1>8 DEF ConsumeStep, Consume, Goto, CallInvOf, Through,
       Granted, UserOf, TypeOK, EngineTypeOK, ApprovalRecord
<1>9. CASE SideEffect(c)
  BY <1>0, <1>2, <1>9 DEF SideEffect, Goto, CallInvOf, Through, Granted,
       TypeOK, engineVars
<1>10. CASE SaveRecord(c) \/ PublishEvent(c) \/ AddReceipt(c) \/ BindReceipt(c)
  BY <1>0, <1>2, <1>10 DEF SaveRecord, PublishEvent, AddReceipt, BindReceipt,
       Goto, CallInvOf, Through, Granted, TypeOK, engineVars
<1>11. CASE ConsumeCommit(c) /\ UNCHANGED engineVars /\ pc'[c] = "denied"
  BY <1>0, <1>11 DEF ConsumeCommit, CallInvOf, Through, TypeOK
<1>12. CASE ConsumeCommit(c)
  BY <1>0, <1>8, <1>11, <1>12 DEF ConsumeCommit, ConsumeStep, Goto, TypeOK
<1> QED
  BY <1>3, <1>4, <1>5, <1>6, <1>7, <1>9, <1>10, <1>12 DEF CallStep

\* CallInv is preserved: one call moves, the others stand still or crash.
LEMMA CallInvStep ==
    ASSUME IndInv, [Next]_vars
    PROVE  CallInv'
<1> SUFFICES ASSUME NEW c \in Calls PROVE CallInvOf(c)'
  BY DEF CallInv, CallInvOf
<1>0. TypeOK
  BY DEF IndInv
<1>1. CASE CallStep(c)
  BY <1>1, OwnKeepsCallInv
<1>2. ASSUME NEW o \in Calls, CallStep(o), o # c PROVE CallInvOf(c)'
  <2>1. /\ pc'[c] = pc[c] /\ seen'[c] = seen[c] /\ claimOK'[c] = claimOK[c]
        /\ c \in ran' <=> c \in ran
    BY <1>0, <1>2 DEF CallStep, TypeOK, Goto,
         Invoke, ValidateApproval, ClaimApprovedAction, AuthoriseReplay,
         ConsumeRead, ConsumeCommit, SideEffect, SaveRecord, PublishEvent,
         AddReceipt, BindReceipt
  <2> QED
    BY <2>1, OthersKeepCallInv
<1>3. CASE Crash
  BY <1>0, <1>3, OthersKeepCallInv DEF Crash, TypeOK
<1>4. CASE UNCHANGED toolVars
  BY <1>4, OthersKeepCallInv DEF toolVars
<1> QED
  BY <1>1, <1>2, <1>3, <1>4 DEF Next, vars

\* At most one call without key is let through per single-action approval:
\* a replay needs a key, and a consumption finds no earlier owner.
LEMMA UnkeyedStep ==
    ASSUME IndInv, [Next]_vars
    PROVE  UnkeyedInv'
<1> USE EngineAssumption
<1>0. TypeOK /\ CallInv /\ UnkeyedInv
  BY DEF IndInv
<1>1. req' = req
  BY Monotone
<1>2. \A c \in Calls : req[c].actor \in Actors /\ UserOf(c) # NoUse
  BY <1>0 DEF TypeOK, ToolRequest, UserOf, NoUse
<1>3. ASSUME \A c \in Calls : ~Keyed(c) /\ Through(c)' => Through(c)
      PROVE  UnkeyedInv'
  BY <1>0, <1>1, <1>3 DEF UnkeyedInv, Keyed
<1>4. ASSUME NEW c \in Calls, ConsumeStep(c) PROVE UnkeyedInv'
  <2>1. \A o \in Calls \ {c} : Through(o)' => Through(o)
    BY <1>0, <1>4 DEF ConsumeStep, Goto, Through, TypeOK
  <2>2. \A o \in Calls :
          /\ Through(o)
          /\ req[o].approval = req[c].approval
          /\ Scope[req[c].approval] = "single_action"
          => FALSE
    BY <1>0, <1>2, <1>4 DEF ConsumeStep, ConsumeCommits, CallInv, Granted
  <2> QED
    BY <1>0, <1>1, <2>1, <2>2 DEF UnkeyedInv, Keyed
<1>5. ASSUME NEW c \in Calls, AuthoriseReplay(c) PROVE UnkeyedInv'
  <2>1. ~Keyed(c) => pc'[c] = "denied" /\ ran' = ran
    BY <1>0, <1>5 DEF AuthoriseReplay, Goto, CallInv, TypeOK
  <2>2. \A o \in Calls \ {c} : Through(o)' => Through(o)
    BY <1>0, <1>5 DEF AuthoriseReplay, Goto, Through, TypeOK
  <2> QED
    BY <1>3, <2>1, <2>2 DEF Through
<1>6. ASSUME NEW c \in Calls, ConsumeRead(c) PROVE UnkeyedInv'
  <2>1. \A o \in Calls : Through(o)' =>
          Through(o) \/ Scope[req[o].approval] # "single_action"
    BY <1>0, <1>6 DEF ConsumeRead, Goto, Through, TypeOK
  <2> QED
    BY <1>0, <1>1, <2>1 DEF UnkeyedInv, Keyed
<1>7. ASSUME NEW c \in Calls,
             \/ Invoke(c) \/ ValidateApproval(c) \/ ClaimApprovedAction(c)
             \/ SideEffect(c) \/ SaveRecord(c) \/ PublishEvent(c)
             \/ AddReceipt(c) \/ BindReceipt(c)
             \/ ConsumeCommit(c) /\ UNCHANGED engineVars /\ pc'[c] = "denied"
      PROVE  UnkeyedInv'
  <2>1. \A o \in Calls : Through(o)' => Through(o)
    BY <1>0, <1>7 DEF Through, Goto, TypeOK, Invoke, ValidateApproval,
         ClaimApprovedAction, SideEffect, SaveRecord, PublishEvent,
         AddReceipt, BindReceipt, ConsumeCommit
  <2> QED
    BY <1>3, <2>1
<1>8. ASSUME NEW c \in Calls, ConsumeCommit(c) PROVE UnkeyedInv'
  BY <1>0, <1>4, <1>7, <1>8 DEF ConsumeCommit, ConsumeStep, Goto, TypeOK
<1>9. CASE Crash
  BY <1>0, <1>3, <1>9 DEF Crash, Through, TypeOK
<1>10. CASE UNCHANGED toolVars
  BY <1>3, <1>10 DEF toolVars, Through
<1> QED
  BY <1>4, <1>5, <1>6, <1>7, <1>8, <1>9, <1>10 DEF Next, CallStep, vars

-----------------------------------------------------------------------------
(***************************************************************************)
(* The theorems.                                                           *)
(***************************************************************************)

\* The initial states satisfy the inductive invariant.
LEMMA InitInv == Init => IndInv
<1> SUFFICES ASSUME Init PROVE IndInv
  OBVIOUS
<1> USE EngineAssumption, ToolAssumption
<1>1. Undecided("absent") \in ApprovalRecord
  BY DEF Undecided, ApprovalRecord, Status
<1>2. TypeOK
  <2>1. EngineTypeOK
    BY <1>1 DEF Init, EngineInit, EngineTypeOK, DecidedPayload,
                ConsumedPayload, DecideState
  <2> QED
    BY <1>1, <2>1 DEF Init, TypeOK, PC
<1>3. HistoryInv
  BY DEF Init, EngineInit, HistoryInv, Undecided, Decision
<1>4. DecideInv
  BY DEF Init, EngineInit, DecideInv
<1>5. CallInv /\ UnkeyedInv
  BY DEF Init, CallInv, UnkeyedInv, Through
<1> QED
  BY <1>2, <1>3, <1>4, <1>5 DEF IndInv

\* The inductive invariant holds in every reachable state.
THEOREM Invariance == Spec => []IndInv
<1>1. Init => IndInv
  BY InitInv
<1>2. IndInv /\ [Next]_vars => IndInv'
  BY Typing, HistoryStep, DecideStep, CallInvStep, UnkeyedStep DEF IndInv
<1> QED
  BY <1>1, <1>2, PTL DEF Spec

\* TypeOK for every value of the constants.
THEOREM TypeCorrect == Spec => []TypeOK
<1>1. IndInv => TypeOK
  BY DEF IndInv
<1> QED
  BY <1>1, Invariance, PTL

\* A single-action approval only ever runs for the use that consumed it.
THEOREM SingleUseTheorem == Spec => []SingleUse
<1>1. IndInv => SingleUse
  BY DEF IndInv, TypeOK, CallInv, Through, Granted, UserOf, SingleUse
<1> QED
  BY <1>1, Invariance, PTL

\* Without idempotency key, a single-action approval runs at most one call.
THEOREM UnkeyedRunsOnceTheorem == Spec => []UnkeyedRunsOnce
<1>1. IndInv => UnkeyedRunsOnce
  BY DEF IndInv, TypeOK, UnkeyedInv, Through, UnkeyedRunsOnce
<1> QED
  BY <1>1, Invariance, PTL

\* A replayed side effect is the request its claim is bound to.
THEOREM ReplayMatchesClaimTheorem == Spec => []ReplayMatchesClaim
<1>1. IndInv => ReplayMatchesClaim
  BY DEF IndInv, TypeOK, CallInv, Through, ReplayMatchesClaim
<1> QED
  BY <1>1, Invariance, PTL

\* An approval record and its events never disagree.
THEOREM HistoryAgreesTheorem == Spec => []HistoryAgrees
<1>1. ASSUME IndInv PROVE HistoryAgrees
  <2> USE EngineAssumption
  <2>1. TypeOK /\ HistoryInv
    BY <1>1 DEF IndInv
  <2> SUFFICES ASSUME NEW a \in Approvals
               PROVE  /\ approval[a].status # "absent" => Readable(a)
                      /\ consumedEvt[a] # NoUse
                           <=> approval[a].status = "consumed"
                      /\ decidedEvt[a] # NoDecision
                           <=> approval[a].status \in Decision \cup {"consumed"}
    BY DEF HistoryAgrees
  <2>2. approval[a].status \in Status
    BY <2>1 DEF TypeOK, EngineTypeOK, ApprovalRecord
  <2>3. approval[a].status \in Decision \cup {"consumed"} =>
          DecisionTransitionIsValid(a, approval[a])
    BY <2>1 DEF HistoryInv, DecisionTransitionIsValid
  <2>4. approval[a].status = "consumed" <=> consumedEvt[a] # NoUse
    <3>1. \A u \in [actor : Actors, use : Uses] : u.actor \in Actors
      OBVIOUS
    <3>2. NoUse.actor = None
      BY DEF NoUse
    <3> QED
      BY <2>1, <3>1, <3>2 DEF HistoryInv
  <2>5. approval[a].status = "consumed" => ConsumptionTransitionExists(a)
    BY <2>1, <2>4 DEF HistoryInv, ConsumptionTransitionExists
  <2>6. approval[a].status # "absent" => Readable(a)
    BY <2>1, <2>2, <2>3, <2>5
       DEF HistoryInv, Readable, TerminalTransitionIsValid, Status
  <2>7. decidedEvt[a] # NoDecision
          <=> approval[a].status \in Decision \cup {"consumed"}
    <3>1. \A x \in Decision, h \in Humans :
            [decision |-> x, actor |-> h] # NoDecision
      BY DEF NoDecision
    <3>2. CASE approval[a].status \in Decision \cup {"consumed"}
      <4>1. /\ approval[a].decision \in Decision
            /\ approval[a].decided_by \in Humans
            /\ decidedEvt[a] = [decision |-> approval[a].decision,
                                actor    |-> approval[a].decided_by]
        BY <2>1, <3>2 DEF HistoryInv
      <4> QED
        BY <3>1, <3>2, <4>1
    <3>3. CASE approval[a].status \notin Decision \cup {"consumed"}
      BY <2>1, <2>2, <3>3 DEF HistoryInv, Status
    <3> QED
      BY <3>2, <3>3
  <2> QED
    BY <2>4, <2>6, <2>7
<1> QED
  BY <1>1, Invariance, PTL

\* At most one racing decision is taken, and it stands.
THEOREM OneDecisionStandsTheorem == Spec => []OneDecisionStands
<1>1. IndInv => OneDecisionStands
  BY DEF IndInv, HistoryInv, DecideInv, OneDecisionStands
<1> QED
  BY <1>1, Invariance, PTL

\* The status of an approval only moves forward.
THEOREM StatusMovesForwardTheorem == Spec => StatusMovesForward
<1>1. IndInv /\ [Next]_vars =>
        [\A a \in Approvals :
            LegalMove(approval[a].status, approval'[a].status)]_vars
  BY ForwardStep
<1> QED
  BY <1>1, Invariance, PTL DEF Spec, StatusMovesForward

-----------------------------------------------------------------------------
(***************************************************************************)
(* ToolRuntime implements ApprovalContract: a committed decision is an     *)
(* Answer, a consumption a Spend, a side effect a Run; all else stutters.  *)
(***************************************************************************)

\* The refinement mapping under which ApprovalContract is instantiated.
AnswerMap == [a \in Approvals |-> AnswerOf(approval[a].status)]
RunsMap   == {<<req[c].approval, UserOf(c)>> : c \in ran}

\* One step of the implementation is one step of the contract or none.
LEMMA ContractStep ==
    ASSUME IndInv, [Next]_vars
    PROVE  [Contract!Next]_(Contract!contractVars)
<1> USE EngineAssumption DEF Contract!contractVars
<1>0. TypeOK /\ HistoryInv /\ DecideInv /\ CallInv
  BY DEF IndInv
<1>1. CASE approval' = approval /\ consumedEvt' = consumedEvt /\ req' = req
           /\ ran' = ran
  BY <1>1 DEF UserOf
<1>2. ASSUME NEW a \in Approvals, Request(a), UNCHANGED toolVars
      PROVE  UNCHANGED Contract!contractVars
  <2>1. AnswerMap' = AnswerMap
    BY <1>0, <1>2 DEF Request, AnswerMap, AnswerOf, Undecided, TypeOK,
                      EngineTypeOK
  <2> QED
    BY <1>2, <2>1 DEF Request, AnswerMap, UserOf, toolVars
<1>3. ASSUME NEW d \in Decides, DecideCommit(d), UNCHANGED toolVars
      PROVE  [Contract!Next]_(Contract!contractVars)
  <2> DEFINE a == decide[d].approval
             new == decide[d].new
  <2>1. /\ a \in Approvals
        /\ decide[d].seen.status = "pending"
        /\ new.status \in Decision \cup {"expired"}
    BY <1>0, <1>3, CommitShape DEF DecideCommit
  <2>2. consumedEvt' = consumedEvt /\ RunsMap' = RunsMap
    BY <1>3 DEF DecideCommit, RunsMap, UserOf, toolVars
  <2>3. CASE approval' = approval
    BY <1>1, <1>3, <2>2, <2>3 DEF toolVars
  <2>4. CASE approval' = [approval EXCEPT ![a] = new]
             /\ approval[a].status = "pending"
    <3>1. /\ AnswerMap[a] = "open"
          /\ AnswerOf(new.status) \in {"granted", "refused"}
      BY <2>1, <2>4 DEF AnswerMap, AnswerOf, Decision
    <3>2. AnswerMap' = [AnswerMap EXCEPT ![a] = AnswerOf(new.status)]
      BY <1>0, <2>1, <2>4 DEF AnswerMap, TypeOK, EngineTypeOK
    <3>3. Contract!Answer(a)
      BY <2>2, <3>1, <3>2 DEF Contract!Answer, AnswerMap, RunsMap
    <3> QED
      BY <2>1, <3>3 DEF Contract!Next
  <2> QED
    BY <1>3, <2>1, <2>3, <2>4 DEF DecideCommit, IntegrityMatches
<1>4. ASSUME NEW c \in Calls, ConsumeStep(c)
      PROVE  Contract!Next
  <2> DEFINE a == req[c].approval
  <2>1. a \in Approvals /\ UserOf(c) \in [actor : Actors, use : Uses]
    BY <1>0 DEF TypeOK, ToolRequest, UserOf
  <2>2. /\ approval[a].status = "approved"
        /\ consumedEvt[a] = NoUse
        /\ consumedEvt' = [consumedEvt EXCEPT ![a] = UserOf(c)]
    BY <1>4 DEF ConsumeStep, ConsumeCommits, Consume, UserOf
  <2>3. AnswerMap' = AnswerMap /\ AnswerMap[a] = "granted"
    BY <1>0, <1>4, <2>1, <2>2 DEF ConsumeStep, Consume, AnswerMap, AnswerOf,
         TypeOK, EngineTypeOK, ApprovalRecord
  <2>4. RunsMap' = RunsMap
    BY <1>4 DEF ConsumeStep, RunsMap, UserOf
  <2>5. Contract!Spend(a, UserOf(c))
    BY <2>2, <2>3, <2>4 DEF Contract!Spend, AnswerMap, RunsMap
  <2> QED
    BY <2>1, <2>5 DEF Contract!Next
<1>5. ASSUME NEW c \in Calls, SideEffect(c)
      PROVE  [Contract!Next]_(Contract!contractVars)
  <2> DEFINE a == req[c].approval
  <2>1. a \in Approvals /\ UserOf(c) \in [actor : Actors, use : Uses]
    BY <1>0 DEF TypeOK, ToolRequest, UserOf
  <2>2. approval' = approval /\ consumedEvt' = consumedEvt /\ req' = req
    BY <1>5 DEF SideEffect, engineVars
  <2>3. CASE ran' = ran
    BY <1>1, <2>2, <2>3
  <2>4. CASE ran' = ran \cup {c}
    <3>1. Granted(c)
      BY <1>0, <1>5 DEF SideEffect, CallInv, Through
    <3>2. AnswerMap[a] = "granted"
      BY <2>1, <3>1 DEF Granted, AnswerMap, AnswerOf
    <3>3. RunsMap' = RunsMap \cup {<<a, UserOf(c)>>}
      BY <2>2, <2>4 DEF RunsMap, UserOf
    <3>4. AnswerMap' = AnswerMap
      BY <2>2 DEF AnswerMap
    <3>5. Contract!Run(a, UserOf(c))
      <4>1. Scope[a] = "single_action" => consumedEvt[a] = UserOf(c)
        BY <3>1 DEF Granted
      <4> QED
        BY <2>2, <3>2, <3>3, <3>4, <4>1 DEF Contract!Run, AnswerMap, RunsMap
    <3>6. \E u \in [actor : Actors, use : Uses] :
            Contract!Spend(a, u) \/ Contract!Run(a, u)
      BY <2>1, <3>5 DEF Contract!Run
    <3>7. Contract!Next
      BY <2>1, <3>6 DEF Contract!Next
    <3> QED
      BY <3>7
  <2> QED
    BY <1>5, <2>3, <2>4 DEF SideEffect
<1>6. ASSUME NEW c \in Calls,
             \/ Invoke(c) \/ ValidateApproval(c) \/ ClaimApprovedAction(c)
             \/ AuthoriseReplay(c) \/ ConsumeRead(c) \/ SaveRecord(c)
             \/ PublishEvent(c) \/ AddReceipt(c) \/ BindReceipt(c)
      PROVE  UNCHANGED Contract!contractVars
  BY <1>1, <1>6 DEF Invoke, ValidateApproval, ClaimApprovedAction,
       AuthoriseReplay, ConsumeRead, SaveRecord, PublishEvent, AddReceipt,
       BindReceipt, engineVars, UserOf
<1>7. ASSUME NEW c \in Calls, ConsumeCommit(c)
      PROVE  [Contract!Next]_(Contract!contractVars)
  BY <1>1, <1>4, <1>7 DEF ConsumeCommit, ConsumeStep, engineVars
<1>8. CASE Crash
  BY <1>1, <1>8 DEF Crash
<1>9. CASE EngineStep /\ UNCHANGED toolVars
  BY <1>1, <1>2, <1>3, <1>9
     DEF EngineStep, ExpiresAtPasses, DecideRead, toolVars
<1>10. CASE UNCHANGED vars
  BY <1>1, <1>10 DEF vars, engineVars, toolVars
<1> QED
  BY <1>5, <1>6, <1>7, <1>8, <1>9, <1>10 DEF Next, CallStep

\* Every behaviour of the approval and tool protocol is a behaviour of the
\* contract.
THEOREM Refinement == Spec => ImplementsContract
<1>1. Init => Contract!Init
  BY DEF Init, EngineInit, Contract!Init, AnswerOf, Undecided
<1>2. IndInv /\ [Next]_vars => [Contract!Next]_(Contract!contractVars)
  BY ContractStep
<1> QED
  BY <1>1, <1>2, Invariance, PTL DEF Spec, ImplementsContract, Contract!Spec

-----------------------------------------------------------------------------
(***************************************************************************)
(* One return per key: a second invariant, about the writes that follow    *)
(* the side effect.  It needs nothing of the approvals.                    *)
(***************************************************************************)

\* What a call has written, by the step it has reached: a keyed call past its
\* receipt is the one the receipt of its key names.
Reports(c) ==
    /\ pc[c] = "ran" => c \in ran
    /\ tool[c] = "completed" => c \in ran
    /\ pc[c] \in {"evidenced", "returned"} /\ Keyed(c) => receipt[req[c].key] = c
    /\ pc[c] = "returned" => tool[c] = "completed" /\ c \in bound

\* The inductive invariant of what calls report.
ReportInv == TypeOK /\ \A c \in Calls : Reports(c)

\* A call that does nothing keeps what it has written, as long as receipts are
\* only written where there is none.
LEMMA OthersKeepReports ==
    ASSUME ReportInv, NEW o \in Calls, UNCHANGED <<pc[o], tool[o], req>>,
           ran \subseteq ran', bound \subseteq bound',
           \A k \in Keys : receipt[k] # None => receipt'[k] = receipt[k]
    PROVE  Reports(o)'
BY ToolAssumption DEF ReportInv, Reports, Keyed

\* The steps before the receipt bring a call to no step that reports.
LEMMA EarlyKeepsReports ==
    ASSUME ReportInv, NEW c \in Calls,
           Invoke(c) \/ ValidateApproval(c) \/ ClaimApprovedAction(c) \/ AuthoriseReplay(c)
               \/ ConsumeRead(c) \/ ConsumeCommit(c) \/ PublishEvent(c)
    PROVE  \A o \in Calls : Reports(o)'
<1>1. UNCHANGED <<req, ran, tool, receipt, bound>>
  BY DEF Invoke, ValidateApproval, ClaimApprovedAction, AuthoriseReplay, ConsumeRead,
         ConsumeCommit, PublishEvent
<1>2. PICK to \in {"replayed", "looked", "denied", "validated", "claimed", "authorised",
                   "consuming", "published"} : pc' = [pc EXCEPT ![c] = to]
  BY DEF Invoke, ValidateApproval, ClaimApprovedAction, AuthoriseReplay, ConsumeRead,
         ConsumeCommit, PublishEvent, Goto
<1>3. \A o \in Calls : pc'[o] = IF o = c THEN to ELSE pc[o]
  BY <1>2 DEF ReportInv, TypeOK
<1> TAKE o \in Calls
<1>4. CASE o # c
  BY <1>1, <1>3, <1>4, OthersKeepReports
<1>5. CASE o = c
  BY <1>1, <1>2, <1>3, <1>5 DEF ReportInv, Reports
<1> QED  BY <1>4, <1>5

\* Every step keeps what the calls report.
LEMMA ReportStep ==
    ASSUME ReportInv, TypeOK', [Next]_vars
    PROVE  ReportInv'
<1>1. ASSUME NEW c \in Calls, SideEffect(c)
      PROVE  \A o \in Calls : Reports(o)'
  <2>1. UNCHANGED <<req, tool, receipt, bound>>
    BY <1>1 DEF SideEffect
  <2>2. PICK to \in {"ran", "failed"} : pc' = [pc EXCEPT ![c] = to] /\ (to = "ran" => c \in ran')
    BY <1>1 DEF SideEffect, Goto
  <2>3. ran \subseteq ran' /\ \A o \in Calls : pc'[o] = IF o = c THEN to ELSE pc[o]
    BY <1>1, <2>2 DEF SideEffect, ReportInv, TypeOK
  <2> TAKE o \in Calls
  <2>4. CASE o # c
    BY <2>1, <2>3, <2>4, OthersKeepReports
  <2>5. CASE o = c
    BY <2>1, <2>2, <2>3, <2>5 DEF ReportInv, Reports
  <2> QED  BY <2>4, <2>5
<1>2. ASSUME NEW c \in Calls, SaveRecord(c)
      PROVE  \A o \in Calls : Reports(o)'
  <2>1. /\ UNCHANGED <<req, ran, receipt, bound>> /\ pc' = [pc EXCEPT ![c] = "recorded"]
        /\ tool' = [tool EXCEPT ![c] = IF pc[c] = "ran" THEN "completed" ELSE "failed"]
    BY <1>2 DEF SaveRecord, Goto
  <2>2. \A o \in Calls : /\ pc'[o] = (IF o = c THEN "recorded" ELSE pc[o])
                         /\ o # c => tool'[o] = tool[o]
                         /\ o = c /\ tool'[o] = "completed" => pc[o] = "ran"
    BY <2>1 DEF ReportInv, TypeOK
  <2> TAKE o \in Calls
  <2>3. CASE o # c
    BY <2>1, <2>2, <2>3, OthersKeepReports
  <2>4. CASE o = c
    BY <2>1, <2>2, <2>4 DEF ReportInv, Reports
  <2> QED  BY <2>3, <2>4
<1>3. ASSUME NEW c \in Calls, AddReceipt(c)
      PROVE  \A o \in Calls : Reports(o)'
  <2>1. UNCHANGED <<req, ran, tool, bound>>
    BY <1>3 DEF AddReceipt
  <2>2. PICK to \in {"raised", "evidenced"} :
           /\ pc' = [pc EXCEPT ![c] = to]
           /\ to = "evidenced" /\ Keyed(c) => receipt' = [receipt EXCEPT ![req[c].key] = c]
    BY <1>3 DEF AddReceipt, Goto
  <2>3. \A k \in Keys : receipt[k] # None => receipt'[k] = receipt[k]
    BY <1>3 DEF AddReceipt, ReceiptClash, ReportInv, TypeOK
  <2>4. \A o \in Calls : pc'[o] = IF o = c THEN to ELSE pc[o]
    BY <2>2 DEF ReportInv, TypeOK
  <2> TAKE o \in Calls
  <2>5. CASE o # c
    BY <2>1, <2>3, <2>4, <2>5, OthersKeepReports
  <2>6. CASE o = c
    BY <2>1, <2>2, <2>4, <2>6 DEF ReportInv, TypeOK, Reports, Keyed
  <2> QED  BY <2>5, <2>6
<1>4. ASSUME NEW c \in Calls, BindReceipt(c)
      PROVE  \A o \in Calls : Reports(o)'
  <2>1. /\ UNCHANGED <<req, ran, tool, receipt>> /\ bound' = bound \cup {c} /\ pc[c] = "evidenced"
    BY <1>4 DEF BindReceipt
  <2>2. PICK to \in {"returned", "raised"} :
           pc' = [pc EXCEPT ![c] = to] /\ (to = "returned" => tool[c] = "completed")
    BY <1>4 DEF BindReceipt, Goto
  <2>3. \A o \in Calls : pc'[o] = IF o = c THEN to ELSE pc[o]
    BY <2>2 DEF ReportInv, TypeOK
  <2> TAKE o \in Calls
  <2>4. CASE o # c
    BY <2>1, <2>3, <2>4, OthersKeepReports
  <2>5. CASE o = c
    BY <2>1, <2>2, <2>3, <2>5 DEF ReportInv, Reports, Keyed
  <2> QED  BY <2>4, <2>5
<1>5. ASSUME Crash
      PROVE  \A o \in Calls : Reports(o)'
  <2>1. /\ UNCHANGED <<req, ran, tool, receipt, bound>>
        /\ pc' = [c \in Calls |-> IF pc[c] \in Running THEN "crashed" ELSE pc[c]]
    BY <1>5 DEF Crash
  <2>2. \A o \in Calls : pc'[o] \in {"crashed", pc[o]}
    BY <2>1
  <2> TAKE o \in Calls
  <2>3. CASE pc'[o] = pc[o]
    BY <2>1, <2>3, OthersKeepReports
  <2>4. CASE pc'[o] = "crashed"
    BY <2>1, <2>4 DEF ReportInv, Reports
  <2> QED  BY <2>2, <2>3, <2>4
<1>6. ASSUME UNCHANGED toolVars
      PROVE  \A o \in Calls : Reports(o)'
  BY <1>6, OthersKeepReports DEF toolVars
<1> QED
  BY <1>1, <1>2, <1>3, <1>4, <1>5, <1>6, EarlyKeepsReports
     DEF Next, CallStep, vars, toolVars, ReportInv

\* Of the calls that share a key at most one returns its own invocation; it
\* ran the side effect, and the receipt of the key is its own.
THEOREM OneReturnPerKeyTheorem == Spec => []OneReturnPerKey
<1>1. Init => \A c \in Calls : Reports(c)
  BY DEF Init, Reports
<1>2. IndInv => TypeOK
  BY DEF IndInv
<1>3. TypeOK /\ (\A c \in Calls : Reports(c)) /\ TypeOK' /\ [Next]_vars => (\A c \in Calls : Reports(c))'
  BY ReportStep DEF ReportInv
<1>4. ASSUME \A c \in Calls : Reports(c)
      PROVE  OneReturnPerKey
  <2> SUFFICES ASSUME NEW c \in Calls, pc[c] = "returned", Keyed(c)
               PROVE  /\ c \in ran /\ c \in bound /\ tool[c] = "completed"
                      /\ receipt[req[c].key] = c
                      /\ \A o \in Calls \ {c} :
                           pc[o] = "returned" => req[o].key # req[c].key
    BY DEF OneReturnPerKey
  <2>1. c \in ran /\ c \in bound /\ tool[c] = "completed" /\ receipt[req[c].key] = c
    BY <1>4 DEF Reports
  <2>2. ASSUME NEW o \in Calls \ {c}, pc[o] = "returned", req[o].key = req[c].key
        PROVE  FALSE
    <3>1. Keyed(o)
      BY <2>2 DEF Keyed
    <3>2. receipt[req[o].key] = o
      BY <1>4, <2>2, <3>1 DEF Reports
    <3> QED  BY <2>1, <2>2, <3>2
  <2> QED  BY <2>1, <2>2
<1> QED
  BY <1>1, <1>2, <1>3, <1>4, Invariance, PTL DEF Spec
=============================================================================
