--------------------------- MODULE Borders_proofs ---------------------------
(***************************************************************************)
(* What holds at the border of the system, for any number of threads,      *)
(* calls, drafts, ledgers, requests, hosts and crashes.  Each part has an  *)
(* inductive invariant of its own; at the end the suite, in which one      *)
(* component moves and the others stay, is shown to implement each.        *)
(*                                                                         *)
(* Program loop.  LoopAccounted is inductive over the types: a lease is    *)
(* taken by the step that makes its thread the holder, and whoever         *)
(* releases a mission that two threads hold leaves no lease behind.        *)
(*                                                                         *)
(* Promotion gate.  PromotionSound speaks of decisions already made; what  *)
(* makes it inductive is what an assessment under way may rely on.  The    *)
(* approvals it holds were decided by the owner for its content and risk,  *)
(* which no later step changes (GrantedTo), and it reaches the consumption *)
(* with the number its risk asks for (Enough).  Two approvals of an R4     *)
(* differ because one was requested for the promotion and the other for    *)
(* the release.  That no event of consumption is written twice rests on    *)
(* the compare-and-set alone.                                              *)
(***************************************************************************)
EXTENDS MCBorders, FiniteSetTheorems, TLAPS

------------------------------------------------------------------------------
(* The program loop. *)

\* The inductive invariant of the program loop.
LoopInv == LoopTypeOK /\ LoopAccounted

\* The steps at which a thread holds a lease.
Holding == {"exec", "release"}

-----------------------------------------------------------------------------
(* Counting *)

\* One more cycle keeps the balance.
LEMMA TallyBalances ==
    ASSUME NEW n \in LoopCounts, n.cycles = n.ok + n.bad, NEW ok \in BOOLEAN
    PROVE  /\ Tally(n, ok) \in LoopCounts
           /\ Tally(n, ok).cycles = Tally(n, ok).ok + Tally(n, ok).bad
BY DEF Tally, LoopCounts

\* A step that leaves the counters and the checkpoint keeps the balance.
LEMMA BalanceKept ==
    ASSUME CountsBalance, loop'.n = loop.n, saved' = saved
    PROVE  CountsBalance'
BY DEF CountsBalance

-----------------------------------------------------------------------------
(* Leases *)

\* A step that leaves the leases and every thread that holds one keeps them held.
LEMMA HoldersKept ==
    ASSUME LeaseHasHolder, activeLeases' = activeLeases,
           \A t \in LoopThreads : loopThread[t].pc \in Holding =>
               loopThread'[t].pc \in Holding /\ loopThread'[t].m = loopThread[t].m
    PROVE  LeaseHasHolder'
BY DEF LeaseHasHolder, Holding

\* A step that only moves the program counter of a thread that holds nothing.
LEMMA ThreadMoves ==
    ASSUME LoopTypeOK, LeaseHasHolder, activeLeases' = activeLeases,
           NEW t \in LoopThreads, loopThread[t].pc \notin Holding,
           NEW th, loopThread' = [loopThread EXCEPT ![t] = th]
    PROVE  LeaseHasHolder'
<1>1. ASSUME NEW u \in LoopThreads, loopThread[u].pc \in Holding
      PROVE  loopThread'[u] = loopThread[u]
  BY <1>1 DEF LoopTypeOK
<1> QED
  BY <1>1, HoldersKept

-----------------------------------------------------------------------------
(* The calls *)

\* The calls change neither counters nor leases, and make threads that hold none.
LEMMA CallStep ==
    ASSUME LoopInv, NEW c \in LoopCalls, LoopCallStep(c) \/ LoopCallRest(c)
    PROVE  LoopInv'
<1> USE DEF LoopInv, LoopAccounted
<1>1. CASE LoopSpawn(c)
  <2> DEFINE t == CHOOSE u \in LoopThreads : loopThread[u].pc = "none"
  <2>1. t \in LoopThreads /\ loopThread[t].pc = "none"
    BY <1>1 DEF LoopSpawn
  <2>2. /\ loopThread' = [loopThread EXCEPT ![t] = [@ EXCEPT !.pc = "new"]]
        /\ UNCHANGED <<loop, activeLeases, runnable, saved>>
    BY <1>1, <2>1 DEF LoopSpawn, LoopThreadTo, LoopTypeOK
  <2> HIDE DEF t
  <2>3. LoopTypeOK'
    BY <2>1, <2>2 DEF LoopTypeOK, LoopPcs
  <2>4. LeaseHasHolder'
    BY <2>1, <2>2, ThreadMoves DEF Holding
  <2> QED
    BY <2>2, <2>3, <2>4, BalanceKept
<1>2. CASE \/ LoopCallStep(c) \/ LoopPauseClear(c) \/ LoopResumeSet(c)
           \/ LoopStopEvent(c) \/ LoopStopWake(c) \/ LoopJoin(c)
  <2>1. /\ UNCHANGED <<loopThread, activeLeases, runnable, saved>>
        /\ loop' \in [status : LoopStatus, stop : BOOLEAN, go : BOOLEAN, n : LoopCounts]
        /\ loop'.n = loop.n
    BY <1>2 DEF LoopCallStep, LoopCallStart, LoopCallPause, LoopCallResume, LoopCallStop,
                LoopPauseClear, LoopResumeSet, LoopStopEvent, LoopStopWake, LoopJoin,
                LoopCallOnly, LoopTypeOK, LoopStatus
  <2> QED
    BY <2>1, BalanceKept, HoldersKept DEF LoopTypeOK
<1> QED
  BY <1>1, <1>2 DEF LoopCallRest

-----------------------------------------------------------------------------
(* The threads *)

\* Between two cycles a thread holds nothing and counts nothing.
LEMMA BetweenCycles ==
    ASSUME LoopInv, NEW t \in LoopThreads,
           LoopBegin(t) \/ LoopHead(t) \/ LoopHold(t) \/ LoopWake(t) \/ LoopExit(t)
    PROVE  LoopInv'
<1> USE DEF LoopInv, LoopAccounted
<1>1. /\ loopThread[t].pc \notin Holding
      /\ \E pc \in LoopPcs : loopThread' = [loopThread EXCEPT ![t] = [@ EXCEPT !.pc = pc]]
      /\ UNCHANGED <<activeLeases, runnable, saved>>
      /\ loop' \in [status : LoopStatus, stop : BOOLEAN, go : BOOLEAN, n : LoopCounts]
      /\ loop'.n = loop.n
  BY DEF LoopBegin, LoopHead, LoopHold, LoopWake, LoopExit, LoopThreadTo, Holding,
         LoopTypeOK, LoopStatus, LoopPcs
<1>2. PICK pc \in LoopPcs : loopThread' = [loopThread EXCEPT ![t] = [@ EXCEPT !.pc = pc]]
  BY <1>1
<1>3. LoopTypeOK'
  BY <1>1, <1>2 DEF LoopTypeOK
<1>4. LeaseHasHolder'
  BY <1>1, <1>2, ThreadMoves
<1> QED
  BY <1>1, <1>3, <1>4, BalanceKept

\* A cycle takes a lease as it becomes its holder and gives it back before it ends.
LEMMA CycleStep ==
    ASSUME LoopInv, NEW t \in LoopThreads, LoopCycle(t)
    PROVE  LoopInv'
<1> USE DEF LoopInv, LoopAccounted
<1>0. CountsBalance'
  BY BalanceKept DEF LoopCycle, LoopSelect, LoopAcquire, LoopClaim, LoopExecute, LoopRelease
<1>1. CASE LoopSelect(t) \/ LoopAcquire(t)
  <2>1. PICK th \in [pc : LoopPcs, m : SUBSET LoopMissions, ok : BOOLEAN] :
               loopThread' = [loopThread EXCEPT ![t] = th]
    <3>1. CASE LoopSelect(t) /\ runnable = {}
      BY <3>1 DEF LoopSelect, LoopTypeOK, LoopPcs
    <3>2. CASE LoopSelect(t) /\ runnable # {}
      <4>1. PICK m \in runnable :
               loopThread' = [loopThread EXCEPT ![t].pc = "acquire", ![t].m = {m}]
        BY <3>2 DEF LoopSelect
      <4>2. [loopThread[t] EXCEPT !.pc = "acquire", !.m = {m}]
               \in [pc : LoopPcs, m : SUBSET LoopMissions, ok : BOOLEAN]
        BY <4>1 DEF LoopTypeOK, LoopPcs
      <4>3. loopThread' = [loopThread EXCEPT ![t] =
                              [loopThread[t] EXCEPT !.pc = "acquire", !.m = {m}]]
        BY <4>1 DEF LoopTypeOK
      <4> QED
        BY <4>2, <4>3
    <3>3. CASE LoopAcquire(t)
      BY <3>3 DEF LoopAcquire, LoopTypeOK, LoopPcs
    <3> QED
      BY <1>1, <3>1, <3>2, <3>3
  <2>2. UNCHANGED <<loop, activeLeases, runnable, saved>> /\ loopThread[t].pc \notin Holding
    BY <1>1 DEF LoopSelect, LoopAcquire, Holding
  <2> QED
    BY <1>0, <2>1, <2>2, ThreadMoves DEF LoopTypeOK
<1>2. CASE LoopClaim(t)
  <2>1. /\ activeLeases' = activeLeases \cup loopThread[t].m
        /\ loopThread' = [loopThread EXCEPT ![t] = [@ EXCEPT !.pc = "exec"]]
        /\ UNCHANGED <<loop, runnable, saved>>
        /\ loopThread[t].pc = "claim"
    BY <1>2 DEF LoopClaim, LoopThreadTo
  <2>2. loopThread'[t].pc = "exec" /\ loopThread'[t].m = loopThread[t].m
    BY <2>1 DEF LoopTypeOK
  <2>3. \A u \in LoopThreads \ {t} : loopThread'[u] = loopThread[u]
    BY <2>1 DEF LoopTypeOK
  <2>4. LeaseHasHolder'
    BY <2>1, <2>2, <2>3 DEF LeaseHasHolder
  <2> QED
    BY <1>0, <2>1, <2>4 DEF LoopTypeOK, LoopPcs
<1>3. CASE LoopExecute(t)
  <2>1. PICK ok \in BOOLEAN : loopThread' = [loopThread EXCEPT ![t].pc = "release", ![t].ok = ok]
    BY <1>3 DEF LoopExecute
  <2>2. UNCHANGED <<loop, activeLeases, saved>> /\ runnable' \subseteq LoopMissions
    BY <1>3 DEF LoopExecute, LoopTypeOK
  <2>3. /\ loopThread'[t].pc = "release" /\ loopThread'[t].m = loopThread[t].m
        /\ \A u \in LoopThreads \ {t} : loopThread'[u] = loopThread[u]
    BY <2>1 DEF LoopTypeOK
  <2>4. LeaseHasHolder'
    BY <2>2, <2>3, HoldersKept DEF Holding
  <2>5. LoopTypeOK'
    BY <2>1, <2>2 DEF LoopTypeOK, LoopPcs
  <2> QED
    BY <1>0, <2>4, <2>5
<1>4. CASE LoopRelease(t)
  <2>1. /\ activeLeases' = activeLeases \ loopThread[t].m
        /\ loopThread' = [loopThread EXCEPT ![t] = [@ EXCEPT !.pc = "count"]]
        /\ UNCHANGED <<loop, runnable, saved>>
    BY <1>4 DEF LoopRelease, LoopThreadTo
  <2>2. \A u \in LoopThreads \ {t} : loopThread'[u] = loopThread[u]
    BY <2>1 DEF LoopTypeOK
  <2>3. LeaseHasHolder'
    BY <2>1, <2>2 DEF LeaseHasHolder
  <2> QED
    BY <1>0, <2>1, <2>3 DEF LoopTypeOK, LoopPcs
<1> QED
  BY <1>1, <1>2, <1>3, <1>4 DEF LoopCycle

\* The end of a cycle: counted once, or once more as a failure when on_cycle raises.
LEMMA CountStep ==
    ASSUME LoopInv, NEW t \in LoopThreads, LoopCount(t)
    PROVE  LoopInv'
<1> USE DEF LoopInv, LoopAccounted
<1>1. /\ loopThread' = [loopThread EXCEPT ![t] = [@ EXCEPT !.pc = "checkpoint"]]
      /\ loopThread[t].pc = "count"
      /\ UNCHANGED <<activeLeases, runnable, saved>>
  BY DEF LoopCount, LoopThreadTo
<1> DEFINE n == Tally(loop.n, loopThread[t].ok)
<1>2. loop.n \in LoopCounts /\ loop.n.cycles = loop.n.ok + loop.n.bad /\ loopThread[t].ok \in BOOLEAN
  BY DEF LoopTypeOK, CountsBalance
<1>3. n \in LoopCounts /\ n.cycles = n.ok + n.bad
  BY <1>2, TallyBalances
<1>4. Tally(n, FALSE) \in LoopCounts /\ Tally(n, FALSE).cycles = Tally(n, FALSE).ok + Tally(n, FALSE).bad
  BY <1>3, TallyBalances
<1>5. loop' = [loop EXCEPT !.n = n] \/ loop' = [loop EXCEPT !.n = Tally(n, FALSE)]
  BY DEF LoopCount
<1> HIDE DEF n
<1>6. /\ loop' \in [status : LoopStatus, stop : BOOLEAN, go : BOOLEAN, n : LoopCounts]
      /\ loop'.n.cycles = loop'.n.ok + loop'.n.bad
  BY <1>3, <1>4, <1>5 DEF LoopTypeOK
<1>7. CountsBalance'
  BY <1>1, <1>6 DEF CountsBalance
<1>8. LeaseHasHolder'
  BY <1>1, ThreadMoves DEF Holding
<1> QED
  BY <1>1, <1>6, <1>7, <1>8 DEF LoopTypeOK, LoopPcs

\* A checkpoint stores counters that balance.
LEMMA CheckpointStep ==
    ASSUME LoopInv, NEW t \in LoopThreads, LoopCheckpoint(t)
    PROVE  LoopInv'
<1> USE DEF LoopInv, LoopAccounted
<1>1. /\ saved' \subseteq saved \cup {loop.n}
      /\ loopThread' = [loopThread EXCEPT ![t] = [NoThread EXCEPT !.pc = "head"]]
      /\ loopThread[t].pc = "checkpoint"
      /\ UNCHANGED <<loop, activeLeases, runnable>>
  BY DEF LoopCheckpoint
<1>2. LeaseHasHolder'
  BY <1>1, ThreadMoves DEF Holding
<1>3. CountsBalance'
  BY <1>1 DEF CountsBalance
<1>4. LoopTypeOK'
  BY <1>1 DEF LoopTypeOK, LoopPcs, NoThread
<1> QED
  BY <1>2, <1>3, <1>4

-----------------------------------------------------------------------------
(* Crash and recovery *)

\* A crash leaves no lease in memory, and recovery takes over stored counters.
LEMMA RestartStep ==
    ASSUME LoopInv, LoopCrash \/ LoopRecover
    PROVE  LoopInv'
<1> USE DEF LoopInv, LoopAccounted
<1>1. CASE LoopCrash
  <2>1. LoopTypeOK'
    BY <1>1 DEF LoopCrash, LoopTypeOK, LoopPcs, NewLoop, NoThread, NoCounts, LoopStatus, LoopCounts
  <2>2. LeaseHasHolder' /\ CountsBalance'
    BY <1>1 DEF LoopCrash, LeaseHasHolder, CountsBalance, NewLoop, NoCounts
  <2> QED
    BY <2>1, <2>2
<1>2. CASE LoopRecover
  <2> DEFINE s == CHOOSE x \in saved : TRUE
  <2>1. s \in saved
    BY <1>2 DEF LoopRecover
  <2>2. loop' = [loop EXCEPT !.n = s] /\ UNCHANGED <<loopThread, activeLeases, runnable, saved>>
    BY <1>2 DEF LoopRecover, LoopCallOnly
  <2> HIDE DEF s
  <2>3. LoopTypeOK'
    BY <2>1, <2>2 DEF LoopTypeOK
  <2>4. loop'.n = s
    BY <2>2 DEF LoopTypeOK
  <2>5. CountsBalance'
    BY <2>1, <2>2, <2>4 DEF CountsBalance
  <2> QED
    BY <2>2, <2>3, <2>5, HoldersKept
<1> QED
  BY <1>1, <1>2

-----------------------------------------------------------------------------
\* Whatever calls, threads and crashes do, every lease in memory has a thread
\* that will release it, and the counters balance, in memory and in the
\* checkpoint.
THEOREM LoopIsAccounted == LoopSpec => []LoopAccounted
<1>1. LoopInit => LoopInv
  BY DEF LoopInit, LoopInv, LoopTypeOK, LoopPcs, LoopAccounted, LeaseHasHolder, CountsBalance,
         NewLoop, NoThread, NoCounts, LoopStatus, LoopCounts
<1>2. LoopInv /\ [LoopNext]_loopVars => LoopInv'
  <2> SUFFICES ASSUME LoopInv, [LoopNext]_loopVars
               PROVE  LoopInv'
    OBVIOUS
  <2>1. ASSUME NEW t \in LoopThreads, LoopThreadStep(t)
        PROVE  LoopInv'
    BY <2>1, BetweenCycles, CycleStep, CountStep, CheckpointStep DEF LoopThreadStep
  <2>2. CASE UNCHANGED loopVars
    BY <2>2 DEF loopVars, LoopInv, LoopTypeOK, LoopAccounted, LeaseHasHolder, CountsBalance
  <2> QED
    BY <2>1, <2>2, CallStep, RestartStep DEF LoopNext
<1>3. LoopInv => LoopAccounted
  BY DEF LoopInv
<1> QED
  BY <1>1, <1>2, <1>3, PTL DEF LoopSpec

------------------------------------------------------------------------------
(* The promotion gate. *)

\* The states of an approval the owner granted.
Decided == {"APPROVED", "CONSUMED"}

\* The owner granted approval a for this content and risk.
GrantedTo(a, risk, content) ==
    /\ gateGrants[a].status \in Decided /\ gateGrants[a].by = "owner"
    /\ gateGrants[a].content = content /\ gateGrants[a].risk = risk

\* The approvals a decision at this risk needs: two different ones, one or none.
Enough(risk, used) ==
    \/ risk = "R4" /\ \E a, b \in GateApprovals : a # b /\ used = {a, b}
    \/ risk = "R3" /\ \E a \in GateApprovals : used = {a}
    \/ risk \notin ApprovalRisks /\ used = {}

\* What an assessment may rely on at each of its steps.
HeldWell(s) ==
    /\ \A a \in s.held : GrantedTo(a, s.risk, s.content)
    /\ s.step = "promote" => s.risk \in ApprovalRisks /\ s.held = {}
    /\ s.step = "release" =>
          s.risk = "R4" /\ \E a \in GateApprovals : s.held = {a} /\ gateGrants[a].action = "promote"
    /\ s.step = "consume" => Enough(s.risk, s.held)

\* What a decision already made keeps.
SpentWell(n) ==
    /\ Enough(promotions[n].risk, promotions[n].used)
    /\ \A a \in promotions[n].used :
          spentBy[a] = n /\ GrantedTo(a, promotions[n].risk, promotions[n].content)

\* An event of consumption names the decision that used its approval.
EventNamesItsDecision ==
    \A a \in GateApprovals : spentBy[a] # 0 =>
        spentBy[a] \in DOMAIN promotions /\ a \in promotions[spentBy[a]].used

\* The inductive invariant of the promotion gate.
GateInv ==
    /\ GateTypeOK
    /\ \A p \in Assessors : HeldWell(assessing[p])
    /\ \A n \in DOMAIN promotions : SpentWell(n)
    /\ EventNamesItsDecision

-----------------------------------------------------------------------------
(* Counting the approvals *)

\* Enough approvals are as many as the decision must have spent.
LEMMA EnoughCounts ==
    ASSUME NEW risk, NEW used, Enough(risk, used)
    PROVE  Cardinality(used) = (CASE risk = "R4" -> 2 [] risk = "R3" -> 1 [] OTHER -> 0)
<1>1. CASE risk = "R4" /\ \E a, b \in GateApprovals : a # b /\ used = {a, b}
  <2>1. PICK a, b \in GateApprovals : a # b /\ used = {a, b}
    BY <1>1
  <2>2. IsFiniteSet({a}) /\ Cardinality({a}) = 1
    BY FS_Singleton
  <2>3. Cardinality({a} \cup {b}) = 2
    BY <2>1, <2>2, FS_AddElement
  <2>4. used = {a} \cup {b}
    BY <2>1
  <2> QED  BY <1>1, <2>3, <2>4
<1>2. CASE risk = "R3" /\ \E a \in GateApprovals : used = {a}
  BY <1>2, FS_Singleton
<1>3. CASE risk \notin ApprovalRisks /\ used = {}
  BY <1>3, FS_EmptySet DEF ApprovalRisks
<1> QED  BY <1>1, <1>2, <1>3 DEF Enough

\* The property follows from the invariant.
LEMMA InvIsSound ==
    ASSUME GateInv
    PROVE  PromotionSound
<1>1. ASSUME NEW n \in DOMAIN promotions
      PROVE  /\ Cardinality(promotions[n].used) =
                   (CASE promotions[n].risk = "R4" -> 2 [] promotions[n].risk = "R3" -> 1 [] OTHER -> 0)
             /\ \A a \in promotions[n].used :
                   /\ spentBy[a] = n /\ gateGrants[a].by = "owner"
                   /\ gateGrants[a].content = promotions[n].content
                   /\ gateGrants[a].risk = promotions[n].risk
  <2>1. SpentWell(n)
    BY DEF GateInv
  <2> QED  BY <2>1, EnoughCounts DEF SpentWell, GrantedTo
<1>2. \A a \in GateApprovals : spentBy[a] # 0 => a \in promotions[spentBy[a]].used
  BY DEF GateInv, EventNamesItsDecision
<1> QED  BY <1>1, <1>2 DEF PromotionSound

-----------------------------------------------------------------------------
(* Types *)

\* A decision made holds stored approvals.
LEMMA DecisionTyped ==
    ASSUME GateTypeOK, NEW n \in DOMAIN promotions
    PROVE  promotions[n].used \subseteq GateApprovals /\ n \in Nat \ {0}
<1>1. promotions[n] \in Decisions
  BY DEF GateTypeOK
<1>2. n \in 1..Len(promotions) /\ Len(promotions) \in Nat
  BY DEF GateTypeOK
<1> QED  BY <1>1, <1>2 DEF Decisions

\* A grant stays one whatever its status, its decider or its validity becomes.
LEMMA GrantTyped ==
    ASSUME NEW g \in Grants
    PROVE  /\ \A st \in {"APPROVED", "REJECTED", "CONSUMED"} : [g EXCEPT !.status = st] \in Grants
           /\ \A st \in {"APPROVED", "REJECTED", "CONSUMED"}, by \in Deciders :
                 [g EXCEPT !.status = st, !.by = by] \in Grants
           /\ \A live \in BOOLEAN : [g EXCEPT !.live = live] \in Grants
BY DEF Grants

\* Rewriting one grant keeps the types.
LEMMA GrantRewritten ==
    ASSUME GateTypeOK, NEW a \in GateApprovals, NEW g \in Grants,
           gateGrants' = [gateGrants EXCEPT ![a] = g], UNCHANGED <<spentBy, assessing, promotions>>
    PROVE  GateTypeOK'
BY DEF GateTypeOK

\* So does a step of one assessment.
LEMMA AssessmentTyped ==
    ASSUME GateTypeOK, NEW p \in Assessors, NEW s \in Assessments,
           assessing' = [assessing EXCEPT ![p] = s], UNCHANGED <<gateGrants, spentBy, promotions>>
    PROVE  GateTypeOK'
BY DEF GateTypeOK

\* An assessor without an assessment is typed.
LEMMA IdleTyped == Idle \in Assessments
BY DEF Idle, Assessments

-----------------------------------------------------------------------------
(* Steps that leave the decisions alone *)

\* No step takes a grant back or gives it to another content, risk or action.
GrantsStand ==
    \A a \in GateApprovals : gateGrants[a].status \in Decided =>
        /\ gateGrants'[a].status \in Decided /\ gateGrants'[a].by = gateGrants[a].by
        /\ gateGrants'[a].content = gateGrants[a].content /\ gateGrants'[a].risk = gateGrants[a].risk
        /\ gateGrants'[a].action = gateGrants[a].action

\* A grant that stands is still granted to whoever holds it.
LEMMA GrantStands ==
    ASSUME GrantsStand, NEW a \in GateApprovals, NEW risk, NEW content, GrantedTo(a, risk, content)
    PROVE  GrantedTo(a, risk, content)'
BY DEF GrantsStand, GrantedTo

\* What an assessment relies on outlives the steps of the others.
LEMMA HoldingStands ==
    ASSUME GateTypeOK, GrantsStand, NEW p \in Assessors, HeldWell(assessing[p]),
           assessing'[p] = assessing[p]
    PROVE  HeldWell(assessing[p])'
<1> DEFINE s == assessing[p]
<1>1. s.held \subseteq GateApprovals
  BY DEF GateTypeOK, Assessments
<1>2. \A a \in s.held : GrantedTo(a, s.risk, s.content)'
  BY <1>1, GrantStands DEF HeldWell
<1>3. s.step = "release" =>
         s.risk = "R4" /\ \E a \in GateApprovals : s.held = {a} /\ gateGrants'[a].action = "promote"
  BY DEF HeldWell, GrantsStand, GrantedTo
<1> QED  BY <1>2, <1>3 DEF HeldWell, Enough, GrantedTo

\* Neither do the decisions made change by a step that spends nothing.
LEMMA DecisionsStand ==
    ASSUME GateInv, GrantsStand, UNCHANGED <<spentBy, promotions>>
    PROVE  (\A n \in DOMAIN promotions : SpentWell(n))' /\ EventNamesItsDecision'
<1>1. ASSUME NEW n \in DOMAIN promotions
      PROVE  SpentWell(n)'
  <2>1. SpentWell(n) /\ promotions[n].used \subseteq GateApprovals
    BY DecisionTyped DEF GateInv
  <2>2. \A a \in promotions[n].used : GrantedTo(a, promotions[n].risk, promotions[n].content)'
    BY <2>1, GrantStands DEF SpentWell
  <2> QED  BY <2>1, <2>2 DEF SpentWell, Enough, GrantedTo
<1>2. EventNamesItsDecision'
  BY DEF GateInv, EventNamesItsDecision
<1> QED  BY <1>1, <1>2

\* A step that writes only the grants, and lets them stand, keeps the invariant.
LEMMA OnlyGrants ==
    ASSUME GateInv, GateTypeOK', GrantsStand, UNCHANGED <<spentBy, assessing, promotions>>
    PROVE  GateInv'
<1>1. \A p \in Assessors : HeldWell(assessing[p])'
  BY HoldingStands DEF GateInv
<1> QED  BY <1>1, DecisionsStand DEF GateInv

\* A step of one assessment that spends nothing keeps the invariant when it
\* leaves that assessment something to rely on.
LEMMA OneAssessment ==
    ASSUME GateInv, GateTypeOK', NEW p \in Assessors, NEW s,
           assessing' = [assessing EXCEPT ![p] = s], HeldWell(s),
           UNCHANGED <<gateGrants, spentBy, promotions>>
    PROVE  GateInv'
<1>1. GrantsStand
  BY DEF GrantsStand
<1>2. ASSUME NEW q \in Assessors
      PROVE  HeldWell(assessing[q])'
  <2>1. CASE q = p
    <3>1. assessing'[q] = s
      BY <2>1 DEF GateInv, GateTypeOK
    <3> QED  BY <3>1 DEF HeldWell, GrantedTo, Enough
  <2>2. CASE q # p
    <3>1. assessing'[q] = assessing[q]
      BY <2>2 DEF GateInv, GateTypeOK
    <3> QED  BY <1>1, <3>1, HoldingStands DEF GateInv
  <2> QED  BY <2>1, <2>2
<1> QED  BY <1>1, <1>2, DecisionsStand DEF GateInv

\* An assessment that ended relies on nothing.
LEMMA IdleHeldWell == HeldWell(Idle)
BY DEF HeldWell, Idle

-----------------------------------------------------------------------------
(* The steps of the gate *)

\* A request for an approval grants nothing.
LEMMA RequestKeeps ==
    ASSUME GateInv, NEW a \in GateApprovals, NEW act \in GateActions, NEW c \in Contents,
           NEW r \in ApprovalRisks \cap GateRisks, RequestGrant(a, act, c, r)
    PROVE  GateInv'
<1>1. GateTypeOK'
  <2>1. [Absent EXCEPT !.status = "PENDING", !.action = act, !.content = c, !.risk = r,
                       !.executor = "builder"] \in Grants
    BY DEF Absent, Grants, NoValue, GateActions, Actors
  <2> QED  BY <2>1, GrantRewritten DEF GateInv, RequestGrant
<1>2. GrantsStand
  BY DEF GateInv, GateTypeOK, RequestGrant, GrantsStand, Decided, NoValue
<1> QED  BY <1>1, <1>2, OnlyGrants DEF RequestGrant

\* A decision on an approval touches none that was used.
LEMMA DecideKeeps ==
    ASSUME GateInv, NEW a \in GateApprovals, NEW status \in {"APPROVED", "REJECTED"},
           NEW who \in Deciders, DecideGrant(a, status, who)
    PROVE  GateInv'
<1>1. GateTypeOK'
  <2>1. [gateGrants[a] EXCEPT !.status = status, !.by = who] \in Grants
    BY GrantTyped DEF GateInv, GateTypeOK
  <2>2. gateGrants' = [gateGrants EXCEPT ![a] = [gateGrants[a] EXCEPT !.status = status, !.by = who]]
    BY DEF DecideGrant, GateInv, GateTypeOK
  <2> QED  BY <2>1, <2>2, GrantRewritten DEF GateInv, DecideGrant
<1>2. GrantsStand
  BY DEF GateInv, GateTypeOK, DecideGrant, GrantsStand, Decided
<1> QED  BY <1>1, <1>2, OnlyGrants DEF DecideGrant

\* An approval that expires keeps its status and what it was granted for.
LEMMA ExpiryKeeps ==
    ASSUME GateInv, NEW a \in GateApprovals, GrantExpires(a)
    PROVE  GateInv'
<1>1. GateTypeOK'
  <2>1. [gateGrants[a] EXCEPT !.live = FALSE] \in Grants
    BY GrantTyped DEF GateInv, GateTypeOK
  <2>2. gateGrants' = [gateGrants EXCEPT ![a] = [gateGrants[a] EXCEPT !.live = FALSE]]
    BY DEF GrantExpires
  <2> QED  BY <2>1, <2>2, GrantRewritten DEF GateInv, GrantExpires
<1>2. GrantsStand
  BY DEF GateInv, GateTypeOK, GrantExpires, GrantsStand, Decided
<1> QED  BY <1>1, <1>2, OnlyGrants DEF GrantExpires

\* An approval sealed back to APPROVED keeps who decided it, and for what.
LEMMA ResealKeeps ==
    ASSUME GateInv, NEW a \in GateApprovals, ResealGrant(a)
    PROVE  GateInv'
<1>1. GateTypeOK'
  <2>1. [gateGrants[a] EXCEPT !.status = "APPROVED"] \in Grants
    BY GrantTyped DEF GateInv, GateTypeOK
  <2>2. gateGrants' = [gateGrants EXCEPT ![a] = [gateGrants[a] EXCEPT !.status = "APPROVED"]]
    BY DEF ResealGrant
  <2> QED  BY <2>1, <2>2, GrantRewritten DEF GateInv, ResealGrant
<1>2. GrantsStand
  BY DEF GateInv, GateTypeOK, ResealGrant, GrantsStand, Decided
<1> QED  BY <1>1, <1>2, OnlyGrants DEF ResealGrant

\* An assessment begins without approvals.
LEMMA AssessKeeps ==
    ASSUME GateInv, NEW p \in Assessors, NEW r \in GateRisks, NEW c \in Contents,
           NEW actor \in Actors, NEW passed, Assess(p, r, c, actor, passed)
    PROVE  GateInv'
<1> DEFINE under == [step |-> IF r \in ApprovalRisks THEN "promote" ELSE "consume",
                     risk |-> r, content |-> c, actor |-> actor, held |-> {}]
<1>1. PICK s \in {Idle, under} : assessing' = [assessing EXCEPT ![p] = s]
  BY DEF Assess
<1>2. HeldWell(under)
  BY DEF HeldWell, Enough
<1>3. HeldWell(s)
  BY <1>1, <1>2, IdleHeldWell
<1>4. GateTypeOK'
  <2>1. under \in Assessments
    BY DEF Assessments
  <2> QED  BY <1>1, <2>1, IdleTyped, AssessmentTyped DEF GateInv, Assess
<1> QED  BY <1>1, <1>3, <1>4, OneAssessment DEF Assess

\* An assessment takes up an approval only where the owner granted it for what
\* it assesses, and the second one of an R4 is not the first one again.
LEMMA ReadKeeps ==
    ASSUME GateInv, NEW p \in Assessors, NEW a \in GateApprovals \cup {NoValue}, ReadGrant(p, a)
    PROVE  GateInv'
<1> DEFINE s == assessing[p]
           next == IF s.step = "promote" /\ s.risk = "R4" THEN "release" ELSE "consume"
           more == [s EXCEPT !.step = next, !.held = @ \cup {a}]
<1>1. CASE /\ a # NoValue /\ GrantValid(a, s.step, s.risk, s.content, s.actor)
           /\ assessing' = [assessing EXCEPT ![p] = more]
  <2>1. /\ a \in GateApprovals /\ GrantedTo(a, s.risk, s.content)
        /\ gateGrants[a].action = s.step
    BY <1>1 DEF GrantValid, GrantedTo, Decided
  <2>2. /\ more.step = next /\ more.risk = s.risk /\ more.content = s.content
        /\ more.held = s.held \cup {a}
    BY DEF GateInv, GateTypeOK, Assessments
  <2>3. HeldWell(s) /\ s.step \in {"promote", "release"}
    BY DEF GateInv, ReadGrant
  <2>4. ASSUME s.step = "promote" PROVE HeldWell(more)
    <3>1. more.held = {a} /\ s.risk \in ApprovalRisks
      BY <2>2, <2>3, <2>4 DEF HeldWell
    <3> HIDE DEF more
    <3> QED  BY <2>1, <2>2, <2>4, <3>1 DEF HeldWell, Enough, ApprovalRisks, GrantedTo
  <2>5. ASSUME s.step = "release" PROVE HeldWell(more)
    <3>1. s.risk = "R4" /\ \A b \in s.held : GrantedTo(b, s.risk, s.content)
      BY <2>3, <2>5 DEF HeldWell
    <3>2. PICK b \in GateApprovals : s.held = {b} /\ gateGrants[b].action = "promote"
      BY <2>3, <2>5 DEF HeldWell
    <3>3. more.held = {b, a} /\ b # a
      BY <2>1, <2>2, <2>5, <3>2
    <3>4. Enough(more.risk, more.held)
      BY <2>1, <2>2, <3>1, <3>3 DEF Enough
    <3> HIDE DEF more
    <3> QED  BY <2>1, <2>2, <2>5, <3>1, <3>2, <3>3, <3>4 DEF HeldWell, GrantedTo
  <2>6. HeldWell(more)
    BY <2>3, <2>4, <2>5
  <2>7. GateTypeOK'
    <3>1. more \in Assessments
      BY <2>1 DEF GateInv, GateTypeOK, Assessments
    <3> QED  BY <1>1, <3>1, AssessmentTyped DEF GateInv, ReadGrant
  <2> QED  BY <1>1, <2>6, <2>7, OneAssessment DEF ReadGrant
<1>2. CASE assessing' = [assessing EXCEPT ![p] = Idle]
  <2>1. GateTypeOK'
    BY <1>2, IdleTyped, AssessmentTyped DEF GateInv, ReadGrant
  <2> QED  BY <1>2, <2>1, IdleHeldWell, OneAssessment DEF ReadGrant
<1> QED  BY <1>1, <1>2 DEF ReadGrant

\* The compare-and-set spends only what no event names yet, so no earlier
\* decision loses an approval, and the new one has all it needs.
LEMMA ConsumeKeeps ==
    ASSUME GateInv, NEW p \in Assessors, ConsumeGrants(p)
    PROVE  GateInv'
<1> DEFINE s == assessing[p]
           n == Len(promotions) + 1
           d == [risk |-> s.risk, content |-> s.content, used |-> s.held]
<1>1. CASE UNCHANGED <<gateGrants, spentBy, promotions>>
  <2>1. assessing' = [assessing EXCEPT ![p] = Idle]
    BY DEF ConsumeGrants
  <2>2. GateTypeOK'
    BY <1>1, <2>1, IdleTyped, AssessmentTyped DEF GateInv
  <2> QED  BY <1>1, <2>1, <2>2, IdleHeldWell, OneAssessment
<1>2. CASE /\ \A a \in s.held : Consumable(a)
           /\ gateGrants' = [a \in GateApprovals |->
                  IF a \in s.held THEN [gateGrants[a] EXCEPT !.status = "CONSUMED"] ELSE gateGrants[a]]
           /\ spentBy' = [a \in GateApprovals |-> IF a \in s.held THEN n ELSE spentBy[a]]
           /\ promotions' = Append(promotions, d)
  <2>1. assessing' = [assessing EXCEPT ![p] = Idle]
    BY DEF ConsumeGrants
  <2>2. s.held \subseteq GateApprovals /\ HeldWell(s) /\ s.step = "consume"
    BY DEF GateInv, GateTypeOK, Assessments, ConsumeGrants
  <2>3. n \in Nat /\ n # 0
    BY DEF GateInv, GateTypeOK
  <2>4. d \in Decisions
    BY DEF GateInv, GateTypeOK, Assessments, Decisions
  <2>5. GateTypeOK'
    <3>1. gateGrants' \in [GateApprovals -> Grants]
      <4>1. \A a \in GateApprovals : gateGrants[a] \in Grants /\ [gateGrants[a] EXCEPT !.status = "CONSUMED"] \in Grants
        BY GrantTyped DEF GateInv, GateTypeOK
      <4> QED  BY <1>2, <4>1
    <3>2. spentBy' \in [GateApprovals -> Nat]
      BY <1>2, <2>3 DEF GateInv, GateTypeOK
    <3>3. promotions' \in Seq(Decisions)
      BY <1>2, <2>4 DEF GateInv, GateTypeOK
    <3>4. assessing' \in [Assessors -> Assessments]
      BY <2>1, IdleTyped DEF GateInv, GateTypeOK
    <3> QED  BY <3>1, <3>2, <3>3, <3>4 DEF GateTypeOK
  <2>6. GrantsStand
    BY <1>2 DEF GateInv, GateTypeOK, GrantsStand, Decided
  <2>7. \A q \in Assessors : HeldWell(assessing[q])'
    <3> TAKE q \in Assessors
    <3>1. CASE q = p
      <4>1. assessing'[q] = Idle
        BY <2>1, <3>1 DEF GateInv, GateTypeOK
      <4> QED  BY <4>1 DEF HeldWell, Idle
    <3>2. CASE q # p
      <4>1. assessing'[q] = assessing[q]
        BY <2>1, <3>2 DEF GateInv, GateTypeOK
      <4> QED  BY <2>6, <4>1, HoldingStands DEF GateInv
    <3> QED  BY <3>1, <3>2
  <2>8. /\ DOMAIN promotions' = DOMAIN promotions \cup {n}
        /\ promotions'[n] = d /\ \A k \in DOMAIN promotions : promotions'[k] = promotions[k] /\ k # n
    BY <1>2, <2>4 DEF GateInv, GateTypeOK
  <2>9. \A k \in DOMAIN promotions' : SpentWell(k)'
    <3> TAKE k \in DOMAIN promotions'
    <3>1. CASE k = n
      <4>1. \A a \in s.held : /\ gateGrants'[a].status \in Decided /\ gateGrants'[a].by = "owner"
                               /\ gateGrants'[a].content = s.content /\ gateGrants'[a].risk = s.risk
        BY <2>2, <2>6 DEF HeldWell, GrantedTo, GrantsStand
      <4>2. Enough(s.risk, s.held)
        BY <2>2 DEF HeldWell
      <4>3. \A a \in s.held : spentBy'[a] = k
        BY <1>2, <2>2, <3>1
      <4>4. promotions'[k].risk = s.risk /\ promotions'[k].content = s.content /\ promotions'[k].used = s.held
        BY <2>8, <3>1
      <4> QED  BY <4>1, <4>2, <4>3, <4>4 DEF SpentWell, Enough, GrantedTo
    <3>2. CASE k \in DOMAIN promotions
      <4>1. SpentWell(k) /\ promotions[k].used \subseteq GateApprovals /\ k # 0
        BY <3>2, DecisionTyped DEF GateInv
      <4>2. \A a \in promotions[k].used : a \notin s.held
        BY <1>2, <4>1 DEF SpentWell, Consumable
      <4>3. \A a \in promotions[k].used : spentBy'[a] = k
        BY <1>2, <4>1, <4>2 DEF SpentWell
      <4>4. \A a \in promotions[k].used :
               /\ gateGrants'[a].status \in Decided /\ gateGrants'[a].by = "owner"
               /\ gateGrants'[a].content = promotions[k].content
               /\ gateGrants'[a].risk = promotions[k].risk
        BY <2>6, <4>1 DEF SpentWell, GrantedTo, GrantsStand
      <4> QED  BY <2>8, <3>2, <4>1, <4>3, <4>4 DEF SpentWell, Enough, GrantedTo
    <3> QED  BY <2>8, <3>1, <3>2
  <2>10. EventNamesItsDecision'
    <3> SUFFICES ASSUME NEW a \in GateApprovals, spentBy'[a] # 0
                 PROVE  spentBy'[a] \in DOMAIN promotions' /\ a \in promotions'[spentBy'[a]].used
      BY DEF EventNamesItsDecision
    <3>1. CASE a \in s.held
      BY <1>2, <2>8, <3>1
    <3>2. CASE a \notin s.held
      BY <1>2, <2>8, <3>2 DEF GateInv, EventNamesItsDecision
    <3> QED  BY <3>1, <3>2
  <2> QED  BY <2>5, <2>7, <2>9, <2>10 DEF GateInv
<1> QED  BY <1>1, <1>2 DEF ConsumeGrants

-----------------------------------------------------------------------------
\* The invariant holds at the start.
LEMMA GateStarts == GateInit => GateInv
<1> SUFFICES ASSUME GateInit PROVE GateInv
  OBVIOUS
<1>1. GateTypeOK
  <2>1. Absent \in Grants
    BY DEF Absent, Grants, NoValue
  <2> QED  BY <2>1, IdleTyped DEF GateInit, GateTypeOK
<1>2. \A p \in Assessors : HeldWell(assessing[p])
  BY IdleHeldWell DEF GateInit
<1> QED  BY <1>1, <1>2 DEF GateInit, GateInv, EventNamesItsDecision

\* Every step keeps it.
LEMMA GateSteps == GateInv /\ [GateNext]_gateVars => GateInv'
<1> SUFFICES ASSUME GateInv, [GateNext]_gateVars PROVE GateInv'
  OBVIOUS
<1>1. CASE UNCHANGED <<gateGrants, spentBy, assessing, promotions>>
  <2>1. GateTypeOK' /\ GrantsStand
    BY <1>1 DEF GateInv, GateTypeOK, GrantsStand
  <2> QED  BY <1>1, <2>1, OnlyGrants
<1>2. CASE \E o \in TwinStates, b \in BOOLEAN : CaptureTwin(Expected, o, b)
  BY <1>1, <1>2 DEF CaptureTwin
<1>3. CASE \E a \in GateApprovals, act \in {"promote", "release"}, c \in Contents, r \in ApprovalRisks \cap GateRisks :
              RequestGrant(a, act, c, r)
  BY <1>3, RequestKeeps DEF GateActions
<1>4. CASE \E a \in GateApprovals : \/ \E who \in {"owner", "stranger"} : DecideGrant(a, "APPROVED", who)
                                    \/ DecideGrant(a, "REJECTED", "owner")
  BY <1>4, DecideKeeps DEF Deciders
<1>5. CASE \E a \in GateApprovals : GrantExpires(a) \/ ResealGrant(a)
  BY <1>5, ExpiryKeeps, ResealKeeps
<1>6. CASE \/ \E r \in Refs : BreakEvidence(r)
           \/ \E o \in TwinStates : ResealCheckpoint(o)
  BY <1>1, <1>6 DEF BreakEvidence, ResealCheckpoint
<1>7. CASE \E p \in Assessors, r \in GateRisks, c \in Contents, actor \in {"builder", "other"},
              passed \in {{"verification", "simulation"}, {"verification", "simulation", "accessibility", "governance"}} :
              Assess(p, r, c, actor, passed)
  BY <1>7, AssessKeeps DEF Actors
<1>8. CASE \E p \in Assessors, a \in GateApprovals \cup {NoValue} : ReadGrant(p, a)
  BY <1>8, ReadKeeps
<1>9. CASE \E p \in Assessors : ConsumeGrants(p)
  BY <1>9, ConsumeKeeps
<1>10. CASE UNCHANGED gateVars
  BY <1>1, <1>10 DEF gateVars
<1> QED  BY <1>2, <1>3, <1>4, <1>5, <1>6, <1>7, <1>8, <1>9, <1>10 DEF GateNext

\* Whatever assessments overlap, whatever expires and whatever is sealed back
\* behind the gate, every allowed promotion spent approvals of its own: decided
\* by the owner for its content and risk, and as many as its risk asks for.
THEOREM PromotionsAreSound == GateSpec => []PromotionSound
<1>1. GateSpec => []GateInv
  BY GateStarts, GateSteps, PTL DEF GateSpec
<1>2. GateInv => PromotionSound
  BY InvIsSound
<1> QED  BY <1>1, <1>2, PTL

------------------------------------------------------------------------------
(* Messages. *)

\* A draft that reached the provider, or is there.
Reached(d) == delivered[d] > 0 \/ \E t \in Senders : sender[t] = d

\* It was drafted, and what send checked of it still holds: the configuration
\* is fixed once there is a draft, and a draft does not change.
ReachedGoverned ==
    \A d \in Drafts : Reached(d) =>
        /\ d \in DOMAIN drafts /\ msgCfg.external /\ d \notin captured
        /\ ValidateRecipient(drafts[d].to) /\ ScanContent(drafts[d].body)

\* The key of a capture is used up; the key of a delivery is, unless the
\* provider raised; and whoever meets another sender or a delivery of its
\* draft got there before the key was used.
KeysKept ==
    /\ captured \subseteq sentKeys
    /\ \A d \in Drafts : delivered[d] > 0 /\ d \notin sentKeys => d \in overlapped
    /\ \A t, u \in Senders : t # u /\ sender[t] = sender[u] /\ sender[t] # "none" =>
           sender[t] \in overlapped
    /\ \A t \in Senders : sender[t] # "none" /\ delivered[sender[t]] > 0 => sender[t] \in overlapped
    /\ \A d \in Drafts : delivered[d] > 1 => d \in overlapped

\* The inductive invariant of the message adapter.
MessageInv == MessageTypeOK /\ ReachedGoverned /\ KeysKept

\* Setting up the adapter keeps the invariant: nothing was drafted, so nothing reached the provider.
LEMMA MessageSetupKeeps ==
    ASSUME MessageInv, NEW cfg \in MessageConfigs, MessageSetup(cfg)
    PROVE  MessageInv'
  BY DEF MessageSetup, MessageInv, MessageTypeOK, ReachedGoverned, KeysKept, Reached

\* A new draft keeps the invariant: it did not reach the provider before it was made.
LEMMA MakeDraftKeeps ==
    ASSUME MessageInv, NEW d \in Drafts, NEW to \in Recipients, NEW body \in Bodies, MakeDraft(d, to, body)
    PROVE  MessageInv'
<1>1. /\ DOMAIN drafts' = DOMAIN drafts \cup {d} /\ d \notin DOMAIN drafts
      /\ drafts' \in [DOMAIN drafts' -> [to : Recipients, body : Bodies]]
      /\ \A e \in DOMAIN drafts : drafts'[e] = drafts[e]
      /\ UNCHANGED <<msgCfg, sentKeys, sender, delivered, captured, overlapped>>
  BY DEF MakeDraft, MessageInv, MessageTypeOK
<1>2. MessageTypeOK'
  BY <1>1 DEF MessageInv, MessageTypeOK
<1>3. ReachedGoverned'
  BY <1>1 DEF MessageInv, ReachedGoverned, Reached, ValidateRecipient, ScanContent
<1>4. KeysKept'
  BY <1>1 DEF MessageInv, KeysKept
<1> QED  BY <1>2, <1>3, <1>4 DEF MessageInv

\* A capture keeps the invariant: with sending disabled nothing reached the provider.
LEMMA CaptureKeeps ==
    ASSUME MessageInv, NEW t \in Senders, NEW d \in Drafts, Capture(t, d)
    PROVE  MessageInv'
<1>1. MessageTypeOK'
  BY DEF Capture, MessageInv, MessageTypeOK
<1>2. ReachedGoverned'
  BY DEF Capture, MessageInv, ReachedGoverned, Reached, ValidateRecipient, ScanContent
<1>3. KeysKept'
  BY DEF Capture, MessageInv, KeysKept
<1> QED  BY <1>1, <1>2, <1>3 DEF MessageInv

\* A send keeps the invariant: it passed the checks, and if another sender or a
\* delivery was there before it, its draft is noted as overlapped.
LEMMA StartSendKeeps ==
    ASSUME MessageInv, NEW t \in Senders, NEW d \in Drafts, StartSend(t, d)
    PROVE  MessageInv'
<1>1. MessageTypeOK'
  BY DEF StartSend, MessageInv, MessageTypeOK
<1>2. /\ sender' = [sender EXCEPT ![t] = d] /\ sender \in [Senders -> Drafts \cup {"none"}]
      /\ MaySend(d) /\ msgCfg.external /\ overlapped \subseteq overlapped'
      /\ (\E u \in Senders : sender[u] = d) => d \in overlapped'
      /\ UNCHANGED <<msgCfg, drafts, sentKeys, delivered, captured>>
  BY DEF StartSend, MessageInv, MessageTypeOK
<1>3. ReachedGoverned'
  <2> SUFFICES ASSUME NEW e \in Drafts, Reached(e)'
               PROVE  /\ e \in DOMAIN drafts /\ msgCfg.external /\ e \notin captured
                      /\ ValidateRecipient(drafts[e].to) /\ ScanContent(drafts[e].body)
    BY <1>2 DEF ReachedGoverned, ValidateRecipient, ScanContent
  <2>1. e = d \/ Reached(e)
    BY <1>2 DEF Reached
  <2>2. CASE e = d
    BY <1>2, <2>2 DEF MaySend, MessageInv, KeysKept
  <2> QED  BY <2>1, <2>2 DEF MessageInv, ReachedGoverned
<1>4. KeysKept'
  <2>1. delivered[d] > 0 => d \in overlapped'
    BY <1>2 DEF MaySend, MessageInv, KeysKept
  <2> QED  BY <1>2, <2>1, DraftsAssumption DEF MessageInv, KeysKept
<1> QED  BY <1>1, <1>3, <1>4 DEF MessageInv

\* The draft a sender was at the provider with.
LEMMA Returned ==
    ASSUME MessageInv, NEW t \in Senders, NEW reached \in BOOLEAN,
           \/ ProviderAnswers(t) /\ reached
           \/ ProviderRaises(t, reached)
    PROVE  MessageInv'
<1>1. PICK d : d = sender[t]
  OBVIOUS
<1>2. /\ d \in Drafts /\ d # "none" /\ sender' = [sender EXCEPT ![t] = "none"]
      /\ sender \in [Senders -> Drafts \cup {"none"}] /\ delivered \in [Drafts -> Nat]
      /\ UNCHANGED <<msgCfg, drafts, captured>>
  BY <1>1, DraftsAssumption DEF ProviderAnswers, ProviderRaises, MessageInv, MessageTypeOK
<1>3. /\ sentKeys \subseteq sentKeys' /\ overlapped \subseteq overlapped'
      /\ sentKeys' \subseteq sentKeys \cup {d} /\ overlapped' \subseteq overlapped \cup {d}
      /\ d \in sentKeys' \/ d \in overlapped'
  BY <1>1 DEF ProviderAnswers, ProviderRaises
<1>4. PICK n \in {0, 1} : delivered' = [delivered EXCEPT ![d] = @ + n]
  BY <1>1, <1>2 DEF ProviderAnswers, ProviderRaises
<1>5. delivered' \in [Drafts -> Nat] /\ delivered'[d] = delivered[d] + n
      /\ \A e \in Drafts : e # d => delivered'[e] = delivered[e]
  BY <1>2, <1>4
<1>6. MessageTypeOK'
  BY <1>2, <1>3, <1>5 DEF MessageInv, MessageTypeOK
<1>7. ReachedGoverned'
  <2>1. \A e \in Drafts : Reached(e)' => Reached(e)
    <3> SUFFICES ASSUME NEW e \in Drafts, Reached(e)'
                 PROVE  Reached(e)
      OBVIOUS
    <3>1. CASE e = d
      BY <1>1, <3>1 DEF Reached
    <3>2. CASE e # d /\ delivered'[e] > 0
      BY <1>5, <3>2 DEF Reached
    <3>3. ASSUME NEW u \in Senders, sender'[u] = e, e # d
          PROVE  Reached(e)
      BY <1>2, <3>3, DraftsAssumption DEF Reached
    <3> QED  BY <3>1, <3>2, <3>3 DEF Reached
  <2> QED  BY <1>2, <2>1 DEF MessageInv, ReachedGoverned, ValidateRecipient, ScanContent
<1>8. KeysKept'
  <2>1. delivered[d] > 0 => d \in overlapped
    BY <1>1, <1>2 DEF MessageInv, KeysKept
  <2>2. \A u \in Senders : u # t /\ sender[u] = d => d \in overlapped
    BY <1>1, <1>2 DEF MessageInv, KeysKept
  <2>3. delivered'[d] > 1 => d \in overlapped'
    BY <1>2, <1>3, <1>5, <2>1
  <2>4. captured' \subseteq sentKeys'
    BY <1>2, <1>3 DEF MessageInv, KeysKept
  <2>5. \A e \in Drafts : /\ delivered'[e] > 0 /\ e \notin sentKeys' => e \in overlapped'
                          /\ delivered'[e] > 1 => e \in overlapped'
    BY <1>2, <1>3, <1>5, <2>3 DEF MessageInv, KeysKept
  <2>6. \A u \in Senders : sender'[u] # "none" => u # t /\ sender'[u] = sender[u]
    BY <1>2
  <2>7. \A u, v \in Senders : u # v /\ sender'[u] = sender'[v] /\ sender'[u] # "none" => sender'[u] \in overlapped'
    BY <1>3, <2>6 DEF MessageInv, KeysKept
  <2>8. \A u \in Senders : sender'[u] # "none" /\ delivered'[sender'[u]] > 0 => sender'[u] \in overlapped'
    <3> SUFFICES ASSUME NEW u \in Senders, sender'[u] # "none", delivered'[sender'[u]] > 0
                 PROVE  sender[u] \in overlapped'
      BY <2>6
    <3>1. sender[u] \in Drafts /\ u # t /\ sender'[u] = sender[u] /\ sender[u] # "none"
      BY <1>2, <2>6
    <3>2. CASE sender[u] = d
      BY <1>3, <2>2, <3>1, <3>2
    <3>3. CASE sender[u] # d
      <4>1. delivered[sender[u]] > 0
        BY <1>5, <3>1, <3>3
      <4> QED  BY <1>3, <3>1, <4>1 DEF MessageInv, KeysKept
    <3> QED  BY <3>2, <3>3
  <2> QED  BY <2>4, <2>5, <2>7, <2>8 DEF KeysKept
<1> QED  BY <1>6, <1>7, <1>8 DEF MessageInv

\* Every step of the adapter keeps the invariant.
LEMMA MessageStep == MessageInv /\ [MessageNext]_msgVars => MessageInv'
<1> SUFFICES ASSUME MessageInv, [MessageNext]_msgVars
             PROVE  MessageInv'
  OBVIOUS
<1>1. CASE UNCHANGED msgVars
  BY <1>1 DEF msgVars, MessageInv, MessageTypeOK, ReachedGoverned, KeysKept, Reached, ValidateRecipient,
              ScanContent
<1>2. ASSUME NEW cfg \in MessageConfigs, MessageSetup(cfg)
      PROVE  MessageInv'
  BY <1>2, MessageSetupKeeps
<1>3. ASSUME NEW d \in Drafts, NEW to \in Recipients, NEW body \in Bodies, MakeDraft(d, to, body)
      PROVE  MessageInv'
  BY <1>3, MakeDraftKeeps
<1>4. ASSUME NEW t \in Senders, NEW d \in Drafts, Capture(t, d) \/ StartSend(t, d)
      PROVE  MessageInv'
  BY <1>4, CaptureKeeps, StartSendKeeps
<1>5. ASSUME NEW t \in Senders, ProviderAnswers(t) \/ \E reached \in BOOLEAN : ProviderRaises(t, reached)
      PROVE  MessageInv'
  BY <1>5, Returned
<1> QED  BY <1>1, <1>2, <1>3, <1>4, <1>5 DEF MessageNext

\* Nothing reaches the provider but what the configuration admits, and a draft
\* twice only when two sends of it overlapped or the provider raised
\* (message_adapter.py, send).
THEOREM MessageTheorem == MessageSpec => []MessageSound
<1>1. MessageInit => MessageInv
  BY DraftsAssumption DEF MessageInit, MessageInv, MessageTypeOK, ReachedGoverned, KeysKept, Reached, MessageConfigs
<1>2. MessageInv => MessageSound
  BY DEF MessageInv, MessageSound, ReachedGoverned, KeysKept, Reached, ValidateRecipient, ScanContent,
         MessageTypeOK, MessageConfigs
<1> QED  BY <1>1, <1>2, MessageStep, PTL DEF MessageSpec

------------------------------------------------------------------------------
(* Sessions and permissions. *)

\* What a client will save is a legal move of what it read.
LegalMove(from, to) ==
    /\ to.status # from.status => SessionCanTransition(from.status, to.status)
    /\ to.version >= from.version
    /\ from.convs \subseteq to.convs

\* Every save under way is a legal move of what its client read.
SavesLegal == \A c \in Clients : client[c].op = "save" => LegalMove(client[c].seen, client[c].copy)

\* The inductive invariant of the sessions.
SessionInv == SessionTypeOK /\ SavesLegal

\* A closed session can only fail, and a failed one nothing.
LEMMA TerminalOnlyFails ==
    ASSUME NEW from \in Terminal, NEW to \in SessionStatus, SessionCanTransition(from, to)
    PROVE  to = "FAILED"
  BY DEF SessionCanTransition, Transitions, Terminal

\* A read keeps the invariant when the copy is a legal move of the session.
LEMMA SessionReadKeeps ==
    ASSUME SessionInv, NEW c \in Clients, NEW s \in DOMAIN sessions, NEW copy \in SessionRecords,
           LegalMove(sessions[s], copy), ReadFor(c, s, "save", copy)
    PROVE  SessionInv'
<1>1. PICK r : r = [op |-> "save", id |-> s, seen |-> sessions[s], copy |-> copy]
  OBVIOUS
<1>2. r \in Saves /\ r.seen = sessions[s] /\ r.copy = copy
  BY <1>1 DEF Saves, SessionInv, SessionTypeOK
<1>3. client' = [client EXCEPT ![c] = r] /\ UNCHANGED <<sessions, bound, stale, role, grants, revoked>>
  BY <1>1 DEF ReadFor
<1>4. SessionTypeOK'
  BY <1>2, <1>3 DEF SessionInv, SessionTypeOK
<1>5. SavesLegal'
  BY <1>2, <1>3 DEF SessionInv, SessionTypeOK, SavesLegal, LegalMove
<1> QED  BY <1>4, <1>5 DEF SessionInv

\* The version of a copy goes up by one, the rest stays.
LEMMA BumpedIs ==
    ASSUME NEW rec \in SessionRecords
    PROVE  /\ Bumped(rec) \in SessionRecords /\ Bumped(rec).version = rec.version + 1
           /\ Bumped(rec).status = rec.status /\ Bumped(rec).convs = rec.convs
<1>1. PICK n \in Nat : n = rec.version + 1
  BY DEF SessionRecords
<1>2. Bumped(rec) = [rec EXCEPT !.version = n]
  BY <1>1 DEF Bumped
<1> QED  BY <1>1, <1>2 DEF SessionRecords

\* Every read of a client keeps the invariant.
LEMMA ReadsKeep ==
    ASSUME SessionInv, NEW c \in Clients, NEW s \in SessionIds,
           \/ \E to \in SessionStatus : ReadForStatus(c, s, to)
           \/ ReadForTouch(c, s)
           \/ \E conv \in Bindables : ReadForBind(c, s, conv)
    PROVE  SessionInv'
<1>1. s \in DOMAIN sessions
  BY DEF ReadForStatus, ReadForTouch, ReadForBind
<1>2. PICK rec \in SessionRecords : rec = sessions[s]
  BY <1>1 DEF SessionInv, SessionTypeOK
<1>3. rec.version \in Nat
  BY DEF SessionRecords
<1>4. ASSUME NEW to \in SessionStatus, ReadForStatus(c, s, to)
      PROVE  SessionInv'
  <2>1. PICK q : q = [rec EXCEPT !.status = to]
    OBVIOUS
  <2>2. q \in SessionRecords /\ q.status = to /\ q.version = rec.version /\ q.convs = rec.convs
    BY <2>1 DEF SessionRecords
  <2>3. ReadFor(c, s, "save", Bumped(q)) /\ SessionCanTransition(rec.status, to)
    BY <1>2, <1>4, <2>1 DEF ReadForStatus
  <2>4. Bumped(q) \in SessionRecords /\ LegalMove(rec, Bumped(q))
    BY <1>3, <2>2, <2>3, BumpedIs DEF LegalMove
  <2> QED  BY <1>1, <1>2, <2>3, <2>4, SessionReadKeeps
<1>5. ASSUME ReadForTouch(c, s)
      PROVE  SessionInv'
  <2>1. ReadFor(c, s, "save", Bumped(rec))
    BY <1>2, <1>5 DEF ReadForTouch
  <2>2. Bumped(rec) \in SessionRecords /\ LegalMove(rec, Bumped(rec))
    BY <1>3, BumpedIs DEF LegalMove
  <2> QED  BY <1>1, <1>2, <2>1, <2>2, SessionReadKeeps
<1>6. ASSUME NEW conv \in Bindables, ReadForBind(c, s, conv)
      PROVE  SessionInv'
  <2>1. CASE conv \in rec.convs
    <3>1. ReadFor(c, s, "save", rec)
      BY <1>2, <1>6, <2>1 DEF ReadForBind
    <3>2. LegalMove(rec, rec)
      BY <1>3 DEF LegalMove
    <3> QED  BY <1>1, <1>2, <3>1, <3>2, SessionReadKeeps
  <2>2. CASE conv \notin rec.convs
    <3>1. PICK q : q = [rec EXCEPT !.convs = @ \cup {conv}]
      OBVIOUS
    <3>2. q \in SessionRecords /\ q.status = rec.status /\ q.version = rec.version /\ rec.convs \subseteq q.convs
      BY <3>1 DEF SessionRecords
    <3>3. ReadFor(c, s, "save", Bumped(q))
      BY <1>2, <1>6, <2>2, <3>1 DEF ReadForBind
    <3>4. Bumped(q) \in SessionRecords /\ LegalMove(rec, Bumped(q))
      BY <1>3, <3>2, BumpedIs DEF LegalMove
    <3> QED  BY <1>1, <1>2, <3>3, <3>4, SessionReadKeeps
  <2> QED  BY <2>1, <2>2
<1> QED  BY <1>4, <1>5, <1>6

\* A save keeps the invariant.
LEMMA SaveKeeps ==
    ASSUME SessionInv, NEW c \in Clients, SaveSession(c)
    PROVE  SessionInv'
<1>1. PICK r \in Saves : r = client[c]
  <2>1. client[c] \in Saves \cup {Resting} /\ client[c].op = "save"
    BY DEF SaveSession, SessionInv, SessionTypeOK
  <2>2. Resting.op # "save"
    BY DEF Resting
  <2> QED  BY <2>1, <2>2
<1>2. /\ sessions' = [sessions EXCEPT ![r.id] = r.copy] /\ client' = [client EXCEPT ![c] = Resting]
      /\ stale' \subseteq stale \cup {r.id} /\ UNCHANGED <<bound, role, grants, revoked>>
  BY <1>1 DEF SaveSession
<1>3. r.id \in SessionIds /\ r.copy \in SessionRecords
  BY DEF Saves
<1>4. SessionTypeOK'
  BY <1>2, <1>3 DEF SessionInv, SessionTypeOK
<1>5. SavesLegal'
  BY <1>2 DEF SessionInv, SessionTypeOK, SavesLegal, LegalMove, Resting
<1> QED  BY <1>4, <1>5 DEF SessionInv

\* A new session, a binding and the permissions keep the invariant.
LEMMA OthersKeep ==
    ASSUME SessionInv,
           \/ \E s \in SessionIds : CreateSession(s) \/ \E m \in Bindables : BindMission(s, m)
           \/ IdentityNext
    PROVE  SessionInv'
<1>1. ASSUME NEW s \in SessionIds, CreateSession(s)
      PROVE  SessionInv'
  <2>1. PICK r : r = [status |-> "CREATED", version |-> 1, convs |-> {}]
    OBVIOUS
  <2>2. r \in SessionRecords
    BY <2>1 DEF SessionRecords, SessionStatus
  <2>3. /\ sessions' = [t \in DOMAIN sessions \cup {s} |-> IF t = s THEN r ELSE sessions[t]]
        /\ UNCHANGED <<bound, client, stale, role, grants, revoked>>
    BY <1>1, <2>1 DEF CreateSession
  <2>4. SessionTypeOK'
    BY <2>2, <2>3 DEF SessionInv, SessionTypeOK
  <2> QED  BY <2>3, <2>4 DEF SessionInv, SavesLegal, LegalMove
<1>2. ASSUME NEW s \in SessionIds, NEW m \in Bindables, BindMission(s, m)
      PROVE  SessionInv'
  BY <1>2 DEF BindMission, SessionInv, SessionTypeOK, SavesLegal, LegalMove
<1>3. ASSUME NEW p \in Permissions, GrantPermission(p) \/ RevokePermission(p)
      PROVE  SessionInv'
  BY <1>3 DEF GrantPermission, RevokePermission, SessionInv, SessionTypeOK, SavesLegal, LegalMove
<1>4. ASSUME NEW r \in DOMAIN RolePermissions, SetRole(r)
      PROVE  SessionInv'
  BY <1>4 DEF SetRole, SessionInv, SessionTypeOK, SavesLegal, LegalMove
<1> QED  BY <1>1, <1>2, <1>3, <1>4 DEF IdentityNext

\* Every step keeps the invariant.
LEMMA SessionStep == SessionInv /\ [SessionNext \/ IdentityNext]_sessionVars => SessionInv'
<1>1. SessionInv /\ UNCHANGED sessionVars => SessionInv'
  BY DEF sessionVars, SessionInv, SessionTypeOK, SavesLegal, LegalMove
<1> QED  BY <1>1, ReadsKeep, SaveKeeps, OthersKeep DEF SessionNext

\* What a step does to a session that no stale copy was saved over.
SessionMoves(s) ==
    s \in stale' \/ (/\ LegalMove(sessions[s], sessions'[s])
                     /\ sessions'[s] = sessions[s] \/ sessions'[s].status \in SessionStatus)

\* Every step moves a session legally, unless a stale copy was saved over it.
LEMMA StepsMove ==
    ASSUME SessionInv, SessionNext \/ IdentityNext, NEW s \in DOMAIN sessions
    PROVE  SessionMoves(s)
<1>1. sessions[s] \in SessionRecords /\ sessions[s].version \in Nat
  BY DEF SessionInv, SessionTypeOK, SessionRecords
<1>2. CASE sessions'[s] = sessions[s]
  BY <1>1, <1>2 DEF SessionMoves, LegalMove
<1>3. ASSUME NEW c \in Clients, SaveSession(c)
      PROVE  SessionMoves(s)
  <2>1. PICK r \in Saves : r = client[c]
    <3>1. client[c] \in Saves \cup {Resting} /\ client[c].op = "save"
      BY <1>3 DEF SaveSession, SessionInv, SessionTypeOK
    <3>2. Resting.op # "save"
      BY DEF Resting
    <3> QED  BY <3>1, <3>2
  <2>2. r.copy \in SessionRecords /\ r.op = "save"
    BY DEF Saves
  <2>3. LegalMove(r.seen, r.copy)
    BY <2>1, <2>2 DEF SessionInv, SavesLegal
  <2>4. CASE s # r.id
    BY <1>2, <1>3, <2>1, <2>4 DEF SaveSession
  <2>5. CASE s = r.id /\ sessions[s] # r.seen
    BY <1>3, <2>1, <2>5 DEF SaveSession, SessionMoves
  <2>6. CASE s = r.id /\ sessions[s] = r.seen
    <3>1. sessions'[s] = r.copy
      BY <1>3, <2>1, <2>6 DEF SaveSession
    <3> QED  BY <2>2, <2>3, <2>6, <3>1 DEF SessionMoves, SessionRecords
  <2> QED  BY <2>4, <2>5, <2>6
<1>4. ASSUME NEW t \in SessionIds, CreateSession(t)
      PROVE  SessionMoves(s)
  BY <1>2, <1>4 DEF CreateSession
<1>5. ASSUME UNCHANGED sessions
      PROVE  SessionMoves(s)
  BY <1>2, <1>5
<1> QED
  BY <1>3, <1>4, <1>5 DEF SessionNext, IdentityNext, BindMission, ReadForStatus, ReadForTouch, ReadForBind,
     ReadFor, GrantPermission, RevokePermission, SetRole

\* Unless a stale copy was saved, sessions move legally, and what was revoked
\* stays so (session_persistence.py, identity.py).
THEOREM SessionTheorem == SessionSpec => SessionsAdvance
<1>1. SessionInit => SessionInv
  BY DEF SessionInit, SessionInv, SessionTypeOK, SavesLegal, Resting, RolePermissions
<1> DEFINE Advance ==
      /\ \A s \in DOMAIN sessions :
            \/ s \in stale'
            \/ /\ sessions'[s].status # sessions[s].status =>
                    /\ SessionCanTransition(sessions[s].status, sessions'[s].status)
                    /\ sessions[s].status \in Terminal => sessions'[s].status = "FAILED"
               /\ sessions'[s].version >= sessions[s].version
               /\ sessions[s].convs \subseteq sessions'[s].convs
      /\ \A p \in Permissions : /\ p \in revoked => ~CheckPermission(p, FALSE)'
                                /\ p \in AgentDenied => ~CheckPermission(p, TRUE)'
<1>2. SessionInv /\ [SessionNext \/ IdentityNext]_sessionVars => [Advance]_sessionVars
  <2> SUFFICES ASSUME SessionInv, SessionNext \/ IdentityNext
               PROVE  Advance
    OBVIOUS
  <2>1. ASSUME NEW s \in DOMAIN sessions, s \notin stale'
        PROVE  /\ sessions'[s].status # sessions[s].status =>
                    /\ SessionCanTransition(sessions[s].status, sessions'[s].status)
                    /\ sessions[s].status \in Terminal => sessions'[s].status = "FAILED"
               /\ sessions'[s].version >= sessions[s].version
               /\ sessions[s].convs \subseteq sessions'[s].convs
    BY <2>1, StepsMove, TerminalOnlyFails DEF SessionMoves, LegalMove
  <2>2. revoked \subseteq revoked'
    BY DEF SessionNext, IdentityNext, CreateSession, SaveSession, BindMission, ReadForStatus, ReadForTouch,
       ReadForBind, ReadFor, GrantPermission, RevokePermission, SetRole
  <2>3. \A p \in Permissions : /\ p \in revoked => ~CheckPermission(p, FALSE)'
                               /\ p \in AgentDenied => ~CheckPermission(p, TRUE)'
    BY <2>2 DEF CheckPermission
  <2> QED  BY <2>1, <2>3
<1> QED  BY <1>1, <1>2, SessionStep, PTL DEF SessionSpec, SessionsAdvance

------------------------------------------------------------------------------
(* The audit ledger. *)

\* The stored entries are numbered in the order they were made.
Numbered ==
    /\ \A i \in DOMAIN auditStore : auditStore[i].id \in 1..auditMade
    /\ \A i, j \in DOMAIN auditStore : i < j => auditStore[i].id < auditStore[j].id

\* A ledger's last hash is that of its last entry.
HashOfTail == \A l \in Ledgers : lastHash[l] = Tail0(entries[l])

\* The chain while nothing was lost and no two ledgers wrote from one tail.
ChainHolds ==
    ~lost /\ ~shared =>
        /\ ChainIntact(auditStore)
        /\ \A l \in Ledgers : IsPrefix(entries[l], auditStore)

\* The inductive invariant of the audit ledger.
AuditInv == AuditTypeOK /\ Numbered /\ HashOfTail /\ ChainHolds

\* One chain is a prefix of another when it agrees with it as far as it goes.
LEMMA PrefixIs ==
    ASSUME NEW s \in Seq(AuditEntries), NEW t \in Seq(AuditEntries)
    PROVE  IsPrefix(s, t) <=> Len(s) <= Len(t) /\ \A i \in 1..Len(s) : s[i] = t[i]
<1>1. CASE Len(s) <= Len(t)
  <2>1. SubSeq(s, 1, Len(s)) = s
    OBVIOUS
  <2>2. /\ SubSeq(t, 1, Len(s)) \in Seq(AuditEntries) /\ Len(SubSeq(t, 1, Len(s))) = Len(s)
        /\ \A i \in 1..Len(s) : SubSeq(t, 1, Len(s))[i] = t[i]
    BY <1>1
  <2>3. s = SubSeq(t, 1, Len(s)) <=> \A i \in 1..Len(s) : s[i] = t[i]
    <3>1. ASSUME \A i \in 1..Len(s) : s[i] = t[i]
          PROVE  s = SubSeq(t, 1, Len(s))
      BY <2>2, <3>1
    <3> QED  BY <2>2, <3>1
  <2> QED  BY <1>1, <2>1, <2>3 DEF IsPrefix
<1>2. CASE ~(Len(s) <= Len(t))
  BY <1>2 DEF IsPrefix
<1> QED  BY <1>1, <1>2

\* A chain is a prefix of itself.
LEMMA SelfPrefix ==
    ASSUME NEW s \in Seq(AuditEntries)
    PROVE  IsPrefix(s, s)
<1>1. Len(s) \in Nat
  OBVIOUS
<1> QED  BY <1>1, PrefixIs

\* The tail of a chain, and of a chain with one entry more.
LEMMA TailIs ==
    ASSUME NEW s \in Seq(AuditEntries), NEW e \in AuditEntries
    PROVE  /\ Append(s, e) \in Seq(AuditEntries) /\ Tail0(Append(s, e)) = e.id
           /\ Len(s) = 0 => Tail0(s) = 0
           /\ Len(s) > 0 => Tail0(s) = s[Len(s)].id
           /\ Tail0(s) \in Nat
<1>1. Append(s, e) \in Seq(AuditEntries) /\ Append(s, e) # <<>> /\ Len(Append(s, e)) = Len(s) + 1
      /\ Append(s, e)[Len(s) + 1] = e
  OBVIOUS
<1>2. Tail0(Append(s, e)) = e.id
  BY <1>1 DEF Tail0, Last
<1>3. Len(s) = 0 => Tail0(s) = 0
  BY DEF Tail0
<1>4. Len(s) > 0 => Tail0(s) = s[Len(s)].id /\ s[Len(s)] \in AuditEntries
  BY DEF Tail0, Last
<1>5. Tail0(s) \in Nat
  BY <1>3, <1>4 DEF AuditEntries
<1> QED  BY <1>1, <1>2, <1>3, <1>4, <1>5

\* A ledger whose tail is that of the store has all of it.
LEMMA SameTailSameChain ==
    ASSUME AuditInv, NEW l \in Ledgers, IsPrefix(entries[l], auditStore), lastHash[l] = Tail0(auditStore)
    PROVE  entries[l] = auditStore
<1>1. PICK s : s = entries[l]
  OBVIOUS
<1>2. s \in Seq(AuditEntries) /\ auditStore \in Seq(AuditEntries) /\ auditMade \in Nat
  BY <1>1 DEF AuditInv, AuditTypeOK
<1>3. Len(s) <= Len(auditStore) /\ \A i \in 1..Len(s) : s[i] = auditStore[i]
  BY <1>1, <1>2, PrefixIs
<1>4. Tail0(s) = Tail0(auditStore)
  BY <1>1 DEF AuditInv, HashOfTail
<1>5. Len(s) = Len(auditStore)
  <2>1. CASE Len(auditStore) = 0
    BY <1>2, <1>3, <2>1
  <2>2. CASE Len(auditStore) > 0
    <3>1. PICK e \in AuditEntries : e = auditStore[Len(auditStore)]
      BY <1>2, <2>2
    <3>2. Tail0(auditStore) = auditStore[Len(auditStore)].id /\ Tail0(auditStore) \in 1..auditMade
      BY <1>2, <2>2, <3>1, TailIs DEF AuditInv, Numbered
    <3>3. Len(s) > 0
      BY <1>2, <1>4, <3>1, <3>2, TailIs
    <3>4. auditStore[Len(s)].id = auditStore[Len(auditStore)].id
      BY <1>2, <1>3, <1>4, <3>1, <3>2, <3>3, TailIs
    <3>5. Len(s) \in DOMAIN auditStore /\ Len(auditStore) \in DOMAIN auditStore
      BY <1>2, <1>3, <3>3
    <3>6. PICK m \in Nat : m = Len(s)
      BY <1>2
    <3>7. PICK n \in Nat : n = Len(auditStore)
      BY <1>2
    <3>8. /\ m \in DOMAIN auditStore /\ n \in DOMAIN auditStore /\ m <= n
          /\ auditStore[m].id = auditStore[n].id /\ auditStore[n].id \in Nat
      BY <1>2, <1>3, <3>1, <3>4, <3>5, <3>6, <3>7 DEF AuditEntries
    <3>9. ~(m < n)
      BY <3>8 DEF AuditInv, Numbered
    <3> QED  BY <3>6, <3>7, <3>8, <3>9
  <2> QED  BY <1>2, <2>1, <2>2
<1> QED  BY <1>1, <1>2, <1>3, <1>5

\* A record keeps the invariant, whether its save fails or not.
LEMMA RecordKeeps ==
    ASSUME AuditInv, NEW l \in Ledgers, NEW kept \in BOOLEAN, RecordAudit(l, kept)
    PROVE  AuditInv'
<1>1. PICK e : e = NewEntry(l)
  OBVIOUS
<1>2. e \in AuditEntries /\ e.id = auditMade + 1 /\ e.prev = lastHash[l]
  BY <1>1 DEF NewEntry, AuditEntries, AuditInv, AuditTypeOK
<1>3. /\ auditMade' = auditMade + 1 /\ auditMade \in Nat
      /\ entries' = [entries EXCEPT ![l] = Append(entries[l], e)]
      /\ lastHash' = [lastHash EXCEPT ![l] = e.id]
      /\ auditStore' = IF kept THEN Append(auditStore, e) ELSE auditStore
      /\ lost' = (lost \/ ~kept)
      /\ shared' = (shared \/ (~lost /\ lastHash[l] # Tail0(auditStore)))
  BY <1>1 DEF RecordAudit, AuditInv, AuditTypeOK
<1>4. /\ entries \in [Ledgers -> Seq(AuditEntries)] /\ lastHash \in [Ledgers -> Nat]
      /\ auditStore \in Seq(AuditEntries) /\ lost \in BOOLEAN /\ shared \in BOOLEAN
  BY DEF AuditInv, AuditTypeOK
<1>5. Append(entries[l], e) \in Seq(AuditEntries) /\ Append(auditStore, e) \in Seq(AuditEntries)
  BY <1>2, <1>4
<1>6. AuditTypeOK'
  <2>1. lost' \in BOOLEAN /\ shared' \in BOOLEAN
    BY <1>3, <1>4, Zenon
  <2> QED  BY <1>2, <1>3, <1>4, <1>5, <2>1 DEF AuditTypeOK, AuditEntries
<1>7. Numbered'
  <2>1. CASE kept
    <3>1. auditStore' = Append(auditStore, e)
      BY <1>3, <2>1
    <3>2. /\ DOMAIN auditStore' = 1..(Len(auditStore) + 1) /\ DOMAIN auditStore = 1..Len(auditStore)
          /\ auditStore'[Len(auditStore) + 1] = e
          /\ \A i \in 1..Len(auditStore) : auditStore'[i] = auditStore[i]
      BY <1>2, <1>4, <3>1
    <3>3. \A i \in 1..Len(auditStore) : auditStore[i].id \in 1..auditMade
      BY <3>2 DEF AuditInv, Numbered
    <3> QED  BY <1>2, <1>3, <1>4, <3>2, <3>3 DEF AuditInv, Numbered
  <2>2. CASE ~kept
    BY <1>3, <2>2 DEF AuditInv, Numbered
  <2> QED  BY <2>1, <2>2
<1>8. HashOfTail'
  BY <1>2, <1>3, <1>4, TailIs DEF AuditInv, HashOfTail
<1>9. ChainHolds'
  <2> SUFFICES ASSUME ~lost', ~shared'
               PROVE  /\ ChainIntact(auditStore')
                      /\ \A k \in Ledgers : IsPrefix(entries'[k], auditStore')
    BY DEF ChainHolds, ChainIntact
  <2>1. kept /\ ~lost /\ ~shared /\ lastHash[l] = Tail0(auditStore)
    BY <1>3, Zenon
  <2>2. ChainIntact(auditStore) /\ \A k \in Ledgers : IsPrefix(entries[k], auditStore)
    BY <2>1 DEF AuditInv, ChainHolds
  <2>3. entries[l] = auditStore
    BY <2>1, <2>2, SameTailSameChain
  <2>4. auditStore' = Append(auditStore, e) /\ entries'[l] = auditStore'
    BY <1>3, <1>4, <2>1, <2>3
  <2>5. /\ DOMAIN auditStore' = 1..(Len(auditStore) + 1) /\ DOMAIN auditStore = 1..Len(auditStore)
        /\ Len(auditStore') = Len(auditStore) + 1 /\ auditStore'[Len(auditStore) + 1] = e
        /\ \A i \in 1..Len(auditStore) : auditStore'[i] = auditStore[i]
    BY <1>2, <1>4, <2>4
  <2>6. e.prev = IF Len(auditStore) = 0 THEN 0 ELSE auditStore[Len(auditStore)].id
    BY <1>2, <1>4, <2>1, TailIs
  <2>7. ChainIntact(auditStore')
    <3> SUFFICES ASSUME NEW i \in 1..(Len(auditStore) + 1)
                 PROVE  auditStore'[i].prev = IF i = 1 THEN 0 ELSE auditStore'[i - 1].id
      BY <2>5 DEF ChainIntact
    <3>1. CASE i \in 1..Len(auditStore)
      <4>1. auditStore'[i] = auditStore[i] /\ (i # 1 => auditStore'[i - 1] = auditStore[i - 1])
        BY <1>4, <2>5, <3>1
      <4> QED  BY <2>2, <2>5, <3>1, <4>1 DEF ChainIntact
    <3>2. CASE i = Len(auditStore) + 1
      <4>1. auditStore'[i] = e /\ (i # 1 => auditStore'[i - 1] = auditStore[i - 1] /\ i - 1 = Len(auditStore))
        BY <1>4, <2>5, <3>2
      <4> QED  BY <1>4, <2>6, <3>2, <4>1
    <3> QED  BY <1>4, <3>1, <3>2
  <2>8. ASSUME NEW k \in Ledgers
        PROVE  IsPrefix(entries'[k], auditStore')
    <3>1. PICK s : s = entries[k]
      OBVIOUS
    <3>2. CASE k = l
      BY <1>5, <2>4, <3>2, SelfPrefix
    <3>3. CASE k # l
      <4>1. entries'[k] = s /\ s \in Seq(AuditEntries)
        BY <1>3, <1>4, <3>1, <3>3
      <4>2. Len(s) <= Len(auditStore) /\ \A i \in 1..Len(s) : s[i] = auditStore[i]
        BY <1>4, <2>2, <3>1, <4>1, PrefixIs
      <4>3. Len(s) <= Len(auditStore') /\ \A i \in 1..Len(s) : s[i] = auditStore'[i]
        BY <1>4, <2>5, <4>1, <4>2
      <4> QED  BY <1>5, <2>4, <4>1, <4>3, PrefixIs
    <3> QED  BY <3>2, <3>3
  <2> QED  BY <2>7, <2>8
<1> QED  BY <1>6, <1>7, <1>8, <1>9 DEF AuditInv

\* A reload keeps the invariant.
LEMMA ReloadKeeps ==
    ASSUME AuditInv, NEW l \in Ledgers, ReloadAudit(l)
    PROVE  AuditInv'
<1>1. /\ auditStore \in Seq(AuditEntries) /\ entries' = [entries EXCEPT ![l] = auditStore]
      /\ lastHash' = [lastHash EXCEPT ![l] = Tail0(auditStore)]
      /\ UNCHANGED <<auditStore, auditMade, lost, shared>>
      /\ entries \in [Ledgers -> Seq(AuditEntries)] /\ lastHash \in [Ledgers -> Nat]
  BY DEF ReloadAudit, AuditInv, AuditTypeOK
<1>2. Tail0(auditStore) \in Nat
  <2>1. [id |-> 0, prev |-> 0] \in AuditEntries
    BY DEF AuditEntries
  <2> QED  BY <1>1, <2>1, TailIs
<1>3. AuditTypeOK'
  BY <1>1, <1>2 DEF AuditInv, AuditTypeOK
<1>4. Numbered' /\ HashOfTail'
  BY <1>1 DEF AuditInv, Numbered, HashOfTail
<1>5. IsPrefix(auditStore, auditStore)
  BY <1>1, SelfPrefix
<1>6. ChainHolds'
  BY <1>1, <1>5 DEF AuditInv, ChainHolds, ChainIntact
<1> QED  BY <1>3, <1>4, <1>6 DEF AuditInv

\* The audit chain survives every order of records, failed saves and reloads
\* (security_audit.py).
THEOREM AuditTheorem == AuditSpec => []ChainSurvives
<1>1. AuditInit => AuditInv
  <2> SUFFICES ASSUME AuditInit PROVE AuditInv
    OBVIOUS
  <2>1. <<>> \in Seq(AuditEntries)
    OBVIOUS
  <2>2. lost \in BOOLEAN /\ shared \in BOOLEAN
    BY Zenon DEF AuditInit
  <2>3. AuditTypeOK
    BY <2>1, <2>2 DEF AuditInit, AuditTypeOK
  <2>4. IsPrefix(<<>>, <<>>)
    BY <2>1, SelfPrefix
  <2> QED  BY <2>3, <2>4 DEF AuditInit, AuditInv, Numbered, HashOfTail, ChainHolds, ChainIntact, Tail0
<1>2. AuditInv /\ [AuditNext]_auditVars => AuditInv'
  <2>1. AuditInv /\ UNCHANGED auditVars => AuditInv'
    BY DEF auditVars, AuditInv, AuditTypeOK, Numbered, HashOfTail, ChainHolds, ChainIntact
  <2> QED  BY <2>1, RecordKeeps, ReloadKeeps DEF AuditNext
<1>3. AuditInv => ChainSurvives
  BY DEF AuditInv, ChainHolds, ChainSurvives, MissingEvents, DetectTamper, ChainIntact
<1> QED  BY <1>1, <1>2, <1>3, PTL DEF AuditSpec

------------------------------------------------------------------------------
(* Connectors. *)

\* The circuit is closed exactly while the failures counted are below the threshold.
CircuitCounts == circuit.state = "closed" <=> circuit.failures < FailureThreshold

\* Every browser open or to be opened was started; after one start the one
\* browser there may be is attached, and its connector not stopped.
BrowsersOwned ==
    /\ browsers + starting <= launches
    /\ launches <= 1 /\ browsers > 0 => attached /\ connState # "stopped"

\* What was fetched came from a public address.
FetchedPublic == \A f \in fetched : SsrfOk(f.first) /\ (f.by # "screenshot" => SsrfOk(f.last))

\* The inductive invariant of a connector and its circuit.
ConnectorInv == ConnectorTypeOK /\ CircuitCounts /\ ~admittedOpen /\ BrowsersOwned /\ FetchedPublic

\* A step of a connector's life keeps the invariant.
LEMMA LifecycleKeeps ==
    ASSUME ConnectorInv, LifecycleNext
    PROVE  ConnectorInv'
<1> USE DEF ConnectorInv, ConnectorTypeOK, CircuitCounts, BrowsersOwned, FetchedPublic
<1>1. CASE RegisterConnector
  BY <1>1 DEF RegisterConnector, circuitVars
<1>9. CASE UnregisterConnector
  BY <1>9 DEF UnregisterConnector, circuitVars
<1>10. CASE ConfigureConnector
  BY <1>10 DEF ConfigureConnector, circuitVars
<1>8. CASE HealthCheck
  BY <1>8 DEF HealthCheck, circuitVars
<1>2. CASE StartAll
  BY <1>2 DEF StartAll, circuitVars
<1>3. CASE StopAll
  BY <1>3 DEF StopAll, circuitVars
<1>4. ASSUME NEW launched \in BOOLEAN, Started(launched)
      PROVE  ConnectorInv'
  BY <1>4 DEF Started, circuitVars
<1>5. ASSUME NEW scope \in Scopes, RevokeScope(scope)
      PROVE  ConnectorInv'
  BY <1>5 DEF RevokeScope, lifeVars, circuitVars
<1>6. ASSUME NEW first \in {"public", "private"}, InvokeHttp(first)
      PROVE  ConnectorInv'
  BY <1>6 DEF InvokeHttp, lifeVars
<1>7. ASSUME NEW first \in {"public", "private"}, NEW last \in {"public", "private"},
             NEW action \in {"navigate", "screenshot", "submit"}, InvokeBrowser(action, first, last)
      PROVE  ConnectorInv'
  BY <1>7 DEF InvokeBrowser, lifeVars, RedirectOk, SsrfOk
<1> QED  BY <1>1, <1>2, <1>3, <1>4, <1>5, <1>6, <1>7, <1>8, <1>9, <1>10
          DEF LifecycleNext

\* A failure keeps the circuit closed exactly while its count is below the threshold.
LEMMA FailureCounts ==
    ASSUME NEW c \in Circuits, c.state = "closed" => c.failures <= FailureThreshold,
           c.state # "closed" => c.failures > FailureThreshold
    PROVE  /\ FailedCircuit(c) \in Circuits
           /\ FailedCircuit(c).state = "closed" <=> FailedCircuit(c).failures < FailureThreshold
<1>1. FailureThreshold \in Nat /\ c.failures \in Nat
  BY CircuitAssumption DEF Circuits
<1>2. CASE c.state = "half_open"
  <2>1. PICK d : d = [c EXCEPT !.state = "open", !.trials = @ + 1]
    OBVIOUS
  <2>2. d \in Circuits /\ d.state = "open" /\ d.failures = c.failures
    <3>1. PICK n \in Nat : n = c.trials + 1
      BY DEF Circuits
    <3>2. d = [c EXCEPT !.state = "open", !.trials = n]
      BY <2>1, <3>1
    <3> QED  BY <3>2 DEF Circuits
  <2> QED  BY <1>1, <1>2, <2>1, <2>2 DEF FailedCircuit
<1>3. CASE c.state # "half_open" /\ c.failures >= FailureThreshold
  <2>1. PICK d : d = [c EXCEPT !.state = "open"]
    OBVIOUS
  <2>2. d \in Circuits /\ d.state = "open" /\ d.failures = c.failures
    BY <2>1 DEF Circuits
  <2> QED  BY <1>1, <1>3, <2>1, <2>2 DEF FailedCircuit
<1>4. CASE c.state # "half_open" /\ ~(c.failures >= FailureThreshold)
  BY <1>1, <1>4 DEF FailedCircuit
<1> QED  BY <1>2, <1>3, <1>4

\* A request, its outcome or a tick of the clock keeps the invariant.
LEMMA CircuitKeeps ==
    ASSUME ConnectorInv, CircuitNext
    PROVE  ConnectorInv'
<1> USE DEF ConnectorInv, ConnectorTypeOK, CircuitCounts, BrowsersOwned, FetchedPublic
<1>1. CASE AllowRequest
  <2>1. circuit' \in Circuits /\ circuit'.failures = circuit.failures
        /\ (circuit'.state = "closed" <=> circuit.state = "closed")
    BY <1>1 DEF AllowRequest, AllowsOpen, Circuits
  <2>2. admittedOpen' = FALSE
    BY <1>1, CircuitAssumption DEF AllowRequest, AllowsOpen, Circuits
  <2> QED  BY <1>1, <2>1, <2>2 DEF AllowRequest, lifeVars
<1>2. CASE RecordSuccess
  <2>1. circuit' \in Circuits /\ (circuit'.state = "closed" <=> circuit'.failures < FailureThreshold)
    <3>1. FailureThreshold \in Nat /\ FailureThreshold > 0
      BY CircuitAssumption
    <3>2. CASE circuit.state = "half_open"
      BY <1>2, <3>1, <3>2 DEF RecordSuccess, Circuits
    <3>3. CASE circuit.state = "closed"
      BY <1>2, <3>1, <3>3 DEF RecordSuccess, Circuits
    <3>4. CASE circuit.state = "open"
      BY <1>2, <3>4 DEF RecordSuccess
    <3> QED  BY <3>2, <3>3, <3>4 DEF Circuits
  <2> QED  BY <1>2, <2>1 DEF RecordSuccess, lifeVars
<1>3. CASE RecordFailure
  <2>1. PICK c : c = [circuit EXCEPT !.failures = @ + 1, !.last = ticks]
    OBVIOUS
  <2>2. c \in Circuits /\ c.state = circuit.state /\ c.failures = circuit.failures + 1
    <3>1. circuit.failures + 1 \in Nat /\ ticks \in Nat
      BY DEF Circuits
    <3>2. PICK n \in Nat : n = circuit.failures + 1
      BY <3>1
    <3>3. c = [circuit EXCEPT !.failures = n, !.last = ticks]
      BY <2>1, <3>2
    <3> QED  BY <3>1, <3>2, <3>3 DEF Circuits
  <2>3. circuit' = FailedCircuit(c)
    BY <1>3, <2>1 DEF RecordFailure
  <2>4. /\ c.state = "closed" => c.failures <= FailureThreshold
        /\ c.state # "closed" => c.failures > FailureThreshold
    BY <2>2, CircuitAssumption DEF Circuits
  <2>5. circuit' \in Circuits /\ (circuit'.state = "closed" <=> circuit'.failures < FailureThreshold)
    BY <2>2, <2>3, <2>4, FailureCounts
  <2> QED  BY <1>3, <2>5 DEF RecordFailure, lifeVars
<1>4. CASE Tick
  BY <1>4 DEF Tick, lifeVars
<1> QED  BY <1>1, <1>2, <1>3, <1>4 DEF CircuitNext

\* The circuit opens at the threshold and lets nothing through before its
\* timeout, a browser started once is closed by its stop, and what was fetched
\* is public (connectors/).
THEOREM ConnectorTheorem == ConnectorSpec => []ConnectorsSound
<1>1. ConnectorInit => ConnectorInv
  <2>1. FailureThreshold \in Nat /\ FailureThreshold > 0
    BY CircuitAssumption
  <2>2. ConnectorInit => circuit \in Circuits /\ CircuitCounts
    <3>1. [state |-> "closed", failures |-> 0, trials |-> 0, last |-> 0] \in Circuits
      BY DEF Circuits
    <3> QED  BY <2>1, <3>1 DEF ConnectorInit, CircuitCounts
  <2>3. ConnectorInit => BrowsersOwned /\ FetchedPublic /\ ~admittedOpen
    BY DEF ConnectorInit, BrowsersOwned, FetchedPublic
  <2>4. ConnectorInit => /\ registered \in BOOLEAN /\ healthyFlag \in BOOLEAN /\ attached \in BOOLEAN
                         /\ admittedOpen \in BOOLEAN
    BY Zenon DEF ConnectorInit
  <2>5. ConnectorInit => /\ starting \in Nat /\ browsers \in Nat /\ launches \in Nat
                         /\ inFlight \in Nat /\ ticks \in Nat
                         /\ revokedScopes = {} /\ fetched = {} /\ connState = "unregistered"
    BY DEF ConnectorInit
  <2> QED  BY <2>2, <2>3, <2>4, <2>5 DEF ConnectorInv, ConnectorTypeOK
<1>2. ConnectorInv /\ [LifecycleNext \/ CircuitNext]_connVars => ConnectorInv'
  <2>1. ConnectorInv /\ UNCHANGED connVars => ConnectorInv'
    BY DEF connVars, ConnectorInv, ConnectorTypeOK, CircuitCounts, BrowsersOwned, FetchedPublic
  <2> QED  BY <2>1, LifecycleKeeps, CircuitKeeps
<1>3. ConnectorInv => ConnectorsSound
  BY CircuitAssumption DEF ConnectorInv, ConnectorsSound, ConnectorTypeOK, CircuitCounts, BrowsersOwned, FetchedPublic,
         Circuits
<1> QED  BY <1>1, <1>2, <1>3, PTL DEF ConnectorSpec

------------------------------------------------------------------------------
(* The sandbox. *)

\* An invocation that was not made has started nothing.
NothingUncalled == \A i \in Invocations : call[i] = "none" => group[i] = {} /\ receipt[i] = "none" /\ i \notin profile

\* The inductive invariant of the sandbox.
SandboxInv == SandboxTypeOK /\ NothingUncalled /\ SandboxSound

\* Every step of the sandbox keeps the invariant.
LEMMA SandboxStep == SandboxInv /\ [SandboxNext]_sandboxVars => SandboxInv'
<1> SUFFICES ASSUME SandboxInv, [SandboxNext]_sandboxVars
             PROVE  SandboxInv'
  OBVIOUS
<1>1. ASSUME NEW d \in BOOLEAN, NEW e \in BOOLEAN, SandboxSetup([darwin |-> d, exec |-> e])
      PROVE  SandboxInv'
  BY <1>1 DEF SandboxSetup, SandboxInv, SandboxTypeOK, NothingUncalled, SandboxSound
<1>2. ASSUME NEW i \in Invocations, NEW b \in Backends, NEW cmd \in Commands,
             Refuse(i, b, cmd) \/ SpawnFails(i, b, cmd)
      PROVE  SandboxInv'
  <2>1. /\ call[i] = "none" /\ call' = [call EXCEPT ![i] = b] /\ receipt' = [receipt EXCEPT ![i] = "error"]
        /\ enforced' \in BOOLEAN /\ UNCHANGED <<sbHost, escapes, group, confined, profile>>
    BY <1>2 DEF Refuse, SpawnFails, SandboxInv, SandboxTypeOK
  <2>2. b # "none"
    BY DEF Backends
  <2>3. SandboxTypeOK'
    BY <2>1 DEF SandboxInv, SandboxTypeOK
  <2>4. NothingUncalled' /\ SandboxSound'
    BY <2>1, <2>2 DEF SandboxInv, SandboxTypeOK, NothingUncalled, SandboxSound
  <2> QED  BY <2>3, <2>4 DEF SandboxInv
<1>3. ASSUME NEW i \in Invocations, NEW b \in Backends, NEW cmd \in Commands,
             NEW children \in SUBSET {"child", "detached"}, SpawnSandboxed(i, b, cmd, children)
      PROVE  SandboxInv'
  <2>1. b = "macos" => sbHost.exec
    BY <1>3 DEF SpawnSandboxed, Refuses
  <2> QED  BY <1>3, <2>1 DEF SpawnSandboxed, Backends, SandboxInv, SandboxTypeOK, NothingUncalled, SandboxSound
<1>4. ASSUME NEW i \in Invocations, NEW code \in {"ok", "failed"}, Completes(i, code)
      PROVE  SandboxInv'
  BY <1>4 DEF Completes, SandboxInv, SandboxTypeOK, NothingUncalled, SandboxSound
<1>5. ASSUME NEW i \in Invocations, TimesOut(i)
      PROVE  SandboxInv'
  BY <1>5 DEF TimesOut, KilledBy, SandboxInv, SandboxTypeOK, NothingUncalled, SandboxSound
<1>6. ASSUME NEW i \in Invocations, RunEscapeTest(i)
      PROVE  SandboxInv'
  BY <1>6 DEF RunEscapeTest, SandboxInv, SandboxTypeOK, NothingUncalled, SandboxSound
<1>7. CASE UNCHANGED sandboxVars
  BY <1>7 DEF sandboxVars, SandboxInv, SandboxTypeOK, NothingUncalled, SandboxSound
<1> QED  BY <1>1, <1>2, <1>3, <1>4, <1>5, <1>6, <1>7 DEF SandboxNext

\* Nothing unconfined outlives its sandbox (sandbox_v2.py).
THEOREM SandboxTheorem == SandboxSpec => []SandboxSound
<1>1. SandboxInit => SandboxInv
  <2> SUFFICES ASSUME SandboxInit
               PROVE  SandboxInv
    OBVIOUS
  <2>1. sbHost \in [darwin : BOOLEAN, exec : BOOLEAN] /\ enforced \in BOOLEAN /\ escapes \in Nat /\ profile = {}
    BY DEF SandboxInit
  <2>2. group \in [Invocations -> SUBSET {"main", "child", "detached"}] /\ confined \in [Invocations -> BOOLEAN]
    BY DEF SandboxInit
  <2>3. /\ receipt \in [Invocations -> {"none", "ok", "failed", "error", "timeout"}]
        /\ call \in [Invocations -> Backends \cup {"none"}]
    BY DEF SandboxInit
  <2>4. NothingUncalled /\ SandboxSound
    BY DEF SandboxInit, NothingUncalled, SandboxSound
  <2> QED  BY <2>1, <2>2, <2>3, <2>4 DEF SandboxInv, SandboxTypeOK
<1>2. SandboxInv => SandboxSound
  BY DEF SandboxInv
<1> QED  BY <1>1, <1>2, SandboxStep, PTL DEF SandboxSpec

------------------------------------------------------------------------------
(* The web and the desktop. *)

\* The desktop's focus is on an app the list in force admits, or where it was at the start.
FocusAdmitted == focused = "Finder" \/ CheckApp(focused)

\* The inductive invariant of the access to the web and the desktop.
WebInv == WebTypeOK /\ FocusAdmitted /\ AccessGoverned

\* What evaluate lets through is governed.
LEMMA EvaluateGoverns ==
    ASSUME NEW url, NEW method, NEW ip, NEW given, EvaluateUrl(url, method, ip, given)
    PROVE  /\ RequestFits(url, method) /\ url.host \notin netDeny
           /\ netDefault => url.host \in netAllow
           /\ given \/ url.host \notin netAllow => ip # "metadata" /\ (ip = "private" => url.host \in netAllow)
  BY DEF EvaluateUrl, AddressFits

\* Setting up and asking the egress policy keeps the invariant.
LEMMA PolicyKeeps ==
    ASSUME WebInv, PolicyNext
    PROVE  WebInv'
<1>1. ASSUME NEW change \in {"allow", "deny", "open", "port"}, PolicySetup(change)
      PROVE  WebInv'
  <2>1. netLog = {} /\ netLog' = {} /\ UNCHANGED <<siteVars, deskVars>>
    BY <1>1 DEF PolicySetup
  <2>2. netAllow \subseteq Hosts /\ netDeny \subseteq Hosts /\ netPorts \subseteq {443, 8443} /\ netDefault \in BOOLEAN
    BY DEF WebInv, WebTypeOK
  <2>3. /\ netAllow' \subseteq Hosts /\ netDeny' \subseteq Hosts /\ netPorts' \subseteq {443, 8443}
        /\ netDefault' \in BOOLEAN
    <3>1. ASSUME netDefault' = FALSE
          PROVE  netDefault' \in BOOLEAN
      BY <3>1, Zenon
    <3>2. ASSUME UNCHANGED netDefault
          PROVE  netDefault' \in BOOLEAN
      BY <2>2, <3>2
    <3>3. CASE change = "open"
      <4>1. netDefault' = FALSE /\ UNCHANGED <<netAllow, netDeny, netPorts>>
        BY <1>1, <3>3 DEF PolicySetup
      <4>2. netDefault' \in BOOLEAN
        BY <3>1, <4>1
      <4> QED  BY <2>2, <4>1, <4>2
    <3>4. CASE change = "port"
      <4>1. netPorts' = netPorts \cup {8443} /\ UNCHANGED <<netAllow, netDeny, netDefault>>
        BY <1>1, <3>4 DEF PolicySetup
      <4> QED  BY <2>2, <3>2, <4>1
    <3>5. CASE change \in {"allow", "deny"}
      <4>1. PICK h \in Hosts : /\ netAllow' = IF change = "allow" THEN netAllow \cup {h} ELSE netAllow
                               /\ netDeny' = IF change = "deny" THEN netDeny \cup {h} ELSE netDeny
                               /\ UNCHANGED <<netPorts, netDefault>>
        BY <1>1, <3>5 DEF PolicySetup
      <4> QED  BY <2>2, <3>2, <4>1
    <3> QED  BY <3>3, <3>4, <3>5
  <2>4. WebTypeOK'
    BY <2>1, <2>3 DEF WebInv, WebTypeOK, siteVars, deskVars
  <2>5. AccessGoverned' /\ FocusAdmitted'
    BY <2>1 DEF WebInv, AccessGoverned, FocusAdmitted, CheckApp, siteVars, deskVars
  <2> QED  BY <2>4, <2>5 DEF WebInv
<1>2. ASSUME NEW url \in Urls, NEW method \in {"GET", "POST"}, NEW ip \in Addresses, NEW given \in BOOLEAN,
             PolicyEvaluate(url, method, ip, given)
      PROVE  WebInv'
  <2>1. EvaluateUrl(url, method, ip, given) \in BOOLEAN
    BY DEF EvaluateUrl, RequestFits
  <2>2. PICK yes \in BOOLEAN : yes = EvaluateUrl(url, method, ip, given)
    BY <2>1
  <2>3. PICK d : d = [url |-> url, method |-> method, ip |-> ip, given |-> given, allowed |-> yes]
    OBVIOUS
  <2>4. /\ netLog' = netLog \cup {d}
        /\ UNCHANGED <<netAllow, netDeny, netPorts, netDefault, siteVars, deskVars>>
    BY <1>2, <2>2, <2>3, Zenon DEF PolicyEvaluate
  <2>5. d \in [url : Urls, method : {"GET", "POST"}, ip : Addresses, given : BOOLEAN, allowed : BOOLEAN]
    BY <2>3
  <2>6. WebTypeOK'
    BY <2>4, <2>5 DEF WebInv, WebTypeOK, siteVars, deskVars
  <2>7. d.allowed => /\ RequestFits(d.url, d.method) /\ d.url.host \notin netDeny
                     /\ netDefault => d.url.host \in netAllow
                     /\ d.given \/ d.url.host \notin netAllow =>
                          d.ip # "metadata" /\ (d.ip = "private" => d.url.host \in netAllow)
    BY <2>2, <2>3, EvaluateGoverns
  <2>8. AccessGoverned' /\ FocusAdmitted'
    BY <2>4, <2>7 DEF WebInv, AccessGoverned, RequestFits, FocusAdmitted, CheckApp, siteVars, deskVars
  <2> QED  BY <2>6, <2>8 DEF WebInv
<1> QED  BY <1>1, <1>2 DEF PolicyNext

\* An operation the browser may do is asked of the driver.
BrowserDid(op) ==
    /\ op \in [op : {"navigate", "click", "type", "read_page", "upload", "download"},
               at : Hosts \cup {"file", "page", "sandbox"}, risky : BOOLEAN]
    /\ op.op \in {"navigate", "download"} => op.at \in siteAllow \cup {"file"}
    /\ op.risky => op.op = "read_page"
    /\ webDone' = webDone \cup {op} /\ UNCHANGED <<netVars, siteAllow, deskVars>>

\* An operation the browser was allowed keeps the invariant.
LEMMA BrowserDidKeeps ==
    ASSUME WebInv, NEW op, BrowserDid(op), navs' \in Nat, navs' <= MaxNav
    PROVE  WebInv'
<1> USE DEF WebInv, FocusAdmitted, CheckApp, netVars, deskVars, BrowserDid
<1>1. WebTypeOK'
  BY DEF WebTypeOK
<1>2. AccessGoverned'
  BY DEF AccessGoverned, RequestFits
<1> QED  BY <1>1, <1>2

\* The browser keeps the invariant.
LEMMA BrowserKeeps ==
    ASSUME WebInv, BrowserNext
    PROVE  WebInv'
<1>0. navs \in Nat /\ navs <= MaxNav /\ MaxNav \in Nat /\ siteAllow \subseteq Hosts
  BY NavAssumption DEF WebInv, WebTypeOK, AccessGoverned
<1>1. ASSUME NEW h \in Hosts, BrowserSetup(h)
      PROVE  WebInv'
  <2>1. webDone = {} /\ webDone' = {} /\ siteAllow' \subseteq Hosts /\ UNCHANGED <<netVars, navs, deskVars>>
    BY <1>0, <1>1 DEF BrowserSetup
  <2> QED  BY <2>1 DEF WebInv, WebTypeOK, FocusAdmitted, CheckApp, AccessGoverned, RequestFits, netVars, deskVars
<1>2. ASSUME NEW target \in Hosts \cup {"file"}, Download(target)
      PROVE  WebInv'
  <2>1. PICK op : op = [op |-> "download", at |-> target, risky |-> FALSE]
    OBVIOUS
  <2>2. BrowserDid(op) /\ UNCHANGED navs
    BY <1>2, <2>1 DEF Download, BrowserDo, BrowserDid, CheckDomain
  <2> QED  BY <1>0, <2>2, BrowserDidKeeps
<1>3. ASSUME NEW target \in Hosts \cup {"file"}, NEW risky \in BOOLEAN, Navigate(target, risky)
      PROVE  WebInv'
  <2>1. PICK op : op = [op |-> "navigate", at |-> target, risky |-> risky]
    OBVIOUS
  <2>2. BrowserDid(op) /\ navs' = navs + 1 /\ navs < MaxNav
    BY <1>3, <2>1 DEF Navigate, BrowserDo, BrowserDid, CheckDomain
  <2> QED  BY <1>0, <2>2, BrowserDidKeeps
<1>4. ASSUME NEW name \in {"click", "type", "read_page"}, NEW risky \in BOOLEAN, Interact(name, risky)
      PROVE  WebInv'
  <2>1. PICK op : op = [op |-> name, at |-> "page", risky |-> risky]
    OBVIOUS
  <2>2. BrowserDid(op) /\ UNCHANGED navs
    BY <1>4, <2>1 DEF Interact, BrowserDo, BrowserDid
  <2> QED  BY <1>0, <2>2, BrowserDidKeeps
<1>5. ASSUME NEW inside \in BOOLEAN, Upload(inside)
      PROVE  WebInv'
  <2>1. PICK op : op = [op |-> "upload", at |-> "sandbox", risky |-> FALSE]
    OBVIOUS
  <2>2. BrowserDid(op) /\ UNCHANGED navs
    BY <1>5, <2>1 DEF Upload, BrowserDo, BrowserDid
  <2> QED  BY <1>0, <2>2, BrowserDidKeeps
<1> QED  BY <1>1, <1>2, <1>3, <1>4, <1>5 DEF BrowserNext

\* The desktop keeps the invariant: the focus moves to admitted apps only, and
\* the list is set before anything is typed.
LEMMA DesktopKeeps ==
    ASSUME WebInv, DesktopNext
    PROVE  WebInv'
<1> USE DEF WebInv, WebTypeOK, FocusAdmitted, CheckApp, netVars, siteVars, AppNames, ForbiddenApps
<1>1. ASSUME NEW app \in AppNames, DesktopSetup(app)
      PROVE  WebInv'
  BY <1>1 DEF DesktopSetup, AccessGoverned, RequestFits
<1>2. ASSUME NEW app \in AppNames, FocusApp(app)
      PROVE  WebInv'
  BY <1>2 DEF FocusApp, AccessGoverned, RequestFits
<1>3. ASSUME NEW text \in {"plain", "forbidden"}, TypeText(text)
      PROVE  WebInv'
  <2>1. /\ text = "plain" /\ typed' = typed \cup {<<focused, text>>} /\ UNCHANGED <<netVars, siteVars, apps, focused>>
    BY <1>3 DEF TypeText
  <2>2. focused \notin ForbiddenApps /\ (focused \in apps \/ apps = {} \/ focused = "Finder")
    OBVIOUS
  <2>3. WebTypeOK'
    BY <2>1
  <2>4. AccessGoverned'
    BY <2>1, <2>2 DEF AccessGoverned, RequestFits
  <2> QED  BY <2>1, <2>3, <2>4
<1> QED  BY <1>1, <1>2, <1>3 DEF DesktopNext

\* The web and the desktop see what the policies allow (network_policy.py,
\* browser_adapter.py, computer_use_adapter.py).
THEOREM AccessTheorem == WebSpec => []AccessGoverned
<1>1. WebInit => WebInv
  BY NavAssumption DEF WebInit, WebInv, WebTypeOK, FocusAdmitted, AccessGoverned, AppNames
<1>2. WebInv /\ [PolicyNext \/ BrowserNext \/ DesktopNext]_webVars => WebInv'
  <2>1. WebInv /\ UNCHANGED webVars => WebInv'
    BY DEF webVars, WebInv, WebTypeOK, FocusAdmitted, CheckApp, AccessGoverned, RequestFits
  <2> QED  BY <2>1, PolicyKeeps, BrowserKeeps, DesktopKeeps
<1>3. WebInv => AccessGoverned
  BY DEF WebInv
<1> QED  BY <1>1, <1>2, <1>3, PTL DEF WebSpec

------------------------------------------------------------------------------
(* The suite: the component in focus moves and the others stay. *)

\* A behaviour of the suite is one of each of its components.
LEMMA SuiteRuns ==
    /\ SuiteSpec => LoopSpec
    /\ SuiteSpec => GateSpec
    /\ SuiteSpec => MessageSpec
    /\ SuiteSpec => SessionSpec
    /\ SuiteSpec => AuditSpec
    /\ SuiteSpec => ConnectorSpec
    /\ SuiteSpec => SandboxSpec
    /\ SuiteSpec => WebSpec
<1>1. SuiteInit => /\ LoopInit /\ GateInit /\ MessageInit /\ SessionInit /\ AuditInit
                   /\ ConnectorInit /\ SandboxInit /\ WebInit
  BY DEF SuiteInit
<1>2. [SuiteNext]_suiteVars => /\ [LoopNext]_loopVars /\ [GateNext]_gateVars /\ [MessageNext]_msgVars
                               /\ [SessionNext \/ IdentityNext]_sessionVars /\ [AuditNext]_auditVars
                               /\ [LifecycleNext \/ CircuitNext]_connVars /\ [SandboxNext]_sandboxVars
                               /\ [PolicyNext \/ BrowserNext \/ DesktopNext]_webVars
  <2>1. CASE UNCHANGED suiteVars
    BY <2>1 DEF suiteVars
  <2>2. CASE SuiteNext
    BY <2>2 DEF SuiteNext, Elsewhere, Cycles, Promotes, Sends, Binds, Identifies, Audits, Connects, Breaks,
                Confines, Filters, Browses, Operates
  <2> QED  BY <2>1, <2>2
<1>3. SuiteSpec => SuiteInit /\ [][SuiteNext]_suiteVars
  BY PTL DEF SuiteSpec
<1>4. SuiteSpec => LoopSpec
  BY <1>1, <1>2, <1>3, PTL DEF LoopSpec
<1>5. SuiteSpec => GateSpec
  BY <1>1, <1>2, <1>3, PTL DEF GateSpec
<1>6. SuiteSpec => MessageSpec
  BY <1>1, <1>2, <1>3, PTL DEF MessageSpec
<1>7. SuiteSpec => SessionSpec
  BY <1>1, <1>2, <1>3, PTL DEF SessionSpec
<1>8. SuiteSpec => AuditSpec
  BY <1>1, <1>2, <1>3, PTL DEF AuditSpec
<1>9. SuiteSpec => ConnectorSpec
  BY <1>1, <1>2, <1>3, PTL DEF ConnectorSpec
<1>10. SuiteSpec => SandboxSpec
  BY <1>1, <1>2, <1>3, PTL DEF SandboxSpec
<1>11. SuiteSpec => WebSpec
  BY <1>1, <1>2, <1>3, PTL DEF WebSpec
<1> QED  BY <1>4, <1>5, <1>6, <1>7, <1>8, <1>9, <1>10, <1>11

\* What crosses the border of the system is governed in every behaviour of the
\* suite (message_adapter.py, security_audit.py, connectors/, sandbox_v2.py,
\* network_policy.py, browser_adapter.py, computer_use_adapter.py).
THEOREM BordersTheorem == SuiteSpec => []BordersSound
<1>1. MessageSound /\ ChainSurvives /\ ConnectorsSound /\ SandboxSound /\ AccessGoverned => BordersSound
  BY DEF BordersSound
<1> QED  BY <1>1, SuiteRuns, MessageTheorem, AuditTheorem, ConnectorTheorem, SandboxTheorem, AccessTheorem, PTL

\* The sessions move legally in every behaviour of the suite
\* (session_persistence.py, identity.py).
THEOREM SuiteSessionsTheorem == SuiteSpec => SessionsAdvance
  BY SuiteRuns, SessionTheorem
=============================================================================
