---------------------------- MODULE Brain_proofs ----------------------------
(***************************************************************************)
(* What the orchestrator and the components that decide what the agents do *)
(* keep, with any number of threads, workers, missions, calls, memories    *)
(* and proposals.  Each part has an inductive invariant of its own; at the *)
(* end the suite is shown to implement the parts that share a run with it. *)
(*                                                                         *)
(* Orchestrator.  Nothing is compared when a record is written, so the     *)
(* argument is about the copies: whatever a thread or a call holds, and    *)
(* may write at any time later, is as good as what is stored (LoopGood,    *)
(* CallGood).  That a copy stays good while others write rests on three    *)
(* things that are never undone: a mission was completed (done), a lease   *)
(* was taken for a mission by a worker (Keeps), a job was reported         *)
(* (Reported).  ConsumptionIsGranted counts the calls that approved and    *)
(* those that consumed, so its proof needs to know that a call about to    *)
(* write is not yet counted (ProgressInv).  AttemptsBounded speaks of what *)
(* a copy counts: with one loop thread no copy of it is overtaken, and an  *)
(* attempt above the limit is one that is being decided on (AttemptsInv).  *)
(* Memory.  What is said of a memory by itself (Kept) and where it came    *)
(* from, or the statement in progress that will say so (Provided, Copied). *)
(* Soul.  A snapshot is whole, so restoring one takes nothing to heart     *)
(* that was not learned.                                                   *)
(* Evolution.  Verifications never outnumber applications, the table of    *)
(* vetoes agrees with the process, and the steps of two workers around an  *)
(* effect leave one record of it.                                          *)
(* Council.  Stages that only run executes were executed in order; a seat  *)
(* that is dropped has as many cheaper ones before it as one that is kept. *)
(* Team.  Of the roles an S3 base lacks only reviewer and auditor earn     *)
(* their place, so there is room for the second reviewer.                  *)
(***************************************************************************)
EXTENDS MCBrain, TLAPS, FiniteSetTheorems

------------------------------------------------------------------------------
(* The approval queue. *)

\* A call is counted when it writes, and not before.
ProgressInv ==
    \A c \in ApprovalCalls :
        /\ c \in granted => acall[c].pc = "done"
        /\ c \in used => acall[c].pc \in {"receipt", "done"}
        /\ acall[c].pc = "receipt" => c \in used

\* The inductive invariant of the approval queue.
ApprovalInv == ApprovalTypeOK /\ ProgressInv /\ ConsumptionIsGranted

-----------------------------------------------------------------------------
(* Counting *)

\* The calls counted for a request are finitely many.
LEMMA CountedFinite ==
    ASSUME ApprovalTypeOK, NEW r \in Requests
    PROVE  /\ IsFiniteSet(UsesOf(r)) /\ Cardinality(UsesOf(r)) \in Nat
           /\ IsFiniteSet(GrantsOf(r)) /\ Cardinality(GrantsOf(r)) \in Nat
<1>1. UsesOf(r) \subseteq ApprovalCalls /\ GrantsOf(r) \subseteq ApprovalCalls
  BY DEF ApprovalTypeOK, UsesOf, GrantsOf
<1> QED
  BY <1>1, FS_Subset, FS_CardinalityType, ApprovalQueueAssumption

\* A step that changes neither history nor receipts, and approves nothing,
\* keeps the count.
LEMMA CountKept ==
    ASSUME ConsumptionIsGranted, UNCHANGED <<receipts, granted, used>>,
           \A r \in Requests : request'[r] = "approved" => request[r] = "approved"
    PROVE  ConsumptionIsGranted'
<1>1. \A r : UsesOf(r)' = UsesOf(r) /\ GrantsOf(r)' = GrantsOf(r)
  BY DEF UsesOf, GrantsOf
<1> QED
  BY <1>1 DEF ConsumptionIsGranted

-----------------------------------------------------------------------------
(* The types *)

\* Every step of the approval queue keeps its types.
LEMMA TypeStep ==
    ASSUME ApprovalTypeOK, ApprovalNext
    PROVE  ApprovalTypeOK'
<1> USE ApprovalQueueAssumption DEF ApprovalTypeOK
<1>1. ASSUME NEW r \in Requests, CreateRequest(r)
      PROVE  ApprovalTypeOK'
  BY <1>1 DEF CreateRequest, RequestStatus
<1>2. ASSUME NEW r \in Requests, ExpiresAtPasses(r)
      PROVE  ApprovalTypeOK'
  BY <1>2 DEF ExpiresAtPasses
<1>3. ASSUME NEW c \in ApprovalCalls, Check(c)
      PROVE  ApprovalTypeOK'
  <2>1. PICK pc \in ApprovalPC : Goes(c, pc)
    BY <1>3 DEF Check, ApprovalPC
  <2>2. acall' \in [ApprovalCalls -> [pc : ApprovalPC, status : RequestStatus]]
    BY <2>1 DEF Goes
  <2> QED
    BY <1>3, <2>2 DEF Check
<1>4. ASSUME NEW c \in ApprovalCalls, DecideRequest(c)
      PROVE  ApprovalTypeOK'
  <2>1. DecideTo(c) \in RequestStatus
    BY DEF DecideTo, RequestStatus
  <2>2. acall' \in [ApprovalCalls -> [pc : ApprovalPC, status : RequestStatus]]
    BY <1>4, <2>1 DEF DecideRequest, ApprovalPC
  <2> QED
    BY <1>4, <2>2 DEF DecideRequest
<1>5. ASSUME NEW c \in ApprovalCalls, SaveDecision(c)
      PROVE  ApprovalTypeOK'
  BY <1>5 DEF SaveDecision, Goes, ApprovalPC
<1>6. ASSUME NEW c \in ApprovalCalls, Swap(c)
      PROVE  ApprovalTypeOK'
  BY <1>6 DEF Swap, Goes, ApprovalPC, RequestStatus
<1>7. ASSUME NEW c \in ApprovalCalls, AddApprovalReceipt(c)
      PROVE  ApprovalTypeOK'
  BY <1>7 DEF AddApprovalReceipt, Goes, ApprovalPC
<1> QED
  BY <1>1, <1>2, <1>3, <1>4, <1>5, <1>6, <1>7 DEF ApprovalNext, ApprovalStep

-----------------------------------------------------------------------------
(* Every action keeps the progress of the calls and the count. *)

\* Every step of the approval queue keeps the progress of the calls and the
\* count of grants and uses.
LEMMA CountStep ==
    ASSUME ApprovalInv, ApprovalNext
    PROVE  ProgressInv' /\ ConsumptionIsGranted'
<1> USE DEF ApprovalInv
<1>1. ASSUME NEW r \in Requests, CreateRequest(r) \/ ExpiresAtPasses(r)
      PROVE  ProgressInv' /\ ConsumptionIsGranted'
  <2>1. UNCHANGED <<acall, receipts, granted, used>>
    BY <1>1 DEF CreateRequest, ExpiresAtPasses
  <2>2. \A q \in Requests : request'[q] = "approved" => request[q] = "approved"
    BY <1>1 DEF CreateRequest, ExpiresAtPasses, ApprovalTypeOK
  <2>3. ConsumptionIsGranted'
    BY <2>1, <2>2, CountKept
  <2> QED
    BY <2>1, <2>3 DEF ProgressInv
<1>2. ASSUME NEW c \in ApprovalCalls, Check(c)
      PROVE  ProgressInv' /\ ConsumptionIsGranted'
  <2>1. ConsumptionIsGranted'
    BY <1>2, CountKept DEF Check
  <2>2. PICK pc \in {"done", "decide", "swap"} : Goes(c, pc)
    BY <1>2, ApprovalQueueAssumption DEF Check
  <2>3. acall[c].pc = "check" /\ UNCHANGED <<granted, used>>
    BY <1>2 DEF Check
  <2> QED
    BY <2>1, <2>2, <2>3 DEF Goes, ProgressInv, ApprovalTypeOK
<1>3. ASSUME NEW c \in ApprovalCalls, DecideRequest(c)
      PROVE  ProgressInv' /\ ConsumptionIsGranted'
  <2>1. ConsumptionIsGranted'
    BY <1>3, CountKept DEF DecideRequest
  <2>2. ProgressInv'
    BY <1>3 DEF DecideRequest, ProgressInv, ApprovalTypeOK
  <2> QED
    BY <2>1, <2>2
<1>4. ASSUME NEW c \in ApprovalCalls, SaveDecision(c)
      PROVE  ProgressInv' /\ ConsumptionIsGranted'
  <2>1. ProgressInv'
    BY <1>4 DEF SaveDecision, Goes, ProgressInv, ApprovalTypeOK
  <2>2. c \notin granted
    BY <1>4 DEF SaveDecision, ProgressInv
  <2>3. CASE acall[c].status # "approved"
    <3>1. UNCHANGED <<receipts, granted, used>>
      BY <1>4, <2>3 DEF SaveDecision
    <3>2. \A q \in Requests : request'[q] = "approved" => request[q] = "approved"
      BY <1>4, <2>3 DEF SaveDecision, ApprovalTypeOK
    <3> QED
      BY <2>1, <3>1, <3>2, CountKept
  <2>4. CASE acall[c].status = "approved"
    <3>1. ASSUME NEW r \in Requests
          PROVE  /\ UsesOf(r)' = UsesOf(r)
                 /\ GrantsOf(r)' = IF r = ApprovalArg[c] THEN GrantsOf(r) \cup {c}
                                                        ELSE GrantsOf(r)
      BY <1>4, <2>4 DEF SaveDecision, UsesOf, GrantsOf
    <3>2. ASSUME NEW r \in Requests
          PROVE  Cardinality(GrantsOf(r))' =
                     IF r = ApprovalArg[c] THEN Cardinality(GrantsOf(r)) + 1
                                           ELSE Cardinality(GrantsOf(r))
      <4>1. c \notin GrantsOf(r)
        BY <2>2 DEF GrantsOf
      <4> QED
        BY <3>1, <4>1, CountedFinite, FS_AddElement
    <3>3. ASSUME NEW r \in Requests
          PROVE  request'[r] = IF r = ApprovalArg[c] THEN "approved" ELSE request[r]
      BY <1>4, <2>4 DEF SaveDecision, ApprovalTypeOK
    <3>4. UNCHANGED receipts
      BY <1>4 DEF SaveDecision
    <3>5. ConsumptionIsGranted'
      BY <3>1, <3>2, <3>3, <3>4, CountedFinite DEF ConsumptionIsGranted
    <3> QED
      BY <2>1, <3>5
  <2> QED
    BY <2>3, <2>4
<1>5. ASSUME NEW c \in ApprovalCalls, Swap(c)
      PROVE  ProgressInv' /\ ConsumptionIsGranted'
  <2>1. ProgressInv'
    BY <1>5 DEF Swap, Goes, ProgressInv, ApprovalTypeOK
  <2>2. c \notin used
    BY <1>5 DEF Swap, ProgressInv
  <2>3. CASE request[ApprovalArg[c]] # "approved"
    BY <1>5, <2>1, <2>3, CountKept DEF Swap
  <2>4. CASE request[ApprovalArg[c]] = "approved"
    <3>1. ASSUME NEW r \in Requests
          PROVE  /\ GrantsOf(r)' = GrantsOf(r)
                 /\ UsesOf(r)' = IF r = ApprovalArg[c] THEN UsesOf(r) \cup {c}
                                                      ELSE UsesOf(r)
      BY <1>5, <2>4 DEF Swap, UsesOf, GrantsOf
    <3>2. ASSUME NEW r \in Requests
          PROVE  Cardinality(UsesOf(r))' =
                     IF r = ApprovalArg[c] THEN Cardinality(UsesOf(r)) + 1
                                           ELSE Cardinality(UsesOf(r))
      <4>1. c \notin UsesOf(r)
        BY <2>2 DEF UsesOf
      <4> QED
        BY <3>1, <4>1, CountedFinite, FS_AddElement
    <3>3. ASSUME NEW r \in Requests
          PROVE  request'[r] = IF r = ApprovalArg[c] THEN "consumed" ELSE request[r]
      BY <1>5, <2>4 DEF Swap, ApprovalTypeOK
    <3>4. UNCHANGED receipts
      BY <1>5 DEF Swap
    <3>5. ConsumptionIsGranted'
      BY <2>4, <3>1, <3>2, <3>3, <3>4, CountedFinite DEF ConsumptionIsGranted
    <3> QED
      BY <2>1, <3>5
  <2> QED
    BY <2>3, <2>4
<1>6. ASSUME NEW c \in ApprovalCalls, AddApprovalReceipt(c)
      PROVE  ProgressInv' /\ ConsumptionIsGranted'
  <2>1. ProgressInv'
    BY <1>6 DEF AddApprovalReceipt, Goes, ProgressInv, ApprovalTypeOK
  <2>2. c \in UsesOf(ApprovalArg[c])
    BY <1>6 DEF AddApprovalReceipt, ProgressInv, UsesOf
  <2>3. \A r : UsesOf(r)' = UsesOf(r) /\ GrantsOf(r)' = GrantsOf(r)
    BY <1>6 DEF AddApprovalReceipt, UsesOf, GrantsOf
  <2>4. ConsumptionIsGranted'
    BY <1>6, <2>2, <2>3 DEF AddApprovalReceipt, ConsumptionIsGranted
  <2> QED
    BY <2>1, <2>4
<1> QED
  BY <1>1, <1>2, <1>3, <1>4, <1>5, <1>6 DEF ApprovalNext, ApprovalStep

-----------------------------------------------------------------------------
\* The inductive invariant holds in every reachable state of the queue.
THEOREM ApprovalInvariance == ApprovalSpec => []ApprovalInv
<1>1. ApprovalInit => ApprovalInv
  <2> SUFFICES ASSUME ApprovalInit PROVE ApprovalInv
    OBVIOUS
  <2>1. ApprovalTypeOK /\ ProgressInv
    BY ApprovalQueueAssumption
       DEF ApprovalInit, ApprovalTypeOK, ProgressInv, ApprovalPC, RequestStatus
  <2>2. \A r \in Requests : UsesOf(r) = {} /\ GrantsOf(r) = {}
    BY DEF ApprovalInit, UsesOf, GrantsOf
  <2>3. ConsumptionIsGranted
    BY <2>2, FS_EmptySet DEF ApprovalInit, ConsumptionIsGranted
  <2> QED
    BY <2>1, <2>3 DEF ApprovalInv
<1>2. ApprovalInv /\ [ApprovalNext]_approvalVars => ApprovalInv'
  <2>1. ApprovalInv /\ ApprovalNext => ApprovalInv'
    BY TypeStep, CountStep DEF ApprovalInv
  <2>2. ApprovalInv /\ UNCHANGED approvalVars => ApprovalInv'
    <3> SUFFICES ASSUME ApprovalInv, UNCHANGED approvalVars PROVE ApprovalInv'
      OBVIOUS
    <3>1. ConsumptionIsGranted'
      BY CountKept DEF ApprovalInv, approvalVars
    <3> QED
      BY <3>1 DEF ApprovalInv, approvalVars, ApprovalTypeOK, ProgressInv
  <2> QED
    BY <2>1, <2>2
<1> QED
  BY <1>1, <1>2, PTL DEF ApprovalSpec

\* No request is consumed more often than it was approved, whatever decisions,
\* revocations and consumptions race (consume's compare-and-set).
THEOREM ConsumptionTheorem == ApprovalSpec => []ConsumptionIsGranted
<1>1. ApprovalInv => ConsumptionIsGranted
  BY DEF ApprovalInv
<1> QED
  BY <1>1, ApprovalInvariance, PTL

------------------------------------------------------------------------------
(* The orchestrator. *)

\* A lease of mission m was taken by worker w.
Had(m, w, L) == \E s \in Stamps : L[s].mission = m /\ L[s].worker = w

\* What a queue item of mission m must say, stored or copied.
ItemGood(m, item, L, D) ==
    /\ item.state = "running" =>
          Depends[m] \subseteq D /\ item.owner # None /\ Had(m, item.owner, L)
    /\ item.state = "completed" => m \in D

\* Where a loop thread has a mission in hand, one that was dequeued, a worker.
WithMission == {"reget", "bump", "bumped", "reread", "recover", "check", "schedule",
                "acquire", "claim", "read", "write"}
Dequeued    == {"check", "schedule", "acquire", "claim"}
WithWorker  == {"acquire", "claim"}
AfterWrite  == {"recover", "approvals", "resume", "promoting", "waiting", "wakening", "dequeue"}

\* What a loop thread may rely on.
LoopGood(x, L, D) ==
    /\ x.pc \in WithMission => x.m \in Missions
    /\ x.pc \in Dequeued => Depends[x.m] \subseteq D
    /\ x.pc \in WithWorker => x.w \in Workers
    /\ x.pc \in {"read", "write"} => x.next \in AfterWrite /\ x.target # "completed"
    /\ x.pc \in {"read", "write"} /\ x.target = "running" =>
          Depends[x.m] \subseteq D /\ x.w \in Workers /\ Had(x.m, x.w, L)
    /\ x.pc \in {"write", "bumped"} => ItemGood(x.m, x.copy, L, D)
    /\ \A s \in x.expired \cup x.stale : L[s].mission \in Missions

\* What a call may rely on.
CallGood(c, x, L, J) ==
    /\ x.pc = "submit" => Op[c] = "submit"
    /\ x.pc = "write" /\ Op[c] = "complete" => x.item.state = "completed"
    /\ x.pc = "saveLease" =>
          /\ x.at \in Stamps /\ L[x.at].mission \in Missions
          /\ x.lease.mission = L[x.at].mission /\ x.lease.worker = L[x.at].worker
    /\ x.pc = "failed" =>
          \A j \in x.jobs : JobFor[j] = Arg[c] /\ J[j] \in {"verified", "failed"}
    /\ x.pc \in {"read", "write"} /\ Op[c] = "complete" =>
          \A j \in x.jobs : J[j] = "verified"

\* A lease without mission was never taken.
LeaseInv == \A s \in Stamps : leases[s].mission = None => leases[s].state = "absent"

\* The stamps ahead are free, and each claim about to be made is the only one
\* with its stamp.
ClaimInv ==
    /\ \A s \in Stamps : s > stamp => leases[s].mission = None
    /\ \A l \in Loops : loop[l].pc = "claim" =>
          /\ loop[l].at \in 1..stamp /\ leases[loop[l].at].mission = None
          /\ \A k \in Loops \ {l} : loop[k].pc = "claim" => loop[k].at # loop[l].at

\* The inductive invariant.
OInv ==
    /\ TypeOK
    /\ LeaseInv
    /\ ClaimInv
    /\ \A m \in Missions : ItemGood(m, queue[m], leases, done)
    /\ \A l \in Loops : LoopGood(loop[l], leases, done)
    /\ \A c \in Calls : CallGood(c, call[c], leases, jobs)

-----------------------------------------------------------------------------
(* What is never undone *)

\* A lease that was taken stays the mission's and the worker's.
Keeps(L, L2) ==
    \A s \in Stamps : L[s].mission # None =>
        L2[s].mission = L[s].mission /\ L2[s].worker = L[s].worker

\* A job that was reported stays as it was.
Reported(J, J2) == \A j \in Jobs : J[j] \in {"verified", "failed"} => J2[j] = J[j]

\* A lease once taken for a mission by a worker stays one that was.
LEMMA HadStays ==
    ASSUME NEW L, NEW L2, Keeps(L, L2), NEW m \in Missions, NEW w, Had(m, w, L)
    PROVE  Had(m, w, L2)
BY OrchestratorAssumption DEF Had, Keeps

\* A queue item that is good stays good when others write.
LEMMA ItemStays ==
    ASSUME NEW L, NEW L2, Keeps(L, L2), NEW D, NEW D2, D \subseteq D2,
           NEW m \in Missions, NEW item, ItemGood(m, item, L, D)
    PROVE  ItemGood(m, item, L2, D2)
BY HadStays DEF ItemGood

\* The copies a loop thread holds stay good when others write.
LEMMA LoopStays ==
    ASSUME NEW L, NEW L2, Keeps(L, L2), NEW D, NEW D2, D \subseteq D2,
           NEW x \in LoopState, LoopGood(x, L, D)
    PROVE  LoopGood(x, L2, D2)
<1>1. \A s \in x.expired \cup x.stale : L2[s].mission \in Missions
  BY OrchestratorAssumption DEF LoopGood, Keeps, LoopState
<1>2. x.pc \in {"write", "bumped"} => ItemGood(x.m, x.copy, L2, D2)
  BY ItemStays DEF LoopGood, WithMission
<1>3. x.pc \in {"read", "write"} /\ x.target = "running" => Had(x.m, x.w, L2)
  BY HadStays DEF LoopGood, WithMission
<1> QED  BY <1>1, <1>2, <1>3 DEF LoopGood

\* The copies a call holds stay good when others write.
LEMMA CallStays ==
    ASSUME NEW L, NEW L2, Keeps(L, L2), NEW J, NEW J2, Reported(J, J2),
           NEW c \in Calls, NEW x \in CallState, CallGood(c, x, L, J)
    PROVE  CallGood(c, x, L2, J2)
<1>1. x.pc = "saveLease" =>
         /\ x.at \in Stamps /\ L2[x.at].mission \in Missions
         /\ x.lease.mission = L2[x.at].mission /\ x.lease.worker = L2[x.at].worker
  BY OrchestratorAssumption DEF CallGood, Keeps
<1>2. \A j \in x.jobs : J[j] \in {"verified", "failed"} => J2[j] = J[j]
  BY DEF Reported, CallState
<1> QED  BY <1>1, <1>2 DEF CallGood

-----------------------------------------------------------------------------
(* Steps in general *)

\* A step keeps the invariant when what it writes is good.
LEMMA StepKeeps ==
    ASSUME OInv, TypeOK', LeaseInv', ClaimInv',
           Keeps(leases, leases'), done \subseteq done', Reported(jobs, jobs'),
           \A m \in Missions : queue'[m] = queue[m] \/ ItemGood(m, queue'[m], leases', done'),
           \A l \in Loops : loop'[l] = loop[l] \/ LoopGood(loop'[l], leases', done'),
           \A c \in Calls : call'[c] = call[c] \/ CallGood(c, call'[c], leases', jobs')
    PROVE  OInv'
<1>1. \A m \in Missions : ItemGood(m, queue'[m], leases', done')
  BY ItemStays DEF OInv
<1>2. \A l \in Loops : LoopGood(loop'[l], leases', done')
  <2> TAKE l \in Loops
  <2>1. loop[l] \in LoopState /\ LoopGood(loop[l], leases, done)
    BY DEF OInv, TypeOK
  <2> QED  BY <2>1, LoopStays
<1>3. \A c \in Calls : CallGood(c, call'[c], leases', jobs')
  <2> TAKE c \in Calls
  <2>1. call[c] \in CallState /\ CallGood(c, call[c], leases, jobs)
    BY DEF OInv, TypeOK
  <2> QED  BY <2>1, CallStays
<1> QED  BY <1>1, <1>2, <1>3 DEF OInv

\* Claims are not disturbed by a step that takes no stamp, gives no lease away
\* and brings no thread to a claim.
LEMMA ClaimsStay ==
    ASSUME OInv, stamp' = stamp,
           \A s \in Stamps : leases'[s].mission = leases[s].mission,
           \A l \in Loops : loop'[l].pc = "claim" => loop'[l] = loop[l]
    PROVE  ClaimInv'
<1>1. stamp \in Nat /\ 1..stamp \subseteq Stamps
  BY OrchestratorAssumption DEF OInv, TypeOK, Stamps
<1> QED  BY <1>1 DEF OInv, ClaimInv

\* Nothing else that is stored changes.
LEMMA SameKept ==
    /\ \A L : Keeps(L, L)
    /\ \A J : Reported(J, J)
BY DEF Keeps, Reported

\* The types after a step of one loop thread.
LEMMA LoopTyped ==
    ASSUME TypeOK, NEW l \in Loops, NEW r \in LoopState,
           loop' = [loop EXCEPT ![l] = r]
    PROVE  loop' \in [Loops -> LoopState]
BY DEF TypeOK

\* A step of one loop thread that writes nothing and makes no claim.
LEMMA OneLoop ==
    ASSUME OInv, NEW l \in Loops, NEW r \in LoopState, loop' = [loop EXCEPT ![l] = r],
           LoopGood(r, leases, done), r.pc # "claim",
           UNCHANGED <<approvalVars, stores, call>>,
           active' \in BOOLEAN, stopping' \in BOOLEAN, stops' \in Nat, faults' \in Nat
    PROVE  OInv'
<1>1. TypeOK'
  BY LoopTyped DEF OInv, TypeOK, stores, approvalVars, ApprovalTypeOK
<1>2. \A k \in Loops : loop'[k] = IF k = l THEN r ELSE loop[k]
  BY DEF OInv, TypeOK
<1>3. LeaseInv' /\ ClaimInv'
  BY <1>2, ClaimsStay DEF OInv, LeaseInv, stores
<1> QED  BY <1>1, <1>2, <1>3, SameKept, StepKeeps DEF stores

\* A loop thread that only reads, and holds a good copy, keeps the
\* invariant.
LEMMA LoopReads ==
    ASSUME OInv, NEW l \in Loops, NEW r \in LoopState, loop' = [loop EXCEPT ![l] = r],
           LoopGood(r, leases, done), r.pc # "claim", OnlyLoop
    PROVE  OInv'
BY OneLoop DEF OnlyLoop, control, OInv, TypeOK

\* A step of one loop thread that writes an item.
LEMMA ItemWritten ==
    ASSUME OInv, NEW l \in Loops, NEW r \in LoopState, loop' = [loop EXCEPT ![l] = r],
           LoopGood(r, leases, done), r.pc # "claim",
           NEW m \in Missions, NEW item \in Item, ItemGood(m, item, leases, done),
           queue' = [queue EXCEPT ![m] = item],
           UNCHANGED <<approvalVars, due, leases, stamp, worker, jobs, recovery, done, control, call>>
    PROVE  OInv'
<1>1. TypeOK'
  BY LoopTyped DEF OInv, TypeOK, control, approvalVars, ApprovalTypeOK
<1>2. \A k \in Loops : loop'[k] = IF k = l THEN r ELSE loop[k]
  BY DEF OInv, TypeOK
<1>3. \A n \in Missions : queue'[n] = IF n = m THEN item ELSE queue[n]
  BY DEF OInv, TypeOK
<1>4. LeaseInv' /\ ClaimInv'
  BY <1>2, ClaimsStay DEF OInv, LeaseInv
<1> QED  BY <1>1, <1>2, <1>3, <1>4, SameKept, StepKeeps

\* A step of one call that writes nothing.
LEMMA OneCall ==
    ASSUME OInv, NEW c \in Calls, NEW r \in CallState, call' = [call EXCEPT ![c] = r],
           CallGood(c, r, leases, jobs), OnlyCall
    PROVE  OInv'
<1>1. TypeOK'
  BY DEF OInv, TypeOK, OnlyCall, stores, control, approvalVars, ApprovalTypeOK
<1>2. \A k \in Calls : call'[k] = IF k = c THEN r ELSE call[k]
  BY DEF OInv, TypeOK
<1>3. LeaseInv' /\ ClaimInv'
  BY ClaimsStay DEF OInv, LeaseInv, OnlyCall, stores
<1> QED  BY <1>1, <1>2, <1>3, SameKept, StepKeeps DEF OnlyCall, stores

\* A loop thread between two missions relies on nothing but its lists.
LEMMA IdleGood ==
    ASSUME NEW x, NEW L, NEW D, x.pc \notin WithMission,
           \A s \in x.expired \cup x.stale : L[s].mission \in Missions
    PROVE  LoopGood(x, L, D)
BY DEF LoopGood, WithMission, Dequeued, WithWorker

\* A thread that holds no mission any more holds nothing bad.
LEMMA TidyGood ==
    ASSUME OInv, NEW l \in Loops, NEW r, r.pc \notin WithMission,
           r.expired \subseteq loop[l].expired, r.stale \subseteq loop[l].stale
    PROVE  LoopGood(r, leases, done)
BY IdleGood DEF OInv, LoopGood

\* A thread that goes on to write a new state of a mission.
LEMMA TransitGood ==
    ASSUME OInv, NEW l \in Loops, NEW m \in Missions, NEW next \in AfterWrite,
           NEW target \in {"ready", "blocked", "waiting_approval"}
    PROVE  /\ Transit(l, m, target, next) \in LoopState
           /\ LoopGood(Transit(l, m, target, next), leases, done)
           /\ Transit(l, m, target, next).pc = "read"
<1>1. loop[l] \in LoopState /\ LoopGood(loop[l], leases, done)
  BY DEF OInv, TypeOK
<1> DEFINE r == Transit(l, m, target, next)
<1>2. r \in LoopState
  <2>1. next \in LoopPC /\ target \in QueueItemState /\ "read" \in LoopPC
    BY DEF LoopPC, AfterWrite, QueueItemState
  <2> QED  BY <1>1, <2>1 DEF Transit, LoopState
<1>3. /\ r.pc = "read" /\ r.m = m /\ r.target = target /\ r.next = next
      /\ r.expired = loop[l].expired /\ r.stale = loop[l].stale
  BY <1>1 DEF Transit, LoopState
<1> HIDE DEF r
<1>4. LoopGood(r, leases, done)
  BY <1>1, <1>3 DEF LoopGood, WithMission, Dequeued, WithWorker
<1> QED  BY <1>2, <1>3, <1>4 DEF r

-----------------------------------------------------------------------------
(* The loop: steps that only read *)

\* The start of a cycle keeps the invariant.
LEMMA RunLoopKeeps ==
    ASSUME OInv, NEW l \in Loops, RunLoop(l)
    PROVE  OInv'
<1> DEFINE r == [LoopOff EXCEPT !.pc = IF active /\ ~stopping THEN "expire" ELSE "off"]
<1>1. r \in LoopState
  BY DEF LoopOff, LoopState, LoopPC, NoItem, NewItem, Item, QueueItemState
<1>2. r.pc \in {"expire", "off"} /\ r.expired = {} /\ r.stale = {}
  BY DEF LoopOff
<1>3. LoopGood(r, leases, done)
  BY <1>2, IdleGood DEF WithMission
<1> QED  BY <1>1, <1>2, <1>3, LoopReads DEF RunLoop

\* The read of a transition keeps the invariant.
LEMMA TransitionReadKeeps ==
    ASSUME OInv, NEW l \in Loops, TransitionRead(l)
    PROVE  OInv'
<1> DEFINE x == loop[l]
           copy == [queue[x.m] EXCEPT !.state = x.target,
                                      !.owner = IF x.target = "running" THEN x.w ELSE @]
           r == [x EXCEPT !.pc = "write", !.copy = copy]
<1>1. x \in LoopState /\ LoopGood(x, leases, done) /\ x.pc = "read"
  BY DEF OInv, TypeOK, TransitionRead
<1>2. x.m \in Missions /\ queue[x.m] \in Item
  BY <1>1 DEF OInv, TypeOK, LoopGood, WithMission
<1>3. /\ copy \in Item /\ copy.state = x.target
      /\ copy.owner = IF x.target = "running" THEN x.w ELSE queue[x.m].owner
  BY <1>1, <1>2 DEF Item, LoopState
<1> HIDE DEF copy
<1>4. r \in LoopState
  BY <1>1, <1>3 DEF LoopState, LoopPC
<1>5. /\ r.pc = "write" /\ r.copy = copy /\ r.m = x.m /\ r.w = x.w /\ r.next = x.next
      /\ r.target = x.target /\ r.expired = x.expired /\ r.stale = x.stale
  BY <1>1 DEF LoopState
<1>6. loop' = [loop EXCEPT ![l] = r]
  BY DEF TransitionRead, copy
<1> HIDE DEF r
<1>7. ItemGood(r.m, r.copy, leases, done)
  BY <1>1, <1>3, <1>5, OrchestratorAssumption DEF ItemGood, LoopGood
<1>8. LoopGood(r, leases, done)
  BY <1>1, <1>5, <1>7 DEF LoopGood, WithMission, Dequeued, WithWorker
<1> QED  BY <1>4, <1>5, <1>6, <1>8, LoopReads DEF TransitionRead

\* Listing the expired leases keeps the invariant.
LEMMA ExpireListKeeps ==
    ASSUME OInv, NEW l \in Loops, ExpireList(l)
    PROVE  OInv'
<1> DEFINE x == loop[l]
           lapsed == {s \in Stamps : leases[s].state = "active" /\ ~leases[s].live}
           r == [x EXCEPT !.expired = lapsed,
                          !.pc = IF lapsed = {} THEN "approvals" ELSE "expiring"]
<1>1. x \in LoopState /\ LoopGood(x, leases, done)
  BY DEF OInv, TypeOK
<1>2. \A s \in lapsed : leases[s].mission \in Missions
  BY DEF OInv, LeaseInv, TypeOK, Lease
<1>3. r \in LoopState
  BY <1>1 DEF LoopState, LoopPC
<1>4. r.pc \in {"approvals", "expiring"} /\ r.expired = lapsed /\ r.stale = x.stale
  BY <1>1 DEF LoopState
<1>5. loop' = [loop EXCEPT ![l] = r]
  BY DEF ExpireList
<1> HIDE DEF r
<1>6. \A s \in r.expired \cup r.stale : leases[s].mission \in Missions
  BY <1>1, <1>2, <1>4 DEF LoopGood
<1>7. LoopGood(r, leases, done)
  BY <1>4, <1>6, IdleGood DEF WithMission
<1> QED  BY <1>3, <1>4, <1>5, <1>7, LoopReads DEF ExpireList

\* The lists of a thread, and a mission a lease of it names.
LEMMA RecoverStaleKeeps ==
    ASSUME OInv, NEW l \in Loops, RecoverStale(l)
    PROVE  OInv'
<1> DEFINE x == loop[l]
<1>1. x \in LoopState /\ LoopGood(x, leases, done)
  BY DEF OInv, TypeOK
<1> DEFINE taken(s) == [x EXCEPT !.stale = x.stale \ {s}, !.m = leases[s].mission, !.pc = "reget"]
           passed(s) == [x EXCEPT !.stale = x.stale \ {s}, !.pc = Resuming(x.stale \ {s})]
<1>2. PICK s \in x.stale :
         loop' = [loop EXCEPT ![l] =
            IF \E t \in LeasesOf(leases[s].mission) : leases[t].state = "stale"
            THEN taken(s) ELSE passed(s)]
  BY Zenon DEF RecoverStale
<1> DEFINE m == leases[s].mission
<1>3. m \in Missions
  BY <1>1 DEF LoopGood
<1>4. taken(s) \in LoopState /\ passed(s) \in LoopState
  BY <1>1, <1>3 DEF LoopState, LoopPC, Resuming
<1>5. /\ taken(s).pc = "reget" /\ taken(s).m = m /\ taken(s).expired = x.expired
      /\ taken(s).stale = x.stale \ {s}
      /\ passed(s).pc \in {"approvals", "resume"} /\ passed(s).expired = x.expired
      /\ passed(s).stale = x.stale \ {s}
  BY <1>1 DEF LoopState, Resuming
<1>6. PICK r \in {taken(s), passed(s)} : loop' = [loop EXCEPT ![l] = r]
  BY <1>2
<1> HIDE DEF taken, passed
<1>7. LoopGood(taken(s), leases, done)
  BY <1>1, <1>3, <1>5 DEF LoopGood, WithMission, Dequeued, WithWorker
<1>8. LoopGood(passed(s), leases, done)
  BY <1>1, <1>5 DEF LoopGood, WithMission, Dequeued, WithWorker
<1>9. r \in LoopState /\ LoopGood(r, leases, done) /\ r.pc # "claim"
  BY <1>4, <1>5, <1>6, <1>7, <1>8
<1> QED  BY <1>6, <1>9, LoopReads DEF RecoverStale

\* Taking up a mission again after a crash keeps the invariant.
LEMMA ResumeMissionKeeps ==
    ASSUME OInv, NEW l \in Loops, ResumeMission(l)
    PROVE  OInv'
<1> DEFINE x == loop[l]
           taken == [x EXCEPT !.pc = "bump"]
           passed == [x EXCEPT !.pc = Resuming(x.stale), !.m = None]
<1>1. x \in LoopState /\ LoopGood(x, leases, done) /\ x.pc = "reget"
  BY DEF OInv, TypeOK, ResumeMission
<1>2. taken \in LoopState /\ passed \in LoopState
  BY <1>1 DEF LoopState, LoopPC, Resuming
<1>3. /\ taken.pc = "bump" /\ taken.m = x.m /\ taken.expired = x.expired /\ taken.stale = x.stale
      /\ passed.pc \in {"approvals", "resume"} /\ passed.expired = x.expired /\ passed.stale = x.stale
  BY <1>1 DEF LoopState, Resuming
<1>4. PICK r \in {taken, passed} : loop' = [loop EXCEPT ![l] = r]
  BY DEF ResumeMission
<1> HIDE DEF taken, passed
<1>5. LoopGood(taken, leases, done)
  BY <1>1, <1>3 DEF LoopGood, WithMission, Dequeued, WithWorker
<1>6. LoopGood(passed, leases, done)
  BY <1>3, TidyGood DEF WithMission
<1>7. r \in LoopState /\ LoopGood(r, leases, done) /\ r.pc # "claim"
  BY <1>2, <1>3, <1>4, <1>5, <1>6
<1> QED  BY <1>4, <1>7, LoopReads DEF ResumeMission

\* bump_attempt keeps the state and the owner it read.
LEMMA BumpReadKeeps ==
    ASSUME OInv, NEW l \in Loops, BumpRead(l)
    PROVE  OInv'
<1> DEFINE x == loop[l]
           copy == [queue[x.m] EXCEPT !.attempts = queue[x.m].attempts + 1]
           r == [x EXCEPT !.pc = "bumped", !.copy = copy]
<1>1. x \in LoopState /\ LoopGood(x, leases, done) /\ x.pc = "bump"
  BY DEF OInv, TypeOK, BumpRead
<1>2. x.m \in Missions /\ queue[x.m] \in Item /\ ItemGood(x.m, queue[x.m], leases, done)
  BY <1>1 DEF OInv, TypeOK, LoopGood, WithMission
<1>3. copy \in Item /\ copy.state = queue[x.m].state /\ copy.owner = queue[x.m].owner
  BY <1>2 DEF Item
<1>4. loop' = [loop EXCEPT ![l] = r]
  BY DEF BumpRead
<1> HIDE DEF copy
<1>5. r \in LoopState
  BY <1>1, <1>3 DEF LoopState, LoopPC
<1>6. /\ r.pc = "bumped" /\ r.copy = copy /\ r.m = x.m
      /\ r.expired = x.expired /\ r.stale = x.stale
  BY <1>1 DEF LoopState
<1> HIDE DEF r
<1>7. ItemGood(r.m, r.copy, leases, done)
  BY <1>2, <1>3, <1>6 DEF ItemGood
<1>8. LoopGood(r, leases, done)
  BY <1>1, <1>2, <1>6, <1>7 DEF LoopGood, WithMission, Dequeued, WithWorker
<1> QED  BY <1>4, <1>5, <1>6, <1>8, LoopReads DEF BumpRead

\* Putting a mission back in the queue keeps the invariant.
LEMMA RequeueKeeps ==
    ASSUME OInv, NEW l \in Loops, Requeue(l)
    PROVE  OInv'
<1> DEFINE x == loop[l]
<1>1. x.m \in Missions
  BY DEF OInv, Requeue, LoopGood, WithMission
<1>2. Resuming(x.stale) \in AfterWrite /\ "recover" \in AfterWrite
  BY DEF Resuming, AfterWrite
<1>3. \/ loop' = [loop EXCEPT ![l] = Transit(l, x.m, "blocked", "recover")]
      \/ loop' = [loop EXCEPT ![l] = Transit(l, x.m, "ready", Resuming(x.stale))]
  BY Zenon DEF Requeue
<1>4. PICK target \in {"ready", "blocked"}, next \in AfterWrite :
         loop' = [loop EXCEPT ![l] = Transit(l, x.m, target, next)]
  BY <1>2, <1>3
<1>5. OnlyLoop
  BY DEF Requeue
<1> QED  BY <1>1, <1>4, <1>5, TransitGood, LoopReads

\* Listing the overdue requests keeps the invariant.
LEMMA SweepListKeeps ==
    ASSUME OInv, NEW l \in Loops, SweepList(l)
    PROVE  OInv'
<1> DEFINE x == loop[l]
           r == [x EXCEPT !.sweep = Sweepable, !.pc = IF Sweepable = {} THEN "promote" ELSE "sweeping"]
<1>1. x \in LoopState /\ Sweepable \subseteq Requests
  BY DEF OInv, TypeOK, ApprovalTypeOK, Sweepable
<1>2. r \in LoopState
  BY <1>1 DEF LoopState, LoopPC
<1>3. r.pc \in {"promote", "sweeping"} /\ r.expired = x.expired /\ r.stale = x.stale
  BY <1>1 DEF LoopState
<1>4. loop' = [loop EXCEPT ![l] = r]
  BY DEF SweepList
<1> HIDE DEF r
<1> QED  BY <1>2, <1>3, <1>4, TidyGood, LoopReads DEF SweepList, WithMission

\* Both listings of missions.
LEMMA ListKeeps ==
    ASSUME OInv, NEW l \in Loops, PromoteList(l) \/ WaitingList(l)
    PROVE  OInv'
<1> DEFINE x == loop[l]
           r(batch, pc) == [x EXCEPT !.batch = batch, !.pc = pc]
<1>1. x \in LoopState
  BY DEF OInv, TypeOK
<1>2. PICK batch \in SUBSET Missions, pc \in {"promoting", "waiting", "wakening", "dequeue"} :
         loop' = [loop EXCEPT ![l] = r(batch, pc)]
  BY DEF PromoteList, WaitingList, ListByState, Working
<1>3. r(batch, pc) \in LoopState
  BY <1>1 DEF LoopState, LoopPC
<1>4. r(batch, pc).pc = pc /\ r(batch, pc).expired = x.expired /\ r(batch, pc).stale = x.stale
  BY <1>1 DEF LoopState
<1> HIDE DEF r
<1> QED  BY <1>2, <1>3, <1>4, TidyGood, LoopReads DEF PromoteList, WaitingList, WithMission

\* A listed mission is made ready or left.
LEMMA BatchKeeps ==
    ASSUME OInv, NEW l \in Loops, Promote(l) \/ Waken(l)
    PROVE  OInv'
<1> DEFINE x == loop[l]
<1>1. x \in LoopState
  BY DEF OInv, TypeOK
<1>2. PICK m \in x.batch, pc \in {"promoting", "waiting", "wakening", "dequeue"} :
         \/ loop' = [loop EXCEPT ![l] = [Transit(l, m, "ready", pc) EXCEPT !.batch = x.batch \ {m}]]
         \/ loop' = [loop EXCEPT ![l] = [[x EXCEPT !.pc = pc] EXCEPT !.batch = x.batch \ {m}]]
  BY DEF Promote, Waken, Working
<1>3. m \in Missions /\ pc \in AfterWrite
  BY <1>1 DEF LoopState, AfterWrite
<1>4. CASE loop' = [loop EXCEPT ![l] = [Transit(l, m, "ready", pc) EXCEPT !.batch = x.batch \ {m}]]
  <2> DEFINE t == Transit(l, m, "ready", pc)
             r == [t EXCEPT !.batch = x.batch \ {m}]
  <2>1. t \in LoopState /\ LoopGood(t, leases, done) /\ t.pc = "read"
    BY <1>3, TransitGood
  <2> HIDE DEF t
  <2>2. r \in LoopState
    BY <1>1, <2>1 DEF LoopState
  <2>3. /\ r.pc = t.pc /\ r.m = t.m /\ r.w = t.w /\ r.next = t.next /\ r.target = t.target
        /\ r.copy = t.copy /\ r.expired = t.expired /\ r.stale = t.stale
    BY <2>1 DEF LoopState
  <2>4. loop' = [loop EXCEPT ![l] = r]
    BY <1>4 DEF t
  <2> HIDE DEF r
  <2>5. LoopGood(r, leases, done)
    BY <2>1, <2>3 DEF LoopGood
  <2> QED  BY <2>1, <2>2, <2>3, <2>4, <2>5, LoopReads DEF Promote, Waken
<1>5. CASE loop' = [loop EXCEPT ![l] = [[x EXCEPT !.pc = pc] EXCEPT !.batch = x.batch \ {m}]]
  <2> DEFINE r == [[x EXCEPT !.pc = pc] EXCEPT !.batch = x.batch \ {m}]
  <2>1. r \in LoopState
    BY <1>1 DEF LoopState, LoopPC
  <2>2. r.pc = pc /\ r.expired = x.expired /\ r.stale = x.stale
    BY <1>1 DEF LoopState
  <2> HIDE DEF r
  <2> QED  BY <1>5, <2>1, <2>2, TidyGood, LoopReads DEF Promote, Waken, WithMission, r
<1> QED  BY <1>2, <1>4, <1>5

\* A mission is dequeued only when the missions it depends on were completed.
LEMMA TakeNextKeeps ==
    ASSUME OInv, NEW l \in Loops, TakeNext(l)
    PROVE  OInv'
<1> DEFINE x == loop[l]
           r(m) == [x EXCEPT !.pc = "check", !.m = m, !.seen = x.seen \cup {m}]
<1>1. x \in LoopState /\ LoopGood(x, leases, done)
  BY DEF OInv, TypeOK
<1>2. CASE loop' = [loop EXCEPT ![l] = AtTop]
  <2>1. AtTop \in LoopState
    BY DEF AtTop, LoopOff, LoopState, LoopPC, NoItem, NewItem, Item, QueueItemState
  <2>2. AtTop.pc = "top" /\ AtTop.expired = {} /\ AtTop.stale = {}
    BY DEF AtTop, LoopOff
  <2> QED  BY <1>2, <2>1, <2>2, TidyGood, LoopReads DEF TakeNext, WithMission
<1>3. CASE \E m \in Dequeue \ x.seen : loop' = [loop EXCEPT ![l] = r(m)]
  <2>1. PICK m \in Dequeue : loop' = [loop EXCEPT ![l] = r(m)]
    BY <1>3
  <2>2. m \in Missions /\ DependenciesMet(m)
    BY <2>1 DEF Dequeue, OInv, TypeOK
  <2>3. Depends[m] \subseteq done
    BY <2>2, OrchestratorAssumption DEF DependenciesMet, OInv, ItemGood
  <2>4. r(m) \in LoopState
    BY <1>1, <2>2 DEF LoopState, LoopPC
  <2>5. r(m).pc = "check" /\ r(m).m = m /\ r(m).expired = x.expired /\ r(m).stale = x.stale
    BY <1>1 DEF LoopState
  <2> HIDE DEF r
  <2>6. LoopGood(r(m), leases, done)
    BY <1>1, <2>2, <2>3, <2>5 DEF LoopGood, WithWorker
  <2> QED  BY <2>1, <2>4, <2>5, <2>6, LoopReads DEF TakeNext
<1> QED  BY <1>2, <1>3 DEF TakeNext

\* The look at the approval queue keeps the invariant.
LEMMA CheckApprovalKeeps ==
    ASSUME OInv, NEW l \in Loops, CheckApproval(l)
    PROVE  OInv'
<1> DEFINE x == loop[l]
           r == [x EXCEPT !.pc = "schedule"]
<1>1. x \in LoopState /\ LoopGood(x, leases, done) /\ x.pc = "check"
  BY DEF OInv, TypeOK, CheckApproval
<1>2. x.m \in Missions /\ "dequeue" \in AfterWrite
  BY <1>1 DEF LoopGood, WithMission, AfterWrite
<1>3. OnlyLoop
  BY DEF CheckApproval
<1>4. \/ loop' = [loop EXCEPT ![l] = Transit(l, x.m, "waiting_approval", "dequeue")]
      \/ loop' = [loop EXCEPT ![l] = r]
  BY DEF CheckApproval
<1>5. CASE loop' = [loop EXCEPT ![l] = Transit(l, x.m, "waiting_approval", "dequeue")]
  BY <1>2, <1>3, <1>5, TransitGood, LoopReads
<1>6. CASE loop' = [loop EXCEPT ![l] = r]
  <2>1. r \in LoopState
    BY <1>1 DEF LoopState, LoopPC
  <2>2. r.pc = "schedule" /\ r.m = x.m /\ r.expired = x.expired /\ r.stale = x.stale
    BY <1>1 DEF LoopState
  <2> HIDE DEF r
  <2>3. LoopGood(r, leases, done)
    BY <1>1, <1>2, <2>2 DEF LoopGood, WithWorker, Dequeued
  <2> QED  BY <1>3, <1>6, <2>1, <2>2, <2>3, LoopReads
<1> QED  BY <1>4, <1>5, <1>6

\* The choice of a worker keeps the invariant.
LEMMA PickWorkerKeeps ==
    ASSUME OInv, NEW l \in Loops, PickWorker(l)
    PROVE  OInv'
<1> DEFINE x == loop[l]
           r(w) == [x EXCEPT !.pc = "acquire", !.w = w]
<1>1. x \in LoopState /\ LoopGood(x, leases, done) /\ x.pc = "schedule"
  BY DEF OInv, TypeOK, PickWorker
<1>2. x.m \in Missions /\ "dequeue" \in AfterWrite
  BY <1>1 DEF LoopGood, WithMission, AfterWrite
<1>3. OnlyLoop
  BY DEF PickWorker
<1>4. \/ loop' = [loop EXCEPT ![l] = Transit(l, x.m, "blocked", "dequeue")]
      \/ \E w \in Schedule(x.m) : loop' = [loop EXCEPT ![l] = r(w)]
  BY DEF PickWorker
<1>5. CASE loop' = [loop EXCEPT ![l] = Transit(l, x.m, "blocked", "dequeue")]
  BY <1>2, <1>3, <1>5, TransitGood, LoopReads
<1>6. CASE \E w \in Schedule(x.m) : loop' = [loop EXCEPT ![l] = r(w)]
  <2>1. PICK w \in Workers : loop' = [loop EXCEPT ![l] = r(w)]
    BY <1>6 DEF Schedule, ListAvailable
  <2>2. r(w) \in LoopState
    BY <1>1 DEF LoopState, LoopPC
  <2>3. /\ r(w).pc = "acquire" /\ r(w).m = x.m /\ r(w).w = w
        /\ r(w).expired = x.expired /\ r(w).stale = x.stale
    BY <1>1 DEF LoopState
  <2> HIDE DEF r
  <2>4. LoopGood(r(w), leases, done)
    BY <1>1, <1>2, <2>1, <2>3 DEF LoopGood, WithWorker, Dequeued
  <2> QED  BY <1>3, <2>1, <2>2, <2>3, <2>4, LoopReads
<1> QED  BY <1>4, <1>5, <1>6

-----------------------------------------------------------------------------
(* The loop: steps that write *)

\* The copy that was good when it was made is good when it is written.
LEMMA TransitionWriteKeeps ==
    ASSUME OInv, NEW l \in Loops, TransitionWrite(l)
    PROVE  OInv'
<1> DEFINE x == loop[l]
           r == [x EXCEPT !.pc = x.next, !.copy = NoItem, !.target = "absent", !.w = None,
                          !.m = IF x.next = "recover" THEN x.m ELSE None]
<1>1. x \in LoopState /\ LoopGood(x, leases, done) /\ x.pc = "write"
  BY DEF OInv, TypeOK, TransitionWrite
<1>2. x.m \in Missions /\ x.next \in AfterWrite /\ x.copy \in Item /\ ItemGood(x.m, x.copy, leases, done)
  BY <1>1 DEF LoopGood, WithMission, LoopState
<1>3. NoItem \in Item
  BY DEF NoItem, NewItem, Item, QueueItemState
<1>4. r \in LoopState
  BY <1>1, <1>2, <1>3 DEF LoopState, QueueItemState
<1>5. /\ r.pc = x.next /\ r.m = (IF x.next = "recover" THEN x.m ELSE None)
      /\ r.expired = x.expired /\ r.stale = x.stale
  BY <1>1 DEF LoopState
<1>6. loop' = [loop EXCEPT ![l] = r]
  BY DEF TransitionWrite
<1> HIDE DEF r
<1>7. LoopGood(r, leases, done) /\ r.pc # "claim"
  BY <1>1, <1>2, <1>5 DEF LoopGood, WithMission, WithWorker, Dequeued, AfterWrite
<1>8. queue' = [queue EXCEPT ![x.m] = x.copy]
  BY DEF TransitionWrite
<1>9. UNCHANGED <<approvalVars, due, leases, stamp, worker, jobs, recovery, done, control, call>>
  BY DEF TransitionWrite
<1> QED  BY <1>2, <1>4, <1>6, <1>7, <1>8, <1>9, ItemWritten

\* Writing the counted attempt keeps the invariant.
LEMMA BumpWriteKeeps ==
    ASSUME OInv, NEW l \in Loops, BumpWrite(l)
    PROVE  OInv'
<1> DEFINE x == loop[l]
           r == [x EXCEPT !.pc = "reread", !.copy = NoItem]
<1>1. x \in LoopState /\ LoopGood(x, leases, done) /\ x.pc = "bumped"
  BY DEF OInv, TypeOK, BumpWrite
<1>2. x.m \in Missions /\ x.copy \in Item /\ ItemGood(x.m, x.copy, leases, done)
  BY <1>1 DEF LoopGood, WithMission, LoopState
<1>3. NoItem \in Item
  BY DEF NoItem, NewItem, Item, QueueItemState
<1>4. r \in LoopState
  BY <1>1, <1>3 DEF LoopState, LoopPC
<1>5. r.pc = "reread" /\ r.m = x.m /\ r.expired = x.expired /\ r.stale = x.stale
  BY <1>1 DEF LoopState
<1>6. /\ loop' = [loop EXCEPT ![l] = r] /\ queue' = [queue EXCEPT ![x.m] = x.copy]
      /\ UNCHANGED <<approvalVars, due, leases, stamp, worker, jobs, recovery, done, control, call>>
  BY DEF BumpWrite
<1> HIDE DEF r
<1>7. LoopGood(r, leases, done)
  BY <1>1, <1>2, <1>5 DEF LoopGood, WithMission, WithWorker, Dequeued
<1> QED  BY <1>2, <1>4, <1>5, <1>6, <1>7, ItemWritten

\* Recording a recovery keeps the invariant.
LEMMA EnqueueRecoveryKeeps ==
    ASSUME OInv, NEW l \in Loops, EnqueueRecovery(l)
    PROVE  OInv'
<1> DEFINE x == loop[l]
           r == [x EXCEPT !.pc = Resuming(x.stale), !.m = None]
<1>1. x \in LoopState /\ LoopGood(x, leases, done) /\ x.pc = "recover" /\ x.m \in Missions
  BY DEF OInv, TypeOK, EnqueueRecovery, LoopGood, WithMission
<1>2. r \in LoopState
  BY <1>1 DEF LoopState, LoopPC, Resuming
<1>3. r.pc \in {"approvals", "resume"} /\ r.expired = x.expired /\ r.stale = x.stale
  BY <1>1 DEF LoopState, Resuming
<1>4. loop' = [loop EXCEPT ![l] = r]
  BY DEF EnqueueRecovery
<1>5. UNCHANGED <<approvalVars, queue, due, leases, stamp, worker, jobs, done, control, call>>
  BY DEF EnqueueRecovery
<1> HIDE DEF r
<1>6. LoopGood(r, leases, done)
  BY <1>3, TidyGood DEF WithMission
<1>7. recovery' \in [Missions -> Nat]
  BY <1>1 DEF EnqueueRecovery, OInv, TypeOK
<1>8. TypeOK'
  BY <1>2, <1>4, <1>5, <1>7, LoopTyped DEF OInv, TypeOK, control, approvalVars, ApprovalTypeOK
<1>9. \A k \in Loops : loop'[k] = IF k = l THEN r ELSE loop[k]
  BY <1>4 DEF OInv, TypeOK
<1>10. LeaseInv' /\ ClaimInv'
  BY <1>3, <1>5, <1>9, ClaimsStay DEF OInv, LeaseInv
<1> QED  BY <1>5, <1>6, <1>8, <1>9, <1>10, SameKept, StepKeeps

\* Expiring a listed request keeps the invariant.
LEMMA SweepKeeps ==
    ASSUME OInv, NEW l \in Loops, Sweep(l)
    PROVE  OInv'
<1> DEFINE x == loop[l]
           r(q) == [x EXCEPT !.sweep = x.sweep \ {q}, !.pc = IF x.sweep = {q} THEN "promote" ELSE x.pc]
<1>1. x \in LoopState /\ x.pc = "sweeping"
  BY DEF OInv, TypeOK, Sweep
<1>2. PICK q \in x.sweep : SweepRequest(q) /\ loop' = [loop EXCEPT ![l] = r(q)]
  BY DEF Sweep
<1>3. UNCHANGED <<stores, control, call>>
  BY DEF Sweep
<1>4. r(q) \in LoopState
  BY <1>1 DEF LoopState, LoopPC
<1>5. r(q).pc \in {"promote", "sweeping"} /\ r(q).expired = x.expired /\ r(q).stale = x.stale
  BY <1>1 DEF LoopState
<1> HIDE DEF r
<1>6. LoopGood(r(q), leases, done)
  BY <1>5, TidyGood DEF WithMission
<1>7. ApprovalTypeOK'
  BY <1>1, <1>2 DEF OInv, TypeOK, ApprovalTypeOK, SweepRequest, RequestStatus, LoopState
<1>8. TypeOK'
  BY <1>2, <1>3, <1>4, <1>7, LoopTyped DEF OInv, TypeOK, control, stores
<1>9. \A k \in Loops : loop'[k] = IF k = l THEN r(q) ELSE loop[k]
  BY <1>2 DEF OInv, TypeOK
<1>10. LeaseInv' /\ ClaimInv'
  BY <1>3, <1>5, <1>9, ClaimsStay DEF OInv, LeaseInv, stores
<1> QED  BY <1>3, <1>6, <1>8, <1>9, <1>10, SameKept, StepKeeps DEF stores

\* A lease that is marked stale is still the mission's and the worker's.
LEMMA ExpireLeaseKeeps ==
    ASSUME OInv, NEW l \in Loops, ExpireLease(l)
    PROVE  OInv'
<1> DEFINE x == loop[l]
           r(s) == [x EXCEPT !.expired = x.expired \ {s}, !.stale = x.stale \cup {s},
                             !.pc = IF x.expired = {s} THEN "resume" ELSE x.pc]
<1>1. x \in LoopState /\ LoopGood(x, leases, done) /\ x.pc = "expiring"
  BY DEF OInv, TypeOK, ExpireLease
<1>2. PICK s \in x.expired :
         /\ leases' = [leases EXCEPT ![s].state = "stale", ![s].live = FALSE]
         /\ loop' = [loop EXCEPT ![l] = r(s)]
  BY DEF ExpireLease
<1>3. UNCHANGED <<approvalVars, queue, due, stamp, worker, jobs, recovery, done, control, call>>
  BY DEF ExpireLease
<1>4. s \in Stamps /\ leases[s].mission \in Missions
  BY <1>1 DEF LoopState, LoopGood
<1>5. leases' \in [Stamps -> Lease]
  <2>1. [leases[s] EXCEPT !.state = "stale", !.live = FALSE] \in Lease
    BY <1>4 DEF OInv, TypeOK, Lease, LeaseState
  <2>2. leases' = [leases EXCEPT ![s] = [leases[s] EXCEPT !.state = "stale", !.live = FALSE]]
    BY <1>2, <1>4 DEF OInv, TypeOK
  <2> QED  BY <2>1, <2>2 DEF OInv, TypeOK
<1>6. \A t \in Stamps : /\ leases'[t].mission = leases[t].mission /\ leases'[t].worker = leases[t].worker
                        /\ t # s => leases'[t].state = leases[t].state
  BY <1>2, <1>4 DEF OInv, TypeOK, Lease
<1>7. r(s) \in LoopState
  BY <1>1, <1>4 DEF LoopState, LoopPC
<1>8. /\ r(s).pc \in {"resume", "expiring"} /\ r(s).expired = x.expired \ {s}
      /\ r(s).stale = x.stale \cup {s}
  BY <1>1 DEF LoopState
<1> HIDE DEF r
<1>9. LoopGood(r(s), leases', done')
  <2>1. \A t \in r(s).expired \cup r(s).stale : leases'[t].mission \in Missions
    BY <1>1, <1>4, <1>6, <1>8 DEF LoopGood, LoopState
  <2> QED  BY <1>8, <2>1, IdleGood DEF WithMission
<1>10. TypeOK'
  BY <1>2, <1>3, <1>5, <1>7, LoopTyped DEF OInv, TypeOK, control, approvalVars, ApprovalTypeOK
<1>11. \A k \in Loops : loop'[k] = IF k = l THEN r(s) ELSE loop[k]
  BY <1>2 DEF OInv, TypeOK
<1>12. LeaseInv'
  BY <1>4, <1>6, OrchestratorAssumption DEF OInv, LeaseInv
<1>13. ClaimInv'
  BY <1>3, <1>6, <1>8, <1>11, ClaimsStay
<1>14. Keeps(leases, leases')
  BY <1>6 DEF Keeps
<1> QED  BY <1>3, <1>9, <1>10, <1>11, <1>12, <1>13, <1>14, SameKept, StepKeeps

\* The stamp is taken with the scan: the claim has a place of its own.
LEMMA AcquireScanKeeps ==
    ASSUME OInv, NEW l \in Loops, AcquireScan(l)
    PROVE  OInv'
<1> DEFINE x == loop[l]
           left == [x EXCEPT !.pc = "dequeue", !.m = None, !.w = None]
           claimant == [x EXCEPT !.pc = "claim", !.at = stamp + 1]
<1>1. x \in LoopState /\ LoopGood(x, leases, done) /\ x.pc = "acquire"
  BY DEF OInv, TypeOK, AcquireScan
<1>2. stamp \in Nat /\ UNCHANGED <<approvalVars, queue, due, leases, worker, jobs, recovery, done, control, call>>
  BY DEF AcquireScan, OInv, TypeOK, Stamps
<1>3. CASE loop' = [loop EXCEPT ![l] = left] /\ UNCHANGED stamp
  <2>1. left \in LoopState
    BY <1>1 DEF LoopState, LoopPC
  <2>2. left.pc = "dequeue" /\ left.expired = x.expired /\ left.stale = x.stale
    BY <1>1 DEF LoopState
  <2>3. OnlyLoop
    BY <1>2, <1>3 DEF OnlyLoop, stores
  <2> HIDE DEF left
  <2> QED  BY <1>3, <2>1, <2>2, <2>3, TidyGood, LoopReads DEF WithMission
<1>4. CASE stamp < MaxLeases /\ stamp' = stamp + 1 /\ loop' = [loop EXCEPT ![l] = claimant]
  <2>1. stamp + 1 \in Stamps /\ 1..stamp \subseteq Stamps
    BY <1>2, <1>4, OrchestratorAssumption DEF Stamps
  <2>2. claimant \in LoopState
    BY <1>1, <2>1 DEF LoopState, LoopPC
  <2>3. /\ claimant.pc = "claim" /\ claimant.at = stamp + 1 /\ claimant.m = x.m /\ claimant.w = x.w
        /\ claimant.expired = x.expired /\ claimant.stale = x.stale
    BY <1>1 DEF LoopState
  <2> HIDE DEF claimant
  <2>4. LoopGood(claimant, leases, done)
    BY <1>1, <2>3 DEF LoopGood, WithMission, WithWorker, Dequeued
  <2>5. \A k \in Loops : loop'[k] = IF k = l THEN claimant ELSE loop[k]
    BY <1>4 DEF OInv, TypeOK
  <2>6. TypeOK'
    BY <1>2, <1>4, <2>1, <2>2, LoopTyped DEF OInv, TypeOK, control, approvalVars, ApprovalTypeOK
  <2>7. ClaimInv'
    <3>1. \A s \in Stamps : s > stamp' => leases'[s].mission = None
      BY <1>2, <1>4 DEF OInv, ClaimInv, Stamps
    <3>2. ASSUME NEW k \in Loops, loop'[k].pc = "claim"
          PROVE  /\ loop'[k].at \in 1..stamp' /\ leases'[loop'[k].at].mission = None
                 /\ \A n \in Loops \ {k} : loop'[n].pc = "claim" => loop'[n].at # loop'[k].at
      <4>1. \A n \in Loops : n # l /\ loop[n].pc = "claim" => loop[n].at \in 1..stamp /\ leases[loop[n].at].mission = None
        BY DEF OInv, ClaimInv
      <4>2. CASE k = l
        BY <1>2, <1>4, <2>1, <2>3, <2>5, <4>1, <4>2 DEF OInv, ClaimInv
      <4>3. CASE k # l
        BY <1>2, <1>4, <2>3, <2>5, <3>2, <4>1, <4>3 DEF OInv, ClaimInv
      <4> QED  BY <4>2, <4>3
    <3> QED  BY <3>1, <3>2 DEF ClaimInv
  <2>8. LeaseInv'
    BY <1>2 DEF OInv, LeaseInv
  <2> QED  BY <1>2, <2>4, <2>5, <2>6, <2>7, <2>8, SameKept, StepKeeps
<1> QED  BY <1>3, <1>4 DEF AcquireScan

\* The claim fills a place that was free, and is what the mission's owner
\* will point at.
LEMMA AcquireClaimKeeps ==
    ASSUME OInv, NEW l \in Loops, AcquireClaim(l)
    PROVE  OInv'
<1> DEFINE x == loop[l]
           s == x.at
           new == [mission |-> x.m, worker |-> x.w, state |-> "active", live |-> TRUE]
           r == [Transit(l, x.m, "running", "dequeue") EXCEPT !.at = 0]
<1>1. x \in LoopState /\ LoopGood(x, leases, done) /\ x.pc = "claim"
  BY DEF OInv, TypeOK, AcquireClaim
<1>2. x.m \in Missions /\ x.w \in Workers /\ Depends[x.m] \subseteq done
  BY <1>1 DEF LoopGood, WithMission, WithWorker, Dequeued
<1>3. s \in Stamps /\ s \in 1..stamp /\ leases[s].mission = None
  BY <1>1, OrchestratorAssumption DEF OInv, ClaimInv, TypeOK, Stamps
<1>4. /\ leases' = [leases EXCEPT ![s] = new] /\ loop' = [loop EXCEPT ![l] = r]
      /\ UNCHANGED <<approvalVars, queue, due, stamp, worker, jobs, recovery, done, control, call>>
  BY DEF AcquireClaim
<1>5. new \in Lease
  BY <1>2 DEF Lease, LeaseState
<1>6. \A t \in Stamps : leases'[t] = IF t = s THEN new ELSE leases[t]
  BY <1>4 DEF OInv, TypeOK
<1>7. r \in LoopState
  BY <1>1, <1>2 DEF Transit, LoopState, LoopPC, QueueItemState
<1>8. /\ r.pc = "read" /\ r.m = x.m /\ r.w = x.w /\ r.target = "running" /\ r.next = "dequeue"
      /\ r.expired = x.expired /\ r.stale = x.stale
  BY <1>1 DEF Transit, LoopState
<1> HIDE DEF r
<1>9. Keeps(leases, leases')
  BY <1>3, <1>6 DEF Keeps
<1>10. Had(x.m, x.w, leases')
  BY <1>3, <1>6 DEF Had
<1>11. LoopGood(r, leases', done')
  <2>1. \A t \in r.expired \cup r.stale : leases'[t].mission \in Missions
    BY <1>1, <1>8, <1>9, OrchestratorAssumption DEF LoopGood, Keeps, LoopState
  <2> QED  BY <1>2, <1>4, <1>8, <1>10, <2>1 DEF LoopGood, WithMission, WithWorker, Dequeued, AfterWrite
<1>12. TypeOK'
  <2>1. leases' \in [Stamps -> Lease]
    BY <1>4, <1>5 DEF OInv, TypeOK
  <2> QED  BY <1>4, <1>7, <2>1, LoopTyped DEF OInv, TypeOK, control, approvalVars, ApprovalTypeOK
<1>13. \A k \in Loops : loop'[k] = IF k = l THEN r ELSE loop[k]
  BY <1>4 DEF OInv, TypeOK
<1>14. LeaseInv'
  BY <1>2, <1>6, OrchestratorAssumption DEF OInv, LeaseInv
<1>15. ClaimInv'
  <2>1. \A t \in Stamps : t > stamp' => leases'[t].mission = None
    BY <1>3, <1>4, <1>6 DEF OInv, ClaimInv, TypeOK, Stamps
  <2>2. ASSUME NEW k \in Loops, loop'[k].pc = "claim"
        PROVE  /\ loop'[k].at \in 1..stamp' /\ leases'[loop'[k].at].mission = None
               /\ \A n \in Loops \ {k} : loop'[n].pc = "claim" => loop'[n].at # loop'[k].at
    <3>1. k # l /\ loop'[k] = loop[k]
      BY <1>8, <1>13, <2>2
    <3>2. /\ loop[k].at \in 1..stamp /\ leases[loop[k].at].mission = None /\ loop[k].at # s
          /\ \A n \in Loops \ {k} : loop[n].pc = "claim" => loop[n].at # loop[k].at
      BY <1>1, <2>2, <3>1 DEF OInv, ClaimInv
    <3>3. loop[k].at \in Stamps
      BY <3>2, OrchestratorAssumption DEF OInv, TypeOK, Stamps
    <3> QED  BY <1>4, <1>6, <1>8, <1>13, <3>1, <3>2, <3>3
  <2> QED  BY <2>1, <2>2 DEF ClaimInv
<1> QED  BY <1>4, <1>9, <1>11, <1>12, <1>13, <1>14, <1>15, SameKept, StepKeeps

\* Whatever a running thread does next.
LEMMA LoopStepKeeps ==
    ASSUME OInv, NEW l \in Loops, LoopStep(l)
    PROVE  OInv'
BY RunLoopKeeps, TransitionReadKeeps, TransitionWriteKeeps, ExpireListKeeps, ExpireLeaseKeeps,
   RecoverStaleKeeps, ResumeMissionKeeps, BumpReadKeeps, BumpWriteKeeps, RequeueKeeps,
   EnqueueRecoveryKeeps, SweepListKeeps, SweepKeeps, ListKeeps, BatchKeeps, TakeNextKeeps,
   CheckApprovalKeeps, PickWorkerKeeps, AcquireScanKeeps, AcquireClaimKeeps
   DEF LoopStep

-----------------------------------------------------------------------------
(* The calls of workers and clients *)

\* A step of one call that changes no store a copy or an item speaks of.
LEMMA CallWrote ==
    ASSUME OInv, TypeOK', NEW c \in Calls, NEW r \in CallState, call' = [call EXCEPT ![c] = r],
           CallGood(c, r, leases, jobs), UNCHANGED <<leases, stamp, jobs, loop>>, done \subseteq done',
           \A m \in Missions : queue'[m] = queue[m] \/ ItemGood(m, queue'[m], leases', done')
    PROVE  OInv'
<1>1. \A k \in Calls : call'[k] = IF k = c THEN r ELSE call[k]
  BY DEF OInv, TypeOK
<1>2. LeaseInv' /\ ClaimInv'
  BY ClaimsStay DEF OInv, LeaseInv
<1> QED  BY <1>1, <1>2, SameKept, StepKeeps

\* A submission, its scan and its write, keeps the invariant.
LEMMA SubmitKeeps ==
    ASSUME OInv, NEW c \in Calls, SubmitScan(c) \/ SubmitWrite(c)
    PROVE  OInv'
<1> DEFINE r(pc) == [call[c] EXCEPT !.pc = pc]
<1>1. call[c] \in CallState /\ CallGood(c, call[c], leases, jobs)
  BY DEF OInv, TypeOK
<1>2. \A pc \in CallPC : r(pc) \in CallState /\ r(pc).pc = pc
  BY <1>1 DEF CallState
<1>3. CASE SubmitScan(c)
  <2>1. PICK pc \in {"done", "write"} : call' = [call EXCEPT ![c] = r(pc)]
    BY <1>3 DEF SubmitScan, CGoto
  <2>2. Op[c] = "submit" /\ pc \in CallPC
    BY <1>1, <1>3 DEF SubmitScan, CallGood, CallPC
  <2> HIDE DEF r
  <2>3. CallGood(c, r(pc), leases, jobs)
    BY <1>2, <2>1, <2>2 DEF CallGood
  <2> QED  BY <1>2, <1>3, <2>1, <2>2, <2>3, OneCall DEF SubmitScan
<1>4. CASE SubmitWrite(c)
  <2>1. call' = [call EXCEPT ![c] = r("done")] /\ queue' = [queue EXCEPT ![Arg[c]] = NewItem]
    BY <1>4 DEF SubmitWrite, CGoto
  <2>2. "done" \in CallPC /\ NewItem \in Item /\ NewItem.state = "queued"
    BY DEF CallPC, NewItem, Item, QueueItemState
  <2> HIDE DEF r
  <2>3. CallGood(c, r("done"), leases, jobs) /\ r("done") \in CallState
    BY <1>2, <2>2 DEF CallGood
  <2>4. Arg[c] \in Missions
    BY OrchestratorAssumption
  <2>5. \A m \in Missions : queue'[m] = IF m = Arg[c] THEN NewItem ELSE queue[m]
    BY <2>1 DEF OInv, TypeOK
  <2>6. \A m \in Missions : queue'[m] = queue[m] \/ ItemGood(m, queue'[m], leases', done')
    BY <2>2, <2>5 DEF ItemGood
  <2>7. UNCHANGED <<approvalVars, due, leases, stamp, worker, jobs, recovery, done, control, loop>>
    BY <1>4 DEF SubmitWrite
  <2>8. TypeOK'
    BY <2>1, <2>2, <2>3, <2>4, <2>7 DEF OInv, TypeOK, control, approvalVars, ApprovalTypeOK
  <2> QED  BY <2>1, <2>3, <2>6, <2>7, <2>8, CallWrote
<1> QED  BY <1>3, <1>4

\* The looks of complete_mission before the gate.
LEMMA CompleteLooks ==
    ASSUME OInv, NEW c \in Calls, CompleteGet(c) \/ CompleteHeld(c) \/ BeatRead(c)
    PROVE  OInv'
<1> DEFINE r(pc) == [call[c] EXCEPT !.pc = pc]
<1>1. call[c] \in CallState
  BY DEF OInv, TypeOK
<1>2. PICK pc \in {"held", "pending", "saveBeat", "done"} : call' = [call EXCEPT ![c] = r(pc)]
  BY DEF CompleteGet, CompleteHeld, BeatRead, CGoto
<1>3. r(pc) \in CallState /\ r(pc).pc = pc
  BY <1>1 DEF CallState, CallPC
<1>4. OnlyCall
  BY DEF CompleteGet, CompleteHeld, BeatRead
<1> HIDE DEF r
<1>5. CallGood(c, r(pc), leases, jobs)
  BY <1>3 DEF CallGood
<1> QED  BY <1>2, <1>3, <1>4, <1>5, OneCall

\* Jobs that are not pending at the first look are reported, and stay so.
LEMMA GatePendingKeeps ==
    ASSUME OInv, NEW c \in Calls, GatePending(c)
    PROVE  OInv'
<1> DEFINE there == {j \in Jobs : JobFor[j] = Arg[c] /\ jobs[j] # "absent"}
           r(pc) == [call[c] EXCEPT !.pc = pc, !.jobs = there]
<1>1. call[c] \in CallState
  BY DEF OInv, TypeOK
<1>2. PICK pc \in {"failed", "done"} :
         call' = [call EXCEPT ![c] = r(pc)] /\ (pc = "failed" => JobsOf(Arg[c], "pending") = {})
  BY DEF GatePending, Gate
<1>3. r(pc) \in CallState /\ r(pc).pc = pc /\ r(pc).jobs = there
  BY <1>1 DEF CallState, CallPC
<1>4. pc = "failed" => \A j \in there : JobFor[j] = Arg[c] /\ jobs[j] \in {"verified", "failed"}
  BY <1>2 DEF JobsOf, OInv, TypeOK
<1>5. OnlyCall
  BY DEF GatePending
<1> HIDE DEF r
<1>6. CallGood(c, r(pc), leases, jobs)
  BY <1>3, <1>4 DEF CallGood
<1> QED  BY <1>2, <1>3, <1>5, <1>6, OneCall

\* With none of them failed at the second look, all are verified.
LEMMA GateFailedKeeps ==
    ASSUME OInv, NEW c \in Calls, GateFailed(c)
    PROVE  OInv'
<1> DEFINE x == call[c]
           r(pc) == [x EXCEPT !.pc = pc]
<1>1. x \in CallState /\ CallGood(c, x, leases, jobs) /\ x.pc = "failed"
  BY DEF OInv, TypeOK, GateFailed
<1>2. PICK pc \in {"read", "done"} :
         call' = [call EXCEPT ![c] = r(pc)] /\ (pc = "read" => JobsOf(Arg[c], "failed") = {})
  BY DEF GateFailed, Gate, CGoto
<1>3. r(pc) \in CallState /\ r(pc).pc = pc /\ r(pc).jobs = x.jobs
  BY <1>1 DEF CallState, CallPC
<1>4. pc = "read" => \A j \in x.jobs : jobs[j] = "verified"
  BY <1>1, <1>2 DEF JobsOf, CallGood, CallState
<1>5. OnlyCall
  BY DEF GateFailed
<1> HIDE DEF r
<1>6. CallGood(c, r(pc), leases, jobs)
  BY <1>3, <1>4 DEF CallGood
<1> QED  BY <1>2, <1>3, <1>5, <1>6, OneCall

\* The read of complete_mission keeps the invariant.
LEMMA CompleteReadKeeps ==
    ASSUME OInv, NEW c \in Calls, CompleteRead(c)
    PROVE  OInv'
<1> DEFINE x == call[c]
           item == [queue[Arg[c]] EXCEPT !.state = "completed"]
           r == [x EXCEPT !.pc = "write", !.item = item]
<1>1. x \in CallState /\ CallGood(c, x, leases, jobs) /\ x.pc = "read"
  BY DEF OInv, TypeOK, CompleteRead
<1>2. item \in Item /\ item.state = "completed"
  <2>1. queue[Arg[c]] \in Item
    BY OrchestratorAssumption DEF OInv, TypeOK
  <2> QED  BY <2>1 DEF Item, QueueItemState
<1>3. call' = [call EXCEPT ![c] = r] /\ OnlyCall
  BY DEF CompleteRead
<1> HIDE DEF item
<1>4. r \in CallState /\ r.pc = "write" /\ r.item = item /\ r.jobs = x.jobs
  BY <1>1, <1>2 DEF CallState, CallPC
<1> HIDE DEF r
<1>5. CallGood(c, r, leases, jobs)
  BY <1>1, <1>2, <1>4 DEF CallGood
<1> QED  BY <1>3, <1>4, <1>5, OneCall

\* The write of complete_mission keeps the invariant.
LEMMA CompleteWriteKeeps ==
    ASSUME OInv, NEW c \in Calls, CompleteWrite(c)
    PROVE  OInv'
<1> DEFINE x == call[c]
           r == [x EXCEPT !.pc = "lease", !.item = NoItem, !.jobs = {}]
<1>1. x \in CallState /\ x.item.state = "completed" /\ x.item \in Item
  BY DEF OInv, TypeOK, CompleteWrite, CallGood, CallState
<1>2. /\ call' = [call EXCEPT ![c] = r] /\ queue' = [queue EXCEPT ![Arg[c]] = x.item]
      /\ done' = done \cup {Arg[c]}
      /\ UNCHANGED <<approvalVars, due, leases, stamp, worker, jobs, recovery, control, loop>>
  BY DEF CompleteWrite
<1>3. NoItem \in Item /\ Arg[c] \in Missions
  BY OrchestratorAssumption DEF NoItem, NewItem, Item, QueueItemState
<1>4. r \in CallState /\ r.pc = "lease"
  BY <1>1, <1>3 DEF CallState, CallPC
<1> HIDE DEF r
<1>5. CallGood(c, r, leases, jobs)
  BY <1>4 DEF CallGood
<1>6. \A m \in Missions : queue'[m] = IF m = Arg[c] THEN x.item ELSE queue[m]
  BY <1>2 DEF OInv, TypeOK
<1>7. \A m \in Missions : queue'[m] = queue[m] \/ ItemGood(m, queue'[m], leases', done')
  BY <1>1, <1>2, <1>6 DEF ItemGood
<1>8. TypeOK'
  BY <1>1, <1>2, <1>3, <1>4 DEF OInv, TypeOK, control, approvalVars, ApprovalTypeOK
<1> QED  BY <1>2, <1>4, <1>5, <1>7, <1>8, CallWrote

\* The read of a call on a lease keeps the invariant.
LEMMA LeaseReadKeeps ==
    ASSUME OInv, NEW c \in Calls, LeaseRead(c)
    PROVE  OInv'
<1> DEFINE x == call[c]
           over == [x EXCEPT !.pc = "done"]
           r(s) == [x EXCEPT !.pc = "saveLease", !.at = s, !.lease = LeaseAfter(c, leases[s])]
<1>1. x \in CallState
  BY DEF OInv, TypeOK
<1>2. OnlyCall
  BY DEF LeaseRead
<1>3. CASE call' = [call EXCEPT ![c] = over]
  <2>1. over \in CallState /\ over.pc = "done"
    BY <1>1 DEF CallState, CallPC
  <2> HIDE DEF over
  <2>2. CallGood(c, over, leases, jobs)
    BY <2>1 DEF CallGood
  <2> QED  BY <1>2, <1>3, <2>1, <2>2, OneCall
<1>4. CASE \E s \in Latest(Arg[c]) : call' = [call EXCEPT ![c] = r(s)]
  <2>1. PICK s \in Latest(Arg[c]) : call' = [call EXCEPT ![c] = r(s)]
    BY <1>4
  <2>2. s \in Stamps /\ leases[s].mission = Arg[c] /\ leases[s] \in Lease /\ Arg[c] \in Missions
    BY <2>1, OrchestratorAssumption DEF Latest, LeasesOf, OInv, TypeOK
  <2>3. /\ LeaseAfter(c, leases[s]) \in Lease
        /\ LeaseAfter(c, leases[s]).mission = leases[s].mission
        /\ LeaseAfter(c, leases[s]).worker = leases[s].worker
    BY <2>2 DEF LeaseAfter, Lease, LeaseState
  <2>4. /\ r(s) \in CallState /\ r(s).pc = "saveLease" /\ r(s).at = s
        /\ r(s).lease = LeaseAfter(c, leases[s])
    BY <1>1, <2>2, <2>3 DEF CallState, CallPC
  <2> HIDE DEF r
  <2>5. CallGood(c, r(s), leases, jobs)
    BY <2>2, <2>3, <2>4 DEF CallGood
  <2> QED  BY <1>2, <2>1, <2>4, <2>5, OneCall
<1> QED  BY <1>3, <1>4 DEF LeaseRead, CGoto

\* A lease written back is still the mission's and the worker's.
LEMMA LeaseWriteKeeps ==
    ASSUME OInv, NEW c \in Calls, LeaseWrite(c)
    PROVE  OInv'
<1> DEFINE x == call[c]
           s == x.at
           r == [x EXCEPT !.pc = "done", !.at = 0, !.lease = NoLease]
<1>1. x \in CallState /\ x.lease \in Lease
  BY DEF OInv, TypeOK, CallState
<1>2. /\ s \in Stamps /\ leases[s].mission \in Missions
      /\ x.lease.mission = leases[s].mission /\ x.lease.worker = leases[s].worker
  BY DEF OInv, LeaseWrite, CallGood
<1>3. /\ call' = [call EXCEPT ![c] = r] /\ leases' = [leases EXCEPT ![s] = x.lease]
      /\ UNCHANGED <<approvalVars, queue, due, stamp, worker, jobs, recovery, done, control, loop>>
  BY DEF LeaseWrite
<1>4. NoLease \in Lease
  BY DEF NoLease, Lease, LeaseState
<1>5. r \in CallState /\ r.pc = "done"
  BY <1>1, <1>4 DEF CallState, CallPC
<1> HIDE DEF r
<1>6. CallGood(c, r, leases', jobs')
  BY <1>5 DEF CallGood
<1>7. \A t \in Stamps : leases'[t] = IF t = s THEN x.lease ELSE leases[t]
  BY <1>3 DEF OInv, TypeOK
<1>8. TypeOK'
  BY <1>1, <1>2, <1>3, <1>5 DEF OInv, TypeOK, control, approvalVars, ApprovalTypeOK
<1>9. Keeps(leases, leases')
  BY <1>2, <1>7 DEF Keeps
<1>10. LeaseInv'
  BY <1>2, <1>7, OrchestratorAssumption DEF OInv, LeaseInv
<1>11. ClaimInv'
  BY <1>2, <1>3, <1>7, ClaimsStay
<1>12. \A k \in Calls : call'[k] = IF k = c THEN r ELSE call[k]
  BY <1>3 DEF OInv, TypeOK
<1> QED  BY <1>3, <1>6, <1>8, <1>9, <1>10, <1>11, <1>12, SameKept, StepKeeps

\* The write of a worker's heartbeat keeps the invariant.
LEMMA BeatWriteKeeps ==
    ASSUME OInv, NEW c \in Calls, BeatWrite(c)
    PROVE  OInv'
<1> DEFINE r == [call[c] EXCEPT !.pc = "done"]
<1>1. /\ call' = [call EXCEPT ![c] = r] /\ worker' = [worker EXCEPT ![By[c]] = "fresh"]
      /\ UNCHANGED <<approvalVars, queue, due, leases, stamp, jobs, recovery, done, control, loop>>
  BY DEF BeatWrite, CGoto
<1>2. call[c] \in CallState
  BY DEF OInv, TypeOK
<1>3. r \in CallState /\ r.pc = "done"
  BY <1>2 DEF CallState, CallPC
<1> HIDE DEF r
<1>4. CallGood(c, r, leases, jobs)
  BY <1>3 DEF CallGood
<1>5. TypeOK'
  BY <1>1, <1>3 DEF OInv, TypeOK, control, approvalVars, ApprovalTypeOK
<1> QED  BY <1>1, <1>3, <1>4, <1>5, CallWrote

\* Whatever a call does next.
LEMMA CallStepKeeps ==
    ASSUME OInv, NEW c \in Calls, CallStep(c)
    PROVE  OInv'
BY SubmitKeeps, CompleteLooks, GatePendingKeeps, GateFailedKeeps, CompleteReadKeeps,
   CompleteWriteKeeps, LeaseReadKeeps, LeaseWriteKeeps, BeatWriteKeeps
   DEF CallStep

-----------------------------------------------------------------------------
(* Starting, stopping and failing; workers, jobs and time *)

\* The start of a loop thread keeps the invariant.
LEMMA StartKeeps ==
    ASSUME OInv, NEW l \in Loops, Start(l)
    PROVE  OInv'
<1> DEFINE x == loop[l]
           r == [x EXCEPT !.pc = "top"]
<1>1. x \in LoopState
  BY DEF OInv, TypeOK
<1>2. r \in LoopState /\ r.pc = "top" /\ r.expired = x.expired /\ r.stale = x.stale
  BY <1>1 DEF LoopState, LoopPC
<1>3. /\ loop' = [loop EXCEPT ![l] = r] /\ active' = TRUE /\ stopping' = FALSE
      /\ UNCHANGED <<approvalVars, stores, stops, faults, call>>
  BY DEF Start, LGoto
<1> HIDE DEF r
<1>4. LoopGood(r, leases, done)
  BY <1>2, TidyGood DEF WithMission
<1> QED  BY <1>2, <1>3, <1>4, OneLoop DEF OInv, TypeOK

\* A cycle that raises keeps the invariant.
LEMMA CycleFailsKeeps ==
    ASSUME OInv, NEW l \in Loops, CycleFails(l)
    PROVE  OInv'
<1>1. AtTop \in LoopState
  BY DEF AtTop, LoopOff, LoopState, LoopPC, NoItem, NewItem, Item, QueueItemState
<1>2. AtTop.pc = "top" /\ AtTop.expired = {} /\ AtTop.stale = {}
  BY DEF AtTop, LoopOff
<1>3. LoopGood(AtTop, leases, done)
  BY <1>2, IdleGood DEF WithMission
<1>4. /\ loop' = [loop EXCEPT ![l] = AtTop]
      /\ UNCHANGED <<approvalVars, stores, active, stopping, stops, call>>
  BY DEF CycleFails
<1>5. /\ active' \in BOOLEAN /\ stopping' \in BOOLEAN
      /\ stops' \in Nat /\ faults' \in Nat
  BY DEF CycleFails, OInv, TypeOK
<1> QED  BY <1>1, <1>2, <1>3, <1>4, <1>5, OneLoop

\* The threads of a process that ended rely on nothing.
LEMMA CrashKeeps ==
    ASSUME OInv, Crash
    PROVE  OInv'
<1>1. LoopOff \in LoopState
  BY DEF LoopOff, LoopState, LoopPC, NoItem, NewItem, Item, QueueItemState
<1>2. LoopOff.pc = "off" /\ LoopOff.expired = {} /\ LoopOff.stale = {}
  BY DEF LoopOff
<1>3. LoopGood(LoopOff, leases, done)
  BY <1>2, IdleGood DEF WithMission
<1>4. /\ loop' = [l \in Loops |-> LoopOff] /\ active' = FALSE /\ stopping' = FALSE
      /\ faults' \in Nat /\ UNCHANGED <<approvalVars, stores, stops, call>>
  BY DEF Crash, OInv, TypeOK
<1>5. TypeOK'
  BY <1>1, <1>4 DEF OInv, TypeOK, stores, approvalVars, ApprovalTypeOK
<1>6. LeaseInv' /\ ClaimInv'
  BY <1>2, <1>4, ClaimsStay DEF OInv, LeaseInv, stores
<1> QED  BY <1>3, <1>4, <1>5, <1>6, SameKept, StepKeeps DEF stores

\* A step that leaves the items, the leases' owners, the threads and the calls.
LEMMA QuietKeeps ==
    ASSUME OInv, TypeOK', UNCHANGED <<queue, stamp, done, loop, call>>, Reported(jobs, jobs'),
           \A s \in Stamps : /\ leases'[s].mission = leases[s].mission
                             /\ leases'[s].worker = leases[s].worker
                             /\ leases'[s].state = leases[s].state
    PROVE  OInv'
<1>1. LeaseInv' /\ ClaimInv'
  BY ClaimsStay DEF OInv, LeaseInv
<1>2. Keeps(leases, leases')
  BY DEF Keeps
<1> QED  BY <1>1, <1>2, StepKeeps

\* A worker that registers, leaves or grows stale keeps the invariant.
LEMMA WorkerKeeps ==
    ASSUME OInv, NEW w \in Workers, Register(w) \/ Unregister(w) \/ GrowStale(w)
    PROVE  OInv'
<1>1. UNCHANGED <<approvalVars, queue, due, leases, stamp, jobs, recovery, done, control, loop, call>>
  BY DEF Register, Unregister, GrowStale
<1>2. worker' \in [Workers -> {"absent", "fresh", "stale", "unregistered"}]
  BY DEF Register, Unregister, GrowStale, OInv, TypeOK
<1>3. TypeOK'
  BY <1>1, <1>2 DEF OInv, TypeOK, control, approvalVars, ApprovalTypeOK
<1> QED  BY <1>1, <1>3, SameKept, QuietKeeps

\* A job is reported once.
LEMMA JobKeeps ==
    ASSUME OInv, NEW j \in Jobs, EnqueueJob(j) \/ ReportJob(j)
    PROVE  OInv'
<1>1. UNCHANGED <<approvalVars, queue, due, leases, stamp, worker, recovery, done, control, loop, call>>
  BY DEF EnqueueJob, ReportJob
<1>2. PICK status \in {"pending", "verified", "failed"} : jobs' = [jobs EXCEPT ![j] = status]
  BY DEF EnqueueJob, ReportJob
<1>3. jobs[j] \in {"absent", "pending"}
  BY DEF EnqueueJob, ReportJob
<1>4. TypeOK' /\ Reported(jobs, jobs')
  BY <1>1, <1>2, <1>3 DEF OInv, TypeOK, control, approvalVars, ApprovalTypeOK, Reported
<1> QED  BY <1>1, <1>4, QuietKeeps

\* A lease that lapses keeps the invariant.
LEMMA LapseKeeps ==
    ASSUME OInv, NEW s \in Stamps, Lapse(s)
    PROVE  OInv'
<1>1. UNCHANGED <<approvalVars, queue, due, stamp, worker, jobs, recovery, done, control, loop, call>>
  BY DEF Lapse
<1>2. leases' = [leases EXCEPT ![s] = [leases[s] EXCEPT !.live = FALSE]]
  BY DEF Lapse
<1>3. /\ [leases[s] EXCEPT !.live = FALSE] \in Lease
      /\ \A t \in Stamps : /\ leases'[t].mission = leases[t].mission
                            /\ leases'[t].worker = leases[t].worker
                            /\ leases'[t].state = leases[t].state
  BY <1>2 DEF OInv, TypeOK, Lease
<1>4. TypeOK'
  BY <1>1, <1>2, <1>3 DEF OInv, TypeOK, control, approvalVars, ApprovalTypeOK
<1> QED  BY <1>1, <1>3, <1>4, SameKept, QuietKeeps

\* A delay that ends keeps the invariant.
LEMMA TimeKeeps ==
    ASSUME OInv, NEW m \in Missions, BecomeDue(m)
    PROVE  OInv'
<1>1. /\ due' \subseteq Missions
      /\ UNCHANGED <<approvalVars, queue, leases, stamp, worker, jobs, recovery, done, control, loop, call>>
  BY DEF BecomeDue, OInv, TypeOK
<1>2. TypeOK'
  BY <1>1 DEF OInv, TypeOK, control, approvalVars, ApprovalTypeOK
<1> QED  BY <1>1, <1>2, SameKept, QuietKeeps

\* stop keeps the invariant.
LEMMA StopKeeps ==
    ASSUME OInv, Stop
    PROVE  OInv'
<1>1. UNCHANGED <<approvalVars, stores, faults, loop, call>>
  BY DEF Stop
<1>2. active' = FALSE /\ stopping' = TRUE /\ stops' \in Nat
  BY DEF Stop, OInv, TypeOK
<1>3. TypeOK'
  BY <1>1, <1>2 DEF OInv, TypeOK, stores, approvalVars, ApprovalTypeOK
<1> QED  BY <1>1, <1>3, SameKept, QuietKeeps DEF stores

\* The approval queue works on its own records.
LEMMA ApprovingKeeps ==
    ASSUME OInv, Approving
    PROVE  OInv'
<1>1. UNCHANGED <<stores, control, loop, call>> /\ ApprovalNext
  BY DEF Approving
<1>2. ApprovalTypeOK'
  BY <1>1, TypeStep DEF OInv, TypeOK
<1>3. TypeOK'
  BY <1>1, <1>2 DEF OInv, TypeOK, stores, control
<1> QED  BY <1>1, <1>3, SameKept, QuietKeeps DEF stores

-----------------------------------------------------------------------------
\* The orchestrator starts in its invariant.
LEMMA OrchestratorStarts == Init => OInv
<1> SUFFICES ASSUME Init PROVE OInv
  OBVIOUS
<1>1. NoItem \in Item /\ NoItem.state = "absent"
  BY DEF NoItem, NewItem, Item, QueueItemState
<1>2. NoLease \in Lease /\ NoLease.mission = None /\ NoLease.state = "absent"
  BY DEF NoLease, Lease, LeaseState
<1>3. LoopOff \in LoopState /\ LoopOff.pc = "off" /\ LoopOff.expired = {} /\ LoopOff.stale = {}
  BY <1>1 DEF LoopOff, LoopState, LoopPC, QueueItemState
<1>4. ASSUME NEW c \in Calls
      PROVE  NewCall(c) \in CallState /\ CallGood(c, NewCall(c), leases, jobs)
  <2>1. /\ Entry(c) \in {"submit", "get", "beat", "lease"}
        /\ Entry(c) = "submit" => Op[c] = "submit"
    BY OrchestratorAssumption DEF Entry
  <2>2. NewCall(c) \in CallState /\ NewCall(c).pc = Entry(c)
    BY <1>1, <1>2, <2>1 DEF NewCall, CallState, CallPC
  <2> QED  BY <2>1, <2>2 DEF CallGood
<1>5. ApprovalTypeOK
  BY ApprovalQueueAssumption DEF Init, ApprovalInit, ApprovalTypeOK, ApprovalPC, RequestStatus
<1>6. TypeOK
  BY <1>1, <1>2, <1>3, <1>4, <1>5 DEF Init, TypeOK
<1>7. \A m \in Missions : ItemGood(m, queue[m], leases, done)
  BY <1>1 DEF Init, ItemGood
<1>8. \A l \in Loops : LoopGood(loop[l], leases, done)
  BY <1>3, IdleGood DEF Init, WithMission
<1>9. LeaseInv /\ ClaimInv
  BY <1>2, <1>3 DEF Init, LeaseInv, ClaimInv
<1> QED  BY <1>4, <1>6, <1>7, <1>8, <1>9 DEF Init, OInv

\* Every step of the orchestrator keeps its invariant.
LEMMA OrchestratorSteps == OInv /\ [Next]_vars => OInv'
<1> SUFFICES ASSUME OInv, [Next]_vars PROVE OInv'
  OBVIOUS
<1>1. CASE \E l \in Loops : Start(l) \/ LoopStep(l) \/ CycleFails(l)
  BY <1>1, StartKeeps, LoopStepKeeps, CycleFailsKeeps
<1>2. CASE \E c \in Calls : CallStep(c)
  BY <1>2, CallStepKeeps
<1>3. CASE \/ \E w \in Workers : Register(w)
           \/ \E w \in Leaving : Unregister(w) \/ GrowStale(w)
  BY <1>3, WorkerKeeps, OrchestratorAssumption
<1>4. CASE \E j \in Jobs : EnqueueJob(j) \/ ReportJob(j)
  BY <1>4, JobKeeps
<1>5. CASE \/ \E s \in Stamps : Lapse(s)
           \/ \E m \in Missions : BecomeDue(m)
  BY <1>5, LapseKeeps, TimeKeeps
<1>6. CASE Approving \/ Stop \/ Crash
  BY <1>6, ApprovingKeeps, StopKeeps, CrashKeeps
<1>7. CASE UNCHANGED vars
  <2>1. TypeOK'
    BY <1>7 DEF OInv, TypeOK, vars, stores, control, approvalVars, ApprovalTypeOK
  <2> QED  BY <1>7, <2>1, SameKept, QuietKeeps DEF vars, stores
<1> QED  BY <1>1, <1>2, <1>3, <1>4, <1>5, <1>6, <1>7 DEF Next

\* The inductive invariant: every item, copy and call is good in every
\* reachable state, for any number of threads, workers, missions and calls.
THEOREM OrchestratorInvariance == Spec => []OInv
BY OrchestratorStarts, OrchestratorSteps, PTL DEF Spec

\* Every variable of the orchestrator keeps its type.
THEOREM OrchestratorTypes == Spec => []TypeOK
<1>1. OInv => TypeOK
  BY DEF OInv
<1> QED  BY <1>1, OrchestratorInvariance, PTL

\* A mission runs only after each mission it depends on was completed,
\* whatever stale copies two loop threads write back.
THEOREM DependenciesTheorem == Spec => []DependenciesHonoured
<1>1. OInv => DependenciesHonoured
  BY DEF OInv, ItemGood, DependenciesHonoured
<1> QED  BY <1>1, OrchestratorInvariance, PTL

\* A running mission has an owner who took a lease on it.
THEOREM LeaseTheorem == Spec => []RunningWasLeased
<1>1. OInv => RunningWasLeased
  BY DEF OInv, ItemGood, Had, LeasesOf, RunningWasLeased
<1> QED  BY <1>1, OrchestratorInvariance, PTL

\* complete_mission lets a mission through only with every job that was there
\* verified, although it looks at the evidence queue twice.
THEOREM GateTheorem == Spec => []GateHolds
<1>1. OInv => GateHolds
  BY DEF OInv, CallGood, GateHolds
<1> QED  BY <1>1, OrchestratorInvariance, PTL

-----------------------------------------------------------------------------
(* The attempts of a mission. *)

\* One thread runs the loop: no start() finds the thread of an earlier one still at work.
OneThread == \E l \in Loops : Loops = {l}

\* A mission is submitted and completed by one call each at most.
OnceEach == \A c, d \in Calls :
    Op[c] = Op[d] /\ Op[c] \in {"submit", "complete"} /\ Arg[c] = Arg[d] => c = d

\* The states that only a stale copy takes a mission out of.
Ended == {"blocked", "completed"}

\* Where a loop thread is about to read or write the item of its mission.
Handling == {"bump", "bumped", "reread", "recover", "check", "schedule", "acquire", "claim",
             "read", "write"}

\* A mission the thread has in hand: it may still write a copy of it.
InHand(x, m) == (x.m = m /\ x.pc \in Handling) \/ m \in x.batch

\* An attempt of the mission was counted and not decided on yet.
Deciding(x, m) ==
    x.m = m /\ (x.pc = "reread" \/ (x.pc \in {"read", "write"} /\ x.target = "blocked"))

\* The thread works through a list while it makes missions ready.
ListGood(x) ==
    /\ x.batch # {} => \/ x.pc \in {"promoting", "wakening"}
                       \/ x.pc \in {"read", "write"} /\ x.target = "ready"
                            /\ x.next \in {"promoting", "wakening"}
    /\ x.pc \in {"read", "write"} =>
          /\ x.target \in {"ready", "blocked", "waiting_approval", "running"}
          /\ x.next = "recover" => x.target = "blocked"

\* What a copy in the thread's hand counts; one attempt more than the limit only where
\* the mission is being blocked.
CopyCounts(x, f) ==
    /\ x.pc = "write" => /\ x.copy.state = x.target /\ x.copy.attempts <= MaxAttempts + f
                         /\ x.target # "blocked" => x.copy.attempts < MaxAttempts + f
    /\ x.pc = "bumped" => x.copy.attempts <= MaxAttempts + f /\ x.copy.state # "absent"

\* What the item and the recovery items of a mission count while the thread is at x.
Tallied(m, q, r, x, f) ==
    /\ q.attempts <= MaxAttempts + f
    /\ q.attempts = MaxAttempts + f =>
          /\ q.state \in Ended \/ Deciding(x, m)
          /\ m \notin x.batch
          /\ x.m = m /\ x.pc \in Handling => Deciding(x, m) \/ x.pc = "recover"
    /\ InHand(x, m) => q.state # "absent" /\ r = 0
    /\ x.m = m /\ x.pc = "recover" => q.state \in Ended
    /\ r > 0 => q.state \in Ended
    /\ r <= 1
    /\ x.m = m => CopyCounts(x, f)

\* The steps of a completion from its first look on.
Opened == {"held", "pending", "failed", "read", "write"}

\* A submission that has not written finds nothing; a completion that has not written has
\* looked at the item and holds no more attempts than are stored.
CallCounts(c, k, m, q) ==
    Arg[c] = m =>
      /\ k.pc \in Opened \cup {"get"} => Op[c] \in {"submit", "complete"}
      /\ Op[c] = "submit" => /\ k.pc \in {"submit", "write", "done"}
                             /\ k.pc # "done" => q.state = "absent"
      /\ Op[c] = "complete" => /\ k.pc \in Opened => q.state # "absent"
                               /\ k.pc = "write" => k.item.attempts <= q.attempts

\* While a completion has not written, no item counts more than the thread's copy of it.
NoneLost(c, k, m, q, x) ==
    /\ Arg[c] = m /\ Op[c] = "complete" /\ k.pc \in Opened \cup {"get"}
    /\ x.m = m /\ x.pc \in {"write", "bumped"}
    => q.attempts <= x.copy.attempts

\* The inductive invariant of the attempts.
AttemptsInv ==
    /\ \A l \in Loops : ListGood(loop[l])
    /\ \A m \in Missions, l \in Loops : Tallied(m, queue[m], recovery[m], loop[l], faults)
    /\ \A m \in Missions, c \in Calls : CallCounts(c, call[c], m, queue[m])
    /\ \A m \in Missions, l \in Loops, c \in Calls : NoneLost(c, call[c], m, queue[m], loop[l])

\* What an idle thread counts.
LEMMA IdleTallied ==
    ASSUME NEW x, NEW r, NEW m, NEW q, NEW rec, NEW f, Tallied(m, q, rec, x, f),
           x.pc \notin {"reread", "read", "write"}, r.pc \notin Handling, r.batch = {}
    PROVE  Tallied(m, q, rec, r, f) /\ ListGood(r)
BY DEF Tallied, InHand, Deciding, CopyCounts, ListGood, Handling

\* A mission that is taken up, or is in hand already, counts less than its limit.
LEMMA TakenTallied ==
    ASSUME NEW x, NEW r, NEW m, NEW q \in Item, NEW rec \in Nat, NEW f \in Nat,
           Tallied(m, q, rec, x, f),
           x.pc \notin {"reread", "read", "write", "recover"},
           r.pc \in {"bump", "check", "schedule", "acquire", "claim"}, r.batch = {},
           r.m = m => q.state \notin {"absent", "blocked", "completed"} \/ InHand(x, m)
    PROVE  Tallied(m, q, rec, r, f) /\ ListGood(r)
<1>1. ~Deciding(x, m) /\ ~(x.m = m /\ x.pc = "recover")
  BY DEF Deciding
<1>2. r.m = m => q.state # "absent" /\ rec = 0 /\ q.attempts # MaxAttempts + f
  BY <1>1 DEF Tallied, Ended, InHand
<1>3. ~Deciding(r, m) /\ m \notin r.batch /\ CopyCounts(r, f) /\ r.pc # "recover" /\ ListGood(r)
  BY DEF Deciding, CopyCounts, ListGood
<1> QED  BY <1>1, <1>2, <1>3 DEF Tallied, InHand

\* A mission whose state is about to be changed, by a thread that has it in hand.
LEMMA TransitTallied ==
    ASSUME NEW x, NEW r, NEW m, NEW n, NEW q \in Item, NEW rec \in Nat, NEW f \in Nat,
           Tallied(m, q, rec, x, f),
           x.pc \notin {"read", "write", "recover"},
           r.pc = "read", r.m = n, r.batch \subseteq x.batch, r.batch = {} \/ r.target # "blocked",
           n = m => InHand(x, m),
           x.pc = "reread" => x.m = n /\ r.batch = {}
                              /\ (r.target = "blocked" \/ (n = m => q.attempts < MaxAttempts))
    PROVE  Tallied(m, q, rec, r, f)
<1>0. MaxAttempts \in Nat /\ q.attempts \in Nat
  BY OrchestratorAssumption DEF Item
<1>1. CopyCounts(r, f) /\ r.pc # "recover"
  BY DEF CopyCounts
<1>2. n = m => q.state # "absent" /\ rec = 0
  BY DEF Tallied
<1>3. CASE q.attempts # MaxAttempts + f
  BY <1>1, <1>2, <1>3 DEF Tallied, InHand, Handling
<1>4. CASE q.attempts = MaxAttempts + f /\ x.pc # "reread"
  <2>1. ~Deciding(x, m) /\ q.state \in Ended /\ m \notin x.batch
    BY <1>4 DEF Deciding, Tallied
  <2>2. n # m
    BY <1>4, <2>1 DEF Tallied, InHand, Deciding
  <2> QED  BY <1>1, <1>2, <1>4, <2>1, <2>2 DEF Tallied, InHand, Handling
<1>5. CASE q.attempts = MaxAttempts + f /\ x.pc = "reread"
  <2>1. n = m => r.target = "blocked"
    BY <1>0, <1>5
  <2>2. n = m => Deciding(r, m)
    BY <2>1 DEF Deciding
  <2>3. n # m => q.state \in Ended
    BY <1>5 DEF Deciding, Tallied
  <2> QED  BY <1>1, <1>2, <1>5, <2>2, <2>3 DEF Tallied, InHand, Handling
<1> QED  BY <1>3, <1>4, <1>5

\* A thread that moves on and writes nothing.
LEMMA ThreadMoves ==
    ASSUME OInv, AttemptsInv, NEW l \in Loops, NEW r, loop' = [loop EXCEPT ![l] = r],
           UNCHANGED <<queue, recovery, faults, call>>, ListGood(r),
           \A m \in Missions : Tallied(m, queue[m], recovery[m], r, faults),
           \A m \in Missions : r.m = m /\ r.pc \in {"write", "bumped"} =>
                                 queue[m].attempts <= r.copy.attempts
    PROVE  AttemptsInv'
<1>1. \A k \in Loops : loop'[k] = IF k = l THEN r ELSE loop[k]
  BY DEF OInv, TypeOK
<1>2. (\A k \in Loops : ListGood(loop[k]))'
  BY <1>1 DEF AttemptsInv
<1>3. (\A m \in Missions, k \in Loops : Tallied(m, queue[m], recovery[m], loop[k], faults))'
  BY <1>1 DEF AttemptsInv
<1>4. (\A m \in Missions, c \in Calls : CallCounts(c, call[c], m, queue[m]))'
  BY DEF AttemptsInv
<1>5. (\A m \in Missions, k \in Loops, c \in Calls : NoneLost(c, call[c], m, queue[m], loop[k]))'
  <2> SUFFICES ASSUME NEW m \in Missions, NEW k \in Loops, NEW c \in Calls
               PROVE  NoneLost(c, call[c], m, queue[m], loop'[k])
    OBVIOUS
  <2>1. NoneLost(c, call[c], m, queue[m], loop[k])
    BY DEF AttemptsInv
  <2> QED  BY <1>1, <2>1 DEF NoneLost
<1> QED  BY <1>2, <1>3, <1>4, <1>5 DEF AttemptsInv

\* What the invariant says of a thread and a mission.
LEMMA Known ==
    ASSUME OInv, AttemptsInv, NEW l \in Loops
    PROVE  /\ ListGood(loop[l]) /\ loop[l] \in LoopState
           /\ \A m \in Missions : /\ Tallied(m, queue[m], recovery[m], loop[l], faults)
                                  /\ queue[m] \in Item /\ recovery[m] \in Nat
           /\ faults \in Nat /\ MaxAttempts \in Nat
           /\ loop[l].pc \in WithMission => loop[l].m \in Missions
BY OrchestratorAssumption DEF OInv, TypeOK, AttemptsInv, LoopGood

\* A thread that goes on with its cycle.
LEMMA IdleMoves ==
    ASSUME OInv, AttemptsInv, NEW l \in Loops, NEW r, loop' = [loop EXCEPT ![l] = r],
           UNCHANGED <<queue, recovery, faults, call>>,
           loop[l].pc \notin {"reread", "read", "write"}, r.pc \notin Handling, r.batch = {}
    PROVE  AttemptsInv'
<1>1. \A m \in Missions : Tallied(m, queue[m], recovery[m], r, faults)
  BY Known, IdleTallied
<1>2. ListGood(r)
  BY DEF ListGood, Handling
<1>3. r.pc \notin {"write", "bumped"}
  BY DEF Handling
<1> QED  BY <1>1, <1>2, <1>3, ThreadMoves

\* A thread that takes a mission up or goes on with it.
LEMMA TakenMoves ==
    ASSUME OInv, AttemptsInv, NEW l \in Loops, NEW r, loop' = [loop EXCEPT ![l] = r],
           UNCHANGED <<queue, recovery, faults, call>>,
           loop[l].pc \notin {"reread", "read", "write", "recover"},
           r.pc \in {"bump", "check", "schedule", "acquire", "claim"}, r.batch = {},
           \A m \in Missions : r.m = m =>
              queue[m].state \notin {"absent", "blocked", "completed"} \/ InHand(loop[l], m)
    PROVE  AttemptsInv'
<1>1. \A m \in Missions : Tallied(m, queue[m], recovery[m], r, faults)
  BY Known, TakenTallied
<1>2. ListGood(r)
  BY DEF ListGood
<1> QED  BY <1>1, <1>2, ThreadMoves

\* A thread that goes on to change the state of a mission it has in hand.
LEMMA TransitMoves ==
    ASSUME OInv, AttemptsInv, NEW l \in Loops, NEW r, loop' = [loop EXCEPT ![l] = r],
           UNCHANGED <<queue, recovery, faults, call>>,
           loop[l].pc \notin {"read", "write", "recover"}, r.pc = "read", ListGood(r),
           r.batch \subseteq loop[l].batch, r.batch = {} \/ r.target # "blocked",
           InHand(loop[l], r.m),
           loop[l].pc = "reread" =>
             /\ loop[l].m = r.m /\ r.batch = {}
             /\ r.target = "blocked" \/ queue[r.m].attempts < MaxAttempts
    PROVE  AttemptsInv'
<1>1. ASSUME NEW m \in Missions PROVE Tallied(m, queue[m], recovery[m], r, faults)
  BY Known, TransitTallied
<1> QED  BY <1>1, ThreadMoves

\* A thread that works through no list holds none.
LEMMA NoBatch ==
    ASSUME AttemptsInv, NEW l \in Loops,
           loop[l].pc \notin {"promoting", "wakening", "read", "write"}
    PROVE  loop[l].batch = {}
BY DEF AttemptsInv, ListGood

\* The start of a cycle, or of a thread, counts nothing.
LEMMA BeginCounts ==
    ASSUME OInv, AttemptsInv, NEW l \in Loops, RunLoop(l) \/ Start(l)
    PROVE  AttemptsInv'
<1> DEFINE begun == [LoopOff EXCEPT !.pc = IF active /\ ~stopping THEN "expire" ELSE "off"]
           started == [loop[l] EXCEPT !.pc = "top"]
<1>1. loop[l].pc \in {"top", "off"} /\ loop[l].batch = {} /\ loop[l] \in LoopState
  BY Known, NoBatch DEF RunLoop, Start
<1>2. begun.pc \in {"expire", "off"} /\ begun.batch = {}
  BY DEF LoopOff
<1>3. started.pc = "top" /\ started.batch = {}
  BY <1>1 DEF LoopState
<1>4. PICK r \in {begun, started} : loop' = [loop EXCEPT ![l] = r]
  BY DEF RunLoop, Start, LGoto
<1>5. UNCHANGED <<queue, recovery, faults, call>>
  BY DEF RunLoop, Start, OnlyLoop, stores, control
<1> HIDE DEF begun, started
<1>6. r.pc \notin Handling /\ r.batch = {}
  BY <1>2, <1>3, <1>4 DEF Handling
<1> QED  BY <1>1, <1>4, <1>5, <1>6, IdleMoves

\* The lapsed leases are listed and marked without a look at the items.
LEMMA ExpiryCounts ==
    ASSUME OInv, AttemptsInv, NEW l \in Loops, ExpireList(l) \/ ExpireLease(l)
    PROVE  AttemptsInv'
<1> DEFINE x == loop[l]
           lapsed == {s \in Stamps : leases[s].state = "active" /\ ~leases[s].live}
           listed == [x EXCEPT !.expired = lapsed,
                               !.pc = IF lapsed = {} THEN "approvals" ELSE "expiring"]
           marked(s) == [x EXCEPT !.expired = x.expired \ {s}, !.stale = x.stale \cup {s},
                                  !.pc = IF x.expired = {s} THEN "resume" ELSE x.pc]
<1>1. x.pc \in {"expire", "expiring"} /\ x.batch = {} /\ x \in LoopState
  BY Known, NoBatch DEF ExpireList, ExpireLease
<1>2. UNCHANGED <<queue, recovery, faults, call>>
  BY DEF ExpireList, ExpireLease, OnlyLoop, stores, control
<1>3. CASE ExpireList(l)
  <2>1. loop' = [loop EXCEPT ![l] = listed]
    BY <1>3 DEF ExpireList
  <2>2. listed.pc \in {"approvals", "expiring"} /\ listed.batch = {}
    BY <1>1 DEF LoopState
  <2> HIDE DEF listed
  <2>3. listed.pc \notin Handling
    BY <2>2 DEF Handling
  <2> QED  BY <1>1, <1>2, <2>1, <2>2, <2>3, IdleMoves
<1>4. CASE ExpireLease(l)
  <2>1. PICK s \in x.expired : loop' = [loop EXCEPT ![l] = marked(s)]
    BY <1>4 DEF ExpireLease
  <2>2. x.pc = "expiring"
    BY <1>4 DEF ExpireLease
  <2>3. marked(s).pc \in {"resume", "expiring"} /\ marked(s).batch = {}
    BY <1>1, <2>2 DEF LoopState
  <2> HIDE DEF marked
  <2>4. marked(s).pc \notin Handling
    BY <2>3 DEF Handling
  <2> QED  BY <1>1, <1>2, <2>1, <2>3, <2>4, IdleMoves
<1> QED  BY <1>3, <1>4

\* The choice of the next lease to recover counts nothing.
LEMMA RecoverStaleCounts ==
    ASSUME OInv, AttemptsInv, NEW l \in Loops, RecoverStale(l)
    PROVE  AttemptsInv'
<1> DEFINE x == loop[l]
<1>1. x.pc = "resume" /\ x.batch = {} /\ x \in LoopState
  BY Known, NoBatch DEF RecoverStale
<1> DEFINE taken(s) == [x EXCEPT !.stale = x.stale \ {s}, !.m = leases[s].mission, !.pc = "reget"]
           passed(s) == [x EXCEPT !.stale = x.stale \ {s}, !.pc = Resuming(x.stale \ {s})]
<1>2. PICK s \in x.stale :
         loop' = [loop EXCEPT ![l] =
            IF \E t \in LeasesOf(leases[s].mission) : leases[t].state = "stale"
            THEN taken(s) ELSE passed(s)]
  BY Zenon DEF RecoverStale
<1>3. /\ taken(s).pc = "reget" /\ taken(s).batch = {}
      /\ passed(s).pc \in {"approvals", "resume"} /\ passed(s).batch = {}
  BY <1>1 DEF LoopState, Resuming
<1>4. PICK r \in {taken(s), passed(s)} : loop' = [loop EXCEPT ![l] = r]
  BY <1>2
<1>5. UNCHANGED <<queue, recovery, faults, call>>
  BY DEF RecoverStale, OnlyLoop, stores, control
<1> HIDE DEF taken, passed
<1>6. r.pc \notin Handling /\ r.batch = {}
  BY <1>3, <1>4 DEF Handling
<1> QED  BY <1>1, <1>4, <1>5, <1>6, IdleMoves

\* Only a running mission is taken up for another attempt.
LEMMA ResumeMissionCounts ==
    ASSUME OInv, AttemptsInv, NEW l \in Loops, ResumeMission(l)
    PROVE  AttemptsInv'
<1> DEFINE x == loop[l]
           taken == [x EXCEPT !.pc = "bump"]
           passed == [x EXCEPT !.pc = Resuming(x.stale), !.m = None]
<1>1. x.pc = "reget" /\ x.batch = {} /\ x \in LoopState
  BY Known, NoBatch DEF ResumeMission
<1>2. /\ taken.pc = "bump" /\ taken.m = x.m /\ taken.batch = {}
      /\ passed.pc \in {"approvals", "resume"} /\ passed.batch = {}
  BY <1>1 DEF LoopState, Resuming
<1>3. UNCHANGED <<queue, recovery, faults, call>>
  BY DEF ResumeMission, OnlyLoop, stores, control
<1>4. \/ queue[x.m].state = "running" /\ loop' = [loop EXCEPT ![l] = taken]
      \/ loop' = [loop EXCEPT ![l] = passed]
  BY DEF ResumeMission
<1> HIDE DEF taken, passed
<1>5. CASE queue[x.m].state = "running" /\ loop' = [loop EXCEPT ![l] = taken]
  <2>1. \A m \in Missions : taken.m = m => queue[m].state \notin {"absent", "blocked", "completed"}
    BY <1>2, <1>5
  <2> QED  BY <1>1, <1>2, <1>3, <1>5, <2>1, TakenMoves
<1>6. CASE loop' = [loop EXCEPT ![l] = passed]
  <2>1. passed.pc \notin Handling
    BY <1>2 DEF Handling
  <2> QED  BY <1>1, <1>2, <1>3, <1>6, <2>1, IdleMoves
<1> QED  BY <1>4, <1>5, <1>6

\* Listing and expiring the requests counts nothing.
LEMMA SweepCounts ==
    ASSUME OInv, AttemptsInv, NEW l \in Loops, SweepList(l) \/ Sweep(l)
    PROVE  AttemptsInv'
<1> DEFINE x == loop[l]
           listed == [x EXCEPT !.sweep = Sweepable, !.pc = IF Sweepable = {} THEN "promote" ELSE "sweeping"]
           swept(q) == [x EXCEPT !.sweep = x.sweep \ {q}, !.pc = IF x.sweep = {q} THEN "promote" ELSE x.pc]
<1>1. x.pc \in {"approvals", "sweeping"} /\ x.batch = {} /\ x \in LoopState
  BY Known, NoBatch DEF SweepList, Sweep
<1>2. UNCHANGED <<queue, recovery, faults, call>>
  BY DEF SweepList, Sweep, OnlyLoop, stores, control
<1>3. CASE SweepList(l)
  <2>1. loop' = [loop EXCEPT ![l] = listed]
    BY <1>3 DEF SweepList
  <2>2. listed.pc \in {"promote", "sweeping"} /\ listed.batch = {}
    BY <1>1 DEF LoopState
  <2> HIDE DEF listed
  <2>3. listed.pc \notin Handling
    BY <2>2 DEF Handling
  <2> QED  BY <1>1, <1>2, <2>1, <2>2, <2>3, IdleMoves
<1>4. CASE Sweep(l)
  <2>1. PICK q \in x.sweep : loop' = [loop EXCEPT ![l] = swept(q)]
    BY <1>4 DEF Sweep
  <2>2. x.pc = "sweeping"
    BY <1>4 DEF Sweep
  <2>3. swept(q).pc \in {"promote", "sweeping"} /\ swept(q).batch = {}
    BY <1>1, <2>2 DEF LoopState
  <2> HIDE DEF swept
  <2>4. swept(q).pc \notin Handling
    BY <2>3 DEF Handling
  <2> QED  BY <1>1, <1>2, <2>1, <2>3, <2>4, IdleMoves
<1> QED  BY <1>3, <1>4

\* The listed missions are queued or waiting: none has used up its attempts.
LEMMA ListCounts ==
    ASSUME OInv, AttemptsInv, NEW l \in Loops, PromoteList(l) \/ WaitingList(l)
    PROVE  AttemptsInv'
<1> DEFINE x == loop[l]
           r(batch, pc) == [x EXCEPT !.batch = batch, !.pc = pc]
<1>1. x.pc \in {"promote", "waiting"} /\ x.batch = {} /\ x \in LoopState
  BY Known, NoBatch DEF PromoteList, WaitingList
<1>2. PICK batch \in SUBSET Missions, pc \in {"promoting", "waiting", "wakening", "dequeue"} :
         /\ loop' = [loop EXCEPT ![l] = r(batch, pc)]
         /\ \A m \in batch : queue[m].state \in {"queued", "waiting_approval"}
         /\ batch # {} => pc \in {"promoting", "wakening"}
  <2>1. CASE PromoteList(l)
    <3> DEFINE batch == ListByState("queued")
               pc == Working(batch, "promoting", "waiting")
    <3>1. loop' = [loop EXCEPT ![l] = r(batch, pc)]
      BY <2>1 DEF PromoteList
    <3>2. batch \in SUBSET Missions /\ \A m \in batch : queue[m].state = "queued"
      BY DEF ListByState
    <3>3. pc \in {"promoting", "waiting"} /\ (batch # {} => pc = "promoting")
      BY DEF Working
    <3> HIDE DEF r, batch, pc
    <3> QED  BY <3>1, <3>2, <3>3
  <2>2. CASE WaitingList(l)
    <3> DEFINE batch == ListByState("waiting_approval")
               pc == Working(batch, "wakening", "dequeue")
    <3>1. loop' = [loop EXCEPT ![l] = r(batch, pc)]
      BY <2>2 DEF WaitingList
    <3>2. batch \in SUBSET Missions /\ \A m \in batch : queue[m].state = "waiting_approval"
      BY DEF ListByState
    <3>3. pc \in {"wakening", "dequeue"} /\ (batch # {} => pc = "wakening")
      BY DEF Working
    <3> HIDE DEF r, batch, pc
    <3> QED  BY <3>1, <3>2, <3>3
  <2> QED  BY <2>1, <2>2
<1>3. r(batch, pc).pc = pc /\ r(batch, pc).batch = batch
  BY <1>1 DEF LoopState
<1>4. UNCHANGED <<queue, recovery, faults, call>>
  BY DEF PromoteList, WaitingList, OnlyLoop, stores, control
<1> HIDE DEF r
<1>5. ListGood(r(batch, pc))
  BY <1>2, <1>3 DEF ListGood
<1>6. ASSUME NEW m \in Missions
      PROVE  Tallied(m, queue[m], recovery[m], r(batch, pc), faults)
  <2>1. Tallied(m, queue[m], recovery[m], x, faults) /\ recovery[m] \in Nat
    BY Known
  <2>2. m \in batch => queue[m].state \notin Ended /\ queue[m].state # "absent"
    BY <1>2 DEF Ended
  <2>3. ~Deciding(x, m) /\ pc \notin Handling
    BY <1>1, <1>2 DEF Deciding, Handling
  <2>4. CopyCounts(r(batch, pc), faults) /\ pc # "recover"
    BY <1>2, <1>3 DEF CopyCounts
  <2> QED  BY <1>3, <2>1, <2>2, <2>3, <2>4 DEF Tallied, InHand
<1> QED  BY <1>2, <1>3, <1>4, <1>5, <1>6, ThreadMoves

\* A listed mission is made ready or left.
LEMMA BatchCounts ==
    ASSUME OInv, AttemptsInv, NEW l \in Loops, Promote(l) \/ Waken(l)
    PROVE  AttemptsInv'
<1> DEFINE x == loop[l]
<1>1. x \in LoopState /\ x.pc \in {"promoting", "wakening"} /\ ListGood(x)
  BY Known DEF Promote, Waken
<1>2. PICK m \in x.batch, pc \in {"promoting", "waiting", "wakening", "dequeue"} :
         /\ \/ loop' = [loop EXCEPT ![l] = [Transit(l, m, "ready", pc) EXCEPT !.batch = x.batch \ {m}]]
            \/ loop' = [loop EXCEPT ![l] = [[x EXCEPT !.pc = pc] EXCEPT !.batch = x.batch \ {m}]]
         /\ x.batch \ {m} # {} => pc \in {"promoting", "wakening"}
  BY DEF Promote, Waken, Working
<1>3. m \in Missions
  BY <1>1 DEF LoopState
<1>4. UNCHANGED <<queue, recovery, faults, call>>
  BY DEF Promote, Waken, OnlyLoop, stores, control
<1>5. CASE loop' = [loop EXCEPT ![l] = [Transit(l, m, "ready", pc) EXCEPT !.batch = x.batch \ {m}]]
  <2> DEFINE r == [Transit(l, m, "ready", pc) EXCEPT !.batch = x.batch \ {m}]
  <2>1. /\ r.pc = "read" /\ r.m = m /\ r.target = "ready" /\ r.next = pc /\ r.batch = x.batch \ {m}
    BY <1>1 DEF Transit, LoopState
  <2> HIDE DEF r
  <2>2. ListGood(r) /\ InHand(x, r.m)
    BY <1>2, <2>1 DEF ListGood, InHand
  <2> QED  BY <1>1, <1>4, <1>5, <2>1, <2>2, TransitMoves DEF r
<1>6. CASE loop' = [loop EXCEPT ![l] = [[x EXCEPT !.pc = pc] EXCEPT !.batch = x.batch \ {m}]]
  <2> DEFINE r == [[x EXCEPT !.pc = pc] EXCEPT !.batch = x.batch \ {m}]
  <2>1. r.pc = pc /\ r.m = x.m /\ r.batch = x.batch \ {m}
    BY <1>1 DEF LoopState
  <2>2. loop' = [loop EXCEPT ![l] = r]
    BY <1>6
  <2> HIDE DEF r
  <2>3. ListGood(r)
    BY <1>2, <2>1 DEF ListGood
  <2>4. ASSUME NEW n \in Missions
        PROVE  Tallied(n, queue[n], recovery[n], r, faults)
    <3>1. Tallied(n, queue[n], recovery[n], x, faults)
      BY Known
    <3>2. ~Deciding(x, n) /\ pc \notin Handling /\ pc # "recover"
      BY <1>1, <1>2 DEF Deciding, Handling
    <3>3. CopyCounts(r, faults)
      BY <1>2, <2>1 DEF CopyCounts
    <3> QED  BY <2>1, <3>1, <3>2, <3>3 DEF Tallied, InHand
  <2> QED  BY <1>2, <1>4, <2>1, <2>2, <2>3, <2>4, ThreadMoves
<1> QED  BY <1>2, <1>5, <1>6

\* The mission taken up is ready: it has an attempt left.
LEMMA TakeNextCounts ==
    ASSUME OInv, AttemptsInv, NEW l \in Loops, TakeNext(l)
    PROVE  AttemptsInv'
<1> DEFINE x == loop[l]
           r(m) == [x EXCEPT !.pc = "check", !.m = m, !.seen = x.seen \cup {m}]
<1>1. x.pc = "dequeue" /\ x.batch = {} /\ x \in LoopState
  BY Known, NoBatch DEF TakeNext
<1>2. UNCHANGED <<queue, recovery, faults, call>>
  BY DEF TakeNext, OnlyLoop, stores, control
<1>3. CASE loop' = [loop EXCEPT ![l] = AtTop]
  <2>1. AtTop.pc = "top" /\ AtTop.batch = {}
    BY DEF AtTop, LoopOff
  <2>2. AtTop.pc \notin Handling
    BY <2>1 DEF Handling
  <2> QED  BY <1>1, <1>2, <1>3, <2>1, <2>2, IdleMoves
<1>4. CASE \E m \in Dequeue : loop' = [loop EXCEPT ![l] = r(m)]
  <2>1. PICK m \in Dequeue : loop' = [loop EXCEPT ![l] = r(m)]
    BY <1>4
  <2>2. r(m).pc = "check" /\ r(m).m = m /\ r(m).batch = {}
    BY <1>1 DEF LoopState
  <2>3. queue[m].state = "ready"
    BY <2>1 DEF Dequeue
  <2> HIDE DEF r
  <2> QED  BY <1>1, <1>2, <2>1, <2>2, <2>3, TakenMoves
<1> QED  BY <1>3, <1>4 DEF TakeNext

\* The look at the approval queue counts nothing.
LEMMA CheckApprovalCounts ==
    ASSUME OInv, AttemptsInv, NEW l \in Loops, CheckApproval(l)
    PROVE  AttemptsInv'
<1> DEFINE x == loop[l]
           put == Transit(l, x.m, "waiting_approval", "dequeue")
           went == [x EXCEPT !.pc = "schedule"]
<1>1. x.pc = "check" /\ x.batch = {} /\ x \in LoopState
  BY Known, NoBatch DEF CheckApproval
<1>2. UNCHANGED <<queue, recovery, faults, call>>
  BY DEF CheckApproval, OnlyLoop, stores, control
<1>3. InHand(x, x.m)
  BY <1>1 DEF InHand, Handling
<1>4. /\ put.pc = "read" /\ put.m = x.m /\ put.target = "waiting_approval" /\ put.next = "dequeue"
      /\ put.batch = {} /\ went.pc = "schedule" /\ went.m = x.m /\ went.batch = {}
  BY <1>1 DEF Transit, LoopState
<1>5. loop' = [loop EXCEPT ![l] = put] \/ loop' = [loop EXCEPT ![l] = went]
  BY DEF CheckApproval
<1> HIDE DEF put, went
<1>6. CASE loop' = [loop EXCEPT ![l] = put]
  <2>1. ListGood(put)
    BY <1>4 DEF ListGood
  <2> QED  BY <1>1, <1>2, <1>3, <1>4, <1>6, <2>1, TransitMoves
<1>7. CASE loop' = [loop EXCEPT ![l] = went]
  <2>1. \A m \in Missions : went.m = m => InHand(x, m)
    BY <1>3, <1>4
  <2> QED  BY <1>1, <1>2, <1>4, <1>7, <2>1, TakenMoves
<1> QED  BY <1>5, <1>6, <1>7

\* The choice of a worker counts nothing.
LEMMA PickWorkerCounts ==
    ASSUME OInv, AttemptsInv, NEW l \in Loops, PickWorker(l)
    PROVE  AttemptsInv'
<1> DEFINE x == loop[l]
           put == Transit(l, x.m, "blocked", "dequeue")
           went(w) == [x EXCEPT !.pc = "acquire", !.w = w]
<1>1. x.pc = "schedule" /\ x.batch = {} /\ x \in LoopState
  BY Known, NoBatch DEF PickWorker
<1>2. UNCHANGED <<queue, recovery, faults, call>>
  BY DEF PickWorker, OnlyLoop, stores, control
<1>3. InHand(x, x.m)
  BY <1>1 DEF InHand, Handling
<1>4. CASE loop' = [loop EXCEPT ![l] = put]
  <2>1. /\ put.pc = "read" /\ put.m = x.m /\ put.target = "blocked" /\ put.next = "dequeue"
        /\ put.batch = {}
    BY <1>1 DEF Transit, LoopState
  <2> HIDE DEF put
  <2>2. ListGood(put)
    BY <2>1 DEF ListGood
  <2> QED  BY <1>1, <1>2, <1>3, <1>4, <2>1, <2>2, TransitMoves
<1>5. CASE \E w \in Schedule(x.m) : loop' = [loop EXCEPT ![l] = went(w)]
  <2>1. PICK w \in Schedule(x.m) : loop' = [loop EXCEPT ![l] = went(w)]
    BY <1>5
  <2>2. went(w).pc = "acquire" /\ went(w).m = x.m /\ went(w).batch = {}
    BY <1>1 DEF LoopState
  <2> HIDE DEF went
  <2>3. \A m \in Missions : went(w).m = m => InHand(x, m)
    BY <1>3, <2>2
  <2> QED  BY <1>1, <1>2, <2>1, <2>2, <2>3, TakenMoves
<1> QED  BY <1>4, <1>5 DEF PickWorker

\* The scan of the leases counts nothing.
LEMMA AcquireScanCounts ==
    ASSUME OInv, AttemptsInv, NEW l \in Loops, AcquireScan(l)
    PROVE  AttemptsInv'
<1> DEFINE x == loop[l]
           left == [x EXCEPT !.pc = "dequeue", !.m = None, !.w = None]
           claimant == [x EXCEPT !.pc = "claim", !.at = stamp + 1]
<1>1. x.pc = "acquire" /\ x.batch = {} /\ x \in LoopState
  BY Known, NoBatch DEF AcquireScan
<1>2. UNCHANGED <<queue, recovery, faults, call>>
  BY DEF AcquireScan, control
<1>3. InHand(x, x.m)
  BY <1>1 DEF InHand, Handling
<1>4. /\ left.pc = "dequeue" /\ left.batch = {}
      /\ claimant.pc = "claim" /\ claimant.m = x.m /\ claimant.batch = {}
  BY <1>1 DEF LoopState
<1>5. loop' = [loop EXCEPT ![l] = left] \/ loop' = [loop EXCEPT ![l] = claimant]
  BY DEF AcquireScan
<1> HIDE DEF left, claimant
<1>6. CASE loop' = [loop EXCEPT ![l] = left]
  <2>1. left.pc \notin Handling
    BY <1>4 DEF Handling
  <2> QED  BY <1>1, <1>2, <1>4, <1>6, <2>1, IdleMoves
<1>7. CASE loop' = [loop EXCEPT ![l] = claimant]
  <2>1. \A m \in Missions : claimant.m = m => InHand(x, m)
    BY <1>3, <1>4
  <2> QED  BY <1>1, <1>2, <1>4, <1>7, <2>1, TakenMoves
<1> QED  BY <1>5, <1>6, <1>7

\* The insertion of the lease counts nothing.
LEMMA AcquireClaimCounts ==
    ASSUME OInv, AttemptsInv, NEW l \in Loops, AcquireClaim(l)
    PROVE  AttemptsInv'
<1> DEFINE x == loop[l]
           r == [Transit(l, x.m, "running", "dequeue") EXCEPT !.at = 0]
<1>1. x.pc = "claim" /\ x.batch = {} /\ x \in LoopState
  BY Known, NoBatch DEF AcquireClaim
<1>2. UNCHANGED <<queue, recovery, faults, call>> /\ loop' = [loop EXCEPT ![l] = r]
  BY DEF AcquireClaim, control
<1>3. r.pc = "read" /\ r.m = x.m /\ r.target = "running" /\ r.next = "dequeue" /\ r.batch = {}
  BY <1>1 DEF Transit, LoopState
<1> HIDE DEF r
<1>4. InHand(x, r.m) /\ ListGood(r)
  BY <1>1, <1>3 DEF InHand, Handling, ListGood
<1> QED  BY <1>1, <1>2, <1>3, <1>4, TransitMoves

\* A mission whose attempts are used up is blocked.
LEMMA RequeueCounts ==
    ASSUME OInv, AttemptsInv, NEW l \in Loops, Requeue(l)
    PROVE  AttemptsInv'
<1> DEFINE x == loop[l]
           put == Transit(l, x.m, "blocked", "recover")
           went == Transit(l, x.m, "ready", Resuming(x.stale))
<1>1. x.pc = "reread" /\ x.batch = {} /\ x \in LoopState /\ x.m \in Missions
  BY Known, NoBatch DEF Requeue, WithMission
<1>2. UNCHANGED <<queue, recovery, faults, call>>
  BY DEF Requeue, OnlyLoop, stores, control
<1>3. InHand(x, x.m)
  BY <1>1 DEF InHand, Handling
<1>4. /\ put.pc = "read" /\ put.m = x.m /\ put.target = "blocked" /\ put.batch = {}
      /\ went.pc = "read" /\ went.m = x.m /\ went.target = "ready" /\ went.batch = {}
      /\ went.next \in {"approvals", "resume"}
  BY <1>1 DEF Transit, LoopState, Resuming
<1>5. \/ loop' = [loop EXCEPT ![l] = put]
      \/ ~Exhausted(x.m) /\ loop' = [loop EXCEPT ![l] = went]
  BY Zenon DEF Requeue
<1> HIDE DEF put, went
<1>6. ListGood(put) /\ ListGood(went)
  BY <1>4 DEF ListGood
<1>7. CASE loop' = [loop EXCEPT ![l] = put]
  BY <1>1, <1>2, <1>3, <1>4, <1>6, <1>7, TransitMoves
<1>8. CASE ~Exhausted(x.m) /\ loop' = [loop EXCEPT ![l] = went]
  <2>1. queue[x.m].attempts \in Nat /\ MaxAttempts \in Nat
    BY <1>1, Known DEF Item
  <2>2. queue[x.m].attempts < MaxAttempts
    BY <1>8, <2>1 DEF Exhausted
  <2> QED  BY <1>1, <1>2, <1>3, <1>4, <1>6, <1>8, <2>2, TransitMoves
<1> QED  BY <1>5, <1>7, <1>8

\* The copy of a transition counts the attempts of the item.
LEMMA TransitionReadCounts ==
    ASSUME OInv, AttemptsInv, NEW l \in Loops, TransitionRead(l)
    PROVE  AttemptsInv'
<1> DEFINE x == loop[l]
           copy == [queue[x.m] EXCEPT !.state = x.target,
                                      !.owner = IF x.target = "running" THEN x.w ELSE @]
           r == [x EXCEPT !.pc = "write", !.copy = copy]
<1>1. x.pc = "read" /\ x \in LoopState /\ x.m \in Missions /\ queue[x.m] \in Item /\ ListGood(x)
  BY Known DEF TransitionRead, WithMission
<1>2. copy.state = x.target /\ copy.attempts = queue[x.m].attempts
  BY <1>1 DEF Item
<1>3. UNCHANGED <<queue, recovery, faults, call>> /\ loop' = [loop EXCEPT ![l] = r]
  BY DEF TransitionRead, OnlyLoop, stores, control
<1> HIDE DEF copy
<1>4. /\ r.pc = "write" /\ r.copy = copy /\ r.m = x.m /\ r.target = x.target
      /\ r.next = x.next /\ r.batch = x.batch
  BY <1>1 DEF LoopState
<1> HIDE DEF r
<1>5. ListGood(r)
  BY <1>1, <1>4 DEF ListGood
<1>6. ASSUME NEW m \in Missions
      PROVE  Tallied(m, queue[m], recovery[m], r, faults)
  <2>1. Tallied(m, queue[m], recovery[m], x, faults)
    BY Known
  <2>2. queue[m].attempts \in Nat /\ MaxAttempts \in Nat /\ faults \in Nat
    BY Known DEF Item
  <2>3. Deciding(x, m) = Deciding(r, m)
    BY <1>1, <1>4 DEF Deciding
  <2>4. InHand(x, m) = InHand(r, m)
    BY <1>1, <1>4 DEF InHand, Handling
  <2>5. x.m = m /\ queue[m].attempts = MaxAttempts + faults => x.target = "blocked"
    BY <1>1, <2>1 DEF Tallied, Deciding, Handling
  <2>6. r.m = m => CopyCounts(r, faults)
    BY <1>2, <1>4, <2>1, <2>2, <2>5 DEF CopyCounts, Tallied
  <2> QED  BY <1>1, <1>4, <2>1, <2>3, <2>4, <2>6 DEF Tallied, Handling
<1>7. queue[r.m].attempts <= r.copy.attempts
  BY <1>1, <1>2, <1>4 DEF Item
<1> QED  BY <1>3, <1>5, <1>6, <1>7, ThreadMoves

\* The copy with one attempt more is within the limit.
LEMMA BumpReadCounts ==
    ASSUME OInv, AttemptsInv, NEW l \in Loops, BumpRead(l)
    PROVE  AttemptsInv'
<1> DEFINE x == loop[l]
           copy == [queue[x.m] EXCEPT !.attempts = queue[x.m].attempts + 1]
           r == [x EXCEPT !.pc = "bumped", !.copy = copy]
<1>1. /\ x.pc = "bump" /\ x.batch = {} /\ x \in LoopState /\ x.m \in Missions
      /\ queue[x.m] \in Item
  BY Known, NoBatch DEF BumpRead, WithMission
<1>2. copy.state = queue[x.m].state /\ copy.attempts = queue[x.m].attempts + 1
  BY <1>1 DEF Item
<1>3. UNCHANGED <<queue, recovery, faults, call>> /\ loop' = [loop EXCEPT ![l] = r]
  BY DEF BumpRead, OnlyLoop, stores, control
<1> HIDE DEF copy
<1>4. r.pc = "bumped" /\ r.copy = copy /\ r.m = x.m /\ r.batch = {}
  BY <1>1 DEF LoopState
<1> HIDE DEF r
<1>5. ListGood(r)
  BY <1>4 DEF ListGood
<1>6. ASSUME NEW m \in Missions
      PROVE  Tallied(m, queue[m], recovery[m], r, faults)
  <2>1. Tallied(m, queue[m], recovery[m], x, faults)
    BY Known
  <2>2. queue[m].attempts \in Nat /\ MaxAttempts \in Nat /\ faults \in Nat
    BY Known DEF Item
  <2>3. ~Deciding(x, m) /\ InHand(x, m) = InHand(r, m)
    BY <1>1, <1>4 DEF Deciding, InHand, Handling
  <2>4. x.m = m => queue[m].attempts # MaxAttempts + faults
    BY <1>1, <2>1, <2>3 DEF Tallied, Handling
  <2>5. x.m = m => queue[m].state # "absent"
    BY <1>1, <2>1 DEF Tallied, InHand, Handling
  <2>6. x.m = m => queue[m].attempts + 1 <= MaxAttempts + faults
    BY <2>1, <2>2, <2>4 DEF Tallied
  <2>7. r.m = m => CopyCounts(r, faults)
    BY <1>2, <1>4, <2>5, <2>6 DEF CopyCounts
  <2> QED  BY <1>1, <1>4, <2>1, <2>3, <2>4, <2>7 DEF Tallied
<1>7. queue[r.m].attempts <= r.copy.attempts
  BY <1>1, <1>2, <1>4 DEF Item
<1> QED  BY <1>3, <1>5, <1>6, <1>7, ThreadMoves

-----------------------------------------------------------------------------
(* The loop and the calls: steps that write *)

\* What the only loop thread writes is counted for the mission it is written to.
LEMMA ThreadWrites ==
    ASSUME OInv, AttemptsInv, OneThread, NEW l \in Loops, NEW r,
           loop' = [loop EXCEPT ![l] = r], UNCHANGED <<faults, call>>,
           ListGood(r), r.pc \notin {"write", "bumped"}, NEW n \in Missions,
           queue' \in [Missions -> Item], recovery' \in [Missions -> Nat],
           InHand(loop[l], n),
           \A m \in Missions : Tallied(m, queue'[m], recovery'[m], r, faults),
           \A m \in Missions \ {n} : queue'[m] = queue[m],
           queue'[n].state # "absent",
           \A c \in Calls : Arg[c] = n /\ Op[c] = "complete" /\ call[c].pc = "write" =>
                                call[c].item.attempts <= queue'[n].attempts
    PROVE  AttemptsInv'
<1>1. \A k \in Loops : loop'[k] = r
  BY DEF OneThread, OInv, TypeOK
<1>2. (\A k \in Loops : ListGood(loop[k]))'
  BY <1>1
<1>3. (\A m \in Missions, k \in Loops : Tallied(m, queue[m], recovery[m], loop[k], faults))'
  BY <1>1
<1>4. (\A m \in Missions, c \in Calls : CallCounts(c, call[c], m, queue[m]))'
  <2> SUFFICES ASSUME NEW m \in Missions, NEW c \in Calls
               PROVE  CallCounts(c, call[c], m, queue'[m])
    OBVIOUS
  <2>1. CallCounts(c, call[c], m, queue[m])
    BY DEF AttemptsInv
  <2>2. CASE m # n
    BY <2>1, <2>2 DEF CallCounts
  <2>3. CASE m = n
    <3>1. queue[n].state # "absent"
      BY Known DEF Tallied
    <3> QED  BY <2>1, <2>3, <3>1 DEF CallCounts
  <2> QED  BY <2>2, <2>3
<1>5. (\A m \in Missions, k \in Loops, c \in Calls : NoneLost(c, call[c], m, queue[m], loop[k]))'
  BY <1>1 DEF NoneLost
<1> QED  BY <1>2, <1>3, <1>4, <1>5 DEF AttemptsInv

\* The copy that is written says what was counted.
LEMMA TransitionWriteCounts ==
    ASSUME OInv, AttemptsInv, OneThread, NEW l \in Loops, TransitionWrite(l)
    PROVE  AttemptsInv'
<1> DEFINE x == loop[l]
           r == [x EXCEPT !.pc = x.next, !.copy = NoItem, !.target = "absent", !.w = None,
                          !.m = IF x.next = "recover" THEN x.m ELSE None]
<1>1. /\ x.pc = "write" /\ x \in LoopState /\ x.m \in Missions /\ ListGood(x)
      /\ x.next \in AfterWrite /\ x.copy \in Item
  BY Known DEF TransitionWrite, WithMission, OInv, LoopGood, LoopState
<1>2. Tallied(x.m, queue[x.m], recovery[x.m], x, faults) /\ CopyCounts(x, faults)
  BY <1>1, Known DEF Tallied
<1>3. loop' = [loop EXCEPT ![l] = r] /\ queue' = [queue EXCEPT ![x.m] = x.copy]
      /\ UNCHANGED <<recovery, faults, call>>
  BY DEF TransitionWrite, control
<1>4. r.pc = x.next /\ r.batch = x.batch /\ r.m = (IF x.next = "recover" THEN x.m ELSE None)
  BY <1>1 DEF LoopState
<1> HIDE DEF r
<1>5. /\ x.copy.state = x.target /\ x.target \in {"ready", "blocked", "waiting_approval", "running"}
      /\ x.copy.attempts <= MaxAttempts + faults
      /\ x.target # "blocked" => x.copy.attempts < MaxAttempts + faults
      /\ x.next = "recover" => x.target = "blocked"
      /\ x.batch # {} => x.target = "ready" /\ x.next \in {"promoting", "wakening"}
  BY <1>1, <1>2 DEF CopyCounts, ListGood
<1>6. InHand(x, x.m) /\ recovery[x.m] = 0
  BY <1>1, <1>2 DEF InHand, Handling, Tallied
<1>7. ListGood(r) /\ r.pc \notin {"read", "write", "bumped"} /\ (r.pc \in Handling => r.pc = "recover")
  BY <1>1, <1>4, <1>5 DEF ListGood, AfterWrite, Handling
<1>8. queue' \in [Missions -> Item] /\ recovery' \in [Missions -> Nat]
  BY <1>1, <1>3 DEF OInv, TypeOK
<1>9. queue'[x.m] = x.copy /\ \A m \in Missions \ {x.m} : queue'[m] = queue[m]
  BY <1>1, <1>3 DEF OInv, TypeOK
<1>10. ASSUME NEW m \in Missions
       PROVE  Tallied(m, queue'[m], recovery'[m], r, faults)
  <2>1. CopyCounts(r, faults)
    BY <1>7 DEF CopyCounts
  <2>2. MaxAttempts + faults \in Nat /\ x.copy.attempts \in Nat
    BY <1>1, Known DEF Item
  <2>3. CASE m = x.m
    <3>1. x.copy.attempts = MaxAttempts + faults => x.target = "blocked" /\ x.batch = {}
      BY <1>5, <2>2
    <3>2. r.m = m /\ r.pc = "recover" => x.copy.state = "blocked"
      BY <1>4, <1>5
    <3>3. queue'[m] = x.copy /\ recovery'[m] = 0
      BY <1>3, <1>6, <1>9, <2>3
    <3>4. x.copy.state # "absent" /\ (x.target = "blocked" => x.copy.state \in Ended)
      BY <1>5 DEF Ended
    <3> QED  BY <1>4, <1>5, <1>7, <2>1, <3>1, <3>2, <3>3, <3>4 DEF Tallied, Ended
  <2>4. CASE m # x.m
    <3>1. Tallied(m, queue[m], recovery[m], x, faults) /\ queue'[m] = queue[m] /\ recovery'[m] = recovery[m]
      BY <1>3, <1>9, <2>4, Known
    <3>2. r.m # m
      BY <1>4, <2>4, OrchestratorAssumption
    <3>3. InHand(r, m) => InHand(x, m)
      BY <1>4, <3>2 DEF InHand
    <3>4. ~Deciding(x, m)
      BY <2>4 DEF Deciding
    <3> QED  BY <1>4, <3>1, <3>2, <3>3, <3>4 DEF Tallied
  <2> QED  BY <2>3, <2>4
<1>11. ASSUME NEW c \in Calls, Arg[c] = x.m, Op[c] = "complete", call[c].pc = "write"
       PROVE  call[c].item.attempts <= queue'[x.m].attempts
  <2>1. CallCounts(c, call[c], x.m, queue[x.m]) /\ NoneLost(c, call[c], x.m, queue[x.m], x)
    BY <1>1 DEF AttemptsInv
  <2>2. call[c].item.attempts <= queue[x.m].attempts /\ queue[x.m].attempts <= x.copy.attempts
    BY <1>1, <1>11, <2>1 DEF CallCounts, NoneLost, Opened
  <2>3. call[c].item.attempts \in Nat /\ queue[x.m].attempts \in Nat /\ x.copy.attempts \in Nat
    BY <1>1 DEF OInv, TypeOK, CallState, Item
  <2> QED  BY <1>9, <2>2, <2>3
<1>12. queue'[x.m].state # "absent"
  BY <1>5, <1>9
<1> QED  BY <1>1, <1>3, <1>6, <1>7, <1>8, <1>9, <1>10, <1>11, <1>12, ThreadWrites

\* An attempt is counted when the copy is written; it is decided on next.
LEMMA BumpWriteCounts ==
    ASSUME OInv, AttemptsInv, OneThread, NEW l \in Loops, BumpWrite(l)
    PROVE  AttemptsInv'
<1> DEFINE x == loop[l]
           r == [x EXCEPT !.pc = "reread", !.copy = NoItem]
<1>1. /\ x.pc = "bumped" /\ x \in LoopState /\ x.m \in Missions /\ x.batch = {}
      /\ x.copy \in Item
  BY Known, NoBatch DEF BumpWrite, WithMission, LoopState
<1>2. Tallied(x.m, queue[x.m], recovery[x.m], x, faults) /\ CopyCounts(x, faults)
  BY <1>1, Known DEF Tallied
<1>3. loop' = [loop EXCEPT ![l] = r] /\ queue' = [queue EXCEPT ![x.m] = x.copy]
      /\ UNCHANGED <<recovery, faults, call>>
  BY DEF BumpWrite, control
<1>4. r.pc = "reread" /\ r.batch = {} /\ r.m = x.m
  BY <1>1 DEF LoopState
<1> HIDE DEF r
<1>5. x.copy.attempts <= MaxAttempts + faults /\ x.copy.state # "absent"
  BY <1>1, <1>2 DEF CopyCounts
<1>6. InHand(x, x.m) /\ recovery[x.m] = 0
  BY <1>1, <1>2 DEF InHand, Handling, Tallied
<1>7. ListGood(r)
  BY <1>4 DEF ListGood
<1>8. queue' \in [Missions -> Item] /\ recovery' \in [Missions -> Nat]
  BY <1>1, <1>3 DEF OInv, TypeOK
<1>9. queue'[x.m] = x.copy /\ \A m \in Missions \ {x.m} : queue'[m] = queue[m]
  BY <1>1, <1>3 DEF OInv, TypeOK
<1>10. ASSUME NEW m \in Missions
       PROVE  Tallied(m, queue'[m], recovery'[m], r, faults)
  <2>1. CopyCounts(r, faults)
    BY <1>4 DEF CopyCounts
  <2>2. CASE m = x.m
    <3>1. queue'[m] = x.copy /\ recovery'[m] = 0 /\ Deciding(r, m)
      BY <1>3, <1>4, <1>6, <1>9, <2>2 DEF Deciding
    <3> QED  BY <1>4, <1>5, <2>1, <3>1 DEF Tallied
  <2>3. CASE m # x.m
    <3>1. Tallied(m, queue[m], recovery[m], x, faults) /\ queue'[m] = queue[m] /\ recovery'[m] = recovery[m]
      BY <1>3, <1>9, <2>3, Known
    <3>2. r.m # m /\ ~Deciding(x, m) /\ ~InHand(r, m)
      BY <1>4, <2>3 DEF Deciding, InHand
    <3> QED  BY <1>4, <3>1, <3>2 DEF Tallied
  <2> QED  BY <2>2, <2>3
<1>11. ASSUME NEW c \in Calls, Arg[c] = x.m, Op[c] = "complete", call[c].pc = "write"
       PROVE  call[c].item.attempts <= queue'[x.m].attempts
  <2>1. CallCounts(c, call[c], x.m, queue[x.m]) /\ NoneLost(c, call[c], x.m, queue[x.m], x)
    BY <1>1 DEF AttemptsInv
  <2>2. call[c].item.attempts <= queue[x.m].attempts /\ queue[x.m].attempts <= x.copy.attempts
    BY <1>1, <1>11, <2>1 DEF CallCounts, NoneLost, Opened
  <2>3. call[c].item.attempts \in Nat /\ queue[x.m].attempts \in Nat /\ x.copy.attempts \in Nat
    BY <1>1 DEF OInv, TypeOK, CallState, Item
  <2> QED  BY <1>9, <2>2, <2>3
<1>12. queue'[x.m].state # "absent"
  BY <1>5, <1>9
<1> QED  BY <1>1, <1>3, <1>4, <1>6, <1>7, <1>8, <1>9, <1>10, <1>11, <1>12, ThreadWrites

\* A mission is handed to the recovery queue once: it was blocked for that.
LEMMA EnqueueRecoveryCounts ==
    ASSUME OInv, AttemptsInv, OneThread, NEW l \in Loops, EnqueueRecovery(l)
    PROVE  AttemptsInv'
<1> DEFINE x == loop[l]
           r == [x EXCEPT !.pc = Resuming(x.stale), !.m = None]
<1>1. x.pc = "recover" /\ x \in LoopState /\ x.m \in Missions /\ x.batch = {}
  BY Known, NoBatch DEF EnqueueRecovery, WithMission
<1>2. Tallied(x.m, queue[x.m], recovery[x.m], x, faults)
  BY <1>1, Known
<1>3. loop' = [loop EXCEPT ![l] = r] /\ recovery' = [recovery EXCEPT ![x.m] = recovery[x.m] + 1]
      /\ UNCHANGED <<queue, faults, call>>
  BY DEF EnqueueRecovery, control
<1>4. r.pc \in {"approvals", "resume"} /\ r.batch = {}
  BY <1>1 DEF LoopState, Resuming
<1> HIDE DEF r
<1>5. InHand(x, x.m) /\ recovery[x.m] = 0 /\ queue[x.m].state # "absent" /\ queue[x.m].state \in Ended
  BY <1>1, <1>2 DEF InHand, Handling, Tallied
<1>6. ListGood(r) /\ r.pc \notin Handling
  BY <1>4 DEF ListGood, Handling
<1>7. queue' \in [Missions -> Item] /\ recovery' \in [Missions -> Nat]
  BY <1>1, <1>3 DEF OInv, TypeOK
<1>8. recovery'[x.m] = 1 /\ \A m \in Missions \ {x.m} : recovery'[m] = recovery[m]
  BY <1>1, <1>3, <1>5 DEF OInv, TypeOK
<1>9. ASSUME NEW m \in Missions
      PROVE  Tallied(m, queue'[m], recovery'[m], r, faults)
  <2>1. CopyCounts(r, faults) /\ ~InHand(r, m)
    BY <1>4, <1>6 DEF CopyCounts, InHand
  <2>2. Tallied(m, queue[m], recovery[m], x, faults) /\ ~Deciding(x, m) /\ queue'[m] = queue[m]
    BY <1>1, <1>3, Known DEF Deciding
  <2>3. recovery'[m] = recovery[m] \/ (m = x.m /\ recovery'[m] = 1)
    BY <1>8
  <2> QED  BY <1>4, <1>5, <1>6, <2>1, <2>2, <2>3 DEF Tallied
<1>10. \A c \in Calls : Arg[c] = x.m /\ Op[c] = "complete" /\ call[c].pc = "write" =>
                          call[c].item.attempts <= queue'[x.m].attempts
  BY <1>1, <1>3 DEF AttemptsInv, CallCounts
<1>11. r.pc \notin {"write", "bumped"} /\ queue'[x.m].state # "absent"
       /\ \A m \in Missions \ {x.m} : queue'[m] = queue[m]
  BY <1>3, <1>4, <1>5
<1> QED  BY <1>1, <1>3, <1>5, <1>6, <1>7, <1>9, <1>10, <1>11, ThreadWrites

\* Whatever the only running thread does next.
LEMMA LoopStepCounts ==
    ASSUME OInv, AttemptsInv, OneThread, NEW l \in Loops, LoopStep(l)
    PROVE  AttemptsInv'
BY BeginCounts, TransitionReadCounts, TransitionWriteCounts, ExpiryCounts, RecoverStaleCounts,
   ResumeMissionCounts, BumpReadCounts, BumpWriteCounts, RequeueCounts, EnqueueRecoveryCounts,
   SweepCounts, ListCounts, BatchCounts, TakeNextCounts, CheckApprovalCounts, PickWorkerCounts,
   AcquireScanCounts, AcquireClaimCounts
   DEF LoopStep

\* A cycle that is interrupted leaves one attempt more to count.
LEMMA FaultCounts ==
    ASSUME OInv, AttemptsInv, Crash \/ \E l \in Loops : CycleFails(l)
    PROVE  AttemptsInv'
<1>1. AtTop.pc = "top" /\ AtTop.batch = {} /\ LoopOff.pc = "off" /\ LoopOff.batch = {}
  BY DEF AtTop, LoopOff
<1>2. UNCHANGED <<queue, recovery, call>> /\ faults' = faults + 1
  BY DEF Crash, CycleFails, stores
<1>3. \A l \in Loops : loop'[l] \in {loop[l], AtTop, LoopOff}
  BY DEF Crash, CycleFails, OInv, TypeOK
<1>4. ASSUME NEW l \in Loops
      PROVE  \/ loop'[l] = loop[l]
             \/ loop'[l].pc \notin Handling \cup {"promoting", "wakening"} /\ loop'[l].batch = {}
  BY <1>1, <1>3 DEF Handling
<1>5. ASSUME NEW l \in Loops PROVE ListGood(loop'[l])
  BY <1>4 DEF AttemptsInv, ListGood, Handling
<1>6. ASSUME NEW m \in Missions, NEW l \in Loops
      PROVE  Tallied(m, queue[m], recovery[m], loop'[l], faults + 1)
  <2>1. Tallied(m, queue[m], recovery[m], loop[l], faults) /\ ListGood(loop[l])
    BY DEF AttemptsInv
  <2>2. queue[m].attempts \in Nat /\ MaxAttempts \in Nat /\ faults \in Nat
    BY Known DEF Item
  <2>3. queue[m].attempts <= MaxAttempts + faults /\ queue[m].attempts # MaxAttempts + (faults + 1)
    BY <2>1, <2>2 DEF Tallied
  <2>4. queue[m].attempts <= MaxAttempts + (faults + 1)
    BY <2>2, <2>3
  <2>5. loop[l].m = m => CopyCounts(loop[l], faults + 1)
    <3>1. loop[l].copy.attempts \in Nat
      BY DEF OInv, TypeOK, LoopState, Item
    <3> QED  BY <2>1, <2>2, <3>1 DEF Tallied, CopyCounts
  <2>6. loop'[l] = loop[l] \/ (~InHand(loop'[l], m) /\ loop'[l].pc # "recover" /\ CopyCounts(loop'[l], faults + 1))
    BY <1>4 DEF InHand, CopyCounts, Handling
  <2> QED  BY <2>1, <2>3, <2>4, <2>5, <2>6 DEF Tallied
<1>7. ASSUME NEW m \in Missions, NEW l \in Loops, NEW c \in Calls
      PROVE  NoneLost(c, call[c], m, queue[m], loop'[l])
  <2>1. NoneLost(c, call[c], m, queue[m], loop[l])
    BY DEF AttemptsInv
  <2> QED  BY <1>4, <2>1 DEF NoneLost, Handling
<1> QED  BY <1>2, <1>5, <1>6, <1>7 DEF AttemptsInv

-----------------------------------------------------------------------------
(* Calls *)

\* A call that writes no item.
LEMMA CallMoves ==
    ASSUME OInv, AttemptsInv, NEW c \in Calls, NEW r, call' = [call EXCEPT ![c] = r],
           UNCHANGED <<queue, recovery, faults, loop>>,
           \A m \in Missions : CallCounts(c, r, m, queue[m]),
           \A m \in Missions, l \in Loops : NoneLost(c, r, m, queue[m], loop[l])
    PROVE  AttemptsInv'
<1>1. \A d \in Calls : call'[d] = IF d = c THEN r ELSE call[d]
  BY DEF OInv, TypeOK
<1> QED  BY <1>1 DEF AttemptsInv

\* What the invariant says of a call.
LEMMA CallKnown ==
    ASSUME OInv, AttemptsInv, NEW c \in Calls
    PROVE  /\ call[c] \in CallState /\ CallGood(c, call[c], leases, jobs)
           /\ Op[c] = "submit" => call[c].pc \in {"submit", "write", "done"}
           /\ Arg[c] \in Missions /\ queue[Arg[c]] \in Item
           /\ \A m \in Missions : CallCounts(c, call[c], m, queue[m])
           /\ \A m \in Missions, l \in Loops : NoneLost(c, call[c], m, queue[m], loop[l])
BY OrchestratorAssumption DEF OInv, TypeOK, AttemptsInv, CallCounts

\* A call that neither submits nor completes counts nothing, nor does one that is past that.
LEMMA PastMoves ==
    ASSUME OInv, AttemptsInv, NEW c \in Calls, NEW r, call' = [call EXCEPT ![c] = r],
           UNCHANGED <<queue, recovery, faults, loop>>,
           Op[c] = "submit" => r.pc = "done", r.pc \notin Opened \cup {"get"}
    PROVE  AttemptsInv'
<1>1. \A m \in Missions : CallCounts(c, r, m, queue[m])
  BY DEF CallCounts, Opened
<1>2. \A m \in Missions, l \in Loops : NoneLost(c, r, m, queue[m], loop[l])
  BY DEF NoneLost, Opened
<1> QED  BY <1>1, <1>2, CallMoves

\* The looks of complete_mission: the mission is there.
LEMMA CompleteMoves ==
    ASSUME OInv, AttemptsInv, NEW c \in Calls, NEW r, call' = [call EXCEPT ![c] = r],
           UNCHANGED <<queue, recovery, faults, loop>>,
           call[c].pc \in {"get", "held", "pending", "failed", "read"},
           queue[Arg[c]].state # "absent", r.pc \in Opened,
           r.pc = "write" => r.item.attempts <= queue[Arg[c]].attempts
    PROVE  AttemptsInv'
<1>1. Op[c] = "complete"
  BY CallKnown DEF CallCounts, Opened
<1>2. \A m \in Missions : CallCounts(c, r, m, queue[m])
  BY <1>1, CallKnown DEF CallCounts, Opened
<1>3. \A m \in Missions, l \in Loops : NoneLost(c, r, m, queue[m], loop[l])
  BY <1>1, CallKnown DEF NoneLost, Opened
<1> QED  BY <1>2, <1>3, CallMoves

\* The looks of complete_mission and its gate count nothing.
LEMMA LookCounts ==
    ASSUME OInv, AttemptsInv, NEW c \in Calls,
           CompleteGet(c) \/ CompleteHeld(c) \/ GatePending(c) \/ GateFailed(c)
    PROVE  AttemptsInv'
<1> DEFINE x == call[c]
           there == {j \in Jobs : JobFor[j] = Arg[c] /\ jobs[j] # "absent"}
           r(pc, of) == [x EXCEPT !.pc = pc, !.jobs = of]
<1>1. x \in CallState /\ x.pc \in {"get", "held", "pending", "failed"} /\ Op[c] = "complete"
  BY CallKnown DEF CallCounts, Opened, CompleteGet, CompleteHeld, GatePending, GateFailed
<1>2. \A pc : [x EXCEPT !.pc = pc] = r(pc, x.jobs)
  BY <1>1 DEF CallState
<1>3. UNCHANGED <<queue, recovery, faults, loop>>
  BY DEF CompleteGet, CompleteHeld, GatePending, GateFailed, OnlyCall, stores, control
<1>4. PICK pc \in {"held", "pending", "failed", "read", "done"}, of \in {x.jobs, there} :
         /\ call' = [call EXCEPT ![c] = r(pc, of)]
         /\ x.pc = "get" /\ pc # "done" => queue[Arg[c]].state = "running"
  <2>1. CASE CompleteGet(c)
    BY <1>2, <2>1 DEF CompleteGet, CGoto
  <2>2. CASE CompleteHeld(c)
    BY <1>2, <2>2 DEF CompleteHeld, CGoto
  <2>3. CASE GatePending(c)
    BY <2>3 DEF GatePending
  <2>4. CASE GateFailed(c)
    BY <1>2, <2>4 DEF GateFailed, CGoto
  <2> QED  BY <2>1, <2>2, <2>3, <2>4
<1>5. r(pc, of).pc = pc
  BY <1>1 DEF CallState
<1> HIDE DEF r
<1>6. CASE pc = "done"
  BY <1>3, <1>4, <1>5, <1>6, PastMoves DEF Opened
<1>7. CASE pc # "done"
  <2>1. x.pc # "get" => queue[Arg[c]].state # "absent"
    BY <1>1, CallKnown DEF CallCounts, Opened
  <2> QED  BY <1>1, <1>3, <1>4, <1>5, <1>7, <2>1, CompleteMoves DEF Opened
<1> QED  BY <1>6, <1>7

\* A completion reads the item whose attempts it will write back.
LEMMA CompleteReadCounts ==
    ASSUME OInv, AttemptsInv, NEW c \in Calls, CompleteRead(c)
    PROVE  AttemptsInv'
<1> DEFINE x == call[c]
           item == [queue[Arg[c]] EXCEPT !.state = "completed"]
           r == [x EXCEPT !.pc = "write", !.item = item]
<1>1. x \in CallState /\ x.pc = "read" /\ queue[Arg[c]] \in Item /\ Arg[c] \in Missions
  BY CallKnown DEF CompleteRead
<1>2. Op[c] = "complete"
  BY <1>1, CallKnown DEF CallCounts, Opened
<1>3. queue[Arg[c]].state # "absent"
  BY <1>1, <1>2, CallKnown DEF CallCounts, Opened
<1>4. item.attempts = queue[Arg[c]].attempts /\ item.attempts \in Nat
  BY <1>1 DEF Item
<1>5. call' = [call EXCEPT ![c] = r] /\ UNCHANGED <<queue, recovery, faults, loop>>
  BY DEF CompleteRead, OnlyCall, stores, control
<1> HIDE DEF item
<1>6. r.pc = "write" /\ r.item = item
  BY <1>1 DEF CallState
<1> HIDE DEF r
<1>7. r.item.attempts <= queue[Arg[c]].attempts
  BY <1>4, <1>6
<1> QED  BY <1>1, <1>3, <1>5, <1>6, <1>7, CompleteMoves DEF Opened

\* A submission that finds an unfinished item ends; one that does not goes on.
LEMMA SubmitScanCounts ==
    ASSUME OInv, AttemptsInv, NEW c \in Calls, SubmitScan(c)
    PROVE  AttemptsInv'
<1> DEFINE x == call[c]
           r(pc) == [x EXCEPT !.pc = pc]
<1>1. x \in CallState /\ x.pc = "submit" /\ Op[c] = "submit"
  BY CallKnown DEF SubmitScan, CallGood
<1>2. PICK pc \in {"done", "write"} : call' = [call EXCEPT ![c] = r(pc)]
  BY DEF SubmitScan, CGoto
<1>3. UNCHANGED <<queue, recovery, faults, loop>>
  BY DEF SubmitScan, OnlyCall, stores, control
<1>4. r(pc).pc = pc
  BY <1>1 DEF CallState
<1> HIDE DEF r
<1>5. \A m \in Missions : CallCounts(c, r(pc), m, queue[m])
  BY <1>1, <1>2, <1>4, CallKnown DEF CallCounts
<1>6. \A m \in Missions, l \in Loops : NoneLost(c, r(pc), m, queue[m], loop[l])
  BY <1>1 DEF NoneLost
<1> QED  BY <1>2, <1>3, <1>5, <1>6, CallMoves

\* What a call writes is counted for the mission it is about.
LEMMA CallWrites ==
    ASSUME OInv, AttemptsInv, NEW c \in Calls, NEW r, call' = [call EXCEPT ![c] = r],
           UNCHANGED <<recovery, faults, loop>>,
           NEW item, queue' = [queue EXCEPT ![Arg[c]] = item],
           r.pc \notin Opened \cup {"get"}, Op[c] = "submit" => r.pc = "done",
           \A l \in Loops : Tallied(Arg[c], item, recovery[Arg[c]], loop[l], faults),
           \A d \in Calls \ {c} : CallCounts(d, call[d], Arg[c], item),
           \A d \in Calls \ {c}, l \in Loops : NoneLost(d, call[d], Arg[c], item, loop[l])
    PROVE  AttemptsInv'
<1>1. /\ \A d \in Calls : call'[d] = IF d = c THEN r ELSE call[d]
      /\ \A m \in Missions : queue'[m] = IF m = Arg[c] THEN item ELSE queue[m]
  BY DEF OInv, TypeOK
<1>2. (\A l \in Loops : ListGood(loop[l]))'
  BY DEF AttemptsInv
<1>3. (\A m \in Missions, l \in Loops : Tallied(m, queue[m], recovery[m], loop[l], faults))'
  BY <1>1 DEF AttemptsInv
<1>4. \A q : /\ \A m \in Missions : CallCounts(c, r, m, q)
             /\ \A m \in Missions, l \in Loops : NoneLost(c, r, m, q, loop[l])
  BY DEF CallCounts, NoneLost, Opened
<1>5. (\A m \in Missions, d \in Calls : CallCounts(d, call[d], m, queue[m]))'
  BY <1>1, <1>4 DEF AttemptsInv
<1>6. (\A m \in Missions, l \in Loops, d \in Calls : NoneLost(d, call[d], m, queue[m], loop[l]))'
  BY <1>1, <1>4 DEF AttemptsInv
<1> QED  BY <1>2, <1>3, <1>5, <1>6 DEF AttemptsInv

\* A submission writes a mission that nobody has in hand.
LEMMA SubmitWriteCounts ==
    ASSUME OInv, AttemptsInv, OnceEach, NEW c \in Calls, SubmitWrite(c)
    PROVE  AttemptsInv'
<1> DEFINE x == call[c]
           m == Arg[c]
           r == [x EXCEPT !.pc = "done"]
<1>1. x \in CallState /\ x.pc = "write" /\ Op[c] = "submit" /\ m \in Missions
  BY CallKnown DEF SubmitWrite
<1>2. queue[m].state = "absent"
  BY <1>1, CallKnown DEF CallCounts
<1>3. /\ call' = [call EXCEPT ![c] = r] /\ queue' = [queue EXCEPT ![m] = NewItem]
      /\ UNCHANGED <<recovery, faults, loop>>
  BY DEF SubmitWrite, CGoto, control
<1>4. r.pc = "done"
  BY <1>1 DEF CallState
<1> HIDE DEF r
<1>5. NewItem.state = "queued" /\ NewItem.attempts = 0
  BY DEF NewItem
<1>6. ASSUME NEW l \in Loops
      PROVE  ~InHand(loop[l], m) /\ Tallied(m, NewItem, recovery[m], loop[l], faults)
  <2>1. Tallied(m, queue[m], recovery[m], loop[l], faults) /\ recovery[m] \in Nat
    BY <1>1, Known
  <2>2. MaxAttempts \in Nat \ {0} /\ faults \in Nat
    BY OrchestratorAssumption DEF OInv, TypeOK
  <2>3. ~InHand(loop[l], m) /\ ~(recovery[m] > 0)
    BY <1>2, <2>1 DEF Tallied, Ended
  <2>4. NewItem.attempts <= MaxAttempts + faults /\ NewItem.attempts # MaxAttempts + faults
    BY <1>5, <2>2
  <2>5. ~(loop[l].m = m /\ loop[l].pc = "recover")
    BY <2>3 DEF InHand, Handling
  <2> QED  BY <2>1, <2>3, <2>4, <2>5 DEF Tallied
<1>7. ASSUME NEW d \in Calls \ {c} PROVE CallCounts(d, call[d], m, NewItem)
  <2>1. CallCounts(d, call[d], m, queue[m])
    BY <1>1 DEF AttemptsInv
  <2>2. Arg[d] = m => Op[d] # "submit"
    BY <1>1 DEF OnceEach
  <2>3. Arg[d] = m /\ Op[d] = "complete" => call[d].pc \notin Opened
    BY <1>2, <2>1 DEF CallCounts
  <2>4. call[d].pc # "write" \/ call[d].pc \in Opened
    BY DEF Opened
  <2> QED  BY <2>1, <2>2, <2>3, <2>4 DEF CallCounts
<1>8. ASSUME NEW d \in Calls \ {c}, NEW l \in Loops
      PROVE  NoneLost(d, call[d], m, NewItem, loop[l])
  BY <1>6 DEF NoneLost, InHand, Handling
<1>9. r.pc \notin Opened \cup {"get"}
  BY <1>4 DEF Opened
<1> QED  BY <1>3, <1>4, <1>6, <1>7, <1>8, <1>9, CallWrites

\* A completion writes back no more attempts than are stored.
LEMMA CompleteWriteCounts ==
    ASSUME OInv, AttemptsInv, OnceEach, NEW c \in Calls, CompleteWrite(c)
    PROVE  AttemptsInv'
<1> DEFINE x == call[c]
           m == Arg[c]
           r == [x EXCEPT !.pc = "lease", !.item = NoItem, !.jobs = {}]
<1>1. /\ x \in CallState /\ x.pc = "write" /\ Op[c] = "complete" /\ m \in Missions
      /\ queue[m] \in Item /\ x.item \in Item /\ x.item.state = "completed"
  BY CallKnown DEF CompleteWrite, CallGood, CallState
<1>2. queue[m].state # "absent" /\ x.item.attempts <= queue[m].attempts
  BY <1>1, CallKnown DEF CallCounts, Opened
<1>3. /\ call' = [call EXCEPT ![c] = r] /\ queue' = [queue EXCEPT ![m] = x.item]
      /\ UNCHANGED <<recovery, faults, loop>>
  BY DEF CompleteWrite, control
<1>4. r.pc = "lease"
  BY <1>1 DEF CallState
<1> HIDE DEF r
<1>5. x.item.attempts \in Nat /\ queue[m].attempts \in Nat /\ x.item.state \in Ended
  BY <1>1 DEF Item, Ended
<1>6. ASSUME NEW l \in Loops
      PROVE  Tallied(m, x.item, recovery[m], loop[l], faults)
  <2>1. Tallied(m, queue[m], recovery[m], loop[l], faults) /\ MaxAttempts + faults \in Nat
    BY <1>1, Known
  <2>2. /\ x.item.attempts <= MaxAttempts + faults
        /\ x.item.attempts = MaxAttempts + faults => queue[m].attempts = MaxAttempts + faults
    BY <1>2, <1>5, <2>1 DEF Tallied
  <2> QED  BY <1>1, <1>5, <2>1, <2>2 DEF Tallied
<1>7. ASSUME NEW d \in Calls \ {c} PROVE CallCounts(d, call[d], m, x.item)
  <2>1. CallCounts(d, call[d], m, queue[m])
    BY <1>1 DEF AttemptsInv
  <2>2. Arg[d] = m => Op[d] # "complete"
    BY <1>1 DEF OnceEach
  <2> QED  BY <1>2, <2>1, <2>2 DEF CallCounts
<1>8. ASSUME NEW d \in Calls \ {c}, NEW l \in Loops
      PROVE  NoneLost(d, call[d], m, x.item, loop[l])
  BY <1>1 DEF NoneLost, OnceEach
<1>9. r.pc \notin Opened \cup {"get"}
  BY <1>4 DEF Opened
<1> QED  BY <1>1, <1>3, <1>6, <1>7, <1>8, <1>9, CallWrites

\* The calls on leases and heartbeats count nothing.
LEMMA LeaseCounts ==
    ASSUME OInv, AttemptsInv, NEW c \in Calls,
           LeaseRead(c) \/ LeaseWrite(c) \/ BeatRead(c) \/ BeatWrite(c)
    PROVE  AttemptsInv'
<1> DEFINE x == call[c]
           went(pc) == [x EXCEPT !.pc = pc]
           held(s) == [x EXCEPT !.pc = "saveLease", !.at = s, !.lease = LeaseAfter(c, leases[s])]
           kept == [x EXCEPT !.pc = "done", !.at = 0, !.lease = NoLease]
<1>1. x \in CallState /\ Op[c] # "submit"
  BY CallKnown DEF LeaseRead, LeaseWrite, BeatRead, BeatWrite
<1>2. UNCHANGED <<queue, recovery, faults, loop>>
  BY DEF LeaseRead, LeaseWrite, BeatRead, BeatWrite, OnlyCall, stores, control
<1>3. /\ \A pc : went(pc).pc = pc
      /\ \A s : held(s).pc = "saveLease"
      /\ kept.pc = "done"
  BY <1>1 DEF CallState
<1>4. \/ \E pc \in {"saveBeat", "done"} : call' = [call EXCEPT ![c] = went(pc)]
      \/ \E s \in Latest(Arg[c]) : call' = [call EXCEPT ![c] = held(s)]
      \/ call' = [call EXCEPT ![c] = kept]
  BY DEF LeaseRead, LeaseWrite, BeatRead, BeatWrite, CGoto
<1> HIDE DEF went, held, kept
<1>5. CASE \E pc \in {"saveBeat", "done"} : call' = [call EXCEPT ![c] = went(pc)]
  BY <1>1, <1>2, <1>3, <1>5, PastMoves DEF Opened
<1>6. CASE \E s \in Latest(Arg[c]) : call' = [call EXCEPT ![c] = held(s)]
  BY <1>1, <1>2, <1>3, <1>6, PastMoves DEF Opened
<1>7. CASE call' = [call EXCEPT ![c] = kept]
  BY <1>1, <1>2, <1>3, <1>7, PastMoves DEF Opened
<1> QED  BY <1>4, <1>5, <1>6, <1>7

\* Whatever a call does next.
LEMMA CallStepCounts ==
    ASSUME OInv, AttemptsInv, OnceEach, NEW c \in Calls, CallStep(c)
    PROVE  AttemptsInv'
BY LookCounts, CompleteReadCounts, SubmitScanCounts, SubmitWriteCounts, CompleteWriteCounts,
   LeaseCounts
   DEF CallStep

\* Workers, jobs, time and the approval queue leave the items, threads and calls.
LEMMA QuietCounts ==
    ASSUME AttemptsInv, UNCHANGED <<queue, recovery, faults, loop, call>>
    PROVE  AttemptsInv'
BY DEF AttemptsInv

\* Nothing is counted at the start.
LEMMA AttemptsStart == Init => AttemptsInv
<1> SUFFICES ASSUME Init PROVE AttemptsInv
  OBVIOUS
<1>1. LoopOff.pc = "off" /\ LoopOff.batch = {} /\ NoItem.state = "absent" /\ NoItem.attempts = 0
  BY DEF LoopOff, NoItem, NewItem
<1>2. /\ \A l \in Loops : loop[l] = LoopOff
      /\ \A m \in Missions : queue[m] = NoItem /\ recovery[m] = 0
      /\ \A c \in Calls : call[c] = NewCall(c) /\ NewCall(c).pc = Entry(c)
      /\ faults = 0 /\ MaxAttempts \in Nat \ {0}
  BY OrchestratorAssumption DEF Init, NewCall
<1>3. \A c \in Calls : /\ Op[c] = "submit" => Entry(c) = "submit"
                       /\ Op[c] = "complete" => Entry(c) = "get"
                       /\ Op[c] \notin {"submit", "complete"} => Entry(c) \in {"beat", "lease"}
  BY DEF Entry
<1>4. ListGood(LoopOff)
  BY <1>1 DEF ListGood
<1>5. \A m \in Missions : Tallied(m, NoItem, 0, LoopOff, 0)
  BY <1>1, <1>2 DEF Tallied, InHand, CopyCounts, Handling
<1>6. \A m \in Missions, c \in Calls : CallCounts(c, NewCall(c), m, NoItem)
  BY <1>1, <1>2, <1>3 DEF CallCounts, Opened
<1>7. \A m \in Missions, c \in Calls : NoneLost(c, NewCall(c), m, NoItem, LoopOff)
  BY <1>1 DEF NoneLost
<1> QED  BY <1>2, <1>4, <1>5, <1>6, <1>7 DEF AttemptsInv

\* Every step counts attempts as the invariant says.
LEMMA AttemptsSteps ==
    ASSUME OInv, AttemptsInv, OneThread, OnceEach, [Next]_vars
    PROVE  AttemptsInv'
<1>1. CASE \E l \in Loops : Start(l) \/ LoopStep(l)
  BY <1>1, BeginCounts, LoopStepCounts
<1>2. CASE Crash \/ \E l \in Loops : CycleFails(l)
  BY <1>2, FaultCounts
<1>3. CASE \E c \in Calls : CallStep(c)
  BY <1>3, CallStepCounts
<1>4. CASE \/ \E w \in Workers : Register(w)
           \/ \E w \in Leaving : Unregister(w) \/ GrowStale(w)
           \/ \E j \in Jobs : EnqueueJob(j) \/ ReportJob(j)
           \/ \E s \in Stamps : Lapse(s)
           \/ \E m \in Missions : BecomeDue(m)
  <2>1. UNCHANGED <<queue, recovery, faults, loop, call>>
    BY <1>4 DEF Register, Unregister, GrowStale, EnqueueJob, ReportJob, Lapse, BecomeDue, control
  <2> QED  BY <2>1, QuietCounts
<1>5. CASE Approving \/ Stop \/ UNCHANGED vars
  <2>1. UNCHANGED <<queue, recovery, faults, loop, call>>
    BY <1>5 DEF Approving, Stop, vars, stores, control
  <2> QED  BY <2>1, QuietCounts
<1> QED  BY <1>1, <1>2, <1>3, <1>4, <1>5 DEF Next

\* With one loop thread, and each mission submitted and completed by one call at most, a
\* mission gets max_attempts attempts and one more for each interrupted cycle, and it is
\* handed to the recovery queue once.
THEOREM AttemptsTheorem ==
    ASSUME OneThread, OnceEach
    PROVE  Spec => []AttemptsBounded
<1>1. AttemptsInv => AttemptsBounded
  <2>1. PICK l : l \in Loops
    BY DEF OneThread
  <2> SUFFICES ASSUME AttemptsInv, NEW m \in Missions
               PROVE  queue[m].attempts <= MaxAttempts + faults /\ recovery[m] <= 1
    BY DEF AttemptsBounded
  <2> QED  BY <2>1 DEF AttemptsInv, Tallied
<1>2. Init => AttemptsInv
  BY AttemptsStart
<1>3. OInv /\ AttemptsInv /\ [Next]_vars => AttemptsInv'
  BY AttemptsSteps
<1> QED  BY <1>1, <1>2, <1>3, OrchestratorInvariance, PTL DEF Spec

------------------------------------------------------------------------------
(* The pipeline of the council. *)

\* What a stage that has run was left with, and what it may hold at all.
Outcomes == {"COMPLETED", "FAILED", "BLOCKED"}

\* What a stage may hold at all.
StageStatus == Outcomes \cup {"PENDING"}

\* What the fields of the pipeline hold (council/pipeline.py, PipelineState).
CouncilTypeOK ==
    /\ dna.complete \in BOOLEAN /\ dna.production \in BOOLEAN
    /\ stages \in [1..10 -> StageStatus]
    /\ current \in 1..10
    /\ running \in BOOLEAN
    /\ calls \in Nat

\* Until the first call nothing has run.
Untouched ==
    calls = 0 => /\ stages = [s \in 1..10 |-> "PENDING"]
                 /\ risks = {} /\ current = 1 /\ ~running
                 /\ byStage = {} /\ councilReceipts = <<>>

\* Stages that only run executes were run in order, up to the current one.
InOrder ==
    /\ \A s \in 1..10 : s < current => stages[s] # "PENDING"
    /\ \A s \in 1..10 : s > current => stages[s] = "PENDING"

\* A production mission halts at the red team, a call that was blocked there
\* has ended, and no receipt was written.
HaltsAtRedTeam ==
    dna.production => /\ current <= 4 /\ councilReceipts = <<>>
                      /\ stages[4] # "PENDING" => ~running

\* Of another mission nothing is blocked; a complete one fails nowhere.
NeverBlocked ==
    ~dna.production => /\ "R4" \notin risks
                       /\ \A s \in 1..10 : stages[s] # "BLOCKED"
                       /\ dna.complete => \A s \in 1..10 : stages[s] # "FAILED"

\* The verification that completed saw the stages before it, and so did each receipt.
SawAll ==
    /\ stages[9] = "COMPLETED" => \A s \in 1..8 : stages[s] = "COMPLETED"
    /\ councilReceipts \in Seq(SUBSET (1..9))
    /\ dna.complete => \A i \in DOMAIN councilReceipts : 1..9 \subseteq councilReceipts[i]

\* The pipeline as long as no stage was run by itself.
OnlyRun == byStage = {} => InOrder /\ HaltsAtRedTeam /\ NeverBlocked /\ SawAll

\* The inductive invariant of the pipeline.
CouncilInv == CouncilTypeOK /\ Untouched /\ OnlyRun

\* An executed stage ends with an outcome, whatever it saw.
LEMMA HandlerOutcome ==
    ASSUME CouncilTypeOK, NEW s \in 1..10
    PROVE  Handler(s) \in Outcomes
BY DEF Handler, Outcomes, CouncilTypeOK, RedTeam, Judge, Verification

\* Executing the current stage, or the next when the current one has run, keeps
\* the order of the stages and what they were left with.
LEMMA ExecutedInOrder ==
    ASSUME CouncilTypeOK, InOrder, HaltsAtRedTeam, NeverBlocked, SawAll,
           NEW s \in 1..10, ExecuteStage(s),
           \/ s = current
           \/ s = current + 1 /\ stages[current] # "PENDING",
           dna.production => s <= 4,
           s = 4 /\ dna.production => ~running'
    PROVE  /\ stages' \in [1..10 -> StageStatus] /\ current' \in 1..10
           /\ InOrder' /\ HaltsAtRedTeam' /\ NeverBlocked' /\ SawAll'
<1> DEFINE got == Handler(s)
<1>1. got \in Outcomes
  BY HandlerOutcome
<1>2. /\ stages' = [stages EXCEPT ![s] = got] /\ current' = s /\ dna' = dna
      /\ risks' = IF s = 4 THEN RisksFound ELSE risks
      /\ councilReceipts' = IF s = 10
              THEN Append(councilReceipts, {t \in 1..9 : stages[t] = "COMPLETED"})
              ELSE councilReceipts
  BY DEF ExecuteStage, RedTeam, Commit
<1>3. stages' \in [1..10 -> StageStatus] /\ current' \in 1..10
  BY <1>1, <1>2 DEF StageStatus, CouncilTypeOK
<1>4. /\ stages'[s] = got
      /\ \A t \in 1..10 : t # s => stages'[t] = stages[t]
  BY <1>2 DEF CouncilTypeOK
<1>5. got # "PENDING"
  BY <1>1 DEF Outcomes
<1>6. InOrder'
  BY <1>2, <1>3, <1>4, <1>5 DEF InOrder, CouncilTypeOK
<1>7. /\ \A t \in 1..10 : t < s => stages[t] # "PENDING"
      /\ \A t \in 1..10 : t > s => stages[t] = "PENDING"
  BY DEF InOrder, CouncilTypeOK
<1>8. ~dna.production => /\ got # "BLOCKED" /\ "R4" \notin risks'
                         /\ dna.complete => got # "FAILED"
  <2> SUFFICES ASSUME ~dna.production
               PROVE  /\ got # "BLOCKED" /\ "R4" \notin risks'
                      /\ dna.complete => got # "FAILED"
    OBVIOUS
  <2>1. "R4" \notin risks /\ "R4" \notin RisksFound
    BY DEF NeverBlocked, RisksFound, CouncilTypeOK
  <2>2. \A t \in 1..10 : stages[t] # "BLOCKED" /\ (dna.complete => stages[t] # "FAILED")
    BY DEF NeverBlocked
  <2> QED  BY <1>2, <2>1, <2>2 DEF Handler, RedTeam, Judge, Verification, CouncilTypeOK
<1>9. NeverBlocked'
  BY <1>2, <1>3, <1>4, <1>8 DEF NeverBlocked
<1>10. HaltsAtRedTeam'
  <2> SUFFICES ASSUME dna.production
               PROVE  /\ s <= 4 /\ councilReceipts' = <<>>
                      /\ stages'[4] # "PENDING" => ~running'
    BY <1>2 DEF HaltsAtRedTeam
  <2>1. s <= 4 /\ s # 10
    OBVIOUS
  <2>2. councilReceipts' = <<>>
    BY <1>2, <2>1 DEF HaltsAtRedTeam
  <2>3. s < 4 => stages'[4] = "PENDING"
    BY <1>4, <1>7
  <2> QED  BY <2>1, <2>2, <2>3
<1>11. stages'[9] = "COMPLETED" => \A t \in 1..8 : stages'[t] = "COMPLETED"
  <2>1. CASE s = 9
    <3>1. SUFFICES ASSUME got = "COMPLETED", NEW t \in 1..8
                   PROVE  stages[t] = "COMPLETED"
      BY <1>4, <2>1
    <3>2. stages[t] \notin {"FAILED", "BLOCKED"}
      BY <2>1, <3>1 DEF Handler, Verification, RedTeam, Judge
    <3>3. stages[t] # "PENDING" /\ stages[t] \in StageStatus
      BY <1>7, <2>1 DEF CouncilTypeOK
    <3> QED  BY <3>2, <3>3 DEF StageStatus, Outcomes
  <2>2. CASE s = 10
    BY <1>4, <2>2 DEF SawAll
  <2>3. CASE s < 9
    BY <1>4, <1>7, <2>3
  <2> QED  BY <2>1, <2>2, <2>3
<1>12. councilReceipts' \in Seq(SUBSET (1..9))
  BY <1>2 DEF SawAll
<1>13. dna.complete => \A i \in DOMAIN councilReceipts' : 1..9 \subseteq councilReceipts'[i]
  <2>1. CASE s # 10
    BY <1>2, <2>1 DEF SawAll
  <2>2. CASE s = 10
    <3>1. ~dna.production
      BY <2>2
    <3>2. dna.complete => \A t \in 1..9 : stages[t] = "COMPLETED"
      BY <1>7, <2>2, <3>1 DEF NeverBlocked, CouncilTypeOK, StageStatus, Outcomes
    <3> DEFINE seen == {t \in 1..9 : stages[t] = "COMPLETED"}
    <3>3. dna.complete => 1..9 \subseteq seen
      BY <3>2
    <3>4. councilReceipts' = Append(councilReceipts, seen)
      BY <1>2, <2>2
    <3>5. councilReceipts \in Seq(SUBSET (1..9)) /\ seen \in SUBSET (1..9)
      BY DEF SawAll
    <3>6. dna.complete => \A i \in DOMAIN councilReceipts : 1..9 \subseteq councilReceipts[i]
      BY DEF SawAll
    <3> HIDE DEF seen
    <3> QED  BY <3>3, <3>4, <3>5, <3>6
  <2> QED  BY <2>1, <2>2
<1> QED  BY <1>2, <1>3, <1>6, <1>9, <1>10, <1>11, <1>12, <1>13 DEF SawAll

\* A turn of run that executes a stage keeps the invariant.
LEMMA RunInv ==
    ASSUME CouncilInv, NEW s \in 1..10, ExecuteStage(s),
           \/ s = current
           \/ s = current + 1 /\ stages[current] # "PENDING" /\ (running \/ stages[current] = "PENDING"),
           running' = (s < Commit /\ Handler(s) # "BLOCKED"),
           calls' \in Nat \ {0}, byStage' = byStage
    PROVE  CouncilInv'
<1> USE DEF CouncilInv
<1>1. dna' = dna
  BY DEF ExecuteStage
<1>2. running' \in BOOLEAN
  OBVIOUS
<1>3. stages' \in [1..10 -> StageStatus] /\ current' \in 1..10
  BY HandlerOutcome DEF ExecuteStage, CouncilTypeOK, StageStatus
<1>4. CouncilTypeOK'
  BY <1>1, <1>2, <1>3 DEF CouncilTypeOK
<1>5. Untouched'
  BY DEF Untouched
<1>6. ASSUME byStage = {}
      PROVE  InOrder' /\ HaltsAtRedTeam' /\ NeverBlocked' /\ SawAll'
  <2>1. InOrder /\ HaltsAtRedTeam /\ NeverBlocked /\ SawAll
    BY <1>6 DEF OnlyRun
  <2>2. dna.production => s <= 4
    BY <2>1 DEF HaltsAtRedTeam, CouncilTypeOK
  <2>3. s = 4 /\ dna.production => ~running'
    <3> SUFFICES ASSUME s = 4, dna.production
                 PROVE  ~running'
      OBVIOUS
    <3>1. "R4" \in RisksFound
      BY DEF RisksFound
    <3>2. Handler(s) = "BLOCKED"
      BY <3>1 DEF Handler, RedTeam, Judge, Verification
    <3> QED  BY <3>2
  <2> QED  BY <2>1, <2>2, <2>3, ExecutedInOrder
<1>7. OnlyRun'
  BY <1>6 DEF OnlyRun
<1> QED  BY <1>4, <1>5, <1>7

\* Every step of the pipeline keeps it.
LEMMA CouncilStep == CouncilInv /\ [CouncilNext]_councilVars => CouncilInv'
<1> SUFFICES ASSUME CouncilInv, [CouncilNext]_councilVars
             PROVE  CouncilInv'
  OBVIOUS
<1> USE DEF CouncilInv
<1>1. ASSUME NEW c \in BOOLEAN, NEW p \in BOOLEAN, NEW k \in Kinds, NEW r \in 1..5,
             NewDNA(c, k, p, r)
      PROVE  CouncilInv'
  <2>1. /\ dna'.complete = c /\ dna'.production = p
        /\ stages' = stages /\ risks' = risks /\ current' = current /\ running' = running
        /\ calls' = calls /\ byStage' = byStage /\ councilReceipts' = councilReceipts
        /\ calls = 0
    BY <1>1 DEF NewDNA
  <2>2. CouncilTypeOK' /\ Untouched'
    BY <2>1 DEF CouncilTypeOK, Untouched
  <2>3. OnlyRun'
    BY <2>1 DEF OnlyRun, Untouched, InOrder, HaltsAtRedTeam, NeverBlocked, SawAll, CouncilTypeOK
  <2> QED  BY <2>2, <2>3
<1>2. CASE StartRun /\ stages[current] = "PENDING"
  <2>1. /\ UNCHANGED <<dna, stages, risks, current, byStage, councilReceipts>>
        /\ running' = TRUE /\ calls' = calls + 1
    BY <1>2 DEF StartRun
  <2>2. CouncilTypeOK' /\ Untouched'
    BY <2>1 DEF CouncilTypeOK, Untouched
  <2>3. OnlyRun'
    BY <1>2, <2>1 DEF OnlyRun, InOrder, HaltsAtRedTeam, NeverBlocked, SawAll, CouncilTypeOK
  <2> QED  BY <2>2, <2>3
<1>3. CASE Turn
  <2>0. running /\ calls \in Nat \ {0}
    BY <1>3 DEF Turn, Untouched, CouncilTypeOK
  <2>1. CASE RunTurn(current)
    BY <2>0, <2>1, RunInv DEF RunTurn, CouncilTypeOK
  <2>2. CASE stages[current] # "PENDING" /\ current < Commit /\ RunTurn(current + 1)
    <3>1. current + 1 \in 1..10
      BY <2>2 DEF CouncilTypeOK, Commit
    <3> QED  BY <2>0, <2>2, <3>1, RunInv DEF RunTurn
  <2> QED  BY <1>3, <2>1, <2>2 DEF Turn
<1>4. CASE Rerun
  BY <1>4, RunInv DEF Rerun, CouncilTypeOK
<1>5. ASSUME NEW s \in 1..10, RunStage(s)
      PROVE  CouncilInv'
  <2>1. ExecuteStage(s) /\ running' = running /\ calls' = calls + 1 /\ byStage' # {}
    BY <1>5 DEF RunStage
  <2>2. CouncilTypeOK'
    BY <2>1, HandlerOutcome DEF ExecuteStage, CouncilTypeOK, StageStatus
  <2>3. Untouched' /\ OnlyRun'
    BY <2>1 DEF Untouched, OnlyRun, CouncilTypeOK
  <2> QED  BY <2>2, <2>3
<1>6. CASE UNCHANGED councilVars
  BY <1>6 DEF councilVars, CouncilTypeOK, Untouched, OnlyRun, InOrder, HaltsAtRedTeam,
              NeverBlocked, SawAll
<1> QED  BY <1>1, <1>2, <1>3, <1>4, <1>5, <1>6 DEF CouncilNext

\* However often run is called, a production mission stays below the execution
\* plan, and a verification that completed saw every stage before it completed
\* (council/pipeline.py, ExecutionPipeline.run).
THEOREM PipelineTheorem == CouncilSpec => []PipelineGates
<1>1. CouncilInit => CouncilInv
  <2> SUFFICES ASSUME CouncilInit
               PROVE  CouncilInv
    OBVIOUS
  <2>1. /\ dna.complete = FALSE /\ dna.production = FALSE
        /\ stages = [s \in 1..10 |-> "PENDING"] /\ risks = {} /\ current = 1
        /\ running = FALSE /\ calls = 0 /\ byStage = {} /\ councilReceipts = <<>>
    BY DEF CouncilInit
  <2>2. \A s \in 1..10 : stages[s] = "PENDING"
    BY <2>1
  <2>3. <<>> \in Seq(SUBSET (1..9))
    OBVIOUS
  <2>4. CouncilTypeOK /\ Untouched
    <3>1. stages \in [1..10 -> StageStatus]
      BY <2>1 DEF StageStatus
    <3>2. dna.complete \in BOOLEAN /\ dna.production \in BOOLEAN /\ running \in BOOLEAN
      BY <2>1, Zenon
    <3>3. current \in 1..10 /\ calls \in Nat
      BY <2>1
    <3>4. Untouched
      BY <2>1 DEF Untouched
    <3> QED  BY <3>1, <3>2, <3>3, <3>4 DEF CouncilTypeOK
  <2>5. InOrder /\ HaltsAtRedTeam /\ NeverBlocked
    BY <2>1, <2>2 DEF InOrder, HaltsAtRedTeam, NeverBlocked
  <2>6. SawAll
    BY <2>1, <2>2, <2>3 DEF SawAll
  <2> QED  BY <2>4, <2>5, <2>6 DEF CouncilInv, OnlyRun
<1>2. CouncilInv => PipelineGates
  <2> SUFFICES ASSUME CouncilInv, byStage = {}
               PROVE  PipelineGates
    BY DEF PipelineGates
  <2>1. InOrder /\ HaltsAtRedTeam /\ SawAll /\ CouncilTypeOK
    BY DEF CouncilInv, OnlyRun
  <2>2. dna.production => \A s \in 5..10 : stages[s] = "PENDING"
    BY <2>1 DEF InOrder, HaltsAtRedTeam, CouncilTypeOK
  <2> QED  BY <2>1, <2>2 DEF PipelineGates, SawAll, Verification
<1> QED  BY <1>1, <1>2, CouncilStep, PTL DEF CouncilSpec

------------------------------------------------------------------------------
(* The seats of the council. *)

\* There are finitely many seats.
LEMMA SeatsAreFinite == IsFiniteSet(Seats)
<1>1. \A s : IsFiniteSet({s})
  BY FS_Singleton
<1>2. IsFiniteSet({"CHAIRMAN"} \cup {"STAFF"}) /\ IsFiniteSet({"ARCH"} \cup {"CODE"})
      /\ IsFiniteSet({"EXEC"} \cup {"RED"}) /\ IsFiniteSet({"JUDGE"} \cup {"MEM"})
  BY <1>1, FS_Union
<1>3. IsFiniteSet(({"CHAIRMAN"} \cup {"STAFF"}) \cup ({"ARCH"} \cup {"CODE"}))
      /\ IsFiniteSet(({"EXEC"} \cup {"RED"}) \cup ({"JUDGE"} \cup {"MEM"}))
  BY <1>2, FS_Union
<1>4. IsFiniteSet((({"CHAIRMAN"} \cup {"STAFF"}) \cup ({"ARCH"} \cup {"CODE"}))
                  \cup (({"EXEC"} \cup {"RED"}) \cup ({"JUDGE"} \cup {"MEM"})))
  BY <1>3, FS_Union
<1>5. IsFiniteSet(((({"CHAIRMAN"} \cup {"STAFF"}) \cup ({"ARCH"} \cup {"CODE"}))
                  \cup (({"EXEC"} \cup {"RED"}) \cup ({"JUDGE"} \cup {"MEM"}))) \cup {"TOKEN"})
  BY <1>1, <1>4, FS_Union
<1>6. Seats = ((({"CHAIRMAN"} \cup {"STAFF"}) \cup ({"ARCH"} \cup {"CODE"}))
                  \cup (({"EXEC"} \cup {"RED"}) \cup ({"JUDGE"} \cup {"MEM"}))) \cup {"TOKEN"}
  BY DEF Seats
<1> QED  BY <1>5, <1>6

\* A seat that is dropped costs no less than one that is kept among the cheapest.
LEMMA CheapestStay ==
    ASSUME NEW agents \in SUBSET Seats, NEW s \in agents \ OptimizeRouting(agents),
           NEW t \in OptimizeRouting(agents) \ {"CHAIRMAN", "RED", "JUDGE"}
    PROVE  SeatBudget(s) >= SeatBudget(t)
<1> DEFINE rest == agents \ {"CHAIRMAN", "RED", "JUDGE"}
           below(q) == {p \in rest : Cheaper(p, q)}
<1>1. s \in rest /\ ~(Cardinality(below(s)) < 5)
  BY DEF OptimizeRouting
<1>2. t \in rest /\ Cardinality(below(t)) < 5
  BY DEF OptimizeRouting
<1>3. \A q \in Seats : SeatBudget(q) \in Int
  BY DEF SeatBudget
<1>13. s \in Seats /\ t \in Seats /\ rest \subseteq Seats
  BY <1>1, <1>2
<1>4. SUFFICES ASSUME SeatBudget(s) < SeatBudget(t) PROVE FALSE
  BY <1>3, <1>13
<1>5. \A p \in rest : Cheaper(p, s) => Cheaper(p, t)
  <2> SUFFICES ASSUME NEW p \in rest, Cheaper(p, s) PROVE Cheaper(p, t)
    OBVIOUS
  <2>1. SeatBudget(p) <= SeatBudget(s)
    BY <1>3, <1>13 DEF Cheaper
  <2>2. SeatBudget(p) < SeatBudget(t)
    BY <1>3, <1>13, <1>4, <2>1
  <2> QED  BY <2>2 DEF Cheaper
<1>6. below(s) \subseteq below(t) /\ below(t) \subseteq Seats
  BY <1>5
<1>7. IsFiniteSet(below(t))
  BY <1>6, SeatsAreFinite, FS_Subset
<1>8. Cardinality(below(s)) <= Cardinality(below(t)) /\ IsFiniteSet(below(s))
  BY <1>6, <1>7, FS_Subset
<1>9. Cardinality(below(s)) \in Nat /\ Cardinality(below(t)) \in Nat
  BY <1>7, <1>8, FS_CardinalityType
<1> QED  BY <1>1, <1>2, <1>8, <1>9

\* The kind of a mission and its risk.
DnaInv == dna.kind \in Kinds /\ dna.risk \in 1..5

\* A mission is of one of the kinds in every behaviour of the council.
LEMMA DnaIsTyped == CouncilSpec => []DnaInv
<1>1. CouncilInit => DnaInv
  BY DEF CouncilInit, DnaInv, Kinds
<1>2. DnaInv /\ [CouncilNext]_councilVars => DnaInv'
  <2> SUFFICES ASSUME DnaInv, [CouncilNext]_councilVars PROVE DnaInv'
    OBVIOUS
  <2>1. ASSUME NEW c, NEW p, NEW k \in Kinds, NEW r \in 1..5, NewDNA(c, k, p, r) PROVE DnaInv'
    BY <2>1 DEF NewDNA, DnaInv
  <2>2. ASSUME UNCHANGED dna PROVE DnaInv'
    BY <2>2 DEF DnaInv
  <2>3. CASE UNCHANGED councilVars
    BY <2>2, <2>3 DEF councilVars
  <2>4. CASE StartRun \/ Turn \/ Rerun \/ \E s \in 1..10 : RunStage(s)
    BY <2>2, <2>4 DEF StartRun, Turn, RunTurn, Rerun, RunStage, ExecuteStage
  <2> QED  BY <2>1, <2>3, <2>4 DEF CouncilNext
<1> QED  BY <1>1, <1>2, PTL DEF CouncilSpec

\* Who is heard follows from the risk of the mission alone.
LEMMA SeatsAreHeard == DnaInv => SeatsHeard
<1> SUFFICES ASSUME DnaInv PROVE SeatsHeard
  OBVIOUS
<1> USE DEF DnaInv
<1> DEFINE seats == RouteSeats(dna)
           heard == OptimizeRouting(seats)
<1>1. seats \subseteq Seats
  <2>1. Classify(dna) \in {"ARCHITECTURE", "SECURITY_AUDIT", "GOVERNANCE", "DEPLOYMENT",
                          "CONSTITUTIONAL", "IMPLEMENTATION", "ROUTINE"}
    BY DEF Classify, Kinds
  <2>2. \A k \in {"ARCHITECTURE", "SECURITY_AUDIT", "GOVERNANCE", "DEPLOYMENT",
                 "CONSTITUTIONAL", "IMPLEMENTATION", "ROUTINE"} : RequiredSeats(k) \subseteq Seats
    BY DEF RequiredSeats, Seats
  <2>3. RequiredSeats(Classify(dna)) \subseteq Seats
    BY <2>1, <2>2
  <2> QED  BY <2>3 DEF RouteSeats, Seats
<1>2. \A s \in {"CHAIRMAN", "RED", "JUDGE"} : s \in seats => s \in heard
  BY DEF OptimizeRouting
<1>3. dna.risk >= 4 => {"RED", "JUDGE"} \subseteq seats
  BY DEF RouteSeats, Seats
<1>4. dna.risk = 5 => seats = Seats
  BY DEF RouteSeats, Seats
<1>5. \A s \in seats \ heard, t \in heard \ {"CHAIRMAN", "RED", "JUDGE"} :
        SeatBudget(s) >= SeatBudget(t)
  BY <1>1, CheapestStay
<1>6. \A s \in Seats : HandleVeto(s) # s
  BY DEF HandleVeto, Seats
<1> QED  BY <1>2, <1>3, <1>4, <1>5, <1>6 DEF SeatsHeard

\* The pipeline passes no gate that was refused and hears the seats the risk of the
\* mission calls for (council/pipeline.py, council/runtime).
THEOREM CouncilTheorem == CouncilSpec => []CouncilSound
<1>1. PipelineGates /\ SeatsHeard => CouncilSound
  BY DEF CouncilSound
<1> QED  BY <1>1, PipelineTheorem, DnaIsTyped, SeatsAreHeard, PTL

------------------------------------------------------------------------------
(* The adaptive team. *)

\* The modes of a mission.
AllModes == {"S0", "S1", "S2", "S3"}

\* A triage recommends the mode its effects call for.
TriageGood(t) ==
    /\ t.mode \in AllModes /\ t.complexity \in Int /\ t.risk \in Int
    /\ t.external => t.mode = "S3"
    /\ ~t.reversible => t.mode \in {"S2", "S3"}

\* A plan for S3 is verified twice and within its limit.
PlanGood == plan.mode = "S3" => Len(plan.agents) <= 8 /\ ReviewersOf(plan.agents) = 2

\* A recorded escalation goes up one mode.
Climbs(e) ==
    /\ e[1] = "S0" => e[2] = "S1"
    /\ e[1] = "S1" => e[2] = "S2"
    /\ e[1] = "S2" => e[2] = "S3"
    /\ e[1] \in {"S0", "S1", "S2"}

\* The inductive invariant of the adaptive runtime.
AdaptiveInv ==
    /\ mode \in AllModes
    /\ triage # <<>> => TriageGood(triage) /\ mode = triage.mode
    /\ PlanGood
    /\ \E m \in Nat : Len(plan.agents) = m
    /\ \E S : roster \in Seq(S)
    /\ \E S : escalations \in Seq(S)
    /\ \A i \in DOMAIN escalations : Climbs(escalations[i])
    /\ Len(plan.agents) <= Len(roster)

\* The ranks of the modes.
LEMMA Ranks ==
    /\ ModeRank("S0") = 1 /\ ModeRank("S1") = 2 /\ ModeRank("S2") = 3 /\ ModeRank("S3") = 4
    /\ Modes[1] = "S0" /\ Modes[2] = "S1" /\ Modes[3] = "S2" /\ Modes[4] = "S3"
<1>1. Modes[1] = "S0" /\ Modes[2] = "S1" /\ Modes[3] = "S2" /\ Modes[4] = "S3"
  BY DEF Modes
<1>2. \A i \in 1..4 : i = 1 \/ i = 2 \/ i = 3 \/ i = 4
  OBVIOUS
<1>3. \A m : ModeRank(m) = CHOOSE i \in 1..4 : Modes[i] = m
  BY DEF ModeRank
<1>4. ModeRank("S0") = 1
  <2>1. \A i \in 1..4 : Modes[i] = "S0" <=> i = 1
    BY <1>1, <1>2
  <2> QED  BY <2>1 DEF ModeRank
<1>5. ModeRank("S1") = 2
  <2>1. \A i \in 1..4 : Modes[i] = "S1" <=> i = 2
    BY <1>1, <1>2
  <2> QED  BY <2>1 DEF ModeRank
<1>6. ModeRank("S2") = 3
  <2>1. \A i \in 1..4 : Modes[i] = "S2" <=> i = 3
    BY <1>1, <1>2
  <2> QED  BY <2>1 DEF ModeRank
<1>7. ModeRank("S3") = 4
  <2>1. \A i \in 1..4 : Modes[i] = "S3" <=> i = 4
    BY <1>1, <1>2
  <2> QED  BY <2>1 DEF ModeRank
<1> QED  BY <1>1, <1>4, <1>5, <1>6, <1>7

\* A triage is good whatever the factors of the mission.
LEMMA TriageIsGood ==
    ASSUME NEW tools \in Int, NEW uncertainty \in Int, NEW duration \in Int, NEW tokens \in Int,
           NEW external \in BOOLEAN, NEW reversible \in BOOLEAN, NEW sensitivity, NEW level
    PROVE  TriageGood(TriageResult(tools, uncertainty, duration, tokens, external, reversible,
                                   sensitivity, level))
<1> DEFINE c == ComputeComplexity(tools, uncertainty, duration, tokens)
           k == ComputeRisk(external, reversible, sensitivity, c)
           md == RecommendMode(c, k, uncertainty, external, reversible)
           t == TriageResult(tools, uncertainty, duration, tokens, external, reversible,
                             sensitivity, level)
<1>1. c \in Int
  BY DEF ComputeComplexity
<1>2. k \in Int
  <2>1. Sensitivity(sensitivity) \in Int
    BY DEF Sensitivity
  <2> QED  BY <1>1, <2>1 DEF ComputeRisk
<1>3. ScoredMode(c, k, uncertainty, external, reversible) \in AllModes
  BY <1>1, <1>2 DEF ScoredMode, AllModes
<1>4. md \in AllModes /\ (external => md = "S3") /\ (~reversible => md \in {"S2", "S3"})
  BY <1>3, Ranks DEF RecommendMode, AllModes
<1>5. /\ t.mode = md /\ t.complexity = c /\ t.risk = k
      /\ t.external = external /\ t.reversible = reversible
  BY DEF TriageResult
<1> QED  BY <1>1, <1>2, <1>4, <1>5 DEF TriageGood

\* The roles an agent may have.
AllRoles == {"Orchestrator", "Planner", "Analyst", "Researcher", "Executor", "Reviewer", "Auditor",
             "Archivist"}

\* One more agent, which is a reviewer or not.
LEMMA OneMore ==
    ASSUME NEW a \in Seq(AllRoles), NEW r \in AllRoles
    PROVE  /\ Append(a, r) \in Seq(AllRoles) /\ Len(Append(a, r)) = Len(a) + 1 /\ Len(a) \in Nat
           /\ ReviewersOf(a) \in Nat
           /\ ReviewersOf(Append(a, r)) = ReviewersOf(a) + (IF r = "Reviewer" THEN 1 ELSE 0)
           /\ ToSet(Append(a, r)) = ToSet(a) \cup {r}
<1> DEFINE b == Append(a, r)
           U == {i \in DOMAIN a : a[i] = "Reviewer"}
<1>1. /\ b \in Seq(AllRoles) /\ Len(b) = Len(a) + 1 /\ Len(a) \in Nat /\ b[Len(a) + 1] = r
      /\ DOMAIN a = 1..Len(a) /\ DOMAIN b = 1..(Len(a) + 1) /\ \A i \in 1..Len(a) : b[i] = a[i]
  OBVIOUS
<1> HIDE DEF b
<1>2. IsFiniteSet(U) /\ Cardinality(U) \in Nat
  <2>1. PICK one \in Int : one = 1
    OBVIOUS
  <2>2. IsFiniteSet(one..Len(a))
    BY <1>1, FS_Interval
  <2>3. U \subseteq one..Len(a)
    BY <1>1, <2>1
  <2> QED  BY <2>2, <2>3, FS_Subset, FS_CardinalityType
<1>3. ToSet(b) = ToSet(a) \cup {r}
  BY <1>1 DEF ToSet
<1>4. ReviewersOf(a) = Cardinality(U) /\ ReviewersOf(b) = Cardinality({i \in DOMAIN b : b[i] = "Reviewer"})
  BY DEF ReviewersOf
<1>5. ReviewersOf(b) = ReviewersOf(a) + (IF r = "Reviewer" THEN 1 ELSE 0)
  <2>1. CASE r = "Reviewer"
    <3>1. {i \in DOMAIN b : b[i] = "Reviewer"} = U \cup {Len(a) + 1}
      BY <1>1, <2>1
    <3>2. Len(a) + 1 \notin U
      BY <1>1
    <3>3. Cardinality(U \cup {Len(a) + 1}) = Cardinality(U) + 1
      BY <1>2, <3>2, FS_AddElement
    <3> QED  BY <1>4, <2>1, <3>1, <3>3
  <2>2. CASE r # "Reviewer"
    <3>0. \A i \in DOMAIN b : i # Len(a) + 1 <=> i \in DOMAIN a
      BY <1>1
    <3>1. \A i : i \in DOMAIN b /\ b[i] = "Reviewer" <=> i \in DOMAIN a /\ a[i] = "Reviewer"
      <4>1. ASSUME NEW i, i \in DOMAIN b, b[i] = "Reviewer"
            PROVE  i \in DOMAIN a /\ a[i] = "Reviewer"
        BY <1>1, <2>2, <3>0, <4>1
      <4>2. ASSUME NEW i, i \in DOMAIN a, a[i] = "Reviewer"
            PROVE  i \in DOMAIN b /\ b[i] = "Reviewer"
        BY <1>1, <4>2
      <4> QED  BY <4>1, <4>2
    <3>2. {i \in DOMAIN b : b[i] = "Reviewer"} = U
      BY <3>1
    <3>3. ReviewersOf(b) = ReviewersOf(a) /\ ReviewersOf(a) \in Nat
      BY <1>2, <1>4, <3>2
    <3> QED  BY <2>2, <3>3
  <2> QED  BY <2>1, <2>2
<1> QED  BY <1>1, <1>2, <1>3, <1>4, <1>5 DEF b

\* What a role that joins or not makes of the agents.
Grown(a, b, r) ==
    /\ b \in Seq(AllRoles) /\ Len(b) \in Nat /\ Len(a) \in Nat /\ Len(a) <= Len(b) /\ Len(b) <= Len(a) + 1
    /\ ReviewersOf(a) \in Nat /\ ReviewersOf(b) \in Nat
    /\ r # "Reviewer" => ReviewersOf(b) = ReviewersOf(a)
    /\ r = "Reviewer" /\ Len(b) = Len(a) + 1 => ReviewersOf(b) = ReviewersOf(a) + 1
    /\ ReviewersOf(b) = ReviewersOf(a) \/ (ReviewersOf(b) = ReviewersOf(a) + 1 /\ Len(b) = Len(a) + 1)
    /\ ToSet(a) \subseteq ToSet(b)

\* An agent that joins or not grows the team by at most itself.
LEMMA JoinGrows ==
    ASSUME NEW a \in Seq(AllRoles), NEW r \in AllRoles, NEW b, b = a \/ b = Append(a, r)
    PROVE  Grown(a, b, r) /\ (b = Append(a, r) => r \in ToSet(b) /\ Len(b) = Len(a) + 1
                                /\ ReviewersOf(b) = ReviewersOf(a) + (IF r = "Reviewer" THEN 1 ELSE 0))
<1>1. CASE b = Append(a, r)
  BY <1>1, OneMore DEF Grown
<1>2. CASE b = a /\ b # Append(a, r)
  BY <1>2, OneMore DEF Grown
<1> QED  BY <1>1, <1>2

\* The base of an S3 mission: at most five agents with no reviewer among them.
Has(base, t) ==
    /\ "Executor" \in ToSet(base)
    /\ t.complexity > 4000 => "Planner" \in ToSet(base)
    /\ t.sensitivity \in {"medium", "high"} => "Analyst" \in ToSet(base)
    /\ Deep(t) => "Researcher" \in ToSet(base)

\* Every S3 base has the executor and whatever role the mission calls for, and no reviewer.
LEMMA BaseOfS3 ==
    ASSUME NEW t, t.mode = "S3", t.complexity \in Int
    PROVE  LET base == BaseRoles(t) IN
           /\ base \in Seq(AllRoles) /\ Len(base) <= 5 /\ Len(base) \in Nat
           /\ ReviewersOf(base) = 0 /\ Has(base, t)
<1>0. ~Single(t)
  BY DEF Single
<1>1. PICK lead : lead = <<"Orchestrator">>
  OBVIOUS
<1>2. lead \in Seq(AllRoles) /\ Len(lead) = 1 /\ ReviewersOf(lead) = 0
  <2>1. lead \in Seq(AllRoles) /\ Len(lead) = 1 /\ DOMAIN lead = 1..1 /\ lead[1] = "Orchestrator"
    BY <1>1 DEF AllRoles
  <2>2. {i \in DOMAIN lead : lead[i] = "Reviewer"} = {}
    BY <2>1
  <2> QED  BY <2>1, <2>2, FS_EmptySet DEF ReviewersOf
<1>3. PICK a1 : a1 = Append(lead, "Executor")
  OBVIOUS
<1>4. PICK a2 : a2 = Joined(a1, "Planner", t.complexity > 4000)
  OBVIOUS
<1>5. PICK a3 : a3 = IF t.sensitivity \in {"medium", "high"} THEN Append(a2, "Analyst") ELSE a2
  OBVIOUS
<1>6. PICK a4 : a4 = IF Deep(t) THEN Append(a3, "Researcher") ELSE a3
  OBVIOUS
<1>7. BaseRoles(t) = a4
  BY <1>0, <1>1, <1>3, <1>4, <1>5, <1>6 DEF BaseRoles, Joined
<1>8. {"Executor", "Planner", "Analyst", "Researcher"} \subseteq AllRoles
  BY DEF AllRoles
<1>9. Grown(lead, a1, "Executor") /\ "Executor" \in ToSet(a1)
  BY <1>2, <1>3, <1>8, JoinGrows
<1>10. Grown(a1, a2, "Planner") /\ (t.complexity > 4000 => "Planner" \in ToSet(a2))
  <2>1. a1 \in Seq(AllRoles)
    BY <1>9 DEF Grown
  <2>2. CASE t.complexity > 4000
    <3>1. a2 = Append(a1, "Planner")
      BY <1>4, <2>2 DEF Joined
    <3>2. Grown(a1, a2, "Planner") /\ "Planner" \in ToSet(a2)
      BY <1>8, <2>1, <3>1, JoinGrows
    <3> QED  BY <3>2
  <2>3. CASE ~(t.complexity > 4000)
    <3>1. a2 = a1
      BY <1>4, <2>3 DEF Joined
    <3>2. Grown(a1, a2, "Planner")
      BY <1>8, <2>1, <3>1, JoinGrows
    <3> QED  BY <2>3, <3>2
  <2> QED  BY <2>2, <2>3
<1>11. Grown(a2, a3, "Analyst") /\ (t.sensitivity \in {"medium", "high"} => "Analyst" \in ToSet(a3))
  <2>1. a2 \in Seq(AllRoles)
    BY <1>10 DEF Grown
  <2> QED  BY <1>5, <1>8, <2>1, JoinGrows
<1>12. Grown(a3, a4, "Researcher") /\ (Deep(t) => "Researcher" \in ToSet(a4))
  <2>1. a3 \in Seq(AllRoles)
    BY <1>11 DEF Grown
  <2> QED  BY <1>6, <1>8, <2>1, JoinGrows
<1>13. a4 \in Seq(AllRoles) /\ Len(a4) \in Nat /\ Len(a4) <= 5 /\ ReviewersOf(a4) = 0
  BY <1>2, <1>9, <1>10, <1>11, <1>12 DEF Grown
<1>14. Has(a4, t)
  BY <1>9, <1>10, <1>11, <1>12 DEF Grown, Has
<1> QED  BY <1>7, <1>13, <1>14

\* Of the roles that are not in the base of an S3 mission only the reviewer and the
\* auditor can earn their place.
LEMMA FewEarn ==
    ASSUME NEW t, t.mode = "S3", t.complexity \in Int, NEW base, Has(base, t),
           NEW r \in {"Planner", "Analyst", "Researcher", "Executor", "Archivist"},
           r \notin ToSet(base)
    PROVE  ~(RoiScore(r, t, base) >= RoiThreshold)
<1>1. PICK n : n = Cardinality(Partners(r) \cap ToSet(base))
  OBVIOUS
<1>2. n \in Nat
  <2>1. IsFiniteSet({"Orchestrator"} \cup {"Executor"}) /\ IsFiniteSet({})
    BY FS_Singleton, FS_Union, FS_EmptySet
  <2>2. Partners(r) = {"Orchestrator"} \cup {"Executor"} \/ Partners(r) = {}
    BY DEF Partners
  <2>3. Partners(r) \cap ToSet(base) \subseteq Partners(r)
    OBVIOUS
  <2> QED  BY <1>1, <2>1, <2>2, <2>3, FS_Subset, FS_CardinalityType
<1>3. Coupling(r, base) = 5 + 15 * n
  BY <1>1 DEF Coupling
<1>4. PICK g \in Int : g = QualityGain(r, t) /\ g <= 200 /\ (r = "Archivist" => g = 100)
  BY DEF QualityGain, Has, Deep
<1>5. PICK o \in Int : o = Overhead[r] /\ (o >= 300 \/ (r = "Archivist" /\ o = 100))
  BY DEF Overhead, Has
<1>6. RoiScore(r, t, base) = g - o - (5 + 15 * n) + 100 + 150
      \/ RoiScore(r, t, base) = g - o - (5 + 15 * n) + 0 + 150
  <2>1. ~Single(t)
    BY DEF Single
  <2>2. RoiScore(r, t, base) = g - o - (5 + 15 * n) + (IF NeedsReviewer(t) THEN 100 ELSE 0)
                                 + (IF Single(t) THEN 0 ELSE 150)
    BY <1>3, <1>4, <1>5 DEF RoiScore
  <2>3. CASE NeedsReviewer(t)
    BY <2>1, <2>2, <2>3
  <2>4. CASE ~NeedsReviewer(t)
    BY <2>1, <2>2, <2>4
  <2> QED  BY <2>3, <2>4
<1> QED  BY <1>2, <1>4, <1>5, <1>6 DEF RoiThreshold

\* A role that is tried joins the agents or does not, and then they had room.
LEMMA TriedGrows ==
    ASSUME NEW t, t.mode = "S3", NEW a \in Seq(AllRoles), NEW r \in AllRoles, NEW base
    PROVE  /\ Grown(a, Tried(a, r, t, base), r)
           /\ Len(Tried(a, r, t, base)) = Len(a) + 1 => RoiScore(r, t, base) >= RoiThreshold /\ r \notin ToSet(base)
           /\ Len(Tried(a, r, t, base)) = Len(a) => Tried(a, r, t, base) = a
<1> DEFINE b == Tried(a, r, t, base)
<1>1. (b = Append(a, r) /\ RoiScore(r, t, base) >= RoiThreshold /\ r \notin ToSet(base)) \/ b = a
  BY DEF Tried, Joined
<1>2. Grown(a, b, r)
  BY <1>1, JoinGrows
<1>3. Len(Append(a, r)) = Len(a) + 1 /\ Len(a) \in Nat
  BY OneMore
<1>4. CASE b = a
  BY <1>2, <1>3, <1>4
<1>5. CASE b = Append(a, r) /\ RoiScore(r, t, base) >= RoiThreshold /\ r \notin ToSet(base)
  BY <1>2, <1>3, <1>5
<1> QED  BY <1>1, <1>4, <1>5

\* The agents of an S3 mission before the verification: at most seven, of whom at
\* most one reviewer.
LEMMA ScaledS3 ==
    ASSUME NEW t, t.mode = "S3", t.complexity \in Int
    PROVE  LET agents == Scaled(t, BaseRoles(t)) IN
           /\ agents \in Seq(AllRoles) /\ Len(agents) \in Nat /\ ReviewersOf(agents) \in Nat
           /\ (ReviewersOf(agents) = 0 /\ Len(agents) <= 6)
              \/ (ReviewersOf(agents) = 1 /\ Len(agents) <= 7)
<1>1. PICK base : base = BaseRoles(t)
  OBVIOUS
<1>2. base \in Seq(AllRoles) /\ Len(base) <= 5 /\ Len(base) \in Nat /\ ReviewersOf(base) = 0 /\ Has(base, t)
  BY <1>1, BaseOfS3
<1>3. \A r \in {"Planner", "Analyst", "Researcher", "Executor", "Archivist"} :
        r \in AllRoles /\ (r \notin ToSet(base) => ~(RoiScore(r, t, base) >= RoiThreshold))
  BY <1>2, FewEarn DEF AllRoles
<1>4. \A r \in {"Planner", "Analyst", "Researcher", "Executor", "Archivist"}, a \in Seq(AllRoles) :
        Tried(a, r, t, base) = a
  <2> SUFFICES ASSUME NEW r \in {"Planner", "Analyst", "Researcher", "Executor", "Archivist"},
                      NEW a \in Seq(AllRoles)
               PROVE  Tried(a, r, t, base) = a
    OBVIOUS
  <2>1. (Tried(a, r, t, base) = Append(a, r) /\ RoiScore(r, t, base) >= RoiThreshold /\ r \notin ToSet(base))
          \/ Tried(a, r, t, base) = a
    BY DEF Tried, Joined
  <2> QED  BY <1>3, <2>1
<1>5. PICK reviewed : reviewed = Tried(base, "Reviewer", t, base)
  OBVIOUS
<1>6. PICK audited : audited = Tried(reviewed, "Auditor", t, base)
  OBVIOUS
<1>7. "Reviewer" \in AllRoles /\ "Auditor" \in AllRoles /\ "Auditor" # "Reviewer"
  BY DEF AllRoles
<1>8. Grown(base, reviewed, "Reviewer")
  BY <1>2, <1>5, <1>7, TriedGrows
<1>9. Grown(reviewed, audited, "Auditor")
  <2>1. reviewed \in Seq(AllRoles)
    BY <1>8 DEF Grown
  <2> QED  BY <1>6, <1>7, <2>1, TriedGrows
<1>10. Scaled(t, base) = audited
  <2>1. Tried(base, "Planner", t, base) = base /\ Tried(base, "Analyst", t, base) = base
        /\ Tried(base, "Researcher", t, base) = base /\ Tried(base, "Executor", t, base) = base
    BY <1>2, <1>4
  <2>2. Tried(audited, "Archivist", t, base) = audited
    BY <1>4, <1>9 DEF Grown
  <2> QED  BY <1>5, <1>6, <2>1, <2>2 DEF Scaled
<1>11. /\ audited \in Seq(AllRoles) /\ Len(audited) \in Nat /\ ReviewersOf(audited) \in Nat
       /\ (ReviewersOf(audited) = 0 /\ Len(audited) <= 6) \/ (ReviewersOf(audited) = 1 /\ Len(audited) <= 7)
  BY <1>2, <1>7, <1>8, <1>9 DEF Grown
<1> QED  BY <1>1, <1>10, <1>11

\* A plan for S3 has two reviewers among at most eight agents.
LEMMA ScheduledS3 ==
    ASSUME NEW t, t.mode = "S3", t.complexity \in Int
    PROVE  /\ ScheduleRoles(t) \in Seq(AllRoles)
           /\ Len(ScheduleRoles(t)) <= 8 /\ ReviewersOf(ScheduleRoles(t)) = 2
<1>1. PICK a : a = Scaled(t, BaseRoles(t))
  OBVIOUS
<1>2. /\ a \in Seq(AllRoles) /\ Len(a) \in Nat /\ ReviewersOf(a) \in Nat
      /\ (ReviewersOf(a) = 0 /\ Len(a) <= 6) \/ (ReviewersOf(a) = 1 /\ Len(a) <= 7)
  BY <1>1, ScaledS3
<1>3. "Reviewer" \in AllRoles
  BY DEF AllRoles
<1>4. PICK b : b = Append(a, "Reviewer")
  OBVIOUS
<1>5. b \in Seq(AllRoles) /\ Len(b) = Len(a) + 1 /\ ReviewersOf(b) = ReviewersOf(a) + 1
  BY <1>2, <1>3, <1>4, OneMore
<1>6. WithReviewer(t, a) = b
  <2>1. MaxAgents(t.mode) = 8
    BY DEF MaxAgents
  <2>2. ReviewersOf(a) < 2 /\ Len(a) < MaxAgents(t.mode)
    BY <1>2, <2>1
  <2> QED  BY <1>4, <2>2 DEF WithReviewer, Joined
<1>7. ScheduleRoles(t) = WithReviewer(t, b)
  BY <1>1, <1>6 DEF ScheduleRoles, DualVerification
<1>8. CASE ReviewersOf(a) = 1
  <2>1. ReviewersOf(b) = 2 /\ Len(b) <= 8
    BY <1>2, <1>5, <1>8
  <2>2. WithReviewer(t, b) = b
    BY <2>1 DEF WithReviewer, Joined
  <2> QED  BY <1>5, <1>7, <2>1, <2>2
<1>9. CASE ReviewersOf(a) = 0
  <2>1. ReviewersOf(b) = 1 /\ Len(b) <= 7
    BY <1>2, <1>5, <1>9
  <2>2. MaxAgents(t.mode) = 8
    BY DEF MaxAgents
  <2>3. ReviewersOf(b) < 2 /\ Len(b) < MaxAgents(t.mode)
    BY <1>2, <1>5, <2>1, <2>2
  <2>4. WithReviewer(t, b) = Append(b, "Reviewer")
    BY <2>3 DEF WithReviewer, Joined
  <2>5. /\ Append(b, "Reviewer") \in Seq(AllRoles) /\ Len(Append(b, "Reviewer")) = Len(b) + 1
        /\ ReviewersOf(Append(b, "Reviewer")) = ReviewersOf(b) + 1
    BY <1>3, <1>5, OneMore
  <2> QED  BY <1>2, <1>5, <1>7, <2>1, <2>4, <2>5
<1> QED  BY <1>2, <1>8, <1>9

\* A plan is a sequence of roles in every mode.
LEMMA ScheduledIsSequence ==
    ASSUME NEW t
    PROVE  ScheduleRoles(t) \in Seq(AllRoles)
<1>1. \A joins : \A a \in Seq(AllRoles), r \in AllRoles : Joined(a, r, joins) \in Seq(AllRoles)
  <2> SUFFICES ASSUME NEW a \in Seq(AllRoles), NEW r \in AllRoles, NEW joins
               PROVE  Joined(a, r, joins) \in Seq(AllRoles)
    OBVIOUS
  <2>1. Append(a, r) \in Seq(AllRoles)
    OBVIOUS
  <2> QED  BY <2>1, Zenon DEF Joined
<1>2. /\ "Orchestrator" \in AllRoles /\ "Planner" \in AllRoles /\ "Analyst" \in AllRoles
      /\ "Researcher" \in AllRoles /\ "Executor" \in AllRoles /\ "Reviewer" \in AllRoles
      /\ "Auditor" \in AllRoles /\ "Archivist" \in AllRoles
  BY DEF AllRoles
<1>3. <<"Orchestrator">> \in Seq(AllRoles)
  BY <1>2
<1>4. BaseRoles(t) \in Seq(AllRoles)
  <2>1. PICK a1 : a1 = Joined(<<"Orchestrator">>, "Executor", ~Single(t) \/ Deep(t))
    OBVIOUS
  <2>2. PICK a2 : a2 = Joined(a1, "Planner", t.complexity > 4000)
    OBVIOUS
  <2>3. PICK a3 : a3 = Joined(a2, "Analyst", t.sensitivity \in {"medium", "high"})
    OBVIOUS
  <2>4. PICK a4 : a4 = Joined(a3, "Researcher", Deep(t))
    OBVIOUS
  <2>5. BaseRoles(t) = Joined(a4, "Reviewer", Single(t) /\ NeedsReviewer(t))
    BY <2>1, <2>2, <2>3, <2>4 DEF BaseRoles
  <2>6. a1 \in Seq(AllRoles)
    BY <1>1, <1>2, <1>3, <2>1
  <2>7. a2 \in Seq(AllRoles)
    BY <1>1, <1>2, <2>2, <2>6
  <2>8. a3 \in Seq(AllRoles)
    BY <1>1, <1>2, <2>3, <2>7
  <2>9. a4 \in Seq(AllRoles)
    BY <1>1, <1>2, <2>4, <2>8
  <2> QED  BY <1>1, <1>2, <2>5, <2>9
<1>5. \A base : \A a \in Seq(AllRoles), r \in AllRoles : Tried(a, r, t, base) \in Seq(AllRoles)
  BY <1>1, Zenon DEF Tried
<1>6. Scaled(t, BaseRoles(t)) \in Seq(AllRoles)
  BY <1>2, <1>4, <1>5, Zenon DEF Scaled
<1>7. \A a \in Seq(AllRoles) : WithReviewer(t, a) \in Seq(AllRoles)
  BY <1>1, <1>2, Zenon DEF WithReviewer
<1> QED  BY <1>6, <1>7, Zenon DEF ScheduleRoles, DualVerification

\* The adaptive runtime starts in its invariant.
LEMMA AdaptiveStarts == AdaptiveInit => AdaptiveInv
<1> SUFFICES ASSUME AdaptiveInit PROVE AdaptiveInv
  OBVIOUS
<1>1. mode = "S0" /\ triage = <<>> /\ plan = NoPlan /\ roster = <<>> /\ escalations = <<>>
  BY DEF AdaptiveInit
<1>2. plan.mode = "none" /\ plan.agents = <<>>
  BY <1>1 DEF NoPlan
<1>3. Len(plan.agents) = 0 /\ Len(roster) = 0 /\ DOMAIN escalations = {}
  BY <1>1, <1>2
<1>4. roster \in Seq({}) /\ escalations \in Seq({})
  BY <1>1
<1>5. PlanGood
  BY <1>2 DEF PlanGood
<1>6. mode \in AllModes
  BY <1>1 DEF AllModes
<1> QED  BY <1>1, <1>3, <1>4, <1>5, <1>6 DEF AdaptiveInv

\* A step that leaves mode, triage, plan and escalations alone and does not shorten the
\* roster keeps the invariant.
LEMMA RosterSteps ==
    ASSUME AdaptiveInv, UNCHANGED <<mode, triage, plan, escalations>>,
           NEW S, roster' \in Seq(S), Len(roster) <= Len(roster')
    PROVE  AdaptiveInv'
<1>1. PICK m \in Nat : Len(plan.agents) = m
  BY DEF AdaptiveInv
<1>2. PICK n \in Nat : Len(roster) = n
  BY DEF AdaptiveInv
<1>3. PICK q \in Nat : Len(roster') = q
  OBVIOUS
<1>4. Len(plan'.agents) = m /\ m <= q
  BY <1>1, <1>2, <1>3 DEF AdaptiveInv
<1>5. PlanGood'
  BY DEF PlanGood, AdaptiveInv
<1>6. /\ (mode \in AllModes)'
      /\ (triage # <<>> => TriageGood(triage) /\ mode = triage.mode)'
      /\ (\E Z : escalations \in Seq(Z))'
      /\ (\A i \in DOMAIN escalations : Climbs(escalations[i]))'
  BY DEF AdaptiveInv
<1>7. (\E m_1 \in Nat : Len(plan.agents) = m_1)'
  BY <1>1, <1>4
<1>8. (\E Z : roster \in Seq(Z))'
  OBVIOUS
<1>9. (Len(plan.agents) <= Len(roster))'
  BY <1>3, <1>4
<1> QED  BY <1>5, <1>6, <1>7, <1>8, <1>9 DEF AdaptiveInv

\* A triage keeps the invariant.
LEMMA TriageKeeps ==
    ASSUME AdaptiveInv, NEW tools \in Int, NEW uncertainty \in Int, NEW duration \in Int,
           NEW tokens \in Int, NEW external \in BOOLEAN, NEW reversible \in BOOLEAN,
           NEW sensitivity, NEW level,
           TriageMission(tools, uncertainty, duration, tokens, external, reversible, sensitivity, level)
    PROVE  AdaptiveInv'
<1>1. /\ triage' = TriageResult(tools, uncertainty, duration, tokens, external, reversible,
                                sensitivity, level)
      /\ mode' = triage'.mode /\ UNCHANGED <<plan, roster, escalations>>
  BY DEF TriageMission
<1>2. TriageGood(triage')
  BY <1>1, TriageIsGood
<1>3. mode' \in AllModes
  BY <1>1, <1>2 DEF TriageGood
<1>4. PlanGood'
  BY <1>1 DEF PlanGood, AdaptiveInv
<1> QED  BY <1>1, <1>2, <1>3, <1>4 DEF AdaptiveInv

\* Making a plan keeps the invariant.
LEMMA ScheduleKeeps == ASSUME AdaptiveInv, ScheduleMission PROVE AdaptiveInv'
<1>1. PICK agents : agents = ScheduleRoles(triage)
  OBVIOUS
<1>2. PICK more : more = [i \in DOMAIN agents |-> CreateRole(agents[i])]
  OBVIOUS
<1>3. /\ triage # <<>> /\ plan' = [mode |-> triage.mode, agents |-> agents]
      /\ roster' = roster \o more /\ UNCHANGED <<mode, triage, escalations>>
  BY <1>1, <1>2 DEF ScheduleMission
<1>4. agents \in Seq(AllRoles)
  BY <1>1, ScheduledIsSequence
<1>5. plan'.mode = triage.mode /\ plan'.agents = agents
  BY <1>3
<1>6. PlanGood'
  <2>1. triage.complexity \in Int
    BY <1>3 DEF AdaptiveInv, TriageGood
  <2>2. triage.mode = "S3" => Len(agents) <= 8 /\ ReviewersOf(agents) = 2
    BY <1>1, <2>1, ScheduledS3
  <2> QED  BY <1>5, <2>2 DEF PlanGood
<1>7. PICK n \in Nat : Len(agents) = n /\ DOMAIN agents = 1..n
  BY <1>4
<1>8. PICK S : roster \in Seq(S)
  BY DEF AdaptiveInv
<1>9. PICK T : T = S \cup {more[i] : i \in 1..n}
  OBVIOUS
<1>10. more \in Seq(T) /\ Len(more) = n
  <2>1. more = [i \in 1..n |-> CreateRole(agents[i])]
    BY <1>2, <1>7
  <2>2. \A i \in 1..n : more[i] \in T
    BY <1>9
  <2>3. more = [i \in 1..n |-> more[i]]
    BY <2>1
  <2> QED  BY <2>2, <2>3
<1>11. roster \in Seq(T)
  BY <1>8, <1>9
<1>12. roster' \in Seq(T) /\ Len(roster') = Len(roster) + n /\ Len(roster) \in Nat
  <2>1. roster \o more \in Seq(T) /\ Len(roster \o more) = Len(roster) + Len(more) /\ Len(roster) \in Nat
    BY <1>10, <1>11
  <2> QED  BY <1>3, <1>10, <2>1
<1>13. Len(plan'.agents) <= Len(roster') /\ Len(plan'.agents) = n
  BY <1>5, <1>7, <1>12
<1>14. (mode \in AllModes /\ (triage # <<>> => TriageGood(triage) /\ mode = triage.mode))'
  BY <1>3 DEF AdaptiveInv
<1>15. ((\E Z : escalations \in Seq(Z)) /\ \A i \in DOMAIN escalations : Climbs(escalations[i]))'
  BY <1>3 DEF AdaptiveInv
<1>16. (\E m \in Nat : Len(plan.agents) = m)'
  BY <1>13
<1>17. (\E Z : roster \in Seq(Z))'
  BY <1>12
<1> QED  BY <1>6, <1>13, <1>14, <1>15, <1>16, <1>17 DEF AdaptiveInv

\* A recorded escalation keeps the invariant.
LEMMA EscalationKeeps ==
    ASSUME AdaptiveInv, NEW triggers, CheckEscalation(triggers) PROVE AdaptiveInv'
<1>1. PICK e : e = <<mode, Modes[ModeRank(mode) + 1]>>
  OBVIOUS
<1>2. /\ mode # "S3" /\ escalations' = Append(escalations, e)
      /\ UNCHANGED <<mode, triage, plan, roster>>
  BY <1>1 DEF CheckEscalation, ShouldEscalate
<1>3. Climbs(e)
  BY <1>1, <1>2, Ranks DEF Climbs, AdaptiveInv, AllModes
<1>4. PICK S : escalations \in Seq(S)
  BY DEF AdaptiveInv
<1>5. PICK T : T = S \cup {e}
  OBVIOUS
<1>6. escalations \in Seq(T) /\ e \in T
  BY <1>4, <1>5
<1>7. escalations' \in Seq(T)
  BY <1>2, <1>6
<1>8. \A i \in DOMAIN escalations' : Climbs(escalations'[i])
  <2>1. \A i \in DOMAIN escalations : Climbs(escalations[i])
    BY DEF AdaptiveInv
  <2>2. \A i \in DOMAIN escalations' : (i \in DOMAIN escalations /\ escalations'[i] = escalations[i])
                                         \/ escalations'[i] = e
    BY <1>2, <1>6
  <2> QED  BY <1>3, <2>1, <2>2
<1>9. PlanGood'
  BY <1>2 DEF PlanGood, AdaptiveInv
<1> QED  BY <1>2, <1>7, <1>8, <1>9 DEF AdaptiveInv

\* A change of one agent's record keeps the length of the roster.
LEMMA Updated ==
    ASSUME NEW S, NEW s \in Seq(S), NEW i \in DOMAIN s, NEW x
    PROVE  /\ [s EXCEPT ![i] = x] \in Seq(S \cup {x})
           /\ Len([s EXCEPT ![i] = x]) = Len(s)
<1>1. s \in Seq(S \cup {x})
  OBVIOUS
<1> QED  BY <1>1

\* The lifecycle of the agents keeps the invariant.
LEMMA StatusKeeps == ASSUME AdaptiveInv, NEW i, NEW status, SetStatus(i, status) PROVE AdaptiveInv'
<1>1. PICK S : roster \in Seq(S)
  BY DEF AdaptiveInv
<1>2. PICK x : x = [roster[i] EXCEPT !.status = status]
  OBVIOUS
<1>3. i \in DOMAIN roster /\ roster' = [roster EXCEPT ![i] = x] /\ UNCHANGED <<mode, triage, plan, escalations>>
  BY <1>2 DEF SetStatus
<1>4. roster' \in Seq(S \cup {x}) /\ Len(roster') = Len(roster) /\ Len(roster) \in Nat
  BY <1>1, <1>3, Updated
<1>5. Len(roster) <= Len(roster')
  BY <1>4
<1> QED  BY <1>3, <1>4, <1>5, RosterSteps

\* Merging two agents keeps the invariant.
LEMMA MergeKeeps == ASSUME AdaptiveInv, NEW i, NEW j, MergeRoles(i, j) PROVE AdaptiveInv'
<1>1. PICK S : roster \in Seq(S)
  BY DEF AdaptiveInv
<1>2. PICK x : x = [roster[i] EXCEPT !.caps = @ \cup roster[j].caps]
  OBVIOUS
<1>3. PICK merged : merged = [roster EXCEPT ![i] = x]
  OBVIOUS
<1>4. PICK y : y = [merged[j] EXCEPT !.status = "retired"]
  OBVIOUS
<1>5. /\ i \in DOMAIN roster /\ j \in DOMAIN roster /\ UNCHANGED <<mode, triage, plan, escalations>>
      /\ roster' = [merged EXCEPT ![j] = y]
  BY <1>2, <1>3, <1>4 DEF MergeRoles
<1>6. merged \in Seq(S \cup {x}) /\ Len(merged) = Len(roster) /\ Len(roster) \in Nat
  BY <1>1, <1>3, <1>5, Updated
<1>7. DOMAIN merged = DOMAIN roster
  BY <1>3
<1>8. roster' \in Seq((S \cup {x}) \cup {y}) /\ Len(roster') = Len(merged)
  BY <1>5, <1>6, <1>7, Updated
<1>9. Len(roster) <= Len(roster')
  BY <1>6, <1>8
<1> QED  BY <1>5, <1>8, <1>9, RosterSteps

\* Replacing an agent keeps the invariant.
LEMMA ReplaceKeeps == ASSUME AdaptiveInv, NEW i, NEW r, ReplaceRole(i, r) PROVE AdaptiveInv'
<1>1. PICK S : roster \in Seq(S)
  BY DEF AdaptiveInv
<1>2. PICK x : x = [roster[i] EXCEPT !.status = "retired"]
  OBVIOUS
<1>3. PICK s : s = [roster EXCEPT ![i] = x]
  OBVIOUS
<1>4. PICK y : y = [role |-> r, status |-> "created", caps |-> roster[i].caps]
  OBVIOUS
<1>5. i \in DOMAIN roster /\ roster' = Append(s, y) /\ UNCHANGED <<mode, triage, plan, escalations>>
  BY <1>2, <1>3, <1>4 DEF ReplaceRole
<1>6. s \in Seq(S \cup {x}) /\ Len(s) = Len(roster) /\ Len(roster) \in Nat
  BY <1>1, <1>3, <1>5, Updated
<1>7. PICK T : T = (S \cup {x}) \cup {y}
  OBVIOUS
<1>8. s \in Seq(T) /\ y \in T
  BY <1>6, <1>7
<1>9. roster' \in Seq(T) /\ Len(roster) <= Len(roster')
  BY <1>5, <1>6, <1>8
<1> QED  BY <1>5, <1>9, RosterSteps

\* Releasing all agents keeps the invariant.
LEMMA ReleaseKeeps == ASSUME AdaptiveInv, ReleaseAll PROVE AdaptiveInv'
<1>1. PICK S : roster \in Seq(S)
  BY DEF AdaptiveInv
<1>2. PICK n \in Nat : Len(roster) = n /\ DOMAIN roster = 1..n
  BY <1>1
<1>3. PICK f : f = [i \in 1..n |-> [roster[i] EXCEPT !.status = "retired"]]
  OBVIOUS
<1>4. roster' = f /\ UNCHANGED <<mode, triage, plan, escalations>>
  BY <1>2, <1>3 DEF ReleaseAll
<1>5. PICK T : T = {f[i] : i \in 1..n}
  OBVIOUS
<1>6. f \in Seq(T) /\ Len(f) = n
  <2>1. \A i \in 1..n : f[i] \in T
    BY <1>5
  <2>2. f = [i \in 1..n |-> f[i]]
    BY <1>3
  <2> QED  BY <2>1, <2>2
<1> QED  BY <1>2, <1>4, <1>6, RosterSteps

\* Every step of the adaptive runtime keeps its invariant.
LEMMA AdaptiveSteps == AdaptiveInv /\ [AdaptiveNext]_adaptiveVars => AdaptiveInv'
<1> SUFFICES ASSUME AdaptiveInv, [AdaptiveNext]_adaptiveVars PROVE AdaptiveInv'
  OBVIOUS
<1>0. ASSUME UNCHANGED <<mode, triage, plan, roster, escalations>> PROVE AdaptiveInv'
  BY <1>0 DEF AdaptiveInv, PlanGood
<1>1. ASSUME NEW tools \in {0, 10}, NEW load \in {0, 10}, NEW uncertainty \in {0, 3, 10},
             NEW external \in BOOLEAN, NEW reversible \in BOOLEAN, NEW s, NEW level,
             TriageMission(tools, uncertainty, load, load, external, reversible, s, level)
      PROVE  AdaptiveInv'
  <2>1. tools \in Int /\ load \in Int /\ uncertainty \in Int
    OBVIOUS
  <2> QED  BY <1>1, <2>1, TriageKeeps
<1>2. CASE ScheduleMission
  BY <1>2, ScheduleKeeps
<1>3. ASSUME NEW i, AssignRole(i) \/ PauseRole(i) \/ RetireRole(i) PROVE AdaptiveInv'
  BY <1>3, StatusKeeps DEF AssignRole, PauseRole, RetireRole
<1>4. ASSUME NEW i, NEW j, MergeRoles(i, j) PROVE AdaptiveInv'
  BY <1>4, MergeKeeps
<1>5. ASSUME NEW i, ReplaceRole(i, "Reviewer") PROVE AdaptiveInv'
  BY <1>5, ReplaceKeeps
<1>6. CASE ReleaseAll
  BY <1>6, ReleaseKeeps
<1>7. ASSUME NEW issues, CheckEscalation(issues) PROVE AdaptiveInv'
  BY <1>7, EscalationKeeps
<1>8. ASSUME NEW critical, CompileContext(critical) PROVE AdaptiveInv'
  BY <1>0, <1>8 DEF CompileContext
<1>9. CASE IncreaseDisclosure
  BY <1>0, <1>9 DEF IncreaseDisclosure
<1>10. CASE UNCHANGED adaptiveVars
  BY <1>0, <1>10 DEF adaptiveVars
<1> QED  BY <1>1, <1>2, <1>3, <1>4, <1>5, <1>6, <1>7, <1>8, <1>9, <1>10 DEF AdaptiveNext

\* What executing a recorded escalation adds, its de-escalation takes back.
LEMMA ClimbIsUndone ==
    ASSUME NEW from, NEW to, from \in {"S0", "S1", "S2"},
           from = "S0" => to = "S1", from = "S1" => to = "S2", from = "S2" => to = "S3"
    PROVE  LET up == ExecuteEscalation(from, to).added IN
           /\ ModeRank(to) = ModeRank(from) + 1
           /\ ModeRank(to) >= 3 => "Reviewer" \in up
           /\ to = "S3" <=> "Auditor" \in up
           /\ ShouldDeEscalate(to, {"task_resolved"}) /\ DeEscalated(to) = from
           /\ ExecuteEscalation(to, DeEscalated(to)).removed = up \ {"approval"}
<1>1. CASE from = "S0" /\ to = "S1"
  <2>1. ExecuteEscalation("S0", "S1").added = {} /\ ExecuteEscalation("S1", "S0").removed = {}
    BY Ranks DEF ExecuteEscalation
  <2> QED  BY <1>1, <2>1, Ranks DEF ShouldDeEscalate, DeEscalated
<1>2. CASE from = "S1" /\ to = "S2"
  <2>1. ExecuteEscalation("S1", "S2").added = {"Reviewer"}
        /\ ExecuteEscalation("S2", "S1").removed = {"Reviewer"}
    BY Ranks DEF ExecuteEscalation
  <2> QED  BY <1>2, <2>1, Ranks DEF ShouldDeEscalate, DeEscalated
<1>3. CASE from = "S2" /\ to = "S3"
  <2>1. ExecuteEscalation("S2", "S3").added = {"Reviewer", "Auditor", "verification", "approval"}
        /\ ExecuteEscalation("S3", "S2").removed = {"Auditor", "Reviewer", "verification"}
    BY Ranks DEF ExecuteEscalation
  <2> QED  BY <1>3, <2>1, Ranks DEF ShouldDeEscalate, DeEscalated
<1> QED  BY <1>1, <1>2, <1>3

\* The invariant gives what the runs check.
LEMMA AdaptiveMeans == AdaptiveInv => AdaptiveSound
<1> SUFFICES ASSUME AdaptiveInv PROVE AdaptiveSound
  OBVIOUS
<1>1. triage # <<>> => /\ triage.external => mode = "S3"
                       /\ ~triage.reversible => ModeRank(mode) >= 3
  BY Ranks DEF AdaptiveInv, TriageGood
<1>2. PlanIsGoverned
  BY <1>1 DEF PlanIsGoverned, AdaptiveInv, PlanGood
<1>3. ASSUME NEW i \in DOMAIN escalations
      PROVE  LET from == escalations[i][1]
                 to == escalations[i][2]
                 up == ExecuteEscalation(from, to).added
             IN  /\ ModeRank(to) = ModeRank(from) + 1
                 /\ ModeRank(to) >= 3 => "Reviewer" \in up
                 /\ to = "S3" <=> "Auditor" \in up
                 /\ ShouldDeEscalate(to, {"task_resolved"}) /\ DeEscalated(to) = from
                 /\ ExecuteEscalation(to, DeEscalated(to)).removed = up \ {"approval"}
  <2>1. Climbs(escalations[i])
    BY <1>3 DEF AdaptiveInv
  <2>2. PICK from, to : from = escalations[i][1] /\ to = escalations[i][2]
    OBVIOUS
  <2>3. /\ from \in {"S0", "S1", "S2"} /\ (from = "S0" => to = "S1")
        /\ (from = "S1" => to = "S2") /\ (from = "S2" => to = "S3")
    BY <2>1, <2>2 DEF Climbs
  <2> QED  BY <2>2, <2>3, ClimbIsUndone
<1>4. EscalationsClimb
  BY <1>3 DEF EscalationsClimb, AdaptiveInv
<1> QED  BY <1>2, <1>4 DEF AdaptiveSound

\* The adaptive runtime governs what it plans.
THEOREM AdaptiveTheorem == AdaptiveSpec => []AdaptiveSound
<1> QED  BY AdaptiveStarts, AdaptiveSteps, AdaptiveMeans, PTL DEF AdaptiveSpec

------------------------------------------------------------------------------
(* The memory of the brain. *)

\* What is said of a memory by itself.
Kept(r) ==
    /\ r.conf >= Floor(r.kind) /\ r.start >= Floor(r.kind)
    /\ ~Decays(r.kind) => r.conf >= r.start
    /\ r.status = "archived" => r.kind = "unverified_inference"
    /\ r.bound \/ ~EvidenceNeeded(r.kind)
    /\ r.layer # "working" => r.bound \/ (r.from # 0 /\ ~EvidenceNeeded(r.kind))

\* A memory committed with evidence has its provenance, unless the statement is left ...
Provided(m) == mems[m].from = 0 /\ mems[m].bound => m \in chain \/ m \in torn \/ half = <<"chain", m>>
\* ... and a copy is of an earlier memory, and logged.
Copied(m) ==
    LET r == mems[m]
    IN r.from # 0 => /\ r.from \in Rows /\ r.from < m
                     /\ mems[r.from].text = r.text /\ mems[r.from].kind = r.kind
                     /\ <<r.from, m>> \in consolidations \/ m \in torn \/ half = <<"log", r.from, m>>

\* The inductive invariant of the brain's memory.
BrainMemoryInv ==
    /\ BrainMemoryTypeOK
    /\ \A m \in Rows : Kept(mems[m]) /\ Provided(m) /\ Copied(m)

\* The rows are numbered from one, and each is a memory.
LEMMA RowsAre ==
    ASSUME BrainMemoryTypeOK
    PROVE  Rows = 1..Len(mems) /\ Len(mems) \in Nat /\ \A m \in Rows : mems[m] \in Memories /\ m \in Nat
  BY DEF BrainMemoryTypeOK, Rows

\* A row is appended, and the statement that follows it is about that row.
LEMMA RowAppended ==
    ASSUME BrainMemoryInv, Whole, NEW r \in Memories, Kept(r), mems' = Append(mems, r),
           r.from = 0 /\ r.bound => half' = <<"chain", Len(mems) + 1>>,
           r.from # 0 => /\ r.from \in Rows /\ mems[r.from].text = r.text /\ mems[r.from].kind = r.kind
                         /\ half' = <<"log", r.from, Len(mems) + 1>>,
           half' \in {<<"none">>, <<"chain", Len(mems) + 1>>} \cup {<<"log", s, Len(mems) + 1>> : s \in Rows},
           UNCHANGED <<chain, consolidations, torn, brainOps>>,
           episodes' \in {episodes, episodes \cup {Len(mems) + 1}}
    PROVE  BrainMemoryInv'
<1>1. Rows = 1..Len(mems) /\ Len(mems) \in Nat /\ \A m \in Rows : mems[m] \in Memories /\ m \in Nat
  BY RowsAre DEF BrainMemoryInv
<1>2. /\ mems' \in Seq(Memories) /\ Len(mems') = Len(mems) + 1
      /\ Rows' = 1..(Len(mems) + 1) /\ Rows \subseteq Rows' /\ Len(mems) + 1 \in Rows'
      /\ Rows' = Rows \cup {Len(mems) + 1}
      /\ mems'[Len(mems) + 1] = r /\ \A m \in Rows : mems'[m] = mems[m]
  <2>1. mems \in Seq(Memories)
    BY DEF BrainMemoryInv, BrainMemoryTypeOK
  <2> QED  BY <2>1, <1>1 DEF Rows
<1>3. BrainMemoryTypeOK'
  <2>1. /\ chain' \subseteq Rows' /\ torn' \subseteq Rows' /\ episodes' \subseteq Rows' /\ brainOps' \in Nat
        /\ consolidations' \subseteq Rows' \X Rows'
    BY <1>2 DEF BrainMemoryInv, BrainMemoryTypeOK
  <2>2. half' \in {<<"none">>} \cup {<<"chain", m>> : m \in Rows'} \cup {<<"log", e[1], e[2]>> : e \in Rows' \X Rows'}
    <3>1. CASE half' = <<"none">>
      BY <3>1
    <3>2. CASE half' = <<"chain", Len(mems) + 1>>
      BY <3>2, <1>2
    <3>3. ASSUME NEW s \in Rows, half' = <<"log", s, Len(mems) + 1>>
          PROVE  half' \in {<<"log", e[1], e[2]>> : e \in Rows' \X Rows'}
      <4>1. <<s, Len(mems) + 1>> \in Rows' \X Rows'
        BY <1>2
      <4> QED  BY <4>1, <3>3
    <3> QED  BY <3>1, <3>2, <3>3
  <2> QED  BY <1>2, <2>1, <2>2 DEF BrainMemoryTypeOK
<1>4. ASSUME NEW m \in Rows
      PROVE  Kept(mems'[m]) /\ Provided(m)' /\ Copied(m)'
  <2>1. Kept(mems[m]) /\ Provided(m) /\ Copied(m) /\ mems'[m] = mems[m]
    BY <1>2 DEF BrainMemoryInv
  <2>2. half = <<"none">> /\ chain' = chain /\ torn' = torn /\ consolidations' = consolidations
    BY DEF Whole
  <2>3. Provided(m)'
    BY <2>1, <2>2 DEF Provided
  <2>4. Copied(m)'
    BY <2>1, <2>2, <1>2 DEF Copied
  <2> QED  BY <2>1, <2>3, <2>4
<1>5. ASSUME NEW k \in Rows', k = Len(mems) + 1
      PROVE  Kept(mems'[k]) /\ Provided(k)' /\ Copied(k)'
  <2>1. mems'[k] = r /\ \A m \in Rows : m < k /\ mems'[m] = mems[m] /\ m \in Rows'
    BY <1>1, <1>2, <1>5
  <2>2. Provided(k)'
    BY <2>1, <1>5 DEF Provided
  <2>3. Copied(k)'
    BY <2>1, <1>5 DEF Copied
  <2> QED  BY <2>1, <2>2, <2>3
<1> QED  BY <1>2, <1>3, <1>4, <1>5 DEF BrainMemoryInv

\* The rows change in place, and keep what they are a memory of.
LEMMA RowsChanged ==
    ASSUME BrainMemoryInv, mems' \in Seq(Memories), Len(mems') = Len(mems),
           \A m \in Rows : /\ mems'[m].kind = mems[m].kind /\ mems'[m].text = mems[m].text
                           /\ mems'[m].bound = mems[m].bound /\ mems'[m].from = mems[m].from
                           /\ Kept(mems'[m]),
           brainOps' \in Nat, UNCHANGED <<chain, consolidations, episodes, half, torn>>
    PROVE  BrainMemoryInv'
<1>1. Rows' = Rows
  BY DEF BrainMemoryInv, BrainMemoryTypeOK, Rows
<1>2. BrainMemoryTypeOK'
  BY <1>1 DEF BrainMemoryInv, BrainMemoryTypeOK
<1>3. ASSUME NEW m \in Rows
      PROVE  Kept(mems'[m]) /\ Provided(m)' /\ Copied(m)'
  BY <1>1 DEF BrainMemoryInv, Provided, Copied
<1> QED  BY <1>1, <1>2, <1>3 DEF BrainMemoryInv

\* Of a row that has changed what is kept.
LEMMA KeptStill ==
    ASSUME BrainMemoryInv, NEW m \in Rows, NEW r \in Memories,
           r.kind = mems[m].kind, r.text = mems[m].text, r.bound = mems[m].bound, r.from = mems[m].from,
           r.layer = mems[m].layer, r.start = mems[m].start,
           r.conf >= Floor(r.kind), ~Decays(r.kind) => r.conf >= mems[m].conf,
           r.status = "archived" => mems[m].status = "archived" \/ r.kind = "unverified_inference"
    PROVE  Kept(r)
<1>1. Kept(mems[m]) /\ mems[m] \in Memories
  BY RowsAre DEF BrainMemoryInv
<1>2. \A k : Floor(k) \in Nat
  BY DEF Floor
<1> QED  BY <1>1, <1>2 DEF Kept, Memories

\* A commit keeps the invariant: its provenance is the statement that
\* follows.
LEMMA CommitKeeps ==
    ASSUME BrainMemoryInv, NEW kind \in MemoryKinds, NEW text \in {"t1", "t2"}, NEW bound \in BOOLEAN,
           CommitMemory(kind, text, bound, 20)
    PROVE  BrainMemoryInv'
<1> DEFINE r == [kind |-> kind, layer |-> LayerOf(kind), text |-> text, conf |-> 20, start |-> 20, access |-> 0,
                 bound |-> bound, from |-> 0, status |-> "active", age |-> 0]
<1>1. LayerOf(kind) \in {"working", "episodic", "semantic", "procedural"}
  BY DEF LayerOf
<1>2. r \in Memories
  BY <1>1 DEF Memories
<1>3. Floor(kind) <= 20 /\ (LayerOf(kind) # "working" => EvidenceNeeded(kind))
  BY DEF Floor, LayerOf, EvidenceNeeded
<1>4. Kept(r)
  BY <1>3 DEF CommitMemory, MayCommit, Kept
<1>5. /\ mems' = Append(mems, r) /\ Whole
      /\ half' = IF bound THEN <<"chain", Len(mems) + 1>> ELSE <<"none">>
      /\ episodes' \in {episodes, episodes \cup {Len(mems) + 1}}
      /\ UNCHANGED <<chain, consolidations, torn, brainOps>>
  BY DEF CommitMemory
<1>6. r.from = 0 /\ r.bound = bound
  OBVIOUS
<1> HIDE DEF r
<1> QED  BY <1>2, <1>4, <1>5, <1>6, RowAppended

\* The second statement of a commit or copy keeps the invariant.
LEMMA SecondKeeps ==
    ASSUME BrainMemoryInv, SecondStatement
    PROVE  BrainMemoryInv'
<1>1. /\ ~Whole /\ half' = <<"none">>
      /\ chain' = IF half[1] = "chain" THEN chain \cup {half[2]} ELSE chain
      /\ consolidations' = IF half[1] = "log" THEN consolidations \cup {<<half[2], half[3]>>} ELSE consolidations
      /\ UNCHANGED <<mems, episodes, torn, brainOps>> /\ Rows' = Rows
  BY DEF SecondStatement, Rows
<1>2. CASE \E m \in Rows : half = <<"chain", m>>
  <2>1. PICK m \in Rows : half = <<"chain", m>>
    BY <1>2
  <2>2. half[1] = "chain" /\ half[2] = m
    BY <2>1
  <2>3. chain' = chain \cup {m} /\ consolidations' = consolidations
    BY <1>1, <2>2
  <2>4. BrainMemoryTypeOK'
    BY <1>1, <2>3 DEF BrainMemoryInv, BrainMemoryTypeOK
  <2>5. ASSUME NEW k \in Rows
        PROVE  Kept(mems'[k]) /\ Provided(k)' /\ Copied(k)'
    <3>1. Kept(mems[k]) /\ Provided(k) /\ Copied(k)
      BY DEF BrainMemoryInv
    <3>2. Provided(k)'
      BY <1>1, <2>1, <2>3, <3>1 DEF Provided
    <3>3. \A s : half # <<"log", s, k>>
      BY <2>2
    <3>4. Copied(k)'
      BY <1>1, <2>3, <3>1, <3>3 DEF Copied
    <3> QED  BY <1>1, <3>1, <3>2, <3>4
  <2> QED  BY <1>1, <2>4, <2>5 DEF BrainMemoryInv
<1>3. CASE \E e \in Rows \X Rows : half = <<"log", e[1], e[2]>>
  <2>1. PICK e \in Rows \X Rows : half = <<"log", e[1], e[2]>>
    BY <1>3
  <2>2. half[1] = "log" /\ half[2] = e[1] /\ half[3] = e[2]
    BY <2>1
  <2>3. chain' = chain /\ consolidations' = consolidations \cup {<<e[1], e[2]>>} /\ <<e[1], e[2]>> \in Rows \X Rows
    BY <1>1, <2>2
  <2>4. BrainMemoryTypeOK'
    BY <1>1, <2>3 DEF BrainMemoryInv, BrainMemoryTypeOK
  <2>5. ASSUME NEW k \in Rows
        PROVE  Kept(mems'[k]) /\ Provided(k)' /\ Copied(k)'
    <3>1. Kept(mems[k]) /\ Provided(k) /\ Copied(k)
      BY DEF BrainMemoryInv
    <3>2. half # <<"chain", k>>
      BY <2>2
    <3>3. Provided(k)'
      BY <1>1, <2>3, <3>1, <3>2 DEF Provided
    <3>4. \A s : half = <<"log", s, k>> => s = e[1] /\ k = e[2]
      BY <2>2
    <3>5. Copied(k)'
      BY <1>1, <2>3, <3>1, <3>4 DEF Copied
    <3> QED  BY <1>1, <3>1, <3>3, <3>5
  <2> QED  BY <1>1, <2>4, <2>5 DEF BrainMemoryInv
<1> QED  BY <1>1, <1>2, <1>3 DEF BrainMemoryInv, BrainMemoryTypeOK, Whole

\* A restart keeps the invariant: a statement left out is known as torn.
LEMMA RestartKeeps ==
    ASSUME BrainMemoryInv, BrainRestarts
    PROVE  BrainMemoryInv'
<1>1. /\ half' = <<"none">> /\ episodes' = {} /\ torn' = IF Whole THEN torn ELSE torn \cup {half[Len(half)]}
      /\ UNCHANGED <<mems, chain, consolidations>> /\ Rows' = Rows /\ brainOps' \in Nat
  BY DEF BrainRestarts, Counted, Rows, BrainMemoryInv, BrainMemoryTypeOK
<1>2. torn \subseteq torn' /\ torn' \subseteq Rows
      /\ \A m \in Rows : /\ half = <<"chain", m>> => m \in torn'
                         /\ \A s : half = <<"log", s, m>> => m \in torn'
  <2>1. CASE Whole
    <3>1. \A m \in Rows : half # <<"chain", m>> /\ \A s : half # <<"log", s, m>>
      BY <2>1 DEF Whole
    <3> QED  BY <1>1, <2>1, <3>1 DEF BrainMemoryInv, BrainMemoryTypeOK
  <2>2. CASE \E m \in Rows : half = <<"chain", m>>
    <3>1. PICK m \in Rows : half = <<"chain", m>>
      BY <2>2
    <3>2. half[1] = "chain" /\ Len(half) = 2 /\ half[Len(half)] = m /\ ~Whole
      BY <3>1 DEF Whole
    <3> QED  BY <1>1, <3>1, <3>2 DEF BrainMemoryInv, BrainMemoryTypeOK
  <2>3. CASE \E e \in Rows \X Rows : half = <<"log", e[1], e[2]>>
    <3>1. PICK e \in Rows \X Rows : half = <<"log", e[1], e[2]>>
      BY <2>3
    <3>2. half[1] = "log" /\ Len(half) = 3 /\ half[Len(half)] = e[2] /\ e[2] \in Rows /\ ~Whole
      BY <3>1 DEF Whole
    <3>3. \A s, m : half = <<"log", s, m>> => m = e[2]
      BY <3>1
    <3> QED  BY <1>1, <3>2, <3>3 DEF BrainMemoryInv, BrainMemoryTypeOK
  <2> QED  BY <2>1, <2>2, <2>3 DEF BrainMemoryInv, BrainMemoryTypeOK, Whole
<1>3. BrainMemoryTypeOK'
  BY <1>1, <1>2 DEF BrainMemoryInv, BrainMemoryTypeOK
<1>4. ASSUME NEW m \in Rows
      PROVE  Kept(mems'[m]) /\ Provided(m)' /\ Copied(m)'
  <2>1. Kept(mems[m]) /\ Provided(m) /\ Copied(m)
    BY DEF BrainMemoryInv
  <2>2. Provided(m)'
    BY <1>1, <1>2, <2>1 DEF Provided
  <2>3. Copied(m)'
    BY <1>1, <1>2, <2>1 DEF Copied
  <2> QED  BY <1>1, <2>1, <2>2, <2>3
<1> QED  BY <1>1, <1>3, <1>4 DEF BrainMemoryInv

\* A copy in a higher layer, of a source that needs evidence or was promoted out of
\* the working layer.
LEMMA CopyKeeps ==
    ASSUME BrainMemoryInv, NEW m \in Rows, NEW layer \in {"semantic", "procedural"}, NEW confidence \in 0..20,
           NEW access \in Nat, NEW status \in {"active", mems[m].status},
           Copy(m, layer, confidence, access, status), UNCHANGED brainOps,
           confidence >= Floor(mems[m].kind)
    PROVE  BrainMemoryInv'
<1> DEFINE r == [mems[m] EXCEPT !.layer = layer, !.from = m, !.conf = confidence, !.start = confidence,
                                !.access = access, !.age = 0, !.status = status]
<1>1. mems[m] \in Memories /\ m \in Nat /\ m # 0 /\ Kept(mems[m])
  BY RowsAre DEF BrainMemoryInv
<1>2. status \in {"active", "superseded", "archived"} /\ layer \in {"working", "episodic", "semantic", "procedural"}
  BY <1>1 DEF Memories
<1>3. r \in Memories /\ r.kind = mems[m].kind /\ r.text = mems[m].text /\ r.bound = mems[m].bound /\ r.from = m
      /\ r.conf = confidence /\ r.start = confidence /\ r.layer = layer /\ r.status = status
  <2>1. PICK s : s = mems[m]
    OBVIOUS
  <2>2. PICK c : c = [s EXCEPT !.layer = layer, !.from = m, !.conf = confidence, !.start = confidence,
                               !.access = access, !.age = 0, !.status = status]
    OBVIOUS
  <2>3. c = r
    BY <2>1, <2>2
  <2> HIDE DEF r
  <2>4. s \in Memories
    BY <1>1, <2>1
  <2>5. c \in Memories
    <3>1. PICK r1 : r1 = [s EXCEPT !.layer = layer, !.from = m, !.conf = confidence]
      OBVIOUS
    <3>2. r1 \in Memories
      BY <1>1, <1>2, <2>4, <3>1 DEF Memories
    <3>3. PICK r2 : r2 = [r1 EXCEPT !.start = confidence, !.access = access]
      OBVIOUS
    <3>4. r2 \in Memories
      BY <3>2, <3>3 DEF Memories
    <3>5. PICK r3 : r3 = [r2 EXCEPT !.age = 0]
      OBVIOUS
    <3>6. r3 \in Memories
      BY <3>4, <3>5 DEF Memories
    <3>7. PICK r4 : r4 = [r3 EXCEPT !.status = status]
      OBVIOUS
    <3>8. r4 \in Memories
      BY <1>2, <3>6, <3>7 DEF Memories
    <3>9. c = r4
      BY <2>2, <3>1, <3>3, <3>5, <3>7
    <3> QED  BY <3>8, <3>9
  <2>6. /\ c.kind = s.kind /\ c.text = s.text /\ c.bound = s.bound /\ c.from = m
        /\ c.conf = confidence /\ c.start = confidence /\ c.layer = layer /\ c.status = status
    BY <2>2, <2>4 DEF Memories
  <2> QED  BY <2>1, <2>3, <2>5, <2>6
<1>4. Kept(r)
  BY <1>1, <1>3 DEF Kept, Memories
<1>5. /\ mems' = Append(mems, r) /\ half' = <<"log", m, Len(mems) + 1>> /\ Whole
      /\ UNCHANGED <<chain, consolidations, torn, brainOps>> /\ episodes' = episodes
  BY DEF Copy
<1> HIDE DEF r
<1> QED  BY <1>1, <1>3, <1>4, <1>5, RowAppended

\* A consolidation by hand keeps the invariant.
LEMMA ConsolidateKeeps ==
    ASSUME BrainMemoryInv, NEW m \in Rows, Consolidate(m)
    PROVE  BrainMemoryInv'
<1>1. mems[m] \in Memories /\ Kept(mems[m])
  BY RowsAre DEF BrainMemoryInv
<1>2. PICK c \in {mems[m].conf, mems[m].start} : Copy(m, "semantic", c, mems[m].access, "active") /\ UNCHANGED brainOps
  BY DEF Consolidate
<1>3. c \in 0..20 /\ c >= Floor(mems[m].kind) /\ mems[m].access \in Nat
  BY <1>1 DEF Memories, Kept
<1> QED  BY <1>2, <1>3, CopyKeeps

\* A promotion to long-term memory keeps the invariant.
LEMMA PromoteKeeps ==
    ASSUME BrainMemoryInv, NEW m \in Rows, NEW force \in BOOLEAN, ConsolidateToLtm(m, force)
    PROVE  BrainMemoryInv'
<1>1. mems[m] \in Memories /\ Kept(mems[m])
  BY RowsAre DEF BrainMemoryInv
<1>2. PICK layer : layer = Promoted(m, force)
  OBVIOUS
<1>3. layer \in {"semantic", "procedural"}
  BY <1>2 DEF ConsolidateToLtm, Promoted
<1>4. PICK c : c = MaxOf(mems[m].conf, 18)
  OBVIOUS
<1>5. c \in 0..20 /\ c >= Floor(mems[m].kind)
  <2>1. Floor(mems[m].kind) \in Nat
    BY DEF Floor
  <2> QED  BY <1>1, <1>4, <2>1 DEF MaxOf, Memories, Kept
<1>6. Copy(m, layer, c, 0, mems[m].status) /\ UNCHANGED brainOps
  BY <1>2, <1>4 DEF ConsolidateToLtm
<1> QED  BY <1>3, <1>5, <1>6, CopyKeeps

\* A reinforcement keeps the invariant.
LEMMA ReinforceKeeps ==
    ASSUME BrainMemoryInv, NEW m \in Rows, Reinforce(m)
    PROVE  BrainMemoryInv'
<1>1. Rows = 1..Len(mems) /\ Len(mems) \in Nat /\ mems \in Seq(Memories) /\ \A k \in Rows : mems[k] \in Memories
  BY RowsAre DEF BrainMemoryInv, BrainMemoryTypeOK
<1> DEFINE r == [mems[m] EXCEPT !.access = @ + 1, !.conf = IF Decays(mems[m].kind) /\ @ < 20 THEN @ + 1 ELSE @]
<1>2. /\ r \in Memories /\ r.kind = mems[m].kind /\ r.text = mems[m].text /\ r.bound = mems[m].bound
      /\ r.from = mems[m].from /\ r.layer = mems[m].layer /\ r.start = mems[m].start /\ r.status = mems[m].status
      /\ r.conf >= mems[m].conf
  <2>1. PICK n, c : n = mems[m].access /\ c = mems[m].conf
    OBVIOUS
  <2>2. n \in Nat /\ c \in 0..20 /\ mems[m] \in Memories
    BY <1>1, <2>1 DEF Memories
  <2>3. PICK d : d = IF Decays(mems[m].kind) /\ c < 20 THEN c + 1 ELSE c
    OBVIOUS
  <2>4. d \in 0..20 /\ d >= c /\ n + 1 \in Nat
    BY <2>2, <2>3
  <2>5. r = [mems[m] EXCEPT !.access = n + 1, !.conf = d]
    BY <2>1, <2>2, <2>3 DEF Memories
  <2> HIDE DEF r
  <2>6. r \in Memories
    BY <2>2, <2>4, <2>5 DEF Memories
  <2> QED  BY <2>1, <2>2, <2>4, <2>5, <2>6 DEF Memories
<1>3. Floor(r.kind) \in Nat /\ mems[m].conf >= Floor(r.kind)
  <2>1. Kept(mems[m]) /\ r.kind = mems[m].kind
    BY <1>2 DEF BrainMemoryInv
  <2> QED  BY <2>1 DEF Floor, Kept
<1>4. Kept(r)
  <2>1. r.conf >= Floor(r.kind)
    <3> HIDE DEF r
    <3>1. mems[m] \in Memories
      BY <1>1
    <3>3. mems[m].conf \in Nat
      BY <3>1 DEF Memories
    <3>2. r.conf \in Nat
      BY <1>2 DEF Memories
    <3> QED  BY <1>2, <1>3, <3>2, <3>3
  <2> HIDE DEF r
  <2> QED  BY <1>2, <2>1, KeptStill
<1>5. mems' = [mems EXCEPT ![m] = r] /\ brainOps' \in Nat /\ UNCHANGED <<chain, consolidations, episodes, half, torn>>
  <2>1. brainOps' \in Nat
    BY DEF Reinforce, Counted, BrainMemoryInv, BrainMemoryTypeOK
  <2>2. mems' = [mems EXCEPT ![m].access = @ + 1,
                             ![m].conf = IF Decays(mems[m].kind) /\ @ < 20 THEN @ + 1 ELSE @]
    BY DEF Reinforce
  <2>3. mems' = [mems EXCEPT ![m] = r]
    BY <1>1, <2>2
  <2> QED  BY <2>1, <2>3 DEF Reinforce
<1> HIDE DEF r
<1>6. mems' \in Seq(Memories) /\ Len(mems') = Len(mems) /\ \A k \in Rows : mems'[k] = IF k = m THEN r ELSE mems[k]
  BY <1>1, <1>2, <1>5
<1>7. \A k \in Rows : Kept(mems[k])
  BY DEF BrainMemoryInv
<1> QED  BY <1>2, <1>4, <1>5, <1>6, <1>7, RowsChanged

\* Every row is replaced by one that remembers the same.
LEMMA EveryRowChanged ==
    ASSUME BrainMemoryInv, mems' \in Seq(Memories), Len(mems') = Len(mems),
           \A m \in Rows : /\ mems'[m] \in Memories
                           /\ mems'[m].kind = mems[m].kind /\ mems'[m].text = mems[m].text
                           /\ mems'[m].bound = mems[m].bound /\ mems'[m].from = mems[m].from
                           /\ mems'[m].layer = mems[m].layer /\ mems'[m].start = mems[m].start
                           /\ mems'[m].conf >= Floor(mems[m].kind)
                           /\ ~Decays(mems[m].kind) => mems'[m].conf >= mems[m].conf
                           /\ mems'[m].status = "archived" =>
                                mems[m].status = "archived" \/ mems[m].kind = "unverified_inference",
           brainOps' \in Nat, UNCHANGED <<chain, consolidations, episodes, half, torn>>
    PROVE  BrainMemoryInv'
<1>1. ASSUME NEW k \in Rows PROVE Kept(mems'[k])
  <2>1. PICK r \in Memories : r = mems'[k]
    OBVIOUS
  <2>2. Kept(r)
    BY <2>1, KeptStill
  <2> QED  BY <2>1, <2>2
<1> QED  BY <1>1, RowsChanged

\* The detection of superseded memories keeps the invariant.
LEMMA SupersessionKeeps ==
    ASSUME BrainMemoryInv, NEW text \in {"t1", "t2"}, DetectSupersededBy(text)
    PROVE  BrainMemoryInv'
<1> DEFINE f(m) == IF m \in Active /\ mems[m].text # text THEN [mems[m] EXCEPT !.status = "superseded"] ELSE mems[m]
<1>1. mems' = [m \in Rows |-> f(m)] /\ brainOps' \in Nat /\ UNCHANGED <<chain, consolidations, episodes, half, torn>>
  BY DEF DetectSupersededBy, BrainMemoryInv, BrainMemoryTypeOK
<1>2. ASSUME NEW m \in Rows
      PROVE  /\ f(m) \in Memories
             /\ f(m).kind = mems[m].kind /\ f(m).text = mems[m].text
             /\ f(m).bound = mems[m].bound /\ f(m).from = mems[m].from
             /\ f(m).layer = mems[m].layer /\ f(m).start = mems[m].start
             /\ f(m).conf = mems[m].conf
             /\ f(m).status = "archived" => mems[m].status = "archived"
  <2>1. mems[m] \in Memories
    BY RowsAre DEF BrainMemoryInv
  <2> QED  BY <2>1 DEF Memories
<1>3. \A m \in Rows : mems[m].conf >= Floor(mems[m].kind) /\ mems[m].conf \in Nat
  <2>1. \A m \in Rows : mems[m] \in Memories /\ Kept(mems[m])
    BY RowsAre DEF BrainMemoryInv
  <2> QED  BY <2>1 DEF Kept, Memories
<1> HIDE DEF f
<1>4. mems' \in Seq(Memories) /\ Len(mems') = Len(mems) /\ \A m \in Rows : mems'[m] = f(m)
  <2>1. Rows = 1..Len(mems) /\ Len(mems) \in Nat
    BY RowsAre DEF BrainMemoryInv
  <2> QED  BY <1>1, <1>2, <2>1
<1> QED  BY <1>1, <1>2, <1>3, <1>4, EveryRowChanged

\* Half of a confidence, and half of that.
LEMMA HalvesAreNumbers == \A c \in Nat, a \in 0..2 : c \div (2^a) \in Int
<1>1. \A c \in Nat : c \div (2^0) \in Int /\ c \div (2^1) \in Int /\ c \div (2^2) \in Int
  OBVIOUS
<1> TAKE c \in Nat, a \in 0..2
<1>2. CASE a = 0
  <2>1. c \div (2^a) = c \div (2^0)
    BY <1>2, Zenon
  <2> QED  BY <1>1, <2>1, Zenon
<1>3. CASE a = 1
  <2>1. c \div (2^a) = c \div (2^1)
    BY <1>3, Zenon
  <2> QED  BY <1>1, <2>1, Zenon
<1>4. CASE a = 2
  <2>1. c \div (2^a) = c \div (2^2)
    BY <1>4, Zenon
  <2> QED  BY <1>1, <2>1, Zenon
<1> QED  BY <1>2, <1>3, <1>4

\* A tick of decay keeps the invariant: no confidence falls below its floor.
LEMMA DecayKeeps ==
    ASSUME BrainMemoryInv, DecayTick
    PROVE  BrainMemoryInv'
<1> DEFINE lower(m) == Decayed(mems[m].kind, mems[m].conf, mems[m].age)
           f(m) == IF m \in Active /\ Decays(mems[m].kind) /\ mems[m].age > 0 /\ lower(m) < mems[m].conf
                   THEN [mems[m] EXCEPT !.conf = lower(m)] ELSE mems[m]
<1>1. mems' = [m \in Rows |-> f(m)] /\ brainOps' \in Nat /\ UNCHANGED <<chain, consolidations, episodes, half, torn>>
  BY DEF DecayTick, Counted, BrainMemoryInv, BrainMemoryTypeOK
<1>2. ASSUME NEW m \in Rows
      PROVE  /\ f(m) \in Memories
             /\ f(m).kind = mems[m].kind /\ f(m).text = mems[m].text
             /\ f(m).bound = mems[m].bound /\ f(m).from = mems[m].from
             /\ f(m).layer = mems[m].layer /\ f(m).start = mems[m].start
             /\ f(m).status = mems[m].status
             /\ f(m).conf >= Floor(mems[m].kind)
             /\ ~Decays(mems[m].kind) => f(m).conf >= mems[m].conf
  <2>1. mems[m] \in Memories /\ Floor(mems[m].kind) \in Nat /\ mems[m].conf >= Floor(mems[m].kind)
        /\ mems[m].conf \in 0..20 /\ mems[m].age \in 0..2
    <3>1. mems[m] \in Memories /\ Kept(mems[m])
      BY RowsAre DEF BrainMemoryInv
    <3>2. Floor(mems[m].kind) \in Nat
      BY DEF Floor
    <3> QED  BY <3>1, <3>2 DEF Kept, Memories
  <2>2. PICK h : h = mems[m].conf \div (2^mems[m].age)
    OBVIOUS
  <2>3. h \in Int
    BY <2>1, <2>2, HalvesAreNumbers
  <2>4. PICK l : l = lower(m)
    OBVIOUS
  <2>5. l \in Int /\ l >= Floor(mems[m].kind)
    BY <2>1, <2>2, <2>3, <2>4 DEF Decayed, MaxOf
  <2>6. f(m) = IF m \in Active /\ Decays(mems[m].kind) /\ mems[m].age > 0 /\ l < mems[m].conf
               THEN [mems[m] EXCEPT !.conf = l] ELSE mems[m]
    BY <2>4
  <2> HIDE DEF f
  <2> QED  BY <2>1, <2>5, <2>6 DEF Memories
<1>3. \A m \in Rows : mems[m].status = "archived" => mems[m].kind = "unverified_inference"
  BY DEF BrainMemoryInv, Kept
<1> HIDE DEF f
<1>4. mems' \in Seq(Memories) /\ Len(mems') = Len(mems) /\ \A m \in Rows : mems'[m] = f(m)
  <2>1. Rows = 1..Len(mems) /\ Len(mems) \in Nat
    BY RowsAre DEF BrainMemoryInv
  <2> QED  BY <1>1, <1>2, <2>1
<1> QED  BY <1>1, <1>2, <1>3, <1>4, EveryRowChanged

\* A half-life that passes keeps the invariant.
LEMMA AgeKeeps ==
    ASSUME BrainMemoryInv, HalfLifePasses
    PROVE  BrainMemoryInv'
<1> DEFINE f(m) == IF mems[m].age < 2 THEN [mems[m] EXCEPT !.age = @ + 1] ELSE mems[m]
<1>1. mems' = [m \in Rows |-> f(m)] /\ brainOps' \in Nat /\ UNCHANGED <<chain, consolidations, episodes, half, torn>>
  BY DEF HalfLifePasses, BrainMemoryInv, BrainMemoryTypeOK
<1>2. ASSUME NEW m \in Rows
      PROVE  /\ f(m) \in Memories
             /\ f(m).kind = mems[m].kind /\ f(m).text = mems[m].text
             /\ f(m).bound = mems[m].bound /\ f(m).from = mems[m].from
             /\ f(m).layer = mems[m].layer /\ f(m).start = mems[m].start
             /\ f(m).conf = mems[m].conf /\ f(m).status = mems[m].status
  <2>1. mems[m] \in Memories
    BY RowsAre DEF BrainMemoryInv
  <2> QED  BY <2>1 DEF Memories
<1>3. \A m \in Rows : mems[m].conf >= Floor(mems[m].kind) /\ mems[m].conf \in Nat
  <2>1. \A m \in Rows : mems[m] \in Memories /\ Kept(mems[m])
    BY RowsAre DEF BrainMemoryInv
  <2> QED  BY <2>1 DEF Kept, Memories
<1> HIDE DEF f
<1>4. mems' \in Seq(Memories) /\ Len(mems') = Len(mems) /\ \A m \in Rows : mems'[m] = f(m)
  <2>1. Rows = 1..Len(mems) /\ Len(mems) \in Nat
    BY RowsAre DEF BrainMemoryInv
  <2> QED  BY <1>1, <1>2, <2>1
<1> QED  BY <1>1, <1>2, <1>3, <1>4, EveryRowChanged

\* Below the limit of the collection is no floor but that of an inference.
LEMMA CollectKeeps ==
    ASSUME BrainMemoryInv, GarbageCollect
    PROVE  BrainMemoryInv'
<1> DEFINE f(m) == IF m \in Collectable THEN [mems[m] EXCEPT !.status = "archived"] ELSE mems[m]
<1>1. mems' = [m \in Rows |-> f(m)] /\ brainOps' \in Nat /\ UNCHANGED <<chain, consolidations, episodes, half, torn>>
  BY DEF GarbageCollect, BrainMemoryInv, BrainMemoryTypeOK
<1>2. \A m \in Rows : mems[m].conf >= Floor(mems[m].kind) /\ mems[m].conf \in Nat
  <2>1. \A m \in Rows : mems[m] \in Memories /\ Kept(mems[m])
    BY RowsAre DEF BrainMemoryInv
  <2> QED  BY <2>1 DEF Kept, Memories
<1>3. ASSUME NEW m \in Rows
      PROVE  /\ f(m) \in Memories
             /\ f(m).kind = mems[m].kind /\ f(m).text = mems[m].text
             /\ f(m).bound = mems[m].bound /\ f(m).from = mems[m].from
             /\ f(m).layer = mems[m].layer /\ f(m).start = mems[m].start
             /\ f(m).conf = mems[m].conf
             /\ f(m).status = "archived" => mems[m].status = "archived" \/ mems[m].kind = "unverified_inference"
  <2>1. mems[m] \in Memories
    BY RowsAre DEF BrainMemoryInv
  <2>2. m \in Collectable => mems[m].kind = "unverified_inference"
    BY <1>2 DEF Collectable, Decays, Floor
  <2> QED  BY <2>1, <2>2 DEF Memories
<1> HIDE DEF f
<1>4. mems' \in Seq(Memories) /\ Len(mems') = Len(mems) /\ \A m \in Rows : mems'[m] = f(m)
  <2>1. Rows = 1..Len(mems) /\ Len(mems) \in Nat
    BY RowsAre DEF BrainMemoryInv
  <2> QED  BY <1>1, <1>3, <2>1
<1> QED  BY <1>1, <1>2, <1>3, <1>4, EveryRowChanged

\* Every step of the memory keeps its invariant.
LEMMA BrainMemoryStep == BrainMemoryInv /\ [BrainMemoryNext]_brainVars => BrainMemoryInv'
<1> SUFFICES ASSUME BrainMemoryInv, [BrainMemoryNext]_brainVars
             PROVE  BrainMemoryInv'
  OBVIOUS
<1>1. CASE UNCHANGED brainVars
  BY <1>1 DEF brainVars, BrainMemoryInv, BrainMemoryTypeOK, Rows, Provided, Copied
<1>2. CASE BrainMemoryNext
  BY <1>2, CommitKeeps, SecondKeeps, RestartKeeps, ConsolidateKeeps, PromoteKeeps, ReinforceKeeps,
     SupersessionKeeps, DecayKeeps, AgeKeeps, CollectKeeps DEF BrainMemoryNext
<1> QED  BY <1>1, <1>2

\* The memory starts in its invariant.
LEMMA BrainMemoryStarts == BrainMemoryInit => BrainMemoryInv
  BY DEF BrainMemoryInit, BrainMemoryInv, BrainMemoryTypeOK, Rows

\* The invariant implies what the run checks.
LEMMA BrainMemoryEnough == BrainMemoryInv => BrainMemorySound
<1> SUFFICES ASSUME BrainMemoryInv PROVE BrainMemorySound
  OBVIOUS
<1>1. \A m \in Rows : mems[m] \in Memories /\ Kept(mems[m]) /\ Provided(m) /\ Copied(m)
  BY RowsAre DEF BrainMemoryInv
<1>2. ConfidenceHasFloor
  BY <1>1 DEF ConfidenceHasFloor, Kept, Memories
<1>3. OriginIsTraceable
  BY <1>1 DEF OriginIsTraceable, Kept, Provided, Copied
<1> QED  BY <1>2, <1>3 DEF BrainMemorySound

\* No memory falls below the floor of its kind, collection archives inferences only,
\* and every memory can be traced to its evidence or its source but for a crash
\* (brain/memory_controller.py, brain/long_term_memory.py).
THEOREM BrainMemoryTheorem == BrainMemorySpec => []BrainMemorySound
  BY BrainMemoryStarts, BrainMemoryStep, BrainMemoryEnough, PTL DEF BrainMemorySpec

------------------------------------------------------------------------------
(* The soul. *)

\* What a soul has taken to heart or strengthened it has learned.
WholeSoul(s) == s.lessons \subseteq s.learned /\ s.strengthened \subseteq s.learned

\* Each learned trait has an origin, and a snapshot is a whole soul.
SoulInv ==
    /\ SoulTypeOK
    /\ CharacterIsEarned
    /\ wasRestored => saved # <<>>
    /\ saved # <<>> => WholeSoul(saved[1].soul)

\* Of two options of which one has fewer, the other has not.
LEMMA FewerIsAsymmetric ==
    \A a, b \in Counts : ~(FewerThan(a, b) /\ FewerThan(b, a)) /\ ~FewerThan(a, a)
<1> SUFFICES ASSUME NEW a \in Counts, NEW b \in Counts
             PROVE  ~(FewerThan(a, b) /\ FewerThan(b, a)) /\ ~FewerThan(a, a)
  OBVIOUS
<1>1. \A v \in MoralValues : v \in Nat /\ a[v] \in Nat /\ b[v] \in Nat
  BY MoralAssumption DEF Counts
<1>2. ~FewerThan(a, a)
  BY <1>1 DEF FewerThan
<1>3. ASSUME FewerThan(a, b), FewerThan(b, a) PROVE FALSE
  <2>1. PICK v \in MoralValues : a[v] < b[v] /\ \A w \in MoralValues : w < v => a[w] = b[w]
    BY <1>3 DEF FewerThan
  <2>2. PICK u \in MoralValues : b[u] < a[u] /\ \A w \in MoralValues : w < u => b[w] = a[w]
    BY <1>3 DEF FewerThan
  <2>3. v < u \/ u < v \/ u = v
    BY <1>1
  <2> QED  BY <1>1, <2>1, <2>2, <2>3
<1> QED  BY <1>2, <1>3

\* Of two options one is selected, and the other does not have more.
LEMMA OneIsSelected ==
    ASSUME NEW a \in Counts, NEW b \in Counts
    PROVE  /\ Selected(<<a, b>>) \in {1, 2}
           /\ \A p \in {1, 2} : ~FewerThan(<<a, b>>[Selected(<<a, b>>)], <<a, b>>[p])
<1> DEFINE options == <<a, b>>
<1>1. DOMAIN options = {1, 2} /\ options[1] = a /\ options[2] = b
  OBVIOUS
<1>2. ~(FewerThan(a, b) /\ FewerThan(b, a)) /\ ~FewerThan(a, a) /\ ~FewerThan(b, b)
  BY FewerIsAsymmetric
<1> HIDE DEF options
<1>3. Selectable(options) \subseteq {1, 2} /\ (1 \in Selectable(options) \/ 2 \in Selectable(options))
  BY <1>1, <1>2 DEF Selectable
<1>4. \E o \in Selectable(options) : \A p \in Selectable(options) : o <= p
  BY <1>3
<1>5. Selected(options) \in Selectable(options)
  BY <1>4 DEF Selected
<1>6. Selected(options) \in {1, 2} /\ \A p \in {1, 2} : ~FewerThan(options[Selected(options)], options[p])
  BY <1>1, <1>5 DEF Selectable
<1> QED  BY <1>6 DEF options

\* What is decided names the highest value that an option names.
LEMMA DecisionsHold == DecisionsFollowOrder
<1> SUFFICES ASSUME NEW a \in Counts, NEW b \in Counts, NEW v \in MoralValues, a[v] > 0 \/ b[v] > 0,
                    \A w \in MoralValues : a[w] > 0 \/ b[w] > 0 => v <= w
             PROVE  <<a, b>>[Selected(<<a, b>>)][v] > 0
  BY DEF DecisionsFollowOrder
<1>1. PICK s \in {1, 2} : s = Selected(<<a, b>>)
  BY OneIsSelected
<1>2. \A p \in {1, 2} : ~FewerThan(<<a, b>>[s], <<a, b>>[p])
  BY <1>1, OneIsSelected
<1>3. \A w \in MoralValues : w \in Nat /\ a[w] \in 0..1 /\ b[w] \in 0..1
  BY MoralAssumption DEF Counts
<1>4. \A w \in MoralValues : w < v => a[w] = 0 /\ b[w] = 0
  BY <1>3
<1>5. CASE s = 1
  <2>1. ~FewerThan(a, b)
    BY <1>2, <1>5
  <2>2. ~(a[v] < b[v])
    BY <1>4, <2>1 DEF FewerThan
  <2> QED  BY <1>1, <1>3, <1>5, <2>2
<1>6. CASE s = 2
  <2>1. ~FewerThan(b, a)
    BY <1>2, <1>6
  <2>2. ~(b[v] < a[v])
    BY <1>4, <2>1 DEF FewerThan
  <2> QED  BY <1>1, <1>3, <1>6, <2>2
<1> QED  BY <1>5, <1>6

\* To proceed is what is left when no reason against it is found.
LEMMA ProceedingIsSafe == ProceedsOnlyWhenSafe
<1> SUFFICES ASSUME NEW refs \in SUBSET EvidenceRefs, NEW up \in BOOLEAN, NEW authorized \in BOOLEAN,
                    NEW unsure \in BOOLEAN, NEW destructive \in BOOLEAN, NEW risk \in {"R1", "R3", "R4"},
                    Disposition(refs, up, authorized, risk, unsure, destructive, "no") = "proceed"
             PROVE  /\ authorized /\ ~unsure /\ refs # {} /\ risk # "R4" /\ ~(destructive /\ risk = "R3")
                    /\ \A r \in refs : proof[r] = "good"
  BY DEF ProceedsOnlyWhenSafe
<1> DEFINE grave == risk = "R4" \/ (destructive /\ risk = "R3")
<1>1. ~(refs = {} \/ ~authorized)
  BY DEF Disposition
<1>2. ~grave
  BY <1>1 DEF Disposition
<1>3. ~unsure
  BY <1>1, <1>2 DEF Disposition
<1>4. Verified(refs, up)
  BY <1>1, <1>2, <1>3 DEF Disposition
<1> QED  BY <1>1, <1>2, <1>3, <1>4 DEF Verified

\* An audit that grows keeps what it shows.
LEMMA AuditGrows ==
    ASSUME soulAudit \in Seq(AuditEntries), NEW e \in AuditEntries, soulAudit' = Append(soulAudit, e)
    PROVE  /\ soulAudit' \in Seq(AuditEntries)
           /\ \A t : LearnedByOwner(t, soulAudit) => LearnedByOwner(t, soulAudit')
           /\ /\ e.type \in {"character_change_approved", "experience_integrated"}
              /\ e.refs # {} /\ e.actor = "owner"
              => LearnedByOwner(e.detail, soulAudit')
<1>1. /\ soulAudit' \in Seq(AuditEntries) /\ \A i \in DOMAIN soulAudit : i \in DOMAIN soulAudit' /\ soulAudit'[i] = soulAudit[i]
      /\ Len(soulAudit) + 1 \in DOMAIN soulAudit' /\ soulAudit'[Len(soulAudit) + 1] = e
  OBVIOUS
<1> QED  BY <1>1 DEF LearnedByOwner

\* A soul that changes but in what it has learned keeps the invariant.
LEMMA SoulChanges ==
    ASSUME SoulInv, soul' \in Souls, soul'.learned = soul.learned, soul'.lessons = soul.lessons,
           soul'.strengthened = soul.strengthened, soulOps' \in Nat,
           soulAudit' = soulAudit \/ \E e \in AuditEntries : soulAudit' = Append(soulAudit, e),
           UNCHANGED <<proof, constitution, approval, saved, wasRestored>>
    PROVE  SoulInv'
<1>1. soulAudit' \in Seq(AuditEntries) /\ \A t : LearnedByOwner(t, soulAudit) => LearnedByOwner(t, soulAudit')
  BY AuditGrows DEF SoulInv, SoulTypeOK
<1>2. SoulTypeOK'
  BY <1>1 DEF SoulInv, SoulTypeOK
<1>3. CharacterIsEarned'
  BY <1>1 DEF SoulInv, CharacterIsEarned
<1> QED  BY <1>2, <1>3 DEF SoulInv

\* An acknowledged limitation keeps the invariant of the soul.
LEMMA AcknowledgeKeeps ==
    ASSUME SoulInv, NEW t \in Traits, NEW refs \in SUBSET EvidenceRefs, NEW up \in BOOLEAN,
           AcknowledgeLimitation(t, refs, up)
    PROVE  SoulInv'
<1>1. soul \in Souls /\ soulOps' \in Nat
  BY DEF SoulInv, SoulTypeOK, AcknowledgeLimitation, SoulOp
<1>2. PICK l : l = soul.limits \cup {t}
  OBVIOUS
<1>3. soul' = [soul EXCEPT !.limits = l, !.expression = "uncertain"] /\ l \in SUBSET Traits
  BY <1>1, <1>2 DEF AcknowledgeLimitation, Souls
<1>4. soul' \in Souls /\ soul'.learned = soul.learned /\ soul'.lessons = soul.lessons /\ soul'.strengthened = soul.strengthened
  BY <1>1, <1>3 DEF Souls
<1>5. PICK e : e = [type |-> "limitation_acknowledged", detail |-> t, refs |-> refs, actor |-> "runtime"]
  OBVIOUS
<1>6. e \in AuditEntries /\ soulAudit' = Append(soulAudit, e)
  BY <1>5 DEF AcknowledgeLimitation, Audited, AuditEntries
<1> QED  BY <1>1, <1>4, <1>6, SoulChanges DEF AcknowledgeLimitation

\* Learned character, applied by the owner or the runtime, keeps the
\* invariant.
LEMMA ApplyKeeps ==
    ASSUME SoulInv, NEW t \in Traits, NEW refs \in SUBSET EvidenceRefs, NEW up \in BOOLEAN,
           NEW who \in {"owner", "runtime"}, ApplyLearnedCharacter(t, refs, up, who)
    PROVE  SoulInv'
<1>1. soul \in Souls /\ soulOps' \in Nat /\ refs # {} /\ who = "owner"
  BY DEF SoulInv, SoulTypeOK, ApplyLearnedCharacter, SoulOp, Verified, ByOwner
<1>2. PICK l, k : l = soul.learned \cup {t} /\ k = soul.strengthened \cup {t}
  OBVIOUS
<1>3. soul' = [soul EXCEPT !.learned = l, !.strengthened = k] /\ l \in SUBSET Traits /\ k \in SUBSET Traits
  BY <1>1, <1>2 DEF ApplyLearnedCharacter, Souls
<1>4. soul' \in Souls /\ soul'.learned = l /\ soul'.lessons = soul.lessons /\ soul'.strengthened = k
  BY <1>1, <1>3 DEF Souls
<1>5. PICK e : e = [type |-> "character_change_approved", detail |-> t, refs |-> refs, actor |-> who]
  OBVIOUS
<1>6. e \in AuditEntries /\ soulAudit' = Append(soulAudit, e) /\ e.detail = t /\ e.refs # {} /\ e.actor = "owner"
      /\ e.type = "character_change_approved"
  BY <1>1, <1>5 DEF ApplyLearnedCharacter, Audited, AuditEntries
<1>7. /\ soulAudit' \in Seq(AuditEntries) /\ LearnedByOwner(t, soulAudit')
      /\ \A u : LearnedByOwner(u, soulAudit) => LearnedByOwner(u, soulAudit')
  BY <1>6, AuditGrows DEF SoulInv, SoulTypeOK
<1>8. UNCHANGED <<proof, constitution, approval, saved, wasRestored>>
  BY DEF ApplyLearnedCharacter
<1>9. SoulTypeOK'
  BY <1>1, <1>4, <1>7, <1>8 DEF SoulInv, SoulTypeOK
<1>10. CharacterIsEarned'
  BY <1>2, <1>4, <1>7, <1>8 DEF SoulInv, CharacterIsEarned
<1> QED  BY <1>8, <1>9, <1>10 DEF SoulInv

\* Expressions and organs keep the invariant.
LEMMA ExpressKeeps ==
    ASSUME SoulInv,
           (\E e \in {"error", "blocked"} : SetExpression(e)) \/ SetCognitiveOrgan("model")
    PROVE  SoulInv'
<1>1. soul \in Souls /\ soulOps' \in Nat /\ UNCHANGED <<proof, constitution, soulAudit, approval, saved, wasRestored>>
  BY DEF SoulInv, SoulTypeOK, SetExpression, SetCognitiveOrgan, SoulOp
<1>2. (\E e \in {"error", "blocked"} : soul' = [soul EXCEPT !.expression = e]) \/ soul' = [soul EXCEPT !.organ = "model"]
  BY DEF SetExpression, SetCognitiveOrgan
<1>3. soul' \in Souls /\ soul'.learned = soul.learned /\ soul'.lessons = soul.lessons /\ soul'.strengthened = soul.strengthened
  BY <1>1, <1>2 DEF Souls
<1> QED  BY <1>1, <1>3, SoulChanges

\* The decision between two options, and the assessment of restraint.
LEMMA AssessKeeps ==
    ASSUME SoulInv, NEW refs \in SUBSET EvidenceRefs, NEW up \in BOOLEAN, NEW authorized \in BOOLEAN,
           NEW risk \in {"R1", "R4"},
           \/ DecideConflict(<<[v \in MoralValues |-> 1], [v \in MoralValues |-> 0]>>, refs, up, risk, authorized)
           \/ AssessRestraint(refs, up, authorized, risk, FALSE, FALSE, "no")
    PROVE  SoulInv'
<1>1. soul \in Souls /\ soulOps' \in Nat /\ UNCHANGED <<proof, constitution, approval, saved, wasRestored>>
  <2>1. soul \in Souls /\ soulOps \in Nat
    BY DEF SoulInv, SoulTypeOK
  <2>2. soulOps' = soulOps + 1 /\ UNCHANGED <<proof, constitution, approval, saved, wasRestored>>
    BY DEF DecideConflict, AssessRestraint, SoulOp
  <2> QED  BY <2>1, <2>2
<1>2. PICK x : soul' = [soul EXCEPT !.expression = x] /\ x \in {"neutral", "waiting", "confirmed"}
  BY DEF DecideConflict, AssessRestraint
<1>3. soul' \in Souls /\ soul'.learned = soul.learned /\ soul'.lessons = soul.lessons /\ soul'.strengthened = soul.strengthened
  BY <1>1, <1>2 DEF Souls
<1>4. PICK actor \in {"owner", "runtime"} : actor = IF authorized THEN "owner" ELSE "runtime"
  OBVIOUS
<1>5. CASE DecideConflict(<<[v \in MoralValues |-> 1], [v \in MoralValues |-> 0]>>, refs, up, risk, authorized)
  <2>1. [v \in MoralValues |-> 1] \in Counts /\ [v \in MoralValues |-> 0] \in Counts
    BY DEF Counts
  <2>2. PICK s \in {1, 2} : s = Selected(<<[v \in MoralValues |-> 1], [v \in MoralValues |-> 0]>>)
    BY <2>1, OneIsSelected
  <2>3. soulAudit' = Append(soulAudit, [type |-> "constitutional_decision", detail |-> s, refs |-> refs, actor |-> actor])
    BY <1>4, <1>5, <2>2 DEF DecideConflict, Audited
  <2>4. [type |-> "constitutional_decision", detail |-> s, refs |-> refs, actor |-> actor] \in AuditEntries
    BY DEF AuditEntries
  <2> QED  BY <1>1, <1>3, <2>3, <2>4, SoulChanges
<1>6. CASE AssessRestraint(refs, up, authorized, risk, FALSE, FALSE, "no")
  <2>1. PICK d : d = Disposition(refs, up, authorized, risk, FALSE, FALSE, "no")
    OBVIOUS
  <2>2. d \in {"ask", "escalate", "pause", "proceed"}
    BY <2>1 DEF Disposition
  <2>3. soulAudit' = Append(soulAudit, [type |-> "restraint_assessment", detail |-> d, refs |-> refs, actor |-> actor])
    BY <1>4, <1>6, <2>1 DEF AssessRestraint, Audited
  <2>4. [type |-> "restraint_assessment", detail |-> d, refs |-> refs, actor |-> actor] \in AuditEntries
    BY <2>2 DEF AuditEntries
  <2> QED  BY <1>1, <1>3, <2>3, <2>4, SoulChanges
<1> QED  BY <1>5, <1>6

\* A snapshot keeps the invariant: it is of a whole soul.
LEMMA SavesKeeps ==
    ASSUME SoulInv, SoulSaves
    PROVE  SoulInv'
<1>1. PICK k : k = [soul |-> soul, audit |-> soulAudit]
  OBVIOUS
<1>2. k \in [soul : Souls, audit : Seq(AuditEntries)] /\ k.soul = soul
  BY <1>1 DEF SoulInv, SoulTypeOK
<1>3. saved' = <<k>> /\ saved'[1] = k /\ saved' # <<>>
  BY <1>1 DEF SoulSaves
<1>4. UNCHANGED <<proof, constitution, soul, soulAudit, approval, soulOps, wasRestored>>
  BY DEF SoulSaves
<1>5. SoulTypeOK'
  BY <1>2, <1>3, <1>4 DEF SoulInv, SoulTypeOK
<1>6. CharacterIsEarned'
  BY <1>2, <1>3, <1>4 DEF SoulInv, CharacterIsEarned
<1> QED  BY <1>2, <1>3, <1>4, <1>5, <1>6 DEF SoulInv, WholeSoul, CharacterIsEarned

\* A restart keeps the invariant: the snapshot it loads is whole.
LEMMA SoulRestartKeeps ==
    ASSUME SoulInv, SoulRestarts
    PROVE  SoulInv'
<1>1. PICK k \in [soul : Souls, audit : Seq(AuditEntries)] : saved = <<k>>
  BY DEF SoulInv, SoulTypeOK, SoulRestarts
<1>2. saved[1] = k /\ k.soul \in Souls /\ WholeSoul(k.soul)
  BY <1>1 DEF SoulInv
<1>3. soul' = [k.soul EXCEPT !.organ = "unassigned"]
  BY <1>2 DEF SoulRestarts, RestoredSoul
<1>4. soul' \in Souls /\ soul'.learned = k.soul.learned /\ WholeSoul(soul')
  BY <1>2, <1>3 DEF Souls, WholeSoul
<1>5. soulAudit' = <<>> /\ constitution' = "default" /\ wasRestored' = TRUE /\ UNCHANGED <<proof, approval, saved, soulOps>>
  BY DEF SoulRestarts
<1>6. <<>> \in Seq(AuditEntries)
  OBVIOUS
<1>7. SoulTypeOK'
  BY <1>4, <1>5, <1>6 DEF SoulInv, SoulTypeOK
<1>8. CharacterIsEarned'
  BY <1>2, <1>4, <1>5 DEF CharacterIsEarned, WholeSoul
<1> QED  BY <1>1, <1>2, <1>5, <1>7, <1>8 DEF SoulInv, SoulRestarts

\* No experience is integrated: consuming the approval is refused.
LEMMA ExperienceKeeps ==
    ASSUME SoulInv, NEW t \in Traits, NEW refs \in SUBSET EvidenceRefs, NEW up \in BOOLEAN,
           RecordExperience(t, refs, up)
    PROVE  SoulInv'
<1>1. ~OwnerApprovalVerified
  BY DEF OwnerApprovalVerified, ConsumptionAccepted
<1>2. UNCHANGED <<soul, soulAudit, approval, proof, constitution, saved, wasRestored>> /\ soulOps' \in Nat
  BY <1>1 DEF RecordExperience, SoulOp, SoulInv, SoulTypeOK
<1> QED  BY <1>2, SoulChanges DEF SoulInv, SoulTypeOK

\* Evidence that changes, and approvals of the owner, keep the invariant.
LEMMA EvidenceKeeps ==
    ASSUME SoulInv,
           \/ \E r \in EvidenceRefs, to \in {"good", "bad"} : EvidenceChanges(r, to)
           \/ \E scoped \in BOOLEAN : OwnerApproves(scoped)
    PROVE  SoulInv'
<1>1. UNCHANGED <<constitution, soul, soulAudit, saved, soulOps, wasRestored>>
  BY DEF EvidenceChanges, OwnerApproves
<1>2. proof' \in [EvidenceRefs -> {"good", "bad", "missing"}]
  BY DEF EvidenceChanges, OwnerApproves, SoulInv, SoulTypeOK
<1>3. approval' \in [status : {"none", "approved"}, scoped : BOOLEAN, consumed : BOOLEAN]
  BY DEF EvidenceChanges, OwnerApproves, SoulInv, SoulTypeOK
<1>4. SoulTypeOK'
  BY <1>1, <1>2, <1>3 DEF SoulInv, SoulTypeOK
<1> QED  BY <1>1, <1>4 DEF SoulInv, CharacterIsEarned

\* Every step of the soul keeps its invariant.
LEMMA SoulStep == SoulInv /\ [SoulNext]_soulVars => SoulInv'
<1> SUFFICES ASSUME SoulInv, [SoulNext]_soulVars
             PROVE  SoulInv'
  OBVIOUS
<1>1. CASE UNCHANGED soulVars
  BY <1>1 DEF soulVars, SoulInv, SoulTypeOK, CharacterIsEarned
<1>2. CASE SoulNext
  BY <1>2, EvidenceKeeps, ExperienceKeeps, AcknowledgeKeeps, ApplyKeeps, ExpressKeeps, AssessKeeps, SavesKeeps,
     SoulRestartKeeps DEF SoulNext
<1> QED  BY <1>1, <1>2

\* The soul starts in its invariant.
LEMMA SoulStarts == SoulInit => SoulInv
<1> SUFFICES ASSUME SoulInit PROVE SoulInv
  OBVIOUS
<1>1. soul \in Souls /\ soul.learned = {} /\ soul.lessons = {} /\ soul.strengthened = {}
  BY DEF SoulInit, NewSoul, Souls
<1>2. <<>> \in Seq(AuditEntries)
  OBVIOUS
<1>3. SoulTypeOK
  BY <1>1, <1>2 DEF SoulInit, SoulTypeOK
<1> QED  BY <1>1, <1>3 DEF SoulInit, SoulInv, CharacterIsEarned

\* A trait is learned by the owner's name with evidence, or restored; a decision names
\* the highest value, and the kernel proceeds only when nothing speaks against it
\* (soul.py).
THEOREM SoulTheorem == SoulSpec => []SoulSound
<1>1. SoulInv => SoulSound
  BY DecisionsHold, ProceedingIsSafe DEF SoulInv, SoulSound
<1> QED  BY <1>1, SoulStarts, SoulStep, PTL DEF SoulSpec

------------------------------------------------------------------------------
(* The intelligence of a mission. *)

\* The mission types whose profile is managed.
Managed == {"DEPLOY", "REFACTOR", "RECOVERY", "UNKNOWN"}

\* Every assessment on record of a managed type asks for approval.
IntelInv ==
    /\ IntelligenceSound
    /\ \A k \in DOMAIN assessed : k[1] \in Managed => NeedsApproval(assessed[k].level)

\* A managed type reaches R2 with the best history and no constraint.
LEMMA ManagedScore ==
    ASSUME NEW type \in Managed, NEW on, NEW t
    PROVE  NeedsApproval(Assessment(type, on, t).level)
<1>1. PICK c : c = ConstraintScore(on)
  OBVIOUS
<1>2. c \in Nat
  BY <1>1 DEF ConstraintScore, Weight
<1>3. PICK h : h = TrendScore(t)
  OBVIOUS
<1>4. h \in Int /\ h >= -5
  BY <1>3 DEF TrendScore
<1>5. PICK s : s = Score(type, on, t)
  OBVIOUS
<1>6. s = Clamp(BaseScore(type) + (IF TaskCount(type) <= 3 THEN -5 ELSE 0) + c + h)
  BY <1>1, <1>3, <1>5 DEF Score
<1>7. /\ type = "DEPLOY" => BaseScore(type) = 70 /\ TaskCount(type) = 4
      /\ type = "REFACTOR" => BaseScore(type) = 40 /\ TaskCount(type) = 4
      /\ type = "RECOVERY" => BaseScore(type) = 45 /\ TaskCount(type) = 3
      /\ type = "UNKNOWN" => BaseScore(type) = 50 /\ TaskCount(type) = 3
  BY DEF BaseScore, TaskCount
<1>8. s \in Int /\ s >= 35 /\ (type \in {"DEPLOY", "UNKNOWN"} => s >= 40)
  BY <1>2, <1>4, <1>6, <1>7 DEF Clamp, Managed
<1>9. type \notin {"DEPLOY", "UNKNOWN"} => ~FallsShort(type, on, t)
  BY DEF FallsShort, Managed
<1>10. PICK d : d = IF FallsShort(type, on, t) THEN s - 1 ELSE s
  OBVIOUS
<1>11. d \in Int /\ d >= 35
  BY <1>8, <1>9, <1>10
<1>12. Level(d) \in {"R2", "R3", "R4"}
  BY <1>11 DEF Level
<1>13. Assessment(type, on, t).level = Level(d)
  BY <1>5, <1>10 DEF Assessment
<1> QED  BY <1>12, <1>13 DEF NeedsApproval

\* What is classified anew is at most 80, and nothing if the goal is not recognised.
LEMMA ClassificationKeeps ==
    ASSUME IntelInv, NEW goal, classified' = ClassifiedWith(goal)
    PROVE  \A k \in DOMAIN classified' : classified'[k] <= 100 /\ (k[1] = "UNKNOWN" => classified'[k] = 0)
<1>1. \A k \in DOMAIN classified : classified[k] <= 100 /\ (k[1] = "UNKNOWN" => classified[k] = 0)
  BY DEF IntelInv, IntelligenceSound
<1>2. PICK key : key = <<goal.type, goal.domain>>
  OBVIOUS
<1>3. key[1] = goal.type
  BY <1>2
<1>4. PICK c : c = Confidence(goal, trend[goal.type] \notin {"none", "raises"})
  OBVIOUS
<1>5. c <= 100 /\ (goal.type = "UNKNOWN" => c = 0)
  BY <1>4 DEF Confidence
<1>6. CASE key \in DOMAIN classified
  BY <1>1, <1>2, <1>6 DEF ClassifiedWith
<1>7. CASE key \notin DOMAIN classified
  <2>1. classified' = [k \in DOMAIN classified \cup {key} |-> IF k = key THEN c ELSE classified[k]]
    BY <1>2, <1>4, <1>7 DEF ClassifiedWith, Extend
  <2> QED  BY <1>1, <1>3, <1>5, <2>1
<1> QED  BY <1>6, <1>7

\* An assessment is on record afterwards, and asks for approval of a managed type.
LEMMA AssessmentKeeps ==
    ASSUME IntelInv, NEW type, NEW cons, assessed' = AssessedWith(type, cons)
    PROVE  /\ \A k \in DOMAIN assessed' : k[1] \in Managed => NeedsApproval(assessed'[k].level)
           /\ AssessKey(type, cons) \in DOMAIN assessed'
           /\ type \in Managed => NeedsApproval(assessed'[AssessKey(type, cons)].level)
<1>1. \A k \in DOMAIN assessed : k[1] \in Managed => NeedsApproval(assessed[k].level)
  BY DEF IntelInv
<1>2. PICK key : key = AssessKey(type, cons)
  OBVIOUS
<1>3. key[1] = type
  BY <1>2 DEF AssessKey
<1>4. PICK a : a = Assessment(type, cons.on, trend[type])
  OBVIOUS
<1>5. type \in Managed => NeedsApproval(a.level)
  BY <1>4, ManagedScore
<1>6. CASE key \in DOMAIN assessed
  BY <1>1, <1>2, <1>3, <1>6 DEF AssessedWith
<1>7. CASE key \notin DOMAIN assessed
  <2>1. assessed' = [k \in DOMAIN assessed \cup {key} |-> IF k = key THEN a ELSE assessed[k]]
    BY <1>2, <1>4, <1>7 DEF AssessedWith, Extend
  <2> QED  BY <1>1, <1>2, <1>3, <1>5, <2>1
<1> QED  BY <1>6, <1>7

\* A run of the pipeline keeps the invariant of the assessments.
LEMMA PipelineKeeps ==
    ASSUME IntelInv, NEW goal, NEW cons, NEW mission, RunPipeline(goal, cons, mission)
    PROVE  IntelInv'
<1>1. PICK a : a = assessed'[AssessKey(goal.type, cons)]
  OBVIOUS
<1>2. goal.type \in Managed => NeedsApproval(a.level)
  BY <1>1, AssessmentKeeps DEF RunPipeline
<1>3. \A m \in DOMAIN contracts : contracts[m].type \in Managed => contracts[m].approval
  BY DEF IntelInv, IntelligenceSound, Managed
<1>4. PICK n : n = [type |-> goal.type, level |-> a.level, approval |-> NeedsApproval(a.level)]
  OBVIOUS
<1>5. n.type = goal.type /\ n.approval = NeedsApproval(a.level)
  BY <1>4
<1>6. CASE mission \in DOMAIN contracts
  <2>1. contracts' = contracts
    BY <1>6 DEF RunPipeline, CompileContract
  <2> QED  BY <1>3, <2>1, ClassificationKeeps, AssessmentKeeps DEF RunPipeline, IntelInv, IntelligenceSound, Managed
<1>7. CASE mission \notin DOMAIN contracts
  <2>1. contracts' = [m \in DOMAIN contracts \cup {mission} |-> IF m = mission THEN n ELSE contracts[m]]
    BY <1>1, <1>4, <1>7 DEF RunPipeline, CompileContract, Extend
  <2>2. \A m \in DOMAIN contracts' : contracts'[m].type \in Managed => contracts'[m].approval
    BY <1>2, <1>3, <1>5, <2>1
  <2> QED  BY <2>2, ClassificationKeeps, AssessmentKeeps DEF RunPipeline, IntelInv, IntelligenceSound, Managed
<1> QED  BY <1>6, <1>7

\* Every step of the intelligence keeps its invariant.
LEMMA IntelStep == IntelInv /\ [IntelNext]_intelVars => IntelInv'
<1> SUFFICES ASSUME IntelInv, [IntelNext]_intelVars
             PROVE  IntelInv'
  OBVIOUS
<1>1. CASE UNCHANGED intelVars
  BY <1>1 DEF intelVars, IntelInv, IntelligenceSound
<1>2. CASE \E g \in Goals : ParseIntent(g) \/ DecomposeGoal(g.type) \/ \E t \in Trends : MemoryLearns(g.type, t)
  BY <1>2 DEF ParseIntent, DecomposeGoal, MemoryLearns, IntelInv, IntelligenceSound
<1>3. ASSUME NEW g \in Goals, ClassifyMission(g) PROVE IntelInv'
  BY <1>3, ClassificationKeeps DEF ClassifyMission, IntelInv, IntelligenceSound
<1>4. ASSUME NEW g \in Goals, NEW c \in ConstraintSets, AssessRisk(g.type, c) PROVE IntelInv'
  BY <1>4, AssessmentKeeps DEF AssessRisk, IntelInv, IntelligenceSound
<1> QED  BY <1>1, <1>2, <1>3, <1>4, PipelineKeeps DEF IntelNext

\* The intelligence starts in its invariant.
LEMMA IntelStarts == IntelInit => IntelInv
  BY DEF IntelInit, IntelInv, IntelligenceSound

\* Whatever was remembered and cached, the contract of a managed mission type requires
\* approval, and no confidence passes certainty (brain/mission_intelligence_engine.py).
THEOREM IntelligenceTheorem == IntelSpec => []IntelligenceSound
<1>1. IntelInv => IntelligenceSound
  BY DEF IntelInv
<1> QED  BY <1>1, IntelStarts, IntelStep, PTL DEF IntelSpec

------------------------------------------------------------------------------
(* Evolution: proposals, vetoes, durable effects. *)

\* Entries written about a proposal.
Entries(p, status) == {i \in DOMAIN recorded : recorded[i] = <<p, status>>}

\* A rejected proposal keeps a risk above what is approved, and each verification used
\* up an application.
LifecycleInv ==
    \A p \in Proposals :
      /\ proposal[p].rejected => proposal[p].risk > 50 /\ proposal[p].status \notin {"APPROVED", "APPLIED", "VERIFIED"}
      /\ Cardinality(Entries(p, "VERIFIED")) <= Cardinality(Entries(p, "APPLIED"))
      /\ proposal[p].status = "APPLIED" =>
           Cardinality(Entries(p, "VERIFIED")) < Cardinality(Entries(p, "APPLIED"))

\* Of an action that nothing was lost of, the process and the table say the same.
VetoInv == \A a \in BoundActions \ lost : vetoRows[a] = "active" <=> vetoes[a] = "active"

\* The checkpoints are numbered from the oldest to the newest.
NumberedRows ==
    LET n == Newest
    IN /\ \A i \in DOMAIN rows : rows[i].at \in 1..n
       /\ \A i, j \in DOMAIN rows : rows[i].at = rows[j].at => i = j
       /\ \A k \in 1..n : \E i \in DOMAIN rows : rows[i].at = k

\* Workers about to perform the effect of an action, and those that have.
About(a) == {w \in EffectWorkers : doing[w].pc = "run" /\ doing[w].action = a}

\* Workers that have performed the effect and still have to record it.
Done(a) == {w \in EffectWorkers : doing[w].pc = "record" /\ doing[w].action = a}
\* No effect of the action is on record.
NoEffect(a) == \A e \in effects : e[1] # a

\* An action is claimed with the one effect it has, and after it ran; until then a run
\* since the last restart is one of a worker that has still to record it.
EffectOf(a) ==
    /\ NoEffect(a) => claims[a] = 0
    /\ ~NoEffect(a) => /\ claims[a] = 1 /\ performed[a] >= 1
                       /\ \E b \in BOOLEAN : {e \in effects : e[1] = a} = {<<a, b>>}
    /\ performed[a] + Cardinality(About(a)) <= (evoOps + 1) * Cardinality(EffectWorkers)
    /\ NoEffect(a) => performed[a] <= evoOps * Cardinality(EffectWorkers) + Cardinality(Done(a))

\* The steps of the workers around every effect.
EffectInv ==
    /\ \A w \in EffectWorkers : /\ doing[w].pc # "idle" => doing[w].action \in EffectActions
                                /\ doing[w].pc = "record" => performed[doing[w].action] >= 1
    /\ \A a \in EffectActions : EffectOf(a)

\* The inductive invariant of evolution, boundary and durable store.
EvoInv == EvoTypeOK /\ LifecycleInv /\ VetoInv /\ NumberedRows /\ EffectInv

------------------------------------------------------------------------------
(* What one part does to another. *)

\* What leaves the proposals alone keeps their invariant.
LEMMA LifecycleStays ==
    ASSUME LifecycleInv, UNCHANGED evolutionVars PROVE LifecycleInv'
  BY DEF LifecycleInv, evolutionVars, Entries

\* What leaves the boundary alone keeps its invariant.
LEMMA VetoStays ==
    ASSUME VetoInv, UNCHANGED boundaryVars PROVE VetoInv'
  BY DEF VetoInv, boundaryVars

\* What leaves the checkpoints alone keeps their numbering.
LEMMA RowsStay ==
    ASSUME NumberedRows, UNCHANGED rows PROVE NumberedRows'
  BY DEF NumberedRows, Newest

\* Arithmetic of the allowance.
LEMMA Allowance == \A n, k \in Nat : (n + 1) * k = n * k + k /\ n * k \in Nat /\ (n + 1) * k \in Nat
  OBVIOUS

\* Of two groups of workers that share none.
LEMMA GroupsCounted ==
    ASSUME NEW S \in SUBSET EffectWorkers, NEW T \in SUBSET EffectWorkers, S \cap T = {}
    PROVE  /\ IsFiniteSet(S) /\ IsFiniteSet(T) /\ Cardinality(S) \in Nat /\ Cardinality(T) \in Nat
           /\ Cardinality(EffectWorkers) \in Nat
           /\ Cardinality(S) + Cardinality(T) <= Cardinality(EffectWorkers)
<1>1. IsFiniteSet(EffectWorkers) /\ Cardinality(EffectWorkers) \in Nat
  BY EffectWorkersAssumption, FS_CardinalityType
<1>2. IsFiniteSet(S) /\ IsFiniteSet(T) /\ S \cup T \subseteq EffectWorkers
  BY <1>1, FS_Subset
<1>3. Cardinality(S \cup T) = Cardinality(S) + Cardinality(T) - Cardinality(S \cap T)
  BY <1>2, FS_Union
<1>4. Cardinality(S \cup T) <= Cardinality(EffectWorkers)
  BY <1>1, <1>2, FS_Subset
<1>5. Cardinality(S \cap T) = 0
  BY FS_EmptySet
<1>6. Cardinality(S) \in Nat /\ Cardinality(T) \in Nat
  BY <1>2, FS_CardinalityType
<1> QED  BY <1>1, <1>2, <1>3, <1>4, <1>5, <1>6

\* Nobody is about to perform an effect and has performed it.
LEMMA WorkersCounted ==
    /\ Cardinality(EffectWorkers) \in Nat
    /\ \A a : /\ IsFiniteSet(About(a)) /\ IsFiniteSet(Done(a))
              /\ Cardinality(About(a)) \in Nat /\ Cardinality(Done(a)) \in Nat
              /\ Cardinality(About(a)) + Cardinality(Done(a)) <= Cardinality(EffectWorkers)
<1>1. Cardinality(EffectWorkers) \in Nat
  BY EffectWorkersAssumption, FS_CardinalityType
<1>2. \A a : About(a) \in SUBSET EffectWorkers /\ Done(a) \in SUBSET EffectWorkers /\ About(a) \cap Done(a) = {}
  BY DEF About, Done
<1> QED  BY <1>1, <1>2, GroupsCounted

\* More operations allow more runs.
LEMMA EffectsStay ==
    ASSUME EvoTypeOK, EffectInv, UNCHANGED <<effects, doing, performed, claims>>,
           evoOps' \in {evoOps, evoOps + 1}
    PROVE  EffectInv'
<1>1. \A w \in EffectWorkers : (doing[w].pc # "idle" => doing[w].action \in EffectActions)' /\
                               (doing[w].pc = "record" => performed[doing[w].action] >= 1)'
  BY DEF EffectInv
<1>2. ASSUME NEW a \in EffectActions PROVE EffectOf(a)'
  <2>1. EffectOf(a)
    BY DEF EffectInv
  <2>2. About(a)' = About(a) /\ Done(a)' = Done(a) /\ NoEffect(a)' = NoEffect(a)
    BY DEF About, Done, NoEffect
  <2>3. PICK n, k, m, x, y : /\ n = evoOps /\ k = Cardinality(EffectWorkers) /\ m = evoOps'
                             /\ x = Cardinality(About(a)) /\ y = Cardinality(Done(a))
    OBVIOUS
  <2>4. n \in Nat /\ k \in Nat /\ x \in Nat /\ y \in Nat /\ m \in {n, n + 1} /\ performed[a] \in Nat
    BY <2>3, WorkersCounted DEF EvoTypeOK
  <2>5. (n + 1) * k = n * k + k /\ n * k \in Nat /\ (n + 1 + 1) * k = (n + 1) * k + k /\ (n + 1) * k \in Nat
    BY <2>4, Allowance
  <2>6. performed[a] + x <= (n + 1) * k /\ (NoEffect(a) => performed[a] <= n * k + y)
    BY <2>1, <2>3 DEF EffectOf
  <2>7. performed[a] + x <= (m + 1) * k /\ (NoEffect(a) => performed[a] <= m * k + y)
    BY <2>4, <2>5, <2>6
  <2> QED  BY <2>1, <2>2, <2>3, <2>7 DEF EffectOf
<1> QED  BY <1>1, <1>2 DEF EffectInv

------------------------------------------------------------------------------
(* The lifecycle of proposals. *)

\* An entry is one more of its proposal and status, and of no other.
LEMMA EntryCounted ==
    ASSUME EvoTypeOK, NEW q \in Proposals, NEW status \in {"APPLIED", "VERIFIED", "ARCHIVED"}, Record(q, status)
    PROVE  /\ recorded' \in Seq(Proposals \X {"APPLIED", "VERIFIED", "ARCHIVED"})
           /\ \A p \in Proposals, s \in {"APPLIED", "VERIFIED"} :
                /\ Cardinality(Entries(p, s)) \in Nat
                /\ Cardinality(Entries(p, s)') = IF p = q /\ s = status THEN Cardinality(Entries(p, s)) + 1
                                                 ELSE Cardinality(Entries(p, s))
<1>1. recorded \in Seq(Proposals \X {"APPLIED", "VERIFIED", "ARCHIVED"}) /\ recorded' = Append(recorded, <<q, status>>)
  BY DEF EvoTypeOK, Record
<1>2. PICK n \in Nat : n = Len(recorded) /\ DOMAIN recorded = 1..n
  BY <1>1
<1>3. /\ recorded' \in Seq(Proposals \X {"APPLIED", "VERIFIED", "ARCHIVED"})
      /\ DOMAIN recorded' = 1..(n + 1) /\ recorded'[n + 1] = <<q, status>>
      /\ \A i \in 1..n : recorded'[i] = recorded[i]
  BY <1>1, <1>2
<1>4. ASSUME NEW p \in Proposals, NEW s \in {"APPLIED", "VERIFIED"}
      PROVE  /\ Cardinality(Entries(p, s)) \in Nat
             /\ Cardinality(Entries(p, s)') = IF p = q /\ s = status THEN Cardinality(Entries(p, s)) + 1
                                              ELSE Cardinality(Entries(p, s))
  <2>1. IsFiniteSet(1..n) /\ Entries(p, s) \subseteq 1..n
    BY <1>2, FS_Interval DEF Entries
  <2>2. IsFiniteSet(Entries(p, s)) /\ Cardinality(Entries(p, s)) \in Nat /\ n + 1 \notin Entries(p, s)
    BY <2>1, FS_Subset, FS_CardinalityType
  <2>3. CASE p = q /\ s = status
    <3>1. Entries(p, s)' = Entries(p, s) \cup {n + 1}
      BY <1>2, <1>3, <2>3 DEF Entries
    <3> QED  BY <2>2, <2>3, <3>1, FS_AddElement
  <2>4. CASE ~(p = q /\ s = status)
    <3>1. <<q, status>> # <<p, s>>
      BY <2>4
    <3>2. Entries(p, s)' = Entries(p, s)
      BY <1>2, <1>3, <3>1 DEF Entries
    <3> QED  BY <2>2, <2>4, <3>2
  <2> QED  BY <2>3, <2>4
<1> QED  BY <1>3, <1>4

\* A step of the evolution keeps types and lifecycle.
LEMMA EvolutionKeeps ==
    ASSUME EvoInv, EvolutionNext
    PROVE  EvoTypeOK' /\ LifecycleInv'
<1> DEFINE Statuses == {"none", "DRAFT", "APPROVED", "APPROVAL_REQUIRED", "APPLIED", "VERIFIED", "ARCHIVED"}
           Records == [status : Statuses, conf : Nat, risk : Nat, rejected : BOOLEAN]
<1>1. PICK q \in Proposals :
          \/ \E c \in {30, 60}, r \in {0, 50} : CollectCandidate(q, c, r)
          \/ EvaluateProposal(q) \/ ApplyEvolution(q) \/ RejectProposal(q) \/ VerifyEvolution(q) \/ ArchiveEvolution(q)
  BY DEF EvolutionNext
<1>2. proposal \in [Proposals -> Records] /\ evoOps \in Nat
  BY DEF EvoInv, EvoTypeOK
<1>3. UNCHANGED <<boundaryVars, durableVars>> /\ evoOps' \in Nat
  BY <1>1, <1>2 DEF CollectCandidate, EvaluateProposal, ApplyEvolution, RejectProposal, VerifyEvolution,
     ArchiveEvolution, Lifecycle, EvoCounted
\* A proposal is replaced, and at most one entry written of it.
<1>4. ASSUME NEW r \in Records, proposal' = [proposal EXCEPT ![q] = r],
             \/ recorded' = recorded /\ (r.status = "APPLIED" => proposal[q].status = "APPLIED")
             \/ Record(q, "APPLIED")
             \/ Record(q, "VERIFIED") /\ proposal[q].status = "APPLIED" /\ r.status # "APPLIED"
             \/ Record(q, "ARCHIVED") /\ r.status # "APPLIED",
             r.rejected => r.risk > 50 /\ r.status \notin {"APPROVED", "APPLIED", "VERIFIED"}
      PROVE  EvoTypeOK' /\ LifecycleInv'
  <2>1. proposal' \in [Proposals -> Records] /\ \A p \in Proposals : proposal'[p] = IF p = q THEN r ELSE proposal[p]
    BY <1>2, <1>4
  <2>2. recorded' \in Seq(Proposals \X {"APPLIED", "VERIFIED", "ARCHIVED"})
    BY <1>4, EntryCounted DEF EvoInv, EvoTypeOK
  <2>3. EvoTypeOK'
    BY <1>3, <2>1, <2>2 DEF EvoInv, EvoTypeOK, boundaryVars, durableVars
  <2>4. ASSUME NEW p \in Proposals
        PROVE  /\ Cardinality(Entries(p, "VERIFIED")') <= Cardinality(Entries(p, "APPLIED")')
               /\ proposal'[p].status = "APPLIED" =>
                    Cardinality(Entries(p, "VERIFIED")') < Cardinality(Entries(p, "APPLIED")')
    <3>1. /\ Cardinality(Entries(p, "VERIFIED")) <= Cardinality(Entries(p, "APPLIED"))
          /\ proposal[p].status = "APPLIED" =>
               Cardinality(Entries(p, "VERIFIED")) < Cardinality(Entries(p, "APPLIED"))
      BY DEF EvoInv, LifecycleInv
    <3>2. CASE recorded' = recorded /\ (r.status = "APPLIED" => proposal[q].status = "APPLIED")
      <4>1. Entries(p, "VERIFIED")' = Entries(p, "VERIFIED") /\ Entries(p, "APPLIED")' = Entries(p, "APPLIED")
        BY <3>2 DEF Entries
      <4> QED  BY <2>1, <3>1, <3>2, <4>1
    <3>3. CASE Record(q, "APPLIED")
      <4>1. /\ Cardinality(Entries(p, "VERIFIED")) \in Nat /\ Cardinality(Entries(p, "APPLIED")) \in Nat
            /\ Cardinality(Entries(p, "VERIFIED")') = Cardinality(Entries(p, "VERIFIED"))
            /\ Cardinality(Entries(p, "APPLIED")') = IF p = q THEN Cardinality(Entries(p, "APPLIED")) + 1
                                                     ELSE Cardinality(Entries(p, "APPLIED"))
        BY <3>3, EntryCounted DEF EvoInv
      <4> QED  BY <2>1, <3>1, <4>1
    <3>4. CASE Record(q, "VERIFIED") /\ proposal[q].status = "APPLIED" /\ r.status # "APPLIED"
      <4>1. /\ Cardinality(Entries(p, "VERIFIED")) \in Nat /\ Cardinality(Entries(p, "APPLIED")) \in Nat
            /\ Cardinality(Entries(p, "APPLIED")') = Cardinality(Entries(p, "APPLIED"))
            /\ Cardinality(Entries(p, "VERIFIED")') = IF p = q THEN Cardinality(Entries(p, "VERIFIED")) + 1
                                                      ELSE Cardinality(Entries(p, "VERIFIED"))
        BY <3>4, EntryCounted DEF EvoInv
      <4> QED  BY <2>1, <3>1, <3>4, <4>1
    <3>5. CASE Record(q, "ARCHIVED") /\ r.status # "APPLIED"
      <4>1. /\ Cardinality(Entries(p, "APPLIED")') = Cardinality(Entries(p, "APPLIED"))
            /\ Cardinality(Entries(p, "VERIFIED")') = Cardinality(Entries(p, "VERIFIED"))
        BY <3>5, EntryCounted DEF EvoInv
      <4> QED  BY <2>1, <3>1, <3>5, <4>1
    <3> QED  BY <1>4, <3>2, <3>3, <3>4, <3>5
  <2>5. \A p \in Proposals :
          proposal'[p].rejected => proposal'[p].risk > 50 /\ proposal'[p].status \notin {"APPROVED", "APPLIED", "VERIFIED"}
    BY <1>4, <2>1 DEF EvoInv, LifecycleInv
  <2> QED  BY <2>3, <2>4, <2>5 DEF LifecycleInv
<1>5. PICK o \in Records : o = proposal[q]
  BY <1>2
<1>6. o.rejected => o.risk > 50 /\ o.status \notin {"APPROVED", "APPLIED", "VERIFIED"}
  BY <1>5 DEF EvoInv, LifecycleInv
<1>7. ASSUME NEW c \in {30, 60}, NEW k \in {0, 50}, CollectCandidate(q, c, k) PROVE EvoTypeOK' /\ LifecycleInv'
  <2>1. PICK r : r = [Fresh EXCEPT !.status = "DRAFT", !.conf = c, !.risk = k]
    OBVIOUS
  <2>2. r \in Records /\ r.status = "DRAFT" /\ r.rejected = FALSE
    <3>1. r = [status |-> "DRAFT", conf |-> c, risk |-> k, rejected |-> FALSE]
      BY <2>1 DEF Fresh
    <3> QED  BY <3>1
  <2>3. proposal' = [proposal EXCEPT ![q] = r] /\ recorded' = recorded
    BY <1>7, <2>1 DEF CollectCandidate
  <2> QED  BY <1>4, <2>2, <2>3
<1>8. CASE EvaluateProposal(q)
  <2>1. PICK v : v = Verdict(o.conf, o.risk)
    OBVIOUS
  <2>2. v \in {"DRAFT", "APPROVED", "APPROVAL_REQUIRED"} /\ (o.risk > 50 => v # "APPROVED")
    BY <1>5, <2>1 DEF Verdict
  <2>3. PICK r : r = [o EXCEPT !.status = v]
    OBVIOUS
  <2>4. r \in Records /\ r.status = v /\ r.risk = o.risk /\ r.rejected = o.rejected
    BY <2>2, <2>3
  <2>5. proposal' = [proposal EXCEPT ![q] = r] /\ recorded' = recorded
    BY <1>2, <1>5, <1>8, <2>1, <2>3 DEF EvaluateProposal, SetProposal
  <2> QED  BY <1>4, <1>6, <2>2, <2>4, <2>5
<1>9. ASSUME NEW s \in {"DRAFT", "APPLIED", "VERIFIED", "ARCHIVED"}, SetProposal(q, s),
             \/ s = "DRAFT" /\ recorded' = recorded
             \/ s = "APPLIED" /\ o.status = "APPROVED" /\ Record(q, s)
             \/ s = "VERIFIED" /\ o.status = "APPLIED" /\ Record(q, s)
             \/ s = "ARCHIVED" /\ Record(q, s)
      PROVE EvoTypeOK' /\ LifecycleInv'
  <2>1. PICK r : r = [o EXCEPT !.status = s]
    OBVIOUS
  <2>2. r \in Records /\ r.status = s /\ r.risk = o.risk /\ r.rejected = o.rejected
    BY <2>1
  <2>3. proposal' = [proposal EXCEPT ![q] = r]
    BY <1>2, <1>5, <1>9, <2>1 DEF SetProposal
  <2> QED  BY <1>4, <1>5, <1>6, <1>9, <2>2, <2>3
<1>10. CASE ApplyEvolution(q)
  BY <1>5, <1>9, <1>10 DEF ApplyEvolution
<1>11. CASE VerifyEvolution(q)
  BY <1>5, <1>9, <1>11 DEF VerifyEvolution
<1>12. CASE ArchiveEvolution(q)
  BY <1>9, <1>12 DEF ArchiveEvolution
<1>13. CASE RejectProposal(q)
  <2>1. PICK k : k = IF o.risk < 51 THEN 51 ELSE o.risk
    OBVIOUS
  <2>2. k \in Nat /\ k > 50
    BY <1>5, <2>1
  <2>3. PICK r : r = [o EXCEPT !.status = "DRAFT", !.rejected = TRUE, !.risk = k]
    OBVIOUS
  <2>4. r \in Records /\ r.status = "DRAFT" /\ r.risk = k
    BY <2>2, <2>3
  <2>5. proposal' = [proposal EXCEPT ![q] = r] /\ recorded' = recorded
    BY <1>2, <1>5, <1>13, <2>1, <2>3 DEF RejectProposal
  <2> QED  BY <1>4, <2>2, <2>4, <2>5
<1> QED  BY <1>1, <1>7, <1>8, <1>10, <1>11, <1>12, <1>13

------------------------------------------------------------------------------
(* Vetoes. *)

\* A step of the boundary keeps types and vetoes.
LEMMA BoundaryKeeps ==
    ASSUME EvoInv, BoundaryNext
    PROVE  EvoTypeOK' /\ VetoInv'
<1>1. /\ vetoes \in [BoundActions -> {"none", "active", "revoked"}]
      /\ vetoRows \in [BoundActions -> {"none", "active", "revoked"}] /\ lost \subseteq BoundActions /\ evoOps \in Nat
      /\ \A a \in BoundActions \ lost : vetoRows[a] = "active" <=> vetoes[a] = "active"
  BY DEF EvoInv, EvoTypeOK, VetoInv
<1>2. UNCHANGED <<evolutionVars, durableVars>> /\ evoOps' \in Nat
  BY <1>1 DEF BoundaryNext, RevokeVeto, Veto, BoundaryRestarts, EvoCounted
<1>3. ASSUME /\ vetoes' \in [BoundActions -> {"none", "active", "revoked"}]
             /\ vetoRows' \in [BoundActions -> {"none", "active", "revoked"}] /\ lost' \subseteq BoundActions
             /\ \A a \in BoundActions \ lost' : vetoRows'[a] = "active" <=> vetoes'[a] = "active"
      PROVE  EvoTypeOK' /\ VetoInv'
  BY <1>2, <1>3 DEF EvoInv, EvoTypeOK, VetoInv, evolutionVars, durableVars
<1>4. ASSUME NEW a \in BoundActions, NEW stored \in BOOLEAN, Veto(a, stored) PROVE EvoTypeOK' /\ VetoInv'
  BY <1>1, <1>3, <1>4 DEF Veto
<1>5. ASSUME NEW a \in BoundActions, RevokeVeto(a) PROVE EvoTypeOK' /\ VetoInv'
  <2>1. vetoes' = [vetoes EXCEPT ![a] = "revoked"] /\ lost' = lost \ {a}
        /\ vetoRows' = [vetoRows EXCEPT ![a] = IF vetoRows[a] = "active" THEN "revoked" ELSE vetoRows[a]]
    BY <1>5 DEF RevokeVeto
  <2> QED  BY <1>1, <1>3, <2>1
<1>6. CASE BoundaryRestarts
  BY <1>1, <1>3, <1>6 DEF BoundaryRestarts
<1> QED  BY <1>4, <1>5, <1>6 DEF BoundaryNext

------------------------------------------------------------------------------
(* Checkpoints. *)

\* The newest is the one numbered last.
LEMMA OneNewest ==
    ASSUME EvoTypeOK, NumberedRows
    PROVE  DOMAIN rows # {} => Cardinality(Recovered) = 1
<1> SUFFICES ASSUME DOMAIN rows # {} PROVE Cardinality(Recovered) = 1
  OBVIOUS
<1>1. PICK n \in Nat : n = Newest
  BY FS_CardinalityType DEF EvoTypeOK, Newest
<1>2. \E i \in DOMAIN rows : rows[i].at \in 1..n
  BY <1>1 DEF NumberedRows
<1>3. PICK i \in DOMAIN rows : rows[i].at = n
  BY <1>1, <1>2 DEF NumberedRows
<1>4. Recovered = {i}
  BY <1>1, <1>3 DEF Recovered, NumberedRows
<1> QED  BY <1>4, FS_Singleton

\* A saved checkpoint keeps the numbering: it becomes the newest.
LEMMA SaveKeeps ==
    ASSUME EvoInv, NEW id \in 1..MaxStep, NEW step \in Nat, SaveCheckpoint(id, step)
    PROVE  EvoTypeOK' /\ NumberedRows'
<1>1. PICK D, n : D = DOMAIN rows /\ n = Newest /\ n = Cardinality(D)
  BY DEF Newest
<1>2. IsFiniteSet(D) /\ n \in Nat /\ rows \in [D -> [step : Nat, at : Nat]] /\ evoOps \in Nat
  BY <1>1, FS_CardinalityType DEF EvoInv, EvoTypeOK
<1>3. /\ \A i \in D : rows[i].at \in 1..n
      /\ \A i, j \in D : rows[i].at = rows[j].at => i = j
      /\ \A k \in 1..n : \E i \in D : rows[i].at = k
  BY <1>1 DEF EvoInv, NumberedRows
<1>4. PICK at : at = 1 + Cardinality({i \in D : i # id})
  OBVIOUS
<1>5. /\ rows' = [i \in D \cup {id} |->
                    IF i = id THEN [step |-> step, at |-> at]
                    ELSE IF id \in D /\ rows[i].at > rows[id].at THEN [rows[i] EXCEPT !.at = @ - 1] ELSE rows[i]]
      /\ UNCHANGED <<evolutionVars, boundaryVars, effects, doing, performed, claims>> /\ evoOps' \in Nat
  BY <1>1, <1>2, <1>4 DEF SaveCheckpoint, EvoCounted
<1>6. DOMAIN rows' = D \cup {id} /\ IsFiniteSet(DOMAIN rows')
  BY <1>2, <1>5, FS_AddElement
<1>7. {i \in D : i # id} = D \ {id}
  OBVIOUS
<1>8. CASE id \notin D
  <2>1. at = n + 1
    <3>1. D \ {id} = D
      BY <1>8
    <3> QED  BY <1>1, <1>2, <1>4, <1>7, <3>1
  <2>2. Newest' = n + 1
    BY <1>1, <1>2, <1>6, <1>8, FS_AddElement DEF Newest
  <2>3. \A i \in DOMAIN rows' : rows'[i] = IF i = id THEN [step |-> step, at |-> n + 1] ELSE rows[i]
    BY <1>5, <1>6, <1>8, <2>1
  <2>4. [step |-> step, at |-> n + 1] \in [step : Nat, at : Nat]
    BY <1>2
  <2>5. rows' \in [DOMAIN rows' -> [step : Nat, at : Nat]]
    BY <1>2, <1>5, <1>6, <2>3, <2>4
  <2>6. EvoTypeOK'
    BY <1>5, <1>6, <2>5 DEF EvoInv, EvoTypeOK, evolutionVars, boundaryVars
  <2>7. \A i \in D : rows'[i].at = rows[i].at /\ i # id
    BY <1>6, <1>8, <2>3
  <2>8. rows'[id].at = n + 1
    BY <1>6, <2>3
  <2>9. NumberedRows'
    <3>1. \A i \in DOMAIN rows' : rows'[i].at \in 1..(n + 1)
      BY <1>2, <1>3, <1>6, <2>7, <2>8
    <3>2. \A i, j \in DOMAIN rows' : rows'[i].at = rows'[j].at => i = j
      BY <1>2, <1>3, <1>6, <2>7, <2>8
    <3>3. \A k \in 1..(n + 1) : \E i \in DOMAIN rows' : rows'[i].at = k
      BY <1>2, <1>3, <1>6, <2>7, <2>8
    <3> QED  BY <2>2, <3>1, <3>2, <3>3 DEF NumberedRows
  <2> QED  BY <2>6, <2>9
<1>9. CASE id \in D
  <2>1. at = n
    <3>1. Cardinality(D \ {id}) = n - 1
      BY <1>1, <1>2, <1>9, FS_RemoveElement
    <3>2. Cardinality({i \in D : i # id}) = n - 1
      BY <1>7, <3>1, Zenon
    <3>3. at = 1 + (n - 1)
      BY <1>4, <3>2, Zenon
    <3> QED  BY <1>2, <3>3
  <2>2. DOMAIN rows' = D /\ Newest' = n
    BY <1>1, <1>6, <1>9 DEF Newest
  <2>3. PICK p : p = rows[id].at
    OBVIOUS
  <2>4. p \in 1..n
    BY <1>3, <1>9, <2>3
  <2>5. \A i \in D : /\ i # id => rows'[i] = IF rows[i].at > p THEN [rows[i] EXCEPT !.at = @ - 1] ELSE rows[i]
                     /\ rows'[id] = [step |-> step, at |-> n]
    BY <1>5, <1>9, <2>1, <2>3
  <2>6. ASSUME NEW i \in D
        PROVE  /\ rows'[i] \in [step : Nat, at : Nat]
               /\ rows'[i].at = IF i = id THEN n ELSE IF rows[i].at > p THEN rows[i].at - 1 ELSE rows[i].at
    <3>1. PICK o \in [step : Nat, at : Nat] : o = rows[i]
      BY <1>2
    <3>2. o.at \in 1..n
      BY <1>3, <3>1
    <3>3. PICK k : k = o.at - 1
      OBVIOUS
    <3>4. o.at > p => k \in Nat
      BY <1>2, <2>4, <3>2, <3>3
    <3>5. i # id => rows'[i] = IF o.at > p THEN [o EXCEPT !.at = k] ELSE o
      BY <2>5, <3>1, <3>3
    <3>6. i = id => rows'[i] = [step |-> step, at |-> n]
      BY <2>5
    <3> QED  BY <1>2, <3>1, <3>3, <3>4, <3>5, <3>6
  <2>7. EvoTypeOK'
    <3>1. rows' \in [DOMAIN rows' -> [step : Nat, at : Nat]]
      BY <1>5, <1>9, <2>2, <2>6
    <3> QED  BY <1>5, <1>6, <3>1 DEF EvoInv, EvoTypeOK, evolutionVars, boundaryVars
  <2>8. \A i \in D : i # id => rows[i].at # p
    BY <1>3, <1>9, <2>3
  <2>9. NumberedRows'
    <3>1. \A i \in D : rows'[i].at \in 1..n
      BY <1>2, <1>3, <2>4, <2>6
    <3>2. \A i, j \in D : rows'[i].at = rows'[j].at => i = j
      BY <1>2, <1>3, <2>4, <2>6, <2>8
    <3>3. ASSUME NEW k \in 1..n PROVE \E i \in D : rows'[i].at = k
      <4>1. CASE k = n
        BY <1>9, <2>6, <4>1
      <4>2. CASE k < p
        <5>1. PICK i \in D : rows[i].at = k
          BY <1>3
        <5>2. i # id
          BY <2>3, <4>2, <5>1
        <5> QED  BY <1>2, <2>4, <2>6, <4>2, <5>1, <5>2
      <4>3. CASE p <= k /\ k < n
        <5>1. k + 1 \in 1..n
          BY <1>2, <4>3
        <5>2. PICK i \in D : rows[i].at = k + 1
          BY <1>3, <5>1
        <5>3. i # id /\ rows[i].at > p
          BY <1>2, <2>3, <2>4, <4>3, <5>2
        <5> QED  BY <1>2, <2>6, <5>2, <5>3
      <4> QED  BY <1>2, <2>4, <4>1, <4>2, <4>3
    <3> QED  BY <2>2, <3>1, <3>2, <3>3 DEF NumberedRows
  <2> QED  BY <2>7, <2>9
<1> QED  BY <1>8, <1>9

\* A deleted checkpoint keeps the numbering.
LEMMA DeleteKeeps ==
    ASSUME EvoInv, NEW id \in 1..MaxStep, DeleteCheckpoint(id)
    PROVE  EvoTypeOK' /\ NumberedRows'
<1>1. PICK D, n : D = DOMAIN rows /\ n = Newest /\ n = Cardinality(D)
  BY DEF Newest
<1>2. IsFiniteSet(D) /\ n \in Nat /\ rows \in [D -> [step : Nat, at : Nat]] /\ evoOps \in Nat /\ id \in D
  BY <1>1, FS_CardinalityType DEF EvoInv, EvoTypeOK, DeleteCheckpoint
<1>3. /\ \A i \in D : rows[i].at \in 1..n
      /\ \A i, j \in D : rows[i].at = rows[j].at => i = j
      /\ \A k \in 1..n : \E i \in D : rows[i].at = k
  BY <1>1 DEF EvoInv, NumberedRows
<1>4. PICK p : p = rows[id].at
  OBVIOUS
<1>5. /\ rows' = [i \in D \ {id} |-> IF rows[i].at > p THEN [rows[i] EXCEPT !.at = @ - 1] ELSE rows[i]]
      /\ UNCHANGED <<evolutionVars, boundaryVars, effects, doing, performed, claims>> /\ evoOps' \in Nat
  BY <1>1, <1>2, <1>4 DEF DeleteCheckpoint, EvoCounted
<1>6. p \in 1..n /\ \A i \in D \ {id} : rows[i].at # p
  BY <1>2, <1>3, <1>4
<1>7. DOMAIN rows' = D \ {id} /\ IsFiniteSet(D \ {id}) /\ Newest' = n - 1
  <2>1. IsFiniteSet(D \ {id}) /\ Cardinality(D \ {id}) = n - 1
    BY <1>1, <1>2, FS_RemoveElement
  <2> QED  BY <1>5, <2>1 DEF Newest
<1>8. ASSUME NEW i \in D \ {id}
      PROVE  /\ rows'[i] \in [step : Nat, at : Nat]
             /\ rows'[i].at = IF rows[i].at > p THEN rows[i].at - 1 ELSE rows[i].at
  <2>1. PICK o \in [step : Nat, at : Nat] : o = rows[i]
    BY <1>2
  <2>2. o.at \in 1..n
    BY <1>3, <2>1
  <2>3. PICK k : k = o.at - 1
    OBVIOUS
  <2>4. o.at > p => k \in Nat
    BY <1>2, <1>6, <2>2, <2>3
  <2>5. rows'[i] = IF o.at > p THEN [o EXCEPT !.at = k] ELSE o
    BY <1>5, <2>1, <2>3
  <2> QED  BY <2>1, <2>3, <2>4, <2>5
<1>9. EvoTypeOK'
  <2>1. rows' \in [DOMAIN rows' -> [step : Nat, at : Nat]]
    BY <1>5, <1>7, <1>8
  <2> QED  BY <1>5, <1>7, <2>1 DEF EvoInv, EvoTypeOK, evolutionVars, boundaryVars
<1>10. NumberedRows'
  <2>4. \A i \in D \ {id} : /\ rows[i].at \in 1..n /\ rows[i].at # p
                            /\ rows'[i].at = IF rows[i].at > p THEN rows[i].at - 1 ELSE rows[i].at
    BY <1>3, <1>6, <1>8
  <2>1. \A i \in D \ {id} : rows'[i].at \in 1..(n - 1)
    BY <1>2, <1>6, <2>4
  <2>2. ASSUME NEW i \in D \ {id}, NEW j \in D \ {id}, rows'[i].at = rows'[j].at PROVE i = j
    <3>1. rows[i].at = rows[j].at
      BY <1>2, <1>6, <2>2, <2>4
    <3> QED  BY <1>3, <3>1
  <2>3. ASSUME NEW k \in 1..(n - 1) PROVE \E i \in D \ {id} : rows'[i].at = k
    <3>1. CASE k < p
      <4>1. PICK i \in D : rows[i].at = k
        BY <1>2, <1>3
      <4>2. i # id
        BY <1>4, <3>1, <4>1
      <4>3. ~(rows[i].at > p) /\ i \in D \ {id}
        BY <1>2, <1>6, <3>1, <4>1, <4>2
      <4>4. rows'[i].at = rows[i].at
        BY <2>4, <4>3
      <4> QED  BY <4>1, <4>3, <4>4
    <3>2. CASE p <= k
      <4>1. k + 1 \in 1..n
        BY <1>2
      <4>2. PICK i \in D : rows[i].at = k + 1
        BY <1>3, <4>1
      <4>3. i # id /\ rows[i].at > p
        BY <1>2, <1>4, <1>6, <3>2, <4>2
      <4>4. rows'[i].at = rows[i].at - 1
        BY <2>4, <4>2, <4>3
      <4>5. (k + 1) - 1 = k
        BY <1>2
      <4> QED  BY <4>2, <4>3, <4>4, <4>5
    <3>3. k < p \/ p <= k
      BY <1>2, <1>6
    <3> QED  BY <3>1, <3>2, <3>3
  <2> QED  BY <1>7, <2>1, <2>2, <2>3 DEF NumberedRows
<1> QED  BY <1>9, <1>10

------------------------------------------------------------------------------
(* Durable effects. *)

\* A worker goes from one set to another, and the others stay.
LEMMA WorkerMoves ==
    ASSUME EvoTypeOK, NEW w \in EffectWorkers, NEW r, doing' = [doing EXCEPT ![w] = r],
           NEW a
    PROVE  /\ About(a)' = IF r.pc = "run" /\ r.action = a THEN About(a) \cup {w} ELSE About(a) \ {w}
           /\ Done(a)' = IF r.pc = "record" /\ r.action = a THEN Done(a) \cup {w} ELSE Done(a) \ {w}
<1>1. \A x \in EffectWorkers : doing'[x] = IF x = w THEN r ELSE doing[x]
  BY DEF EvoTypeOK
<1> QED  BY <1>1 DEF About, Done

\* A worker's check of the effect keeps the invariant of the effects.
LEMMA CheckKeeps ==
    ASSUME EvoInv, NEW w \in EffectWorkers, NEW action \in EffectActions, CheckDuplicate(w, action)
    PROVE  EvoTypeOK' /\ EffectInv'
<1>1. PICK r : r = [pc |-> "run", action |-> action]
  OBVIOUS
<1>2. /\ r \in [pc : {"idle", "run", "record"}, action : EffectActions \cup {"none"}]
      /\ r.pc = "run" /\ r.action = action
  BY <1>1
<1>3. /\ doing[w].pc = "idle" /\ NoEffect(action) /\ doing' = [doing EXCEPT ![w] = r]
      /\ UNCHANGED <<evolutionVars, boundaryVars, rows, effects, performed, claims, evoOps>>
  BY <1>1 DEF CheckDuplicate, NoEffect
<1>4. EvoTypeOK'
  BY <1>2, <1>3 DEF EvoInv, EvoTypeOK, evolutionVars, boundaryVars
<1>5. \A x \in EffectWorkers : doing'[x] = IF x = w THEN r ELSE doing[x]
  BY <1>3 DEF EvoInv, EvoTypeOK
<1>6. \A x \in EffectWorkers : /\ doing'[x].pc # "idle" => doing'[x].action \in EffectActions
                               /\ doing'[x].pc = "record" => performed'[doing'[x].action] >= 1
  BY <1>2, <1>3, <1>5 DEF EvoInv, EffectInv
<1>7. ASSUME NEW a \in EffectActions PROVE EffectOf(a)'
  <2>1. EffectOf(a) /\ performed' = performed /\ claims' = claims /\ NoEffect(a)' = NoEffect(a)
    BY <1>3 DEF EvoInv, EffectInv, NoEffect
  <2>2. w \notin About(a) /\ w \notin Done(a)
    BY <1>3 DEF About, Done
  <2>3. Done(a)' = Done(a) /\ About(a)' = IF a = action THEN About(a) \cup {w} ELSE About(a)
    <3>1. /\ About(a)' = IF r.pc = "run" /\ r.action = a THEN About(a) \cup {w} ELSE About(a) \ {w}
          /\ Done(a)' = IF r.pc = "record" /\ r.action = a THEN Done(a) \cup {w} ELSE Done(a) \ {w}
      BY <1>3, WorkerMoves DEF EvoInv
    <3> QED  BY <1>2, <2>2, <3>1
  <2>4. PICK n, k, x, y, z : /\ n = evoOps /\ k = Cardinality(EffectWorkers) /\ z = Cardinality(About(a)')
                             /\ x = Cardinality(About(a)) /\ y = Cardinality(Done(a))
    OBVIOUS
  <2>5. n \in Nat /\ k \in Nat /\ x \in Nat /\ y \in Nat /\ performed[a] \in Nat
    BY <2>4, WorkersCounted DEF EvoInv, EvoTypeOK
  <2>6. (n + 1) * k = n * k + k /\ n * k \in Nat
    BY <2>5, Allowance
  <2>7. performed[a] + x <= (n + 1) * k /\ (NoEffect(a) => performed[a] <= n * k + y)
    BY <2>1, <2>4 DEF EffectOf
  <2>8. z = IF a = action THEN x + 1 ELSE x
    BY <2>2, <2>3, <2>4, WorkersCounted, FS_AddElement
  <2>9. a = action => z + y <= k
    <3>1. /\ About(a) \cup {w} \in SUBSET EffectWorkers /\ Done(a) \in SUBSET EffectWorkers
          /\ (About(a) \cup {w}) \cap Done(a) = {}
      BY <2>2 DEF About, Done
    <3>2. Cardinality(About(a) \cup {w}) + Cardinality(Done(a)) <= Cardinality(EffectWorkers)
      BY <3>1, GroupsCounted
    <3> QED  BY <2>3, <2>4, <3>2
  <2>10. performed[a] + z <= (n + 1) * k
    BY <1>3, <2>5, <2>6, <2>7, <2>8, <2>9
  <2> QED  BY <1>3, <2>1, <2>3, <2>4, <2>10 DEF EffectOf
<1> QED  BY <1>4, <1>6, <1>7 DEF EffectInv

\* Performing an effect keeps the invariant of the effects.
LEMMA PerformKeeps ==
    ASSUME EvoInv, NEW w \in EffectWorkers, Perform(w)
    PROVE  EvoTypeOK' /\ EffectInv'
<1>1. PICK d \in [pc : {"idle", "run", "record"}, action : EffectActions \cup {"none"}] : d = doing[w]
  BY DEF EvoInv, EvoTypeOK
<1>2. PICK action \in EffectActions : action = d.action
  BY <1>1 DEF EvoInv, EffectInv, Perform
<1>3. PICK r : r = [d EXCEPT !.pc = "record"]
  OBVIOUS
<1>4. r \in [pc : {"idle", "run", "record"}, action : EffectActions \cup {"none"}] /\ r.pc = "record" /\ r.action = action
  BY <1>1, <1>2, <1>3
<1>5. PICK n : n = performed[action] + 1
  OBVIOUS
<1>6. /\ d.pc = "run" /\ doing' = [doing EXCEPT ![w] = r] /\ performed' = [performed EXCEPT ![action] = n]
      /\ UNCHANGED <<evolutionVars, boundaryVars, rows, effects, claims, evoOps>>
  <2>1. doing' = [doing EXCEPT ![w].pc = "record"] /\ performed' = [performed EXCEPT ![doing[w].action] = @ + 1]
        /\ doing[w].pc = "run" /\ UNCHANGED <<evolutionVars, boundaryVars, rows, effects, claims, evoOps>>
    BY DEF Perform
  <2>2. doing' = [doing EXCEPT ![w] = r]
    BY <1>1, <1>3, <2>1 DEF EvoInv, EvoTypeOK
  <2>3. performed' = [performed EXCEPT ![action] = n]
    BY <1>1, <1>2, <1>5, <2>1 DEF EvoInv, EvoTypeOK
  <2> QED  BY <1>1, <2>1, <2>2, <2>3
<1>7. performed \in [EffectActions -> Nat] /\ n \in Nat /\ n >= 1
  BY <1>5 DEF EvoInv, EvoTypeOK
<1>8. EvoTypeOK'
  BY <1>4, <1>6, <1>7 DEF EvoInv, EvoTypeOK, evolutionVars, boundaryVars
<1>9. \A x \in EffectWorkers : doing'[x] = IF x = w THEN r ELSE doing[x]
  BY <1>6 DEF EvoInv, EvoTypeOK
<1>10. \A b \in EffectActions : performed'[b] = IF b = action THEN n ELSE performed[b]
  BY <1>6, <1>7
<1>11. \A x \in EffectWorkers : /\ doing'[x].pc # "idle" => doing'[x].action \in EffectActions
                                /\ doing'[x].pc = "record" => performed'[doing'[x].action] >= 1
  BY <1>4, <1>7, <1>9, <1>10 DEF EvoInv, EffectInv
<1>12. ASSUME NEW a \in EffectActions PROVE EffectOf(a)'
  <2>1. EffectOf(a) /\ claims' = claims /\ effects' = effects /\ NoEffect(a)' = NoEffect(a) /\ evoOps' = evoOps
    BY <1>6 DEF EvoInv, EffectInv, NoEffect
  <2>2. /\ About(a)' = About(a) \ {w}
        /\ Done(a)' = IF a = action THEN Done(a) \cup {w} ELSE Done(a) \ {w}
    <3>1. /\ About(a)' = IF r.pc = "run" /\ r.action = a THEN About(a) \cup {w} ELSE About(a) \ {w}
          /\ Done(a)' = IF r.pc = "record" /\ r.action = a THEN Done(a) \cup {w} ELSE Done(a) \ {w}
      BY <1>6, WorkerMoves DEF EvoInv
    <3> QED  BY <1>4, <3>1
  <2>3. w \notin Done(a) /\ (a = action <=> w \in About(a))
    BY <1>1, <1>2, <1>6 DEF About, Done
  <2>4. PICK m, k, x, y : /\ m = evoOps /\ k = Cardinality(EffectWorkers)
                          /\ x = Cardinality(About(a)) /\ y = Cardinality(Done(a))
    OBVIOUS
  <2>5. m \in Nat /\ k \in Nat /\ x \in Nat /\ y \in Nat /\ performed[a] \in Nat /\ m * k \in Nat /\ (m + 1) * k \in Nat
    BY <2>4, WorkersCounted, Allowance DEF EvoInv, EvoTypeOK
  <2>6. performed[a] + x <= (m + 1) * k /\ (NoEffect(a) => performed[a] <= m * k + y)
    BY <2>1, <2>4 DEF EffectOf
  <2>7. CASE a = action
    <3>1. Cardinality(About(a)') = x - 1 /\ Cardinality(Done(a)') = y + 1
      <4>1. IsFiniteSet(About(a)) /\ IsFiniteSet(Done(a)) /\ w \in About(a) /\ w \notin Done(a)
        BY <2>3, <2>7, WorkersCounted
      <4>2. Cardinality(About(a) \ {w}) = x - 1
        BY <2>4, <4>1, FS_RemoveElement
      <4>3. Cardinality(Done(a) \cup {w}) = y + 1
        BY <2>4, <4>1, FS_AddElement
      <4> QED  BY <2>2, <2>7, <4>2, <4>3
    <3>2. performed'[a] = performed[a] + 1
      BY <1>5, <1>10, <2>7
    <3>3. performed'[a] + (x - 1) <= (m + 1) * k /\ (NoEffect(a) => performed'[a] <= m * k + (y + 1)) /\ performed'[a] >= 1
      BY <2>5, <2>6, <3>2
    <3> QED  BY <2>1, <2>4, <3>1, <3>3 DEF EffectOf
  <2>8. CASE a # action
    <3>1. About(a)' = About(a) /\ Done(a)' = Done(a) /\ performed'[a] = performed[a]
      BY <1>10, <2>2, <2>3, <2>8
    <3> QED  BY <2>1, <3>1 DEF EffectOf
  <2> QED  BY <2>7, <2>8
<1> QED  BY <1>8, <1>11, <1>12 DEF EffectInv

\* The first to record the effect claims it; who comes later changes nothing.
LEMMA RecordKeeps ==
    ASSUME EvoInv, NEW w \in EffectWorkers, RecordEffect(w)
    PROVE  EvoTypeOK' /\ EffectInv'
<1>1. PICK action \in EffectActions : action = doing[w].action
  BY DEF EvoInv, EffectInv, RecordEffect
<1>2. PICK r : r = [pc |-> "idle", action |-> "none"]
  OBVIOUS
<1>3. r \in [pc : {"idle", "run", "record"}, action : EffectActions \cup {"none"}] /\ r.pc = "idle"
  BY <1>2
<1>10. PICK unused \in BOOLEAN : unused = FALSE
  OBVIOUS
<1>11. PICK e1 : e1 = <<action, unused>>
  OBVIOUS
<1>13. e1[1] = action
  BY <1>11
<1>12. PICK n : n = claims[action] + 1
  OBVIOUS
<1>4. /\ doing[w].pc = "record" /\ doing' = [doing EXCEPT ![w] = r]
      /\ NoEffect(action) => effects' = effects \cup {e1} /\ claims' = [claims EXCEPT ![action] = n]
      /\ ~NoEffect(action) => UNCHANGED <<effects, claims>>
      /\ UNCHANGED <<evolutionVars, boundaryVars, rows, performed, evoOps>>
  <2>1. NoEffect(action) <=> RecordsFirst(doing[w].action)
    BY <1>1 DEF NoEffect, RecordsFirst
  <2>2. CASE RecordsFirst(doing[w].action)
    <3>1. effects' = effects \cup {<<action, FALSE>>}
      BY <1>1, <2>2 DEF RecordEffect
    <3>2. <<action, FALSE>> = e1
      BY <1>10, <1>11, Zenon
    <3>3. claims' = [claims EXCEPT ![action] = n]
      BY <1>1, <1>12, <2>2 DEF RecordEffect, EvoInv, EvoTypeOK
    <3> QED  BY <1>2, <2>1, <2>2, <3>1, <3>2, <3>3 DEF RecordEffect
  <2>3. CASE ~RecordsFirst(doing[w].action)
    BY <1>2, <2>1, <2>3 DEF RecordEffect
  <2> QED  BY <2>2, <2>3
<1>5. performed[action] >= 1 /\ effects \subseteq EffectActions \X BOOLEAN /\ claims \in [EffectActions -> Nat]
  BY <1>1, <1>4 DEF EvoInv, EffectInv, EvoTypeOK
<1>6. EvoTypeOK'
  <2>3. n \in Nat /\ e1 \in EffectActions \X BOOLEAN
    BY <1>5, <1>11, <1>12
  <2>1. claims' \in [EffectActions -> Nat] /\ effects' \subseteq EffectActions \X BOOLEAN
    BY <1>4, <1>5, <2>3
  <2>2. doing' \in [EffectWorkers -> [pc : {"idle", "run", "record"}, action : EffectActions \cup {"none"}]]
    BY <1>3, <1>4 DEF EvoInv, EvoTypeOK
  <2> QED  BY <1>4, <2>1, <2>2 DEF EvoInv, EvoTypeOK, evolutionVars, boundaryVars
<1>7. \A x \in EffectWorkers : doing'[x] = IF x = w THEN r ELSE doing[x]
  BY <1>4 DEF EvoInv, EvoTypeOK
<1>8. \A x \in EffectWorkers : /\ doing'[x].pc # "idle" => doing'[x].action \in EffectActions
                               /\ doing'[x].pc = "record" => performed'[doing'[x].action] >= 1
  BY <1>3, <1>4, <1>7 DEF EvoInv, EffectInv
<1>9. ASSUME NEW a \in EffectActions PROVE EffectOf(a)'
  <2>1. EffectOf(a) /\ performed' = performed /\ evoOps' = evoOps
    BY <1>4 DEF EvoInv, EffectInv
  <2>2. About(a)' = About(a) \ {w} /\ Done(a)' = Done(a) \ {w}
    <3>1. /\ About(a)' = IF r.pc = "run" /\ r.action = a THEN About(a) \cup {w} ELSE About(a) \ {w}
          /\ Done(a)' = IF r.pc = "record" /\ r.action = a THEN Done(a) \cup {w} ELSE Done(a) \ {w}
      BY <1>4, WorkerMoves DEF EvoInv
    <3> QED  BY <1>3, <3>1
  <2>3. About(a)' = About(a) /\ (a # action => Done(a)' = Done(a))
    BY <1>1, <1>4, <2>2 DEF About, Done
  <2>4. CASE a # action
    <3>1. claims'[a] = claims[a] /\ {e \in effects' : e[1] = a} = {e \in effects : e[1] = a} /\ NoEffect(a)' = NoEffect(a)
      BY <1>4, <1>5, <1>13, <2>4 DEF NoEffect
    <3> QED  BY <2>1, <2>3, <2>4, <3>1 DEF EffectOf
  <2>5. CASE a = action /\ ~NoEffect(action)
    <3>1. claims' = claims /\ effects' = effects /\ NoEffect(a)' = NoEffect(a)
      BY <1>4, <2>5 DEF NoEffect
    <3> QED  BY <2>1, <2>3, <2>5, <3>1 DEF EffectOf
  <2>6. CASE a = action /\ NoEffect(action)
    <3>1. claims[a] = 0
      BY <2>1, <2>6 DEF EffectOf
    <3>2. claims'[a] = 1 /\ effects' = effects \cup {e1}
      BY <1>4, <1>5, <1>12, <2>6, <3>1
    <3>3. {e \in effects' : e[1] = a} = {<<a, unused>>}
      BY <1>11, <1>13, <2>6, <3>2 DEF NoEffect
    <3>4. ~NoEffect(a)'
      BY <1>13, <2>6, <3>2 DEF NoEffect
    <3> QED  BY <1>5, <2>1, <2>3, <2>6, <3>2, <3>3, <3>4 DEF EffectOf
  <2> QED  BY <2>4, <2>5, <2>6
<1> QED  BY <1>6, <1>8, <1>9 DEF EffectInv

\* The rows of the key are marked, and stay one to an action.
LEMMA ConsumeKeeps ==
    ASSUME EvoInv, ConsumeEffect
    PROVE  EvoTypeOK' /\ EffectInv'
<1>7. PICK yes \in BOOLEAN : yes = TRUE
  OBVIOUS
<1>1. effects' = {<<e[1], yes>> : e \in effects}
      /\ UNCHANGED <<evolutionVars, boundaryVars, rows, doing, performed, claims, evoOps>>
  <2>1. effects' = {<<e[1], TRUE>> : e \in effects}
    BY DEF ConsumeEffect
  <2>2. effects' = {<<e[1], yes>> : e \in effects}
    BY <1>7, <2>1, Zenon
  <2> QED  BY <2>2 DEF ConsumeEffect
<1>2. \A e \in effects : e[1] \in EffectActions
  BY DEF EvoInv, EvoTypeOK
<1>3. effects' \subseteq EffectActions \X BOOLEAN
  BY <1>1, <1>2
<1>4. EvoTypeOK'
  BY <1>1, <1>3 DEF EvoInv, EvoTypeOK, evolutionVars, boundaryVars
<1>5. \A x \in EffectWorkers : /\ doing'[x].pc # "idle" => doing'[x].action \in EffectActions
                               /\ doing'[x].pc = "record" => performed'[doing'[x].action] >= 1
  BY <1>1 DEF EvoInv, EffectInv
<1>6. ASSUME NEW a \in EffectActions PROVE EffectOf(a)'
  <2>1. EffectOf(a) /\ About(a)' = About(a) /\ Done(a)' = Done(a)
    BY <1>1 DEF EvoInv, EffectInv, About, Done
  <2>2. \A f \in effects' : f = <<f[1], yes>> /\ \E e \in effects : e[1] = f[1]
    BY <1>1
  <2>3. \A e \in effects : <<e[1], yes>> \in effects'
    BY <1>1
  <2>4. NoEffect(a)' <=> NoEffect(a)
    <3>1. CASE NoEffect(a)
      <4>1. NoEffect(a)'
        BY <2>2, <3>1 DEF NoEffect
      <4> QED  BY <3>1, <4>1
    <3>2. CASE ~NoEffect(a)
      <4>1. PICK e \in effects : e[1] = a
        BY <3>2 DEF NoEffect
      <4>2. PICK f \in effects' : f = <<e[1], yes>>
        BY <2>3
      <4>3. f[1] = a
        BY <4>1, <4>2
      <4>4. ~NoEffect(a)'
        BY <4>2, <4>3 DEF NoEffect
      <4> QED  BY <3>2, <4>4
    <3> QED  BY <3>1, <3>2
  <2>5. ~NoEffect(a) => {e \in effects' : e[1] = a} = {<<a, yes>>}
    <3>1. SUFFICES ASSUME ~NoEffect(a) PROVE {e \in effects' : e[1] = a} = {<<a, yes>>}
      OBVIOUS
    <3>2. PICK e \in effects : e[1] = a
      BY <3>1 DEF NoEffect
    <3>3. <<a, yes>> \in effects' /\ <<a, yes>>[1] = a
      BY <2>3, <3>2
    <3> QED  BY <2>2, <3>3
  <2> QED  BY <1>1, <2>1, <2>4, <2>5 DEF EffectOf
<1> QED  BY <1>4, <1>5, <1>6 DEF EffectInv

\* After a restart nobody is at work, and every worker may run each effect once more.
LEMMA DurableRestartKeeps ==
    ASSUME EvoInv, DurableRestarts
    PROVE  EvoTypeOK' /\ EffectInv'
<1>1. PICK r : r = [pc |-> "idle", action |-> "none"]
  OBVIOUS
<1>2. r \in [pc : {"idle", "run", "record"}, action : EffectActions \cup {"none"}] /\ r.pc = "idle"
  BY <1>1
<1>3. doing' = [w \in EffectWorkers |-> r] /\ UNCHANGED <<evolutionVars, boundaryVars, rows, effects, performed, claims>>
      /\ evoOps' = evoOps + 1 /\ evoOps \in Nat
  BY <1>1 DEF DurableRestarts, EvoCounted, EvoInv, EvoTypeOK
<1>4. EvoTypeOK'
  BY <1>2, <1>3 DEF EvoInv, EvoTypeOK, evolutionVars, boundaryVars
<1>5. \A x \in EffectWorkers : doing'[x].pc = "idle"
  BY <1>2, <1>3
<1>6. ASSUME NEW a \in EffectActions PROVE EffectOf(a)'
  <2>1. EffectOf(a) /\ NoEffect(a)' = NoEffect(a) /\ performed' = performed /\ claims' = claims /\ effects' = effects
    BY <1>3 DEF EvoInv, EffectInv, NoEffect
  <2>2. About(a)' = {} /\ Done(a)' = {}
    BY <1>5 DEF About, Done
  <2>3. Cardinality(About(a)') = 0 /\ Cardinality(Done(a)') = 0
    BY <2>2, FS_EmptySet
  <2>4. PICK m, k, x : m = evoOps /\ k = Cardinality(EffectWorkers) /\ x = Cardinality(About(a))
    OBVIOUS
  <2>5. m \in Nat /\ k \in Nat /\ x \in Nat /\ performed[a] \in Nat
    BY <2>4, WorkersCounted DEF EvoInv, EvoTypeOK
  <2>6. (m + 1 + 1) * k = (m + 1) * k + k /\ (m + 1) * k \in Nat
    BY <2>5, Allowance
  <2>7. performed[a] + x <= (m + 1) * k
    BY <2>1, <2>4 DEF EffectOf
  <2>8. performed[a] + 0 <= (m + 1 + 1) * k /\ performed[a] <= (m + 1) * k + 0
    BY <2>5, <2>6, <2>7
  <2> QED  BY <1>3, <2>1, <2>3, <2>4, <2>8 DEF EffectOf
<1> QED  BY <1>4, <1>5, <1>6 DEF EffectInv

------------------------------------------------------------------------------
(* The three together. *)

\* Every step keeps the invariant.
LEMMA EvoStep == EvoInv /\ [EvoNext]_evoVars => EvoInv'
<1> SUFFICES ASSUME EvoInv, [EvoNext]_evoVars
             PROVE  EvoInv'
  OBVIOUS
<1>1. CASE UNCHANGED evoVars
  <2>1. /\ UNCHANGED evolutionVars /\ UNCHANGED boundaryVars /\ UNCHANGED <<rows, effects, doing, performed, claims>>
        /\ evoOps' = evoOps
    BY <1>1 DEF evoVars, durableVars
  <2>2. EvoTypeOK'
    BY <2>1 DEF EvoInv, EvoTypeOK, evolutionVars, boundaryVars
  <2> QED  BY <2>1, <2>2, LifecycleStays, VetoStays, RowsStay, EffectsStay DEF EvoInv
<1>2. CASE EvolutionNext
  <2>1. UNCHANGED boundaryVars /\ UNCHANGED durableVars /\ evoOps' \in {evoOps, evoOps + 1}
    BY <1>2 DEF EvolutionNext, CollectCandidate, EvaluateProposal, ApplyEvolution, RejectProposal, VerifyEvolution,
       ArchiveEvolution, Lifecycle, EvoCounted
  <2> QED  BY <1>2, <2>1, EvolutionKeeps, VetoStays, RowsStay, EffectsStay DEF EvoInv, durableVars
<1>3. CASE BoundaryNext
  <2>1. UNCHANGED evolutionVars /\ UNCHANGED durableVars /\ evoOps' \in {evoOps, evoOps + 1}
    BY <1>3 DEF BoundaryNext, RevokeVeto, Veto, BoundaryRestarts, EvoCounted
  <2> QED  BY <1>3, <2>1, BoundaryKeeps, LifecycleStays, RowsStay, EffectsStay DEF EvoInv, durableVars
<1>4. ASSUME NEW id \in 1..MaxStep, NEW step \in 1..MaxStep, SaveCheckpoint(id, step) \/ DeleteCheckpoint(id)
      PROVE  EvoInv'
  <2>1. UNCHANGED evolutionVars /\ UNCHANGED boundaryVars /\ UNCHANGED <<effects, doing, performed, claims>>
        /\ evoOps' \in {evoOps, evoOps + 1}
    BY <1>4 DEF SaveCheckpoint, DeleteCheckpoint, EvoCounted
  <2>2. step \in Nat
    OBVIOUS
  <2> QED  BY <1>4, <2>1, <2>2, SaveKeeps, DeleteKeeps, LifecycleStays, VetoStays, EffectsStay DEF EvoInv
<1>5. ASSUME \/ \E w \in EffectWorkers : Perform(w) \/ RecordEffect(w) \/ \E a \in EffectActions : CheckDuplicate(w, a)
             \/ ConsumeEffect \/ DurableRestarts
      PROVE  EvoInv'
  <2>1. UNCHANGED evolutionVars /\ UNCHANGED boundaryVars /\ UNCHANGED rows
    BY <1>5 DEF Perform, RecordEffect, CheckDuplicate, ConsumeEffect, DurableRestarts
  <2>2. EvoTypeOK' /\ EffectInv'
    BY <1>5, CheckKeeps, PerformKeeps, RecordKeeps, ConsumeKeeps, DurableRestartKeeps
  <2> QED  BY <2>1, <2>2, LifecycleStays, VetoStays, RowsStay DEF EvoInv
<1> QED  BY <1>1, <1>2, <1>3, <1>4, <1>5 DEF EvoNext, DurableNext

\* Evolution, boundary and durable store start in their invariant.
LEMMA EvoStarts == EvoInit => EvoInv
<1> SUFFICES ASSUME EvoInit PROVE EvoInv
  OBVIOUS
<1>1. /\ DOMAIN rows = {} /\ IsFiniteSet(DOMAIN rows) /\ effects = {} /\ lost = {} /\ evoOps = 0
      /\ DOMAIN recorded = {} /\ <<>> \in Seq(Proposals \X {"APPLIED", "VERIFIED", "ARCHIVED"})
  BY FS_EmptySet DEF EvoInit
<1>2. EvoTypeOK
  <2>1. Fresh \in [status : {"none", "DRAFT", "APPROVED", "APPROVAL_REQUIRED", "APPLIED", "VERIFIED", "ARCHIVED"},
                   conf : Nat, risk : Nat, rejected : BOOLEAN]
    BY DEF Fresh
  <2> QED  BY <1>1, <2>1 DEF EvoInit, EvoTypeOK
<1>3. LifecycleInv
  <2>1. \A p \in Proposals : proposal[p].rejected = FALSE /\ proposal[p].status = "none"
    BY DEF EvoInit, Fresh
  <2>2. \A p, s : Entries(p, s) = {}
    BY <1>1 DEF Entries
  <2> QED  BY <2>1, <2>2, FS_EmptySet DEF LifecycleInv
<1>4. VetoInv
  BY DEF EvoInit, VetoInv
<1>5. NumberedRows
  <2>1. Newest = 0
    BY <1>1, FS_EmptySet DEF Newest
  <2> QED  BY <1>1, <2>1 DEF NumberedRows
<1>6. EffectInv
  <2>1. \A w \in EffectWorkers : doing[w].pc = "idle"
    BY DEF EvoInit
  <2>2. ASSUME NEW a \in EffectActions PROVE EffectOf(a)
    <3>1. About(a) = {} /\ Done(a) = {} /\ NoEffect(a) /\ claims[a] = 0 /\ performed[a] = 0
      BY <1>1, <2>1 DEF About, Done, NoEffect, EvoInit
    <3>2. Cardinality(About(a)) = 0 /\ Cardinality(Done(a)) = 0
      BY <3>1, FS_EmptySet
    <3>3. PICK k \in Nat : k = Cardinality(EffectWorkers)
      BY WorkersCounted
    <3>4. 0 + 0 <= (0 + 1) * k /\ 0 <= 0 * k + 0
      OBVIOUS
    <3> QED  BY <1>1, <3>1, <3>2, <3>3, <3>4 DEF EffectOf
  <2> QED  BY <2>1, <2>2 DEF EffectInv
<1> QED  BY <1>2, <1>3, <1>4, <1>5, <1>6 DEF EvoInv

\* The invariant implies what the run checks.
LEMMA EvoEnough == EvoInv => EvolutionSound
<1> SUFFICES ASSUME EvoInv PROVE EvolutionSound
  OBVIOUS
<1>1. \A p \in Proposals : proposal[p].rejected => proposal[p].status \notin {"APPROVED", "APPLIED", "VERIFIED"}
  BY DEF EvoInv, LifecycleInv
<1>2. ASSUME NEW p \in Proposals
      PROVE  Cardinality({i \in DOMAIN recorded : recorded[i] = <<p, "VERIFIED">>}) <=
             Cardinality({i \in DOMAIN recorded : recorded[i] = <<p, "APPLIED">>})
  BY DEF EvoInv, LifecycleInv, Entries
<1>3. ASSUME NEW a \in BoundActions \ lost
      PROVE  vetoRows[a] = "active" <=> \A list \in {"allowed", "approval", "none"} : BoundaryCheck(a, list, 1) = "HALT"
  <2>1. vetoRows[a] = "active" <=> vetoes[a] = "active"
    BY DEF EvoInv, VetoInv
  <2>2. ASSUME vetoes[a] = "active", NEW list \in {"allowed", "approval", "none"}
        PROVE  BoundaryCheck(a, list, 1) = "HALT"
    BY <2>2 DEF BoundaryCheck
  <2>3. vetoes[a] # "active" => BoundaryCheck(a, "allowed", 1) # "HALT"
    BY DEF BoundaryCheck
  <2> QED  BY <2>1, <2>2, <2>3
<1>4. ASSUME NEW a \in EffectActions
      PROVE  /\ claims[a] = Cardinality({e \in effects : e[1] = a}) /\ claims[a] <= 1
             /\ claims[a] <= performed[a]
             /\ performed[a] <= (evoOps + 1) * Cardinality(EffectWorkers)
  <2>1. EffectOf(a) /\ performed[a] \in Nat
    BY DEF EvoInv, EffectInv, EvoTypeOK
  <2>2. performed[a] <= (evoOps + 1) * Cardinality(EffectWorkers)
    <3>1. PICK x, n : x = Cardinality(About(a)) /\ n = (evoOps + 1) * Cardinality(EffectWorkers)
      OBVIOUS
    <3>2. x \in Nat /\ n \in Nat
      BY <3>1, WorkersCounted, Allowance DEF EvoInv, EvoTypeOK
    <3>3. performed[a] + x <= n
      BY <2>1, <3>1 DEF EffectOf
    <3> QED  BY <2>1, <3>1, <3>2, <3>3
  <2>3. CASE NoEffect(a)
    <3>1. {e \in effects : e[1] = a} = {}
      BY <2>3 DEF NoEffect
    <3>2. claims[a] = 0
      BY <2>1, <2>3 DEF EffectOf
    <3>3. Cardinality({e \in effects : e[1] = a}) = 0
      BY <3>1, FS_EmptySet
    <3> QED  BY <2>1, <2>2, <3>2, <3>3
  <2>4. CASE ~NoEffect(a)
    <3>1. PICK b \in BOOLEAN : {e \in effects : e[1] = a} = {<<a, b>>}
      BY <2>1, <2>4 DEF EffectOf
    <3>2. Cardinality({e \in effects : e[1] = a}) = 1
      BY <3>1, FS_Singleton
    <3> QED  BY <2>1, <2>2, <2>4, <3>2 DEF EffectOf
  <2> QED  BY <2>3, <2>4
<1>5. DOMAIN rows # {} => Cardinality(Recovered) = 1
  BY OneNewest DEF EvoInv
<1> QED  BY <1>1, <1>2, <1>3, <1>4, <1>5 DEF EvolutionSound

\* A rejected proposal is not applied, a verification takes an application, a veto
\* halts while its row is open, and an effect is claimed once and run at most once by
\* each worker between restarts (brain/evolution_engine.py, brain/evolution/boundary.py,
\* brain/runtime/persistent_runtime.py).
THEOREM EvolutionTheorem == EvoSpec => []EvolutionSound
  BY EvoStarts, EvoStep, EvoEnough, PTL DEF EvoSpec

------------------------------------------------------------------------------
(* The suite: the component in focus moves and the others stay. *)

\* A behaviour of the suite is one of each of its components.
LEMMA SuiteRuns ==
    /\ SuiteSpec => BrainMemorySpec
    /\ SuiteSpec => SoulSpec
    /\ SuiteSpec => IntelSpec
    /\ SuiteSpec => EvoSpec
    /\ SuiteSpec => AdaptiveSpec
    /\ SuiteSpec => CouncilSpec
<1>1. SuiteInit => /\ BrainMemoryInit /\ SoulInit /\ IntelInit /\ EvoInit
                   /\ AdaptiveInit /\ CouncilInit
  BY DEF SuiteInit
<1>2. [SuiteNext]_suiteVars => /\ [BrainMemoryNext]_brainVars /\ [SoulNext]_soulVars
                               /\ [IntelNext]_intelVars /\ [EvoNext]_evoVars
                               /\ [AdaptiveNext]_adaptiveVars /\ [CouncilNext]_councilVars
  <2>1. CASE UNCHANGED suiteVars
    BY <2>1 DEF suiteVars
  <2>2. CASE SuiteNext
    BY <2>2 DEF SuiteNext, Elsewhere, Orchestrates, Adapts, Deliberates, Remembers, Matures,
                Assesses, Evolves, Bounds, Persists, EvoNext
  <2> QED  BY <2>1, <2>2
<1> QED  BY <1>1, <1>2, PTL DEF SuiteSpec, BrainMemorySpec, SoulSpec, IntelSpec, EvoSpec,
                                AdaptiveSpec, CouncilSpec

\* A team works with the verification its risk calls for and the council passes no
\* gate a seat has refused in every behaviour of the suite (adaptive_runtime.py, council).
THEOREM TeamsTheorem == SuiteSpec => []TeamsSound
<1>1. AdaptiveSound /\ CouncilSound => TeamsSound
  BY DEF TeamsSound
<1> QED  BY <1>1, SuiteRuns, AdaptiveTheorem, CouncilTheorem, PTL

\* Memory and character rest on what was verified in every behaviour of the suite
\* (brain/memory, brain/soul).
THEOREM MindTheorem == SuiteSpec => []MindSound
<1>1. BrainMemorySound /\ SoulSound => MindSound
  BY DEF MindSound
<1> QED  BY <1>1, SuiteRuns, BrainMemoryTheorem, SoulTheorem, PTL

\* Assessments, proposals, vetoes and durable effects keep what was recorded about
\* them in every behaviour of the suite (brain/intelligence, brain/evolution).
THEOREM JudgementTheorem == SuiteSpec => []JudgementSound
<1>1. IntelligenceSound /\ EvolutionSound => JudgementSound
  BY DEF JudgementSound
<1> QED  BY <1>1, SuiteRuns, IntelligenceTheorem, EvolutionTheorem, PTL
=============================================================================
