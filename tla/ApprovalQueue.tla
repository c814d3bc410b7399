---------------------------- MODULE ApprovalQueue ---------------------------
(***************************************************************************)
(* The human approval queue of src/nexara_prime/orchestration.py, which is *)
(* a second approval mechanism beside the ApprovalEngine of governance.py: *)
(* its records are saved without comparing, except that consume() swaps    *)
(* the status from approved to consumed atomically.                        *)
(*                                                                         *)
(* approve, reject, revoke, consume and expire_stale each read the record  *)
(* and write it later; a call takes one step per access to the store and   *)
(* may stop after any of them, which is also what a crash of its process   *)
(* looks like.  Of the record only its status is kept: no other field is   *)
(* read by the code.                                                       *)
(***************************************************************************)
EXTENDS Naturals, FiniteSets

CONSTANTS
    Requests,      \* approval ids
    ApprovalCalls, \* calls of the queue's operations; each runs once
    ApprovalOp,    \* call -> its operation
    ApprovalArg    \* call -> the request it is about

ASSUME ApprovalQueueAssumption ==
    /\ IsFiniteSet(ApprovalCalls)
    /\ ApprovalOp \in [ApprovalCalls ->
                          {"approve", "reject", "revoke", "consume", "expire"}]
    /\ ApprovalArg \in [ApprovalCalls -> Requests]

VARIABLES
    request,  \* request -> status of its record
    overdue,  \* the requests whose expires_at has passed
    acall,    \* call -> what it does next, and the status it will write
    receipts, \* the requests with an approval_receipt in the evidence store
    granted,  \* history: the approve calls that wrote their decision
    used      \* history: the consume calls that won

approvalVars == <<request, overdue, acall, receipts, granted, used>>

RequestStatus == {"absent", "pending", "approved", "rejected", "expired",
                  "consumed"}

ApprovalPC == {"check", "decide", "save", "swap", "receipt", "done"}

\* The types of the queue's variables.
ApprovalTypeOK ==
    /\ request \in [Requests -> RequestStatus]
    /\ overdue \subseteq Requests
    /\ acall \in [ApprovalCalls -> [pc : ApprovalPC, status : RequestStatus]]
    /\ receipts \subseteq Requests
    /\ granted \subseteq ApprovalCalls
    /\ used \subseteq ApprovalCalls

\* A call that has not begun is at its first access: revoke and consume check
\* the record before they do anything else.
ApprovalInit ==
    /\ request = [r \in Requests |-> "absent"]
    /\ overdue = {}
    /\ acall = [c \in ApprovalCalls |->
                   [pc |-> IF ApprovalOp[c] \in {"revoke", "consume"}
                           THEN "check" ELSE "decide",
                    status |-> "absent"]]
    /\ receipts = {}
    /\ granted = {}
    /\ used = {}

Goes(c, pc) == acall' = [acall EXCEPT ![c].pc = pc]

-----------------------------------------------------------------------------
CreateRequest(r) ==
    /\ request[r] = "absent"
    /\ request' = [request EXCEPT ![r] = "pending"]
    /\ UNCHANGED <<overdue, acall, receipts, granted, used>>

\* The clock passes expires_at.
ExpiresAtPasses(r) ==
    /\ request[r] # "absent"
    /\ overdue' = overdue \cup {r}
    /\ UNCHANGED <<request, acall, receipts, granted, used>>

\* revoke refuses a consumed request, consume all but an approved one.
Check(c) ==
    LET r == ApprovalArg[c]
        refused == \/ request[r] = "absent"
                   \/ ApprovalOp[c] = "revoke" /\ request[r] = "consumed"
                   \/ ApprovalOp[c] = "consume" /\ request[r] # "approved"
    IN  /\ acall[c].pc = "check"
        /\ Goes(c, IF refused THEN "done" ELSE IF ApprovalOp[c] = "revoke" THEN "decide" ELSE "swap")
        /\ UNCHANGED <<request, overdue, receipts, granted, used>>

\* _decide, its reads: approve and reject need a pending request and find it
\* expired when it is overdue; a revoke is not checked again.  expire_stale
\* looks for overdue pending requests.
DecideTo(c) ==
    IF ApprovalOp[c] = "revoke" THEN "pending"
    ELSE IF ApprovalArg[c] \in overdue THEN "expired"
    ELSE IF ApprovalOp[c] = "approve" THEN "approved" ELSE "rejected"

DecideRequest(c) ==
    LET r == ApprovalArg[c]
        refused == \/ request[r] = "absent"
                   \/ ApprovalOp[c] # "revoke" /\ request[r] # "pending"
                   \/ ApprovalOp[c] = "expire" /\ r \notin overdue
    IN  /\ acall[c].pc = "decide"
        /\ acall' = [acall EXCEPT ![c] =
                        IF refused THEN [@ EXCEPT !.pc = "done"]
                        ELSE [pc |-> "save", status |-> DecideTo(c)]]
        /\ UNCHANGED <<request, overdue, receipts, granted, used>>

\* _decide, its write.
SaveDecision(c) ==
    /\ acall[c].pc = "save"
    /\ request' = [request EXCEPT ![ApprovalArg[c]] = acall[c].status]
    /\ granted' = IF acall[c].status = "approved" THEN granted \cup {c}
                                                  ELSE granted
    /\ Goes(c, "done")
    /\ UNCHANGED <<overdue, receipts, used>>

\* mutant: consume saves without comparing, like the other operations.
SwapBlindly(c) ==
    /\ acall[c].pc = "swap"
    /\ request' = [request EXCEPT ![ApprovalArg[c]] = "consumed"]
    /\ used' = used \cup {c}
    /\ Goes(c, "receipt")
    /\ UNCHANGED <<overdue, receipts, granted>>

\* consume, compare_and_set_record_field.
Swap(c) ==
    LET r == ApprovalArg[c]
    IN  /\ acall[c].pc = "swap"
        /\ IF request[r] = "approved"
           THEN /\ request' = [request EXCEPT ![r] = "consumed"]
                /\ used' = used \cup {c}
                /\ Goes(c, "receipt")
           ELSE /\ Goes(c, "done")
                /\ UNCHANGED <<request, used>>
        /\ UNCHANGED <<overdue, receipts, granted>>

\* consume, the evidence receipt (its idempotency key is the approval id).
AddApprovalReceipt(c) ==
    /\ acall[c].pc = "receipt"
    /\ receipts' = receipts \cup {ApprovalArg[c]}
    /\ Goes(c, "done")
    /\ UNCHANGED <<request, overdue, granted, used>>

\* expire_stale within the orchestrator's cycle: it lists the overdue pending
\* requests and saves each as expired.
Sweepable == {r \in overdue : request[r] = "pending"}

SweepRequest(r) ==
    /\ request' = [request EXCEPT ![r] = "expired"]
    /\ UNCHANGED <<overdue, acall, receipts, granted, used>>

ApprovalStep(c) ==
    \/ Check(c) \/ DecideRequest(c) \/ SaveDecision(c) \/ Swap(c)
    \/ AddApprovalReceipt(c)

ApprovalNext ==
    \/ \E r \in Requests : CreateRequest(r) \/ ExpiresAtPasses(r)
    \/ \E c \in ApprovalCalls : ApprovalStep(c)

ApprovalSpec == ApprovalInit /\ [][ApprovalNext]_approvalVars

-----------------------------------------------------------------------------
(* Properties *)

UsesOf(r)   == {c \in used : ApprovalArg[c] = r}
GrantsOf(r) == {c \in granted : ApprovalArg[c] = r}

\* Every consumption has an approval of its own: a request is never consumed
\* more often than it was approved, and one that is still approved has an
\* approval left, whatever decisions, revocations and consumptions race; a
\* receipt stands for a consumption that happened.
\* (_decide writes blindly; only consume's compare-and-set protects this.)
ConsumptionIsGranted ==
    \A r \in Requests :
        /\ Cardinality(UsesOf(r)) <= Cardinality(GrantsOf(r))
        /\ request[r] = "approved" =>
              Cardinality(UsesOf(r)) < Cardinality(GrantsOf(r))
        /\ r \in receipts => UsesOf(r) # {}
=============================================================================
