---------------------------- MODULE ToolRuntime ----------------------------
(***************************************************************************)
(* ToolRuntime.invoke() of src/nexara_prime/tools.py for the tools that    *)
(* need an approval (file_write_report, write_workspace_file), composed    *)
(* with the approval engine.  Calls come from the background mission       *)
(* threads, the API threads and the CLI, all on one store, and a crash may *)
(* fall between any two of them.  One step is one access to the store or   *)
(* to the file system.                                                     *)
(*                                                                         *)
(* A call is identified by its trace; a retry is another call with the     *)
(* same idempotency key.  A call without key uses its task id as use id;   *)
(* here all of them share one task, the worst case, so NoKey is that use.  *)
(***************************************************************************)
EXTENDS ApprovalEngine

CONSTANTS
    Calls,       \* invocations; each runs once
    Keys,        \* idempotency keys
    NoKey,       \* idempotency_key = None
    Args         \* canonical tool arguments

ASSUME ToolAssumption ==
    /\ NoKey \notin Keys
    /\ Uses = Keys \cup {NoKey}
    /\ None \notin Calls

VARIABLES
    pc,          \* call -> the step it has reached
    req,         \* call -> what it was asked to do
    seen,        \* call -> the approval record it last read
    claimOK,     \* call -> the result of _claim_approved_action
    claim,       \* key -> the tool_claim record, or NoClaim
    ran,         \* the calls whose side effect happened (observation only)
    tool,        \* call -> status of its stored tool record, or "none"
    toolEvt,     \* key -> the call named by the tool.invoked event, or None
    receipt,     \* key -> the call named by the receipt evidence, or None
    bound        \* calls whose stored record carries the receipt's id

callVars == <<pc, req, seen, claimOK, ran, tool, toolEvt, receipt, bound>>
toolVars == <<pc, req, seen, claimOK, claim, ran, tool, toolEvt, receipt, bound>>
vars     == <<engineVars, toolVars>>

ToolRequest == [approval : Approvals, key : Uses, args : Args, actor : Actors]
NoClaim     == [approval |-> None, args |-> None, actor |-> None]
ClaimRecord == [approval : Approvals, args : Args, actor : Actors]

Running == {"looked", "validated", "claimed", "consuming", "authorised",
            "ran", "failed", "recorded", "published", "evidenced"}
Ended   == {"replayed", "returned", "denied", "raised", "crashed"}
PC      == {"new"} \cup Running \cup Ended

TypeOK ==
    /\ EngineTypeOK
    /\ pc      \in [Calls -> PC]
    /\ req     \in [Calls -> ToolRequest]
    /\ seen    \in [Calls -> ApprovalRecord]
    /\ claimOK \in [Calls -> BOOLEAN]
    /\ claim   \in [Keys -> ClaimRecord \cup {NoClaim}]
    /\ ran     \in SUBSET Calls
    /\ tool    \in [Calls -> {"none", "completed", "failed"}]
    /\ toolEvt \in [Keys -> Calls \cup {None}]
    /\ receipt \in [Keys -> Calls \cup {None}]
    /\ bound   \in SUBSET Calls

Init ==
    /\ EngineInit
    /\ pc      = [c \in Calls |-> "new"]
    /\ req     \in [Calls -> ToolRequest]
    /\ seen    = [c \in Calls |-> Undecided("absent")]
    /\ claimOK = [c \in Calls |-> FALSE]
    /\ claim   = [k \in Keys |-> NoClaim]
    /\ ran     = {}
    /\ tool    = [c \in Calls |-> "none"]
    /\ toolEvt = [k \in Keys |-> None]
    /\ receipt = [k \in Keys |-> None]
    /\ bound   = {}

Goto(c, to) == pc' = [pc EXCEPT ![c] = to]

Keyed(c) == req[c].key \in Keys

(***************************************************************************)
(* invoke(): _existing() looks the key up among the stored tool records    *)
(* and returns the one it finds, a failed one too, then the policy check.  *)
(* The arguments of these two tools may differ between retries, so a       *)
(* record with other arguments is a replay as well.                        *)
(***************************************************************************)
Existing(c) == /\ Keyed(c)
               /\ \E o \in Calls : tool[o] # "none" /\ req[o].key = req[c].key

Invoke(c) ==
    /\ pc[c] = "new"
    /\ \/ Existing(c) /\ Goto(c, "replayed")
       \/ ~Existing(c) /\ Goto(c, "looked")
       \/ ~Existing(c) /\ Goto(c, "denied")      \* safe_mode
    /\ UNCHANGED <<engineVars, req, seen, claimOK, claim, ran, tool, toolEvt,
                   receipt, bound>>

(***************************************************************************)
(* _validate_approval() up to the claim: one read of the approval.         *)
(***************************************************************************)
Usable(c) ==
    LET a == req[c].approval
    IN  /\ Readable(a)
        /\ Executor[a] \in {None, req[c].actor}
        /\ approval[a].status \in {"approved", "consumed"}
        /\ approval[a].status = "approved" => ~late[a]

ValidateApproval(c) ==
    /\ pc[c] = "looked"
    /\ Goto(c, IF Usable(c) THEN "validated" ELSE "denied")
    /\ seen' = [seen EXCEPT ![c] = approval[req[c].approval]]
    /\ UNCHANGED <<engineVars, req, claimOK, claim, ran, tool, toolEvt,
                   receipt, bound>>

(***************************************************************************)
(* _claim_approved_action(): insert the claim if absent while the approval *)
(* was seen approved, otherwise compare.  The tool's name and the mission  *)
(* are those of the approval, the use id is the key.                       *)
(***************************************************************************)
ClaimOf(c) == [approval |-> req[c].approval, args |-> req[c].args,
               actor |-> req[c].actor]

ClaimComparesNothing(c, create) ==     \* mutant: any stored claim will do
    IF Keyed(c) THEN claim'[req[c].key] # NoClaim ELSE create

ClaimUnkeyedHolds(c, create) ==        \* mutant: no key, no claim, no refusal
    IF Keyed(c) THEN claim'[req[c].key] = ClaimOf(c) ELSE TRUE

ClaimHolds(c, create) ==
    IF Keyed(c) THEN claim'[req[c].key] = ClaimOf(c) ELSE create

ClaimApprovedAction(c) ==
    LET k      == req[c].key
        create == seen[c].status = "approved"
    IN  /\ pc[c] = "validated"
        /\ Goto(c, "claimed")
        /\ claim' = IF Keyed(c) /\ create /\ claim[k] = NoClaim
                    THEN [claim EXCEPT ![k] = ClaimOf(c)]
                    ELSE claim
        /\ claimOK' = [claimOK EXCEPT ![c] = ClaimHolds(c, create)]
        /\ UNCHANGED <<engineVars, req, seen, ran, tool, toolEvt, receipt, bound>>

(***************************************************************************)
(* The rest of _validate_approval().  A call that saw the approval         *)
(* consumed replays it and needs its claim and the consumption event; one  *)
(* that saw it approved consumes it, whatever the claim said; one under a  *)
(* mission-wide approval consumes nothing.                                 *)
(***************************************************************************)
AuthoriseReplay(c) ==
    /\ pc[c] = "claimed"
    /\ seen[c].status = "consumed"
    /\ Goto(c, IF /\ claimOK[c]
                  /\ ConsumptionMatches(req[c].approval, seen[c],
                                        req[c].actor, req[c].key)
               THEN "authorised" ELSE "denied")
    /\ UNCHANGED <<engineVars, req, seen, claimOK, claim, ran, tool, toolEvt,
                   receipt, bound>>

ConsumeRead(c) ==
    LET a == req[c].approval
    IN  /\ pc[c] = "claimed"
        /\ seen[c].status = "approved"
        /\ Goto(c, CASE Scope[a] # "single_action" -> "authorised"
                     [] ConsumeReadable(a, req[c].actor) -> "consuming"
                     [] OTHER -> "denied")
        /\ seen' = IF Scope[a] = "single_action"
                   THEN [seen EXCEPT ![c] = approval[a]] ELSE seen
        /\ UNCHANGED <<engineVars, req, claimOK, claim, ran, tool, toolEvt,
                       receipt, bound>>

ConsumeCommit(c) ==
    LET a == req[c].approval
    IN  /\ pc[c] = "consuming"
        /\ \/ /\ ConsumeCommits(a, seen[c])
              /\ Consume(a, req[c].actor, req[c].key)
              /\ Goto(c, "authorised")
           \/ /\ ~ConsumeCommits(a, seen[c])
              /\ Goto(c, "denied")
              /\ UNCHANGED engineVars
        /\ UNCHANGED <<req, seen, claimOK, claim, ran, tool, toolEvt, receipt,
                       bound>>

(***************************************************************************)
(* The side effect, which may fail, and the writes that report it: the     *)
(* tool record, the tool.invoked event, the receipt evidence, the record   *)
(* again with the receipt's id.  The event and the evidence carry keys     *)
(* derived from the idempotency key: the event of another call is returned *)
(* silently, its evidence is a conflict that is raised.                    *)
(***************************************************************************)
SideEffect(c) ==
    /\ pc[c] = "authorised"
    /\ \/ Goto(c, "ran") /\ ran' = ran \cup {c}
       \/ Goto(c, "failed") /\ ran' = ran
    /\ UNCHANGED <<engineVars, req, seen, claimOK, claim, tool, toolEvt,
                   receipt, bound>>

SaveRecord(c) ==
    /\ pc[c] \in {"ran", "failed"}
    /\ Goto(c, "recorded")
    /\ tool' = [tool EXCEPT ![c] = IF pc[c] = "ran" THEN "completed"
                                                   ELSE "failed"]
    /\ UNCHANGED <<engineVars, req, seen, claimOK, claim, ran, toolEvt,
                   receipt, bound>>

PublishEvent(c) ==
    LET k == req[c].key
    IN  /\ pc[c] = "recorded"
        /\ Goto(c, "published")
        /\ toolEvt' = IF Keyed(c) /\ toolEvt[k] = None
                      THEN [toolEvt EXCEPT ![k] = c] ELSE toolEvt
        /\ UNCHANGED <<engineVars, req, seen, claimOK, claim, ran, tool,
                       receipt, bound>>

ReceiptReplaced(c) == FALSE            \* mutant: the last receipt wins

ReceiptClash(c) == Keyed(c) /\ receipt[req[c].key] # None

AddReceipt(c) ==
    LET k     == req[c].key
        clash == ReceiptClash(c)
    IN  /\ pc[c] = "published"
        /\ Goto(c, IF clash THEN "raised" ELSE "evidenced")
        /\ receipt' = IF Keyed(c) /\ ~clash THEN [receipt EXCEPT ![k] = c]
                                            ELSE receipt
        /\ UNCHANGED <<engineVars, req, seen, claimOK, claim, ran, tool,
                       toolEvt, bound>>

BindReceipt(c) ==
    /\ pc[c] = "evidenced"
    /\ Goto(c, IF tool[c] = "completed" THEN "returned" ELSE "raised")
    /\ bound' = bound \cup {c}
    /\ UNCHANGED <<engineVars, req, seen, claimOK, claim, ran, tool, toolEvt,
                   receipt>>

(***************************************************************************)
(* The process dies: every call in progress is lost, the store is kept.    *)
(***************************************************************************)
Crash ==
    /\ \/ \E c \in Calls : pc[c] \in Running
       \/ \E d \in Decides : decide[d].pc = "commit"
    /\ pc' = [c \in Calls |-> IF pc[c] \in Running THEN "crashed" ELSE pc[c]]
    /\ decide' = [d \in Decides |->
                    IF decide[d].pc = "commit"
                    THEN [decide[d] EXCEPT !.pc = "crashed"] ELSE decide[d]]
    /\ UNCHANGED <<approval, decidedEvt, expiredEvt, consumedEvt, late, req,
                   seen, claimOK, claim, ran, tool, toolEvt, receipt, bound>>

CallStep(c) ==
    \/ Invoke(c) \/ ValidateApproval(c) \/ ClaimApprovedAction(c)
    \/ AuthoriseReplay(c) \/ ConsumeRead(c) \/ ConsumeCommit(c)
    \/ SideEffect(c) \/ SaveRecord(c) \/ PublishEvent(c) \/ AddReceipt(c)
    \/ BindReceipt(c)

Next ==
    \/ EngineStep /\ UNCHANGED toolVars
    \/ \E c \in Calls : CallStep(c)
    \/ Crash

Spec == Init /\ [][Next]_vars

-----------------------------------------------------------------------------
(***************************************************************************)
(* Safety.                                                                 *)
(***************************************************************************)

\* Whatever ran under a single-action approval ran for the one actor and the
\* one use that consumed it: consume_single_action and consumption_matches
\* let no second use through, whatever the interleaving or the crash.
SingleUse ==
    \A c \in ran :
        Scope[req[c].approval] = "single_action" =>
            consumedEvt[req[c].approval] =
                [actor |-> req[c].actor, use |-> req[c].key]

\* A call without idempotency key leaves no claim to replay, so a
\* single-action approval runs at most one such call, even if all of them
\* share a task id and the first one crashed before it stored its record.
UnkeyedRunsOnce ==
    \A c, o \in ran :
        /\ req[c].approval = req[o].approval
        /\ Scope[req[c].approval] = "single_action"
        /\ ~Keyed(c) /\ ~Keyed(o)
        => c = o

\* A side effect re-run on an approval that was already consumed is the
\* request the stored claim is bound to, argument for argument
\* (_claim_approved_action: "A restart may replay only the same approval,
\* actor, use id, tool, and canonical arguments").
ReplayMatchesClaim ==
    \A c \in ran : seen[c].status = "consumed" =>
        Keyed(c) /\ claim[req[c].key] = ClaimOf(c)

\* The status of a stored approval and the events that prove it never
\* disagree between two transactions, so get() and decide() never raise
\* approval_integrity_invalid on a record only the engine wrote.
HistoryAgrees ==
    \A a \in Approvals :
        /\ approval[a].status # "absent" => Readable(a)
        /\ consumedEvt[a] # NoUse <=> approval[a].status = "consumed"
        /\ decidedEvt[a] # NoDecision
              <=> approval[a].status \in Decision \cup {"consumed"}

\* decide() tells at most one of its concurrent callers that its decision
\* was taken, and that decision stays in force ever after.
OneDecisionStands ==
    \A d \in Decides : decide[d].pc = "decided" =>
        /\ decidedEvt[decide[d].approval] =
             [decision |-> decide[d].new.decision,
              actor    |-> decide[d].new.decided_by]
        /\ approval[decide[d].approval].decision = decide[d].new.decision
        /\ \A e \in Decides \ {d} :
             decide[e].pc = "decided" => decide[e].approval # decide[d].approval

\* Of the calls that share an idempotency key at most one returns its own
\* invocation; it ran the side effect and its record carries the only
\* receipt of the key.  The others replay it, are denied or raise.
OneReturnPerKey ==
    \A c \in Calls : pc[c] = "returned" /\ Keyed(c) =>
        /\ c \in ran /\ c \in bound /\ tool[c] = "completed"
        /\ receipt[req[c].key] = c
        /\ \A o \in Calls \ {c} :
             pc[o] = "returned" => req[o].key # req[c].key

\* An approval leaves "pending" once and only "approved" leads on, to
\* "consumed": no racing decide(), consumption or retry reopens, revises or
\* revives a decision.
LegalMove(from, to) ==
    \/ from = to
    \/ from = "absent"   /\ to = "pending"
    \/ from = "pending"  /\ to \in Decision \cup {"expired"}
    \/ from = "approved" /\ to = "consumed"

StatusMovesForward ==
    [][\A a \in Approvals :
          LegalMove(approval[a].status, approval'[a].status)]_vars

\* What _claim_approved_action documents: "Durably bind one approval use to
\* one exact tool request".
OneRequestPerApproval ==
    \A c, o \in ran :
        /\ req[c].approval = req[o].approval
        /\ Scope[req[c].approval] = "single_action"
        => req[c].args = req[o].args

-----------------------------------------------------------------------------
(***************************************************************************)
(* ToolRuntime implements ApprovalContract.                                *)
(***************************************************************************)
AnswerOf(status) ==
    CASE status \in {"absent", "pending"}    -> "open"
      [] status \in {"approved", "consumed"} -> "granted"
      [] OTHER                               -> "refused"

UserOf(c) == [actor |-> req[c].actor, use |-> req[c].key]

Contract == INSTANCE ApprovalContract WITH
    Users  <- [actor : Actors, use : Uses],
    Nobody <- NoUse,
    answer <- [a \in Approvals |-> AnswerOf(approval[a].status)],
    owner  <- consumedEvt,
    runs   <- {<<req[c].approval, UserOf(c)>> : c \in ran}

\* Every behaviour of the two-step compare-and-set protocol, with its claims,
\* replays and crashes, is a behaviour of the contract: answered once, spent
\* once, run only by the owner.
ImplementsContract == Contract!Spec

-----------------------------------------------------------------------------
(***************************************************************************)
(* The inductive invariant behind these properties.  It says how far each  *)
(* local snapshot can be from the store: a decision waiting to commit saw  *)
(* the approval pending, a call past validation saw it approved or         *)
(* consumed and it still is one of the two, and an authorised call owns    *)
(* the consumption or, replaying it, the claim.                            *)
(***************************************************************************)
Decided(x, h) == [status |-> x, decision |-> x, decided_by |-> h]

HistoryInv ==
    \A a \in Approvals :
        /\ approval[a].status \in {"absent", "pending", "expired"} =>
             /\ approval[a] = Undecided(approval[a].status)
             /\ decidedEvt[a] = NoDecision
        /\ approval[a].status = "expired" => expiredEvt[a]
        /\ approval[a].status \in Decision =>
             approval[a].decision = approval[a].status
        /\ approval[a].status \in Decision \cup {"consumed"} =>
             /\ approval[a].decided_by \in Humans
             /\ approval[a].decision \in Decision
             /\ decidedEvt[a] = [decision |-> approval[a].decision,
                                 actor    |-> approval[a].decided_by]
        /\ approval[a].status = "consumed" =>
             /\ consumedEvt[a] \in [actor : Actors, use : Uses]
             /\ Executor[a] \in {None, consumedEvt[a].actor}
        /\ approval[a].status # "consumed" => consumedEvt[a] = NoUse

DecideInv ==
    \A d \in Decides :
        /\ decide[d].pc = "commit" =>
             /\ decide[d].approval \in Approvals
             /\ decide[d].seen = Undecided("pending")
             /\ \/ decide[d].new = Undecided("expired")
                \/ \E x \in Decision, h \in Humans :
                      decide[d].new = Decided(x, h)
        /\ decide[d].pc = "decided" =>
             /\ decide[d].approval \in Approvals
             /\ approval[decide[d].approval].status
                   \in Decision \cup {"consumed"}
             /\ approval[decide[d].approval].decision = decide[d].new.decision
             /\ approval[decide[d].approval].decided_by =
                   decide[d].new.decided_by
             /\ \A e \in Decides \ {d} :
                  decide[e].pc = "decided" =>
                      decide[e].approval # decide[d].approval

Granted(c) ==
    /\ approval[req[c].approval].status \in {"approved", "consumed"}
    /\ Scope[req[c].approval] = "single_action" =>
         consumedEvt[req[c].approval] = UserOf(c)

\* The calls that were let through: about to run, or run.
Through(c) == pc[c] = "authorised" \/ c \in ran

CallInv ==
    \A c \in Calls :
        /\ pc[c] \in {"new", "looked", "validated", "claimed", "consuming"}
              => c \notin ran
        /\ pc[c] \in {"validated", "claimed", "consuming"} =>
             /\ seen[c].status \in {"approved", "consumed"}
             /\ approval[req[c].approval].status \in {"approved", "consumed"}
             /\ Executor[req[c].approval] \in {None, req[c].actor}
        /\ pc[c] = "consuming" =>
             /\ seen[c].status = "approved"
             /\ Scope[req[c].approval] = "single_action"
        /\ pc[c] = "claimed" /\ claimOK[c] =>
             IF Keyed(c) THEN claim[req[c].key] = ClaimOf(c)
                         ELSE seen[c].status = "approved"
        /\ Through(c) => Granted(c)
        /\ Through(c) /\ seen[c].status = "consumed" =>
             Keyed(c) /\ claim[req[c].key] = ClaimOf(c)

UnkeyedInv ==
    \A c, o \in Calls :
        /\ Through(c) /\ Through(o)
        /\ req[c].approval = req[o].approval
        /\ Scope[req[c].approval] = "single_action"
        /\ ~Keyed(c) /\ ~Keyed(o)
        => c = o

\* The inductive invariant: how approval.status, its events, the pending
\* decisions and the calls in flight through _validate_approval relate.
IndInv == TypeOK /\ HistoryInv /\ DecideInv /\ CallInv /\ UnkeyedInv
=============================================================================
