--------------------------- MODULE ApprovalEngine ---------------------------
(***************************************************************************)
(* The approval authority of src/nexara_prime/governance.py: a request is  *)
(* stored together with its event, decided at most once, possibly expired, *)
(* and, when its scope is "single_action", consumed by one use.            *)
(*                                                                         *)
(* Every status change is a compare-and-set on the integrity hash of the   *)
(* record that was read, committed together with an event whose            *)
(* idempotency key is "<type>:<approval id>" (db.py).  A caller therefore  *)
(* takes two steps, a read and a commit, and other callers run between     *)
(* them.  The immutable fields of a request (scope, executor, mission,     *)
(* action) are constants, which is what the origin hash protects; what a   *)
(* hash comparison tells apart is the record's mutable part, so the        *)
(* snapshot of that part stands for the hash.                              *)
(***************************************************************************)
EXTENDS Naturals, FiniteSets

CONSTANTS
    Approvals,   \* approval ids
    Humans,      \* those who decide
    Actors,      \* those who execute
    Uses,        \* use ids a consumption may carry
    Decides,     \* calls of decide(); each runs once
    Scope,       \* approval -> approval_scope
    Executor,    \* approval -> the actor it is bound to, or None
    None         \* Python's None

ASSUME EngineAssumption ==
    /\ Scope \in [Approvals -> {"single_action", "mission"}]
    /\ Executor \in [Approvals -> Actors \cup {None}]
    /\ None \notin Humans \cup Actors

VARIABLES
    approval,    \* approval -> the mutable part of its record
    decidedEvt,  \* approval -> payload of approval.decided, or NoDecision
    expiredEvt,  \* approval -> is there an approval.expired event
    consumedEvt, \* approval -> payload of approval.consumed, or NoUse
    late,        \* approval -> has expires_at passed
    decide       \* decide call -> its local state

engineVars == <<approval, decidedEvt, expiredEvt, consumedEvt, late, decide>>

(***************************************************************************)
(* The values.  A decision names the status it leads to; "absent" is an    *)
(* approval that has not been requested.                                   *)
(***************************************************************************)
Decision == {"approved", "changes_requested", "paused", "rejected"}
Status   == Decision \cup {"absent", "pending", "expired", "consumed"}

ApprovalRecord == [status     : Status,
                   decision   : Decision \cup {"none"},
                   decided_by : Humans \cup {None}]

NoDecision == [decision |-> "none", actor |-> None]
NoUse      == [actor |-> None, use |-> None]

DecidedPayload  == [decision : Decision, actor : Humans] \cup {NoDecision}
ConsumedPayload == [actor : Actors, use : Uses] \cup {NoUse}

Undecided(status) ==
    [status |-> status, decision |-> "none", decided_by |-> None]

DecideState == [pc       : {"new", "commit", "decided", "raised", "crashed"},
                approval : Approvals \cup {None},
                seen     : ApprovalRecord,
                new      : ApprovalRecord]

EngineTypeOK ==
    /\ approval    \in [Approvals -> ApprovalRecord]
    /\ decidedEvt  \in [Approvals -> DecidedPayload]
    /\ expiredEvt  \in [Approvals -> BOOLEAN]
    /\ consumedEvt \in [Approvals -> ConsumedPayload]
    /\ late        \in [Approvals -> BOOLEAN]
    /\ decide      \in [Decides -> DecideState]

EngineInit ==
    /\ approval    = [a \in Approvals |-> Undecided("absent")]
    /\ decidedEvt  = [a \in Approvals |-> NoDecision]
    /\ expiredEvt  = [a \in Approvals |-> FALSE]
    /\ consumedEvt = [a \in Approvals |-> NoUse]
    /\ late        = [a \in Approvals |-> FALSE]
    /\ decide      = [d \in Decides |-> [pc |-> "new", approval |-> None,
                                         seen |-> Undecided("absent"),
                                         new  |-> Undecided("absent")]]

(***************************************************************************)
(* The integrity checks made on every read of an approval.                 *)
(***************************************************************************)
DecisionTransitionIsValid(a, rec) ==
    /\ rec.decided_by # None
    /\ decidedEvt[a] = [decision |-> rec.decision, actor |-> rec.decided_by]

ConsumptionTransitionExists(a) ==
    /\ consumedEvt[a] # NoUse
    /\ Executor[a] \in {None, consumedEvt[a].actor}

TerminalTransitionIsValid(a, rec) ==
    /\ rec.status = "expired" => expiredEvt[a]
    /\ rec.status = "consumed" => ConsumptionTransitionExists(a)
    /\ rec.status \notin {"pending", "expired"} =>
         DecisionTransitionIsValid(a, rec)

\* What get() and decide() read: a stored approval whose history is intact.
Readable(a) == /\ approval[a].status # "absent"
               /\ TerminalTransitionIsValid(a, approval[a])

(***************************************************************************)
(* request(): record and event are inserted in one transaction.            *)
(***************************************************************************)
Request(a) ==
    /\ approval[a].status = "absent"
    /\ approval' = [approval EXCEPT ![a] = Undecided("pending")]
    /\ UNCHANGED <<decidedEvt, expiredEvt, consumedEvt, late, decide>>

\* The wall clock passes expires_at; nothing is written when it does.
ExpiresAtPasses(a) ==
    /\ approval[a].status # "absent"
    /\ ~late[a]
    /\ late' = [late EXCEPT ![a] = TRUE]
    /\ UNCHANGED <<approval, decidedEvt, expiredEvt, consumedEvt, decide>>

(***************************************************************************)
(* decide(), first half: read the envelope, check it, and prepare the new  *)
(* payload.  A request past expires_at is turned to "expired" whatever the *)
(* decision was.                                                           *)
(***************************************************************************)
DecidePayload(a, decision, actor) ==
    IF late[a]
    THEN [approval[a] EXCEPT !.status = "expired"]
    ELSE [status |-> decision, decision |-> decision, decided_by |-> actor]

DecideRead(d, a, decision, actor) ==
    /\ decide[d].pc = "new"
    /\ Readable(a)
    /\ approval[a].status = "pending"
    /\ decide' = [decide EXCEPT ![d] =
                    [pc |-> "commit", approval |-> a, seen |-> approval[a],
                     new |-> DecidePayload(a, decision, actor)]]
    /\ UNCHANGED <<approval, decidedEvt, expiredEvt, consumedEvt, late>>

IntegrityIgnored(a, seen) == TRUE      \* mutant: the update is unconditional

\* The integrity hash still is the one that was read.
IntegrityMatches(a, seen) == approval[a] = seen

(***************************************************************************)
(* decide(), second half: _commit_transition.  repair_record_event updates *)
(* the record and inserts the event in one transaction, and gives up when  *)
(* the hash moved.  An event already stored under the same key must be     *)
(* identical, which decided_at rules out for approval.decided.             *)
(***************************************************************************)
DecideCommit(d) ==
    LET a    == decide[d].approval
        new  == decide[d].new
        done == IF new.status = "expired" THEN "raised" ELSE "decided"
        ok   == /\ IntegrityMatches(a, decide[d].seen)
                /\ new.status # "expired" => decidedEvt[a] = NoDecision
    IN  /\ decide[d].pc = "commit"
        /\ decide' = [decide EXCEPT ![d].pc = IF ok THEN done ELSE "raised"]
        /\ approval' = IF ok THEN [approval EXCEPT ![a] = new] ELSE approval
        /\ decidedEvt' =
             IF ok /\ new.status # "expired"
             THEN [decidedEvt EXCEPT ![a] = [decision |-> new.decision,
                                             actor    |-> new.decided_by]]
             ELSE decidedEvt
        /\ expiredEvt' = IF ok /\ new.status = "expired"
                         THEN [expiredEvt EXCEPT ![a] = TRUE]
                         ELSE expiredEvt
        /\ UNCHANGED <<consumedEvt, late>>

(***************************************************************************)
(* consume_single_action(), split like decide(): what the read must find,  *)
(* and the commit of status and event.  An event already stored under the  *)
(* key is a hard conflict.  Neither half looks at expires_at.              *)
(***************************************************************************)
ConsumeReadable(a, actor) ==
    /\ approval[a].status = "approved"
    /\ Scope[a] = "single_action"
    /\ Executor[a] \in {None, actor}
    /\ DecisionTransitionIsValid(a, approval[a])
    /\ consumedEvt[a] = NoUse

ConsumeUnchecked(a, seen) == TRUE      \* mutant: no compare-and-set

ConsumeCommits(a, seen) ==
    /\ IntegrityMatches(a, seen)
    /\ approval[a].status = "approved"
    /\ consumedEvt[a] = NoUse

ConsumeSilently(a, actor, use) ==      \* mutant: the status without its event
    /\ approval'    = [approval EXCEPT ![a].status = "consumed"]
    /\ UNCHANGED <<consumedEvt, decidedEvt, expiredEvt, late, decide>>

Consume(a, actor, use) ==
    /\ approval'    = [approval EXCEPT ![a].status = "consumed"]
    /\ consumedEvt' = [consumedEvt EXCEPT ![a] = [actor |-> actor, use |-> use]]
    /\ UNCHANGED <<decidedEvt, expiredEvt, late, decide>>

MatchesAnyUse(a, rec, actor, use) ==   \* mutant: the use is not compared
    /\ rec.status = "consumed"
    /\ DecisionTransitionIsValid(a, rec)
    /\ ConsumptionTransitionExists(a)

\* consumption_matches(): the stored consumption is this actor's, for this use.
ConsumptionMatches(a, rec, actor, use) ==
    /\ rec.status = "consumed"
    /\ DecisionTransitionIsValid(a, rec)
    /\ ConsumptionTransitionExists(a)
    /\ consumedEvt[a] = [actor |-> actor, use |-> use]

EngineStep ==
    \/ \E a \in Approvals : Request(a) \/ ExpiresAtPasses(a)
    \/ \E d \in Decides, a \in Approvals, x \in Decision, h \in Humans :
          DecideRead(d, a, x, h)
    \/ \E d \in Decides : DecideCommit(d)
=============================================================================
