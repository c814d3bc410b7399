------------------------------- MODULE Sessions ------------------------------
(***************************************************************************)
(* Sessions (session.py, session_persistence.py, session_api.py) and local  *)
(* permissions (identity.py).  Each operation of the durable session store  *)
(* reads a record, changes the copy and saves the whole record; clients in  *)
(* other threads may do the same between the read and the save.             *)
(***************************************************************************)
EXTENDS Integers, FiniteSets

CONSTANTS
    SessionIds,    \* sessions
    Clients,       \* threads
    Bindables,     \* ids of conversations and missions to bind
    MaxVersion     \* bound on the version of a session

SessionStatus == {"CREATED", "ACTIVE", "IDLE", "RECOVERING", "SUSPENDED", "CLOSED", "FAILED"}
Terminal == {"CLOSED", "FAILED"}

Transitions ==
    {<<"CREATED", "ACTIVE">>} \cup ({"ACTIVE"} \X {"IDLE", "SUSPENDED", "RECOVERING", "CLOSED"})
    \cup ({"IDLE", "RECOVERING", "SUSPENDED"} \X {"ACTIVE"})

TransitionsAnywhere(from, to) == to = "FAILED" \/ <<from, to>> \in Transitions \/ from = "CLOSED"

\* _can_transition: FAILED from anywhere but itself, else the table.
SessionCanTransition(from, to) ==
    IF to = "FAILED" THEN from # "FAILED" ELSE <<from, to>> \in Transitions

Permissions == {"mission.read", "approval.decide", "connector.invoke"}
AgentDenied == {"approval.decide"}
RolePermissions == [owner |-> Permissions, reviewer |-> {"mission.read", "approval.decide"},
                    readonly |-> {"mission.read"}]

VARIABLES
    sessions,   \* stored sessions: [status, version, convs]
    bound,      \* stored mission bindings by session
    client,     \* by thread: what it read and will save
    stale,      \* sessions saved over by a copy that was no longer current
    role,       \* the local user's role
    grants,     \* granted permissions, by grant id (one per permission here)
    revoked     \* permissions with a revocation

sessionVars == <<sessions, bound, client, stale, role, grants, revoked>>

Resting == [op |-> "none"]

SessionInit ==
    /\ sessions = [s \in {} |-> {}] /\ bound = [s \in SessionIds |-> {}]
    /\ client = [c \in Clients |-> Resting] /\ stale = {}
    /\ role = "owner" /\ grants = {} /\ revoked = {}

CreateSession(s) ==
    /\ s \notin DOMAIN sessions
    /\ sessions' = [t \in DOMAIN sessions \cup {s} |->
                      IF t = s THEN [status |-> "CREATED", version |-> 1, convs |-> {}]
                      ELSE sessions[t]]
    /\ UNCHANGED <<bound, client, stale, role, grants, revoked>>

ReadFor(c, s, op, copy) ==
    /\ client[c] = Resting
    /\ client' = [client EXCEPT ![c] = [op |-> op, id |-> s, seen |-> sessions[s], copy |-> copy]]
    /\ UNCHANGED <<sessions, bound, stale, role, grants, revoked>>

Bumped(rec) == [rec EXCEPT !.version = @ + 1]

\* update_status: an illegal transition of what was read raises and saves nothing.
ReadForStatus(c, s, to) ==
    /\ s \in DOMAIN sessions /\ sessions[s].version < MaxVersion
    /\ SessionCanTransition(sessions[s].status, to)
    /\ ReadFor(c, s, "save", Bumped([sessions[s] EXCEPT !.status = to]))

ReadForTouch(c, s) ==
    /\ s \in DOMAIN sessions /\ sessions[s].version < MaxVersion
    /\ ReadFor(c, s, "save", Bumped(sessions[s]))

\* add_conversation saves even when the conversation was there already.
ReadForBind(c, s, conv) ==
    /\ s \in DOMAIN sessions /\ sessions[s].version < MaxVersion
    /\ ReadFor(c, s, "save", IF conv \in sessions[s].convs THEN sessions[s]
                             ELSE Bumped([sessions[s] EXCEPT !.convs = @ \cup {conv}]))

SaveSession(c) ==
    /\ client[c].op = "save"
    /\ LET call == client[c]
       IN  /\ sessions' = [sessions EXCEPT ![call.id] = call.copy]
           /\ stale' = IF sessions[call.id] # call.seen THEN stale \cup {call.id} ELSE stale
    /\ client' = [client EXCEPT ![c] = Resting]
    /\ UNCHANGED <<bound, role, grants, revoked>>

\* bind_mission keeps its list in a record of its own.
BindMission(s, m) ==
    /\ s \in DOMAIN sessions /\ bound' = [bound EXCEPT ![s] = @ \cup {m}]
    /\ UNCHANGED <<sessions, client, stale, role, grants, revoked>>

------------------------------------------------------------------------------
(* Permissions. *)

\* check_permission: an agent's denials first, then any revocation of the
\* permission, then the role; grants are not looked at.
CheckPermission(perm, isAgent) ==
    /\ ~(isAgent /\ perm \in AgentDenied) /\ perm \notin revoked
    /\ perm \in RolePermissions[role]

GrantPermission(perm) ==
    /\ grants' = grants \cup {perm} /\ UNCHANGED <<sessions, bound, client, stale, role, revoked>>
RevokePermission(perm) ==
    /\ perm \in grants /\ revoked' = revoked \cup {perm}
    /\ UNCHANGED <<sessions, bound, client, stale, role, grants>>
SetRole(r) ==
    /\ role' = r
    /\ UNCHANGED <<sessions, bound, client, stale, grants, revoked>>

SessionNext ==
    \/ \E s \in SessionIds : CreateSession(s) \/ \E m \in Bindables : BindMission(s, m)
    \/ \E c \in Clients, s \in SessionIds :
         \/ \E to \in SessionStatus : ReadForStatus(c, s, to)
         \/ ReadForTouch(c, s)
         \/ \E conv \in Bindables : ReadForBind(c, s, conv)
    \/ \E c \in Clients : SaveSession(c)

\* Permissions share no state with the sessions.
IdentityNext ==
    \/ \E p \in Permissions : GrantPermission(p) \/ RevokePermission(p)
    \/ \E r \in DOMAIN RolePermissions : SetRole(r)
SessionSpec == SessionInit /\ [][SessionNext \/ IdentityNext]_sessionVars

SessionRecords == [status : SessionStatus, version : Nat, convs : SUBSET Bindables]
Saves == [op : {"save"}, id : SessionIds, seen : SessionRecords, copy : SessionRecords]
SessionTypeOK ==
    /\ DOMAIN sessions \subseteq SessionIds /\ sessions \in [DOMAIN sessions -> SessionRecords]
    /\ bound \in [SessionIds -> SUBSET Bindables]
    /\ client \in [Clients -> Saves \cup {Resting}] /\ stale \subseteq SessionIds
    /\ role \in DOMAIN RolePermissions /\ grants \subseteq Permissions
    /\ revoked \subseteq Permissions

------------------------------------------------------------------------------
\* Unless a client saved a copy that was no longer current: a session only makes
\* legal moves, so a closed one can only fail and a failed one stays failed, its
\* version never goes back and a bound conversation stays bound.  And a step
\* never gives back a permission that was revoked, nor an agent one it is denied.
SessionsAdvance ==
    [][/\ \A s \in DOMAIN sessions :
            \/ s \in stale'
            \/ /\ sessions'[s].status # sessions[s].status =>
                    /\ SessionCanTransition(sessions[s].status, sessions'[s].status)
                    /\ sessions[s].status \in Terminal => sessions'[s].status = "FAILED"
               /\ sessions'[s].version >= sessions[s].version
               /\ sessions[s].convs \subseteq sessions'[s].convs
       /\ \A p \in Permissions : /\ p \in revoked => ~CheckPermission(p, FALSE)'
                                 /\ p \in AgentDenied => ~CheckPermission(p, TRUE)']_sessionVars
=============================================================================
