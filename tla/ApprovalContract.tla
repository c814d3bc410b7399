-------------------------- MODULE ApprovalContract --------------------------
(***************************************************************************)
(* What the approval engine promises the tools, without records, events,   *)
(* claims or crashes: a request is answered once; a granted single-action  *)
(* approval belongs to the first use that takes it; only that use runs.    *)
(***************************************************************************)
CONSTANTS Approvals, Users, Scope, Nobody

VARIABLES
    answer,   \* approval -> "open", "granted" or "refused"
    owner,    \* approval -> the user it was spent on, or Nobody
    runs      \* the pairs <<approval, user>> whose side effect happened

contractVars == <<answer, owner, runs>>

Init == /\ answer = [a \in Approvals |-> "open"]
        /\ owner  = [a \in Approvals |-> Nobody]
        /\ runs   = {}

Answer(a) == /\ answer[a] = "open"
             /\ \E x \in {"granted", "refused"} :
                   answer' = [answer EXCEPT ![a] = x]
             /\ UNCHANGED <<owner, runs>>

Spend(a, u) == /\ answer[a] = "granted"
               /\ owner[a] = Nobody
               /\ owner' = [owner EXCEPT ![a] = u]
               /\ UNCHANGED <<answer, runs>>

Run(a, u) == /\ answer[a] = "granted"
             /\ Scope[a] = "single_action" => owner[a] = u
             /\ runs' = runs \cup {<<a, u>>}
             /\ UNCHANGED <<answer, owner>>

Next == \E a \in Approvals : \/ Answer(a)
                             \/ \E u \in Users : Spend(a, u) \/ Run(a, u)

Spec == Init /\ [][Next]_contractVars
=============================================================================
