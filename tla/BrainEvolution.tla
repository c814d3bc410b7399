---------------------------- MODULE BrainEvolution ----------------------------
(***************************************************************************)
(* The brain changing itself: the lifecycle of evolution proposals          *)
(* (brain/evolution_engine.py), the boundary that autonomous actions are    *)
(* checked against with its human vetoes (brain/evolution/boundary.py), and *)
(* the durable checkpoints and effect records that its runtime restarts     *)
(* from (brain/runtime/persistent_runtime.py).  Confidence and risk count   *)
(* hundredths.                                                              *)
(***************************************************************************)
EXTENDS Integers, Sequences, FiniteSets

CONSTANTS
    Proposals,      \* proposal objects
    BoundActions,   \* actions checked: names of one of the three lists, or of none
    EffectWorkers,  \* callers of the durable runtime
    EffectActions,  \* actions whose effects are recorded; they share one idempotency key
    MaxStep,        \* bound on the steps of a checkpointed run
    MaxEvoOps       \* bound on lifecycle calls, vetoes and restarts

\* There are finitely many callers.
ASSUME EffectWorkersAssumption == IsFiniteSet(EffectWorkers)

VARIABLES
    proposal,   \* [status, conf, risk, rejected]
    recorded,   \* memory entries written by _record_proposal: <<proposal, status>>, in order
    vetoes,     \* action -> "none", "active" or "revoked": _vetoes of this process
    vetoRows,   \* action -> the same in human_vetoes
    lost,       \* actions whose veto a restart or a failed write left out of one of the two
    rows,       \* checkpoints: checkpoint id -> [step, at]
    effects,    \* idempotency table: <<action, consumed>>
    doing,      \* worker -> [pc, action]
    performed,  \* action -> times its effect ran
    claims,     \* action -> times record_effect returned True
    evoOps

evolutionVars == <<proposal, recorded>>
boundaryVars == <<vetoes, vetoRows, lost>>
durableVars == <<rows, effects, doing, performed, claims>>
evoVars == <<evolutionVars, boundaryVars, durableVars, evoOps>>

Fresh == [status |-> "none", conf |-> 0, risk |-> 0, rejected |-> FALSE]
EvoInit ==
    /\ proposal = [p \in Proposals |-> Fresh] /\ recorded = <<>>
    /\ vetoes = [a \in BoundActions |-> "none"] /\ vetoRows = [a \in BoundActions |-> "none"] /\ lost = {}
    /\ rows = <<>> /\ effects = {} /\ doing = [w \in EffectWorkers |-> [pc |-> "idle", action |-> "none"]]
    /\ performed = [a \in EffectActions |-> 0] /\ claims = [a \in EffectActions |-> 0] /\ evoOps = 0

EvoCounted == evoOps < MaxEvoOps /\ evoOps' = evoOps + 1

------------------------------------------------------------------------------
\* collect_candidates, with the confidence of the memory, or a caller's own
\* proposal with its risk.
CollectCandidate(p, conf, risk) ==
    /\ proposal[p].status = "none"
    /\ proposal' = [proposal EXCEPT ![p] = [Fresh EXCEPT !.status = "DRAFT", !.conf = conf, !.risk = risk]]
    /\ UNCHANGED <<recorded, boundaryVars, durableVars, evoOps>>
\* The thresholds of evaluate_proposal.
Verdict(conf, risk) == CASE conf < 20 \/ risk > 70 -> "DRAFT"
                         [] conf >= 40 /\ risk <= 30 -> "APPROVED"
                         [] OTHER -> "APPROVAL_REQUIRED"
\* Every lifecycle call takes a proposal in any status.
Lifecycle(p) == proposal[p].status # "none" /\ EvoCounted /\ UNCHANGED <<boundaryVars, durableVars>>
SetProposal(p, status) == proposal' = [proposal EXCEPT ![p].status = status]
Record(p, status) == recorded' = Append(recorded, <<p, status>>)
EvaluateProposal(p) ==
    /\ Lifecycle(p) /\ SetProposal(p, Verdict(proposal[p].conf, proposal[p].risk)) /\ UNCHANGED recorded
ApplyEvolution(p) ==
    /\ Lifecycle(p)
    /\ IF proposal[p].status = "APPROVED" THEN SetProposal(p, "APPLIED") /\ Record(p, "APPLIED")
       ELSE SetProposal(p, "DRAFT") /\ UNCHANGED recorded
RejectProposal(p) ==
    /\ Lifecycle(p) /\ proposal[p].status = "APPROVAL_REQUIRED" /\ UNCHANGED recorded
    /\ proposal' = [proposal EXCEPT ![p].status = "DRAFT", ![p].rejected = TRUE,
                                    ![p].risk = IF @ < 51 THEN 51 ELSE @]
VerifyEvolution(p) ==
    /\ Lifecycle(p) /\ proposal[p].status = "APPLIED"
    /\ SetProposal(p, "VERIFIED") /\ Record(p, "VERIFIED")
ArchiveEvolution(p) == Lifecycle(p) /\ SetProposal(p, "ARCHIVED") /\ Record(p, "ARCHIVED")

EvolutionNext == \E p \in Proposals :
    \/ \E c \in {30, 60}, r \in {0, 50} : CollectCandidate(p, c, r)
    \/ EvaluateProposal(p) \/ ApplyEvolution(p) \/ RejectProposal(p) \/ VerifyEvolution(p) \/ ArchiveEvolution(p)

------------------------------------------------------------------------------
\* check: a veto, then the blocked list, the risk, and the list that needs
\* approval; whatever is left proceeds, with evidence or without.
BoundaryCheck(action, list, risk) ==
    IF vetoes[action] = "active" \/ list = "blocked" \/ risk > 2 THEN "HALT"
    ELSE IF list = "approval" THEN "ALERT_HUMAN" ELSE "PROCEED"
\* veto: in memory, and a row when the insert succeeds; a failure is swallowed.
Veto(action, stored) ==
    /\ EvoCounted /\ vetoes' = [vetoes EXCEPT ![action] = "active"]
    /\ vetoRows' = IF stored THEN [vetoRows EXCEPT ![action] = "active"] ELSE vetoRows
    /\ lost' = IF stored THEN lost \ {action} ELSE lost \cup {action}
    /\ UNCHANGED <<evolutionVars, durableVars>>
\* revoke_veto: only what this process knows of; all open rows of the action.
RevokeVeto(action) ==
    /\ EvoCounted /\ vetoes[action] # "none"
    /\ vetoes' = [vetoes EXCEPT ![action] = "revoked"]
    /\ vetoRows' = [vetoRows EXCEPT ![action] = IF @ = "active" THEN "revoked" ELSE @]
    /\ lost' = lost \ {action}
    /\ UNCHANGED <<evolutionVars, durableVars>>
\* A new process starts with no vetoes: the rows are not read back.
BoundaryRestarts ==
    /\ EvoCounted /\ vetoes' = [a \in BoundActions |-> "none"]
    /\ lost' = {a \in BoundActions : vetoRows[a] = "active"}
    /\ UNCHANGED <<evolutionVars, durableVars, vetoRows>>

BoundaryNext == \/ \E a \in BoundActions : RevokeVeto(a) \/ \E stored \in BOOLEAN : Veto(a, stored)
                \/ BoundaryRestarts

------------------------------------------------------------------------------
\* save_checkpoint: a row of its own for every checkpoint, or the row of one
\* saved before replaced; either way it becomes the newest.
Newest == Cardinality(DOMAIN rows)
SaveCheckpoint(id, step) ==
    /\ EvoCounted /\ step <= MaxStep
    /\ LET at == 1 + Cardinality({i \in DOMAIN rows : i # id})
       IN rows' = [i \in DOMAIN rows \cup {id} |->
              IF i = id THEN [step |-> step, at |-> at]
              ELSE IF id \in DOMAIN rows /\ rows[i].at > rows[id].at THEN [rows[i] EXCEPT !.at = @ - 1] ELSE rows[i]]
    /\ UNCHANGED <<evolutionVars, boundaryVars, effects, doing, performed, claims>>
\* delete_checkpoint
DeleteCheckpoint(id) ==
    /\ EvoCounted /\ id \in DOMAIN rows
    /\ rows' = [i \in DOMAIN rows \ {id} |->
                  IF rows[i].at > rows[id].at THEN [rows[i] EXCEPT !.at = @ - 1] ELSE rows[i]]
    /\ UNCHANGED <<evolutionVars, boundaryVars, effects, doing, performed, claims>>
\* load_checkpoint and recover: the row updated last, not the one furthest on.
Recovered == {i \in DOMAIN rows : rows[i].at = Newest}

\* is_duplicate, the effect itself, record_effect; a crash may come in between.
CheckDuplicate(w, action) ==
    /\ doing[w].pc = "idle" /\ ~ \E e \in effects : e[1] = action
    /\ doing' = [doing EXCEPT ![w] = [pc |-> "run", action |-> action]]
    /\ UNCHANGED <<evolutionVars, boundaryVars, rows, effects, performed, claims, evoOps>>
Perform(w) ==
    /\ doing[w].pc = "run" /\ doing' = [doing EXCEPT ![w].pc = "record"]
    /\ performed' = [performed EXCEPT ![doing[w].action] = @ + 1]
    /\ UNCHANGED <<evolutionVars, boundaryVars, rows, effects, claims, evoOps>>
\* Recording that overwrites instead of running into the UNIQUE constraint.
RecordsAlways(action) == TRUE
\* The UNIQUE constraint on project, mission, action and key.
RecordsFirst(action) == ~ \E e \in effects : e[1] = action
RecordEffect(w) ==
    /\ doing[w].pc = "record" /\ doing' = [doing EXCEPT ![w] = [pc |-> "idle", action |-> "none"]]
    /\ IF RecordsFirst(doing[w].action)
       THEN /\ effects' = effects \cup {<<doing[w].action, FALSE>>}
            /\ claims' = [claims EXCEPT ![doing[w].action] = @ + 1]
       ELSE UNCHANGED <<effects, claims>>
    /\ UNCHANGED <<evolutionVars, boundaryVars, rows, performed, evoOps>>
\* consume_effect: every row of the key, whichever its action.
ConsumeEffect ==
    /\ effects # {} /\ effects' = {<<e[1], TRUE>> : e \in effects}
    /\ UNCHANGED <<evolutionVars, boundaryVars, rows, doing, performed, claims, evoOps>>
DurableRestarts ==
    /\ EvoCounted /\ doing' = [w \in EffectWorkers |-> [pc |-> "idle", action |-> "none"]]
    /\ UNCHANGED <<evolutionVars, boundaryVars, rows, effects, performed, claims>>

DurableNext ==
    \/ \E id, step \in 1..MaxStep : SaveCheckpoint(id, step) \/ DeleteCheckpoint(id)
    \/ \E w \in EffectWorkers : Perform(w) \/ RecordEffect(w) \/ \E a \in EffectActions : CheckDuplicate(w, a)
    \/ ConsumeEffect \/ DurableRestarts

\* The three on one brain.
EvoNext == EvolutionNext \/ BoundaryNext \/ DurableNext
EvoSpec == EvoInit /\ [][EvoNext]_evoVars

EvoTypeOK ==
    /\ proposal \in [Proposals -> [status : {"none", "DRAFT", "APPROVED", "APPROVAL_REQUIRED", "APPLIED", "VERIFIED",
                                             "ARCHIVED"}, conf : Nat, risk : Nat, rejected : BOOLEAN]]
    /\ recorded \in Seq(Proposals \X {"APPLIED", "VERIFIED", "ARCHIVED"})
    /\ vetoes \in [BoundActions -> {"none", "active", "revoked"}]
    /\ vetoRows \in [BoundActions -> {"none", "active", "revoked"}] /\ lost \subseteq BoundActions
    /\ IsFiniteSet(DOMAIN rows) /\ rows \in [DOMAIN rows -> [step : Nat, at : Nat]]
    /\ effects \subseteq EffectActions \X BOOLEAN
    /\ doing \in [EffectWorkers -> [pc : {"idle", "run", "record"}, action : EffectActions \cup {"none"}]]
    /\ performed \in [EffectActions -> Nat] /\ claims \in [EffectActions -> Nat] /\ evoOps \in Nat

------------------------------------------------------------------------------
\* However often it is evaluated again, a proposal that was rejected is never
\* applied, and nothing is verified more often than it was applied.  Checks of
\* an action halt exactly while its veto row is open, short of a restart or a
\* failed write.
\* One caller at most is told that it recorded an effect, and an effect runs
\* at most once in each worker between two restarts.  One checkpoint is the
\* newest.
EvolutionSound ==
    /\ \A p \in Proposals : proposal[p].rejected => proposal[p].status \notin {"APPROVED", "APPLIED", "VERIFIED"}
    /\ \A p \in Proposals :
          LET times(status) == Cardinality({i \in DOMAIN recorded : recorded[i] = <<p, status>>})
          IN times("VERIFIED") <= times("APPLIED")
    /\ \A a \in BoundActions \ lost :
          vetoRows[a] = "active" <=> \A list \in {"allowed", "approval", "none"} : BoundaryCheck(a, list, 1) = "HALT"
    /\ \A a \in EffectActions :
          /\ claims[a] = Cardinality({e \in effects : e[1] = a}) /\ claims[a] <= 1
          /\ claims[a] <= performed[a]
          /\ performed[a] <= (evoOps + 1) * Cardinality(EffectWorkers)
    /\ DOMAIN rows # {} => Cardinality(Recovered) = 1
==============================================================================
