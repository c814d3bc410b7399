-------------------------------- MODULE Soul --------------------------------
(***************************************************************************)
(* The soul kernel (soul.py): a frozen constitution, character learned with *)
(* evidence and the owner's approval, decisions between options by a fixed  *)
(* order of values, the restraint assessment, and the snapshot a restarted  *)
(* process is restored from.  Evidence is a reference and what verify says  *)
(* of it; values are the first numbers of the moral order, 1 the highest.   *)
(***************************************************************************)
EXTENDS Integers, Sequences, FiniteSets

CONSTANTS
    EvidenceRefs,   \* references callers give
    Traits,         \* character changes
    MoralValues,    \* 1..n, in the order of the constitution
    MaxSoulOps      \* bound on operations

\* A value is its rank in the moral_order of the constitution.
ASSUME MoralAssumption == MoralValues \subseteq Nat

VARIABLES
    proof,      \* ref -> "good", "bad" or "missing" in the evidence store
    constitution, \* the frozen constitution of the running kernel
    soul,       \* [learned, lessons, strengthened, limits, expression, organ]
    soulAudit,  \* _audit: [type, detail, refs, actor]
    approval,   \* the owner's approval record: [status, scoped, consumed]
    saved,      \* the last to_dict, or the empty sequence
    soulOps,
    wasRestored \* the kernel came from from_dict

soulVars == <<proof, constitution, soul, soulAudit, approval, saved, soulOps, wasRestored>>

NewSoul == [learned |-> {}, lessons |-> {}, strengthened |-> {}, limits |-> {}, expression |-> "neutral",
            organ |-> "unassigned"]
\* A kernel may be given a constitution of its own; the default is the canonical one.
SoulInit ==
    /\ proof = [r \in EvidenceRefs |-> "missing"] /\ constitution = "default" /\ soul = NewSoul
    /\ soulAudit = <<>> /\ approval = [status |-> "none", scoped |-> FALSE, consumed |-> FALSE]
    /\ saved = <<>> /\ soulOps = 0 /\ wasRestored = FALSE

\* _require_evidence: no reference, one that is unknown or does not verify, or a store
\* that cannot be opened, raises.
VerifiedAny(refs, up) == up /\ \E r \in refs : proof[r] = "good"
Verified(refs, up) == up /\ refs # {} /\ \A r \in refs : proof[r] = "good"
Audited(type, detail, refs, actor) ==
    soulAudit' = Append(soulAudit, [type |-> type, detail |-> detail, refs |-> refs, actor |-> actor])
SoulOp == soulOps < MaxSoulOps /\ soulOps' = soulOps + 1

------------------------------------------------------------------------------
\* Evidence is stored, and what it rests on may be damaged later.
EvidenceChanges(r, to) ==
    /\ proof[r] # to /\ to # "missing" /\ proof' = [proof EXCEPT ![r] = to]
    /\ UNCHANGED <<constitution, soul, soulAudit, approval, saved, soulOps, wasRestored>>
\* The owner's approval of an action; its record is an ApprovalRequest, which has no
\* action_scope, unless something else wrote it.
OwnerApproves(scoped) ==
    /\ approval.status = "none" /\ approval' = [approval EXCEPT !.status = "approved", !.scoped = scoped]
    /\ UNCHANGED <<proof, constitution, soul, soulAudit, saved, soulOps, wasRestored>>

\* _verify_owner_approval: a record with an action_scope does not validate as an
\* ApprovalRequest, one without it has the wrong scope; the event that would consume
\* the approval has no idempotency key, which repair_record_event refuses.
ApprovalSchemaAccepts == approval.status = "approved" /\ ~approval.scoped
ApprovalScopeAccepts == approval.scoped
ConsumptionAccepted == FALSE
OwnerApprovalVerified == ApprovalSchemaAccepts /\ ApprovalScopeAccepts /\ ~approval.consumed /\ ConsumptionAccepted
\* record_experience.
RecordExperience(trait, refs, up) ==
    /\ SoulOp
    /\ IF Verified(refs, up) /\ OwnerApprovalVerified
       THEN /\ soul' = [soul EXCEPT !.learned = @ \cup {trait}, !.lessons = @ \cup {trait}, !.expression = "growth"]
            /\ Audited("experience_integrated", trait, refs, "runtime")
            /\ approval' = [approval EXCEPT !.consumed = TRUE]
       ELSE /\ UNCHANGED <<soul, soulAudit, approval>>
    /\ UNCHANGED <<proof, constitution, saved, wasRestored>>

\* acknowledge_limitation.
AcknowledgeLimitation(limit, refs, up) ==
    /\ SoulOp /\ Verified(refs, up)
    /\ soul' = [soul EXCEPT !.limits = @ \cup {limit}, !.expression = "uncertain"]
    /\ Audited("limitation_acknowledged", limit, refs, "runtime")
    /\ UNCHANGED <<proof, constitution, approval, saved, wasRestored>>
\* apply_learned_character: by the owner, by name.
ByAnyone(who) == TRUE
ByOwner(who) == who = "owner"
ApplyLearnedCharacter(trait, refs, up, who) ==
    /\ SoulOp /\ Verified(refs, up) /\ ByOwner(who)
    /\ soul' = [soul EXCEPT !.learned = @ \cup {trait}, !.strengthened = @ \cup {trait}]
    /\ Audited("character_change_approved", trait, refs, who)
    /\ UNCHANGED <<proof, constitution, approval, saved, wasRestored>>
SetCognitiveOrgan(name) ==
    /\ SoulOp /\ soul' = [soul EXCEPT !.organ = name]
    /\ UNCHANGED <<proof, constitution, soulAudit, approval, saved, wasRestored>>
SetExpression(e) ==
    /\ SoulOp /\ soul' = [soul EXCEPT !.expression = e]
    /\ UNCHANGED <<proof, constitution, soulAudit, approval, saved, wasRestored>>

\* decide_conflict: the option whose counts of values, highest value first, are
\* lexicographically the largest; an option is value -> how often it is named.
FewerThan(a, b) ==
    \E v \in MoralValues : a[v] < b[v] /\ \A w \in MoralValues : w < v => a[w] = b[w]
Selectable(options) == {o \in DOMAIN options : \A p \in DOMAIN options : ~FewerThan(options[o], options[p])}
\* min keeps the first of equal options.
Selected(options) == CHOOSE o \in Selectable(options) : \A p \in Selectable(options) : o <= p
NeedsConfirmation(risk, authorized) == risk \in {"R3", "R4"} \/ ~authorized
DecideConflict(options, refs, up, risk, authorized) ==
    /\ SoulOp /\ Verified(refs, up)
    /\ soul' = [soul EXCEPT !.expression = IF NeedsConfirmation(risk, authorized) THEN "waiting" ELSE "confirmed"]
    /\ Audited("constitutional_decision", Selected(options), refs, IF authorized THEN "owner" ELSE "runtime")
    /\ UNCHANGED <<proof, constitution, approval, saved, wasRestored>>

\* assess_restraint: the first reason not to act decides; only a disposition to
\* proceed has its evidence verified.
Disposition(refs, up, authorized, risk, unsure, destructive, quiet) ==
    CASE quiet # "no" -> quiet
      [] quiet = "no" /\ (refs = {} \/ ~authorized) -> "ask"
      [] quiet = "no" /\ refs # {} /\ authorized /\ (risk = "R4" \/ (destructive /\ risk = "R3")) -> "escalate"
      [] quiet = "no" /\ refs # {} /\ authorized /\ ~(risk = "R4" \/ (destructive /\ risk = "R3")) /\ unsure -> "pause"
      [] OTHER -> IF Verified(refs, up) THEN "proceed" ELSE "ask"
AssessRestraint(refs, up, authorized, risk, unsure, destructive, quiet) ==
    LET d == Disposition(refs, up, authorized, risk, unsure, destructive, quiet)
    IN /\ SoulOp
       /\ soul' = [soul EXCEPT !.expression = IF d \in {"ask", "escalate"} THEN "waiting" ELSE "neutral"]
       /\ Audited("restraint_assessment", d, refs, IF authorized THEN "owner" ELSE "runtime")
       /\ UNCHANGED <<proof, constitution, approval, saved, wasRestored>>

\* to_dict, and from_dict in a restarted process: the constitution is the default one
\* again, the audit, the experiences and the organ are not restored.
SoulSaves ==
    /\ saved' = <<[soul |-> soul, audit |-> soulAudit]>>
    /\ UNCHANGED <<proof, constitution, soul, soulAudit, approval, soulOps, wasRestored>>
RestoredSoul(kept) == [kept EXCEPT !.organ = "unassigned"]
SoulRestarts ==
    /\ saved # <<>> /\ soul' = RestoredSoul(saved[1].soul)
    /\ soulAudit' = <<>> /\ constitution' = "default" /\ wasRestored' = TRUE
    /\ UNCHANGED <<proof, approval, saved, soulOps>>

Counts == [MoralValues -> 0..1]
SoulNext ==
    \/ \E r \in EvidenceRefs, to \in {"good", "bad"} : EvidenceChanges(r, to)
    \/ \E scoped \in BOOLEAN : OwnerApproves(scoped)
    \/ \E refs \in SUBSET EvidenceRefs, up \in BOOLEAN, t \in Traits :
         \/ RecordExperience(t, refs, up) \/ AcknowledgeLimitation(t, refs, up)
         \/ \E who \in {"owner", "runtime"} : ApplyLearnedCharacter(t, refs, up, who)
    \/ SetCognitiveOrgan("model")
    \/ \E e \in {"error", "blocked"} : SetExpression(e)
    \/ \E refs \in SUBSET EvidenceRefs, up, authorized \in BOOLEAN, risk \in {"R1", "R4"} :
         \/ DecideConflict(<<[v \in MoralValues |-> 1], [v \in MoralValues |-> 0]>>, refs, up, risk, authorized)
         \/ AssessRestraint(refs, up, authorized, risk, FALSE, FALSE, "no")
    \/ SoulSaves \/ SoulRestarts
SoulSpec == SoulInit /\ [][SoulNext]_soulVars

------------------------------------------------------------------------------
\* Souls, with what the operations above put into them.
Souls == [learned : SUBSET Traits, lessons : SUBSET Traits, strengthened : SUBSET Traits, limits : SUBSET Traits,
          expression : {"neutral", "growth", "uncertain", "waiting", "confirmed", "error", "blocked"},
          organ : {"unassigned", "model"}]
AuditEntries == [type : {"experience_integrated", "limitation_acknowledged", "character_change_approved",
                         "constitutional_decision", "restraint_assessment"},
                 detail : Traits \cup {1, 2} \cup {"ask", "escalate", "pause", "proceed"},
                 refs : SUBSET EvidenceRefs, actor : {"owner", "runtime"}]
SoulTypeOK ==
    /\ proof \in [EvidenceRefs -> {"good", "bad", "missing"}] /\ constitution = "default"
    /\ soul \in Souls /\ soulAudit \in Seq(AuditEntries) /\ wasRestored \in BOOLEAN
    /\ approval \in [status : {"none", "approved"}, scoped : BOOLEAN, consumed : BOOLEAN]
    /\ saved \in {<<>>} \cup {<<k>> : k \in [soul : Souls, audit : Seq(AuditEntries)]}
    /\ soulOps \in Nat

------------------------------------------------------------------------------
\* Character is learned only with the owner's name and evidence: each learned trait is
\* in the audit of the process that learned it, or in the snapshot it was restored from.
LearnedByOwner(t, audit) ==
    \E i \in DOMAIN audit : /\ audit[i].type \in {"character_change_approved", "experience_integrated"}
                            /\ audit[i].detail = t /\ audit[i].refs # {} /\ audit[i].actor = "owner"
CharacterIsEarned ==
    /\ \A t \in soul.learned : \/ LearnedByOwner(t, soulAudit)
                               \/ wasRestored /\ t \in saved[1].soul.learned
    /\ soul.lessons \subseteq soul.learned /\ soul.strengthened \subseteq soul.learned
\* Of any two options, the one decide_conflict chooses names the highest value that
\* either names.
DecisionsFollowOrder ==
    \A a, b \in Counts :
      LET options == <<a, b>>
          named == {v \in MoralValues : a[v] > 0 \/ b[v] > 0}
      IN \A v \in named : (\A w \in named : v <= w) => options[Selected(options)][v] > 0
\* Whatever else is asked, the kernel proceeds only with every reference verified,
\* authority and certainty, never with R4 or a destructive R3.
ProceedsOnlyWhenSafe ==
    \A refs \in SUBSET EvidenceRefs, up, authorized, unsure, destructive \in BOOLEAN, risk \in {"R1", "R3", "R4"} :
      Disposition(refs, up, authorized, risk, unsure, destructive, "no") = "proceed" =>
        /\ authorized /\ ~unsure /\ refs # {} /\ risk # "R4" /\ ~(destructive /\ risk = "R3")
        /\ \A r \in refs : proof[r] = "good"
SoulSound == CharacterIsEarned /\ DecisionsFollowOrder /\ ProceedsOnlyWhenSafe
=============================================================================
