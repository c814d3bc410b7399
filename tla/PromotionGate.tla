---------------------------- MODULE PromotionGate ----------------------------
(***************************************************************************)
(* The promotion gate of controlled evolution (product_reality/evolution.py *)
(* and twin.py).  An assessment reads evidence, the stored rollback         *)
(* checkpoint and one or two stored approvals, each in its own store call,  *)
(* then consumes the approvals in one compare-and-set.  Meanwhile the owner *)
(* decides, approvals expire, other assessments run, and stored rows may be *)
(* rewritten by something that can reach the database.  One proposal;       *)
(* editing it gives it another content digest.                              *)
(***************************************************************************)
EXTENDS Integers, Sequences, FiniteSets

CONSTANTS
    Assessors,      \* assessments that may overlap
    GateApprovals,  \* approval ids
    Contents,       \* content digests of the proposal
    GateRisks,      \* risk levels the proposal may have
    Expected,       \* the expected product state, a partial function of paths
    TwinStates,     \* product states that may be observed
    MaxAssessments, \* bound on assessments started
    MaxRewrites     \* bound on rows rewritten behind the gate's back

VARIABLES
    gateGrants,     \* approval -> [status, action, content, risk, executor, by, live]
    spentBy,    \* approval.consumed events: approval -> 0 or the promotion that wrote it
    proofs,     \* evidence references -> "verified" or "broken"
    checkpoint, \* the stored product_twin_checkpoint, or NoCheckpoint
    assessing,  \* assessor -> [step, risk, content, actor, held]
    promotions, \* decisions with allowed=True, in order: [risk, content, used]
    assessments, rewrites

gateVars == <<gateGrants, spentBy, proofs, checkpoint, assessing, promotions, assessments, rewrites>>

NoValue == "none"
Refs == {"evidence", "rollback"}
Managed == {"R2", "R3", "R4"}
ApprovalRisks == {"R3", "R4"}
Absent == [status |-> NoValue, action |-> NoValue, content |-> NoValue, risk |-> NoValue, executor |-> NoValue,
           by |-> NoValue, live |-> TRUE]
NoCheckpoint == [stored |-> FALSE]
Idle == [step |-> "idle", risk |-> NoValue, content |-> NoValue, actor |-> NoValue, held |-> {}]

GateInit ==
    /\ gateGrants = [a \in GateApprovals |-> Absent] /\ spentBy = [a \in GateApprovals |-> 0]
    /\ proofs = [r \in Refs |-> "verified"] /\ checkpoint = NoCheckpoint
    /\ assessing = [p \in Assessors |-> Idle] /\ promotions = <<>> /\ assessments = 0 /\ rewrites = 0

------------------------------------------------------------------------------
\* _diff of two states: the paths present on one side only, or with another value.
Missing == "missing"
ValueAt(state, path) == IF path \in DOMAIN state THEN state[path] ELSE Missing
Diff(expected, observed) ==
    {<<path, ValueAt(expected, path), ValueAt(observed, path)>> :
        path \in {p \in DOMAIN expected \cup DOMAIN observed : ValueAt(expected, p) # ValueAt(observed, p)}}
\* _classify and _severity of a path.
Severity(path) == CASE path = "policy" -> "R3" [] path \in {"evidence", "focus", "queue"} -> "R2" [] OTHER -> "R1"
\* detect_drift: the findings with their severity.
DetectDrift(expected, observed) == {<<d, Severity(d[1])>> : d \in Diff(expected, observed)}

\* capture: both snapshots with their digests, and the drift between them.  A
\* digest is the state it was computed from.
CaptureTwin(expected, observed, reversible) ==
    /\ ~checkpoint.stored
    /\ checkpoint' = [stored |-> TRUE, expected |-> expected, expectedSha |-> expected,
                      observed |-> observed, observedSha |-> observed,
                      findings |-> DetectDrift(expected, observed),
                      reversible |-> reversible, original |-> TRUE]
    /\ UNCHANGED <<gateGrants, spentBy, proofs, assessing, promotions, assessments, rewrites>>

\* What get_checkpoint and the gate both require of the stored row.
CheckpointIntact(c) ==
    /\ c.original
    /\ c.expectedSha = c.expected /\ c.observedSha = c.observed
    /\ c.findings = DetectDrift(c.expected, c.observed)
\* _validate_checkpoint
CheckpointValid == checkpoint.stored /\ CheckpointIntact(checkpoint) /\ checkpoint.reversible

------------------------------------------------------------------------------
\* ApprovalEngine.request and decide for this proposal, by how the gate uses them.
RequestGrant(a, action, content, risk) ==
    /\ gateGrants[a].status = NoValue
    /\ gateGrants' = [gateGrants EXCEPT ![a] = [Absent EXCEPT !.status = "PENDING", !.action = action,
                                        !.content = content, !.risk = risk, !.executor = "builder"]]
    /\ UNCHANGED <<spentBy, proofs, checkpoint, assessing, promotions, assessments, rewrites>>
DecideGrant(a, status, who) ==
    /\ gateGrants[a].status = "PENDING" /\ gateGrants[a].live
    /\ gateGrants' = [gateGrants EXCEPT ![a].status = status, ![a].by = who]
    /\ UNCHANGED <<spentBy, proofs, checkpoint, assessing, promotions, assessments, rewrites>>
GrantExpires(a) ==
    /\ gateGrants[a].status \in {"PENDING", "APPROVED"} /\ gateGrants[a].live
    /\ gateGrants' = [gateGrants EXCEPT ![a].live = FALSE]
    /\ UNCHANGED <<spentBy, proofs, checkpoint, assessing, promotions, assessments, rewrites>>

\* Rows rewritten in the database: an approval sealed back to APPROVED, evidence
\* whose digest no longer fits, a checkpoint resealed with another state.
Rewritten == rewrites < MaxRewrites /\ rewrites' = rewrites + 1
ResealGrant(a) ==
    /\ Rewritten /\ gateGrants[a].status = "CONSUMED"
    /\ gateGrants' = [gateGrants EXCEPT ![a].status = "APPROVED"]
    /\ UNCHANGED <<spentBy, proofs, checkpoint, assessing, promotions, assessments>>
BreakEvidence(r) ==
    /\ Rewritten /\ proofs[r] = "verified"
    /\ proofs' = [proofs EXCEPT ![r] = "broken"]
    /\ UNCHANGED <<gateGrants, spentBy, checkpoint, assessing, promotions, assessments>>
ResealCheckpoint(observed) ==
    /\ Rewritten /\ checkpoint.stored
    /\ checkpoint' = [checkpoint EXCEPT !.observed = observed, !.observedSha = observed, !.original = FALSE]
    /\ UNCHANGED <<gateGrants, spentBy, proofs, assessing, promotions, assessments>>

------------------------------------------------------------------------------
\* _verify_evidence_refs
EvidenceVerified(r) == proofs[r] = "verified"
\* The validation flags a risk level asks for.
Required(risk) == {"verification"} \cup (IF risk = "R0" THEN {} ELSE {"simulation"})
                  \cup (IF risk \in Managed THEN {"accessibility", "governance"} ELSE {})
\* assess up to the approvals: any unmet requirement ends in a refusal, which
\* changes nothing.
Assess(p, risk, content, actor, passed) ==
    /\ assessing[p].step = "idle" /\ assessments < MaxAssessments
    /\ assessments' = assessments + 1
    /\ LET met == /\ EvidenceVerified("evidence") /\ Required(risk) \subseteq passed
                  /\ risk \in Managed => EvidenceVerified("rollback") /\ CheckpointValid
       IN assessing' = [assessing EXCEPT ![p] =
              IF ~met THEN Idle
              ELSE [step |-> IF risk \in ApprovalRisks THEN "promote" ELSE "consume",
                    risk |-> risk, content |-> content, actor |-> actor, held |-> {}]]
    /\ UNCHANGED <<gateGrants, spentBy, proofs, checkpoint, promotions, rewrites>>

\* _validate_stored_approval: approved for this action, content, risk and
\* executor, by an authorized human, unexpired and with no consumption event.
GrantValid(a, action, risk, content, actor) ==
    /\ gateGrants[a].status = "APPROVED" /\ gateGrants[a].live /\ gateGrants[a].by = "owner"
    /\ gateGrants[a].action = action /\ gateGrants[a].content = content
    /\ gateGrants[a].risk = risk /\ gateGrants[a].executor = actor
    /\ spentBy[a] = 0
\* The approval the caller named for the promotion, then for an R4 the one for
\* the release.  A missing or invalid one ends in a refusal.
ReadGrant(p, a) ==
    /\ assessing[p].step \in {"promote", "release"}
    /\ LET s == assessing[p]
           next == IF s.step = "promote" /\ s.risk = "R4" THEN "release" ELSE "consume"
       IN assessing' = [assessing EXCEPT ![p] =
              IF a # NoValue /\ GrantValid(a, s.step, s.risk, s.content, s.actor)
              THEN [s EXCEPT !.step = next, !.held = @ \cup {a}] ELSE Idle]
    /\ UNCHANGED <<gateGrants, spentBy, proofs, checkpoint, promotions, assessments, rewrites>>

\* A consumption that trusts the status of the row and not the durable event.
ConsumableByStatus(a) == gateGrants[a].status = "APPROVED"
\* compare_and_set_record_fields_and_events_atomically on one approval: the row
\* is as it was read, and no event of its consumption exists.
Consumable(a) == gateGrants[a].status = "APPROVED" /\ spentBy[a] = 0
\* _consume_approvals_atomically: every approval and its event, or none.
ConsumeGrants(p) ==
    /\ assessing[p].step = "consume"
    /\ LET s == assessing[p] IN
       /\ IF \A a \in s.held : Consumable(a)
          THEN /\ gateGrants' = [a \in GateApprovals |->
                      IF a \in s.held THEN [gateGrants[a] EXCEPT !.status = "CONSUMED"] ELSE gateGrants[a]]
               /\ spentBy' = [a \in GateApprovals |->
                      IF a \in s.held THEN Len(promotions) + 1 ELSE spentBy[a]]
               /\ promotions' = Append(promotions, [risk |-> s.risk, content |-> s.content, used |-> s.held])
          ELSE UNCHANGED <<gateGrants, spentBy, promotions>>
       /\ assessing' = [assessing EXCEPT ![p] = Idle]
    /\ UNCHANGED <<proofs, checkpoint, assessments, rewrites>>

GateNext ==
    \/ \E o \in TwinStates, b \in BOOLEAN : CaptureTwin(Expected, o, b)
    \/ \E a \in GateApprovals, act \in {"promote", "release"}, c \in Contents, r \in ApprovalRisks \cap GateRisks :
          RequestGrant(a, act, c, r)
    \/ \E a \in GateApprovals : \/ \E who \in {"owner", "stranger"} : DecideGrant(a, "APPROVED", who)
                               \/ DecideGrant(a, "REJECTED", "owner")
    \/ \E a \in GateApprovals : GrantExpires(a) \/ ResealGrant(a)
    \/ \E r \in Refs : BreakEvidence(r)
    \/ \E o \in TwinStates : ResealCheckpoint(o)
    \/ \E p \in Assessors, r \in GateRisks, c \in Contents, actor \in {"builder", "other"},
          passed \in {{"verification", "simulation"}, {"verification", "simulation", "accessibility", "governance"}} :
          Assess(p, r, c, actor, passed)
    \/ \E p \in Assessors, a \in GateApprovals \cup {NoValue} : ReadGrant(p, a)
    \/ \E p \in Assessors : ConsumeGrants(p)

GateSpec == GateInit /\ [][GateNext]_gateVars

------------------------------------------------------------------------------
GateActions == {"promote", "release"}
Actors == {"builder", "other"}
Deciders == {"owner", "stranger"}

Grants ==
    [status : {NoValue, "PENDING", "APPROVED", "REJECTED", "CONSUMED"}, action : GateActions \cup {NoValue},
     content : Contents \cup {NoValue}, risk : GateRisks \cup {NoValue}, executor : Actors \cup {NoValue},
     by : Deciders \cup {NoValue}, live : BOOLEAN]
Assessments ==
    [step : {"idle", "promote", "release", "consume"}, risk : GateRisks \cup {NoValue},
     content : Contents \cup {NoValue}, actor : Actors \cup {NoValue}, held : SUBSET GateApprovals]
Decisions ==
    [risk : GateRisks \cup {NoValue}, content : Contents \cup {NoValue}, used : SUBSET GateApprovals]

\* The types: every grant, assessment and decision is one the gate could have
\* written, and an assessment holds only stored approvals.
GateTypeOK ==
    /\ gateGrants \in [GateApprovals -> Grants] /\ spentBy \in [GateApprovals -> Nat]
    /\ assessing \in [Assessors -> Assessments] /\ promotions \in Seq(Decisions)

\* However assessments overlap and rows are sealed back, an approval carries
\* one promotion at most and no promotion spends part of what it needs: the
\* approvals of an allowed decision are owner decisions on that content and
\* risk, two different ones for an R4, and each one's consumption event names
\* that decision and no other.
PromotionSound ==
    /\ \A n \in DOMAIN promotions :
          LET d == promotions[n] IN
          /\ Cardinality(d.used) = (CASE d.risk = "R4" -> 2 [] d.risk = "R3" -> 1 [] OTHER -> 0)
          /\ \A a \in d.used : /\ spentBy[a] = n /\ gateGrants[a].by = "owner"
                               /\ gateGrants[a].content = d.content /\ gateGrants[a].risk = d.risk
    /\ \A a \in GateApprovals : spentBy[a] # 0 => a \in promotions[spentBy[a]].used
==============================================================================
