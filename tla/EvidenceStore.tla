---------------------------- MODULE EvidenceStore ----------------------------
(***************************************************************************)
(* The evidence store (evidence.py) over the records and events of db.py.   *)
(* An artifact is known by its idempotency key, from which its id and the   *)
(* ids of its two events derive.  Its envelope hash and the row's hash are  *)
(* one flag, its content hash the content it was computed over.  add,       *)
(* replay with repair, and verify each read the record, decide, and write   *)
(* in one transaction that demands the record read: other callers run in    *)
(* between.                                                                 *)
(***************************************************************************)
EXTENDS Integers, FiniteSets

CONSTANTS
    Callers,        \* callers of add, verify and receipt_status
    EvidenceKeys,   \* idempotency keys
    MaxCalls        \* bound on calls

VARIABLES
    evRows,      \* key -> NoEvidence, or [content, sha, status, source, legacy, intact, org]
    evCreated,   \* key -> NoEvidence, or the evidence.created event [content, keyed]
    evVerified,  \* keys with an evidence.verified event
    evFirst,     \* key -> NoEvidence, or the content first recorded
    evTold,      \* key -> creation events announced to subscribers
    tampered,    \* keys whose row was changed behind the store
    caller,      \* caller -> its call: [op, key, content, at, read, tries]
    invocation,  \* NoEvidence, or the tool record of the mission: [receipt, linked, failed, coded]
    answers,     \* what calls returned: [op, key, content]
    callCount

evVars == <<evRows, evCreated, evVerified, evFirst, evTold, tampered, caller, invocation,
            answers, callCount>>

NoEvidence == [none |-> TRUE]
Texts == {"c1", "c2"}
Idle == [at |-> "idle"]

EvidenceInit ==
    /\ evRows = [k \in EvidenceKeys |-> NoEvidence] /\ evCreated = [k \in EvidenceKeys |-> NoEvidence]
    /\ evVerified = {} /\ evFirst = [k \in EvidenceKeys |-> NoEvidence]
    /\ evTold = [k \in EvidenceKeys |-> 0] /\ tampered = {}
    /\ caller = [c \in Callers |-> Idle] /\ invocation = NoEvidence /\ answers = {} /\ callCount = 0

EvidenceReadable(k) == evRows[k] # NoEvidence /\ evRows[k].intact
\* _origin_projection: the record as it would have been, with the statuses and, for
\* a record without a request hash, the empty source it may have been created with.
OriginMatches(r) ==
    /\ r.org.content = r.content /\ r.org.sha = r.sha
    /\ r.org.status \in {r.status, "unverified", "verified"}
    /\ r.org.source = r.source \/ (r.legacy /\ r.org.source = "none")
DigestOk(r) == r.sha = r.content
\* _verification_transition_is_valid.
TransitionRecorded(k, r) == r.org.status = "verified" \/ k \in evVerified

\* is_preverified_and_integrity_bound.
Preverified(k) ==
    /\ EvidenceReadable(k) /\ evRows[k].status = "verified" /\ DigestOk(evRows[k])
    /\ OriginMatches(evRows[k]) /\ TransitionRecorded(k, evRows[k])
\* verify_artifact, and get_by_id without the origin.
Artifact(k) == EvidenceReadable(k) /\ DigestOk(evRows[k]) /\ OriginMatches(evRows[k])

\* _replay_artifact with a request for this content.
Replayable(k, content) == Artifact(k) /\ evRows[k].content = content

Say(c, what) == /\ answers' = answers \cup {what}
                /\ caller' = [caller EXCEPT ![c] = Idle]
Raise(c) == /\ caller' = [caller EXCEPT ![c] = Idle] /\ UNCHANGED answers
EvidenceAt(c, where) == caller[c].at = where
BeginCall(c, call) == /\ caller[c] = Idle /\ callCount < MaxCalls /\ callCount' = callCount + 1
                  /\ caller' = [caller EXCEPT ![c] = call]

------------------------------------------------------------------------------
\* add: an intact record with the key is replayed, or else claimed.
AddLooks(c, k, content) ==
    /\ BeginCall(c, [op |-> "add", key |-> k, content |-> content, read |-> NoEvidence, tries |-> 0,
                 at |-> IF EvidenceReadable(k) THEN "repair" ELSE "claim"])
    /\ UNCHANGED <<evRows, evCreated, evVerified, evFirst, evTold, tampered, invocation, answers>>

\* save_record_and_event_if_absent: the record wins; an event that is there must be
\* the one for this record.  Only an inserted event is announced.
AddClaims(c) ==
    LET k == caller[c].key
        b == caller[c].content
        fits == evCreated[k] # NoEvidence => evCreated[k] = [content |-> b, keyed |-> TRUE]
    IN /\ EvidenceAt(c, "claim")
       /\ IF evRows[k] = NoEvidence /\ fits
          THEN /\ \E status \in {"unverified", "verified"} :
                    evRows' = [evRows EXCEPT ![k] =
                      [content |-> b, sha |-> b, status |-> status, source |-> "own", intact |-> TRUE,
                       legacy |-> FALSE, org |-> [content |-> b, sha |-> b, status |-> status, source |-> "own"]]]
               /\ evFirst' = [evFirst EXCEPT ![k] = b]
               /\ evCreated' = [evCreated EXCEPT ![k] = [content |-> b, keyed |-> TRUE]]
               /\ evTold' = [evTold EXCEPT ![k] = IF evCreated[k] = NoEvidence THEN @ + 1 ELSE @]
               /\ caller' = [caller EXCEPT ![c].at = "reply"]
          ELSE /\ caller' = IF evRows[k] = NoEvidence THEN [caller EXCEPT ![c] = Idle]
                            ELSE [caller EXCEPT ![c].at = "reply"]
               /\ UNCHANGED <<evRows, evCreated, evFirst, evTold>>
       /\ UNCHANGED <<evVerified, tampered, invocation, answers, callCount>>
AddReplies(c) ==
    /\ EvidenceAt(c, "reply")
    /\ IF Replayable(caller[c].key, caller[c].content)
       THEN Say(c, [op |-> "add", key |-> caller[c].key, content |-> evRows[caller[c].key].content])
       ELSE Raise(c)
    /\ UNCHANGED <<evRows, evCreated, evVerified, evFirst, evTold, tampered, invocation, callCount>>

\* _replay_and_repair_event reads the record, ...
RepairReads(c) ==
    LET k == caller[c].key
    IN /\ EvidenceAt(c, "repair")
       /\ IF Replayable(k, caller[c].content) /\ caller[c].tries < 2
          THEN /\ caller' = [caller EXCEPT ![c].read = evRows[k], ![c].at = "rewrite",
                                           ![c].tries = @ + 1]
               /\ UNCHANGED answers
          ELSE Raise(c)
       /\ UNCHANGED <<evRows, evCreated, evVerified, evFirst, evTold, tampered, invocation, callCount>>

StillAnything(k, read) == evRows[k] # NoEvidence
\* ... and repair_record_event writes over that very record or over nothing.
StillAsRead(k, read) == evRows[k] = read

\* ... writes the event it lacks, or keys the one it has, and binds the record to it.
RepairWrites(c) ==
    LET k == caller[c].key
        read == caller[c].read
    IN /\ EvidenceAt(c, "rewrite")
       /\ IF StillAsRead(k, read)
          THEN /\ evRows' = [evRows EXCEPT ![k] = [read EXCEPT !.source = IF @ = "none" THEN "own" ELSE @]]
               /\ evCreated' = [evCreated EXCEPT ![k] =
                                  IF @ = NoEvidence THEN [content |-> read.org.content, keyed |-> TRUE]
                                  ELSE [@ EXCEPT !.keyed = TRUE]]
               /\ evTold' = [evTold EXCEPT ![k] = IF evCreated[k] = NoEvidence THEN @ + 1 ELSE @]
               /\ caller' = [caller EXCEPT ![c].at = "reply"]
          ELSE /\ caller' = [caller EXCEPT ![c].at = "repair"]
               /\ UNCHANGED <<evRows, evCreated, evTold>>
       /\ UNCHANGED <<evVerified, evFirst, tampered, invocation, answers, callCount>>

\* verify reads an intact record, ...
VerifyReads(c, k, op) ==
    /\ EvidenceReadable(k)
    /\ BeginCall(c, [op |-> op, key |-> k, content |-> evRows[k].content, read |-> evRows[k],
                 tries |-> 0, at |-> "verify"])
    /\ UNCHANGED <<evRows, evCreated, evVerified, evFirst, evTold, tampered, invocation, answers>>

\* receipt_status over the tool record: invalid after a failure without a code,
\* missing without a linked receipt, present when the receipt verifies.
ReceiptStatus(verified) ==
    IF invocation.failed /\ ~invocation.coded THEN "invalid"
    ELSE IF ~invocation.linked \/ ~verified THEN "missing" ELSE "present"
Conclude(c, verified) ==
    Say(c, IF caller[c].op = "verify"
           THEN [op |-> "verify", key |-> caller[c].key, content |-> IF verified THEN "valid" ELSE "corrupt"]
           ELSE [op |-> "receipts", key |-> caller[c].key, content |-> ReceiptStatus(verified)])
\* ... compares its content with its hash and records the outcome with its event; a
\* record that changed meanwhile is a conflict, which a receipt check counts as
\* unverifiable.
VerifyWrites(c) ==
    LET k == caller[c].key
        read == caller[c].read
    IN /\ EvidenceAt(c, "verify")
       /\ IF StillAsRead(k, read)
          THEN /\ evRows' = [evRows EXCEPT ![k] = [read EXCEPT !.status = IF DigestOk(read) THEN "verified"
                                                                          ELSE "corrupt"]]
               /\ evVerified' = IF DigestOk(read) THEN evVerified \cup {k} ELSE evVerified
               /\ Conclude(c, DigestOk(read))
          ELSE /\ UNCHANGED <<evRows, evVerified>>
               /\ IF caller[c].op = "receipts" THEN Conclude(c, FALSE) ELSE Raise(c)
       /\ UNCHANGED <<evCreated, evFirst, evTold, tampered, invocation, callCount>>

\* receipt_status: the receipt the tool record names is verified.
ReceiptCheck(c) ==
    /\ invocation # NoEvidence
    /\ \/ EvidenceReadable(invocation.receipt) /\ VerifyReads(c, invocation.receipt, "receipts")
       \/ /\ ~EvidenceReadable(invocation.receipt) /\ caller[c] = Idle
          /\ callCount < MaxCalls /\ callCount' = callCount + 1
          /\ answers' = answers \cup {[op |-> "receipts", key |-> invocation.receipt,
                                       content |-> ReceiptStatus(FALSE)]}
          /\ UNCHANGED <<evRows, evCreated, evVerified, evFirst, evTold, tampered, caller, invocation>>

------------------------------------------------------------------------------
\* A record of the code before creation events and request hashes, whose event was
\* never written or has no key.
LegacyRecord(k, b, event) ==
    /\ evRows[k] = NoEvidence /\ evCreated[k] = NoEvidence /\ callCount = 0
    /\ evRows' = [evRows EXCEPT ![k] =
         [content |-> b, sha |-> b, status |-> "unverified", source |-> "none", intact |-> TRUE,
          legacy |-> TRUE, org |-> [content |-> b, sha |-> b, status |-> "unverified", source |-> "none"]]]
    /\ evFirst' = [evFirst EXCEPT ![k] = b]
    /\ evCreated' = [evCreated EXCEPT ![k] = IF event THEN [content |-> b, keyed |-> FALSE] ELSE NoEvidence]
    /\ UNCHANGED <<evVerified, evTold, tampered, caller, invocation, answers, callCount>>

\* The row changes behind the store: its bytes, the hashes over it redone with the
\* content hash left, or all of them redone; the origin cannot be redone.  Once for
\* each key.
Tamper(k, b, how) ==
    /\ evRows[k] # NoEvidence /\ evRows[k].content # b /\ k \notin tampered
    /\ evRows' = [evRows EXCEPT ![k].content = b, ![k].intact = (how # "bytes"),
                                ![k].sha = IF how = "resealed" THEN b ELSE @]
    /\ tampered' = tampered \cup {k}
    /\ UNCHANGED <<evCreated, evVerified, evFirst, evTold, caller, invocation, answers, callCount>>

\* The tool runtime saves the record of an invocation and links its receipt.
SaveInvocation(k) ==
    /\ invocation = NoEvidence /\ callCount < MaxCalls
    /\ \E linked, failed, coded \in BOOLEAN :
         invocation' = [receipt |-> k, linked |-> linked /\ evRows[k] # NoEvidence, failed |-> failed,
                        coded |-> coded]
    /\ UNCHANGED <<evRows, evCreated, evVerified, evFirst, evTold, tampered, caller, answers, callCount>>

EvidenceNext ==
    \/ \E c \in Callers :
         \/ AddClaims(c) \/ AddReplies(c) \/ RepairReads(c) \/ RepairWrites(c) \/ VerifyWrites(c)
         \/ ReceiptCheck(c)
         \/ \E k \in EvidenceKeys : VerifyReads(c, k, "verify") \/ \E b \in Texts : AddLooks(c, k, b)
    \/ \E k \in EvidenceKeys :
         \/ SaveInvocation(k)
         \/ \E b \in Texts :
              \/ \E event \in BOOLEAN : LegacyRecord(k, b, event)
              \/ \E how \in {"bytes", "hashed", "resealed"} : Tamper(k, b, how)

EvidenceSpec == EvidenceInit /\ [][EvidenceNext]_evVars

------------------------------------------------------------------------------
Artifacts == [content : Texts, sha : Texts, status : {"unverified", "verified", "corrupt"},
              source : {"own", "none"}, intact : BOOLEAN, legacy : BOOLEAN,
              org : [content : Texts, sha : Texts, status : {"unverified", "verified"},
                     source : {"own", "none"}]]
EvidenceCalls == [op : {"add", "verify", "receipts"}, key : EvidenceKeys, content : Texts,
                  read : Artifacts \cup {NoEvidence}, tries : 0..2,
                  at : {"claim", "repair", "rewrite", "reply", "verify"}]

EvidenceTypeOK ==
    /\ evRows \in [EvidenceKeys -> Artifacts \cup {NoEvidence}]
    /\ evCreated \in [EvidenceKeys -> [content : Texts, keyed : BOOLEAN] \cup {NoEvidence}]
    /\ evVerified \subseteq EvidenceKeys /\ tampered \subseteq EvidenceKeys
    /\ evFirst \in [EvidenceKeys -> Texts \cup {NoEvidence}]
    /\ evTold \in [EvidenceKeys -> Nat]
    /\ caller \in [Callers -> EvidenceCalls \cup {Idle}]
    /\ invocation \in [receipt : EvidenceKeys, linked : BOOLEAN, failed : BOOLEAN, coded : BOOLEAN]
                         \cup {NoEvidence}
    /\ answers \subseteq [op : {"add", "verify", "receipts"}, key : EvidenceKeys,
                          content : Texts \cup {"valid", "corrupt", "invalid", "missing", "present"}]

\* Whoever calls in whatever order: every answer of add under a key is the content
\* first recorded under it, which is what its creation event carries; a record
\* trusted as verified holds that content and its verification is on the log; the
\* verification of a record nobody tampered with is never undone by a repair that
\* read the record before it; and the creation is announced once.  A present
\* receipt was verified on the log.
EvidenceSound ==
    /\ \A a \in answers : a.op = "add" => a.content = evFirst[a.key]
    /\ \A k \in EvidenceKeys :
         /\ Preverified(k) => evRows[k].content = evFirst[k]
         /\ evCreated[k] # NoEvidence => evCreated[k].content = evFirst[k]
         /\ k \in evVerified \ tampered => evRows[k].status = "verified"
         /\ evTold[k] <= 1
    /\ \A a \in answers : a.op = "receipts" /\ a.content = "present" =>
         /\ a.key \in evVerified
         /\ ~(invocation.failed /\ ~invocation.coded)
=============================================================================
