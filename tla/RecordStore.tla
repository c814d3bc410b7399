----------------------------- MODULE RecordStore -----------------------------
(***************************************************************************)
(* The durable store (db.py): rows with an integrity hash over the whole    *)
(* envelope and an origin hash set by the first write, the event log, and   *)
(* the schema upgrade a process runs when it opens an older database.  A    *)
(* hash is the content it was computed over.  Every method is one SQLite    *)
(* transaction; what it was handed may have been read long before.  In the  *)
(* upgrade only the two ALTER TABLE statements commit on their own: the     *)
(* connection opens a transaction with the first UPDATE.                    *)
(***************************************************************************)
EXTENDS Integers, FiniteSets, FiniteSetsExt

CONSTANTS
    RecordIds,     \* record ids
    RecordKind,    \* id -> "approval", "evidence" or "plain"
    Holders,       \* callers that keep an envelope they have read
    MaxStoreOps,   \* bound on the operations of one behaviour
    MaxOpens       \* bound on the times the database is opened

VARIABLES
    rows,     \* id -> Absent, or [body, sum (integrity_sha256), org (origin_sha256)]
    log,      \* id -> NoEvent, or its creation event [body, keyed, form]
    moves,    \* id -> the events of its governed transition
    columns,  \* the hash columns the records table has
    opening,  \* "new", "closed", "sum", "org" (steps of _init_schema), "open"
    added,    \* this opening added the integrity column
    held,     \* holder -> NoEvent, or the envelope it read: [id, sum]
    legacy,   \* the database was written before the hash columns existed
    storeOps, \* operations so far, opens so far
    opens

storeVars == <<rows, log, moves, columns, opening, added, held, legacy, storeOps, opens>>

Absent == [absent |-> TRUE]
NoEvent == [none |-> TRUE]
Missing == "missing"     \* a NULL hash
Undecodable == "bad"     \* a payload that is not a JSON object

\* A row of the current code: both hashes over the body.
Fresh(b) == [body |-> b, sum |-> b, org |-> b]
Present(i) == rows[i] # Absent
\* _record_integrity compared with the stored hash.
Valid(r) == r # Absent /\ r.body # Undecodable /\ r.sum = r.body
\* get_record_envelope: the row with a matching hash and an origin.
Readable(r) == Valid(r) /\ r.org # Missing

RecordStoreInit ==
    /\ rows = [i \in RecordIds |-> Absent] /\ log = [i \in RecordIds |-> NoEvent]
    /\ moves = [i \in RecordIds |-> 0]
    /\ columns = {} /\ opening = "new" /\ added = FALSE
    /\ held = [c \in Holders |-> NoEvent]
    /\ legacy = FALSE /\ storeOps = 0 /\ opens = 0

------------------------------------------------------------------------------
\* _init_schema

\* What a database from before the hash columns holds: a decided approval, an
\* evidence record without its envelope hash, a plain record.
OldBody(i) == CASE RecordKind[i] = "approval" -> "two"
                [] RecordKind[i] = "evidence" -> "raw"
                [] OTHER -> "one"
\* The database found on disk: none, one with neither column, or one with the
\* integrity column only; its request events whole, or not (a summary, a foreign
\* event id, two that disagree).
FindDatabase ==
    /\ opening = "new" /\ opening' = "closed"
    /\ \/ legacy' = FALSE /\ columns' = {"sum", "org"} /\ UNCHANGED <<rows, log>>
       \/ \E sums \in BOOLEAN, form \in {"full", "other"} :
            /\ legacy' = TRUE /\ columns' = IF sums THEN {"sum"} ELSE {}
            /\ rows' = [i \in RecordIds |->
                          [body |-> OldBody(i), org |-> Missing,
                           sum |-> IF sums THEN OldBody(i) ELSE Missing]]
            /\ log' = [i \in RecordIds |-> IF RecordKind[i] = "plain" THEN NoEvent
                                           ELSE [body |-> "one", keyed |-> TRUE, form |-> form]]
    /\ UNCHANGED <<moves, added, held, storeOps, opens>>

\* The tables exist; the integrity column is added if it is not there.
AlterIntegrity ==
    /\ opening = "closed" /\ opens < MaxOpens /\ opens' = opens + 1
    /\ opening' = "sum" /\ added' = ("sum" \notin columns) /\ columns' = columns \cup {"sum"}
    /\ UNCHANGED <<rows, log, moves, held, legacy, storeOps>>
AlterOrigin ==
    /\ opening = "sum" /\ opening' = "org" /\ columns' = columns \cup {"org"}
    /\ UNCHANGED <<rows, log, moves, added, held, legacy, storeOps, opens>>

\* The integrity backfill of one row: a corrupt payload is left as it is, and so is
\* a row without a hash in a table that had the column; evidence gets its envelope
\* hash when the row's own hash holds.
BackfillSum(i, r) ==
    IF \/ r = Absent \/ r.body = Undecodable \/ (~added /\ r.sum = Missing)
       \/ r.body # "raw" /\ r.sum # Missing
       \/ r.body = "raw" /\ r.sum \notin {Missing, r.body}
    THEN r
    ELSE LET b == IF r.body = "raw" THEN "one" ELSE r.body
         IN [r EXCEPT !.body = b, !.sum = b]

\* requested_approvals and created_evidence: the content a whole request or
\* creation event with the right id and key carries.
OriginFromEvent(i) == IF log[i] # NoEvent /\ log[i].form = "full" /\ log[i].keyed
                      THEN log[i].body ELSE Missing

BackfillOriginCurrent(i, r) ==
    IF Valid(r) /\ r.org = Missing THEN [r EXCEPT !.org = r.body] ELSE r

\* The origin backfill of one row with a valid hash: approvals and evidence from
\* their event, others from what they hold.
BackfillOrigin(i, r) ==
    IF Valid(r) /\ r.org = Missing
    THEN [r EXCEPT !.org = IF RecordKind[i] = "plain" THEN r.body ELSE OriginFromEvent(i)]
    ELSE r

\* Both backfills and the index of the event keys commit together.
Backfill ==
    /\ opening = "org" /\ opening' = "open"
    /\ rows' = [i \in RecordIds |-> BackfillOrigin(i, BackfillSum(i, rows[i]))]
    /\ UNCHANGED <<log, moves, columns, added, held, legacy, storeOps, opens>>

\* The process dies; what it held is gone, what was not committed too.
StoreCrash ==
    /\ opening \in {"sum", "org", "open"} /\ opening' = "closed" /\ opens < MaxOpens
    /\ added' = FALSE /\ held' = [c \in Holders |-> NoEvent]
    /\ UNCHANGED <<rows, log, moves, columns, legacy, storeOps, opens>>

------------------------------------------------------------------------------
\* The methods, each under the lock.
StoreOp ==
    /\ opening = "open" /\ storeOps < MaxStoreOps /\ storeOps' = storeOps + 1
    /\ UNCHANGED <<columns, opening, added, legacy, opens>>

\* save_record: an upsert that keeps the origin of the row it replaces.
SaveRecord(i, b) ==
    /\ StoreOp /\ UNCHANGED <<log, moves, held>>
    /\ rows' = [rows EXCEPT ![i] = IF Present(i) THEN [@ EXCEPT !.body = b, !.sum = b]
                                   ELSE Fresh(b)]
\* save_record_if_absent.
SaveRecordIfAbsent(i, b) ==
    /\ StoreOp /\ UNCHANGED <<log, moves, held>>
    /\ rows' = [rows EXCEPT ![i] = IF Present(i) THEN @ ELSE Fresh(b)]
\* save_records_atomically: rows that exist must be the ones asked for, or nothing
\* is saved.
SaveRecordsAtomically(S, b) ==
    /\ StoreOp /\ UNCHANGED <<log, moves, held>>
    /\ rows' = IF \A i \in S : Present(i) => rows[i].body = b /\ rows[i].sum = b
               THEN [i \in RecordIds |-> IF i \in S /\ ~Present(i) THEN Fresh(b) ELSE rows[i]]
               ELSE rows

\* get_record_envelope by a caller that will write later.
ReadEnvelope(c, i) ==
    /\ StoreOp /\ Readable(rows[i])
    /\ held' = [held EXCEPT ![c] = [id |-> i, sum |-> rows[i].sum]]
    /\ UNCHANGED <<rows, log, moves>>

\* The row is still, byte for byte, the one the holder read.
Unchanged(c) == Valid(rows[held[c].id]) /\ rows[held[c].id].sum = held[c].sum

\* compare_and_set_record_fields_atomically: all or none.
SetFields(S, from, to) ==
    /\ StoreOp /\ UNCHANGED <<log, moves, held>>
    /\ rows' = IF \A i \in S : Valid(rows[i]) /\ rows[i].body = from
               THEN [i \in RecordIds |-> IF i \in S THEN [rows[i] EXCEPT !.body = to, !.sum = to]
                                         ELSE rows[i]]
               ELSE rows
\* compare_and_set_record_field.
SetField(i, from, to) == SetFields({i}, from, to)
\* replace_record_payload_if_integrity_matches.
ReplacePayload(c, b) ==
    /\ StoreOp /\ held[c] # NoEvent /\ UNCHANGED <<log, moves, held>>
    /\ rows' = IF Unchanged(c) THEN [rows EXCEPT ![held[c].id].body = b, ![held[c].id].sum = b]
               ELSE rows

TransitionAllowedByValue(S, from) == \A i \in S : Valid(rows[i]) /\ rows[i].body = from

\* The conditions of compare_and_set_record_fields_and_events_atomically: valid
\* rows with the expected value, and no transition event on the log.
TransitionAllowed(S, from) ==
    \A i \in S : Valid(rows[i]) /\ rows[i].body = from /\ moves[i] = 0
SetFieldsAndEvents(S, from, to) ==
    /\ StoreOp /\ UNCHANGED <<log, held>>
    /\ IF TransitionAllowed(S, from)
       THEN /\ rows' = [i \in RecordIds |->
                          IF i \in S THEN [rows[i] EXCEPT !.body = to, !.sum = to] ELSE rows[i]]
            /\ moves' = [i \in RecordIds |-> IF i \in S THEN moves[i] + 1 ELSE moves[i]]
       ELSE UNCHANGED <<rows, moves>>

\* save_record_and_event_if_absent: the record wins, and an event that is already
\* there must be the very one asked for.
SaveRecordAndEvent(i, b) ==
    /\ StoreOp /\ UNCHANGED <<moves, held>>
    /\ IF ~Present(i) /\ (log[i] # NoEvent => log[i].body = b /\ log[i].keyed)
       THEN /\ rows' = [rows EXCEPT ![i] = Fresh(b)]
            /\ log' = [log EXCEPT ![i] = IF @ = NoEvent
                                         THEN [body |-> b, keyed |-> TRUE, form |-> "full"] ELSE @]
       ELSE UNCHANGED <<rows, log>>

\* repair_record_event: the row must be the one read; the event is inserted, or is
\* the same, or is the same without a key and gets the key.
RepairRecordEvent(c, e, b) ==
    /\ StoreOp /\ held[c] # NoEvent /\ UNCHANGED <<moves, held>>
    /\ LET i == held[c].id
       IN IF Unchanged(c) /\ (log[i] # NoEvent => log[i].body = e)
          THEN /\ rows' = [rows EXCEPT ![i].body = b, ![i].sum = b]
               /\ log' = [log EXCEPT ![i] = IF @ = NoEvent
                                            THEN [body |-> e, keyed |-> TRUE, form |-> "full"]
                                            ELSE [@ EXCEPT !.keyed = TRUE]]
          ELSE UNCHANGED <<rows, log>>

\* A process of the code before save_record_and_event_if_absent dies after the
\* event and before the record.
OrphanEvent(i, b) ==
    /\ StoreOp /\ ~Present(i) /\ log[i] = NoEvent
    /\ log' = [log EXCEPT ![i] = [body |-> b, keyed |-> TRUE, form |-> "full"]]
    /\ UNCHANGED <<rows, moves, held>>
\* The stored bytes change behind the store's back.
Damage(i, b) ==
    /\ StoreOp /\ Present(i) /\ rows' = [rows EXCEPT ![i].body = b] /\ UNCHANGED <<log, moves, held>>

Contents == {"one", "two"}
Plain == {i \in RecordIds : RecordKind[i] = "plain"}
Governed == RecordIds \ Plain
ApprovalRecords == {i \in RecordIds : RecordKind[i] = "approval"}

Upgrade == FindDatabase \/ AlterIntegrity \/ AlterOrigin \/ Backfill \/ StoreCrash
Writes ==
    \E b \in Contents :
      \/ \E i \in Plain : SaveRecord(i, b) \/ SaveRecordIfAbsent(i, b)
      \/ \E S \in SUBSET Plain : S # {} /\ SaveRecordsAtomically(S, b)
      \/ \E i \in ApprovalRecords : Present(i) /\ SaveRecord(i, b)
      \/ \E i \in Governed : SaveRecordAndEvent(i, b) \/ OrphanEvent(i, b)
      \/ \E i \in RecordIds : Damage(i, b) \/ Damage(i, Undecodable)
Changes ==
    \E from, to \in Contents :
      \/ \E i \in Plain : SetField(i, from, to)
      \/ \E S \in SUBSET Plain : S # {} /\ SetFields(S, from, to)
      \/ \E S \in SUBSET ApprovalRecords : S # {} /\ SetFieldsAndEvents(S, "one", "two")
      \/ \E c \in Holders :
           /\ held[c] # NoEvent
           /\ \/ held[c].id \in Plain /\ ReplacePayload(c, to)
              \/ held[c].id \in Governed /\ RepairRecordEvent(c, from, to)
Reads == \E c \in Holders, i \in RecordIds : ReadEnvelope(c, i)
RecordStoreNext == Upgrade \/ Writes \/ Changes \/ Reads

RecordStoreSpec == RecordStoreInit /\ [][RecordStoreNext]_storeVars

------------------------------------------------------------------------------
Bodies == Contents \cup {"raw", Undecodable}
StoredRows == [body : Bodies, sum : Bodies \cup {Missing}, org : Bodies \cup {Missing}]
StoredEvents == [body : Bodies, keyed : BOOLEAN, form : {"full", "other"}]

StoreTypeOK ==
    /\ rows \in [RecordIds -> StoredRows \cup {Absent}]
    /\ log \in [RecordIds -> StoredEvents \cup {NoEvent}]
    /\ moves \in [RecordIds -> Nat]
    /\ columns \subseteq {"sum", "org"}
    /\ opening \in {"new", "closed", "sum", "org", "open"}
    /\ added \in BOOLEAN /\ legacy \in BOOLEAN
    /\ held \in [Holders -> [id : RecordIds, sum : Bodies] \cup {NoEvent}]

\* The store's promises, whatever the database it was opened on, whoever changed
\* rows behind it and however often it was reopened: a readable approval or
\* evidence record is anchored in the content its request or creation event
\* carries, never in what it says now; the transition event of a record is
\* committed once, even when the record is later put back to the state before it;
\* and a claim and its event are of the same caller.
StoreSound ==
    /\ \A i \in Governed : Readable(rows[i]) => log[i] # NoEvent /\ rows[i].org = log[i].body
    /\ \A i \in RecordIds : moves[i] <= 1
    /\ \A i \in Governed : legacy /\ log[i].form = "other" => ~Readable(rows[i])
=============================================================================
