--------------------------- MODULE Stores_proofs ---------------------------
(***************************************************************************)
(* What holds of the components that keep records, for any number of       *)
(* records, writers, crashes and readers.  Each part has an inductive      *)
(* invariant of its own; at the end the suite, in which one component      *)
(* moves and the others stay, is shown to implement each of them.          *)
(*                                                                         *)
(* Records.  An origin is only ever written from a whole event, and an     *)
(* event stays once it is written (Anchored).                              *)
(* Evidence.  A writer uses what it read before, so the invariant says of  *)
(* every call under way what its copy may still be compared with.          *)
(* Memory.  A superseded record is marked before its successor is saved;   *)
(* in between the writer that marked it holds the promise (MemSucceeded).  *)
(* Retrieval.  A hash leads to the document it was taken of, a fact of a   *)
(* scope is current only with the text last written there.                 *)
(* Conversations.  Without overlap at most one turn is under way, so what  *)
(* it read is what is stored (OneTurn, Snapshot), and a key that was       *)
(* looked up in vain has no message until that turn appends one.           *)
(***************************************************************************)
EXTENDS MCStores, TLAPS, FiniteSetTheorems, NaturalsInduction, WellFoundedInduction

------------------------------------------------------------------------------
(* Positions. *)

\* Of some positions one is the first, ...
LEMMA FirstOf ==
    ASSUME NEW n \in Nat, NEW S \in SUBSET (1..n), S # {}
    PROVE  Min(S) \in S
<1>1. S \subseteq Nat
  OBVIOUS
<1>2. PICK k \in S : \A j \in S : ~(<<j, k>> \in OpToRel(<, Nat))
  BY <1>1, NatLessThanWellFounded, WFMin
<1>3. \A j \in S : ~(j < k)
  BY <1>1, <1>2, Zenon DEF OpToRel
<1>4. \A j \in S : k <= j
  BY <1>1, <1>3
<1> QED  BY <1>4 DEF Min

\* ... and one the last.
LEMMA LastOf ==
    ASSUME NEW n \in Nat, NEW S \in SUBSET (1..n), S # {}
    PROVE  Max(S) \in S /\ \A j \in S : j <= Max(S)
<1> DEFINE T == {n - i : i \in S}
<1>1. T \subseteq Nat /\ T # {}
  <2>1. \A i \in S : i \in Nat /\ i <= n
    OBVIOUS
  <2>2. \A i \in S : n - i \in Nat
    BY <2>1
  <2> QED  BY <2>2
<1>2. PICK k \in T : \A j \in T : ~(<<j, k>> \in OpToRel(<, Nat))
  BY <1>1, NatLessThanWellFounded, WFMin
<1>3. \A j \in T : ~(j < k)
  BY <1>1, <1>2, Zenon DEF OpToRel
<1>4. PICK i \in S : k = n - i
  BY <1>2
<1>5. \A j \in S : i >= j
  <2> TAKE j \in S
  <2>1. ~(n - j < n - i)
    BY <1>3, <1>4
  <2> QED  BY <2>1
<1> QED  BY <1>4, <1>5 DEF Max

------------------------------------------------------------------------------
(* The record store. *)

\* A governed record has no origin but the content its event carries, readable
\* or not, and in an upgraded database only from a whole event.
Anchored ==
    \A i \in Governed : Present(i) /\ rows[i].org # Missing =>
        log[i] # NoEvent /\ log[i].body = rows[i].org /\ (legacy => log[i].form = "full")

\* What holds of the record store: its rows are anchored, an upgraded
\* database keeps every record, and a record is moved at most once.
RowsInv ==
    /\ StoreTypeOK
    /\ Anchored
    /\ legacy => \A i \in RecordIds : Present(i)
    /\ \A i \in RecordIds : moves[i] <= 1

\* A record that is absent is no row.
LEMMA AbsentIsNoRow == Absent \notin StoredRows
  BY DEF Absent, StoredRows

\* No event is neither an event nor a hold.
LEMMA NoEventIsNone == NoEvent \notin StoredEvents /\ NoEvent \notin [id : RecordIds, sum : Bodies]
  BY DEF NoEvent, StoredEvents

\* A step that changes contents and hashes of rows, and no origin, log or transition.
LEMMA OriginsKept ==
    ASSUME RowsInv, rows' \in [RecordIds -> StoredRows \cup {Absent}],
           held' \in [Holders -> [id : RecordIds, sum : Bodies] \cup {NoEvent}],
           \A i \in RecordIds : \/ rows'[i] = rows[i]
                                \/ rows[i] \in StoredRows /\ rows'[i] \in StoredRows /\ rows'[i].org = rows[i].org
                                \/ i \in Plain /\ rows'[i] \in StoredRows,
           UNCHANGED <<log, moves, legacy, columns, opening, added>>
    PROVE  RowsInv'
  BY AbsentIsNoRow DEF RowsInv, StoreTypeOK, Anchored, Governed, Present, Plain

\* What a backfill makes of a row: its origin is kept, or taken from the event.
LEMMA BackfilledRow ==
    ASSUME RowsInv, NEW i \in RecordIds, rows[i] \in StoredRows,
           NEW r, r = BackfillOrigin(i, BackfillSum(i, rows[i]))
    PROVE  /\ r \in StoredRows
           /\ \/ r.org = rows[i].org
              \/ i \in Plain
              \/ r.org = OriginFromEvent(i)
<1> DEFINE b == BackfillSum(i, rows[i])
<1>1. b \in StoredRows /\ b.org = rows[i].org
  BY AbsentIsNoRow DEF BackfillSum, StoredRows, Bodies, Contents, Undecodable, Missing
<1> HIDE DEF b
<1>2. OriginFromEvent(i) \in Bodies \cup {Missing}
  BY DEF OriginFromEvent, RowsInv, StoreTypeOK, StoredEvents
<1>3. r = BackfillOrigin(i, b)
  BY DEF b
<1>4. CASE r = b
  BY <1>1, <1>4
<1>5. CASE r # b /\ RecordKind[i] = "plain"
  BY <1>1, <1>3, <1>5 DEF BackfillOrigin, StoredRows, Plain
<1>6. CASE r # b /\ RecordKind[i] # "plain"
  BY <1>1, <1>2, <1>3, <1>6 DEF BackfillOrigin, StoredRows
<1> QED  BY <1>4, <1>5, <1>6

\* The upgrade keeps the invariant: it backfills an origin only from a whole
\* event.
LEMMA UpgradeStep == ASSUME RowsInv, Upgrade PROVE RowsInv'
<1>1. CASE FindDatabase
  <2>1. CASE legacy' = FALSE /\ columns' = {"sum", "org"} /\ UNCHANGED <<rows, log>>
    BY <1>1, <2>1 DEF FindDatabase, RowsInv, StoreTypeOK, Anchored, Present
  <2>2. ASSUME NEW sums \in BOOLEAN, NEW form \in {"full", "other"},
               legacy' = TRUE, columns' = IF sums THEN {"sum"} ELSE {},
               rows' = [i \in RecordIds |-> [body |-> OldBody(i), org |-> Missing,
                                             sum |-> IF sums THEN OldBody(i) ELSE Missing]],
               log' = [i \in RecordIds |-> IF RecordKind[i] = "plain" THEN NoEvent
                                           ELSE [body |-> "one", keyed |-> TRUE, form |-> form]]
        PROVE  RowsInv'
    <3>1. \A i \in RecordIds : rows'[i] \in StoredRows /\ rows'[i].org = Missing
      BY <2>2 DEF StoredRows, OldBody, Bodies, Contents
    <3>2. rows' \in [RecordIds -> StoredRows \cup {Absent}]
      BY <2>2, <3>1
    <3>3. log' \in [RecordIds -> StoredEvents \cup {NoEvent}]
      BY <2>2 DEF StoredEvents, Bodies, Contents
    <3> QED
      BY <1>1, <2>2, <3>1, <3>2, <3>3, AbsentIsNoRow
         DEF FindDatabase, RowsInv, StoreTypeOK, Anchored, Present, Governed
  <2> QED  BY <1>1, <2>1, <2>2 DEF FindDatabase
<1>2. CASE AlterIntegrity \/ AlterOrigin \/ StoreCrash
  <2>1. /\ UNCHANGED <<rows, log, moves, legacy>>
        /\ columns' \subseteq {"sum", "org"} /\ added' \in BOOLEAN
        /\ opening' \in {"new", "closed", "sum", "org", "open"}
        /\ held' \in [Holders -> [id : RecordIds, sum : Bodies] \cup {NoEvent}]
    BY <1>2 DEF AlterIntegrity, AlterOrigin, StoreCrash, RowsInv, StoreTypeOK
  <2> QED  BY <2>1 DEF RowsInv, StoreTypeOK, Anchored, Present
<1>3. CASE Backfill
  <2>1. \A i \in RecordIds : rows[i] = Absent => rows'[i] = Absent
    BY <1>3 DEF Backfill, BackfillSum, BackfillOrigin, Valid
  <2>2. ASSUME NEW i \in RecordIds, rows[i] # Absent
        PROVE  /\ rows'[i] \in StoredRows
               /\ \/ rows'[i].org = rows[i].org
                  \/ i \in Plain
                  \/ rows'[i].org = OriginFromEvent(i)
    BY <1>3, <2>2, BackfilledRow DEF Backfill, RowsInv, StoreTypeOK
  <2>3. rows' \in [RecordIds -> StoredRows \cup {Absent}]
    BY <1>3, <2>1, <2>2 DEF Backfill
  <2>4. Anchored'
    <3> SUFFICES ASSUME NEW i \in Governed, rows'[i] # Absent, rows'[i].org # Missing
                 PROVE  log[i] # NoEvent /\ log[i].body = rows'[i].org
                        /\ (legacy => log[i].form = "full")
      BY <1>3 DEF Anchored, Present, Backfill
    <3>1. CASE rows'[i].org = rows[i].org
      BY <2>1, <3>1 DEF RowsInv, Anchored, Present, Governed
    <3>2. CASE rows'[i].org = OriginFromEvent(i)
      BY <3>2 DEF OriginFromEvent
    <3> QED  BY <2>1, <2>2, <3>1, <3>2 DEF Governed
  <2>5. \A i \in RecordIds : rows[i] # Absent => rows'[i] # Absent
    BY <2>2, AbsentIsNoRow
  <2> QED
    BY <1>3, <2>3, <2>4, <2>5 DEF Backfill, RowsInv, StoreTypeOK, Present
<1> QED  BY <1>1, <1>2, <1>3 DEF Upgrade

\* A save keeps the invariant, with its event or without, and so do a
\* damaged row and an event without a record.
LEMMA WriteStep == ASSUME RowsInv, Writes PROVE RowsInv'
<1>1. ASSUME NEW i \in Plain, NEW b \in Contents,
             SaveRecord(i, b) \/ SaveRecordIfAbsent(i, b)
      PROVE  RowsInv'
  <2>1. /\ i \in RecordIds /\ b \in Bodies /\ Fresh(b) \in StoredRows
        /\ UNCHANGED <<log, moves, held, legacy, columns, opening, added>>
    BY <1>1 DEF SaveRecord, SaveRecordIfAbsent, StoreOp, Fresh, StoredRows, Bodies, Plain
  <2>2. rows'[i] \in StoredRows /\ \A j \in RecordIds \ {i} : rows'[j] = rows[j]
    <3>1. Present(i) => rows[i] \in StoredRows /\ [rows[i] EXCEPT !.body = b, !.sum = b] \in StoredRows
      BY <2>1 DEF Present, RowsInv, StoreTypeOK, StoredRows
    <3> QED  BY <1>1, <2>1, <3>1 DEF SaveRecord, SaveRecordIfAbsent, RowsInv, StoreTypeOK
  <2>3. rows' \in [RecordIds -> StoredRows \cup {Absent}]
    BY <1>1, <2>1, <2>2 DEF SaveRecord, SaveRecordIfAbsent, RowsInv, StoreTypeOK
  <2> QED  BY <1>1, <2>1, <2>2, <2>3, OriginsKept DEF RowsInv, StoreTypeOK
<1>2. ASSUME NEW S \in SUBSET Plain, NEW b \in Contents, SaveRecordsAtomically(S, b)
      PROVE  RowsInv'
  <2>1. /\ Fresh(b) \in StoredRows
        /\ UNCHANGED <<log, moves, held, legacy, columns, opening, added>>
    BY <1>2 DEF SaveRecordsAtomically, StoreOp, Fresh, StoredRows, Bodies
  <2>2. \A j \in RecordIds : rows'[j] = rows[j] \/ (j \in Plain /\ rows'[j] = Fresh(b))
    <3>1. \/ rows' = rows
          \/ rows' = [j \in RecordIds |-> IF j \in S /\ ~Present(j) THEN Fresh(b) ELSE rows[j]]
      BY <1>2 DEF SaveRecordsAtomically
    <3> QED  BY <3>1
  <2>3. rows' \in [RecordIds -> StoredRows \cup {Absent}]
    BY <1>2, <2>1 DEF SaveRecordsAtomically, RowsInv, StoreTypeOK
  <2> QED  BY <2>1, <2>2, <2>3, OriginsKept DEF RowsInv, StoreTypeOK
<1>3. ASSUME NEW i \in RecordIds, NEW b \in Bodies, Present(i),
             SaveRecord(i, b) \/ Damage(i, b)
      PROVE  RowsInv'
  <2>1. UNCHANGED <<log, moves, held, legacy, columns, opening, added>>
    BY <1>3 DEF SaveRecord, Damage, StoreOp
  <2>2. rows[i] \in StoredRows
    BY <1>3 DEF RowsInv, StoreTypeOK, Present
  <2>3. /\ rows'[i] \in StoredRows /\ rows'[i].org = rows[i].org
        /\ \A j \in RecordIds \ {i} : rows'[j] = rows[j]
        /\ rows' \in [RecordIds -> StoredRows \cup {Absent}]
    <3>1. LET r == [rows[i] EXCEPT !.body = b, !.sum = b]
              d == [rows[i] EXCEPT !.body = b]
          IN  r \in StoredRows /\ d \in StoredRows /\ r.org = rows[i].org /\ d.org = rows[i].org
      BY <2>2 DEF StoredRows
    <3> QED  BY <1>3, <2>2, <3>1 DEF SaveRecord, Damage, RowsInv, StoreTypeOK
  <2> QED  BY <2>1, <2>2, <2>3, OriginsKept DEF RowsInv, StoreTypeOK
<1>4. ASSUME NEW i \in Governed, NEW b \in Contents, SaveRecordAndEvent(i, b)
      PROVE  RowsInv'
  <2>1. CASE ~Present(i) /\ (log[i] # NoEvent => log[i].body = b /\ log[i].keyed)
    <3>1. /\ ~legacy
          /\ rows' = [rows EXCEPT ![i] = Fresh(b)]
          /\ log' = [log EXCEPT ![i] = IF @ = NoEvent
                                       THEN [body |-> b, keyed |-> TRUE, form |-> "full"] ELSE @]
          /\ UNCHANGED <<moves, held, legacy, columns, opening, added>>
      BY <1>4, <2>1 DEF SaveRecordAndEvent, StoreOp, RowsInv, Governed
    <3>2. Fresh(b) \in StoredRows /\ Fresh(b).org = b
      BY DEF Fresh, StoredRows, Bodies
    <3>3. /\ [body |-> b, keyed |-> TRUE, form |-> "full"] \in StoredEvents
          /\ log'[i] \in StoredEvents /\ log'[i].body = b
          /\ \A j \in RecordIds \ {i} : log'[j] = log[j] /\ rows'[j] = rows[j]
          /\ rows'[i] = Fresh(b)
      BY <2>1, <3>1 DEF RowsInv, StoreTypeOK, Governed, StoredEvents, Bodies
    <3>4. Anchored'
      BY <3>1, <3>2, <3>3, NoEventIsNone DEF RowsInv, Anchored, Present, Governed
    <3> QED
      BY <3>1, <3>2, <3>3, <3>4 DEF RowsInv, StoreTypeOK, Governed
  <2>2. CASE UNCHANGED <<rows, log>>
    BY <1>4, <2>2 DEF SaveRecordAndEvent, StoreOp, RowsInv, StoreTypeOK, Anchored, Present
  <2> QED  BY <1>4, <2>1, <2>2 DEF SaveRecordAndEvent
<1>5. ASSUME NEW i \in Governed, NEW b \in Contents, OrphanEvent(i, b)
      PROVE  RowsInv'
  <2>1. [body |-> b, keyed |-> TRUE, form |-> "full"] \in StoredEvents
    BY DEF StoredEvents, Bodies
  <2>2. /\ ~Present(i) /\ log' = [log EXCEPT ![i] = [body |-> b, keyed |-> TRUE, form |-> "full"]]
        /\ UNCHANGED <<rows, moves, held, legacy, columns, opening, added>>
    BY <1>5 DEF OrphanEvent, StoreOp
  <2> QED  BY <2>1, <2>2 DEF RowsInv, StoreTypeOK, Anchored, Present, Governed
<1>6. Contents \subseteq Bodies /\ Undecodable \in Bodies /\ ApprovalRecords \subseteq RecordIds
  BY DEF Bodies, ApprovalRecords
<1> QED
  BY <1>1, <1>2, <1>3, <1>4, <1>5, <1>6 DEF Writes, Damage

\* A change of stored fields keeps the invariant: that of a governed record
\* goes with its event.
LEMMA ChangeStep == ASSUME RowsInv, Changes PROVE RowsInv'
<1>1. ASSUME NEW S \in SUBSET RecordIds, NEW to \in Bodies,
             \A i \in S : Valid(rows[i]),
             rows' = [i \in RecordIds |-> IF i \in S THEN [rows[i] EXCEPT !.body = to, !.sum = to]
                                          ELSE rows[i]]
      PROVE  /\ rows' \in [RecordIds -> StoredRows \cup {Absent}]
             /\ \A i \in RecordIds :
                  \/ rows'[i] = rows[i]
                  \/ rows[i] \in StoredRows /\ rows'[i] \in StoredRows /\ rows'[i].org = rows[i].org
  <2>1. \A i \in S : rows[i] \in StoredRows
    BY <1>1 DEF Valid, RowsInv, StoreTypeOK
  <2>2. \A i \in S : rows'[i] \in StoredRows /\ rows'[i].org = rows[i].org
    BY <1>1, <2>1 DEF StoredRows
  <2>3. \A i \in RecordIds \ S : rows'[i] = rows[i]
    BY <1>1
  <2> QED  BY <1>1, <2>1, <2>2, <2>3 DEF RowsInv, StoreTypeOK
<1>2. ASSUME NEW S \in SUBSET RecordIds, NEW from \in Contents, NEW to \in Contents, SetFields(S, from, to)
      PROVE  RowsInv'
  <2>1. UNCHANGED <<log, moves, held, legacy, columns, opening, added>>
    BY <1>2 DEF SetFields, StoreOp
  <2>2. to \in Bodies
    BY DEF Bodies
  <2>3. CASE rows' = rows
    BY <2>1, <2>3, OriginsKept DEF RowsInv, StoreTypeOK
  <2>4. CASE rows' # rows
    BY <1>1, <1>2, <2>1, <2>2, <2>4, OriginsKept DEF SetFields, RowsInv, StoreTypeOK
  <2> QED  BY <2>3, <2>4
<1>3. ASSUME NEW S \in SUBSET ApprovalRecords, SetFieldsAndEvents(S, "one", "two")
      PROVE  RowsInv'
  <2>0. S \in SUBSET RecordIds /\ "two" \in Bodies
    BY DEF ApprovalRecords, Bodies, Contents
  <2>1. CASE TransitionAllowed(S, "one")
    <3>1. /\ rows' \in [RecordIds -> StoredRows \cup {Absent}]
          /\ \A i \in RecordIds :
               \/ rows'[i] = rows[i]
               \/ rows[i] \in StoredRows /\ rows'[i] \in StoredRows /\ rows'[i].org = rows[i].org
      BY <1>1, <1>3, <2>0, <2>1 DEF SetFieldsAndEvents, TransitionAllowed
    <3>2. moves' \in [RecordIds -> Nat] /\ \A i \in RecordIds : moves'[i] <= 1
      <4>1. moves' = [i \in RecordIds |-> IF i \in S THEN moves[i] + 1 ELSE moves[i]]
        BY <1>3, <2>1 DEF SetFieldsAndEvents
      <4>2. \A i \in S : moves[i] = 0
        BY <2>1 DEF TransitionAllowed
      <4> QED  BY <4>1, <4>2 DEF RowsInv, StoreTypeOK
    <3>3. UNCHANGED <<log, held, legacy, columns, opening, added>>
      BY <1>3 DEF SetFieldsAndEvents, StoreOp
    <3> QED
      BY <3>1, <3>2, <3>3, AbsentIsNoRow DEF RowsInv, StoreTypeOK, Anchored, Governed, Present
  <2>2. CASE UNCHANGED <<rows, moves>>
    BY <1>3, <2>2 DEF SetFieldsAndEvents, StoreOp, RowsInv, StoreTypeOK, Anchored, Present
  <2> QED  BY <1>3, <2>1, <2>2 DEF SetFieldsAndEvents
<1>4. ASSUME NEW c \in Holders, NEW b \in Contents, held[c] # NoEvent, Unchanged(c),
             rows' = [rows EXCEPT ![held[c].id].body = b, ![held[c].id].sum = b]
      PROVE  /\ held[c].id \in RecordIds /\ rows[held[c].id] \in StoredRows
             /\ rows' \in [RecordIds -> StoredRows \cup {Absent}]
             /\ rows'[held[c].id] \in StoredRows /\ rows'[held[c].id].org = rows[held[c].id].org
             /\ \A j \in RecordIds \ {held[c].id} : rows'[j] = rows[j]
  <2>1. held[c].id \in RecordIds /\ b \in Bodies
    BY <1>4 DEF RowsInv, StoreTypeOK, Bodies
  <2>2. rows[held[c].id] \in StoredRows
    BY <1>4, <2>1 DEF Unchanged, Valid, RowsInv, StoreTypeOK
  <2>3. LET r == [rows[held[c].id] EXCEPT !.body = b, !.sum = b]
        IN  r \in StoredRows /\ r.org = rows[held[c].id].org
    BY <2>1, <2>2 DEF StoredRows
  <2>4. rows' = [rows EXCEPT ![held[c].id] = [rows[held[c].id] EXCEPT !.body = b, !.sum = b]]
    BY <1>4, <2>1, <2>2 DEF RowsInv, StoreTypeOK
  <2> HIDE <1>4
  <2> QED  BY <2>1, <2>2, <2>3, <2>4 DEF RowsInv, StoreTypeOK
<1>5. ASSUME NEW c \in Holders, NEW b \in Contents, ReplacePayload(c, b)
      PROVE  RowsInv'
  <2>1. held[c] # NoEvent /\ UNCHANGED <<log, moves, held, legacy, columns, opening, added>>
    BY <1>5 DEF ReplacePayload, StoreOp
  <2>2. CASE rows' = rows
    BY <2>1, <2>2, OriginsKept DEF RowsInv, StoreTypeOK
  <2>3. CASE Unchanged(c) /\ rows' = [rows EXCEPT ![held[c].id].body = b, ![held[c].id].sum = b]
    BY <1>4, <2>1, <2>3, OriginsKept DEF RowsInv, StoreTypeOK
  <2> QED  BY <1>5, <2>2, <2>3 DEF ReplacePayload
<1>6. ASSUME NEW c \in Holders, NEW e \in Contents, NEW b \in Contents, RepairRecordEvent(c, e, b)
      PROVE  RowsInv'
  <2> DEFINE i == held[c].id
             ev == IF log[i] = NoEvent THEN [body |-> e, keyed |-> TRUE, form |-> "full"]
                   ELSE [log[i] EXCEPT !.keyed = TRUE]
  <2>1. held[c] # NoEvent /\ UNCHANGED <<moves, held, legacy, columns, opening, added>>
    BY <1>6 DEF RepairRecordEvent, StoreOp
  <2>2. CASE UNCHANGED <<rows, log>>
    BY <2>1, <2>2 DEF RowsInv, StoreTypeOK, Anchored, Present
  <2>3. CASE /\ Unchanged(c)
             /\ rows' = [rows EXCEPT ![i].body = b, ![i].sum = b]
             /\ log' = [log EXCEPT ![i] = ev]
    <3>1. /\ i \in RecordIds /\ rows[i] \in StoredRows
          /\ rows' \in [RecordIds -> StoredRows \cup {Absent}]
          /\ rows'[i] \in StoredRows /\ rows'[i].org = rows[i].org
          /\ \A j \in RecordIds \ {i} : rows'[j] = rows[j]
      BY <1>4, <2>1, <2>3
    <3>2. ev \in StoredEvents /\ (log[i] # NoEvent => ev.body = log[i].body /\ ev.form = log[i].form)
      <4>1. CASE log[i] = NoEvent
        BY <4>1 DEF StoredEvents, Bodies
      <4>2. CASE log[i] # NoEvent
        <5>1. log[i] \in StoredEvents
          BY <3>1, <4>2 DEF RowsInv, StoreTypeOK
        <5> QED  BY <4>2, <5>1 DEF StoredEvents
      <4> QED  BY <4>1, <4>2
    <3> HIDE DEF ev
    <3>3. log' \in [RecordIds -> StoredEvents \cup {NoEvent}]
      BY <2>3, <3>1, <3>2 DEF RowsInv, StoreTypeOK
    <3>4. Anchored'
      BY <2>1, <2>3, <3>1, <3>2, AbsentIsNoRow, NoEventIsNone
         DEF RowsInv, StoreTypeOK, Anchored, Present, Governed
    <3>5. legacy' => \A j \in RecordIds : rows'[j] # Absent
      BY <2>1, <3>1, AbsentIsNoRow DEF RowsInv, Present
    <3> QED  BY <2>1, <3>1, <3>3, <3>4, <3>5 DEF RowsInv, StoreTypeOK, Present
  <2> QED  BY <1>6, <2>2, <2>3 DEF RepairRecordEvent
<1>7. \A i \in Plain : {i} \in SUBSET RecordIds
  BY DEF Plain
<1> QED
  BY <1>2, <1>3, <1>5, <1>6, <1>7 DEF Changes, SetField, Plain

\* A readable governed record is anchored in its event, a transition happens
\* once, and what an upgrade could not anchor stays unreadable.
THEOREM StoreTheorem == RecordStoreSpec => []StoreSound
<1>1. RecordStoreInit => RowsInv
  <2> SUFFICES ASSUME RecordStoreInit PROVE RowsInv
    OBVIOUS
  <2>1. StoreTypeOK
    BY DEF RecordStoreInit, StoreTypeOK
  <2>2. Anchored /\ ~legacy /\ \A i \in RecordIds : moves[i] <= 1
    BY DEF RecordStoreInit, Anchored, Present, Governed
  <2> QED  BY <2>1, <2>2 DEF RowsInv
<1>2. RowsInv /\ [RecordStoreNext]_storeVars => RowsInv'
  <2> SUFFICES ASSUME RowsInv, [RecordStoreNext]_storeVars
               PROVE  RowsInv'
    OBVIOUS
  <2>1. CASE Reads
    <3> PICK c \in Holders, i \in RecordIds : ReadEnvelope(c, i)
      BY <2>1 DEF Reads
    <3>1. rows[i] \in StoredRows /\ rows[i].sum \in Bodies
      BY DEF ReadEnvelope, Readable, Valid, RowsInv, StoreTypeOK, StoredRows
    <3> QED  BY <3>1 DEF ReadEnvelope, StoreOp, RowsInv, StoreTypeOK, Anchored, Present
  <2>2. CASE UNCHANGED storeVars
    BY <2>2 DEF storeVars, RowsInv, StoreTypeOK, Anchored, Present
  <2> QED  BY <2>1, <2>2, UpgradeStep, WriteStep, ChangeStep DEF RecordStoreNext
<1>3. RowsInv => StoreSound
  BY DEF RowsInv, StoreSound, Anchored, Readable, Valid, Present, Governed
<1> QED
  BY <1>1, <1>2, <1>3, PTL DEF RecordStoreSpec

------------------------------------------------------------------------------
(* Evidence. *)

\* What the store holds under a key goes back to the content first recorded.
KeyGood(k) ==
    /\ evRows[k] # NoEvidence =>
         /\ evRows[k].org.content = evFirst[k]
         /\ k \notin tampered => evRows[k].sha = evRows[k].content
    /\ evRows[k] = NoEvidence => evCreated[k] = NoEvidence /\ k \notin evVerified
    /\ evCreated[k] # NoEvidence => evCreated[k].content = evFirst[k]
    /\ evTold[k] <= 1 /\ (evCreated[k] = NoEvidence => evTold[k] = 0)
    /\ k \in evVerified \ tampered => evRows[k].status = "verified"

\* What a call under way has read.
ReadGood(c) ==
    caller[c] # Idle =>
        /\ caller[c].at \in {"rewrite", "verify"} => caller[c].read # NoEvidence
        /\ caller[c].at = "verify" <=> caller[c].op # "add"
        /\ caller[c].op = "receipts" => invocation # NoEvidence

\* What an answer said is still so.
AnswerGood(a) ==
    /\ a.op = "add" => evRows[a.key] # NoEvidence /\ a.content = evFirst[a.key]
    /\ a.op = "receipts" /\ a.content = "present" =>
         /\ a.key \in evVerified /\ invocation # NoEvidence
         /\ ~(invocation.failed /\ ~invocation.coded)

\* What is stored, what the calls under way have read and what was answered
\* agree.
EvidenceInv ==
    /\ EvidenceTypeOK
    /\ \A k \in EvidenceKeys : KeyGood(k)
    /\ \A c \in Callers : ReadGood(c)
    /\ \A a \in answers : AnswerGood(a)

\* No evidence is neither a row nor an invocation.
LEMMA NoEvidenceIsNone ==
    /\ NoEvidence \notin Artifacts
    /\ NoEvidence \notin [content : Texts, keyed : BOOLEAN]
    /\ NoEvidence \notin [receipt : EvidenceKeys, linked : BOOLEAN, failed : BOOLEAN, coded : BOOLEAN]
  BY DEF NoEvidence, Artifacts, Texts

\* An idle caller has no call under way.
LEMMA IdleIsNoCall == Idle \notin EvidenceCalls /\ \A c \in EvidenceCalls : c.at # "idle"
  BY DEF Idle, EvidenceCalls

\* Answers stay right as long as no record goes and no verification is taken back.
LEMMA AnswersKept ==
    ASSUME EvidenceInv, NEW a \in answers, UNCHANGED <<evFirst, invocation>>,
           evVerified \subseteq evVerified',
           \A k \in EvidenceKeys : evRows[k] # NoEvidence => evRows'[k] # NoEvidence
    PROVE  AnswerGood(a)'
  BY DEF EvidenceInv, EvidenceTypeOK, AnswerGood

\* A step that does not touch a key keeps it.
LEMMA KeyKept ==
    ASSUME NEW k \in EvidenceKeys, KeyGood(k),
           UNCHANGED <<evRows[k], evFirst[k], evCreated[k], evTold[k]>>,
           k \in evVerified' <=> k \in evVerified, k \in tampered' <=> k \in tampered
    PROVE  KeyGood(k)'
  BY DEF KeyGood

\* A step of one call that leaves the others and the records.
LEMMA CallMoves ==
    ASSUME EvidenceInv, NEW c \in Callers,
           NEW to \in EvidenceCalls \cup {Idle}, caller' = [caller EXCEPT ![c] = to],
           to # Idle =>
             /\ to.at \in {"rewrite", "verify"} => to.read # NoEvidence
             /\ to.at = "verify" <=> to.op # "add"
             /\ to.op = "receipts" => invocation # NoEvidence,
           invocation' = invocation
    PROVE  /\ caller' \in [Callers -> EvidenceCalls \cup {Idle}]
           /\ \A d \in Callers : ReadGood(d)'
<1>1. \A d \in Callers : caller'[d] = IF d = c THEN to ELSE caller[d]
  BY DEF EvidenceInv, EvidenceTypeOK
<1> QED  BY <1>1 DEF EvidenceInv, EvidenceTypeOK, ReadGood

\* add_evidence looks its key up: a call begins, the store stays.
LEMMA AddLooksKeeps ==
    ASSUME EvidenceInv, NEW c \in Callers, NEW k \in EvidenceKeys, NEW b \in Texts, AddLooks(c, k, b)
    PROVE  EvidenceInv'
<1> DEFINE to == [op |-> "add", key |-> k, content |-> b, read |-> NoEvidence, tries |-> 0,
                  at |-> IF EvidenceReadable(k) THEN "repair" ELSE "claim"]
<1>1. to \in EvidenceCalls /\ to.at \notin {"rewrite", "verify"} /\ to.op = "add"
  BY DEF EvidenceCalls
<1>2. /\ caller' = [caller EXCEPT ![c] = to]
      /\ UNCHANGED <<evRows, evCreated, evVerified, evFirst, evTold, tampered, invocation, answers>>
  BY DEF AddLooks, BeginCall
<1> HIDE DEF to
<1>3. caller' \in [Callers -> EvidenceCalls \cup {Idle}] /\ \A d \in Callers : ReadGood(d)'
  BY <1>1, <1>2, CallMoves
<1> QED
  BY <1>2, <1>3, KeyKept, AnswersKept DEF EvidenceInv, EvidenceTypeOK

\* The record is claimed when the row is free and the event of an earlier
\* attempt fits it; otherwise the call goes on to what is there.
LEMMA AddClaimsKeeps ==
    ASSUME EvidenceInv, NEW c \in Callers, AddClaims(c)
    PROVE  EvidenceInv'
<1> PICK k, b : k = caller[c].key /\ b = caller[c].content
  OBVIOUS
<1>1. caller[c] \in EvidenceCalls /\ k \in EvidenceKeys /\ b \in Texts /\ caller[c].op = "add"
      /\ caller[c] # Idle /\ caller[c].at = "claim"
  BY IdleIsNoCall DEF AddClaims, EvidenceAt, Idle, EvidenceInv, EvidenceTypeOK, EvidenceCalls, ReadGood
<1>2. UNCHANGED <<evVerified, tampered, invocation, answers>>
  BY DEF AddClaims
<1>3. CASE /\ caller' \in {[caller EXCEPT ![c] = Idle], [caller EXCEPT ![c].at = "reply"]}
           /\ UNCHANGED <<evRows, evCreated, evFirst, evTold>>
  <2>1. [caller[c] EXCEPT !.at = "reply"] \in EvidenceCalls
    BY <1>1 DEF EvidenceCalls
  <2>2. caller' \in [Callers -> EvidenceCalls \cup {Idle}] /\ \A d \in Callers : ReadGood(d)'
    <3>1. CASE caller' = [caller EXCEPT ![c] = Idle]
      BY <1>2, <3>1, CallMoves
    <3>2. CASE caller' = [caller EXCEPT ![c].at = "reply"]
      <4>1. caller' = [caller EXCEPT ![c] = [caller[c] EXCEPT !.at = "reply"]]
        BY <3>2
      <4>2. LET to == [caller[c] EXCEPT !.at = "reply"] IN to.at = "reply" /\ to.op = "add"
        BY <1>1 DEF EvidenceCalls
      <4> QED  BY <1>2, <2>1, <4>1, <4>2, CallMoves
    <3> QED  BY <1>3, <3>1, <3>2
  <2> QED  BY <1>2, <1>3, <2>2, KeyKept, AnswersKept DEF EvidenceInv, EvidenceTypeOK
<1>4. CASE evRows[k] = NoEvidence /\ (evCreated[k] # NoEvidence => evCreated[k] = [content |-> b, keyed |-> TRUE])
  <2>1. PICK status \in {"unverified", "verified"} :
            evRows' = [evRows EXCEPT ![k] =
               [content |-> b, sha |-> b, status |-> status, source |-> "own", intact |-> TRUE,
                legacy |-> FALSE, org |-> [content |-> b, sha |-> b, status |-> status, source |-> "own"]]]
    BY <1>4 DEF AddClaims
  <2> DEFINE r == [content |-> b, sha |-> b, status |-> status, source |-> "own", intact |-> TRUE,
                legacy |-> FALSE, org |-> [content |-> b, sha |-> b, status |-> status, source |-> "own"]]
  <2>2. /\ evFirst' = [evFirst EXCEPT ![k] = b]
        /\ evCreated' = [evCreated EXCEPT ![k] = [content |-> b, keyed |-> TRUE]]
        /\ evTold' = [evTold EXCEPT ![k] = IF evCreated[k] = NoEvidence THEN @ + 1 ELSE @]
        /\ caller' = [caller EXCEPT ![c].at = "reply"]
    BY <1>4 DEF AddClaims
  <2>3. r \in Artifacts /\ r.org.content = b /\ r.sha = b /\ r.content = b
    BY <1>1 DEF Artifacts
  <2>4. evRows' = [evRows EXCEPT ![k] = r]
    BY <2>1
  <2> HIDE DEF r
  <2>5. EvidenceTypeOK' /\ \A d \in Callers : ReadGood(d)'
    <3>1. [caller[c] EXCEPT !.at = "reply"] \in EvidenceCalls
      BY <1>1 DEF EvidenceCalls
    <3>2. caller' = [caller EXCEPT ![c] = [caller[c] EXCEPT !.at = "reply"]]
      BY <2>2
    <3>3. LET to == [caller[c] EXCEPT !.at = "reply"] IN to.at = "reply" /\ to.op = "add"
      BY <1>1 DEF EvidenceCalls
    <3>4. caller' \in [Callers -> EvidenceCalls \cup {Idle}] /\ \A d \in Callers : ReadGood(d)'
      BY <1>2, <3>1, <3>2, <3>3, CallMoves
    <3>5. [content |-> b, keyed |-> TRUE] \in [content : Texts, keyed : BOOLEAN]
      BY <1>1
    <3> QED  BY <1>1, <1>2, <2>2, <2>3, <2>4, <3>4, <3>5 DEF EvidenceInv, EvidenceTypeOK
  <2>6. \A j \in EvidenceKeys : j # k => KeyGood(j)'
    BY <1>1, <1>2, <2>2, <2>4, KeyKept DEF EvidenceInv, EvidenceTypeOK
  <2>7. KeyGood(k)'
    <3>1. /\ evRows'[k] = r /\ r # NoEvidence /\ evFirst'[k] = b
          /\ evCreated'[k] = [content |-> b, keyed |-> TRUE] /\ evCreated'[k] # NoEvidence
      <4>1. [content |-> b, keyed |-> TRUE] \in [content : Texts, keyed : BOOLEAN]
        BY <1>1
      <4>2. [content |-> b, keyed |-> TRUE] # NoEvidence
        BY <4>1, NoEvidenceIsNone
      <4> QED  BY <1>1, <2>2, <2>3, <2>4, <4>2, NoEvidenceIsNone DEF EvidenceInv, EvidenceTypeOK
    <3>2. evTold'[k] <= 1
      BY <1>1, <1>4, <2>2 DEF EvidenceInv, EvidenceTypeOK, KeyGood
    <3>3. k \notin evVerified'
      BY <1>1, <1>2, <1>4 DEF EvidenceInv, KeyGood
    <3> QED  BY <2>3, <3>1, <3>2, <3>3 DEF KeyGood
  <2>8. \A a \in answers : AnswerGood(a)'
    <3>1. \A j \in EvidenceKeys : evRows[j] # NoEvidence =>
             evRows'[j] = evRows[j] /\ evFirst'[j] = evFirst[j]
      BY <1>1, <1>4, <2>2, <2>4 DEF EvidenceInv, EvidenceTypeOK
    <3>2. evRows'[k] # NoEvidence
      BY <1>1, <2>3, <2>4, NoEvidenceIsNone DEF EvidenceInv, EvidenceTypeOK
    <3>3. \A j \in EvidenceKeys : evRows[j] # NoEvidence =>
             evRows'[j] # NoEvidence /\ evFirst'[j] = evFirst[j]
      BY <3>1, <3>2
    <3>4. \A a \in answers : a.key \in EvidenceKeys
      BY DEF EvidenceInv, EvidenceTypeOK
    <3> QED  BY <1>2, <3>3, <3>4 DEF EvidenceInv, AnswerGood
  <2> QED  BY <1>2, <2>5, <2>6, <2>7, <2>8 DEF EvidenceInv
<1> QED
  BY <1>3, <1>4 DEF AddClaims

\* A call that answers leaves the others as they were, and its answer is so.
LEMMA SaysKeeps ==
    ASSUME EvidenceInv, NEW c \in Callers, NEW what,
           what \in [op : {"add", "verify", "receipts"}, key : EvidenceKeys,
                     content : Texts \cup {"valid", "corrupt", "invalid", "missing", "present"}],
           Say(c, what), AnswerGood(what)', UNCHANGED <<evFirst, invocation>>,
           evVerified \subseteq evVerified',
           \A k \in EvidenceKeys : evRows[k] # NoEvidence => evRows'[k] # NoEvidence
    PROVE  /\ caller' \in [Callers -> EvidenceCalls \cup {Idle}]
           /\ \A d \in Callers : ReadGood(d)'
           /\ answers' \subseteq [op : {"add", "verify", "receipts"}, key : EvidenceKeys,
                     content : Texts \cup {"valid", "corrupt", "invalid", "missing", "present"}]
           /\ \A a \in answers' : AnswerGood(a)'
<1>1. caller' = [caller EXCEPT ![c] = Idle] /\ answers' = answers \cup {what}
  BY DEF Say
<1>2. caller' \in [Callers -> EvidenceCalls \cup {Idle}] /\ \A d \in Callers : ReadGood(d)'
  BY <1>1, CallMoves
<1>3. \A a \in answers : AnswerGood(a)'
  BY AnswersKept
<1> QED  BY <1>1, <1>2, <1>3 DEF EvidenceInv, EvidenceTypeOK

\* A call that raises leaves everything as it was.
LEMMA RaiseKeeps ==
    ASSUME EvidenceInv, NEW c \in Callers, Raise(c),
           UNCHANGED <<evRows, evCreated, evVerified, evFirst, evTold, tampered, invocation>>
    PROVE  EvidenceInv'
<1>1. caller' = [caller EXCEPT ![c] = Idle] /\ answers' = answers
  BY DEF Raise
<1>2. caller' \in [Callers -> EvidenceCalls \cup {Idle}] /\ \A d \in Callers : ReadGood(d)'
  BY <1>1, CallMoves
<1> QED  BY <1>1, <1>2, KeyKept, AnswersKept DEF EvidenceInv, EvidenceTypeOK

\* add_evidence answers with the content first recorded.
LEMMA AddRepliesKeeps ==
    ASSUME EvidenceInv, NEW c \in Callers, AddReplies(c)
    PROVE  EvidenceInv'
<1> PICK k, what : k = caller[c].key /\ what = [op |-> "add", key |-> k, content |-> evRows[k].content]
  OBVIOUS
<1>1. /\ caller[c] \in EvidenceCalls /\ k \in EvidenceKeys
      /\ UNCHANGED <<evRows, evCreated, evVerified, evFirst, evTold, tampered, invocation>>
  BY DEF AddReplies, EvidenceAt, Idle, EvidenceInv, EvidenceTypeOK, EvidenceCalls
<1>2. CASE Replayable(k, caller[c].content)
  <2>1. evRows[k] \in Artifacts /\ evRows[k] # NoEvidence /\ evRows[k].content = evFirst[k]
    BY <1>1, <1>2 DEF Replayable, Artifact, EvidenceReadable, OriginMatches, EvidenceInv, EvidenceTypeOK, KeyGood
  <2>2. Say(c, what)
    BY <1>2 DEF AddReplies
  <2>3. AnswerGood(what)'
    BY <1>1, <2>1 DEF AnswerGood
  <2>4. what \in [op : {"add", "verify", "receipts"}, key : EvidenceKeys,
                     content : Texts \cup {"valid", "corrupt", "invalid", "missing", "present"}]
    BY <1>1, <2>1 DEF Artifacts
  <2> QED  BY <1>1, <2>2, <2>3, <2>4, SaysKeeps, KeyKept DEF EvidenceInv, EvidenceTypeOK
<1>3. CASE ~Replayable(k, caller[c].content)
  BY <1>1, <1>3, RaiseKeeps DEF AddReplies
<1> QED  BY <1>2, <1>3

\* A repair reads the row it will put right, at most twice.
LEMMA RepairReadsKeeps ==
    ASSUME EvidenceInv, NEW c \in Callers, RepairReads(c)
    PROVE  EvidenceInv'
<1> DEFINE k == caller[c].key
           to == [caller[c] EXCEPT !.read = evRows[k], !.at = "rewrite", !.tries = caller[c].tries + 1]
<1>1. /\ caller[c] \in EvidenceCalls /\ k \in EvidenceKeys /\ caller[c] # Idle
      /\ caller[c].op = "add"
      /\ UNCHANGED <<evRows, evCreated, evVerified, evFirst, evTold, tampered, invocation>>
  BY IdleIsNoCall DEF RepairReads, EvidenceAt, Idle, EvidenceInv, EvidenceTypeOK, EvidenceCalls, ReadGood
<1>2. CASE Replayable(k, caller[c].content) /\ caller[c].tries < 2
  <2>1. evRows[k] \in Artifacts /\ evRows[k] # NoEvidence
    BY <1>1, <1>2 DEF Replayable, Artifact, EvidenceReadable, EvidenceInv, EvidenceTypeOK
  <2>2. to \in EvidenceCalls /\ to.at = "rewrite" /\ to.read = evRows[k] /\ to.op = "add"
    <3>1. caller[c].tries + 1 \in 0..2
      BY <1>1, <1>2 DEF EvidenceCalls
    <3> QED  BY <1>1, <2>1, <3>1 DEF EvidenceCalls
  <2>3. caller' = [caller EXCEPT ![c] = to] /\ answers' = answers
    BY <1>2 DEF RepairReads
  <2> HIDE DEF to
  <2>4. caller' \in [Callers -> EvidenceCalls \cup {Idle}] /\ \A d \in Callers : ReadGood(d)'
    BY <1>1, <2>1, <2>2, <2>3, CallMoves
  <2> QED  BY <1>1, <2>3, <2>4, KeyKept, AnswersKept DEF EvidenceInv, EvidenceTypeOK
<1>3. CASE ~(Replayable(k, caller[c].content) /\ caller[c].tries < 2)
  BY <1>1, <1>3, RaiseKeeps DEF RepairReads
<1> QED  BY <1>2, <1>3

\* The repair saves what the creation event says, if nothing changed since
\* it read.
LEMMA RepairWritesKeeps ==
    ASSUME EvidenceInv, NEW c \in Callers, RepairWrites(c)
    PROVE  EvidenceInv'
<1> PICK k, read : k = caller[c].key /\ read = caller[c].read
  OBVIOUS
<1> DEFINE r == [read EXCEPT !.source = IF @ = "none" THEN "own" ELSE @]
           ev == IF evCreated[k] = NoEvidence THEN [content |-> read.org.content, keyed |-> TRUE]
                 ELSE [evCreated[k] EXCEPT !.keyed = TRUE]
           there(where) == [caller[c] EXCEPT !.at = where]
<1>1. /\ caller[c] \in EvidenceCalls /\ k \in EvidenceKeys /\ caller[c] # Idle
      /\ caller[c].op = "add" /\ read \in Artifacts
      /\ UNCHANGED <<evVerified, evFirst, tampered, invocation, answers>>
  BY IdleIsNoCall DEF RepairWrites, EvidenceAt, Idle, EvidenceInv, EvidenceTypeOK, EvidenceCalls, ReadGood
<1>2. ASSUME NEW where \in {"reply", "repair"}, caller' = [caller EXCEPT ![c].at = where]
      PROVE  caller' \in [Callers -> EvidenceCalls \cup {Idle}] /\ \A d \in Callers : ReadGood(d)'
  <2>1. there(where) \in EvidenceCalls /\ there(where).at = where /\ there(where).op = "add"
    BY <1>1 DEF EvidenceCalls
  <2>2. caller' = [caller EXCEPT ![c] = there(where)]
    BY <1>2
  <2> HIDE DEF there
  <2> QED  BY <1>1, <2>1, <2>2, CallMoves
<1>3. CASE StillAsRead(k, read)
  <2>1. /\ evRows' = [evRows EXCEPT ![k] = r]
        /\ evCreated' = [evCreated EXCEPT ![k] = ev]
        /\ evTold' = [evTold EXCEPT ![k] = IF evCreated[k] = NoEvidence THEN @ + 1 ELSE @]
        /\ caller' = [caller EXCEPT ![c].at = "reply"]
    BY <1>3 DEF RepairWrites
  <2>2. r \in Artifacts /\ r.content = read.content /\ r.sha = read.sha /\ r.org = read.org
        /\ r.status = read.status
    BY <1>1 DEF Artifacts
  <2>3. evRows[k] = read /\ read # NoEvidence /\ r # NoEvidence /\ read.org.content \in Texts
    BY <1>1, <1>3, <2>2, NoEvidenceIsNone DEF StillAsRead, Artifacts
  <2>4. ev \in [content : Texts, keyed : BOOLEAN] /\ ev.content = evFirst[k] /\ ev # NoEvidence
    <3>1. CASE evCreated[k] = NoEvidence
      <4>1. ev = [content |-> read.org.content, keyed |-> TRUE]
        BY <3>1
      <4>2. ev \in [content : Texts, keyed : BOOLEAN] /\ ev.content = read.org.content
        BY <2>3, <4>1
      <4>3. read.org.content = evFirst[k]
        BY <1>1, <2>3 DEF EvidenceInv, KeyGood
      <4> QED  BY <4>2, <4>3, NoEvidenceIsNone
    <3>2. CASE evCreated[k] # NoEvidence
      <4>1. evCreated[k] \in [content : Texts, keyed : BOOLEAN] /\ evCreated[k].content = evFirst[k]
        BY <1>1, <3>2 DEF EvidenceInv, EvidenceTypeOK, KeyGood
      <4>2. ev \in [content : Texts, keyed : BOOLEAN] /\ ev.content = evCreated[k].content
        BY <3>2, <4>1
      <4> QED  BY <4>1, <4>2, NoEvidenceIsNone
    <3> QED  BY <3>1, <3>2
  <2> HIDE DEF r, ev
  <2>5. EvidenceTypeOK'
    BY <1>1, <1>2, <2>1, <2>2, <2>4 DEF EvidenceInv, EvidenceTypeOK
  <2>6. \A j \in EvidenceKeys : j # k => KeyGood(j)'
    BY <1>1, <2>1, KeyKept DEF EvidenceInv, EvidenceTypeOK
  <2>7. KeyGood(k)'
    <3>1. evRows'[k] = r /\ evCreated'[k] = ev
      BY <1>1, <2>1 DEF EvidenceInv, EvidenceTypeOK
    <3>2. evTold'[k] <= 1
      BY <1>1, <2>1 DEF EvidenceInv, EvidenceTypeOK, KeyGood
    <3> QED  BY <1>1, <2>2, <2>3, <2>4, <3>1, <3>2 DEF EvidenceInv, KeyGood
  <2>8. \A j \in EvidenceKeys : evRows[j] # NoEvidence => evRows'[j] # NoEvidence
    BY <1>1, <2>1, <2>3 DEF EvidenceInv, EvidenceTypeOK
  <2> QED  BY <1>1, <1>2, <2>1, <2>5, <2>6, <2>7, <2>8, AnswersKept DEF EvidenceInv
<1>4. CASE ~StillAsRead(k, read)
  <2>1. UNCHANGED <<evRows, evCreated, evTold>> /\ caller' = [caller EXCEPT ![c].at = "repair"]
    BY <1>4 DEF RepairWrites
  <2> QED  BY <1>1, <1>2, <2>1, KeyKept, AnswersKept DEF EvidenceInv, EvidenceTypeOK
<1> QED  BY <1>3, <1>4

\* A verification reads the record it will judge.
LEMMA VerifyReadsKeeps ==
    ASSUME EvidenceInv, NEW c \in Callers, NEW k \in EvidenceKeys, NEW op \in {"verify", "receipts"},
           op = "receipts" => invocation # NoEvidence, VerifyReads(c, k, op)
    PROVE  EvidenceInv'
<1> DEFINE to == [op |-> op, key |-> k, content |-> evRows[k].content, read |-> evRows[k],
                  tries |-> 0, at |-> "verify"]
<1>1. evRows[k] \in Artifacts /\ evRows[k] # NoEvidence
  BY DEF VerifyReads, EvidenceReadable, EvidenceInv, EvidenceTypeOK
<1>2. to \in EvidenceCalls /\ to.at = "verify" /\ to.read = evRows[k] /\ to.op = op
  BY <1>1 DEF EvidenceCalls, Artifacts
<1>3. /\ caller' = [caller EXCEPT ![c] = to]
      /\ UNCHANGED <<evRows, evCreated, evVerified, evFirst, evTold, tampered, invocation, answers>>
  BY DEF VerifyReads, BeginCall
<1> HIDE DEF to
<1>4. caller' \in [Callers -> EvidenceCalls \cup {Idle}] /\ \A d \in Callers : ReadGood(d)'
  BY <1>1, <1>2, <1>3, CallMoves
<1> QED  BY <1>3, <1>4, KeyKept, AnswersKept DEF EvidenceInv, EvidenceTypeOK

\* A verification saves its verdict on what it read.
LEMMA VerifyWritesKeeps ==
    ASSUME EvidenceInv, NEW c \in Callers, VerifyWrites(c)
    PROVE  EvidenceInv'
<1> PICK k, read : k = caller[c].key /\ read = caller[c].read
  OBVIOUS
<1> DEFINE r == [read EXCEPT !.status = IF DigestOk(read) THEN "verified" ELSE "corrupt"]
<1>1. /\ caller[c] \in EvidenceCalls /\ k \in EvidenceKeys /\ caller[c] # Idle
      /\ caller[c].op # "add" /\ read \in Artifacts
      /\ caller[c].op = "receipts" => invocation # NoEvidence
      /\ UNCHANGED <<evCreated, evFirst, evTold, tampered, invocation>>
  BY IdleIsNoCall DEF VerifyWrites, EvidenceAt, Idle, EvidenceInv, EvidenceTypeOK, EvidenceCalls, ReadGood
<1>2. ASSUME NEW ok \in BOOLEAN, Conclude(c, ok), ok => k \in evVerified',
             evVerified \subseteq evVerified',
             \A j \in EvidenceKeys : evRows[j] # NoEvidence => evRows'[j] # NoEvidence
      PROVE  /\ caller' \in [Callers -> EvidenceCalls \cup {Idle}]
             /\ \A d \in Callers : ReadGood(d)'
             /\ answers' \subseteq [op : {"add", "verify", "receipts"}, key : EvidenceKeys,
                     content : Texts \cup {"valid", "corrupt", "invalid", "missing", "present"}]
             /\ \A a \in answers' : AnswerGood(a)'
  <2>1. CASE caller[c].op = "verify"
    <3> PICK what : what = [op |-> "verify", key |-> k, content |-> IF ok THEN "valid" ELSE "corrupt"]
      OBVIOUS
    <3>1. Say(c, what)
      BY <1>2, <2>1 DEF Conclude
    <3>2. what \in [op : {"add", "verify", "receipts"}, key : EvidenceKeys,
                     content : Texts \cup {"valid", "corrupt", "invalid", "missing", "present"}]
      BY <1>1
    <3>3. AnswerGood(what)'
      BY DEF AnswerGood
    <3> QED  BY <1>1, <1>2, <3>1, <3>2, <3>3, SaysKeeps
  <2>2. CASE caller[c].op # "verify"
    <3> PICK what : what = [op |-> "receipts", key |-> k, content |-> ReceiptStatus(ok)]
      OBVIOUS
    <3>1. Say(c, what)
      BY <1>2, <2>2 DEF Conclude
    <3>2. what \in [op : {"add", "verify", "receipts"}, key : EvidenceKeys,
                     content : Texts \cup {"valid", "corrupt", "invalid", "missing", "present"}]
      BY <1>1 DEF ReceiptStatus
    <3>3. AnswerGood(what)'
      <4>1. caller[c].op = "receipts"
        BY <1>1, <2>2 DEF EvidenceCalls
      <4> QED  BY <1>1, <1>2, <4>1 DEF AnswerGood, ReceiptStatus
    <3> QED  BY <1>1, <1>2, <3>1, <3>2, <3>3, SaysKeeps
  <2> QED  BY <2>1, <2>2
<1>3. CASE StillAsRead(k, read)
  <2>1. /\ evRows' = [evRows EXCEPT ![k] = r]
        /\ evVerified' = IF DigestOk(read) THEN evVerified \cup {k} ELSE evVerified
        /\ Conclude(c, DigestOk(read))
    BY <1>3 DEF VerifyWrites
  <2>2. r \in Artifacts /\ r.content = read.content /\ r.sha = read.sha /\ r.org = read.org
        /\ r.status = (IF DigestOk(read) THEN "verified" ELSE "corrupt")
    BY <1>1 DEF Artifacts
  <2>3. evRows[k] = read /\ read # NoEvidence /\ r # NoEvidence
    BY <1>1, <1>3, <2>2, NoEvidenceIsNone DEF StillAsRead
  <2> HIDE DEF r
  <2>4. \A j \in EvidenceKeys : evRows[j] # NoEvidence => evRows'[j] # NoEvidence
    BY <1>1, <2>1, <2>3 DEF EvidenceInv, EvidenceTypeOK
  <2>5. DigestOk(read) \in BOOLEAN
    BY DEF DigestOk
  <2>6. /\ caller' \in [Callers -> EvidenceCalls \cup {Idle}]
        /\ \A d \in Callers : ReadGood(d)'
        /\ answers' \subseteq [op : {"add", "verify", "receipts"}, key : EvidenceKeys,
                     content : Texts \cup {"valid", "corrupt", "invalid", "missing", "present"}]
        /\ \A a \in answers' : AnswerGood(a)'
    BY <1>2, <2>1, <2>4, <2>5
  <2>7. EvidenceTypeOK'
    BY <1>1, <2>1, <2>2, <2>6 DEF EvidenceInv, EvidenceTypeOK
  <2>8. \A j \in EvidenceKeys : j # k => KeyGood(j)'
    BY <1>1, <2>1, KeyKept DEF EvidenceInv, EvidenceTypeOK
  <2>9. KeyGood(k)'
    <3>1. evRows'[k] = r
      BY <1>1, <2>1 DEF EvidenceInv, EvidenceTypeOK
    <3>2. KeyGood(k)
      BY <1>1 DEF EvidenceInv
    <3>3. k \notin tampered => DigestOk(read)
      BY <2>3, <3>2 DEF KeyGood, DigestOk
    <3> QED  BY <1>1, <2>2, <2>3, <3>1, <3>2, <3>3 DEF KeyGood
  <2> QED  BY <2>6, <2>7, <2>8, <2>9 DEF EvidenceInv
<1>4. CASE ~StillAsRead(k, read)
  <2>1. UNCHANGED <<evRows, evVerified>>
    BY <1>4 DEF VerifyWrites
  <2>2. CASE caller[c].op = "receipts"
    <3>1. Conclude(c, FALSE)
      BY <1>4, <2>2 DEF VerifyWrites
    <3> QED  BY <1>1, <1>2, <2>1, <3>1, KeyKept DEF EvidenceInv, EvidenceTypeOK
  <2>3. CASE caller[c].op # "receipts"
    BY <1>1, <1>4, <2>1, <2>3, RaiseKeeps DEF VerifyWrites
  <2> QED  BY <2>2, <2>3
<1> QED  BY <1>3, <1>4

\* The receipt check answers from a verified record and its invocation.
LEMMA ReceiptCheckKeeps ==
    ASSUME EvidenceInv, NEW c \in Callers, ReceiptCheck(c)
    PROVE  EvidenceInv'
<1>1. invocation # NoEvidence /\ invocation.receipt \in EvidenceKeys
  BY DEF ReceiptCheck, EvidenceInv, EvidenceTypeOK
<1>2. CASE VerifyReads(c, invocation.receipt, "receipts")
  BY <1>1, <1>2, VerifyReadsKeeps
<1>3. CASE ~VerifyReads(c, invocation.receipt, "receipts")
  <2> PICK what : what = [op |-> "receipts", key |-> invocation.receipt, content |-> ReceiptStatus(FALSE)]
    OBVIOUS
  <2>1. /\ answers' = answers \cup {what}
        /\ UNCHANGED <<evRows, evCreated, evVerified, evFirst, evTold, tampered, caller, invocation>>
    BY <1>3 DEF ReceiptCheck
  <2>2. what.op = "receipts" /\ what.content \in {"invalid", "missing"} /\ what.key = invocation.receipt
    BY DEF ReceiptStatus
  <2>3. what \in [op : {"add", "verify", "receipts"}, key : EvidenceKeys,
                     content : Texts \cup {"valid", "corrupt", "invalid", "missing", "present"}]
    BY <1>1, <2>2
  <2>4. AnswerGood(what)'
    BY <2>2 DEF AnswerGood
  <2>5. \A d \in Callers : ReadGood(d)'
    BY <2>1 DEF EvidenceInv, ReadGood
  <2> QED  BY <2>1, <2>3, <2>4, <2>5, KeyKept, AnswersKept DEF EvidenceInv, EvidenceTypeOK
<1> QED  BY <1>2, <1>3

\* A record from before the creation events is anchored in itself.
LEMMA LegacyRecordKeeps ==
    ASSUME EvidenceInv, NEW k \in EvidenceKeys, NEW b \in Texts, NEW event \in BOOLEAN,
           LegacyRecord(k, b, event)
    PROVE  EvidenceInv'
<1> DEFINE r == [content |-> b, sha |-> b, status |-> "unverified", source |-> "none", intact |-> TRUE,
          legacy |-> TRUE, org |-> [content |-> b, sha |-> b, status |-> "unverified", source |-> "none"]]
           ev == IF event THEN [content |-> b, keyed |-> FALSE] ELSE NoEvidence
<1>1. /\ evRows[k] = NoEvidence /\ evCreated[k] = NoEvidence
      /\ evRows' = [evRows EXCEPT ![k] = r] /\ evFirst' = [evFirst EXCEPT ![k] = b]
      /\ evCreated' = [evCreated EXCEPT ![k] = ev]
      /\ UNCHANGED <<evVerified, evTold, tampered, caller, invocation, answers>>
  BY DEF LegacyRecord
<1>2. r \in Artifacts /\ r.org.content = b /\ r.sha = r.content
  BY DEF Artifacts
<1>3. ev \in [content : Texts, keyed : BOOLEAN] \cup {NoEvidence} /\ (ev # NoEvidence => ev.content = b)
  OBVIOUS
<1> HIDE DEF r, ev
<1>4. EvidenceTypeOK' /\ \A d \in Callers : ReadGood(d)'
  BY <1>1, <1>2, <1>3 DEF EvidenceInv, EvidenceTypeOK, ReadGood
<1>5. \A j \in EvidenceKeys : j # k => KeyGood(j)'
  BY <1>1, KeyKept DEF EvidenceInv, EvidenceTypeOK
<1>6. KeyGood(k)'
  <2>1. evRows'[k] = r /\ evFirst'[k] = b /\ evCreated'[k] = ev
    BY <1>1 DEF EvidenceInv, EvidenceTypeOK
  <2> QED  BY <1>1, <1>2, <1>3, <2>1, NoEvidenceIsNone DEF EvidenceInv, EvidenceTypeOK, KeyGood
<1>7. \A a \in answers : AnswerGood(a)'
  <2>1. \A j \in EvidenceKeys : evRows[j] # NoEvidence =>
           evRows'[j] # NoEvidence /\ evFirst'[j] = evFirst[j]
    BY <1>1 DEF EvidenceInv, EvidenceTypeOK
  <2>2. \A a \in answers : a.key \in EvidenceKeys
    BY DEF EvidenceInv, EvidenceTypeOK
  <2> QED  BY <1>1, <2>1, <2>2 DEF EvidenceInv, AnswerGood
<1> QED  BY <1>1, <1>4, <1>5, <1>6, <1>7 DEF EvidenceInv

\* A tampered row changes its content and keeps its origin.
LEMMA TamperKeeps ==
    ASSUME EvidenceInv, NEW k \in EvidenceKeys, NEW b \in Texts,
           NEW how \in {"bytes", "hashed", "resealed"}, Tamper(k, b, how)
    PROVE  EvidenceInv'
<1> DEFINE r == [evRows[k] EXCEPT !.content = b, !.intact = (how # "bytes"),
                                 !.sha = IF how = "resealed" THEN b ELSE @]
<1>1. /\ evRows[k] \in Artifacts /\ evRows[k] # NoEvidence
      /\ evRows' = [evRows EXCEPT ![k] = r] /\ tampered' = tampered \cup {k}
      /\ UNCHANGED <<evCreated, evVerified, evFirst, evTold, caller, invocation, answers>>
  BY DEF Tamper, EvidenceInv, EvidenceTypeOK
<1>2. r \in Artifacts /\ r.org = evRows[k].org /\ r # NoEvidence
  BY <1>1, NoEvidenceIsNone DEF Artifacts
<1> HIDE DEF r
<1>3. EvidenceTypeOK' /\ \A d \in Callers : ReadGood(d)'
  BY <1>1, <1>2 DEF EvidenceInv, EvidenceTypeOK, ReadGood
<1>4. \A j \in EvidenceKeys : j # k => KeyGood(j)'
  BY <1>1, KeyKept DEF EvidenceInv, EvidenceTypeOK
<1>5. KeyGood(k)'
  <2>1. evRows'[k] = r
    BY <1>1 DEF EvidenceInv, EvidenceTypeOK
  <2> QED  BY <1>1, <1>2, <2>1 DEF EvidenceInv, EvidenceTypeOK, KeyGood
<1>6. \A a \in answers : AnswerGood(a)'
  <2>1. \A j \in EvidenceKeys : evRows[j] # NoEvidence => evRows'[j] # NoEvidence
    BY <1>1, <1>2 DEF EvidenceInv, EvidenceTypeOK
  <2> QED  BY <1>1, <2>1, AnswersKept
<1> QED  BY <1>1, <1>3, <1>4, <1>5, <1>6 DEF EvidenceInv

\* Saving an invocation is seen by receipt checks only.
LEMMA SaveInvocationKeeps ==
    ASSUME EvidenceInv, NEW k \in EvidenceKeys, SaveInvocation(k)
    PROVE  EvidenceInv'
<1>1. /\ invocation = NoEvidence
      /\ UNCHANGED <<evRows, evCreated, evVerified, evFirst, evTold, tampered, caller, answers>>
  BY DEF SaveInvocation
<1>2. invocation' \in [receipt : EvidenceKeys, linked : BOOLEAN, failed : BOOLEAN, coded : BOOLEAN]
  BY DEF SaveInvocation
<1>3. \A a \in answers : AnswerGood(a)'
  BY <1>1 DEF EvidenceInv, AnswerGood
<1>4. \A c \in Callers : ReadGood(c)'
  BY <1>1, <1>2, NoEvidenceIsNone DEF EvidenceInv, ReadGood
<1> QED  BY <1>1, <1>2, <1>3, <1>4, KeyKept DEF EvidenceInv, EvidenceTypeOK

\* Every step of the evidence store keeps its invariant.
LEMMA EvidenceStep == EvidenceInv /\ [EvidenceNext]_evVars => EvidenceInv'
<1> SUFFICES ASSUME EvidenceInv, [EvidenceNext]_evVars
             PROVE  EvidenceInv'
  OBVIOUS
<1>1. CASE UNCHANGED evVars
  BY <1>1, KeyKept, AnswersKept DEF evVars, EvidenceInv, EvidenceTypeOK, ReadGood
<1> QED
  BY <1>1, AddLooksKeeps, AddClaimsKeeps, AddRepliesKeeps, RepairReadsKeeps, RepairWritesKeeps,
     VerifyReadsKeeps, VerifyWritesKeeps, ReceiptCheckKeeps, LegacyRecordKeeps, TamperKeeps,
     SaveInvocationKeeps DEF EvidenceNext

\* Every answer under a key is what was first recorded, a verified record holds
\* that content, and a present receipt was verified.
THEOREM EvidenceTheorem == EvidenceSpec => []EvidenceSound
<1>1. EvidenceInit => EvidenceInv
  <2> SUFFICES ASSUME EvidenceInit PROVE EvidenceInv
    OBVIOUS
  <2>1. EvidenceTypeOK
    BY DEF EvidenceInit, EvidenceTypeOK
  <2> QED  BY <2>1 DEF EvidenceInit, EvidenceInv, KeyGood, ReadGood
<1>2. ASSUME EvidenceInv PROVE EvidenceSound
  <2>1. \A k \in EvidenceKeys : Preverified(k) => evRows[k].content = evFirst[k]
    BY <1>2 DEF EvidenceInv, KeyGood, Preverified, EvidenceReadable, OriginMatches
  <2> QED  BY <1>2, <2>1 DEF EvidenceInv, KeyGood, AnswerGood, EvidenceSound
<1> QED
  BY <1>1, <1>2, EvidenceStep, PTL DEF EvidenceSpec

------------------------------------------------------------------------------
(* Memory. *)

\* The states a memory reaches only when it was warranted.
Settled == {"committed", "active", "validated", "superseded", "archived"}

\* What is or was current was warranted: no inference, evidence or a person.
MemWarranted(i) ==
    /\ mems[i].kind # "inference"
    /\ mems[i].kind \in EvidenceRequired /\ ~mems[i].evid => mems[i].human

\* A superseded memory has a successor, or a writer that is about to save one.
MemSucceeded(i) ==
    mems[i].status = "superseded" =>
        \/ mems[i].by - 10 \in Ids \/ memCrashed
        \/ \E w \in MemWriters :
             /\ mems[i].by = w /\ Busy(w) /\ writer[w].op = "write" /\ writer[w].at = "save"
             /\ i \in writer[w].old

\* What a call under way has read and checked.
MemWriterGood(w) ==
    Busy(w) =>
        /\ writer[w].old \subseteq Ids /\ \A i \in writer[w].old : MemWarranted(i)
        /\ writer[w].op = "write" => writer[w].kind # "inference"
        /\ writer[w].op = "write" /\ writer[w].at \in {"mark", "save"} /\ writer[w].kind \in EvidenceRequired
             => writer[w].evid
        /\ writer[w].at \in {"map", "answer"} => writer[w].new \in Ids

\* Without an overlap or a crash one keyed call runs at a time, while the key is free.
MemKeySound ==
    ~overlapped /\ ~memCrashed =>
        /\ \A v, w \in MemWriters : MemKeyed(v) /\ MemKeyed(w) => v = w
        /\ \A w \in MemWriters : MemKeyed(w) => mapping = {}
        /\ replies \subseteq mapping /\ \A i, j \in mapping : i = j

\* Settled memories are warranted, superseded ones succeeded, calls under
\* way good and keys unique.
MemoryInv ==
    /\ MemoryTypeOK
    /\ \A i \in Ids : (mems[i].status \in Settled => MemWarranted(i)) /\ MemSucceeded(i)
    /\ \A w \in MemWriters : MemWriterGood(w)
    /\ MemKeySound

\* A writer at rest has no call under way.
LEMMA AtRestIsNoCall ==
    ASSUME MemoryTypeOK, NEW w \in MemWriters
    PROVE  /\ AtRest \notin MemoryCalls /\ AtRest.op = "none"
           /\ writer[w].op # "none" => writer[w] \in MemoryCalls
  BY DEF MemoryTypeOK, MemoryCalls, AtRest

\* The memories are numbered as they were saved.
LEMMA IdsAreNumbers ==
    ASSUME MemoryTypeOK
    PROVE  Ids = 1..Len(mems) /\ Len(mems) \in Nat /\ \A i \in Ids : mems[i] \in MemRecords
  BY DEF MemoryTypeOK, Ids

\* Memories never go, and keep their kind and evidence: what was warranted stays so.
LEMMA WarrantStays ==
    ASSUME Ids \subseteq Ids',
           \A i \in Ids : /\ mems'[i].kind = mems[i].kind /\ mems'[i].evid = mems[i].evid
                          /\ mems[i].human => mems'[i].human,
           NEW i \in Ids, MemWarranted(i)
    PROVE  MemWarranted(i)'
  BY DEF MemWarranted

\* A record is saved in place of another of the same memory.
LEMMA SavesKeeps ==
    ASSUME MemoryInv, NEW i \in Ids, NEW r \in MemRecords,
           r.kind = mems[i].kind, r.evid = mems[i].evid, mems[i].human => r.human,
           r.status \in Settled => /\ r.kind # "inference"
                                   /\ r.kind \in EvidenceRequired /\ ~r.evid => r.human,
           r.status = "superseded" => \/ r.by - 10 \in Ids
                                      \/ mems[i].status = "superseded" /\ r.by = mems[i].by,
           mems' = [mems EXCEPT ![i] = r],
           UNCHANGED <<mapping, writer, replies, overlapped, memCrashed, memCalls>>,
           reviews' \in Seq({"none", "pending", "approved", "rejected"}), Len(reviews') = Len(reviews)
    PROVE  MemoryInv'
<1>1. /\ MemoryTypeOK /\ Ids = 1..Len(mems) /\ Len(mems) \in Nat
  BY IdsAreNumbers DEF MemoryInv
<1>2. mems' \in Seq(MemRecords) /\ Len(mems') = Len(mems) /\ Ids' = Ids
  BY <1>1 DEF MemoryTypeOK, Ids
<1>3. \A j \in Ids : mems'[j] = IF j = i THEN r ELSE mems[j]
  BY <1>1, <1>2 DEF MemoryTypeOK, Ids
<1>4. MemoryTypeOK'
  BY <1>1, <1>2 DEF MemoryTypeOK
<1>5. \A j \in Ids : MemWarranted(j) => MemWarranted(j)'
  BY <1>2, <1>3, WarrantStays
<1>6. \A j \in Ids' : (mems[j].status \in Settled => MemWarranted(j))' /\ MemSucceeded(j)'
  <2> TAKE j \in Ids'
  <2>1. CASE j = i
    <3>1. mems'[i] = r
      BY <1>3
    <3>2. r.status \in Settled => MemWarranted(i)'
      BY <3>1 DEF MemWarranted
    <3>3. MemSucceeded(i)'
      BY <1>2, <3>1 DEF MemSucceeded, MemoryInv, Busy
    <3> QED  BY <2>1, <3>1, <3>2, <3>3
  <2>2. CASE j # i
    <3>1. mems'[j] = mems[j] /\ j \in Ids
      BY <1>2, <1>3, <2>2
    <3>2. MemSucceeded(j)'
      BY <1>2, <3>1 DEF MemSucceeded, MemoryInv, Busy
    <3> QED  BY <3>1, <3>2, <1>5 DEF MemoryInv
  <2> QED  BY <2>1, <2>2
<1>7. \A w \in MemWriters : MemWriterGood(w)'
  BY <1>2, <1>5 DEF MemoryInv, MemWriterGood, Busy
<1>8. MemKeySound'
  BY DEF MemoryInv, MemKeySound, MemKeyed, Busy
<1> QED  BY <1>4, <1>6, <1>7, <1>8 DEF MemoryInv

\* A new memory is saved.
LEMMA AppendKeeps ==
    ASSUME MemoryInv, NEW r \in MemRecords, NEW ms \in Seq(MemRecords), Len(ms) = Len(mems),
           \A i \in Ids : /\ ms[i].kind = mems[i].kind /\ ms[i].evid = mems[i].evid
                          /\ ms[i].human = mems[i].human /\ ms[i].status = mems[i].status,
           r.status \in Settled => /\ r.kind # "inference"
                                   /\ r.kind \in EvidenceRequired /\ ~r.evid => r.human,
           mems' = Append(ms, r), r.status # "superseded",
           NEW st \in {"none", "pending"}, reviews' = Append(reviews, st)
    PROVE  /\ mems' \in Seq(MemRecords) /\ Len(reviews') = Len(mems')
           /\ reviews' \in Seq({"none", "pending", "approved", "rejected"})
           /\ Ids' = 1..Len(mems) + 1 /\ Ids \subseteq Ids' /\ Len(mems) + 1 \in Ids'
           /\ \A i \in Ids : mems'[i] = ms[i] /\ (MemWarranted(i) => MemWarranted(i)')
           /\ mems'[Len(mems) + 1] = r
           /\ \A i \in Ids' : mems'[i].status \in Settled => MemWarranted(i)'
<1>1. /\ MemoryTypeOK /\ Ids = 1..Len(mems) /\ Len(mems) \in Nat
  BY IdsAreNumbers DEF MemoryInv
<1>2. /\ mems' \in Seq(MemRecords) /\ Len(mems') = Len(mems) + 1
      /\ \A i \in Ids : mems'[i] = ms[i]
      /\ mems'[Len(mems) + 1] = r
  BY <1>1
<1>3. /\ Ids' = 1..Len(mems) + 1 /\ Ids \subseteq Ids' /\ Len(mems) + 1 \in Ids'
  BY <1>1, <1>2 DEF Ids
<1>4. Len(reviews') = Len(mems') /\ reviews' \in Seq({"none", "pending", "approved", "rejected"})
  BY <1>1, <1>2 DEF MemoryTypeOK
<1>5. \A i \in Ids : MemWarranted(i) => MemWarranted(i)'
  BY <1>2, <1>3, WarrantStays
<1>6. \A i \in Ids' : mems'[i].status \in Settled => MemWarranted(i)'
  <2> TAKE i \in Ids'
  <2>1. CASE i = Len(mems) + 1
    BY <2>1, <1>2 DEF MemWarranted
  <2>2. CASE i \in Ids
    BY <2>2, <1>2, <1>5 DEF MemoryInv
  <2> QED  BY <1>1, <1>3, <2>1, <2>2
<1> QED  BY <1>2, <1>3, <1>4, <1>5, <1>6

\* A step of one call that leaves the memories.
LEMMA WriterMoves ==
    ASSUME MemoryInv, NEW w \in MemWriters, NEW to \in MemoryCalls \cup {AtRest},
           writer' = [writer EXCEPT ![w] = to],
           to # AtRest =>
             /\ to.old \subseteq Ids /\ \A i \in to.old : MemWarranted(i)
             /\ to.op = "write" => to.kind # "inference"
             /\ to.op = "write" /\ to.at \in {"mark", "save"} /\ to.kind \in EvidenceRequired => to.evid
             /\ to.at \in {"map", "answer"} => to.new \in Ids,
           writer[w].op = "write" /\ writer[w].at = "save" => memCrashed',
           memCrashed => memCrashed',
           memCrashed' \in BOOLEAN, overlapped' \in BOOLEAN, memCalls' \in Nat,
           UNCHANGED <<mems, reviews>>, mapping' \subseteq Ids, MemKeySound'
    PROVE  MemoryInv'
<1>1. MemoryTypeOK /\ AtRest.op = "none" /\ Ids' = Ids
  BY AtRestIsNoCall DEF MemoryInv, Ids, AtRest
<1>2. \A v \in MemWriters : writer'[v] = IF v = w THEN to ELSE writer[v]
  BY <1>1 DEF MemoryTypeOK
<1>3. MemoryTypeOK'
  BY <1>1 DEF MemoryTypeOK
<1>4. \A i \in Ids : MemWarranted(i)' <=> MemWarranted(i)
  BY DEF MemWarranted
<1>5. \A v \in MemWriters : MemWriterGood(v)'
  <2> TAKE v \in MemWriters
  <2>1. CASE v = w
    BY <1>1, <1>2, <1>4, <2>1 DEF MemWriterGood, Busy
  <2>2. CASE v # w
    BY <1>1, <1>2, <1>4, <2>2 DEF MemWriterGood, Busy, MemoryInv
  <2> QED  BY <2>1, <2>2
<1>6. \A i \in Ids : MemSucceeded(i)'
  <2> TAKE i \in Ids
  <2>1. MemSucceeded(i)
    BY DEF MemoryInv
  <2> QED  BY <1>1, <1>2, <2>1 DEF MemSucceeded, Busy
<1> QED  BY <1>1, <1>3, <1>4, <1>5, <1>6 DEF MemoryInv

\* The key stays sound when a call goes on as it was or ends, and nothing else moves.
LEMMA MemKeyKept ==
    ASSUME MemoryInv, NEW w \in MemWriters, NEW to \in MemoryCalls \cup {AtRest},
           writer' = [writer EXCEPT ![w] = to],
           to # AtRest => Busy(w) /\ to.keyed = writer[w].keyed,
           UNCHANGED <<mapping, replies, overlapped>>, memCrashed => memCrashed',
           memCrashed' \in BOOLEAN
    PROVE  MemKeySound'
<1>1. MemoryTypeOK /\ AtRest.op = "none"
  BY AtRestIsNoCall DEF MemoryInv, AtRest
<1>2. \A v \in MemWriters : writer'[v] = IF v = w THEN to ELSE writer[v]
  BY <1>1 DEF MemoryTypeOK
<1>3. \A v \in MemWriters : MemKeyed(v)' => MemKeyed(v)
  BY <1>1, <1>2 DEF MemKeyed, Busy
<1>4. MemKeySound /\ (memCrashed' = FALSE => memCrashed = FALSE)
  BY <1>1 DEF MemoryInv, MemoryTypeOK
<1> QED  BY <1>1, <1>3, <1>4 DEF MemKeySound, MemoryTypeOK

\* What the invariant says of a call under way.
LEMMA Begun ==
    ASSUME MemoryInv, NEW w \in MemWriters, Busy(w)
    PROVE  /\ writer[w] \in MemoryCalls /\ writer[w] # AtRest /\ AtRest.op = "none"
           /\ writer[w].old \subseteq Ids /\ \A i \in writer[w].old : MemWarranted(i)
           /\ writer[w].op = "write" => writer[w].kind # "inference"
           /\ writer[w].op = "write" /\ writer[w].at \in {"mark", "save"}
                /\ writer[w].kind \in EvidenceRequired => writer[w].evid
           /\ writer[w].at \in {"map", "answer"} => writer[w].new \in Ids
  BY AtRestIsNoCall DEF MemoryInv, MemWriterGood, Busy

\* The memories read for a step are memories that were committed.
LEMMA Looked ==
    ASSUME MemoryInv, NEW t
    PROVE  /\ Conflicting(t) \subseteq Ids /\ Duplicates(t) \subseteq Ids
           /\ \A i \in Conflicting(t) : MemWarranted(i)
  BY DEF Conflicting, Duplicates, Committed, Inspect, MemoryInv, Settled

\* Of some memories one is the oldest.
LEMMA OldestRecord ==
    ASSUME MemoryTypeOK, NEW S \in SUBSET Ids, S # {}
    PROVE  (CHOOSE i \in S : \A j \in S : i <= j) \in S
<1>1. S \subseteq Nat
  BY IdsAreNumbers
<1>2. PICK i \in S : \A j \in S : ~(<<j, i>> \in OpToRel(<, Nat))
  BY <1>1, NatLessThanWellFounded, WFMin
<1>3. \A j \in S : ~(j < i)
  BY <1>1, <1>2, Zenon DEF OpToRel
<1>4. \A j \in S : i <= j
  BY <1>1, <1>3
<1> QED  BY <1>4

\* write looks up its key and what it will supersede.
LEMMA WriteLooksKeeps ==
    ASSUME MemoryInv, NEW w \in MemWriters, WriteLooks(w)
    PROVE  MemoryInv'
<1>1. /\ Busy(w) /\ writer[w].op = "write" /\ writer[w].at = "look" /\ MemoryTypeOK
      /\ UNCHANGED <<mems, mapping, reviews, replies, overlapped, memCrashed, memCalls>>
  BY DEF WriteLooks, Fail, Busy, MemoryInv
<1>2. CASE ~writer[w].evid /\ writer[w].kind \in EvidenceRequired
  <2>1. writer' = [writer EXCEPT ![w] = AtRest]
    BY <1>2 DEF WriteLooks, Fail
  <2>2. MemKeySound'
    BY <1>1, <2>1, MemKeyKept DEF MemoryTypeOK
  <2> QED  BY <1>1, <2>1, <2>2, WriterMoves DEF MemoryTypeOK
<1>3. CASE ~(~writer[w].evid /\ writer[w].kind \in EvidenceRequired)
  <2> DEFINE to == [writer[w] EXCEPT !.at = "mark", !.old = Conflicting(writer[w].text)]
  <2>1. writer' = [writer EXCEPT ![w] = to]
    BY <1>3 DEF WriteLooks
  <2>2. writer[w] \in MemoryCalls
    BY <1>1, Begun
  <2>3. Conflicting(writer[w].text) \in SUBSET Nat
    BY <1>1, Looked, IdsAreNumbers
  <2>4. /\ to \in MemoryCalls /\ to.at = "mark" /\ to.old = Conflicting(writer[w].text)
        /\ to.op = "write" /\ to.kind = writer[w].kind /\ to.evid = writer[w].evid
        /\ to.keyed = writer[w].keyed
    BY <1>1, <2>2, <2>3 DEF MemoryCalls
  <2> HIDE DEF to
  <2>5. MemKeySound'
    BY <1>1, <2>1, <2>4, MemKeyKept DEF MemoryTypeOK
  <2>6. /\ to.old \subseteq Ids /\ \A i \in to.old : MemWarranted(i)
        /\ to.kind # "inference" /\ (to.kind \in EvidenceRequired => to.evid)
    BY <1>1, <1>3, <2>4, Looked, Begun
  <2> QED  BY <1>1, <2>1, <2>4, <2>5, <2>6, WriterMoves DEF MemoryTypeOK
<1> QED  BY <1>2, <1>3

\* propose looks up its key.
LEMMA ProposeLooksKeeps ==
    ASSUME MemoryInv, NEW w \in MemWriters, ProposeLooks(w)
    PROVE  MemoryInv'
<1>1. /\ Busy(w) /\ writer[w].op \in {"propose", "patch"} /\ writer[w].at = "look" /\ MemoryTypeOK
      /\ UNCHANGED <<mems, mapping, reviews, replies, overlapped, memCrashed, memCalls>>
  BY DEF ProposeLooks, Busy, MemoryInv
<1>2. writer[w] \in MemoryCalls /\ writer[w].op # "write"
  BY <1>1, Begun
<1>3. PICK to : /\ writer' = [writer EXCEPT ![w] = to] /\ to \in MemoryCalls
                /\ to.keyed = writer[w].keyed /\ to.op # "write"
                /\ to.old \subseteq Ids /\ \A i \in to.old : MemWarranted(i)
                /\ to.at \in {"map", "answer"} => to.new \in Ids
  <2>1. CASE Duplicates(writer[w].text) # {}
    <3>1. PICK n : n = CHOOSE i \in Duplicates(writer[w].text) :
                              \A j \in Duplicates(writer[w].text) : i <= j
      OBVIOUS
    <3>2. n \in Ids /\ n \in Nat
      BY <1>1, <2>1, <3>1, Looked, OldestRecord, IdsAreNumbers
    <3>3. PICK a \in {"map", "answer"} : writer' = [writer EXCEPT ![w] = [writer[w] EXCEPT !.at = a, !.new = n]]
      BY <2>1, <3>1 DEF ProposeLooks
    <3>4. LET t == [writer[w] EXCEPT !.at = a, !.new = n]
          IN /\ t \in MemoryCalls /\ t.keyed = writer[w].keyed /\ t.op = writer[w].op
             /\ t.old = writer[w].old /\ t.new = n
      BY <1>2, <3>2 DEF MemoryCalls
    <3> QED  BY <1>1, <1>2, <3>2, <3>3, <3>4, Begun
  <2>2. CASE Duplicates(writer[w].text) = {}
    <3>1. writer' = [writer EXCEPT ![w] = [writer[w] EXCEPT !.at = "save", !.old = Conflicting(writer[w].text)]]
      BY <2>2 DEF ProposeLooks
    <3>2. Conflicting(writer[w].text) \in SUBSET Nat
      BY <1>1, Looked, IdsAreNumbers
    <3> DEFINE t == [writer[w] EXCEPT !.at = "save", !.old = Conflicting(writer[w].text)]
    <3>3. /\ t \in MemoryCalls /\ t.keyed = writer[w].keyed /\ t.op = writer[w].op
          /\ t.old = Conflicting(writer[w].text) /\ t.at = "save"
      BY <1>2, <3>2 DEF MemoryCalls
    <3>4. t.old \subseteq Ids /\ \A i \in t.old : MemWarranted(i)
      BY <3>3, Looked
    <3>5. writer' = [writer EXCEPT ![w] = t]
      BY <3>1
    <3> HIDE DEF t
    <3> QED  BY <1>1, <1>2, <3>3, <3>4, <3>5
  <2> QED  BY <2>1, <2>2
<1>4. MemKeySound'
  BY <1>1, <1>3, MemKeyKept DEF MemoryTypeOK
<1> QED  BY <1>1, <1>2, <1>3, <1>4, WriterMoves DEF MemoryTypeOK

\* A crash of a writer loses its call, and is noted.
LEMMA WriterDiesKeeps ==
    ASSUME MemoryInv, NEW w \in MemWriters, WriterDies(w)
    PROVE  MemoryInv'
<1>1. /\ writer' = [writer EXCEPT ![w] = AtRest] /\ memCrashed' = TRUE /\ MemoryTypeOK
      /\ UNCHANGED <<mems, mapping, reviews, replies, overlapped, memCalls>>
  BY DEF WriterDies, Fail, MemoryInv
<1>2. MemKeySound'
  BY <1>1 DEF MemKeySound
<1> QED  BY <1>1, <1>2, WriterMoves DEF MemoryTypeOK

\* A keyed call saves the mapping of its key, unless another has.
LEMMA SaveMappingKeeps ==
    ASSUME MemoryInv, NEW w \in MemWriters, SaveMapping(w)
    PROVE  MemoryInv'
<1>1. /\ Busy(w) /\ MemoryTypeOK /\ writer[w].at \in {"map", "answer"}
      /\ writer' = [writer EXCEPT ![w] = AtRest]
      /\ UNCHANGED <<mems, reviews, overlapped, memCrashed, memCalls>>
  BY DEF SaveMapping, Done, MemoryInv
<1>2. writer[w].new \in Ids /\ AtRest.op = "none"
  BY <1>1, Begun
<1>3. \A v \in MemWriters : writer'[v] = IF v = w THEN AtRest ELSE writer[v]
  BY <1>1 DEF MemoryTypeOK
<1>4. CASE writer[w].keyed /\ writer[w].at = "map"
  <2>1. mapping' = mapping \cup {writer[w].new} /\ replies' = replies \cup {writer[w].new}
    BY <1>4 DEF SaveMapping, Done
  <2>2. MemKeyed(w) /\ \A v \in MemWriters : MemKeyed(v)' => MemKeyed(v) /\ v # w
    BY <1>1, <1>2, <1>3, <1>4 DEF MemKeyed, Busy
  <2>3. MemKeySound'
    BY <1>1, <2>1, <2>2 DEF MemoryInv, MemKeySound
  <2> QED  BY <1>1, <1>2, <2>1, <2>3, WriterMoves DEF MemoryTypeOK
<1>5. CASE ~(writer[w].keyed /\ writer[w].at = "map")
  <2>1. UNCHANGED <<mapping, replies>>
    BY <1>5 DEF SaveMapping, Done
  <2>2. MemKeySound'
    BY <1>1, <2>1, MemKeyKept DEF MemoryTypeOK
  <2> QED  BY <1>1, <2>1, <2>2, WriterMoves DEF MemoryTypeOK
<1> QED  BY <1>4, <1>5

\* A step of a call that changes no memory keeps the invariant.
LEMMA CallKeeps ==
    ASSUME MemoryInv, NEW w \in MemWriters, NEW op \in {"write", "propose", "patch"},
           NEW kind \in Kinds, NEW text \in MemTexts, NEW evid \in BOOLEAN, NEW keyed \in BOOLEAN,
           Call(w, op, kind, text, evid, keyed)
    PROVE  MemoryInv'
<1>0. PICK hit : hit = IF mapping = {} THEN 0 ELSE CHOOSE i \in mapping : \A j \in mapping : i <= j
  OBVIOUS
<1>1. /\ ~Busy(w) /\ MemoryTypeOK /\ memCalls' \in Nat
      /\ overlapped' = (overlapped \/ (keyed /\ \E v \in MemWriters : MemKeyed(v)))
      /\ UNCHANGED <<mems, mapping, reviews, memCrashed>>
  BY DEF Call, MemoryInv, MemoryTypeOK
<1>2. mapping # {} => hit \in mapping /\ hit # 0
  <2>1. mapping \in SUBSET Ids
    BY <1>1 DEF MemoryTypeOK
  <2>2. mapping # {} => hit \in mapping
    BY <1>0, <1>1, <2>1, OldestRecord
  <2>3. Ids = 1..Len(mems) /\ Len(mems) \in Nat
    BY <1>1, IdsAreNumbers
  <2> QED  BY <2>1, <2>2, <2>3
<1>3. CASE keyed /\ hit # 0
  <2>1. /\ writer' = [writer EXCEPT ![w] = writer[w]] /\ writer' = writer
        /\ replies' = replies \/ replies' = replies \cup {hit}
    BY <1>0, <1>1, <1>3 DEF Call, MemoryTypeOK
  <2>2. MemKeySound'
    <3>1. \A v \in MemWriters : MemKeyed(v)' <=> MemKeyed(v)
      BY <2>1 DEF MemKeyed, Busy
    <3>2. overlapped' = FALSE => overlapped = FALSE
      BY <1>1 DEF MemoryTypeOK
    <3>3. overlapped' \in BOOLEAN /\ memCrashed' = memCrashed /\ mapping' = mapping
      BY <1>1 DEF MemoryTypeOK
    <3>4. MemKeySound /\ hit \in mapping
      BY <1>0, <1>2, <1>3 DEF MemoryInv
    <3> QED  BY <1>1, <2>1, <3>1, <3>2, <3>3, <3>4 DEF MemKeySound, MemoryTypeOK
  <2> QED  BY <1>1, <2>1, <2>2 DEF MemoryInv, MemoryTypeOK, MemWarranted, MemSucceeded, Ids, Busy, MemWriterGood
<1>4. CASE ~(keyed /\ hit # 0)
  <2> DEFINE to == [op |-> IF kind = "inference" /\ op = "write" THEN "propose" ELSE op,
                    kind |-> kind, text |-> text, evid |-> evid, keyed |-> keyed,
                    at |-> "look", old |-> {}, new |-> 0]
  <2>1. writer' = [writer EXCEPT ![w] = to] /\ replies' = replies
    BY <1>0, <1>4 DEF Call
  <2>2. /\ to \in MemoryCalls /\ to.at = "look" /\ to.old = {} /\ to.keyed = keyed
        /\ to.op = "write" => to.kind # "inference"
    BY DEF MemoryCalls
  <2> HIDE DEF to
  <2>3. \A v \in MemWriters : writer'[v] = IF v = w THEN to ELSE writer[v]
    BY <1>1, <2>1 DEF MemoryTypeOK
  <2>4. MemKeySound'
    <3>1. \A v \in MemWriters : v # w => (MemKeyed(v)' <=> MemKeyed(v))
      BY <2>3 DEF MemKeyed, Busy
    <3>2. MemKeyed(w)' => keyed
      BY <2>2, <2>3 DEF MemKeyed
    <3>3. keyed => mapping = {}
      BY <1>2, <1>4
    <3> QED  BY <1>1, <2>1, <3>1, <3>2, <3>3 DEF MemoryInv, MemKeySound
  <2>5. writer[w].op = "none"
    BY <1>1 DEF Busy
  <2> QED  BY <1>1, <2>1, <2>2, <2>4, <2>5, WriterMoves DEF MemoryTypeOK
<1> QED  BY <1>3, <1>4

\* write marks what it supersedes before it saves the successor.
LEMMA WriteMarksKeeps ==
    ASSUME MemoryInv, NEW w \in MemWriters, WriteMarks(w)
    PROVE  MemoryInv'
<1> DEFINE to == [writer[w] EXCEPT !.at = "save"]
<1>1. /\ Busy(w) /\ writer[w].op = "write" /\ writer[w].at = "mark" /\ MemoryTypeOK
      /\ mems' = [i \in Ids |-> IF i \in writer[w].old
                                THEN [mems[i] EXCEPT !.status = "superseded", !.by = w] ELSE mems[i]]
      /\ writer' = [writer EXCEPT ![w] = to]
      /\ UNCHANGED <<mapping, reviews, replies, overlapped, memCrashed, memCalls>>
  BY DEF WriteMarks, Busy, MemoryInv
<1>2. /\ writer[w] \in MemoryCalls /\ writer[w].old \subseteq Ids /\ writer[w].kind # "inference"
      /\ writer[w].kind \in EvidenceRequired => writer[w].evid
      /\ \A i \in writer[w].old : MemWarranted(i)
  BY <1>1, Begun
<1>3. /\ to \in MemoryCalls /\ to.at = "save" /\ to.op = "write" /\ to.kind = writer[w].kind
      /\ to.evid = writer[w].evid /\ to.keyed = writer[w].keyed /\ to.old = writer[w].old
  BY <1>1, <1>2 DEF MemoryCalls
<1> HIDE DEF to
<1>4. Ids = 1..Len(mems) /\ Len(mems) \in Nat /\ \A i \in Ids : mems[i] \in MemRecords
  BY <1>1, IdsAreNumbers
<1>5. \A i \in Ids : [mems[i] EXCEPT !.status = "superseded", !.by = w] \in MemRecords
  BY <1>4 DEF MemRecords
<1>6. \A i \in Ids : /\ mems'[i] \in MemRecords /\ mems'[i].kind = mems[i].kind
                     /\ mems'[i].evid = mems[i].evid /\ mems'[i].human = mems[i].human
                     /\ i \in writer[w].old => mems'[i].status = "superseded" /\ mems'[i].by = w
                     /\ i \notin writer[w].old => mems'[i] = mems[i]
  <2> TAKE i \in Ids
  <2>1. CASE i \in writer[w].old
    <3>1. mems'[i] = [mems[i] EXCEPT !.status = "superseded", !.by = w]
      BY <1>1, <2>1
    <3>2. mems[i] \in MemRecords /\ mems'[i] \in MemRecords
      BY <1>4, <1>5, <3>1
    <3>3. /\ mems'[i].kind = mems[i].kind /\ mems'[i].evid = mems[i].evid
          /\ mems'[i].human = mems[i].human /\ mems'[i].status = "superseded" /\ mems'[i].by = w
      BY <3>1, <3>2 DEF MemRecords
    <3> QED  BY <2>1, <3>2, <3>3
  <2>2. CASE i \notin writer[w].old
    <3>1. mems'[i] = mems[i]
      BY <1>1, <2>2
    <3> QED  BY <1>4, <2>2, <3>1
  <2> QED  BY <2>1, <2>2
<1>7. mems' \in Seq(MemRecords) /\ Len(mems') = Len(mems) /\ Ids' = Ids
  <2>1. mems' \in [1..Len(mems) -> MemRecords]
    BY <1>1, <1>4, <1>6
  <2> QED  BY <1>4, <2>1 DEF Ids
<1>8. MemoryTypeOK'
  BY <1>1, <1>3, <1>7 DEF MemoryTypeOK
<1>9. \A i \in Ids : MemWarranted(i) => MemWarranted(i)'
  BY <1>6, <1>7, WarrantStays
<1>10. \A v \in MemWriters : writer'[v] = IF v = w THEN to ELSE writer[v]
  BY <1>1 DEF MemoryTypeOK
<1>11. \A v \in MemWriters : MemWriterGood(v)'
  <2> TAKE v \in MemWriters
  <2>1. CASE v = w
    BY <1>2, <1>3, <1>7, <1>9, <1>10, <2>1 DEF MemWriterGood
  <2>2. CASE v # w
    BY <1>7, <1>9, <1>10, <2>2 DEF MemWriterGood, MemoryInv, Busy
  <2> QED  BY <2>1, <2>2
<1>12. \A i \in Ids : (mems'[i].status \in Settled => MemWarranted(i)') /\ MemSucceeded(i)'
  <2> TAKE i \in Ids
  <2>1. CASE i \in writer[w].old
    <3>1. mems'[i].by = w /\ MemWarranted(i)'
      BY <1>2, <1>6, <1>9, <2>1
    <3>2. /\ writer'[w].op = "write" /\ writer'[w].at = "save" /\ i \in writer'[w].old
      BY <1>3, <1>10, <2>1, <1>1
    <3> QED  BY <3>1, <3>2 DEF MemSucceeded, Busy
  <2>2. CASE i \notin writer[w].old
    <3>1. mems'[i] = mems[i]
      BY <1>6, <2>2
    <3>2. MemSucceeded(i)
      BY DEF MemoryInv
    <3>3. MemSucceeded(i)'
      <4>1. \A v \in MemWriters : Busy(v) /\ writer[v].at = "save" => writer'[v] = writer[v]
        BY <1>1, <1>10
      <4>2. memCrashed' = memCrashed
        BY <1>1
      <4> QED  BY <1>7, <4>1, <4>2, <3>1, <3>2 DEF MemSucceeded, Busy
    <3> QED  BY <1>9, <3>1, <3>3 DEF MemoryInv
  <2> QED  BY <2>1, <2>2
<1>13. MemKeySound'
  BY <1>1, <1>3, MemKeyKept DEF MemoryTypeOK
<1> QED  BY <1>7, <1>8, <1>11, <1>12, <1>13 DEF MemoryInv

\* Two fields of a call are updated at once.
LEMMA CallUpdated ==
    ASSUME NEW f, NEW x \in DOMAIN f, NEW n
    PROVE  [f EXCEPT ![x].at = "map", ![x].new = n] = [f EXCEPT ![x] = [f[x] EXCEPT !.at = "map", !.new = n]]
  OBVIOUS

\* A call saves its memory under the next number and goes on to the mapping.
LEMMA NewMemoryKeeps ==
    ASSUME MemoryInv, NEW w \in MemWriters, Busy(w), NEW r \in MemRecords,
           NEW ms \in Seq(MemRecords), Len(ms) = Len(mems),
           \A i \in Ids : /\ ms[i].kind = mems[i].kind /\ ms[i].evid = mems[i].evid
                          /\ ms[i].human = mems[i].human /\ ms[i].status = mems[i].status
                          /\ \/ ms[i].by = mems[i].by
                                /\ ~(i \in writer[w].old /\ mems[i].by = w /\ writer[w].op = "write"
                                     /\ mems[i].status = "superseded")
                             \/ ms[i].by - 10 = Len(mems) + 1,
           r.status \in Settled => /\ r.kind # "inference"
                                   /\ r.kind \in EvidenceRequired /\ ~r.evid => r.human,
           mems' = Append(ms, r), r.status # "superseded", reviews' = Append(reviews, "none"),
           writer' = [writer EXCEPT ![w].at = "map", ![w].new = Len(mems) + 1],
           UNCHANGED <<mapping, replies, overlapped, memCrashed, memCalls>>
    PROVE  MemoryInv'
<1> DEFINE to == [writer[w] EXCEPT !.at = "map", !.new = Len(mems) + 1]
<1>0. MemoryTypeOK /\ Ids = 1..Len(mems) /\ Len(mems) \in Nat /\ w \in DOMAIN writer
  BY IdsAreNumbers DEF MemoryInv, MemoryTypeOK
<1>1. /\ MemoryTypeOK /\ writer' = [writer EXCEPT ![w] = to]
      /\ Ids = 1..Len(mems) /\ Len(mems) \in Nat /\ Len(mems) + 1 \in Nat
  <2>1. writer' = [writer EXCEPT ![w] = to]
    BY <1>0, CallUpdated
  <2>2. Len(mems) + 1 \in Nat
    BY <1>0
  <2> HIDE DEF to
  <2> QED  BY <1>0, <2>1, <2>2, Zenon
<1>2. /\ writer[w] \in MemoryCalls /\ writer[w].old \subseteq Ids
      /\ \A i \in writer[w].old : MemWarranted(i)
      /\ writer[w].op = "write" => writer[w].kind # "inference"
  BY Begun
<1>3. /\ to \in MemoryCalls /\ to.at = "map" /\ to.op = writer[w].op /\ to.kind = writer[w].kind
      /\ to.evid = writer[w].evid /\ to.keyed = writer[w].keyed /\ to.old = writer[w].old
      /\ to.new = Len(mems) + 1
  <2> PICK n : n = Len(mems) + 1
    OBVIOUS
  <2>1. n \in Nat /\ to = [writer[w] EXCEPT !.at = "map", !.new = n]
    BY <1>1
  <2> HIDE DEF to
  <2> QED  BY <1>2, <2>1 DEF MemoryCalls
<1> HIDE DEF to
<1>4. /\ mems' \in Seq(MemRecords) /\ Len(reviews') = Len(mems')
      /\ reviews' \in Seq({"none", "pending", "approved", "rejected"})
      /\ Ids' = 1..Len(mems) + 1 /\ Ids \subseteq Ids' /\ Len(mems) + 1 \in Ids'
      /\ \A i \in Ids : mems'[i] = ms[i] /\ (MemWarranted(i) => MemWarranted(i)')
      /\ mems'[Len(mems) + 1] = r
      /\ \A i \in Ids' : mems'[i].status \in Settled => MemWarranted(i)'
  BY AppendKeeps
<1>5. MemoryTypeOK'
  BY <1>1, <1>3, <1>4 DEF MemoryTypeOK
<1>6. \A v \in MemWriters : writer'[v] = IF v = w THEN to ELSE writer[v]
  BY <1>1 DEF MemoryTypeOK
<1>7. \A v \in MemWriters : MemWriterGood(v)'
  <2> TAKE v \in MemWriters
  <2>0. \A i \in Ids : i \in Ids' /\ (MemWarranted(i) => MemWarranted(i)')
    BY <1>4
  <2>1. CASE v = w
    <3>1. /\ writer'[v] = to /\ to.old \subseteq Ids' /\ \A i \in to.old : MemWarranted(i)'
      BY <1>2, <1>3, <1>6, <2>0, <2>1
    <3>2. to.new \in Ids'
      BY <1>3, <1>4
    <3> QED  BY <1>2, <1>3, <3>1, <3>2 DEF MemWriterGood
  <2>2. CASE v # w
    <3>1. writer'[v] = writer[v] /\ MemWriterGood(v)
      BY <1>6, <2>2 DEF MemoryInv
    <3> QED  BY <2>0, <3>1 DEF MemWriterGood, Busy
  <2> QED  BY <2>1, <2>2
<1>8. \A i \in Ids' : MemSucceeded(i)'
  <2> TAKE i \in Ids'
  <2>1. CASE i = Len(mems) + 1
    BY <1>4, <2>1 DEF MemSucceeded
  <2>2. CASE i \in Ids
    <3>1. MemSucceeded(i) /\ mems'[i] = ms[i] /\ ms[i].status = mems[i].status
      BY <1>4, <2>2 DEF MemoryInv
    <3>2. CASE ms[i].by - 10 = Len(mems) + 1
      BY <1>4, <3>1, <3>2 DEF MemSucceeded
    <3>3. CASE /\ ms[i].by = mems[i].by
               /\ ~(i \in writer[w].old /\ mems[i].by = w /\ writer[w].op = "write"
                    /\ mems[i].status = "superseded")
      <4>1. mems'[i].by = mems[i].by /\ mems'[i].status = mems[i].status /\ Ids \subseteq Ids'
        BY <1>4, <3>1, <3>3
      <4>2. \A v \in MemWriters : v # w => writer'[v] = writer[v]
        BY <1>6
      <4>3. memCrashed' = memCrashed
        OBVIOUS
      <4>4. SUFFICES ASSUME mems[i].status = "superseded"
                     PROVE  MemSucceeded(i)'
        BY <3>1, <4>1 DEF MemSucceeded
      <4>5. CASE mems[i].by - 10 \in Ids \/ memCrashed
        BY <4>1, <4>3, <4>5 DEF MemSucceeded
      <4>6. CASE \E v \in MemWriters :
                   /\ mems[i].by = v /\ Busy(v) /\ writer[v].op = "write" /\ writer[v].at = "save"
                   /\ i \in writer[v].old
        <5>1. PICK v \in MemWriters :
                   /\ mems[i].by = v /\ Busy(v) /\ writer[v].op = "write" /\ writer[v].at = "save"
                   /\ i \in writer[v].old
          BY <4>6
        <5>2. v # w
          BY <3>3, <4>4, <5>1
        <5> QED  BY <4>1, <4>2, <5>1, <5>2 DEF MemSucceeded, Busy
      <4> QED  BY <3>1, <4>4, <4>5, <4>6 DEF MemSucceeded
    <3> QED  BY <2>2, <3>2, <3>3
  <2> QED  BY <1>1, <1>4, <2>1, <2>2
<1>9. MemKeySound'
  BY <1>1, <1>3, MemKeyKept DEF MemoryTypeOK
<1> QED  BY <1>4, <1>5, <1>7, <1>8, <1>9 DEF MemoryInv

\* The memory a call saves is a record of what the call was given.
LEMMA NewMemoryType ==
    ASSUME MemoryInv, NEW w \in MemWriters, Busy(w), NEW clash \in BOOLEAN,
           NEW status \in {"committed", "candidate", "conflict"}, NEW type \in {"memory", "memory_candidate"}
    PROVE  LET r == NewMemory(w, status, type, clash)
           IN /\ r \in MemRecords /\ r.status = status /\ r.kind = writer[w].kind /\ r.evid = writer[w].evid
  BY Begun DEF NewMemory, MemRecords, MemoryCalls

\* write saves its memory, and what it marked has its successor.
LEMMA WriteSavesKeeps ==
    ASSUME MemoryInv, NEW w \in MemWriters, WriteSaves(w)
    PROVE  MemoryInv'
<1> DEFINE r == NewMemory(w, "committed", "memory", FALSE)
           ms == Succeed(w, mems, Len(mems) + 1)
<1>1. /\ Busy(w) /\ writer[w].op = "write" /\ writer[w].at = "save" /\ MemoryTypeOK
      /\ mems' = Append(ms, r) /\ reviews' = Append(reviews, "none")
      /\ writer' = [writer EXCEPT ![w].at = "map", ![w].new = Len(mems) + 1]
      /\ UNCHANGED <<mapping, replies, overlapped, memCrashed, memCalls>>
  BY DEF WriteSaves, Busy, MemoryInv
<1>2. r \in MemRecords /\ r.status = "committed" /\ r.kind = writer[w].kind /\ r.evid = writer[w].evid
  BY <1>1, NewMemoryType
<1>3. r.kind # "inference" /\ (r.kind \in EvidenceRequired => r.evid)
  BY <1>1, <1>2, Begun
<1>4. Ids = 1..Len(mems) /\ Len(mems) \in Nat /\ \A i \in Ids : mems[i] \in MemRecords
  BY <1>1, IdsAreNumbers
<1>5. ms = [i \in Ids |-> IF i \in writer[w].old /\ mems[i].by = w /\ mems[i].status = "superseded"
                         THEN [mems[i] EXCEPT !.by = 10 + (Len(mems) + 1)] ELSE mems[i]]
  BY DEF Succeed, Ids
<1>6. \A i \in Ids : /\ ms[i] \in MemRecords /\ ms[i].kind = mems[i].kind /\ ms[i].evid = mems[i].evid
                     /\ ms[i].human = mems[i].human /\ ms[i].status = mems[i].status
                     /\ \/ ms[i].by = mems[i].by
                           /\ ~(i \in writer[w].old /\ mems[i].by = w /\ writer[w].op = "write"
                                /\ mems[i].status = "superseded")
                        \/ ms[i].by - 10 = Len(mems) + 1
  <2> TAKE i \in Ids
  <2>1. CASE i \in writer[w].old /\ mems[i].by = w /\ mems[i].status = "superseded"
    <3>1. ms[i] = [mems[i] EXCEPT !.by = 10 + (Len(mems) + 1)]
      BY <1>5, <2>1
    <3> QED  BY <1>4, <3>1 DEF MemRecords
  <2>2. CASE ~(i \in writer[w].old /\ mems[i].by = w /\ mems[i].status = "superseded")
    <3>1. ms[i] = mems[i]
      BY <1>5, <2>2
    <3> QED  BY <1>4, <2>2, <3>1
  <2> QED  BY <2>1, <2>2
<1>7. ms \in Seq(MemRecords) /\ Len(ms) = Len(mems)
  <2>1. ms \in [1..Len(mems) -> MemRecords]
    BY <1>4, <1>5, <1>6
  <2> QED  BY <1>4, <2>1
<1> HIDE DEF ms, r
<1>8. r.status \in Settled => /\ r.kind # "inference"
                              /\ r.kind \in EvidenceRequired /\ ~r.evid => r.human
  BY <1>3
<1>9. r.status # "superseded" /\ Busy(w)
  BY <1>1, <1>2
<1>10. UNCHANGED <<mapping, replies, overlapped, memCrashed, memCalls>>
  BY <1>1
<1>11. /\ mems' = Append(ms, r) /\ reviews' = Append(reviews, "none") /\ r \in MemRecords
       /\ writer' = [writer EXCEPT ![w].at = "map", ![w].new = Len(mems) + 1]
  BY <1>1, <1>2
<1>12. Busy(w) /\ r \in MemRecords /\ ms \in Seq(MemRecords) /\ Len(ms) = Len(mems)
       /\ mems' = Append(ms, r) /\ r.status # "superseded" /\ reviews' = Append(reviews, "none")
       /\ writer' = [writer EXCEPT ![w].at = "map", ![w].new = Len(mems) + 1]
  BY <1>7, <1>9, <1>11
<1> QED  BY <1>6, <1>8, <1>10, <1>12, NewMemoryKeeps, ZenonT(60)

\* propose saves its candidate, or the conflict it found.
LEMMA ProposeSavesKeeps ==
    ASSUME MemoryInv, NEW w \in MemWriters, ProposeSaves(w)
    PROVE  MemoryInv'
<1>1. /\ Busy(w) /\ writer[w].op \in {"propose", "patch"} /\ MemoryTypeOK
      /\ reviews' = Append(reviews, "none")
      /\ writer' = [writer EXCEPT ![w].at = "map", ![w].new = Len(mems) + 1]
      /\ UNCHANGED <<mapping, replies, overlapped, memCrashed, memCalls>>
  BY DEF ProposeSaves, Busy, MemoryInv
<1>2. PICK r : /\ mems' = Append(mems, r) /\ r \in MemRecords /\ r.status # "superseded"
               /\ r.status \in Settled => /\ r.kind # "inference"
                                          /\ r.kind \in EvidenceRequired /\ ~r.evid => r.human
  <2>1. CASE ShouldCommit(w)
    <3> DEFINE r == NewMemory(w, "committed", "memory", FALSE)
    <3>1. mems' = Append(mems, r)
      BY <2>1 DEF ProposeSaves
    <3>2. r \in MemRecords /\ r.status = "committed" /\ r.kind = writer[w].kind /\ r.evid = writer[w].evid
      BY <1>1, NewMemoryType
    <3> HIDE DEF r
    <3> QED  BY <2>1, <3>1, <3>2 DEF ShouldCommit
  <2>2. CASE ~ShouldCommit(w)
    <3>1. PICK st \in {"candidate", "conflict"} : mems' = Append(mems,
              NewMemory(w, st, "memory_candidate", writer[w].old # {}))
      BY <2>2 DEF ProposeSaves
    <3> DEFINE r == NewMemory(w, st, "memory_candidate", writer[w].old # {})
    <3>2. r \in MemRecords /\ r.status = st
      BY <1>1, <3>1, NewMemoryType
    <3>3. st \notin Settled /\ st # "superseded"
      BY <3>1 DEF Settled
    <3>4. mems' = Append(mems, r)
      BY <3>1
    <3> HIDE DEF r
    <3> QED  BY <3>2, <3>3, <3>4
  <2> QED  BY <2>1, <2>2
<1>3. mems \in Seq(MemRecords)
  BY <1>1 DEF MemoryTypeOK
<1>4. writer[w].op # "write"
  BY <1>1
<1> QED  BY <1>1, <1>2, <1>3, <1>4, NewMemoryKeeps

\* A candidate is committed only when it is warranted.
LEMMA CommitCandidateKeeps ==
    ASSUME MemoryInv, NEW i \in Ids, Commitable(i), mems' = [mems EXCEPT ![i] = Commit(i)],
           UNCHANGED <<mapping, writer, replies, overlapped, memCrashed, memCalls>>,
           reviews' \in Seq({"none", "pending", "approved", "rejected"}), Len(reviews') = Len(reviews)
    PROVE  MemoryInv'
<1>1. mems[i] \in MemRecords
  BY IdsAreNumbers DEF MemoryInv
<1> DEFINE r == Commit(i)
<1>2. /\ r \in MemRecords /\ r.kind = mems[i].kind /\ r.evid = mems[i].evid /\ r.human = TRUE
      /\ r.status = "committed" /\ r.kind # "inference"
  BY <1>1 DEF Commit, MemRecords, Commitable
<1> HIDE DEF r
<1>3. mems' = [mems EXCEPT ![i] = r]
  BY DEF r
<1> QED  BY <1>2, <1>3, SavesKeeps

\* The reviews are as many as the memories.
LEMMA ReviewsKept ==
    ASSUME MemoryInv
    PROVE  /\ reviews \in Seq({"none", "pending", "approved", "rejected"}) /\ Len(reviews) = Len(mems)
           /\ \A i \in Ids, d \in {"pending", "approved", "rejected"} :
                /\ [reviews EXCEPT ![i] = d] \in Seq({"none", "pending", "approved", "rejected"})
                /\ Len([reviews EXCEPT ![i] = d]) = Len(reviews)
<1>1. /\ reviews \in Seq({"none", "pending", "approved", "rejected"}) /\ Len(reviews) = Len(mems)
      /\ Ids = 1..Len(reviews)
  BY IdsAreNumbers DEF MemoryInv, MemoryTypeOK
<1> QED  BY <1>1

\* A review decides a candidate: what it commits, a person saw.
LEMMA ReviewKeeps ==
    ASSUME MemoryInv, NEW i \in Ids,
           \/ CommitCandidate(i) \/ \E d \in {"approved", "rejected"} : ReviewPatch(i, d)
    PROVE  MemoryInv'
<1>1. CASE CommitCandidate(i)
  BY <1>1, CommitCandidateKeeps, ReviewsKept DEF CommitCandidate, Saves
<1>2. CASE \E d \in {"approved", "rejected"} : ReviewPatch(i, d)
  <2>1. PICK d \in {"approved", "rejected"} : ReviewPatch(i, d)
    BY <1>2
  <2>2. /\ reviews' = [reviews EXCEPT ![i] = d]
        /\ UNCHANGED <<mapping, writer, replies, overlapped, memCrashed, memCalls>>
        /\ mems' = [mems EXCEPT ![i] = IF d = "approved" /\ Commitable(i) THEN Commit(i) ELSE mems[i]]
    BY <2>1 DEF ReviewPatch, Saves
  <2>3. CASE d = "approved" /\ Commitable(i)
    BY <2>2, <2>3, CommitCandidateKeeps, ReviewsKept
  <2>4. CASE ~(d = "approved" /\ Commitable(i))
    <3>1. mems[i] \in MemRecords /\ (mems[i].status \in Settled => MemWarranted(i))
      BY IdsAreNumbers DEF MemoryInv
    <3>2. mems' = [mems EXCEPT ![i] = mems[i]]
      BY <2>2, <2>4
    <3> QED  BY <2>2, <3>1, <3>2, SavesKeeps, ReviewsKept DEF MemWarranted
  <2> QED  BY <2>3, <2>4
<1> QED  BY <1>1, <1>2

\* The archive and the lifecycle layer move memories that were current once.
LEMMA LifecycleKeeps ==
    ASSUME MemoryInv, NEW i \in Ids, Archive(i) \/ Restore(i) \/ \E j \in Ids : Supersede(i, j)
    PROVE  MemoryInv'
<1>1. /\ mems[i] \in MemRecords /\ (mems[i].status \in Settled => MemWarranted(i))
      /\ \A j \in Ids : j \in Nat
  BY IdsAreNumbers DEF MemoryInv
<1>2. /\ UNCHANGED <<mapping, writer, replies, overlapped, memCrashed, memCalls>> /\ reviews' = reviews
      /\ mems[i].status \in Settled
  BY DEF Archive, Restore, Supersede, Saves, Settled
<1>3. PICK r \in MemRecords :
         /\ mems' = [mems EXCEPT ![i] = r] /\ r.kind = mems[i].kind /\ r.evid = mems[i].evid
         /\ r.human = mems[i].human
         /\ r.status = "superseded" => r.by - 10 \in Ids
  <2>1. CASE Archive(i)
    <3> DEFINE r == [mems[i] EXCEPT !.status = "archived", !.by = 0, !.whole = FALSE]
    <3>1. /\ r \in MemRecords /\ r.kind = mems[i].kind /\ r.evid = mems[i].evid
          /\ r.human = mems[i].human /\ r.status = "archived"
      BY <1>1 DEF MemRecords
    <3>2. mems' = [mems EXCEPT ![i] = r]
      BY <2>1 DEF Archive, Saves
    <3> HIDE DEF r
    <3> QED  BY <3>1, <3>2
  <2>2. CASE Restore(i)
    <3> DEFINE r == [mems[i] EXCEPT !.status = "active"]
    <3>1. /\ r \in MemRecords /\ r.kind = mems[i].kind /\ r.evid = mems[i].evid
          /\ r.human = mems[i].human /\ r.status = "active"
      BY <1>1 DEF MemRecords
    <3>2. mems' = [mems EXCEPT ![i] = r]
      BY <2>2 DEF Restore, Saves
    <3> HIDE DEF r
    <3> QED  BY <3>1, <3>2
  <2>3. CASE \E j \in Ids : Supersede(i, j)
    <3>0. PICK j \in Ids : Supersede(i, j)
      BY <2>3
    <3>1. PICK n \in Nat : n = 10 + j
      BY <1>1
    <3> DEFINE r == [mems[i] EXCEPT !.status = "superseded", !.by = n]
    <3>2. /\ r \in MemRecords /\ r.kind = mems[i].kind /\ r.evid = mems[i].evid
          /\ r.human = mems[i].human /\ r.by = n
      BY <1>1 DEF MemRecords
    <3>3. mems' = [mems EXCEPT ![i] = r]
      BY <3>0, <3>1 DEF Supersede, Saves
    <3> HIDE DEF r
    <3>4. r.by - 10 = j
      BY <1>1, <3>1, <3>2
    <3> QED  BY <3>2, <3>3, <3>4
  <2> QED  BY <2>1, <2>2, <2>3
<1>4. /\ r.kind # "inference" /\ (r.kind \in EvidenceRequired /\ ~r.evid => r.human)
  BY <1>1, <1>2, <1>3 DEF MemWarranted
<1>5. reviews' \in Seq({"none", "pending", "approved", "rejected"}) /\ Len(reviews') = Len(reviews)
  BY <1>2, ReviewsKept
<1> QED  BY <1>2, <1>3, <1>4, <1>5, SavesKeeps

\* A review is opened for a patch that came without evidence.
LEMMA ReviewOpenedKeeps ==
    ASSUME MemoryInv, NEW i \in Ids, ReviewOpened(i)
    PROVE  MemoryInv'
<1>1. mems[i] \in MemRecords /\ (mems[i].status \in Settled => MemWarranted(i)) /\ mems \in Seq(MemRecords)
  BY IdsAreNumbers DEF MemoryInv, MemoryTypeOK
<1>2. /\ mems' = [mems EXCEPT ![i] = mems[i]] /\ reviews' = [reviews EXCEPT ![i] = "pending"]
      /\ UNCHANGED <<mapping, writer, replies, overlapped, memCrashed, memCalls>>
  BY <1>1 DEF ReviewOpened
<1> QED  BY <1>1, <1>2, SavesKeeps, ReviewsKept DEF MemWarranted

\* A patch is proposed as a memory of its own, under review.
LEMMA ProposePatchKeeps ==
    ASSUME MemoryInv, NEW text \in MemTexts, ProposePatch(text)
    PROVE  MemoryInv'
<1> DEFINE r == [kind |-> "fact", text |-> text, evid |-> TRUE, status |-> "pending_review",
                 type |-> "memory", clash |-> FALSE, human |-> FALSE, by |-> 0, whole |-> FALSE]
<1>1. r \in MemRecords /\ r.status = "pending_review"
  BY DEF MemRecords, Kinds
<1>2. /\ mems' = Append(mems, r) /\ reviews' = Append(reviews, "pending") /\ MemoryTypeOK
      /\ UNCHANGED <<mapping, writer, replies, overlapped, memCrashed>> /\ memCalls' = memCalls + 1
  BY DEF ProposePatch, MemoryInv
<1> HIDE DEF r
<1>3. r.status \notin Settled /\ r.status # "superseded" /\ mems \in Seq(MemRecords)
  BY <1>1, <1>2 DEF Settled, MemoryTypeOK
<1>4. /\ mems' \in Seq(MemRecords) /\ Len(reviews') = Len(mems')
      /\ reviews' \in Seq({"none", "pending", "approved", "rejected"})
      /\ Ids' = 1..Len(mems) + 1 /\ Ids \subseteq Ids'
      /\ \A i \in Ids : mems'[i] = mems[i] /\ (MemWarranted(i) => MemWarranted(i)')
      /\ mems'[Len(mems) + 1] = r
      /\ \A i \in Ids' : mems'[i].status \in Settled => MemWarranted(i)'
  BY <1>1, <1>2, <1>3, AppendKeeps
<1>5. MemoryTypeOK'
  BY <1>2, <1>4 DEF MemoryTypeOK
<1>6. \A i \in Ids' : MemSucceeded(i)'
  <2> TAKE i \in Ids'
  <2>1. CASE i = Len(mems) + 1
    BY <1>3, <1>4, <2>1 DEF MemSucceeded
  <2>2. CASE i \in Ids
    <3>1. MemSucceeded(i) /\ mems'[i] = mems[i]
      BY <1>4, <2>2 DEF MemoryInv
    <3>2. writer' = writer /\ memCrashed' = memCrashed
      BY <1>2
    <3> QED  BY <1>4, <3>1, <3>2 DEF MemSucceeded, Busy
  <2>3. Ids = 1..Len(mems) /\ Len(mems) \in Nat
    BY <1>2, IdsAreNumbers
  <2> QED  BY <1>4, <2>1, <2>2, <2>3
<1>7. \A v \in MemWriters : MemWriterGood(v)'
  <2> TAKE v \in MemWriters
  <2>1. writer'[v] = writer[v] /\ MemWriterGood(v) /\ \A i \in Ids : i \in Ids' /\ (MemWarranted(i) => MemWarranted(i)')
    BY <1>2, <1>4 DEF MemoryInv
  <2> QED  BY <2>1 DEF MemWriterGood, Busy
<1>8. MemKeySound'
  BY <1>2 DEF MemoryInv, MemKeySound, MemKeyed, Busy
<1> QED  BY <1>4, <1>5, <1>6, <1>7, <1>8 DEF MemoryInv

\* Clearing the working memory touches no other kind.
LEMMA ClearWorkingKeeps ==
    ASSUME MemoryInv, ClearWorking
    PROVE  MemoryInv'
<1>1. /\ mems' = [i \in Ids |-> IF i \in Inspect /\ mems[i].kind = "working"
                              THEN [mems[i] EXCEPT !.status = "cleared", !.whole = FALSE] ELSE mems[i]]
      /\ UNCHANGED <<mapping, reviews, writer, replies, overlapped, memCrashed, memCalls>>
      /\ MemoryTypeOK
  BY DEF ClearWorking, MemoryInv
<1>2. Ids = 1..Len(mems) /\ Len(mems) \in Nat /\ \A i \in Ids : mems[i] \in MemRecords
  BY <1>1, IdsAreNumbers
<1>3. \A i \in Ids : /\ mems'[i] \in MemRecords /\ mems'[i].kind = mems[i].kind
                     /\ mems'[i].evid = mems[i].evid /\ mems'[i].human = mems[i].human
                     /\ mems'[i] = mems[i] \/ mems'[i].status = "cleared"
  <2> TAKE i \in Ids
  <2>1. mems[i] \in MemRecords
    BY <1>2
  <2>2. CASE mems'[i] = [mems[i] EXCEPT !.status = "cleared", !.whole = FALSE]
    BY <2>1, <2>2 DEF MemRecords
  <2>3. CASE mems'[i] = mems[i]
    BY <2>1, <2>3
  <2> QED  BY <1>1, <2>2, <2>3
<1>4. mems' \in Seq(MemRecords) /\ Len(mems') = Len(mems) /\ Ids' = Ids
  <2>1. mems' \in [1..Len(mems) -> MemRecords]
    BY <1>1, <1>2, <1>3
  <2> QED  BY <1>2, <2>1 DEF Ids
<1>5. MemoryTypeOK'
  BY <1>1, <1>4 DEF MemoryTypeOK
<1>6. \A i \in Ids : MemWarranted(i) => MemWarranted(i)'
  BY <1>3, <1>4, WarrantStays
<1>7. \A i \in Ids : (mems'[i].status \in Settled => MemWarranted(i)') /\ MemSucceeded(i)'
  <2> TAKE i \in Ids
  <2>1. CASE mems'[i].status = "cleared"
    BY <2>1 DEF Settled, MemSucceeded
  <2>2. CASE mems'[i] = mems[i]
    <3>1. MemSucceeded(i) /\ writer' = writer /\ memCrashed' = memCrashed
      BY <1>1 DEF MemoryInv
    <3>2. MemSucceeded(i)'
      BY <1>4, <2>2, <3>1 DEF MemSucceeded, Busy
    <3> QED  BY <1>6, <2>2, <3>2 DEF MemoryInv
  <2> QED  BY <1>3, <2>1, <2>2
<1>8. \A v \in MemWriters : MemWriterGood(v)'
  <2> TAKE v \in MemWriters
  <2>1. writer'[v] = writer[v] /\ MemWriterGood(v)
    BY <1>1 DEF MemoryInv
  <2> QED  BY <1>4, <1>6, <2>1 DEF MemWriterGood, Busy
<1>9. MemKeySound'
  BY <1>1 DEF MemoryInv, MemKeySound, MemKeyed, Busy
<1> QED  BY <1>4, <1>5, <1>7, <1>8, <1>9 DEF MemoryInv

\* Every step of the memory keeps its invariant.
LEMMA MemoryStep == MemoryInv /\ [MemoryNext]_memVars => MemoryInv'
<1> SUFFICES ASSUME MemoryInv, [MemoryNext]_memVars PROVE MemoryInv'
  OBVIOUS
<1>1. CASE UNCHANGED memVars
  BY <1>1 DEF memVars, MemoryInv, MemoryTypeOK, Ids, MemWarranted, MemSucceeded, MemWriterGood,
              MemKeySound, MemKeyed, Busy
<1>2. ASSUME NEW w \in MemWriters,
             \/ WriteLooks(w) \/ WriteMarks(w) \/ WriteSaves(w) \/ ProposeLooks(w) \/ ProposeSaves(w)
             \/ SaveMapping(w) \/ WriterDies(w)
      PROVE  MemoryInv'
  BY <1>2, WriteLooksKeeps, WriteMarksKeeps, WriteSavesKeeps, ProposeLooksKeeps, ProposeSavesKeeps,
     SaveMappingKeeps, WriterDiesKeeps
<1>3. ASSUME NEW w \in MemWriters, NEW op \in {"write", "propose", "patch"}, NEW kind \in Kinds,
             NEW text \in MemTexts, NEW evid \in BOOLEAN, NEW keyed \in BOOLEAN,
             Call(w, op, kind, text, evid, keyed)
      PROVE  MemoryInv'
  BY <1>3, CallKeeps
<1>4. ASSUME NEW i \in Ids,
             \/ CommitCandidate(i) \/ ReviewOpened(i) \/ Archive(i) \/ ArchiveEntry(i)
             \/ Restore(i) \/ \E j \in Ids : Supersede(i, j)
             \/ \E d \in {"approved", "rejected"} : ReviewPatch(i, d)
      PROVE  MemoryInv'
  BY <1>4, ReviewKeeps, LifecycleKeeps, ReviewOpenedKeeps DEF ArchiveEntry
<1>5. ASSUME NEW text \in MemTexts, ProposePatch(text)
      PROVE  MemoryInv'
  BY <1>5, ProposePatchKeeps
<1> QED  BY <1>1, <1>2, <1>3, <1>4, <1>5, ClearWorkingKeeps DEF MemoryNext, Kinds

\* An empty memory satisfies the invariant.
LEMMA MemoryStarts == MemoryInit => MemoryInv
<1> SUFFICES ASSUME MemoryInit PROVE MemoryInv
  OBVIOUS
<1>1. Ids = {} /\ \A w \in MemWriters : writer[w].op = "none"
  BY DEF MemoryInit, Ids, AtRest
<1>2. MemoryTypeOK
  <2>1. writer \in [MemWriters -> MemoryCalls \cup {AtRest}]
    BY DEF MemoryInit
  <2>2. mems = <<>> /\ reviews = <<>> /\ mapping = {} /\ memCalls = 0
    BY DEF MemoryInit
  <2>3. mems \in Seq(MemRecords) /\ mapping \subseteq Ids /\ memCalls \in Nat
    BY <2>2
  <2>4. reviews \in Seq({"none", "pending", "approved", "rejected"}) /\ Len(reviews) = Len(mems)
    BY <2>2
  <2> QED  BY <2>1, <2>3, <2>4 DEF MemoryInit, MemoryTypeOK
<1> QED  BY <1>1, <1>2 DEF MemoryInit, MemoryInv, MemWriterGood, MemKeySound, MemKeyed, Busy

\* The invariant implies what is promised of the memory.
LEMMA MemoryInvSound == MemoryInv => MemorySound
<1> SUFFICES ASSUME MemoryInv PROVE MemorySound
  OBVIOUS
<1>1. \A i \in Ids : mems[i].status \in Current =>
         /\ mems[i].kind # "inference"
         /\ mems[i].kind \in EvidenceRequired /\ ~mems[i].evid => mems[i].human
  BY DEF MemoryInv, MemWarranted, Settled, Current
<1>2. ~overlapped /\ ~memCrashed => \A i, j \in replies : i = j
  BY DEF MemoryInv, MemKeySound
<1>3. \A i \in Ids : mems[i].status = "superseded" =>
         \/ mems[i].by - 10 \in Ids
         \/ memCrashed \/ \E w \in MemWriters : mems[i].by = w /\ Busy(w) /\ writer[w].at = "save"
  BY DEF MemoryInv, MemSucceeded
<1> QED  BY <1>1, <1>2, <1>3 DEF MemorySound

\* No inference becomes current without review, what is superseded has a
\* successor and a keyed call is answered once (memory.py).
THEOREM MemoryTheorem == MemorySpec => []MemorySound
<1>1. MemoryInit => MemoryInv
  BY MemoryStarts
<1>2. MemoryInv => MemorySound
  BY MemoryInvSound
<1> QED  BY <1>1, <1>2, MemoryStep, PTL DEF MemorySpec

------------------------------------------------------------------------------
(* Retrieval. *)

\* Every document is the one its hash names, and its chunks are in the index.
IndexInv ==
    /\ \A d \in DOMAIN docs : hashes[docs[d].text] = d /\ d \in chunks
    /\ \A t \in FactTexts : hashes[t] # 0 => hashes[t] \in DOMAIN docs /\ docs[hashes[t]].text = t

\* What is committed for one mission has one content.
FactsAgree ==
    \A i, j \in DOMAIN facts :
        facts[i].status = "committed" /\ facts[j].status = "committed" /\ facts[i].mission = facts[j].mission
          => facts[i].text = facts[j].text

\* The chunker stands where the next chunk starts: ChunkOverlap before the last end.
CutSoFar ==
    /\ pieces = <<>> => cursor.start = 0
    /\ pieces # <<>> => LET last == pieces[Len(pieces)] IN
         /\ pieces[1][1] = 0 /\ last[1] < cursor.start
         /\ IF cursor.start = cursor.length THEN last[2] = cursor.length
            ELSE last[2] < cursor.length /\ cursor.start = last[2] - ChunkOverlap

\* Index and facts agree with what was said, and the chunks cover the text
\* so far.
RetrievalInv == RetrievalTypeOK /\ IndexInv /\ FactsAgree /\ CutSoFar /\ ChunksCover

------------------------------------------------------------------------------
\* The hits of a set of documents are no more than the documents.
LEMMA HitsCounted ==
    ASSUME NEW f, NEW S, IsFiniteSet(S), Cardinality(S) <= TopK, f = [x \in S |-> f[x]]
    PROVE  /\ IsFiniteSet({f[x] : x \in S})
           /\ \A H \in SUBSET {f[x] : x \in S} : IsFiniteSet(H) /\ Cardinality(H) <= TopK
<1> DEFINE T == {f[x] : x \in S}
<1>1. f \in Surjection(S, T)
  BY DEF Surjection
<1>2. IsFiniteSet(T) /\ Cardinality(T) <= Cardinality(S)
  BY <1>1, FS_Surjection
<1>3. Cardinality(S) \in Nat /\ Cardinality(T) \in Nat
  BY <1>2, FS_CardinalityType
<1>4. ASSUME NEW H \in SUBSET T PROVE IsFiniteSet(H) /\ Cardinality(H) <= TopK
  <2>1. IsFiniteSet(H) /\ Cardinality(H) <= Cardinality(T)
    BY <1>2, FS_Subset
  <2>2. Cardinality(H) \in Nat
    BY <2>1, FS_CardinalityType
  <2> QED  BY <1>2, <1>3, <2>1, <2>2, TopKAssumption
<1> QED  BY <1>2, <1>4

\* Sets of documents and of facts are finite.
LEMMA PositionsAreFinite ==
    ASSUME RetrievalTypeOK
    PROVE  /\ \A S \in SUBSET DOMAIN docs : IsFiniteSet(S)
           /\ \A S \in SUBSET DOMAIN facts : IsFiniteSet(S)
<1>1. /\ DOMAIN docs = 1..Len(docs) /\ Len(docs) \in Nat
      /\ DOMAIN facts = 1..Len(facts) /\ Len(facts) \in Nat
  BY DEF RetrievalTypeOK
<1>2. IsFiniteSet(1..Len(docs)) /\ IsFiniteSet(1..Len(facts))
  BY <1>1, FS_Interval
<1> QED  BY <1>1, <1>2, FS_Subset

\* What the index returns: hits of chunks that pass the filters, at most TopK.
LEMMA FromTheIndex ==
    ASSUME RetrievalTypeOK, NEW layers, NEW tags \in BOOLEAN, NEW found \in RagQuery(layers, tags)
    PROVE  /\ \A h \in found : \E d \in DOMAIN docs :
                h = AsHit(d) /\ (layers # {} => docs[d].layer \in layers) /\ (tags => docs[d].tagged)
           /\ \A H \in SUBSET found : Cardinality(H) <= TopK
<1>1. PICK top \in Similar(Admissible(layers, tags)) : found = {AsHit(d) : d \in top}
  BY DEF RagQuery
<1>2. top \subseteq DOMAIN docs /\ Cardinality(top) <= TopK
  BY <1>1 DEF Similar, Admissible, RetrievalTypeOK
<1>3. IsFiniteSet(top)
  BY <1>2, PositionsAreFinite
<1> DEFINE f == [d \in top |-> AsHit(d)]
<1>4. found = {f[d] : d \in top}
  BY <1>1
<1>5. f = [x \in top |-> f[x]]
  OBVIOUS
<1>6. \A h \in found : \E d \in DOMAIN docs :
                h = AsHit(d) /\ (layers # {} => docs[d].layer \in layers) /\ (tags => docs[d].tagged)
  BY <1>1, <1>2 DEF Similar, Admissible
<1> HIDE DEF f
<1>7. \A H \in SUBSET found : Cardinality(H) <= TopK
  BY <1>2, <1>3, <1>4, <1>5, HitsCounted
<1> QED  BY <1>6, <1>7

\* A search returns at most TopK hits, and only what its mission may see.
LEMMA SearchScoped == RetrievalTypeOK => SearchIsScoped
<1> SUFFICES ASSUME RetrievalTypeOK PROVE SearchIsScoped
  OBVIOUS
<1>1. ASSUME NEW layers \in LayerFilters, NEW t \in FactTexts, NEW m \in FactMissions,
             NEW hits \in LayerSearch(t, layers, m)
      PROVE  /\ m # 0 => \A h \in hits : h.mission = m
             /\ layers # {} => \A h \in hits : h.layer \in layers
             /\ Cardinality(hits) <= TopK
  <2>1. CASE \E found \in RagQuery(layers, FALSE) : hits = OfMission(found, m)
    <3>1. PICK found \in RagQuery(layers, FALSE) : hits = OfMission(found, m)
      BY <2>1
    <3>2. hits \subseteq found /\ (m # 0 => \A h \in hits : h.mission = m)
      BY <3>1 DEF OfMission
    <3>3. \A h \in found : \E d \in DOMAIN docs : h = AsHit(d) /\ (layers # {} => docs[d].layer \in layers)
      BY FromTheIndex
    <3>4. Cardinality(hits) <= TopK
      BY <3>2, FromTheIndex
    <3> QED  BY <3>2, <3>3, <3>4 DEF AsHit
  <2>2. CASE \E best \in Best(Keyword(t, layers, m)) : hits = {FactHit(i) : i \in best}
    <3>1. PICK best \in Best(Keyword(t, layers, m)) : hits = {FactHit(i) : i \in best}
      BY <2>2
    <3>2. best \subseteq Keyword(t, layers, m) /\ Cardinality(best) <= TopK
      BY <3>1, TopKAssumption DEF Best, kSubset
    <3>3. best \subseteq DOMAIN facts /\ IsFiniteSet(best)
      BY <3>2, PositionsAreFinite DEF Keyword
    <3> DEFINE f == [i \in best |-> FactHit(i)]
    <3>4. hits = {f[i] : i \in best} /\ f = [x \in best |-> f[x]]
      BY <3>1
    <3>5. \A h \in hits : \E i \in Keyword(t, layers, m) : h = FactHit(i)
      BY <3>1, <3>2
    <3> HIDE DEF f
    <3>6. Cardinality(hits) <= TopK
      BY <3>2, <3>3, <3>4, HitsCounted
    <3> QED  BY <3>5, <3>6 DEF FactHit, Keyword, InScope
  <2> QED  BY <2>1, <2>2 DEF LayerSearch
<1>2. ASSUME NEW layers \in LayerFilters, NEW hits \in RagQuery(layers, TRUE), NEW h \in hits
      PROVE  \E d \in DOMAIN docs : docs[d].tagged /\ docs[d].text = h.text /\ (h.cited => docs[d].held)
  <2>1. TRUE \in BOOLEAN
    OBVIOUS
  <2>2. PICK d \in DOMAIN docs : h = AsHit(d) /\ docs[d].tagged
    BY <2>1, FromTheIndex
  <2> QED  BY <2>2 DEF AsHit
<1> QED  BY <1>1, <1>2 DEF SearchIsScoped

\* The index holds what its hashes say.
LEMMA IndexSound == RetrievalTypeOK /\ IndexInv => IndexAgrees
<1> SUFFICES ASSUME RetrievalTypeOK, IndexInv PROVE IndexAgrees
  OBVIOUS
<1>1. \A d, e \in DOMAIN docs : docs[d].text = docs[e].text => d = e
  BY DEF IndexInv
<1>2. \A t \in FactTexts : hashes[t] # 0 => hashes[t] \in chunks /\ docs[hashes[t]].text = t
  BY DEF IndexInv
<1> QED  BY <1>1, <1>2 DEF IndexInv, IndexAgrees

\* What is canonical for a mission agrees, nothing committed by itself
\* supersedes, and the non-superseded fact is the newest.
LEMMA KnowledgeSoundly == RetrievalTypeOK /\ FactsAgree => KnowledgeAgrees
<1> SUFFICES ASSUME RetrievalTypeOK, FactsAgree, NEW m \in FactMissions
             PROVE  /\ m # 0 => \A i, j \in Canonical(m) : facts[i].text = facts[j].text
                    /\ \A t \in FactTexts : CommitValid(t, m, TRUE) => DetectSupersession(t, m) # "supersedes"
                    /\ \A i \in NonSuperseded(m), j \in Canonical(m) : j <= i
  BY DEF KnowledgeAgrees
<1>1. m # 0 => \A i, j \in Canonical(m) : facts[i].text = facts[j].text
  BY DEF Canonical, InScope, FactsAgree
<1>2. \A t \in FactTexts : CommitValid(t, m, TRUE) => DetectSupersession(t, m) # "supersedes"
  BY DEF CommitValid, Conflicts, DetectSupersession
<1>3. \A i \in NonSuperseded(m), j \in Canonical(m) : j <= i
  <2>1. Canonical(m) \in SUBSET (1..Len(facts)) /\ Len(facts) \in Nat
    BY DEF Canonical, RetrievalTypeOK
  <2>2. Canonical(m) # {} => \A j \in Canonical(m) : j <= Max(Canonical(m))
    BY <2>1, LastOf
  <2> QED  BY <2>2 DEF NonSuperseded
<1> QED  BY <1>1, <1>2, <1>3

------------------------------------------------------------------------------
\* A step that changes the facts alone keeps the invariant if they still
\* agree.
LEMMA FactsStayed ==
    ASSUME RetrievalInv, facts' \in Seq(Facts), FactsAgree', UNCHANGED <<docs, chunks, hashes, pieces, cursor>>
    PROVE  RetrievalInv'
  BY DEF RetrievalInv, RetrievalTypeOK, IndexInv, CutSoFar, ChunksCover

\* A fact that is written supersedes the others in its scope.
LEMMA FactWriteKeeps ==
    ASSUME RetrievalInv, NEW text \in FactTexts, NEW m \in FactMissions, NEW layer \in Layers,
           FactWrite(text, m, layer)
    PROVE  RetrievalInv'
<1> DEFINE r == [text |-> text, mission |-> m, layer |-> layer, status |-> "committed"]
           fs == [i \in DOMAIN facts |->
                          IF InScope(i, m) /\ facts[i].status = "committed" /\ facts[i].text # text
                          THEN [facts[i] EXCEPT !.status = "superseded"] ELSE facts[i]]
<1>1. /\ facts' = Append(fs, r) /\ UNCHANGED <<docs, chunks, hashes, pieces, cursor>> /\ facts \in Seq(Facts)
      /\ DOMAIN facts = 1..Len(facts) /\ Len(facts) \in Nat
  BY DEF FactWrite, RetrievalInv, RetrievalTypeOK
<1>2. r \in Facts /\ r.text = text /\ r.mission = m
  BY DEF Facts
<1>3. \A i \in DOMAIN facts :
        /\ facts[i] \in Facts /\ fs[i] \in Facts
        /\ fs[i].text = facts[i].text /\ fs[i].mission = facts[i].mission
        /\ fs[i].status = "committed" => facts[i].status = "committed"
        /\ fs[i].status = "committed" /\ facts[i].mission = m => facts[i].text = text
  <2> TAKE i \in DOMAIN facts
  <2>1. facts[i] \in Facts
    BY <1>1
  <2>2. CASE fs[i] = [facts[i] EXCEPT !.status = "superseded"]
    BY <2>1, <2>2 DEF Facts
  <2>3. CASE fs[i] = facts[i] /\ ~(InScope(i, m) /\ facts[i].status = "committed" /\ facts[i].text # text)
    BY <2>1, <2>3 DEF InScope
  <2> QED  BY <2>2, <2>3
<1>0. fs = [i \in DOMAIN facts |-> fs[i]]
  OBVIOUS
<1> HIDE DEF fs, r
<1>4. fs \in Seq(Facts) /\ Len(fs) = Len(facts)
  <2>1. fs \in [1..Len(facts) -> Facts]
    BY <1>0, <1>1, <1>3
  <2> QED  BY <1>1, <2>1
<1>5. /\ facts' \in Seq(Facts) /\ DOMAIN facts' = 1..Len(facts) + 1 /\ facts'[Len(facts) + 1] = r
      /\ \A i \in DOMAIN facts : facts'[i] = fs[i]
  BY <1>1, <1>2, <1>4
<1>6. FactsAgree'
  <2> SUFFICES ASSUME NEW i \in DOMAIN facts', NEW j \in DOMAIN facts',
                      facts'[i].status = "committed", facts'[j].status = "committed",
                      facts'[i].mission = facts'[j].mission
               PROVE  facts'[i].text = facts'[j].text
    BY DEF FactsAgree
  <2>1. \A k \in DOMAIN facts' : k = Len(facts) + 1 \/ k \in DOMAIN facts
    BY <1>1, <1>5
  <2>2. CASE i \in DOMAIN facts /\ j \in DOMAIN facts
    <3>1. facts[i].text = facts[j].text
      BY <1>3, <1>5, <2>2 DEF FactsAgree, RetrievalInv
    <3> QED  BY <1>3, <1>5, <2>2, <3>1
  <2>3. CASE i = Len(facts) + 1 /\ j \in DOMAIN facts
    BY <1>2, <1>3, <1>5, <2>3
  <2>4. CASE j = Len(facts) + 1 /\ i \in DOMAIN facts
    BY <1>2, <1>3, <1>5, <2>4
  <2> QED  BY <2>1, <2>2, <2>3, <2>4
<1> QED  BY <1>1, <1>5, <1>6, FactsStayed

\* Clearing facts of the working layer leaves the others as they were.
LEMMA FactsClearedKeeps ==
    ASSUME RetrievalInv, NEW m \in FactMissions, FactsCleared(m)
    PROVE  RetrievalInv'
<1>1. /\ facts' = [i \in DOMAIN facts |-> IF InScope(i, m) /\ facts[i].layer = "working"
                                          THEN [facts[i] EXCEPT !.status = "cleared"] ELSE facts[i]]
      /\ UNCHANGED <<docs, chunks, hashes, pieces, cursor>> /\ facts \in Seq(Facts)
      /\ DOMAIN facts = 1..Len(facts) /\ Len(facts) \in Nat
  BY DEF FactsCleared, RetrievalInv, RetrievalTypeOK
<1>2. \A i \in DOMAIN facts :
                             /\ facts'[i] \in Facts
                             /\ facts'[i] = facts[i] \/ facts'[i].status = "cleared"
  <2> TAKE i \in DOMAIN facts
  <2>1. facts[i] \in Facts
    BY <1>1
  <2>2. CASE facts'[i] = [facts[i] EXCEPT !.status = "cleared"]
    BY <2>1, <2>2 DEF Facts
  <2>3. CASE facts'[i] = facts[i]
    BY <2>1, <2>3
  <2> QED  BY <1>1, <2>2, <2>3
<1>3. facts' \in Seq(Facts) /\ DOMAIN facts' = DOMAIN facts
  <2>0. facts' = [i \in DOMAIN facts |-> facts'[i]]
    BY <1>1
  <2>1. facts' \in [1..Len(facts) -> Facts]
    BY <1>1, <1>2, <2>0
  <2> QED  BY <1>1, <2>1
<1>4. FactsAgree'
  <2> SUFFICES ASSUME NEW i \in DOMAIN facts, NEW j \in DOMAIN facts,
                      facts'[i].status = "committed", facts'[j].status = "committed",
                      facts'[i].mission = facts'[j].mission
               PROVE  facts'[i].text = facts'[j].text
    BY <1>3 DEF FactsAgree
  <2>1. facts'[i] = facts[i] /\ facts'[j] = facts[j]
    BY <1>2
  <2> QED  BY <2>1 DEF RetrievalInv, FactsAgree
<1> QED  BY <1>1, <1>3, <1>4, FactsStayed

\* A document is indexed under its hash once.
LEMMA IndexDocumentKeeps ==
    ASSUME RetrievalInv, NEW text \in FactTexts, NEW m \in FactMissions, NEW layer \in Layers,
           NEW tagged \in BOOLEAN, IndexDocument(text, m, layer, tagged)
    PROVE  RetrievalInv'
<1> DEFINE r == [text |-> text, mission |-> m, layer |-> layer, tagged |-> tagged, held |-> TRUE]
<1>0. PICK n : n = Len(docs) + 1
  OBVIOUS
<1>1. /\ docs' = Append(docs, r) /\ chunks' = chunks \cup {n} /\ hashes' = [hashes EXCEPT ![text] = n]
      /\ UNCHANGED <<facts, pieces, cursor>> /\ hashes[text] = 0
  BY <1>0 DEF IndexDocument, Indexed
<1>2. r \in Documents /\ r.text = text
  BY DEF Documents
<1>3. RetrievalTypeOK /\ DOMAIN docs = 1..Len(docs) /\ Len(docs) \in Nat /\ docs \in Seq(Documents)
  BY DEF RetrievalInv, RetrievalTypeOK
<1> HIDE DEF r
<1>4. /\ docs' \in Seq(Documents) /\ DOMAIN docs' = 1..n /\ n \in Nat /\ n # 0 /\ docs'[n] = r
      /\ \A d \in DOMAIN docs : docs'[d] = docs[d] /\ docs[d].text \in FactTexts /\ d # n
      /\ \A d \in DOMAIN docs' : d = n \/ d \in DOMAIN docs
      /\ n \in DOMAIN docs' /\ DOMAIN docs \subseteq DOMAIN docs'
  <2>1. /\ docs' \in Seq(Documents) /\ DOMAIN docs' = 1..n /\ n \in Nat /\ n # 0 /\ docs'[n] = r
        /\ \A d \in DOMAIN docs : docs'[d] = docs[d] /\ d # n
    BY <1>0, <1>1, <1>2, <1>3
  <2>2. \A d \in DOMAIN docs : docs[d].text \in FactTexts
    <3> TAKE d \in DOMAIN docs
    <3>1. docs[d] \in Documents
      BY <1>3
    <3> QED  BY <3>1 DEF Documents
  <2> QED  BY <1>0, <1>3, <2>1, <2>2
<1>5. /\ hashes' \in [FactTexts -> Nat] /\ hashes'[text] = n
      /\ \A t \in FactTexts : t # text => hashes'[t] = hashes[t]
  BY <1>1, <1>3, <1>4 DEF RetrievalTypeOK
<1>6. RetrievalTypeOK'
  BY <1>1, <1>3, <1>4, <1>5 DEF RetrievalTypeOK
<1>7. \A d \in DOMAIN docs : docs[d].text # text
  BY <1>1, <1>3, <1>4 DEF RetrievalInv, IndexInv
<1>8. IndexInv'
  <2>1. \A d \in DOMAIN docs' : hashes'[docs'[d].text] = d /\ d \in chunks'
    <3> TAKE d \in DOMAIN docs'
    <3>1. CASE d = n
      BY <1>1, <1>2, <1>4, <1>5, <3>1
    <3>2. CASE d \in DOMAIN docs
      BY <1>1, <1>4, <1>5, <1>7, <3>2 DEF RetrievalInv, IndexInv
    <3> QED  BY <1>4, <3>1, <3>2
  <2>2. \A t \in FactTexts : hashes'[t] # 0 => hashes'[t] \in DOMAIN docs' /\ docs'[hashes'[t]].text = t
    <3> TAKE t \in FactTexts
    <3>1. CASE t = text
      BY <1>2, <1>4, <1>5, <3>1
    <3>2. CASE t # text
      BY <1>4, <1>5, <3>2 DEF RetrievalInv, IndexInv
    <3> QED  BY <3>1, <3>2
  <2> QED  BY <2>1, <2>2 DEF IndexInv
<1> QED  BY <1>1, <1>6, <1>8 DEF RetrievalInv, FactsAgree, CutSoFar, ChunksCover

\* Clearing the working layer lets its documents go; their chunks stay in
\* the index.
LEMMA ClearWorkingMemoryKeeps ==
    ASSUME RetrievalInv, ClearWorkingMemory
    PROVE  RetrievalInv'
<1>1. /\ docs' = [d \in DOMAIN docs |-> IF docs[d].layer = "working" THEN [docs[d] EXCEPT !.held = FALSE]
                                        ELSE docs[d]]
      /\ UNCHANGED <<facts, chunks, hashes, pieces, cursor>> /\ docs \in Seq(Documents)
      /\ DOMAIN docs = 1..Len(docs) /\ Len(docs) \in Nat
  BY DEF ClearWorkingMemory, RetrievalInv, RetrievalTypeOK
<1>2. \A d \in DOMAIN docs : docs'[d] \in Documents /\ docs'[d].text = docs[d].text
  <2> TAKE d \in DOMAIN docs
  <2>1. docs[d] \in Documents
    BY <1>1
  <2>2. CASE docs'[d] = [docs[d] EXCEPT !.held = FALSE]
    BY <2>1, <2>2 DEF Documents
  <2>3. CASE docs'[d] = docs[d]
    BY <2>1, <2>3
  <2> QED  BY <1>1, <2>2, <2>3
<1>3. docs' \in Seq(Documents) /\ DOMAIN docs' = DOMAIN docs
  <2>1. docs' \in [1..Len(docs) -> Documents]
    BY <1>1, <1>2
  <2> QED  BY <1>1, <2>1
<1>4. RetrievalTypeOK'
  BY <1>1, <1>3 DEF RetrievalInv, RetrievalTypeOK
<1>5. IndexInv'
  BY <1>1, <1>2, <1>3 DEF RetrievalInv, IndexInv
<1> QED  BY <1>1, <1>4, <1>5 DEF RetrievalInv, FactsAgree, CutSoFar, ChunksCover

\* A chunk ends beyond the overlap with the next, so the next starts later.
LEMMA ChunkMovesOn ==
    ASSUME NEW start \in Nat, NEW length \in Nat, start < length, NEW end \in ChunkEnds(start, length)
    PROVE  /\ end \in Nat /\ start < end /\ end <= length /\ end - start <= ChunkSize
           /\ end < length => start < end - ChunkOverlap
<1>1. CASE start + ChunkSize >= length
  BY <1>1, ChunkAssumption DEF ChunkEnds
<1>2. CASE ~(start + ChunkSize >= length)
  <2>1. PICK half \in Nat : half = ChunkSize \div 2 /\ ChunkSize <= 2 * half + 1
    BY ChunkAssumption
  <2>2. ChunkOverlap <= half
    BY <2>1, ChunkAssumption
  <2>3. start + half + 1 <= end /\ end <= start + ChunkSize /\ end \in Int
    BY <1>2, <2>1, ChunkAssumption DEF ChunkEnds
  <2> QED  BY <1>2, <2>1, <2>2, <2>3, ChunkAssumption
<1> QED  BY <1>1, <1>2

\* The next chunk begins ChunkOverlap before the last one ends, and past
\* where it began.
LEMMA ChunkStepKeeps ==
    ASSUME RetrievalInv, ChunkStep
    PROVE  RetrievalInv'
<1>1. /\ RetrievalTypeOK /\ cursor \in [length : Nat, start : Nat] /\ pieces \in Seq(Nat \X Nat)
      /\ Len(pieces) \in Nat /\ DOMAIN pieces = 1..Len(pieces)
  BY DEF RetrievalInv, RetrievalTypeOK
<1>2. PICK start \in Nat, length \in Nat : start = cursor.start /\ length = cursor.length
  BY <1>1
<1>3. PICK end \in ChunkEnds(start, length) :
         /\ pieces' = Append(pieces, <<start, end>>)
         /\ cursor' = [cursor EXCEPT !.start = IF end < length THEN end - ChunkOverlap ELSE length]
  BY <1>2 DEF ChunkStep
<1>4. start < length /\ UNCHANGED <<facts, docs, chunks, hashes>>
  BY <1>2 DEF ChunkStep
<1>5. /\ end \in Nat /\ start < end /\ end <= length /\ end - start <= ChunkSize
      /\ end < length => start < end - ChunkOverlap
  BY <1>4, ChunkMovesOn
<1>6. PICK next \in Nat : next = (IF end < length THEN end - ChunkOverlap ELSE length) /\ start < next
  BY <1>4, <1>5, ChunkAssumption
<1>7. cursor' \in [length : Nat, start : Nat] /\ cursor'.start = next /\ cursor'.length = length
  BY <1>1, <1>2, <1>3, <1>6
<1>8. /\ pieces' \in Seq(Nat \X Nat) /\ Len(pieces') = Len(pieces) + 1 /\ pieces' # <<>>
      /\ pieces'[Len(pieces) + 1] = <<start, end>>
      /\ \A i \in 1..Len(pieces) : pieces'[i] = pieces[i]
  BY <1>1, <1>3, <1>5
<1>9. RetrievalTypeOK'
  BY <1>1, <1>4, <1>7, <1>8 DEF RetrievalTypeOK
<1>10. pieces = <<>> \/ (pieces # <<>> /\ Len(pieces) \in 1..Len(pieces))
  BY <1>1
<1>11. pieces'[1][1] = 0
  <2>1. CASE pieces = <<>>
    BY <1>2, <1>8, <2>1 DEF RetrievalInv, CutSoFar
  <2>2. CASE pieces # <<>>
    <3>1. 1 \in 1..Len(pieces)
      BY <1>10, <2>2
    <3> QED  BY <1>8, <2>2, <3>1 DEF RetrievalInv, CutSoFar
  <2> QED  BY <2>1, <2>2
<1>12. CutSoFar'
  <2>1. pieces'[Len(pieces')] = <<start, end>>
    BY <1>8
  <2>2. CASE end < length
    <3>1. next = end - ChunkOverlap /\ next # length
      BY <1>5, <1>6, <2>2, ChunkAssumption
    <3> QED  BY <1>6, <1>7, <1>8, <1>11, <2>1, <2>2, <3>1 DEF CutSoFar
  <2>3. CASE ~(end < length)
    <3>1. next = length /\ end = length
      BY <1>5, <1>6, <2>3
    <3> QED  BY <1>6, <1>7, <1>8, <1>11, <2>1, <3>1 DEF CutSoFar
  <2> QED  BY <2>2, <2>3
<1>13. \A i \in DOMAIN pieces' : pieces'[i][2] - pieces'[i][1] <= ChunkSize /\ pieces'[i][1] < pieces'[i][2]
  <2> TAKE i \in DOMAIN pieces'
  <2>1. CASE i = Len(pieces) + 1
    BY <1>5, <1>8, <2>1
  <2>2. CASE i \in 1..Len(pieces)
    BY <1>1, <1>8, <2>2 DEF RetrievalInv, ChunksCover
  <2> QED  BY <1>1, <1>8, <2>1, <2>2
<1>14. \A i \in 1..(Len(pieces') - 1) : pieces'[i][1] < pieces'[i + 1][1] /\ pieces'[i + 1][1] <= pieces'[i][2]
  <2> TAKE i \in 1..(Len(pieces') - 1)
  <2>0. i \in 1..Len(pieces) /\ i \in Nat
    BY <1>1, <1>8
  <2>1. CASE i = Len(pieces)
    <3>1. pieces # <<>> /\ pieces'[i] = pieces[i] /\ pieces'[i + 1] = <<start, end>>
      BY <1>1, <1>8, <2>0, <2>1
    <3>2. pieces[i][1] < start
      BY <1>2, <2>1, <3>1 DEF RetrievalInv, CutSoFar
    <3>3. start = pieces[i][2] - ChunkOverlap
      BY <1>2, <1>4, <2>1, <3>1 DEF RetrievalInv, CutSoFar
    <3>4. pieces[i] \in Nat \X Nat
      BY <1>1, <2>0
    <3> QED  BY <3>1, <3>2, <3>3, <3>4, ChunkAssumption
  <2>2. CASE i # Len(pieces)
    <3>1. i \in 1..(Len(pieces) - 1) /\ i + 1 \in 1..Len(pieces)
      <4>1. PICK n \in Nat : n = Len(pieces)
        BY <1>1
      <4>2. i \in 1..n /\ i # n
        BY <2>0, <2>2, <4>1
      <4>3. i \in 1..(n - 1) /\ i + 1 \in 1..n
        BY <4>1, <4>2
      <4> QED  BY <4>1, <4>3
    <3>2. pieces'[i] = pieces[i] /\ pieces'[i + 1] = pieces[i + 1]
      BY <1>8, <2>0, <3>1
    <3> QED  BY <3>1, <3>2 DEF RetrievalInv, ChunksCover
  <2> QED  BY <2>1, <2>2
<1>15. cursor'.start = cursor'.length => pieces'[Len(pieces')][2] = cursor'.length
  <2>1. pieces'[Len(pieces')] = <<start, end>>
    BY <1>8
  <2>2. next = length => end = length
    BY <1>5, <1>6, ChunkAssumption
  <2> QED  BY <1>7, <2>1, <2>2
<1>16. ChunksCover'
  BY <1>11, <1>13, <1>14, <1>15 DEF ChunksCover
<1> QED  BY <1>4, <1>9, <1>12, <1>16 DEF RetrievalInv, IndexInv, FactsAgree

\* The chunker begins with a new text.
LEMMA ChunkBeginsKeeps ==
    ASSUME RetrievalInv, NEW length \in Nat, ChunkBegins(length)
    PROVE  RetrievalInv'
  BY DEF ChunkBegins, RetrievalInv, RetrievalTypeOK, IndexInv, FactsAgree, CutSoFar, ChunksCover

\* Every step of the index, the facts and the chunker keeps the invariant.
LEMMA RetrievalStep == RetrievalInv /\ [RetrievalNext \/ ChunkNext]_retrievalVars => RetrievalInv'
<1> SUFFICES ASSUME RetrievalInv, [RetrievalNext \/ ChunkNext]_retrievalVars PROVE RetrievalInv'
  OBVIOUS
<1>1. CASE UNCHANGED retrievalVars
  BY <1>1 DEF retrievalVars, RetrievalInv, RetrievalTypeOK, IndexInv, FactsAgree, CutSoFar, ChunksCover
<1>2. ASSUME NEW t \in FactTexts, NEW m \in FactMissions, NEW layer \in Layers,
             FactWrite(t, m, layer) \/ \E tagged \in BOOLEAN : Ingest(t, m, layer, tagged)
      PROVE  RetrievalInv'
  BY <1>2, FactWriteKeeps, IndexDocumentKeeps DEF Ingest
<1>3. ASSUME NEW m \in FactMissions, FactsCleared(m) PROVE RetrievalInv'
  BY <1>3, FactsClearedKeeps
<1>4. ASSUME NEW i \in DOMAIN facts, SyncToRag(i) PROVE RetrievalInv'
  <2>1. facts[i].text \in FactTexts /\ facts[i].mission \in FactMissions
    <3>1. facts \in Seq(Facts)
      BY DEF RetrievalInv, RetrievalTypeOK
    <3>2. facts[i] \in Facts
      BY <3>1
    <3> QED  BY <3>2 DEF Facts
  <2> QED  BY <1>4, <2>1, IndexDocumentKeeps DEF SyncToRag, Layers
<1>5. CASE ClearWorkingMemory
  BY <1>5, ClearWorkingMemoryKeeps
<1>6. CASE ChunkNext
  <2>1. \A n \in 1..MaxLength : n \in Nat
    OBVIOUS
  <2> QED  BY <1>6, <2>1, ChunkStepKeeps, ChunkBeginsKeeps DEF ChunkNext
<1> QED  BY <1>1, <1>2, <1>3, <1>4, <1>5, <1>6 DEF RetrievalNext

\* An empty index satisfies the invariant.
LEMMA RetrievalStarts == RetrievalInit => RetrievalInv
  BY DEF RetrievalInit, RetrievalInv, RetrievalTypeOK, IndexInv, FactsAgree, CutSoFar, ChunksCover

\* The index agrees with the documents, the facts with what was said, and
\* the chunks cover their text (retrieval.py).
THEOREM RetrievalTheorem == RetrievalSpec => []RetrievalSound
<1>1. RetrievalInv => RetrievalSound
  BY SearchScoped, IndexSound, KnowledgeSoundly DEF RetrievalInv, RetrievalSound
<1> QED  BY <1>1, RetrievalStarts, RetrievalStep, PTL DEF RetrievalSpec

------------------------------------------------------------------------------
(* Conversations. *)

\* The steps of a turn that has a message to answer.
Answering == {"admit", "attempt", "model", "reply", "reply-save"}

\* What a client may be doing.
AnyTurn == Turns \cup StatusCalls \cup {NoTurn}

\* A set of at most one member.
OnlyOne(S) == \A i, j \in S : i = j

\* An attempt to answer message m succeeded.
HasSucceeded(m) == \E a \in attempts : a.msg = m /\ a.status = "succeeded"

\* What a turn under way has read is still so: it saves what is listed, its message
\* exists, and without overlap it is the only one to answer it.
TurnGood(t) ==
    /\ t.at \in Underway \cup {"close", "reopen"} => t.snap.ids \subseteq Numbers
    /\ t.at \in Underway => (t.cites => upload = "recorded")
    /\ t.at \in Answering => t.user \in Numbers /\ (t.keyed => t.user \in WithKey)
    /\ ~overlap =>
         /\ t.at \in {"user", "user-save"} /\ t.keyed => WithKey = {}
         /\ t.at \in Answering => RepliesTo(t.user) = {}
         /\ t.at \in {"reply", "reply-save"} => HasSucceeded(t.user)

\* Without overlap one turn is under way at a time.
OneTurn == ~overlap => \A c, d \in ChatClients : turn[c].at \in Underway /\ turn[d].at \in Underway => c = d

\* The conversation lists messages only, and all of them unless a stale copy
\* was saved.
IdsGood == convo.ids \subseteq Numbers /\ (~staleSave => convo.ids = Numbers)

\* A message answers a message, cites what was recorded, and is a reply only
\* after an attempt that succeeded.
MessagesGood ==
    \A m \in Numbers : /\ messages[m].to \in Numbers \cup {0}
                       /\ messages[m].cites => upload = "recorded"
                       /\ messages[m].role = "assistant" => overlap \/ HasSucceeded(messages[m].to)

\* Without overlap a key has one message, a message one reply, and a retry
\* gets that reply.
KeysGood ==
    ~overlap => /\ OnlyOne(WithKey) /\ \A m \in Numbers : OnlyOne(RepliesTo(m))
                /\ \A r \in returned : r \in Numbers /\ messages[r].to \in WithKey

\* Of the missions admitted for one message only the last one is open.
MissionsGood == \A i, j \in DOMAIN missions : i < j /\ missions[i].of = missions[j].of => ~missions[i].open

\* The attempts are finitely many, so the latest one there is can be found.
AttemptsCounted == IsFiniteSet(attempts) /\ \E B \in Nat : \A a \in attempts : a.number <= B

\* The inductive invariant of the conversations.
ConversationInv ==
    /\ ConversationTypeOK /\ \A c \in ChatClients : TurnGood(turn[c])
    /\ OneTurn /\ IdsGood /\ MessagesGood /\ KeysGood /\ MissionsGood /\ AttemptsCounted

------------------------------------------------------------------------------
\* A set of at most one member counts at most one.
LEMMA AtMostOne ==
    ASSUME NEW S, OnlyOne(S)
    PROVE  Cardinality(S) <= 1
<1>1. CASE S = {}
  BY <1>1, FS_EmptySet
<1>2. CASE S # {}
  <2>1. PICK x : S = {x}
    BY <1>2 DEF OnlyOne
  <2>2. Cardinality({x}) = 1
    BY FS_Singleton
  <2> QED  BY <2>1, <2>2
<1> QED  BY <1>1, <1>2

\* The oldest of some messages is one of them, and 0 when there is none.
LEMMA OldestIn ==
    ASSUME ConversationTypeOK, NEW S \in SUBSET Numbers
    PROVE  /\ S # {} => Oldest(S) \in S /\ Oldest(S) # 0
           /\ S = {} => Oldest(S) = 0
<1>1. Numbers = 1..Len(messages) /\ Len(messages) \in Nat
  BY DEF Numbers, ConversationTypeOK
<1>2. S # {} => Min(S) \in S
  BY <1>1, FirstOf
<1>3. \A i \in S : i # 0
  BY <1>1
<1> QED  BY <1>2, <1>3 DEF Oldest

\* The latest of some attempts is one of them.
LEMMA LatestAttempt ==
    ASSUME ConversationTypeOK, AttemptsCounted, NEW S \in SUBSET attempts, S # {}
    PROVE  (CHOOSE a \in S : \A b \in S : b.number <= a.number) \in S
<1>1. PICK B \in Nat : \A a \in attempts : a.number <= B
  BY DEF AttemptsCounted
<1>2. \A a \in S : a.number \in Nat /\ a.number <= B
  BY <1>1 DEF ConversationTypeOK
<1> DEFINE T == {B - a.number : a \in S}
<1>3. T \subseteq Nat /\ T # {}
  BY <1>2
<1>4. PICK l \in T : \A j \in T : ~(<<j, l>> \in OpToRel(<, Nat))
  BY <1>3, NatLessThanWellFounded, WFMin
<1>5. \A j \in T : ~(j < l)
  BY <1>3, <1>4, Zenon DEF OpToRel
<1>6. PICK a \in S : l = B - a.number
  BY <1>4
<1>7. \A b \in S : b.number <= a.number
  <2> TAKE b \in S
  <2>1. ~(B - b.number < B - a.number)
    BY <1>5, <1>6
  <2> QED  BY <1>2, <2>1
<1> QED  BY <1>7

\* What a client is doing is told by where it is.
LEMMA TurnIs ==
    ASSUME ConversationTypeOK, NEW c \in ChatClients
    PROVE  /\ turn[c].at \in Underway => turn[c] \in Turns
           /\ turn[c].at \in {"close", "reopen"} => turn[c] \in StatusCalls
           /\ turn[c] # NoTurn <=> turn[c].at \in Underway \cup {"close", "reopen"}
           /\ turn[c] \in AnyTurn /\ NoTurn.at = "rest" /\ NoTurn \in AnyTurn
           /\ \A t \in Turns : t.at \in Underway
           /\ \A t \in StatusCalls : t.at \in {"close", "reopen"}
  BY DEF ConversationTypeOK, Turns, StatusCalls, NoTurn, Underway, AnyTurn

\* A turn goes on; messages, attempts and the conversation stay.
LEMMA TurnMoves ==
    ASSUME ConversationInv, NEW c \in ChatClients, NEW to \in AnyTurn,
           turn' = [turn EXCEPT ![c] = to], TurnGood(to),
           to.at \in Underway => turn[c].at \in Underway,
           UNCHANGED <<convo, messages, attempts, upload, staleSave, overlap, returned>>,
           missions' \in Seq([of : Nat, open : BOOLEAN]), MissionsGood', begun' \in Nat,
           DOMAIN toolRuns' \subseteq Nat \X Nat, toolRuns' \in [DOMAIN toolRuns' -> {1}]
    PROVE  ConversationInv'
<1>1. ConversationTypeOK'
  BY DEF ConversationInv, ConversationTypeOK, AnyTurn
<1>2. \A d \in ChatClients : turn'[d] = IF d = c THEN to ELSE turn[d]
  BY DEF ConversationInv, ConversationTypeOK
<1>3. Numbers' = Numbers /\ WithKey' = WithKey /\ \A m : RepliesTo(m)' = RepliesTo(m) /\ (HasSucceeded(m)' <=> HasSucceeded(m))
  BY DEF Numbers, WithKey, RepliesTo, HasSucceeded
<1>4. \A d \in ChatClients : TurnGood(turn[d])'
  <2> TAKE d \in ChatClients
  <2>1. PICK t : t = turn'[d] /\ TurnGood(t)
    BY <1>2 DEF ConversationInv
  <2> QED  BY <1>3, <2>1 DEF TurnGood
<1>5. OneTurn'
  BY <1>2 DEF OneTurn, ConversationInv
<1>6. IdsGood' /\ MessagesGood' /\ KeysGood' /\ AttemptsCounted'
  BY <1>3 DEF ConversationInv, IdsGood, MessagesGood, KeysGood, AttemptsCounted
<1> QED  BY <1>1, <1>4, <1>5, <1>6 DEF ConversationInv

------------------------------------------------------------------------------
\* Updating fields of a turn under way.
LEMMA TurnFields ==
    ASSUME NEW t \in Turns, NEW at \in Underway, NEW user \in Nat, NEW snap \in Convos,
           NEW job \in Nat, NEW number \in Nat, NEW round \in Nat, NEW steps \in Nat
    PROVE  /\ LET u == [t EXCEPT !.at = at] IN u \in Turns /\ u = [u EXCEPT !.at = at]
           /\ [t EXCEPT !.at = at, !.user = user] \in Turns
           /\ [t EXCEPT !.at = at, !.snap = snap] \in Turns
           /\ [t EXCEPT !.at = at, !.mission = job] \in Turns
           /\ [t EXCEPT !.at = at, !.number = number] \in Turns
           /\ [t EXCEPT !.round = round, !.steps = steps] \in Turns
  BY DEF Turns

\* A client at rest has read nothing.
LEMMA RestIsGood == TurnGood(NoTurn)
  BY DEF TurnGood, NoTurn, Underway, Answering

\* A client that comes to rest keeps the invariant.
LEMMA RestMoves ==
    ASSUME ConversationInv, NEW c \in ChatClients, turn' = [turn EXCEPT ![c] = NoTurn],
           UNCHANGED <<convo, messages, attempts, missions, toolRuns, upload, staleSave, overlap, returned, begun>>
    PROVE  ConversationInv'
<1>1. NoTurn.at \notin Underway /\ NoTurn \in AnyTurn
  BY DEF NoTurn, Underway, AnyTurn
<1>2. /\ missions' \in Seq([of : Nat, open : BOOLEAN]) /\ MissionsGood' /\ begun' \in Nat
      /\ DOMAIN toolRuns' \subseteq Nat \X Nat /\ toolRuns' \in [DOMAIN toolRuns' -> {1}]
  BY DEF ConversationInv, ConversationTypeOK, MissionsGood
<1> QED  BY <1>1, <1>2, RestIsGood, TurnMoves

\* The same, for turns that leave the missions, the tools and the count of requests.
LEMMA TurnGoesOn ==
    ASSUME ConversationInv, NEW c \in ChatClients, NEW to \in Turns,
           turn' = [turn EXCEPT ![c] = to], TurnGood(to), turn[c].at \in Underway,
           UNCHANGED <<convo, messages, attempts, missions, toolRuns, upload, staleSave, overlap, returned, begun>>
    PROVE  ConversationInv'
<1>2. /\ missions' \in Seq([of : Nat, open : BOOLEAN]) /\ MissionsGood' /\ begun' \in Nat
      /\ DOMAIN toolRuns' \subseteq Nat \X Nat /\ toolRuns' \in [DOMAIN toolRuns' -> {1}]
  BY DEF ConversationInv, ConversationTypeOK, MissionsGood
<1> QED  BY <1>2, TurnMoves DEF AnyTurn

\* What a turn reads of the conversation is what is stored.
LEMMA Snapshot ==
    ASSUME ConversationInv
    PROVE  convo \in Convos /\ convo.ids \subseteq Numbers /\ ConversationTypeOK /\ Numbers \subseteq Nat
           /\ WithKey \in SUBSET Numbers /\ \A m : RepliesTo(m) \in SUBSET Numbers
           /\ Numbers = 1..Len(messages) /\ Len(messages) \in Nat
<1>1. Numbers = 1..Len(messages) /\ Len(messages) \in Nat
  BY DEF Numbers, ConversationInv, ConversationTypeOK
<1> QED  BY <1>1 DEF ConversationInv, ConversationTypeOK, IdsGood, WithKey, RepliesTo

\* A turn reads the conversation before it appends the user's message.
LEMMA UserAppendReadsKeeps ==
    ASSUME ConversationInv, NEW c \in ChatClients, UserAppendReads(c)
    PROVE  ConversationInv'
<1>1. /\ turn[c].at = "user" /\ turn[c].at \in Underway
      /\ UNCHANGED <<convo, messages, attempts, missions, toolRuns, upload, staleSave, overlap, returned, begun>>
  BY DEF UserAppendReads, ChatAt, Underway
<1>2. turn[c] \in Turns /\ TurnGood(turn[c])
  BY <1>1, TurnIs DEF ConversationInv
<1>3. CASE ~MayAppend(convo)
  BY <1>1, <1>3, RestMoves DEF UserAppendReads, Rests
<1>4. CASE MayAppend(convo) /\ turn[c].keyed /\ WithKey # {}
  <2>1. PICK m \in Numbers : m = Oldest(WithKey) /\ m \in WithKey /\ m \in Nat
    BY <1>4, Snapshot, OldestIn
  <2> DEFINE to == [turn[c] EXCEPT !.at = "admit", !.user = m]
  <2>2. turn' = [turn EXCEPT ![c] = to]
    <3>1. turn' = [turn EXCEPT ![c].at = "admit", ![c].user = m]
      BY <1>4, <2>1 DEF UserAppendReads
    <3>2. c \in DOMAIN turn
      BY Snapshot DEF ConversationTypeOK
    <3> QED  BY <3>1, <3>2
  <2>3. to \in Turns /\ to.at = "admit" /\ to.user = m /\ to.snap = turn[c].snap /\ to.cites = turn[c].cites
        /\ to.keyed = turn[c].keyed
    BY <1>2, <2>1 DEF Turns, Underway
  <2> HIDE DEF to
  <2>4. overlap
    BY <1>1, <1>2, <1>4 DEF TurnGood
  <2>5. TurnGood(to)
    BY <1>1, <1>2, <2>1, <2>3, <2>4 DEF TurnGood, Underway
  <2> QED  BY <1>1, <2>2, <2>3, <2>5, TurnGoesOn
<1>5. CASE MayAppend(convo) /\ ~(turn[c].keyed /\ WithKey # {})
  <2> DEFINE to == [turn[c] EXCEPT !.at = "user-save", !.snap = convo]
  <2>2. turn' = [turn EXCEPT ![c] = to]
    <3>1. turn' = [turn EXCEPT ![c].at = "user-save", ![c].snap = convo]
      BY <1>5 DEF UserAppendReads
    <3>2. c \in DOMAIN turn
      BY Snapshot DEF ConversationTypeOK
    <3> QED  BY <3>1, <3>2
  <2>3. to \in Turns /\ to.at = "user-save" /\ to.snap = convo /\ to.cites = turn[c].cites
        /\ to.keyed = turn[c].keyed
    BY <1>2, Snapshot DEF Turns, Underway
  <2> HIDE DEF to
  <2>5. TurnGood(to)
    BY <1>1, <1>2, <1>5, <2>3, Snapshot DEF TurnGood, Underway, Answering
  <2> QED  BY <1>1, <2>2, <2>3, <2>5, TurnGoesOn
<1> QED  BY <1>3, <1>4, <1>5

\* A turn reads the conversation before it appends the reply.
LEMMA ReplyAppendReadsKeeps ==
    ASSUME ConversationInv, NEW c \in ChatClients, ReplyAppendReads(c)
    PROVE  ConversationInv'
<1>1. /\ turn[c].at = "reply" /\ turn[c].at \in Underway
      /\ UNCHANGED <<convo, messages, attempts, missions, toolRuns, upload, staleSave, overlap, returned, begun>>
  BY DEF ReplyAppendReads, ChatAt, Underway
<1>2. turn[c] \in Turns /\ TurnGood(turn[c])
  BY <1>1, TurnIs DEF ConversationInv
<1>3. CASE ~MayAppend(convo)
  BY <1>1, <1>3, RestMoves DEF ReplyAppendReads, Rests
<1>4. CASE MayAppend(convo)
  <2> DEFINE to == [turn[c] EXCEPT !.at = "reply-save", !.snap = convo]
  <2>2. turn' = [turn EXCEPT ![c] = to]
    <3>1. turn' = [turn EXCEPT ![c].at = "reply-save", ![c].snap = convo]
      BY <1>4 DEF ReplyAppendReads
    <3>2. c \in DOMAIN turn
      BY Snapshot DEF ConversationTypeOK
    <3> QED  BY <3>1, <3>2
  <2>3. to \in Turns /\ to.at = "reply-save" /\ to.snap = convo /\ to.cites = turn[c].cites
        /\ to.keyed = turn[c].keyed /\ to.user = turn[c].user
    BY <1>2, Snapshot DEF Turns, Underway
  <2> HIDE DEF to
  <2>5. TurnGood(to)
    BY <1>1, <1>2, <2>3, Snapshot DEF TurnGood, Underway, Answering
  <2> QED  BY <1>1, <2>2, <2>3, <2>5, TurnGoesOn
<1> QED  BY <1>3, <1>4

\* A turn that dies writes nothing more.
LEMMA TurnDiesKeeps ==
    ASSUME ConversationInv, NEW c \in ChatClients, TurnDies(c)
    PROVE  ConversationInv'
  BY RestMoves DEF TurnDies, Rests

\* A known tool runs once under its key; every round is counted.
LEMMA ModelUsesToolKeeps ==
    ASSUME ConversationInv, NEW c \in ChatClients, NEW known \in BOOLEAN, ModelUsesTool(c, known)
    PROVE  ConversationInv'
<1>1. /\ turn[c].at = "model" /\ turn[c].at \in Underway
      /\ UNCHANGED <<convo, messages, attempts, missions, upload, staleSave, overlap, returned, begun>>
  BY DEF ModelUsesTool, ChatAt, Underway
<1>2. turn[c] \in Turns /\ TurnGood(turn[c])
  BY <1>1, TurnIs DEF ConversationInv
<1>3. PICK round \in Nat, steps \in Nat : turn' = [turn EXCEPT ![c].round = round, ![c].steps = steps]
  <2>1. c \in DOMAIN turn
    BY Snapshot DEF ConversationTypeOK
  <2>2. PICK round, steps : round = turn[c].round + 1 /\ steps = IF known THEN turn[c].steps + 1 ELSE turn[c].steps
    OBVIOUS
  <2>3. round \in Nat /\ steps \in Nat
    BY <1>2, <2>2 DEF Turns
  <2>4. turn' = [turn EXCEPT ![c].round = @ + 1, ![c].steps = IF known THEN @ + 1 ELSE @]
    BY DEF ModelUsesTool
  <2>5. turn' = [turn EXCEPT ![c].round = round, ![c].steps = steps]
    BY <1>2, <2>1, <2>2, <2>4 DEF Turns
  <2> QED  BY <2>3, <2>5
<1> DEFINE to == [turn[c] EXCEPT !.round = round, !.steps = steps]
<1>4. turn' = [turn EXCEPT ![c] = to]
  <2>1. c \in DOMAIN turn
    BY Snapshot DEF ConversationTypeOK
  <2> QED  BY <1>3, <2>1
<1>5. to \in Turns /\ to.at = "model" /\ to.snap = turn[c].snap /\ to.cites = turn[c].cites
      /\ to.keyed = turn[c].keyed /\ to.user = turn[c].user
  BY <1>1, <1>2, <1>3 DEF Turns
<1> HIDE DEF to
<1>6. TurnGood(to) /\ to.at \in Underway
  BY <1>1, <1>2, <1>5 DEF TurnGood, Underway, Answering
<1>7. DOMAIN toolRuns' \subseteq Nat \X Nat /\ toolRuns' \in [DOMAIN toolRuns' -> {1}]
  <2>1. PICK key : key = <<turn[c].user, turn[c].steps + 1>>
    OBVIOUS
  <2>2. key \in Nat \X Nat
    BY <1>2, <2>1 DEF Turns
  <2>3. toolRuns' = toolRuns \/ toolRuns' = [k \in DOMAIN toolRuns \cup {key} |-> 1]
    BY <2>1 DEF ModelUsesTool
  <2>4. CASE toolRuns' = toolRuns
    BY <2>4, Snapshot DEF ConversationTypeOK
  <2>5. CASE toolRuns' = [k \in DOMAIN toolRuns \cup {key} |-> 1]
    BY <2>2, <2>5, Snapshot DEF ConversationTypeOK
  <2> QED  BY <2>3, <2>4, <2>5
<1>8. missions' \in Seq([of : Nat, open : BOOLEAN]) /\ MissionsGood' /\ begun' \in Nat
  BY <1>1 DEF ConversationInv, ConversationTypeOK, MissionsGood
<1> QED  BY <1>1, <1>4, <1>5, <1>6, <1>7, <1>8, TurnMoves DEF AnyTurn

\* An upload goes on, or a mission ends.
LEMMA NoTurnMoves ==
    ASSUME ConversationInv,
           UNCHANGED <<convo, messages, attempts, toolRuns, turn, staleSave, overlap, returned, begun>>,
           missions' \in Seq([of : Nat, open : BOOLEAN]), MissionsGood',
           upload' \in {"none", "file", "recorded"}, upload = "recorded" => upload' = "recorded"
    PROVE  ConversationInv'
<1>1. ConversationTypeOK'
  BY DEF ConversationInv, ConversationTypeOK
<1>2. Numbers' = Numbers /\ WithKey' = WithKey /\ \A m : RepliesTo(m)' = RepliesTo(m) /\ (HasSucceeded(m)' <=> HasSucceeded(m))
  BY DEF Numbers, WithKey, RepliesTo, HasSucceeded
<1>3. \A d \in ChatClients : TurnGood(turn[d])'
  <2> TAKE d \in ChatClients
  <2>1. PICK t : t = turn'[d] /\ t = turn[d] /\ TurnGood(t)
    BY DEF ConversationInv
  <2> QED  BY <1>2, <2>1 DEF TurnGood
<1>4. OneTurn' /\ IdsGood' /\ MessagesGood' /\ KeysGood' /\ AttemptsCounted'
  BY <1>2 DEF ConversationInv, OneTurn, IdsGood, MessagesGood, KeysGood, AttemptsCounted
<1> QED  BY <1>1, <1>3, <1>4 DEF ConversationInv

\* An upload that is recorded stays so.
LEMMA UploadKeeps ==
    ASSUME ConversationInv, UploadWrites \/ UploadRecords
    PROVE  ConversationInv'
<1>1. /\ missions' = missions /\ missions \in Seq([of : Nat, open : BOOLEAN]) /\ MissionsGood
      /\ UNCHANGED <<convo, messages, attempts, toolRuns, turn, staleSave, overlap, returned, begun>>
      /\ upload' \in {"file", "recorded"} /\ upload # "recorded"
  BY DEF UploadWrites, UploadRecords, ConversationInv, ConversationTypeOK
<1>2. MissionsGood'
  BY <1>1 DEF MissionsGood
<1> QED  BY <1>1, <1>2, NoTurnMoves

\* A mission that ends is no longer open.
LEMMA MissionEndsKeeps ==
    ASSUME ConversationInv, NEW i \in DOMAIN missions, MissionEnds(i)
    PROVE  ConversationInv'
<1>1. /\ missions' = [missions EXCEPT ![i].open = FALSE] /\ upload' = upload
      /\ missions \in Seq([of : Nat, open : BOOLEAN]) /\ upload \in {"none", "file", "recorded"}
      /\ UNCHANGED <<convo, messages, attempts, toolRuns, turn, staleSave, overlap, returned, begun>>
  BY DEF MissionEnds, ConversationInv, ConversationTypeOK
<1>0. /\ missions \in Seq([of : Nat, open : BOOLEAN]) /\ DOMAIN missions = 1..Len(missions)
      /\ Len(missions) \in Nat
  BY DEF ConversationInv, ConversationTypeOK
<1>2. missions[i] \in [of : Nat, open : BOOLEAN]
  <2>1. \A S : missions \in Seq(S) => missions[i] \in S
    BY <1>0
  <2> QED  BY <1>0, <2>1
<1> DEFINE r == [missions[i] EXCEPT !.open = FALSE]
<1>3. r \in [of : Nat, open : BOOLEAN] /\ r.of = missions[i].of /\ r.open = FALSE
  BY <1>2
<1>4. missions' = [missions EXCEPT ![i] = r]
  BY <1>1
<1> HIDE DEF r
<1>5. missions' \in Seq([of : Nat, open : BOOLEAN]) /\ DOMAIN missions' = DOMAIN missions
  BY <1>0, <1>3, <1>4
<1>6. \A j \in DOMAIN missions : missions'[j] = IF j = i THEN r ELSE missions[j]
  BY <1>1, <1>4
<1>7. MissionsGood'
  BY <1>3, <1>5, <1>6 DEF MissionsGood, ConversationInv
<1> QED  BY <1>1, <1>5, <1>7, NoTurnMoves

\* A mission turn takes the mission admitted for its message before, or
\* appends one.
LEMMA TurnAdmitsKeeps ==
    ASSUME ConversationInv, NEW c \in ChatClients, TurnAdmits(c)
    PROVE  ConversationInv'
<1>1. /\ turn[c].at = "admit" /\ turn[c].at \in Underway /\ ConversationTypeOK
      /\ UNCHANGED <<convo, messages, attempts, toolRuns, upload, staleSave, overlap, returned, begun>>
  BY DEF TurnAdmits, ChatAt, Underway, ConversationInv
<1>2. turn[c] \in Turns /\ TurnGood(turn[c]) /\ c \in DOMAIN turn
  BY <1>1, TurnIs DEF ConversationInv, ConversationTypeOK
<1>3. CASE turn[c].intent # "mission"
  <2> DEFINE to == [turn[c] EXCEPT !.at = "attempt"]
  <2>1. turn' = [turn EXCEPT ![c] = to] /\ missions' = missions
    BY <1>3 DEF TurnAdmits, TurnGoes
  <2>2. to \in Turns /\ to.at = "attempt" /\ to.snap = turn[c].snap /\ to.cites = turn[c].cites
        /\ to.keyed = turn[c].keyed /\ to.user = turn[c].user
    BY <1>2 DEF Turns, Underway
  <2> HIDE DEF to
  <2>3. TurnGood(to)
    BY <1>1, <1>2, <2>2 DEF TurnGood, Underway, Answering
  <2> QED  BY <1>1, <2>1, <2>2, <2>3, TurnGoesOn
<1>4. CASE turn[c].intent = "mission"
  <2>1. PICK found, user : found = AdmittedBefore(turn[c].user) /\ user = turn[c].user
    OBVIOUS
  <2>2. PICK n : n = Len(missions) + 1
    OBVIOUS
  <2>3. /\ missions \in Seq([of : Nat, open : BOOLEAN]) /\ DOMAIN missions = 1..Len(missions)
        /\ Len(missions) \in Nat /\ n \in Nat /\ user \in Nat /\ n # 0
    BY <1>1, <1>2, <2>1, <2>2 DEF ConversationTypeOK, Turns
  <2>4. found \in Nat /\ (found = 0 => \A i \in DOMAIN missions : ~missions[i].open)
    <3> DEFINE mine == {a \in attempts : a.msg = user /\ a.mission # 0}
               open == {i \in DOMAIN missions : missions[i].open}
    <3>1. found = IF mine # {} THEN (CHOOSE a \in mine : \A b \in mine : b.number <= a.number).mission
                  ELSE IF open # {} THEN Max(open) ELSE 0
      BY <2>1 DEF AdmittedBefore
    <3>2. CASE mine # {}
      <4>1. mine \in SUBSET attempts
        OBVIOUS
      <4>2. (CHOOSE a \in mine : \A b \in mine : b.number <= a.number) \in mine
        BY <1>1, <3>2, <4>1, LatestAttempt DEF ConversationInv
      <4>3. \A a \in mine : a.mission \in Nat /\ a.mission # 0
        BY <1>1 DEF ConversationTypeOK
      <4> HIDE DEF mine
      <4>4. found = (CHOOSE a \in mine : \A b \in mine : b.number <= a.number).mission
        BY <3>1, <3>2
      <4> QED  BY <4>2, <4>3, <4>4
    <3>3. CASE mine = {} /\ open # {}
      <4>1. open \in SUBSET (1..Len(missions))
        BY <2>3
      <4> HIDE DEF open
      <4>2. Max(open) \in open
        BY <2>3, <3>3, <4>1, LastOf
      <4>3. found = Max(open)
        BY <3>1, <3>3
      <4>4. found \in 1..Len(missions)
        BY <4>1, <4>2, <4>3
      <4> QED  BY <2>3, <4>4
    <3>4. CASE mine = {} /\ open = {}
      BY <3>1, <3>4
    <3> QED  BY <3>2, <3>3, <3>4
  <2>5. PICK m \in Nat : m = IF found # 0 THEN found ELSE n
    BY <2>3, <2>4
  <2> DEFINE to == [turn[c] EXCEPT !.at = "attempt", !.mission = m]
  <2>6. turn' = [turn EXCEPT ![c] = to]
    <3>1. turn' = [turn EXCEPT ![c].at = "attempt", ![c].mission = m]
      BY <1>4, <2>1, <2>2, <2>5 DEF TurnAdmits
    <3> QED  BY <1>2, <3>1
  <2>7. to \in Turns /\ to.at = "attempt" /\ to.snap = turn[c].snap /\ to.cites = turn[c].cites
        /\ to.keyed = turn[c].keyed /\ to.user = turn[c].user
    BY <1>2 DEF Turns, Underway
  <2> HIDE DEF to
  <2>8. TurnGood(to) /\ to.at \in Underway
    BY <1>1, <1>2, <2>7 DEF TurnGood, Underway, Answering
  <2>9. missions' = IF found # 0 THEN missions ELSE Append(missions, [of |-> user, open |-> TRUE])
    BY <1>4, <2>1 DEF TurnAdmits
  <2>10. missions' \in Seq([of : Nat, open : BOOLEAN]) /\ MissionsGood'
    <3>1. CASE found # 0
      BY <2>3, <2>9, <3>1 DEF MissionsGood, ConversationInv
    <3>2. CASE found = 0
      <4> DEFINE r == [of |-> user, open |-> TRUE]
      <4>1. r \in [of : Nat, open : BOOLEAN] /\ missions' = Append(missions, r)
        BY <2>3, <2>9, <3>2
      <4> HIDE DEF r
      <4>2. /\ missions' \in Seq([of : Nat, open : BOOLEAN]) /\ DOMAIN missions' = 1..n
            /\ \A i \in DOMAIN missions : missions'[i] = missions[i]
        BY <2>2, <2>3, <4>1
      <4>3. \A i, j \in DOMAIN missions' : i < j => i \in DOMAIN missions
        BY <2>2, <2>3, <4>2
      <4> QED  BY <2>4, <3>2, <4>2, <4>3 DEF MissionsGood
    <3> QED  BY <3>1, <3>2
  <2>11. DOMAIN toolRuns' \subseteq Nat \X Nat /\ toolRuns' \in [DOMAIN toolRuns' -> {1}] /\ begun' \in Nat
    BY <1>1 DEF ConversationTypeOK
  <2> QED  BY <1>1, <2>6, <2>7, <2>8, <2>10, <2>11, TurnMoves DEF AnyTurn
<1> QED  BY <1>3, <1>4

------------------------------------------------------------------------------
\* The attempts of a message without a reply change; the turn goes on or rests.
LEMMA AttemptsMove ==
    ASSUME ConversationInv, NEW c \in ChatClients, turn[c].at \in {"attempt", "model"},
           NEW a \in [msg : Nat, number : Nat, mission : Nat, status : {"started", "succeeded", "failed"}],
           NEW n \in Nat, a.msg = turn[c].user, a.number = n,
           attempts' = Others(c, n) \cup {a},
           NEW to \in AnyTurn, turn' = [turn EXCEPT ![c] = to],
           to.at \in Underway => /\ to.at \in {"model", "reply"} /\ to.user = turn[c].user
                                 /\ to.keyed = turn[c].keyed /\ to.snap = turn[c].snap
                                 /\ to.cites = turn[c].cites,
           to.at \notin {"close", "reopen"}, to.at = "reply" => a.status = "succeeded",
           UNCHANGED <<convo, messages, missions, toolRuns, upload, staleSave, overlap, returned, begun>>
    PROVE  ConversationInv'
<1> DEFINE A == [msg : Nat, number : Nat, mission : Nat, status : {"started", "succeeded", "failed"}]
<1>1. ConversationTypeOK /\ AttemptsCounted /\ turn[c] \in Turns /\ TurnGood(turn[c])
  BY TurnIs DEF ConversationInv, Underway
<1>2. Others(c, n) \subseteq attempts /\ attempts' \subseteq A
  BY <1>1 DEF Others, ConversationTypeOK
<1>3. ConversationTypeOK'
  BY <1>1, <1>2 DEF ConversationTypeOK, AnyTurn
<1>4. AttemptsCounted'
  <2>1. IsFiniteSet(attempts')
    BY <1>1, <1>2, FS_Subset, FS_AddElement DEF AttemptsCounted
  <2>2. PICK B \in Nat : \A b \in attempts : b.number <= B
    BY <1>1 DEF AttemptsCounted
  <2>3. B + n \in Nat /\ \A b \in attempts' : b.number <= B + n
    <3>1. \A b \in attempts : b.number \in Nat
      BY <1>1 DEF ConversationTypeOK
    <3>2. \A b \in Others(c, n) : b.number <= B + n
      BY <1>2, <2>2, <3>1
    <3> QED  BY <3>2
  <2> QED  BY <2>1, <2>3 DEF AttemptsCounted
<1>5. \A m : m # turn[c].user => (HasSucceeded(m)' <=> HasSucceeded(m))
  BY DEF HasSucceeded, Others
<1>6. Numbers' = Numbers /\ WithKey' = WithKey /\ \A m : RepliesTo(m)' = RepliesTo(m)
  BY DEF Numbers, WithKey, RepliesTo
<1>7. \A d \in ChatClients : turn'[d] = IF d = c THEN to ELSE turn[d]
  BY <1>1 DEF ConversationTypeOK
<1>8. ~overlap => RepliesTo(turn[c].user) = {} /\ \A d \in ChatClients : turn[d].at \in Underway => d = c
  BY <1>1 DEF TurnGood, Answering, ConversationInv, OneTurn, Underway
<1>9. \A d \in ChatClients : TurnGood(turn[d])'
  <2> TAKE d \in ChatClients
  <2>0. PICK t : t = turn'[d]
    OBVIOUS
  <2>1. CASE d = c
    <3>1. t = to
      BY <1>7, <2>0, <2>1
    <3>2. t.at \in Underway => /\ t.user \in Numbers /\ (t.keyed => t.user \in WithKey)
                               /\ t.snap.ids \subseteq Numbers /\ (t.cites => upload = "recorded")
      BY <1>1, <3>1 DEF TurnGood, Underway, Answering
    <3>3. t.at = "reply" => HasSucceeded(t.user)'
      BY <3>1 DEF HasSucceeded, Underway
    <3>4. t.at \in Underway => t.at \in {"model", "reply"} /\ t.user = turn[c].user
      BY <3>1
    <3> QED  BY <1>6, <1>8, <2>0, <3>1, <3>2, <3>3, <3>4 DEF TurnGood, Underway, Answering
  <2>2. CASE d # c
    <3>1. t = turn[d] /\ TurnGood(t)
      BY <1>7, <2>0, <2>2 DEF ConversationInv
    <3>2. ~overlap => t.at \notin Underway
      BY <1>8, <2>2, <3>1
    <3> QED  BY <1>6, <2>0, <3>1, <3>2 DEF TurnGood, Underway, Answering
  <2> QED  BY <2>1, <2>2
<1>10. OneTurn'
  BY <1>7 DEF OneTurn, ConversationInv, Underway
<1>11. MessagesGood'
  <2> SUFFICES ASSUME NEW m \in Numbers, messages[m].role = "assistant", ~overlap
               PROVE  HasSucceeded(messages[m].to)'
    BY <1>6 DEF MessagesGood, ConversationInv
  <2>1. HasSucceeded(messages[m].to)
    BY DEF MessagesGood, ConversationInv
  <2>2. messages[m].to # turn[c].user
    BY <1>8 DEF RepliesTo
  <2> QED  BY <1>5, <2>1, <2>2
<1>12. IdsGood' /\ KeysGood' /\ MissionsGood'
  BY <1>6 DEF ConversationInv, IdsGood, KeysGood, MissionsGood
<1> QED  BY <1>3, <1>4, <1>9, <1>10, <1>11, <1>12 DEF ConversationInv

\* The record of an attempt.
LEMMA AttemptIs ==
    ASSUME NEW c, turn[c] \in Turns, NEW n \in Nat, NEW st \in {"started", "succeeded", "failed"}
    PROVE  /\ Attempt(c, n, st) \in [msg : Nat, number : Nat, mission : Nat, status : {"started", "succeeded", "failed"}]
           /\ Attempt(c, n, st).msg = turn[c].user /\ Attempt(c, n, st).number = n
           /\ Attempt(c, n, st).status = st
  BY DEF Attempt, Turns

\* An attempt is recorded before the model is asked.
LEMMA AttemptStartsKeeps ==
    ASSUME ConversationInv, NEW c \in ChatClients, AttemptStarts(c)
    PROVE  ConversationInv'
<1>1. /\ turn[c].at = "attempt" /\ turn[c].at \in Underway /\ ConversationTypeOK
      /\ UNCHANGED <<convo, messages, missions, toolRuns, upload, staleSave, overlap, returned, begun>>
  BY DEF AttemptStarts, ChatAt, Underway, ConversationInv
<1>2. turn[c] \in Turns /\ c \in DOMAIN turn
  BY <1>1, TurnIs DEF ConversationTypeOK
<1>3. PICK n \in Nat : n = Cardinality({a \in attempts : a.msg = turn[c].user}) + 1
  <2>1. {a \in attempts : a.msg = turn[c].user} \in SUBSET attempts
    OBVIOUS
  <2>2. Cardinality({a \in attempts : a.msg = turn[c].user}) \in Nat
    BY <2>1, FS_Subset, FS_CardinalityType DEF ConversationInv, AttemptsCounted
  <2>3. PICK k : k = Cardinality({a \in attempts : a.msg = turn[c].user})
    OBVIOUS
  <2>4. k + 1 \in Nat
    BY <2>2, <2>3
  <2> QED  BY <2>3, <2>4, Zenon
<1>3a. attempts' = Others(c, n) \cup {Attempt(c, n, "started")}
  BY <1>3 DEF AttemptStarts
<1>3b. turn' = [turn EXCEPT ![c].at = "model", ![c].number = n]
  BY <1>3 DEF AttemptStarts
<1> DEFINE to == [turn[c] EXCEPT !.at = "model", !.number = n]
<1>4. turn' = [turn EXCEPT ![c] = to]
  BY <1>2, <1>3b
<1>5. to \in Turns /\ to.at = "model" /\ to.snap = turn[c].snap /\ to.cites = turn[c].cites
      /\ to.keyed = turn[c].keyed /\ to.user = turn[c].user
  BY <1>2, <1>3 DEF Turns, Underway
<1> HIDE DEF to
<1>6. /\ Attempt(c, n, "started") \in [msg : Nat, number : Nat, mission : Nat, status : {"started", "succeeded", "failed"}]
      /\ Attempt(c, n, "started").msg = turn[c].user /\ Attempt(c, n, "started").number = n
  BY <1>2, <1>3, AttemptIs
<1>7. to \in AnyTurn
  BY <1>5 DEF AnyTurn
<1>8. to.at \notin {"close", "reopen", "reply"} /\ turn[c].at \in {"attempt", "model"}
  BY <1>1, <1>5
<1> QED  BY <1>1, <1>3a, <1>4, <1>5, <1>6, <1>7, <1>8, AttemptsMove

\* The model answers: the attempt succeeded.
LEMMA ModelAnswersKeeps ==
    ASSUME ConversationInv, NEW c \in ChatClients, ModelAnswers(c)
    PROVE  ConversationInv'
<1>1. /\ turn[c].at = "model" /\ turn[c].at \in Underway /\ ConversationTypeOK
      /\ UNCHANGED <<convo, messages, missions, toolRuns, upload, staleSave, overlap, returned, begun>>
      /\ turn' = [turn EXCEPT ![c].at = "reply"]
  BY DEF ModelAnswers, ChatAt, Underway, ConversationInv, TurnGoes
<1>2. turn[c] \in Turns /\ c \in DOMAIN turn /\ turn[c].number \in Nat
  BY <1>1, TurnIs DEF ConversationTypeOK, Turns
<1>3. PICK n \in Nat : n = turn[c].number /\ attempts' = Others(c, n) \cup {Attempt(c, n, "succeeded")}
  BY <1>2 DEF ModelAnswers
<1> DEFINE to == [turn[c] EXCEPT !.at = "reply"]
<1>4. turn' = [turn EXCEPT ![c] = to]
  BY <1>1
<1>5. to \in Turns /\ to.at = "reply" /\ to.snap = turn[c].snap /\ to.cites = turn[c].cites
      /\ to.keyed = turn[c].keyed /\ to.user = turn[c].user
  BY <1>2 DEF Turns, Underway
<1> HIDE DEF to
<1>6. /\ Attempt(c, n, "succeeded") \in [msg : Nat, number : Nat, mission : Nat, status : {"started", "succeeded", "failed"}]
      /\ Attempt(c, n, "succeeded").msg = turn[c].user /\ Attempt(c, n, "succeeded").number = n
      /\ Attempt(c, n, "succeeded").status = "succeeded"
  BY <1>2, <1>3, AttemptIs
<1>7. to \in AnyTurn
  BY <1>5 DEF AnyTurn
<1>8. to.at \notin {"close", "reopen"} /\ turn[c].at \in {"attempt", "model"}
  BY <1>1, <1>5
<1>9. attempts' = Others(c, n) \cup {Attempt(c, n, "succeeded")}
  BY <1>3
<1>10. UNCHANGED <<convo, messages, missions, toolRuns, upload, staleSave, overlap, returned, begun>>
  BY <1>1
<1>11. to.at = "reply" => Attempt(c, n, "succeeded").status = "succeeded"
  BY <1>6
<1>12. /\ turn[c].at \in {"attempt", "model"}
       /\ to.at \in Underway => /\ to.at \in {"model", "reply"} /\ to.user = turn[c].user
                                /\ to.keyed = turn[c].keyed /\ to.snap = turn[c].snap
                                /\ to.cites = turn[c].cites
  BY <1>5, <1>8
<1> QED  BY <1>4, <1>6, <1>7, <1>8, <1>9, <1>10, <1>11, <1>12, AttemptsMove

\* The model fails: the attempt is recorded as failed.
LEMMA ModelFailsKeeps ==
    ASSUME ConversationInv, NEW c \in ChatClients, ModelFails(c)
    PROVE  ConversationInv'
<1>1. /\ turn[c].at = "model" /\ turn[c].at \in Underway
      /\ UNCHANGED <<convo, messages, missions, toolRuns, upload, staleSave, overlap, returned, begun>>
      /\ turn' = [turn EXCEPT ![c] = NoTurn] /\ ConversationTypeOK
  BY DEF ModelFails, ChatAt, Underway, Rests, ConversationInv
<1>2. turn[c] \in Turns /\ turn[c].number \in Nat
  BY <1>1, TurnIs DEF Turns
<1>3. PICK n \in Nat : n = turn[c].number /\ attempts' = Others(c, n) \cup {Attempt(c, n, "failed")}
  BY <1>2 DEF ModelFails
<1>4. /\ Attempt(c, n, "failed") \in [msg : Nat, number : Nat, mission : Nat, status : {"started", "succeeded", "failed"}]
      /\ Attempt(c, n, "failed").msg = turn[c].user /\ Attempt(c, n, "failed").number = n
  BY <1>2, <1>3, AttemptIs
<1>5. NoTurn \in AnyTurn /\ NoTurn.at \notin Underway /\ NoTurn.at \notin {"close", "reopen", "reply"}
  BY DEF NoTurn, AnyTurn, Underway
<1> QED  BY <1>1, <1>3, <1>4, <1>5, AttemptsMove

------------------------------------------------------------------------------
\* Closing and reopening read the conversation they will write back.
LEMMA StatusReadsKeeps ==
    ASSUME ConversationInv, NEW c \in ChatClients, NEW op \in {"close", "reopen"}, StatusReads(c, op)
    PROVE  ConversationInv'
<1> DEFINE to == [at |-> op, snap |-> convo]
<1>1. /\ turn' = [turn EXCEPT ![c] = to] /\ begun' = begun + 1
      /\ UNCHANGED <<convo, messages, attempts, missions, toolRuns, upload, staleSave, overlap, returned>>
  BY DEF StatusReads, Start
<1>2. to \in StatusCalls /\ to.at = op /\ to.snap = convo
  BY Snapshot DEF StatusCalls
<1> HIDE DEF to
<1>3. TurnGood(to) /\ to.at \notin Underway
  BY <1>2, Snapshot DEF TurnGood, Underway, Answering
<1>4. /\ missions' \in Seq([of : Nat, open : BOOLEAN]) /\ MissionsGood' /\ begun' \in Nat
      /\ DOMAIN toolRuns' \subseteq Nat \X Nat /\ toolRuns' \in [DOMAIN toolRuns' -> {1}]
  BY <1>1 DEF ConversationInv, ConversationTypeOK, MissionsGood
<1> QED  BY <1>1, <1>2, <1>3, <1>4, TurnMoves DEF AnyTurn

\* The copy read is written back with another status, and noted when stale.
LEMMA StatusSavesKeeps ==
    ASSUME ConversationInv, NEW c \in ChatClients, StatusSaves(c)
    PROVE  ConversationInv'
<1>1. /\ turn[c].at \in {"close", "reopen"} /\ turn' = [turn EXCEPT ![c] = NoTurn] /\ ConversationTypeOK
      /\ staleSave' = (staleSave \/ turn[c].snap # convo)
      /\ UNCHANGED <<messages, attempts, missions, toolRuns, upload, overlap, returned, begun>>
  BY DEF StatusSaves, Rests, ConversationInv
<1>2. turn[c] \in StatusCalls /\ TurnGood(turn[c])
  BY <1>1, TurnIs DEF ConversationInv
<1>3. turn[c].snap \in Convos /\ turn[c].snap.ids \subseteq Numbers
  BY <1>1, <1>2 DEF StatusCalls, TurnGood
<1>4. PICK st \in {"open", "closed"} : convo' = [turn[c].snap EXCEPT !.status = st]
  BY DEF StatusSaves
<1>5. convo' \in Convos /\ convo'.ids = turn[c].snap.ids
  BY <1>3, <1>4 DEF Convos
<1>6. \A d \in ChatClients : turn'[d] = IF d = c THEN NoTurn ELSE turn[d]
  BY <1>1 DEF ConversationTypeOK
<1>7. ConversationTypeOK'
  BY <1>1, <1>5 DEF ConversationTypeOK
<1>8. Numbers' = Numbers /\ WithKey' = WithKey /\ \A m : RepliesTo(m)' = RepliesTo(m) /\ (HasSucceeded(m)' <=> HasSucceeded(m))
  BY <1>1 DEF Numbers, WithKey, RepliesTo, HasSucceeded
<1>9. IdsGood'
  BY <1>1, <1>3, <1>5, <1>8 DEF IdsGood, ConversationInv, ConversationTypeOK
<1>10. \A d \in ChatClients : TurnGood(turn[d])'
  <2> TAKE d \in ChatClients
  <2>1. PICK t : t = turn'[d] /\ TurnGood(t)
    BY <1>6, RestIsGood DEF ConversationInv
  <2> QED  BY <1>1, <1>8, <2>1 DEF TurnGood
<1>11. OneTurn'
  BY <1>1, <1>6, TurnIs DEF OneTurn, ConversationInv, Underway
<1>12. MessagesGood' /\ KeysGood' /\ MissionsGood' /\ AttemptsCounted'
  BY <1>1, <1>8 DEF ConversationInv, MessagesGood, KeysGood, MissionsGood, AttemptsCounted
<1> QED  BY <1>7, <1>9, <1>10, <1>11, <1>12 DEF ConversationInv

\* A turn looks up its key: a known one that has a reply is answered with
\* it, any other goes on from where it was left.
LEMMA TurnLooksKeeps ==
    ASSUME ConversationInv, NEW c \in ChatClients, NEW intent \in {"chat", "mission"},
           NEW keyed \in BOOLEAN, NEW cites \in BOOLEAN, TurnLooks(c, intent, keyed, cites)
    PROVE  ConversationInv'
<1>1. PICK user, reply :
        /\ user = IF keyed THEN Oldest(WithKey) ELSE 0
        /\ reply = IF user = 0 THEN 0 ELSE Oldest(RepliesTo(user))
  OBVIOUS
<1>2. /\ overlap' = (overlap \/ \E d \in ChatClients : Working(d) /\ turn[d].at \notin {"close", "reopen"})
      /\ cites => upload = "recorded"
      /\ UNCHANGED <<convo, messages, attempts, missions, toolRuns, staleSave, upload>>
      /\ ConversationTypeOK
  BY DEF TurnLooks, Resolved, ConversationInv
<1>3. /\ user # 0 => user \in WithKey /\ user \in Numbers
      /\ user = 0 /\ keyed => WithKey = {}
      /\ user \in Nat
  BY <1>1, <1>2, Snapshot, OldestIn
<1>4. /\ reply # 0 => reply \in RepliesTo(user) /\ user # 0
      /\ reply = 0 /\ user # 0 => RepliesTo(user) = {}
      /\ reply \in Nat
  BY <1>1, <1>2, Snapshot, OldestIn
<1>5. Numbers' = Numbers /\ WithKey' = WithKey /\ \A m : RepliesTo(m)' = RepliesTo(m) /\ (HasSucceeded(m)' <=> HasSucceeded(m))
  BY <1>2 DEF Numbers, WithKey, RepliesTo, HasSucceeded
<1>6. /\ IdsGood' /\ MissionsGood' /\ AttemptsCounted' /\ (overlap => overlap') /\ overlap' \in BOOLEAN
      /\ ~overlap' => \A d \in ChatClients : turn[d].at \notin Underway
  <2>1. \A d \in ChatClients : turn[d].at \in Underway => Working(d) /\ turn[d].at \notin {"close", "reopen"}
    BY <1>2, TurnIs DEF Working, Underway
  <2> QED  BY <1>2, <1>5, <2>1 DEF ConversationInv, ConversationTypeOK, IdsGood, MissionsGood, AttemptsCounted
<1>7. MessagesGood'
  BY <1>2, <1>5, <1>6 DEF MessagesGood, ConversationInv
<1>8. CASE reply # 0
  <2>1. returned' = returned \cup {reply} /\ turn' = turn /\ begun' = begun + 1
    BY <1>1, <1>8 DEF TurnLooks
  <2>2. ConversationTypeOK'
    BY <1>2, <1>4, <1>6, <2>1 DEF ConversationTypeOK
  <2>3. reply \in Numbers /\ messages[reply].to \in WithKey
    BY <1>3, <1>4, <1>8 DEF RepliesTo
  <2>4. KeysGood'
    BY <1>2, <1>5, <1>6, <2>1, <2>3 DEF KeysGood, ConversationInv, OnlyOne
  <2>5. \A d \in ChatClients : TurnGood(turn[d])'
    <3> TAKE d \in ChatClients
    <3>1. PICK t : t = turn'[d] /\ TurnGood(t)
      BY <2>1 DEF ConversationInv
    <3> QED  BY <1>2, <1>5, <1>6, <3>1 DEF TurnGood
  <2>6. OneTurn'
    BY <1>6, <2>1 DEF OneTurn, ConversationInv
  <2> QED  BY <1>6, <1>7, <2>2, <2>4, <2>5, <2>6 DEF ConversationInv
<1>9. CASE reply = 0
  <2>1. PICK i \in {"chat", "mission"} : i = IF user = 0 THEN intent ELSE messages[user].intent
    <3>1. user # 0 => messages[user].intent \in {"chat", "mission"}
      <4>1. \A m \in Numbers : messages[m] \in Messages
        BY <1>2 DEF Numbers, ConversationTypeOK
      <4> QED  BY <1>3, <4>1 DEF Messages
    <3> QED  BY <3>1
  <2>t. PICK to : to = [at |-> IF user = 0 THEN "user" ELSE "admit", user |-> user, keyed |-> keyed,
                        intent |-> i, cites |-> cites,
                        snap |-> convo, mission |-> 0, number |-> 0, steps |-> 0, round |-> 0]
    OBVIOUS
  <2>2. /\ ~Working(c) /\ turn' = [turn EXCEPT ![c] = to] /\ begun' = begun + 1 /\ returned' = returned
    BY <1>1, <1>9, <2>1, <2>t DEF TurnLooks, Start
  <2>3. /\ to \in Turns /\ to.at = (IF user = 0 THEN "user" ELSE "admit") /\ to.user = user
        /\ to.keyed = keyed /\ to.cites = cites /\ to.snap = convo
    BY <1>2, <1>3, <2>t DEF Turns, Underway, ConversationTypeOK
  <2>4. TurnGood(to)'
    <3>1. to.snap.ids \subseteq Numbers /\ (to.cites => upload = "recorded")
      BY <1>2, <2>3, Snapshot
    <3>2. to.at \in Answering => to.user \in WithKey /\ to.user \in Numbers
      BY <1>3, <2>3 DEF Answering
    <3>3. to.at \in {"user", "user-save"} /\ to.keyed => WithKey = {}
      BY <1>3, <2>3
    <3>4. to.at \in Answering => RepliesTo(to.user) = {}
      BY <1>4, <1>9, <2>3 DEF Answering
    <3>5. to.at \notin {"reply", "reply-save"}
      BY <2>3
    <3> QED  BY <1>2, <1>5, <3>1, <3>2, <3>3, <3>4, <3>5 DEF TurnGood
  <2>5. \A d \in ChatClients : turn'[d] = IF d = c THEN to ELSE turn[d]
    BY <1>2, <2>2 DEF ConversationTypeOK
  <2>6. ConversationTypeOK'
    BY <1>2, <1>6, <2>2, <2>3 DEF ConversationTypeOK
  <2>7. \A d \in ChatClients : TurnGood(turn[d])'
    <3> TAKE d \in ChatClients
    <3>1. CASE d = c
      BY <2>4, <2>5, <3>1 DEF TurnGood
    <3>2. CASE d # c
      <4>1. PICK t : t = turn'[d] /\ TurnGood(t)
        BY <2>5, <3>2 DEF ConversationInv
      <4> QED  BY <1>2, <1>5, <1>6, <4>1 DEF TurnGood
    <3> QED  BY <3>1, <3>2
  <2>8. OneTurn'
    BY <1>6, <2>5 DEF OneTurn
  <2>9. KeysGood'
    BY <1>2, <1>5, <1>6, <2>2 DEF KeysGood, ConversationInv
  <2> QED  BY <1>6, <1>7, <2>6, <2>7, <2>8, <2>9 DEF ConversationInv
<1> QED  BY <1>8, <1>9

------------------------------------------------------------------------------
\* A message is saved, and with it the conversation as the turn read it.
LEMMA MessageAdded ==
    ASSUME ConversationInv, NEW c \in ChatClients, turn[c] \in Turns,
           NEW msg \in Messages, Bundle(c, msg)
    PROVE  /\ messages' \in Seq(Messages) /\ convo' \in Convos /\ staleSave' \in BOOLEAN
           /\ Numbers' = Numbers \cup {Len(messages) + 1} /\ Len(messages) + 1 \notin Numbers
           /\ Len(messages) + 1 \in Nat
           /\ \A m \in Numbers : messages'[m] = messages[m]
           /\ messages'[Len(messages) + 1] = msg
           /\ WithKey' = WithKey \cup (IF msg.keyed THEN {Len(messages) + 1} ELSE {})
           /\ \A m : RepliesTo(m)' = RepliesTo(m) \cup (IF msg.to = m THEN {Len(messages) + 1} ELSE {})
           /\ IdsGood'
<1>1. /\ messages \in Seq(Messages) /\ messages' = Append(messages, msg) /\ Numbers = 1..Len(messages)
      /\ Len(messages) \in Nat
  BY Snapshot DEF Bundle, ConversationTypeOK
<1>2. PICK n \in Nat : n = Len(messages) + 1
  BY <1>1
<1>3. /\ messages' \in Seq(Messages) /\ Len(messages') = n /\ messages'[n] = msg
      /\ \A m \in 1..Len(messages) : messages'[m] = messages[m]
  BY <1>1, <1>2
<1>4. Numbers' = 1..n /\ Numbers' = Numbers \cup {n} /\ n \notin Numbers
  <2>1. Numbers' = 1..n
    BY <1>3 DEF Numbers
  <2> QED  BY <1>1, <1>2, <2>1
<1>5. /\ turn[c].snap \in Convos /\ turn[c].at \in Underway /\ TurnGood(turn[c])
  BY DEF Turns, ConversationInv
<1>6. /\ turn[c].snap.ids \subseteq Numbers
      /\ convo' = [turn[c].snap EXCEPT !.ids = @ \cup {n}] /\ staleSave' = (staleSave \/ turn[c].snap # convo)
  BY <1>2, <1>5 DEF TurnGood, Bundle
<1>7. convo' \in Convos /\ convo'.ids = turn[c].snap.ids \cup {n}
  BY <1>5, <1>6 DEF Convos
<1>8. IdsGood'
  BY <1>4, <1>6, <1>7 DEF IdsGood, ConversationInv
<1>9. staleSave' \in BOOLEAN
  BY <1>6 DEF ConversationInv, ConversationTypeOK
<1>10. WithKey' = WithKey \cup (IF msg.keyed THEN {n} ELSE {})
  BY <1>1, <1>3, <1>4 DEF WithKey
<1>11. ASSUME NEW m
       PROVE  RepliesTo(m)' = RepliesTo(m) \cup (IF msg.to = m THEN {n} ELSE {})
  BY <1>1, <1>3, <1>4 DEF RepliesTo
<1> QED  BY <1>1, <1>2, <1>3, <1>4, <1>7, <1>8, <1>9, <1>10, <1>11

\* The others' turns stay as good as they were, and nothing but the messages changes.
LEMMA OthersAfterMessage ==
    ASSUME ConversationInv, NEW c \in ChatClients, turn[c] \in Turns,
           NEW msg \in Messages, Bundle(c, msg),
           UNCHANGED <<attempts, missions, toolRuns, overlap, begun, upload>>
    PROVE  /\ MissionsGood' /\ AttemptsCounted' /\ \A m : HasSucceeded(m)' <=> HasSucceeded(m)
           /\ \A d \in ChatClients \ {c} : turn'[d] = turn[d] => TurnGood(turn[d])'
<1>1. ASSUME NEW d \in ChatClients \ {c}, turn'[d] = turn[d]
      PROVE  TurnGood(turn[d])'
  <2>1. PICK t : t = turn'[d] /\ TurnGood(t)
    BY <1>1 DEF ConversationInv
  <2>2. ~overlap => t.at \notin Underway
    BY <1>1, <2>1, TurnIs DEF OneTurn, ConversationInv
  <2>3. Numbers \subseteq Numbers' /\ WithKey \subseteq WithKey'
    BY MessageAdded
  <2>4. ~overlap => t.at \notin {"user", "user-save"} /\ t.at \notin Answering
    BY <2>2 DEF Underway, Answering
  <2>5. {"reply", "reply-save"} \subseteq Answering
    BY DEF Answering
  <2> QED  BY <2>1, <2>3, <2>4, <2>5 DEF TurnGood
<1> QED  BY <1>1 DEF HasSucceeded, MissionsGood, AttemptsCounted, ConversationInv

\* A turn appends the user's message, and saves the copy it read with it.
LEMMA TurnAppendsUserKeeps ==
    ASSUME ConversationInv, NEW c \in ChatClients, TurnAppendsUser(c)
    PROVE  ConversationInv'
<1>1. /\ turn[c].at = "user-save" /\ turn[c].at \in Underway /\ ConversationTypeOK
      /\ UNCHANGED <<attempts, missions, toolRuns, returned, overlap, begun, upload>>
  BY DEF TurnAppendsUser, ChatAt, Underway, ConversationInv
<1>2. turn[c] \in Turns /\ TurnGood(turn[c]) /\ c \in DOMAIN turn
  BY <1>1, TurnIs DEF ConversationTypeOK, ConversationInv
<1>3. PICK msg : msg = [role |-> "user", keyed |-> turn[c].keyed, to |-> 0, intent |-> turn[c].intent,
                        cites |-> turn[c].cites]
  OBVIOUS
<1>4. /\ msg \in Messages /\ msg.keyed = turn[c].keyed /\ msg.to = 0 /\ msg.cites = turn[c].cites
      /\ msg.role = "user" /\ Bundle(c, msg)
  BY <1>2, <1>3 DEF Messages, Turns, TurnAppendsUser
<1>5. PICK n : n = Len(messages) + 1
  OBVIOUS
<1>6. PICK to : to = [turn[c] EXCEPT !.at = "admit", !.user = n]
  OBVIOUS
<1>7. n \in Nat /\ Numbers' = Numbers \cup {n} /\ n \notin Numbers /\ n # 0 /\ 0 \notin Numbers
  BY <1>2, <1>4, <1>5, MessageAdded, Snapshot
<1>8. turn' = [turn EXCEPT ![c] = to]
  BY <1>2, <1>5, <1>6 DEF TurnAppendsUser
<1>9. /\ to \in Turns /\ to.at = "admit" /\ to.user = n /\ to.keyed = turn[c].keyed
      /\ to.cites = turn[c].cites /\ to.snap = turn[c].snap
  BY <1>2, <1>6, <1>7 DEF Turns, Underway
<1>10. /\ messages' \in Seq(Messages) /\ convo' \in Convos /\ staleSave' \in BOOLEAN /\ IdsGood'
       /\ \A m \in Numbers : messages'[m] = messages[m]
       /\ messages'[n] = msg
       /\ WithKey' = WithKey \cup (IF msg.keyed THEN {n} ELSE {})
  BY <1>2, <1>4, <1>5, MessageAdded
<1>11. \A m : RepliesTo(m)' = RepliesTo(m) \cup (IF msg.to = m THEN {n} ELSE {})
  BY <1>2, <1>4, <1>5, MessageAdded
<1>12. /\ MissionsGood' /\ AttemptsCounted' /\ \A m : HasSucceeded(m)' <=> HasSucceeded(m)
       /\ \A d \in ChatClients \ {c} : turn'[d] = turn[d] => TurnGood(turn[d])'
  BY <1>1, <1>2, <1>4, OthersAfterMessage
<1>13. \A d \in ChatClients : turn'[d] = IF d = c THEN to ELSE turn[d]
  BY <1>1, <1>8 DEF ConversationTypeOK
<1>14. ConversationTypeOK'
  BY <1>1, <1>8, <1>9, <1>10 DEF ConversationTypeOK
<1>15. \A m \in Numbers : messages[m].to # n
  BY <1>7 DEF MessagesGood, ConversationInv
<1>16. \A m \in Numbers : RepliesTo(m)' = RepliesTo(m)
  BY <1>4, <1>7, <1>11
<1>17. RepliesTo(n)' = {}
  <2>1. RepliesTo(n) = {}
    BY <1>15 DEF RepliesTo
  <2> QED  BY <1>4, <1>7, <1>11, <2>1
<1>18. TurnGood(to)'
  <2>1. to.snap.ids \subseteq Numbers' /\ (to.cites => upload = "recorded")
    BY <1>1, <1>2, <1>7, <1>9 DEF TurnGood
  <2>2. to.user \in Numbers' /\ (to.keyed => to.user \in WithKey')
    BY <1>4, <1>7, <1>9, <1>10
  <2> QED  BY <1>1, <1>9, <1>17, <2>1, <2>2 DEF TurnGood
<1>19. \A d \in ChatClients : TurnGood(turn[d])'
  <2> TAKE d \in ChatClients
  <2>1. CASE d = c
    BY <1>13, <1>18, <2>1 DEF TurnGood
  <2>2. CASE d # c
    BY <1>12, <1>13, <2>2
  <2> QED  BY <2>1, <2>2
<1>20. OneTurn'
  BY <1>1, <1>9, <1>13 DEF OneTurn, ConversationInv
<1>21. MessagesGood'
  <2> SUFFICES ASSUME NEW m \in Numbers'
               PROVE  /\ messages'[m].to \in Numbers' \cup {0}
                      /\ messages'[m].cites => upload' = "recorded"
                      /\ messages'[m].role = "assistant" =>
                           overlap \/ \E a \in attempts : a.msg = messages'[m].to /\ a.status = "succeeded"
    BY <1>1 DEF MessagesGood, HasSucceeded
  <2>1. CASE m = n
    BY <1>1, <1>2, <1>4, <1>10, <2>1 DEF TurnGood
  <2>2. CASE m \in Numbers
    BY <1>1, <1>7, <1>10, <2>2 DEF MessagesGood, ConversationInv, HasSucceeded
  <2> QED  BY <1>7, <2>1, <2>2
<1>22. KeysGood'
  <2> SUFFICES ASSUME ~overlap
               PROVE  /\ OnlyOne(WithKey') /\ \A m \in Numbers' : OnlyOne(RepliesTo(m)')
                      /\ \A r \in returned' : r \in Numbers' /\ messages'[r].to \in WithKey'
    BY <1>1 DEF KeysGood, OnlyOne
  <2>1. OnlyOne(WithKey')
    <3>1. turn[c].keyed => WithKey = {}
      BY <1>1, <1>2 DEF TurnGood
    <3>2. OnlyOne(WithKey)
      BY DEF KeysGood, ConversationInv
    <3> QED  BY <1>4, <1>10, <3>1, <3>2 DEF OnlyOne
  <2>2. \A m \in Numbers' : OnlyOne(RepliesTo(m)')
    BY <1>7, <1>16, <1>17 DEF KeysGood, ConversationInv, OnlyOne
  <2>3. \A r \in returned' : r \in Numbers' /\ messages'[r].to \in WithKey'
    BY <1>1, <1>7, <1>10 DEF KeysGood, ConversationInv
  <2> QED  BY <2>1, <2>2, <2>3
<1> QED  BY <1>10, <1>12, <1>14, <1>19, <1>20, <1>21, <1>22 DEF ConversationInv

\* A turn appends the reply of an attempt that succeeded.
LEMMA TurnAppendsReplyKeeps ==
    ASSUME ConversationInv, NEW c \in ChatClients, TurnAppendsReply(c)
    PROVE  ConversationInv'
<1>1. /\ turn[c].at = "reply-save" /\ turn[c].at \in Underway /\ turn[c].at \in Answering /\ ConversationTypeOK
      /\ UNCHANGED <<attempts, missions, toolRuns, overlap, begun, upload>>
      /\ turn' = [turn EXCEPT ![c] = NoTurn]
  BY DEF TurnAppendsReply, ChatAt, Underway, Answering, ConversationInv, Rests
<1>2. turn[c] \in Turns /\ TurnGood(turn[c]) /\ c \in DOMAIN turn
  BY <1>1, TurnIs DEF ConversationTypeOK, ConversationInv
<1>3. PICK msg : msg = [role |-> "assistant", keyed |-> FALSE, to |-> turn[c].user, intent |-> turn[c].intent,
                        cites |-> FALSE]
  OBVIOUS
<1>4. /\ msg \in Messages /\ msg.keyed = FALSE /\ msg.to = turn[c].user /\ msg.cites = FALSE
      /\ Bundle(c, msg)
  BY <1>2, <1>3 DEF Messages, Turns, TurnAppendsReply
<1>5. PICK n : n = Len(messages) + 1
  OBVIOUS
<1>6. returned' = IF turn[c].keyed THEN returned \cup {n} ELSE returned
  BY <1>5 DEF TurnAppendsReply
<1>7. n \in Nat /\ Numbers' = Numbers \cup {n} /\ n \notin Numbers
  BY <1>2, <1>4, <1>5, MessageAdded
<1>8. /\ messages' \in Seq(Messages) /\ convo' \in Convos /\ staleSave' \in BOOLEAN /\ IdsGood'
      /\ \A m \in Numbers : messages'[m] = messages[m]
      /\ messages'[n] = msg
      /\ WithKey' = WithKey
  BY <1>2, <1>4, <1>5, MessageAdded
<1>9. \A m : RepliesTo(m)' = RepliesTo(m) \cup (IF msg.to = m THEN {n} ELSE {})
  BY <1>2, <1>4, <1>5, MessageAdded
<1>10. /\ MissionsGood' /\ AttemptsCounted' /\ \A m : HasSucceeded(m)' <=> HasSucceeded(m)
       /\ \A d \in ChatClients \ {c} : turn'[d] = turn[d] => TurnGood(turn[d])'
  BY <1>1, <1>2, <1>4, OthersAfterMessage
<1>11. \A d \in ChatClients : turn'[d] = IF d = c THEN NoTurn ELSE turn[d]
  BY <1>1 DEF ConversationTypeOK
<1>12. ConversationTypeOK'
  <2>1. turn' \in [ChatClients -> AnyTurn]
    BY <1>1, TurnIs DEF ConversationTypeOK, AnyTurn
  <2>2. returned' \subseteq Nat
    BY <1>1, <1>6, <1>7 DEF ConversationTypeOK
  <2> QED  BY <1>1, <1>8, <2>1, <2>2 DEF ConversationTypeOK, AnyTurn
<1>13. /\ turn[c].user \in Numbers /\ (turn[c].keyed => turn[c].user \in WithKey)
       /\ ~overlap => RepliesTo(turn[c].user) = {} /\ HasSucceeded(turn[c].user)
  BY <1>1, <1>2 DEF TurnGood
<1>14. \A d \in ChatClients : TurnGood(turn[d])'
  <2> TAKE d \in ChatClients
  <2>1. CASE d = c
    BY <1>11, <2>1 DEF TurnGood, NoTurn, Underway, Answering
  <2>2. CASE d # c
    BY <1>10, <1>11, <2>2
  <2> QED  BY <2>1, <2>2
<1>15. OneTurn'
  BY <1>1, <1>11 DEF OneTurn, ConversationInv, NoTurn, Underway
<1>16. MessagesGood'
  <2> SUFFICES ASSUME NEW m \in Numbers'
               PROVE  /\ messages'[m].to \in Numbers' \cup {0}
                      /\ messages'[m].cites => upload' = "recorded"
                      /\ messages'[m].role = "assistant" =>
                           overlap \/ \E a \in attempts : a.msg = messages'[m].to /\ a.status = "succeeded"
    BY <1>1 DEF MessagesGood, HasSucceeded
  <2>1. CASE m = n
    <3>1. overlap \/ HasSucceeded(turn[c].user)
      BY <1>13
    <3> QED  BY <1>1, <1>4, <1>7, <1>8, <1>13, <2>1, <3>1 DEF HasSucceeded
  <2>2. CASE m \in Numbers
    BY <1>1, <1>7, <1>8, <2>2 DEF MessagesGood, ConversationInv, HasSucceeded
  <2> QED  BY <1>7, <2>1, <2>2
<1>17. KeysGood'
  <2> SUFFICES ASSUME ~overlap
               PROVE  /\ OnlyOne(WithKey') /\ \A m \in Numbers' : OnlyOne(RepliesTo(m)')
                      /\ \A r \in returned' : r \in Numbers' /\ messages'[r].to \in WithKey'
    BY <1>1 DEF KeysGood, OnlyOne
  <2>1. OnlyOne(WithKey')
    BY <1>8 DEF KeysGood, ConversationInv, OnlyOne
  <2>2. \A m \in Numbers' : OnlyOne(RepliesTo(m)')
    <3> TAKE m \in Numbers'
    <3>1. CASE m = turn[c].user
      BY <1>4, <1>9, <1>13, <3>1 DEF OnlyOne
    <3>2. CASE m # turn[c].user /\ m = n
      <4>1. \A r \in Numbers : messages[r].to # n
        BY <1>5, <1>7, Snapshot DEF MessagesGood, ConversationInv
      <4>2. RepliesTo(n) = {}
        BY <4>1 DEF RepliesTo
      <4> QED  BY <1>4, <1>9, <3>2, <4>2 DEF OnlyOne
    <3>3. CASE m # turn[c].user /\ m \in Numbers
      BY <1>4, <1>9, <3>3 DEF KeysGood, ConversationInv, OnlyOne
    <3> QED  BY <1>7, <3>1, <3>2, <3>3
  <2>3. \A r \in returned' : r \in Numbers' /\ messages'[r].to \in WithKey'
    BY <1>4, <1>6, <1>7, <1>8, <1>13 DEF KeysGood, ConversationInv
  <2> QED  BY <2>1, <2>2, <2>3
<1> QED  BY <1>8, <1>10, <1>12, <1>14, <1>15, <1>16, <1>17 DEF ConversationInv

------------------------------------------------------------------------------
\* Every step of the conversations keeps the invariant.
LEMMA ConversationStep == ConversationInv /\ [ConversationNext]_chatVars => ConversationInv'
<1> SUFFICES ASSUME ConversationInv, [ConversationNext]_chatVars
             PROVE  ConversationInv'
  OBVIOUS
<1>1. CASE UNCHANGED chatVars
  BY <1>1 DEF chatVars, ConversationInv, ConversationTypeOK, TurnGood, OneTurn, IdsGood, MessagesGood, KeysGood,
     MissionsGood, AttemptsCounted, Numbers, WithKey, RepliesTo, HasSucceeded, OnlyOne
<1>2. CASE \E i \in DOMAIN missions : MissionEnds(i)
  BY <1>2, MissionEndsKeeps
<1>3. CASE UploadWrites \/ UploadRecords
  BY <1>3, UploadKeeps
<1>4. ASSUME NEW c \in ChatClients, NEW keyed \in KeyedTurns,
             TurnLooks(c, "mission", keyed, FALSE) \/ \E cites \in BOOLEAN : TurnLooks(c, "chat", keyed, cites)
      PROVE  ConversationInv'
  BY <1>4, TurnLooksKeeps, KeyedTurnsAssumption
<1>5. ASSUME NEW c \in ChatClients,
             \/ UserAppendReads(c) \/ TurnAppendsUser(c)
             \/ TurnAdmits(c) \/ AttemptStarts(c)
             \/ \E known \in BOOLEAN : ModelUsesTool(c, known)
             \/ ModelAnswers(c) \/ ModelFails(c)
             \/ ReplyAppendReads(c) \/ TurnAppendsReply(c) \/ TurnDies(c)
             \/ \E op \in {"close", "reopen"} : StatusReads(c, op)
             \/ StatusSaves(c)
      PROVE  ConversationInv'
  BY <1>5, UserAppendReadsKeeps, TurnAppendsUserKeeps, TurnAdmitsKeeps, AttemptStartsKeeps, ModelUsesToolKeeps,
     ModelAnswersKeeps, ModelFailsKeeps, ReplyAppendReadsKeeps, TurnAppendsReplyKeeps, TurnDiesKeeps,
     StatusReadsKeeps, StatusSavesKeeps
<1> QED  BY <1>1, <1>2, <1>3, <1>4, <1>5 DEF ConversationNext

\* A conversation without messages satisfies the invariant.
LEMMA ConversationStarts == ConversationInit => ConversationInv
<1> SUFFICES ASSUME ConversationInit PROVE ConversationInv
  OBVIOUS
<1>1. convo \in Convos /\ convo.ids = {} /\ messages = <<>> /\ messages \in Seq(Messages)
      /\ missions = <<>> /\ missions \in Seq([of : Nat, open : BOOLEAN]) /\ attempts = {} /\ returned = {}
  BY DEF ConversationInit, Convos
<1>2. Numbers = {} /\ WithKey = {} /\ DOMAIN missions = {}
  BY <1>1 DEF Numbers, WithKey
<1>3. \A c \in ChatClients : turn[c] = NoTurn
  BY DEF ConversationInit
<1>4. ConversationTypeOK
  BY <1>1, <1>3 DEF ConversationInit, ConversationTypeOK
<1>5. \A c \in ChatClients : TurnGood(turn[c])
  BY <1>3, RestIsGood
<1>6. OneTurn
  BY <1>3 DEF OneTurn, NoTurn, Underway
<1>7. IdsGood /\ MessagesGood /\ KeysGood /\ MissionsGood
  BY <1>1, <1>2 DEF IdsGood, MessagesGood, KeysGood, MissionsGood, OnlyOne
<1>8. AttemptsCounted
  BY <1>1, FS_EmptySet DEF AttemptsCounted
<1> QED  BY <1>4, <1>5, <1>6, <1>7, <1>8 DEF ConversationInv

\* The invariant implies what is promised of the conversations.
LEMMA ConversationEnough == ConversationInv => ConversationSound
<1> SUFFICES ASSUME ConversationInv PROVE ConversationSound
  OBVIOUS
<1>1. convo.ids \subseteq Numbers /\ (~staleSave => convo.ids = Numbers)
  BY DEF ConversationInv, IdsGood
<1>2. ASSUME ~overlap
      PROVE  /\ Cardinality(WithKey) <= 1
             /\ \A m \in Numbers : Cardinality(RepliesTo(m)) <= 1
             /\ Cardinality(returned) <= 1
  <2>1. /\ OnlyOne(WithKey) /\ \A m \in Numbers : OnlyOne(RepliesTo(m))
        /\ \A r \in returned : r \in Numbers /\ messages[r].to \in WithKey
    BY <1>2 DEF ConversationInv, KeysGood
  <2>2. OnlyOne(returned)
    <3>1. \A r \in returned : r \in RepliesTo(messages[r].to) /\ messages[r].to \in Numbers
      BY <2>1, Snapshot DEF RepliesTo
    <3>2. \A r, s \in returned : messages[r].to = messages[s].to
      BY <2>1 DEF OnlyOne
    <3> QED  BY <2>1, <3>1, <3>2 DEF OnlyOne
  <2> QED  BY <2>1, <2>2, AtMostOne
<1>3. MissionsGood /\ MessagesGood
  BY DEF ConversationInv
<1> QED  BY <1>1, <1>2, <1>3 DEF ConversationSound, MissionsGood, MessagesGood, HasSucceeded

\* A keyed turn is answered once, a reply follows an attempt that succeeded,
\* and no message is lost but to a stale save (conversations.py).
THEOREM ConversationTheorem == ConversationSpec => []ConversationSound
<1>1. ConversationInv => ConversationSound
  BY ConversationEnough
<1> QED  BY <1>1, ConversationStarts, ConversationStep, PTL DEF ConversationSpec

------------------------------------------------------------------------------
(* The suite: the component in focus moves and the others stay. *)

\* A behaviour of the suite is one of each of its components.
LEMMA SuiteRuns ==
    /\ SuiteSpec => RecordStoreSpec
    /\ SuiteSpec => EvidenceSpec
    /\ SuiteSpec => MemorySpec
    /\ SuiteSpec => ConversationSpec
    /\ SuiteSpec => RetrievalSpec
<1>1. SuiteInit => RecordStoreInit /\ EvidenceInit /\ MemoryInit /\ ConversationInit /\ RetrievalInit
  BY DEF SuiteInit
<1>2. [SuiteNext]_suiteVars => /\ [RecordStoreNext]_storeVars /\ [EvidenceNext]_evVars /\ [MemoryNext]_memVars
                               /\ [ConversationNext]_chatVars /\ [RetrievalNext \/ ChunkNext]_retrievalVars
  <2>1. CASE UNCHANGED suiteVars
    BY <2>1 DEF suiteVars
  <2>2. CASE SuiteNext
    BY <2>2 DEF SuiteNext, Elsewhere, Carries, Decides, Stores, Proves, Remembers, Converses, Retrieves, Splits
  <2> QED  BY <2>1, <2>2
<1> QED
  BY <1>1, <1>2, PTL DEF SuiteSpec, RecordStoreSpec, EvidenceSpec, MemorySpec, ConversationSpec, RetrievalSpec

\* What the record and evidence stores return was written under its identity in
\* every behaviour of the suite (store.py, evidence_store.py).
THEOREM RecordsTheorem == SuiteSpec => []RecordsSound
<1>1. StoreSound /\ EvidenceSound => RecordsSound
  BY DEF RecordsSound
<1> QED  BY <1>1, SuiteRuns, StoreTheorem, EvidenceTheorem, PTL

\* Memory and its index agree with what was said in every behaviour of the suite
\* (memory.py, retrieval.py).
THEOREM KnowledgeTheorem == SuiteSpec => []KnowledgeSound
<1>1. MemorySound /\ RetrievalSound => KnowledgeSound
  BY DEF KnowledgeSound
<1> QED  BY <1>1, SuiteRuns, MemoryTheorem, RetrievalTheorem, PTL

\* A conversation is answered once and in order in every behaviour of the suite
\* (conversations.py).
THEOREM SuiteConversationTheorem == SuiteSpec => []ConversationSound
  BY SuiteRuns, ConversationTheorem, PTL
=============================================================================
