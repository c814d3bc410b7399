----------------------------- MODULE AuditLedger -----------------------------
(***************************************************************************)
(* The hash-chained security audit ledger (security_audit.py).  An entry    *)
(* is its number, and its previous_hash the number of the entry it follows  *)
(* (0 for the genesis hash): two entries never hash alike.  record runs     *)
(* under the ledger's lock, but processes share the store and not the lock, *)
(* and a save may fail after the entry is in memory.                        *)
(***************************************************************************)
EXTENDS Integers, Sequences, SequencesExt

CONSTANTS
    Ledgers,       \* processes, each with a ledger over the one store
    MaxAudit       \* bound on entries made

VARIABLES
    entries,     \* by ledger: _entries, each [id, prev]
    lastHash,    \* by ledger: _last_hash
    auditStore,  \* audit_entry records in the order they were saved
    auditMade,   \* entries made so far
    lost,        \* a save failed
    shared       \* an entry was made from a tail other ledgers had moved past

auditVars == <<entries, lastHash, auditStore, auditMade, lost, shared>>

AuditInit ==
    /\ entries = [l \in Ledgers |-> <<>>] /\ lastHash = [l \in Ledgers |-> 0]
    /\ auditStore = <<>> /\ auditMade = 0 /\ lost = FALSE /\ shared = FALSE

Tail0(chain) == IF chain = <<>> THEN 0 ELSE Last(chain).id

RecordFromGenesis(l) == [id |-> auditMade + 1, prev |-> 0]

\* The entry record makes, chained to the tail held in memory.
NewEntry(l) == [id |-> auditMade + 1, prev |-> lastHash[l]]

\* record: the memory first, then the store; a failing save raises and leaves
\* the entry at the tail in memory.
RecordAudit(l, saved) ==
    /\ auditMade < MaxAudit /\ auditMade' = auditMade + 1
    /\ entries' = [entries EXCEPT ![l] = Append(@, NewEntry(l))]
    /\ lastHash' = [lastHash EXCEPT ![l] = NewEntry(l).id]
    /\ auditStore' = IF saved THEN Append(auditStore, NewEntry(l)) ELSE auditStore
    /\ lost' = (lost \/ ~saved)
    /\ shared' = (shared \/ (~lost /\ lastHash[l] # Tail0(auditStore)))

\* _load_from_store of a new process.
ReloadAudit(l) ==
    /\ entries' = [entries EXCEPT ![l] = auditStore]
    /\ lastHash' = [lastHash EXCEPT ![l] = Tail0(auditStore)]
    /\ UNCHANGED <<auditStore, auditMade, lost, shared>>

AuditNext == \E l \in Ledgers : ReloadAudit(l) \/ \E saved \in BOOLEAN : RecordAudit(l, saved)
AuditSpec == AuditInit /\ [][AuditNext]_auditVars

AuditEntries == [id : Nat, prev : Nat]
AuditTypeOK ==
    /\ entries \in [Ledgers -> Seq(AuditEntries)] /\ lastHash \in [Ledgers -> Nat]
    /\ auditStore \in Seq(AuditEntries) /\ auditMade \in Nat
    /\ lost \in BOOLEAN /\ shared \in BOOLEAN

\* verify_chain, detect_tamper and missing_events over a list of entries.
ChainIntact(chain) ==
    \A i \in DOMAIN chain : chain[i].prev = IF i = 1 THEN 0 ELSE chain[i - 1].id
DetectTamper(chain) ==
    {i \in DOMAIN chain : chain[i].prev # IF i = 1 THEN 0 ELSE chain[i - 1].id}
MissingEvents(chain) == {i \in DetectTamper(chain) : i > 1}

------------------------------------------------------------------------------
\* While no save failed and no two ledgers wrote from the same tail, every
\* ledger's chain verifies and so does the stored one, which every ledger's is a
\* part of; and a stored entry counts as missing only after one of the two.
ChainSurvives ==
    /\ ~lost /\ ~shared => /\ ChainIntact(auditStore)
                           /\ \A l \in Ledgers : IsPrefix(entries[l], auditStore)
    /\ \A i \in MissingEvents(auditStore) : lost \/ shared
=============================================================================
