------------------------------ MODULE MCStores -------------------------------
(* Small instances of the mission runtime under a human's calls and of the     *)
(* components that keep records: the approval queue of the control plane, the  *)
(* record store with its schema upgrade, evidence, memory, conversations and   *)
(* the retrieval index.  They share no state here, so one run checks them side *)
(* by side: focus says which one moves.                                        *)
EXTENDS MCMissionRuntime, ApprovalQueue, RecordStore, EvidenceStore,
        MemoryStore, Conversations, Retrieval

\* The calls of the approval queue: two approvals, a rejection, a revocation,
\* two consumptions and an expiry of the only request.
QueueOpOf == [c \in ApprovalCalls |->
            CASE c \in {"yes", "yes2"} -> "approve"
              [] c = "no"              -> "reject"
              [] c = "back"            -> "revoke"
              [] c \in {"use", "use2"} -> "consume"
              [] c = "lapse"           -> "expire"]
QueueArgOf == [c \in ApprovalCalls |-> CHOOSE r \in Requests : TRUE]

\* A governed approval, a piece of evidence and a plain record.
KindOf == [a |-> "approval", e |-> "evidence", x |-> "plain"]

------------------------------------------------------------------------------
\* The component this behaviour is about; the others stay as they start.
VARIABLE focus

\* Everything but the component in focus is left alone.
Elsewhere ==
    /\ UNCHANGED focus
    /\ focus # "mission" => UNCHANGED vars
    /\ focus # "queue" => UNCHANGED approvalVars
    /\ focus # "store" => UNCHANGED storeVars
    /\ focus # "evidence" => UNCHANGED evVars
    /\ focus # "memory" => UNCHANGED memVars
    /\ focus # "chat" => UNCHANGED chatVars
    /\ focus \notin {"index", "chunks"} => UNCHANGED retrievalVars

Carries == focus = "mission" /\ Elsewhere /\ Next
Decides == focus = "queue" /\ Elsewhere /\ ApprovalNext
Stores == focus = "store" /\ Elsewhere /\ RecordStoreNext
Proves == focus = "evidence" /\ Elsewhere /\ EvidenceNext
Remembers == focus = "memory" /\ Elsewhere /\ MemoryNext
Converses == focus = "chat" /\ Elsewhere /\ ConversationNext
Retrieves == focus = "index" /\ Elsewhere /\ RetrievalNext
Splits == focus = "chunks" /\ Elsewhere /\ ChunkNext

SuiteInit ==
    /\ focus \in {"mission", "queue", "store", "evidence", "memory", "chat",
                  "index", "chunks"}
    /\ Init /\ ApprovalInit /\ RecordStoreInit /\ EvidenceInit /\ MemoryInit
    /\ ConversationInit /\ RetrievalInit

SuiteNext ==
    \/ Carries \/ Decides \/ Stores \/ Proves \/ Remembers \/ Converses
    \/ Retrieves \/ Splits
suiteVars == <<vars, approvalVars, storeVars, evVars, memVars, chatVars,
    retrievalVars, focus>>
SuiteSpec == SuiteInit /\ [][SuiteNext]_suiteVars

------------------------------------------------------------------------------
\* What the stores let a caller read is what was written under its identity:
\* a record whose hashes, origin or creation event do not agree is never
\* returned, whether an upgrade, a crash, a tampered row or a second writer
\* made it so, and a governed record changes with its events or not at all.
RecordsSound == /\ focus = "store" => StoreSound
                /\ focus = "evidence" => EvidenceSound

\* Memory and its index agree with what was said: no inference becomes a
\* committed fact without review, keyed writes are answered once, a search
\* returns what its mission may see, and the pieces of a text cover it.
KnowledgeSound == /\ focus = "memory" => MemorySound
                  /\ focus \in {"index", "chunks"} => RetrievalSound
==============================================================================
