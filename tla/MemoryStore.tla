----------------------------- MODULE MemoryStore -----------------------------
(***************************************************************************)
(* The memory kernel, the patch review over it, and the archive and the     *)
(* lifecycle layer that work on the same records (memory.py,                *)
(* memory_archive.py, memory_os.py).  One mission and one memory key: a     *)
(* record is what it says under that key.  Every save is a transaction of   *)
(* its own, so a call reads, writes old records, the new one and the        *)
(* idempotency mapping in separate steps that other callers and crashes     *)
(* come between.                                                            *)
(***************************************************************************)
EXTENDS Integers, Sequences, SequencesExt

CONSTANTS
    MemWriters,    \* concurrent callers of the kernel
    MemTexts,      \* contents
    MaxMems,       \* bound on records
    MaxMemCalls    \* bound on calls

VARIABLES
    mems,       \* memory id -> record (ids are numbers, in order of creation)
    mapping,    \* memory_idempotency records: the memory ids saved under the key
    reviews,    \* memory id -> none, pending, approved or rejected
    writer,     \* writer -> its call
    replies,    \* memory ids returned to calls made with the idempotency key, but for
                \* proposals answered with a duplicate, which leave the key free
    overlapped, \* two calls with the key ran at once
    memCrashed, \* a call died between two of its saves
    memCalls

memVars == <<mems, mapping, reviews, writer, replies, overlapped, memCrashed, memCalls>>

Kinds == {"fact", "patch", "inference", "working"}
EvidenceRequired == {"patch"}
AtRest == [op |-> "none"]
Ids == DOMAIN mems

MemoryInit ==
    /\ mems = <<>> /\ mapping = {} /\ reviews = <<>>
    /\ writer = [w \in MemWriters |-> AtRest]
    /\ replies = {} /\ overlapped = FALSE /\ memCrashed = FALSE /\ memCalls = 0

\* inspect: the rows of type memory; the committed ones with the key.
Inspect == {i \in Ids : mems[i].type = "memory"}
Committed == {i \in Inspect : mems[i].status = "committed"}
Conflicting(text) == {i \in Committed : mems[i].text # text}
Duplicates(text) == {i \in Committed : mems[i].text = text}

------------------------------------------------------------------------------
Busy(w) == writer[w].op # "none"
MemKeyed(w) == Busy(w) /\ writer[w].keyed
Done(w, i) == /\ writer' = [writer EXCEPT ![w] = AtRest]
              /\ replies' = IF writer[w].keyed /\ writer[w].at = "map" THEN replies \cup {i} ELSE replies
Fail(w) == /\ writer' = [writer EXCEPT ![w] = AtRest] /\ UNCHANGED replies

\* write, propose and patch begin with the idempotency lookup: the same request is
\* answered with the record, another one is a conflict.
Call(w, op, kind, text, evid, keyed) ==
    /\ ~Busy(w) /\ memCalls < MaxMemCalls /\ memCalls' = memCalls + 1
    /\ overlapped' = (overlapped \/ (keyed /\ \E v \in MemWriters : MemKeyed(v)))
    /\ LET hit == IF mapping = {} THEN 0 ELSE CHOOSE i \in mapping : \A j \in mapping : i <= j
           same == /\ mems[hit].text = text /\ mems[hit].kind = kind /\ mems[hit].evid = evid
                   /\ op # "write" => (mems[hit].type = "memory") = (op = "patch")
       IN IF keyed /\ hit # 0
          THEN /\ UNCHANGED writer
               /\ replies' = IF mems[hit].whole /\ same THEN replies \cup {hit} ELSE replies
          ELSE /\ writer' = [writer EXCEPT ![w] =
                    [op |-> IF kind = "inference" /\ op = "write" THEN "propose" ELSE op,
                     kind |-> kind, text |-> text, evid |-> evid, keyed |-> keyed,
                     at |-> "look", old |-> {}, new |-> 0]]
               /\ UNCHANGED replies
    /\ UNCHANGED <<mems, mapping, reviews, memCrashed>>

\* write: a kind that needs evidence is refused without it; the committed records it
\* will supersede are read, ...
WriteLooks(w) ==
    /\ writer[w].op = "write" /\ writer[w].at = "look"
    /\ IF ~writer[w].evid /\ writer[w].kind \in EvidenceRequired
       THEN Fail(w)
       ELSE /\ writer' = [writer EXCEPT ![w].at = "mark", ![w].old = Conflicting(writer[w].text)]
            /\ UNCHANGED replies
    /\ UNCHANGED <<mems, mapping, reviews, overlapped, memCrashed, memCalls>>
\* ... marked superseded by the record still to be written, ...
WriteMarks(w) ==
    /\ writer[w].op = "write" /\ writer[w].at = "mark"
    /\ mems' = [i \in Ids |-> IF i \in writer[w].old
                              THEN [mems[i] EXCEPT !.status = "superseded", !.by = w] ELSE mems[i]]
    /\ writer' = [writer EXCEPT ![w].at = "save"]
    /\ UNCHANGED <<mapping, reviews, replies, overlapped, memCrashed, memCalls>>

NewMemory(w, status, type, clash) ==
    [kind |-> writer[w].kind, text |-> writer[w].text, evid |-> writer[w].evid,
     status |-> status, type |-> type, clash |-> clash, human |-> FALSE, by |-> 0, whole |-> TRUE]
\* A superseded record waits for its successor under the writer's name; saving the
\* successor gives it the id.
Succeed(w, ms, id) == [i \in DOMAIN ms |-> IF i \in writer[w].old /\ ms[i].by = w /\ ms[i].status = "superseded"
                                           THEN [ms[i] EXCEPT !.by = 10 + id] ELSE ms[i]]
\* ... and the record is saved, committed.
WriteSaves(w) ==
    /\ writer[w].op = "write" /\ writer[w].at = "save" /\ Len(mems) < MaxMems
    /\ mems' = Append(Succeed(w, mems, Len(mems) + 1), NewMemory(w, "committed", "memory", FALSE))
    /\ reviews' = Append(reviews, "none")
    /\ writer' = [writer EXCEPT ![w].at = "map", ![w].new = Len(mems) + 1]
    /\ UNCHANGED <<mapping, replies, overlapped, memCrashed, memCalls>>

\* propose (patch is propose with auto_commit): a duplicate is returned; a conflict
\* or a missing warrant makes a candidate, else the record is committed.
ProposeLooks(w) ==
    /\ writer[w].op \in {"propose", "patch"} /\ writer[w].at = "look"
    /\ IF Duplicates(writer[w].text) # {}
       THEN /\ writer' = [writer EXCEPT ![w].at = IF writer[w].op = "patch" THEN "map" ELSE "answer",
                 ![w].new = CHOOSE i \in Duplicates(writer[w].text) :
                              \A j \in Duplicates(writer[w].text) : i <= j]
       ELSE writer' = [writer EXCEPT ![w].at = "save", ![w].old = Conflicting(writer[w].text)]
    /\ UNCHANGED <<mems, mapping, reviews, replies, overlapped, memCrashed, memCalls>>
ShouldCommit(w) == /\ writer[w].op = "patch" /\ writer[w].kind # "inference"
                   /\ writer[w].evid /\ writer[w].old = {}
ProposeSaves(w) ==
    /\ writer[w].op \in {"propose", "patch"} /\ writer[w].at = "save" /\ Len(mems) < MaxMems
    /\ mems' = Append(mems, IF ShouldCommit(w) THEN NewMemory(w, "committed", "memory", FALSE)
                            ELSE NewMemory(w, IF writer[w].old = {} THEN "candidate" ELSE "conflict",
                                           "memory_candidate", writer[w].old # {}))
    /\ reviews' = Append(reviews, "none")
    /\ writer' = [writer EXCEPT ![w].at = "map", ![w].new = Len(mems) + 1]
    /\ UNCHANGED <<mapping, replies, overlapped, memCrashed, memCalls>>

\* The mapping of the idempotency key is saved last, and the call returns.
SaveMapping(w) ==
    /\ Busy(w) /\ writer[w].at \in {"map", "answer"} /\ Done(w, writer[w].new)
    /\ mapping' = IF writer[w].keyed /\ writer[w].at = "map" THEN mapping \cup {writer[w].new}
                  ELSE mapping
    /\ UNCHANGED <<mems, reviews, overlapped, memCrashed, memCalls>>
\* The process dies in the middle of the call.
WriterDies(w) ==
    /\ Busy(w) /\ ~memCrashed /\ memCrashed' = TRUE /\ Fail(w)
    /\ UNCHANGED <<mems, mapping, reviews, overlapped, memCalls>>

------------------------------------------------------------------------------
Saves(i, r) == /\ mems' = [mems EXCEPT ![i] = r]
               /\ UNCHANGED <<mapping, writer, replies, overlapped, memCrashed, memCalls>>

CommitInference(i) == mems[i].whole /\ ~mems[i].clash
\* commit_candidate's refusals: a payload that is not a record, an inference, a
\* candidate with a conflict.
Commitable(i) == /\ mems[i].whole /\ mems[i].kind # "inference" /\ ~mems[i].clash
Commit(i) == [mems[i] EXCEPT !.status = "committed", !.type = "memory", !.human = TRUE]

\* commit_candidate called on its own (on a committed record it saves what is there).
CommitCandidate(i) ==
    /\ i \in Ids /\ mems[i].status # "committed" /\ Commitable(i) /\ Saves(i, Commit(i)) /\ UNCHANGED reviews
\* propose_patch: with evidence a pending record that has no kind, without it a
\* candidate of the kernel; either gets a review.
ProposePatch(text) ==
    /\ memCalls < MaxMemCalls /\ Len(mems) < MaxMems
    /\ memCalls' = memCalls + 1
    /\ mems' = Append(mems, [kind |-> "fact", text |-> text, evid |-> TRUE, status |-> "pending_review",
                             type |-> "memory", clash |-> FALSE, human |-> FALSE, by |-> 0, whole |-> FALSE])
    /\ reviews' = Append(reviews, "pending")
    /\ UNCHANGED <<mapping, writer, replies, overlapped, memCrashed>>
ReviewOpened(i) ==
    /\ i \in Ids /\ reviews[i] = "none" /\ ~mems[i].evid /\ mems[i].kind = "patch"
    /\ reviews' = [reviews EXCEPT ![i] = "pending"]
    /\ UNCHANGED <<mems, mapping, writer, replies, overlapped, memCrashed, memCalls>>
\* review_patch (changes_requested has the effect of rejected): the decision stands
\* even when the commit that follows it raises.
ReviewPatch(i, decision) ==
    /\ i \in Ids /\ reviews[i] = "pending" /\ reviews' = [reviews EXCEPT ![i] = decision]
    /\ Saves(i, IF decision = "approved" /\ Commitable(i) THEN Commit(i) ELSE mems[i])

\* clear_working_for_mission: every working record, whatever its status.
ClearWorking ==
    /\ \E i \in Inspect : mems[i].kind = "working" /\ mems[i].status # "cleared"
    /\ mems' = [i \in Ids |-> IF i \in Inspect /\ mems[i].kind = "working"
                              THEN [mems[i] EXCEPT !.status = "cleared", !.whole = FALSE] ELSE mems[i]]
    /\ UNCHANGED <<mapping, reviews, writer, replies, overlapped, memCrashed, memCalls>>

\* archive_memory of the archive (committed counts as active) and archive of the
\* lifecycle layer (it does not): superseded_by is overwritten with none, and the
\* fields added make the payload no longer a record of the kernel.
Archive(i) ==
    /\ i \in Ids /\ mems[i].status \in {"committed", "active", "validated", "superseded"}
    /\ Saves(i, [mems[i] EXCEPT !.status = "archived", !.by = 0, !.whole = FALSE]) /\ UNCHANGED reviews
ArchiveEntry(i) == mems[i].status # "committed" /\ Archive(i)
\* restore: archived to active.
Restore(i) ==
    /\ i \in Ids /\ mems[i].status = "archived"
    /\ Saves(i, [mems[i] EXCEPT !.status = "active"]) /\ UNCHANGED reviews
\* supersede of the lifecycle layer.
Supersede(i, j) ==
    /\ {i, j} \subseteq Ids /\ i # j /\ mems[i].status \in {"active", "validated"}
    /\ Saves(i, [mems[i] EXCEPT !.status = "superseded", !.by = 10 + j]) /\ UNCHANGED reviews

MemoryNext ==
    \/ \E w \in MemWriters :
         \/ WriteLooks(w) \/ WriteMarks(w) \/ WriteSaves(w) \/ ProposeLooks(w) \/ ProposeSaves(w)
         \/ SaveMapping(w) \/ WriterDies(w)
         \/ \E text \in MemTexts, keyed \in BOOLEAN, kind \in {"fact", "working"} :
              Call(w, "write", kind, text, TRUE, keyed)
         \/ \E text \in MemTexts, evid, keyed \in BOOLEAN :
              \/ \E kind \in {"patch", "inference"} : Call(w, "write", kind, text, evid, keyed)
              \/ Call(w, "propose", "inference", text, evid, keyed)
              \/ Call(w, "patch", "patch", text, evid, keyed)
    \/ \E i \in Ids : \/ CommitCandidate(i) \/ ReviewOpened(i) \/ Archive(i) \/ ArchiveEntry(i)
                      \/ Restore(i) \/ \E j \in Ids : Supersede(i, j)
                      \/ \E d \in {"approved", "rejected"} : ReviewPatch(i, d)
    \/ \E text \in MemTexts : ProposePatch(text)
    \/ ClearWorking

MemorySpec == MemoryInit /\ [][MemoryNext]_memVars

------------------------------------------------------------------------------
MemRecords ==
    [kind : Kinds, text : MemTexts, evid : BOOLEAN, clash : BOOLEAN, human : BOOLEAN,
     status : {"committed", "active", "validated", "superseded", "archived", "cleared",
               "candidate", "conflict", "pending_review"},
     type : {"memory", "memory_candidate"}, by : MemWriters \cup Nat, whole : BOOLEAN]
MemoryCalls ==
    [op : {"write", "propose", "patch"}, kind : Kinds, text : MemTexts, evid : BOOLEAN,
     keyed : BOOLEAN, at : {"look", "mark", "save", "map", "answer"}, old : SUBSET Nat, new : Nat]

\* The state keeps its shape, there is a review status for every memory, and the
\* key maps to memories that exist.
MemoryTypeOK ==
    /\ mems \in Seq(MemRecords)
    /\ reviews \in Seq({"none", "pending", "approved", "rejected"}) /\ Len(reviews) = Len(mems)
    /\ mapping \subseteq Ids
    /\ writer \in [MemWriters -> MemoryCalls \cup {AtRest}]
    /\ overlapped \in BOOLEAN /\ memCrashed \in BOOLEAN /\ memCalls \in Nat

Current == {"committed", "active", "validated"}

\* Whatever writers, reviewers and the archive do: an unverified inference never
\* counts as knowledge; what needs evidence and is current without any was put there
\* by a person; unless two calls with the idempotency key overlapped or one died,
\* those that saved the key or found it saved were answered with one memory; and a
\* record superseded by the kernel has a successor, unless its writer is about to
\* save it or died.
MemorySound ==
    /\ \A i \in Ids : mems[i].status \in Current =>
         /\ mems[i].kind # "inference"
         /\ mems[i].kind \in EvidenceRequired /\ ~mems[i].evid => mems[i].human
    /\ ~overlapped /\ ~memCrashed => \A i, j \in replies : i = j
    /\ \A i \in Ids : mems[i].status = "superseded" =>
         \/ mems[i].by - 10 \in Ids
         \/ memCrashed \/ \E w \in MemWriters : mems[i].by = w /\ Busy(w) /\ writer[w].at = "save"
=============================================================================
