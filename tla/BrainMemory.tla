----------------------------- MODULE BrainMemory -----------------------------
(***************************************************************************)
(* The brain's four memory layers (memory_controller.py, long_term_memory.py*)
(* over brain/db.py): commits bound to evidence, copies into higher layers, *)
(* reinforcement, decay, supersession and garbage collection.  All          *)
(* memories here share a key and a mission.  Confidence counts twentieths;  *)
(* age counts half-lives.  Every statement commits on its own, so a crash   *)
(* may leave a memory without its provenance or a copy without its log      *)
(* entry.                                                                   *)
(***************************************************************************)
EXTENDS Integers, Sequences, FiniteSets

CONSTANTS
    MemoryKinds,        \* kinds of memory that are written
    WorkingThreshold,   \* WORKING_TO_SEMANTIC_ACCESS_THRESHOLD
    SemanticThreshold,  \* SEMANTIC_TO_PROCEDURAL_ACCESS_THRESHOLD
    MaxMemories,        \* bound on rows
    MaxBrainOps         \* bound on ticks, reinforcements and crashes

VARIABLES
    mems,       \* brain_memories: [kind, layer, text, conf, start, access, bound, from, status, age]
    chain,      \* rows that have a provenance entry
    consolidations, \* memory_consolidation_log: <<source, target>>
    episodes,   \* the in-memory cache _episodic: rows
    half,       \* the statement left of a commit or copy: <<"none">>, <<"chain", row>>, <<"log", source, row>>
    torn,       \* rows whose second statement a crash left out
    brainOps

brainVars == <<mems, chain, consolidations, episodes, half, torn, brainOps>>

\* KIND_TO_LAYER, DECAY_MIN_CONFIDENCE and DECAY_HALF_LIFE of the kinds used.
LayerOf(kind) == CASE kind \in {"short_term", "unverified_inference"} -> "working"
                   [] kind \in {"decision", "failure"} -> "episodic"
                   [] kind = "fact" -> "semantic"
                   [] OTHER -> "procedural"
Floor(kind) == CASE kind = "unverified_inference" -> 1 [] kind = "short_term" -> 2
                 [] kind = "fact" -> 6 [] OTHER -> 18
Decays(kind) == kind \in {"short_term", "unverified_inference", "fact"}
EvidenceNeeded(kind) == kind \notin {"short_term", "unverified_inference"}

BrainMemoryInit ==
    /\ mems = <<>> /\ chain = {} /\ consolidations = {} /\ episodes = {}
    /\ half = <<"none">> /\ torn = {} /\ brainOps = 0

Rows == DOMAIN mems
Active == {m \in Rows : mems[m].status = "active"}
\* No commit or copy is half done.
Whole == half = <<"none">>
Room(n) == Len(mems) + n <= MaxMemories
Counted == brainOps < MaxBrainOps /\ brainOps' = brainOps + 1

------------------------------------------------------------------------------
\* commit: the row, then its provenance when it has evidence.
MayCommit(kind, bound) == EvidenceNeeded(kind) => bound
CommitMemory(kind, text, bound, confidence) ==
    /\ Whole /\ Room(1) /\ MayCommit(kind, bound)
    /\ mems' = Append(mems, [kind |-> kind, layer |-> LayerOf(kind), text |-> text, conf |-> confidence,
                             start |-> confidence, access |-> 0, bound |-> bound, from |-> 0,
                             status |-> "active", age |-> 0])
    /\ half' = IF bound THEN <<"chain", Len(mems) + 1>> ELSE <<"none">>
    /\ episodes' = IF LayerOf(kind) = "episodic" THEN episodes \cup {Len(mems) + 1} ELSE episodes
    /\ UNCHANGED <<chain, consolidations, torn, brainOps>>
\* record_provenance, or log_consolidation of a copy.
SecondStatement ==
    /\ ~Whole /\ half' = <<"none">>
    /\ chain' = IF half[1] = "chain" THEN chain \cup {half[2]} ELSE chain
    /\ consolidations' = IF half[1] = "log" THEN consolidations \cup {<<half[2], half[3]>>} ELSE consolidations
    /\ UNCHANGED <<mems, episodes, torn, brainOps>>
\* The process dies: the cache and the statement left are gone.
BrainRestarts ==
    /\ Counted /\ half' = <<"none">> /\ episodes' = {}
    /\ torn' = IF Whole THEN torn ELSE torn \cup {half[Len(half)]}
    /\ UNCHANGED <<mems, chain, consolidations>>

\* Copies keep the evidence and the status of their source.
Copy(source, layer, confidence, access, status) ==
    /\ Whole /\ Room(1)
    /\ mems' = Append(mems, [mems[source] EXCEPT !.layer = layer, !.from = source, !.conf = confidence,
                             !.start = confidence, !.access = access, !.age = 0, !.status = status])
    /\ half' = <<"log", source, Len(mems) + 1>>
    /\ UNCHANGED <<chain, episodes, torn, consolidations>>
\* consolidate, one episodic memory of the mission: the rows, or, when no active row
\* is left, what the cache holds of them as it was committed.
Episodic == {m \in Active : mems[m].layer = "episodic"}
EpisodicSources == IF Episodic # {} THEN Episodic ELSE episodes
Consolidate(m) ==
    /\ m \in EpisodicSources /\ mems[m].kind \in {"decision", "failure"}
    /\ Copy(m, "semantic", IF Episodic # {} THEN mems[m].conf ELSE mems[m].start, mems[m].access, "active")
    /\ UNCHANGED brainOps
\* consolidate_to_ltm.
MaxOf(a, b) == IF a > b THEN a ELSE b
Promoted(m, force) ==
    CASE mems[m].layer = "working" /\ (force \/ mems[m].access >= WorkingThreshold) -> "semantic"
      [] mems[m].layer = "semantic" /\ (force \/ (mems[m].conf >= 18 /\ mems[m].access >= SemanticThreshold)) -> "procedural"
      [] OTHER -> "none"
ConsolidateToLtm(m, force) ==
    /\ Promoted(m, force) # "none"
    /\ Copy(m, Promoted(m, force), MaxOf(mems[m].conf, 18), 0, mems[m].status)
    /\ UNCHANGED brainOps

\* reinforce: +0.05, whatever the status.
Reinforce(m) ==
    /\ Whole /\ Counted
    /\ mems' = [mems EXCEPT ![m].access = @ + 1,
                            ![m].conf = IF Decays(mems[m].kind) /\ @ < 20 THEN @ + 1 ELSE @]
    /\ UNCHANGED <<chain, consolidations, episodes, half, torn>>
\* detect_supersession: the active rows with other content.
DetectSupersededBy(text) ==
    /\ Whole /\ \E m \in Active : mems[m].text # text
    /\ mems' = [m \in Rows |-> IF m \in Active /\ mems[m].text # text
                               THEN [mems[m] EXCEPT !.status = "superseded"] ELSE mems[m]]
    /\ UNCHANGED <<chain, consolidations, episodes, half, torn, brainOps>>
\* decay_tick: from the confidence on record and the age since creation, so a second
\* tick decays again what the first already did.
DecayedUnfloored(kind, confidence, age) == confidence \div (2 ^ age)
Decayed(kind, confidence, age) == MaxOf(confidence \div (2 ^ age), Floor(kind))
DecayTick ==
    /\ Whole /\ Counted
    /\ mems' = [m \in Rows |->
                  LET r == mems[m]
                      lower == Decayed(r.kind, r.conf, r.age)
                  IN IF m \in Active /\ Decays(r.kind) /\ r.age > 0 /\ lower < r.conf
                     THEN [r EXCEPT !.conf = lower] ELSE r]
    /\ UNCHANGED <<chain, consolidations, episodes, half, torn>>
HalfLifePasses ==
    /\ \E m \in Rows : mems[m].age < 2
    /\ mems' = [m \in Rows |-> IF mems[m].age < 2 THEN [mems[m] EXCEPT !.age = @ + 1] ELSE mems[m]]
    /\ UNCHANGED <<chain, consolidations, episodes, half, torn, brainOps>>
\* garbage_collect: below 0.1, of the kinds that decay; the age is not looked at.
Collectable == {m \in Active : mems[m].conf < 2 /\ Decays(mems[m].kind)}
GarbageCollect ==
    /\ Whole /\ Collectable # {}
    /\ mems' = [m \in Rows |-> IF m \in Collectable THEN [mems[m] EXCEPT !.status = "archived"] ELSE mems[m]]
    /\ UNCHANGED <<chain, consolidations, episodes, half, torn, brainOps>>

BrainMemoryNext ==
    \/ \E k \in MemoryKinds, t \in {"t1", "t2"}, bound \in BOOLEAN : CommitMemory(k, t, bound, 20)
    \/ SecondStatement \/ BrainRestarts
    \/ \E m \in Rows : Consolidate(m) \/ Reinforce(m) \/ \E force \in BOOLEAN : ConsolidateToLtm(m, force)
    \/ \E t \in {"t1", "t2"} : DetectSupersededBy(t)
    \/ DecayTick \/ HalfLifePasses \/ GarbageCollect

BrainMemorySpec == BrainMemoryInit /\ [][BrainMemoryNext]_brainVars

------------------------------------------------------------------------------
Memories == [kind : MemoryKinds, layer : {"working", "episodic", "semantic", "procedural"}, text : {"t1", "t2"},
             conf : 0..20, start : 0..20, access : Nat, bound : BOOLEAN, from : Nat,
             status : {"active", "superseded", "archived"}, age : 0..2]
BrainMemoryTypeOK ==
    /\ mems \in Seq(Memories) /\ brainOps \in Nat
    /\ chain \subseteq Rows /\ torn \subseteq Rows /\ episodes \subseteq Rows
    /\ consolidations \subseteq Rows \X Rows
    /\ half \in {<<"none">>} \cup {<<"chain", m>> : m \in Rows} \cup {<<"log", e[1], e[2]>> : e \in Rows \X Rows}
------------------------------------------------------------------------------
\* A memory that decays stays at or above the floor of its kind, one that does not
\* never loses confidence, and so garbage collection archives only inferences: every
\* other floor is at or above its limit.
ConfidenceHasFloor ==
    \A m \in Rows : /\ mems[m].conf <= 20 /\ mems[m].conf >= Floor(mems[m].kind)
                    /\ ~Decays(mems[m].kind) => mems[m].conf >= mems[m].start
                    /\ mems[m].status = "archived" => mems[m].kind = "unverified_inference"
\* Where a memory comes from can be traced: one committed with evidence has its
\* provenance, a copy has a source of the same kind and content and the log entry,
\* unless a crash came in between; and outside the working layer a memory has
\* evidence unless it was promoted out of it.
OriginIsTraceable ==
    \A m \in Rows :
      LET r == mems[m]
      IN /\ r.from = 0 /\ r.bound => m \in chain \/ m \in torn \/ half = <<"chain", m>>
         /\ r.from # 0 => /\ r.from < m /\ mems[r.from].text = r.text /\ mems[r.from].kind = r.kind
                          /\ <<r.from, m>> \in consolidations \/ m \in torn \/ half = <<"log", r.from, m>>
         /\ r.layer # "working" => r.bound \/ (r.from # 0 /\ ~EvidenceNeeded(r.kind))
BrainMemorySound == ConfidenceHasFloor /\ OriginIsTraceable
=============================================================================
