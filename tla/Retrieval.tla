------------------------------ MODULE Retrieval ------------------------------
(***************************************************************************)
(* Retrieval of memories: the in-memory index (rag_pipeline.py), the search *)
(* over it and its keyword fallback (MemoryLayerManager of memory.py), and  *)
(* the knowledge service's reading of the same records (knowledge.py).  All *)
(* records here share one key.  Similarity is not modelled: any set of the  *)
(* admissible chunks may pass the threshold, in any order.                  *)
(***************************************************************************)
EXTENDS Integers, Sequences, FiniteSets, FiniteSetsExt

CONSTANTS
    FactTexts,      \* contents
    FactMissions,   \* missions; 0 stands for none
    TopK,           \* results per query
    ChunkSize,      \* max_chunk_size
    ChunkOverlap,   \* chunk_overlap
    MaxFacts,       \* bound on records
    MaxDocs,        \* bound on indexed documents
    MaxLength       \* bound on the length of a document being chunked

ASSUME ChunkAssumption == /\ ChunkSize \in Nat \ {0} /\ ChunkOverlap \in Nat
                          /\ 2 * ChunkOverlap <= ChunkSize
ASSUME TopKAssumption == TopK \in Nat

VARIABLES
    facts,      \* memory records, oldest first: [text, mission, layer, status]
    docs,       \* every document ever indexed: [text, mission, layer, tagged, held]
    chunks,     \* the documents whose chunks are in the vector index
    hashes,     \* text -> the document that _doc_hash_index names, 0 when none
    pieces,     \* the chunks cut so far from a document: <<start, end>>
    cursor      \* the chunker: [length, start]

retrievalVars == <<facts, docs, chunks, hashes, pieces, cursor>>

Layers == {"working", "semantic"}
RetrievalInit ==
    /\ facts = <<>> /\ docs = <<>> /\ chunks = {} /\ hashes = [t \in FactTexts |-> 0]
    /\ pieces = <<>> /\ cursor = [length |-> 0, start |-> 0]

------------------------------------------------------------------------------
\* MemoryKernel.write: committed records of the same scope with other content are
\* superseded.  A global write looks at every record.
InScope(i, m) == m = 0 \/ facts[i].mission = m
FactWrite(text, m, layer) ==
    /\ Len(facts) < MaxFacts
    /\ facts' = Append([i \in DOMAIN facts |->
                          IF InScope(i, m) /\ facts[i].status = "committed" /\ facts[i].text # text
                          THEN [facts[i] EXCEPT !.status = "superseded"] ELSE facts[i]],
                       [text |-> text, mission |-> m, layer |-> layer, status |-> "committed"])
    /\ UNCHANGED <<docs, chunks, hashes, pieces, cursor>>
\* clear_working_for_mission: whatever their status was.
FactsCleared(m) ==
    /\ \E i \in DOMAIN facts : InScope(i, m) /\ facts[i].layer = "working"
    /\ facts' = [i \in DOMAIN facts |-> IF InScope(i, m) /\ facts[i].layer = "working"
                                        THEN [facts[i] EXCEPT !.status = "cleared"] ELSE facts[i]]
    /\ UNCHANGED <<docs, chunks, hashes, pieces, cursor>>

\* index_document: content already indexed under its hash is not indexed again.
NeverIndexed(text) == FALSE
Indexed(text) == hashes[text] # 0
IndexDocument(text, m, layer, tagged) ==
    /\ Len(docs) < MaxDocs /\ ~Indexed(text)
    /\ docs' = Append(docs, [text |-> text, mission |-> m, layer |-> layer, tagged |-> tagged, held |-> TRUE])
    /\ chunks' = chunks \cup {Len(docs) + 1}
    /\ hashes' = [hashes EXCEPT ![text] = Len(docs) + 1]
    /\ UNCHANGED <<facts, pieces, cursor>>
\* sync_to_rag indexes one committed record after another; a Document made this way
\* is in the default layer, whatever its kind.
SyncToRag(i) ==
    /\ facts[i].status = "committed" /\ IndexDocument(facts[i].text, facts[i].mission, "semantic", FALSE)
\* ingest takes the layer from the kind.
Ingest(text, m, layer, tagged) == IndexDocument(text, m, layer, tagged)
\* clear_working_memory: _chunk_to_doc is never filled, so no chunk is removed, and
\* the hash index is not touched.
ClearWorkingMemory ==
    /\ \E d \in DOMAIN docs : docs[d].held /\ docs[d].layer = "working"
    /\ docs' = [d \in DOMAIN docs |-> IF docs[d].layer = "working" THEN [docs[d] EXCEPT !.held = FALSE] ELSE docs[d]]
    /\ UNCHANGED <<facts, chunks, hashes, pieces, cursor>>

\* VectorIndex.search: the layer and the access tag are checked on the chunk, then
\* the best TopK of what is similar enough are kept.
Admissible(layers, tags) ==
    {d \in chunks : (layers # {} => docs[d].layer \in layers) /\ (tags => docs[d].tagged)}
Similar(S) == {T \in SUBSET S : Cardinality(T) <= TopK}
Best(S) == IF Cardinality(S) <= TopK THEN {S} ELSE kSubset(TopK, S)
AsHit(d) == [text |-> docs[d].text, mission |-> docs[d].mission, layer |-> docs[d].layer,
             cited |-> docs[d].held]
\* query, by the sets it may return; a result that still has its document is cited.
RagQuery(layers, tags) == {{AsHit(d) : d \in top} : top \in Similar(Admissible(layers, tags))}

\* _keyword_search: records that are not superseded.
Keyword(text, layers, m) ==
    {i \in DOMAIN facts : /\ facts[i].status # "superseded" /\ InScope(i, m) /\ facts[i].text = text
                          /\ (layers # {} => facts[i].layer \in layers)}
\* MemoryLayerManager.search: the index first, kept to the mission; the keyword
\* search when nothing is left.
OfAnyMission(S, m) == S
OfMission(S, m) == {h \in S : m # 0 => h.mission = m}
FactHit(i) == [text |-> facts[i].text, mission |-> facts[i].mission, layer |-> facts[i].layer, cited |-> FALSE]
LayerSearch(text, layers, m) ==
    LET kept == {OfMission(found, m) : found \in RagQuery(layers, FALSE)}
    IN (kept \ {{}}) \cup
       (IF {} \in kept THEN {{FactHit(i) : i \in best} : best \in Best(Keyword(text, layers, m))} ELSE {})

------------------------------------------------------------------------------
\* knowledge.py, over the records of a scope.
Canonical(m) == {i \in DOMAIN facts : InScope(i, m) /\ facts[i].status = "committed"}
DetectSupersession(text, m) ==
    IF Canonical(m) = {} THEN "new"
    ELSE IF \E i \in Canonical(m) : facts[i].text = text THEN "duplicate" ELSE "supersedes"
Conflicts(text, m) == {i \in Canonical(m) : facts[i].text # text}
\* validate_commit of an otherwise well-formed commit.
CommitValid(text, m, auto) == ~(auto /\ Conflicts(text, m) # {})
\* query_non_superseded: the newest committed record of the key.
NonSuperseded(m) == IF Canonical(m) = {} THEN {} ELSE {Max(Canonical(m))}

------------------------------------------------------------------------------
\* chunk: from start to at most ChunkSize further, or to a separator in the second
\* half of that range; the next chunk starts ChunkOverlap before the end.
ChunkEndsAnywhere(start, length) == (start + 1)..(IF start + ChunkSize >= length THEN length ELSE start + ChunkSize)
ChunkEnds(start, length) ==
    LET limit == start + ChunkSize
    IN IF limit >= length THEN {length}
       ELSE (start + ChunkSize \div 2 + 1)..limit
ChunkBegins(length) ==
    /\ cursor.length = 0 /\ cursor' = [length |-> length, start |-> 0] /\ pieces' = <<>>
    /\ UNCHANGED <<facts, docs, chunks, hashes>>
ChunkStep ==
    /\ cursor.start < cursor.length
    /\ \E end \in ChunkEnds(cursor.start, cursor.length) :
         /\ pieces' = Append(pieces, <<cursor.start, end>>)
         /\ cursor' = [cursor EXCEPT !.start = IF end < cursor.length THEN end - ChunkOverlap ELSE cursor.length]
    /\ UNCHANGED <<facts, docs, chunks, hashes>>

RetrievalNext ==
    \/ \E t \in FactTexts, m \in FactMissions, layer \in Layers :
         \/ FactWrite(t, m, layer)
         \/ \E tagged \in BOOLEAN : Ingest(t, m, layer, tagged)
    \/ \E m \in FactMissions \ {0} : FactsCleared(m)
    \/ \E i \in DOMAIN facts : SyncToRag(i)
    \/ ClearWorkingMemory
ChunkNext == ChunkStep \/ \E n \in 1..MaxLength : ChunkBegins(n)
RetrievalSpec == RetrievalInit /\ [][RetrievalNext \/ ChunkNext]_retrievalVars

------------------------------------------------------------------------------
Facts == [text : FactTexts, mission : FactMissions, layer : Layers,
          status : {"committed", "superseded", "cleared"}]
Documents == [text : FactTexts, mission : FactMissions, layer : Layers, tagged : BOOLEAN, held : BOOLEAN]

\* The state keeps its shape, and only chunks of documents are in the index.
RetrievalTypeOK ==
    /\ facts \in Seq(Facts) /\ docs \in Seq(Documents) /\ chunks \subseteq DOMAIN docs
    /\ hashes \in [FactTexts -> Nat]
    /\ pieces \in Seq(Nat \X Nat) /\ cursor \in [length : Nat, start : Nat]

\* A search for a mission returns nothing of another mission, one for a layer nothing
\* of another layer, from the index or from the fallback, and never more than TopK;
\* only tagged content is returned where a tag is asked for; a citation names a
\* document that is held.
LayerFilters == {{}} \cup {{l} : l \in Layers}
SearchIsScoped ==
    \A layers \in LayerFilters :
      /\ \A t \in FactTexts, m \in FactMissions : \A hits \in LayerSearch(t, layers, m) :
           /\ m # 0 => \A h \in hits : h.mission = m
           /\ layers # {} => \A h \in hits : h.layer \in layers
           /\ Cardinality(hits) <= TopK
      /\ \A hits \in RagQuery(layers, TRUE) : \A h \in hits :
           \E d \in DOMAIN docs : docs[d].tagged /\ docs[d].text = h.text /\ (h.cited => docs[d].held)
\* No content is in the index twice, every document still held can be found, and what
\* the hash index names has its chunks.
IndexAgrees ==
    /\ \A d, e \in DOMAIN docs : docs[d].text = docs[e].text => d = e
    /\ \A d \in DOMAIN docs : docs[d].held => d \in chunks
    /\ \A t \in FactTexts : hashes[t] # 0 => hashes[t] \in chunks /\ docs[hashes[t]].text = t
\* With writes of one key scoped as they are: a committed record of another content is
\* left only where the later write was of another mission, so within one mission the
\* canonical records agree; an automatic commit that is valid supersedes nothing; and
\* the non-superseded record is committed and newer than every other.
KnowledgeAgrees ==
    \A m \in FactMissions :
      /\ m # 0 => \A i, j \in Canonical(m) : facts[i].text = facts[j].text
      /\ \A t \in FactTexts : CommitValid(t, m, TRUE) => DetectSupersession(t, m) # "supersedes"
      /\ \A i \in NonSuperseded(m), j \in Canonical(m) : j <= i
\* The chunks leave no gap, none is longer than ChunkSize, and each starts after the
\* one before it, so the loop of chunk ends.
ChunksCover ==
    /\ pieces # <<>> => pieces[1][1] = 0
    /\ \A i \in DOMAIN pieces : pieces[i][2] - pieces[i][1] <= ChunkSize /\ pieces[i][1] < pieces[i][2]
    /\ \A i \in 1..(Len(pieces) - 1) : pieces[i][1] < pieces[i + 1][1] /\ pieces[i + 1][1] <= pieces[i][2]
    /\ pieces # <<>> /\ cursor.start = cursor.length => pieces[Len(pieces)][2] = cursor.length

RetrievalSound == SearchIsScoped /\ IndexAgrees /\ KnowledgeAgrees /\ ChunksCover
=============================================================================
