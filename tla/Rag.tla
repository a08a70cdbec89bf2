-------------------------------- MODULE Rag --------------------------------
(***************************************************************************)
(* RAGPipeline: documents are cut into chunks, which are kept twice, in a  *)
(* vector store under the id of the chunk and in a BM25 index to which     *)
(* they are appended; a query reads one or both.                           *)
(*                                                                         *)
(* Scores are not modelled: of the chunks there are, dense retrieval may   *)
(* rank any first, and so may BM25 of those that have a word of the query. *)
(***************************************************************************)
EXTENDS Integers, FiniteSets, SequencesExt

CONSTANTS
    Documents,       \* doc_id
    Editions,        \* the texts a document is ingested with: each a sequence
                     \* of chunks, as the chunker cuts them
    Matching,        \* the chunks with a word of the query
    TopK,            \* top_k
    MaxIndexed       \* the most chunks indexed (a bound of the model)

ASSUME RagAssumption ==
    /\ Editions \subseteq Seq(UNION {ToSet(e) : e \in Editions})
    /\ TopK \in Nat /\ MaxIndexed \in Nat

VARIABLES
    strategy,        \* config.retrieval_strategy
    store,           \* InMemoryVectorStore: the chunk under each id
    file,            \* what save has written: nothing, or a store
    index,           \* BM25Retriever._documents
    retrieved        \* what the last retrieve returned

ragVars == <<strategy, store, file, index, retrieved>>

NoStore == [id \in {} |-> {}]
Entries == {[id |-> id, text |-> store[id]] : id \in DOMAIN store}

\* The k best of a set of results, whichever these are.
Best(k, results) ==
    {best \in SUBSET results :
        Cardinality(best) = IF k < Cardinality(results) THEN k
                            ELSE Cardinality(results)}

RagInit ==
    /\ strategy \in {"dense", "sparse", "hybrid"}
    /\ store = NoStore
    /\ file = {}
    /\ index = <<>>
    /\ retrieved = {}

ChunksOf(d, edition) ==
    [i \in DOMAIN edition |-> [id |-> <<d, i - 1>>, text |-> edition[i]]]

\* Mutant: a chunk id that is indexed already is not indexed again.
IngestOnce(d, edition) ==
    LET chunks == ChunksOf(d, edition)
        known == {index[i].id : i \in DOMAIN index}
        ids == {chunks[i].id : i \in DOMAIN chunks}
    IN  /\ Len(index) + Len(chunks) <= MaxIndexed
        /\ store' = [id \in DOMAIN store \cup ids |->
                        IF id \in ids THEN edition[id[2] + 1] ELSE store[id]]
        /\ index' = index \o SelectSeq(chunks, LAMBDA c : c.id \notin known)
        /\ UNCHANGED <<strategy, file, retrieved>>

\* ingest: chunk ids are made of the document's and a number, so a document that
\* is ingested again overwrites chunks of the store, leaves those it has fewer
\* of, and is appended to the index.  It raises before it stores anything.
Ingest(d, edition) ==
    LET chunks == ChunksOf(d, edition)
        ids == {chunks[i].id : i \in DOMAIN chunks}
    IN  /\ Len(index) + Len(chunks) <= MaxIndexed
        /\ store' = [id \in DOMAIN store \cup ids |->
                        IF id \in ids THEN edition[id[2] + 1] ELSE store[id]]
        /\ index' = index \o chunks
        /\ UNCHANGED <<strategy, file, retrieved>>

\* InMemoryVectorStore.search, BM25Retriever.retrieve.
Dense(k) == Best(k, Entries)

Sparse(k) ==
    LET hit == {i \in DOMAIN index : index[i].text \in Matching}
    IN  {{index[i] : i \in best} : best \in Best(k, hit)}

\* Mutant: results are fused by their text.
FusionsByText(dense, sparse) ==
    {dense \cup {s \in sparse : \A d \in dense : d.text # s.text}}

\* HybridRetriever.retrieve: fused by id, with the text of the dense result, or
\* else of the first of the sparse results of that id, whichever ranks first.
Fusions(dense, sparse) ==
    LET others == {s \in sparse : \A d \in dense : d.id # s.id}
        Once(f) == /\ {r.id : r \in f} = {r.id : r \in others}
                   /\ \A r, s \in f : r.id = s.id => r = s
    IN  {dense \cup f : f \in {g \in SUBSET others : Once(g)}}

\* retrieve, and with it query and stream_query, which put what is retrieved
\* into the prompt.
Retrieve ==
    /\ \/ strategy = "dense" /\ retrieved' \in Dense(TopK)
       \/ strategy = "sparse" /\ retrieved' \in Sparse(TopK)
       \/ /\ strategy = "hybrid"
          /\ \E d \in Dense(2 * TopK), s \in Sparse(2 * TopK) :
                \E f \in Fusions(d, s) : retrieved' \in Best(TopK, f)
    /\ UNCHANGED <<strategy, store, file, index>>

\* clear: of the vector store only.
ClearStore ==
    /\ store' = NoStore
    /\ UNCHANGED <<strategy, file, index, retrieved>>

\* InMemoryVectorStore.delete, save, load.
DeleteChunk(id) ==
    /\ store' = [i \in DOMAIN store \ {id} |-> store[i]]
    /\ UNCHANGED <<strategy, file, index, retrieved>>

SaveStore ==
    /\ file' = {store}
    /\ UNCHANGED <<strategy, store, index, retrieved>>

LoadStore ==
    /\ file # {}
    /\ store' \in file
    /\ UNCHANGED <<strategy, file, index, retrieved>>

RagNext ==
    \/ \E d \in Documents, e \in Editions : Ingest(d, e)
    \/ Retrieve
    \/ ClearStore
    \/ \E id \in DOMAIN store : DeleteChunk(id)
    \/ SaveStore
    \/ LoadStore

RagSpec == RagInit /\ [][RagNext]_ragVars

-----------------------------------------------------------------------------
\* Both halves of the pipeline have what is stored: a chunk of the vector store
\* is indexed with the same text, through ingesting again, deletion, save and
\* load, so no strategy misses a chunk that another finds.
StoredIsIndexed == Entries \subseteq ToSet(index)

\* What one retrieve returns: at most TopK results; with dense retrieval only
\* what is stored; and with fusion no chunk id twice, so that the prompt has no
\* chunk beside an older edition of it.
ResultsConsistent ==
    [][Retrieve =>
          /\ Cardinality(retrieved') <= TopK
          /\ strategy = "dense" => retrieved' \subseteq Entries
          /\ strategy = "hybrid" =>
                \A r, s \in retrieved' : r.id = s.id => r = s]_ragVars

\* Docstring of clear: "Clear all stored documents."  What is retrieved is
\* stored.
ClearedIsGone == [][Retrieve => {r.id : r \in retrieved'} \subseteq DOMAIN store]_ragVars
=============================================================================
