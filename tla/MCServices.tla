----------------------------- MODULE MCServices -----------------------------
(* Small instances, for one run of TLC, of the parts that the Python        *)
(* services answer with and that share no state: an inference engine, one   *)
(* call of speculate, a cache of tensors; a request to the context engine,  *)
(* a document that is chunked, a RAG pipeline.  A behaviour is one of the   *)
(* part that Init chooses.                                                  *)
EXTENDS Engine, Speculative, TensorCache, ContextEngine, Chunker, Rag, TLC

VARIABLE part

inferenceVars == <<engineVars, specVars, cacheVars>>
retrievalVars == <<contextVars, chunkerVars, ragVars>>
allVars == <<inferenceVars, retrievalVars, part>>

\* Texts that share nothing, all, or more than half of a key.
MCKeys == {<<1>>, <<1, 2, 1>>, <<2>>}

\* Two sentences with hits, one without; the longest does not fit every budget.
MCSize == "s1" :> 2 @@ "s2" :> 1 @@ "s3" :> 3
MCHits == "s1" :> 1 @@ "s2" :> 2 @@ "s3" :> 0
MCTexts == UNION {[1 .. n -> Sentences] : n \in 0 .. 4}
MCBudgets == {-1, 0, 1, 2, 4}
MCLevels == <<1, 2, 3>>
MCCuts == <<3, 2, 1>>
MCEditions == {<<"a">>, <<"b", "a">>}

AnyRequest == CHOOSE r \in [text : {<<>>}, query : {FALSE}, budget : {0},
                            strategy : {""}] : TRUE

MCInit ==
    /\ part \in {"engine", "speculative", "cache", "context", "chunker", "rag"}
    /\ EngineInit /\ SpeculativeInit /\ CacheInit /\ RagInit
    /\ part # "engine" => ~installed
    /\ part # "speculative" => models = {}
    /\ part # "cache" => class = "KVCache"
    /\ part # "rag" => strategy = "dense"
    /\ IF part = "context" THEN ContextInit
       ELSE request = AnyRequest /\ response = Pending
    /\ IF part = "chunker" THEN ChunkerInit
       ELSE chunker = "recursive" /\ document = <<>> /\ size = 1 /\ overlap = 0 /\ chunks = NoChunks

MCNext ==
    \/ /\ part = "engine" /\ EngineNext
       /\ UNCHANGED <<specVars, cacheVars, retrievalVars, part>>
    \/ /\ part = "speculative" /\ SpeculativeNext
       /\ UNCHANGED <<engineVars, cacheVars, retrievalVars, part>>
    \/ /\ part = "cache" /\ CacheNext
       /\ UNCHANGED <<engineVars, specVars, retrievalVars, part>>
    \/ /\ part = "context" /\ ContextNext
       /\ UNCHANGED <<inferenceVars, chunkerVars, ragVars, part>>
    \/ /\ part = "chunker" /\ ChunkerNext
       /\ UNCHANGED <<inferenceVars, contextVars, ragVars, part>>
    \/ /\ part = "rag" /\ RagNext
       /\ UNCHANGED <<inferenceVars, contextVars, chunkerVars, part>>

MCFairness ==
    /\ \A c \in Calls : WF_allVars(part = "engine" /\ CallStep(c)
           /\ UNCHANGED <<specVars, cacheVars, retrievalVars, part>>)
    /\ WF_allVars(part = "speculative" /\ SpeculativeNext
           /\ UNCHANGED <<engineVars, cacheVars, retrievalVars, part>>)

MCSpec == MCInit /\ [][MCNext]_allVars /\ MCFairness

-----------------------------------------------------------------------------
\* CallsEnd, of the calls of an engine; and SpeculationEnds, of the behaviours
\* that speculate.
AnswersEnd == CallsEnd /\ (part = "speculative" => SpeculationEnds)
=============================================================================
