--------------------------- MODULE ContextEngine ---------------------------
(***************************************************************************)
(* The context engine: one BuildContext request, which fits a text into a  *)
(* budget of tokens by truncation, by retrieval of one paragraph, or by    *)
(* putting the sentences the query hits before a compression of the rest.  *)
(*                                                                         *)
(* A text is a sequence of sentences (of paragraphs, for retrieval), and a *)
(* sentence a number of tokens that no other sentence has; equal sentences *)
(* are the same one.  The tokens of a joined text are those of its parts,  *)
(* and a blank line is one token.  Which words the query has matters only  *)
(* by the hits they have in each sentence.                                 *)
(***************************************************************************)
EXTENDS Ordering, SequencesExt

CONSTANTS
    Sentences,       \* sentences
    Size,            \* how many tokens each has
    Hits,            \* how many of the query's words each contains
    Texts,           \* the texts of requests: sequences of sentences
    Budgets,         \* the budgets of requests, 0 when not set
    DefaultBudget,   \* 1024
    KeyCount,        \* top_k of select_relevant, 3
    Levels,          \* levels and max_chars of compress_tiered: how many
    Cuts             \* sentences each level reaches, and how much it keeps

ASSUME ContextAssumption ==
    /\ Size \in [Sentences -> Nat \ {0}] /\ Hits \in [Sentences -> Nat]
    /\ Budgets \subseteq Int /\ DefaultBudget \in Nat \ {0} /\ KeyCount \in Nat
    /\ Texts \subseteq Seq(Sentences) /\ "sink" \notin Sentences
    /\ Levels \in Seq(Nat) /\ Cuts \in Seq(Nat \ {0}) /\ Len(Levels) = Len(Cuts)

Layered == {"project_topic", "attention_sink", "sink_topic"}
Retrieving == {"bm25_top1", "keyword_top1"}
Strategies == Layered \cup Retrieving \cup {"truncation", "", "other"}

VARIABLES
    request,         \* BuildContextRequest
    response         \* BuildContextResponse, None before it is sent

contextVars == <<request, response>>

Pending == [status |-> "pending", context |-> <<>>]
Sink == <<"sink", 0>>

Tokens(s) == [k \in 1 .. Size[s] |-> <<s, k>>]

Joined(chunks) == FlattenSeq([i \in DOMAIN chunks |-> Tokens(chunks[i])])

\* truncate: the last budget tokens.  In Python tokens[-0:] is everything, and a
\* negative budget drops that many tokens from the front.
Truncate(tokens, budget) ==
    IF Len(tokens) <= budget \/ budget = 0 THEN tokens
    ELSE IF budget > 0
         THEN SubSeq(tokens, Len(tokens) - budget + 1, Len(tokens))
         ELSE SubSeq(tokens, 1 - budget, Len(tokens))

\* select_relevant: the sentences with most hits, of equals the earlier.
SelectRelevant(chunks, query, k) ==
    LET hit == {i \in DOMAIN chunks : query /\ Hits[chunks[i]] > 0}
        before == {p \in hit \X hit :
                      \/ Hits[chunks[p[1]]] > Hits[chunks[p[2]]]
                      \/ Hits[chunks[p[1]]] = Hits[chunks[p[2]]] /\ p[1] < p[2]}
        count == IF k < Cardinality(hit) THEN k ELSE Cardinality(hit)
    IN  [n \in 1 .. count |-> chunks[InOrder(hit, before)[n]]]

\* [c for c in chunks if c not in key].
Others(chunks, key) ==
    LET other == {i \in DOMAIN chunks : ~Contains(key, chunks[i])}
    IN  [n \in 1 .. Cardinality(other) |-> chunks[Ascending(other)[n]]]

\* What compress_tiered keeps of a sentence that is the turn-th newest.
Tiered(s, turn) ==
    LET level == {l \in DOMAIN Levels : turn <= Levels[l]}
    IN  IF level = {} THEN <<>>
        ELSE LET cut == Cuts[CHOOSE l \in level : \A m \in level : l <= m]
             IN  SubSeq(Tokens(s), 1, IF cut < Size[s] THEN cut ELSE Size[s])

\* Mutant: a sentence that does not fit is skipped, and older ones are tried.
CompressTieredSkips(chunks, budget) ==
    FoldLeft(LAMBDA kept, turn :
                 LET part == Tiered(chunks[Len(chunks) + 1 - turn], turn)
                 IN  IF Len(part) + Len(kept) <= budget THEN part \o kept ELSE kept,
             <<>>, [turn \in DOMAIN chunks |-> turn])

\* compress_tiered: from the newest on, until one does not fit.
CompressTiered(chunks, budget) ==
    LET part(turn) == Tiered(chunks[Len(chunks) + 1 - turn], turn)
        result(turns) == FlattenSeq([i \in 1 .. turns |-> part(turns + 1 - i)])
        fitting == {n \in 0 .. Len(chunks) : \A m \in 1 .. n :
                       part(m) = <<>> \/ Len(result(m)) <= budget}
    IN  result(CHOOSE n \in fitting : \A m \in fitting : m <= n)

\* Mutant: the key sentences do not count against the budget of the others.
LayoutUncounted(text, query, budget, sink) ==
    LET key == SelectRelevant(text, query, KeyCount)
        other == Others(text, key)
        keyText == Truncate(Joined(key), budget)
        rest == CompressTiered(other, budget)
    IN  IF sink
        THEN <<Sink>> \o keyText \o (IF rest = <<>> THEN <<>> ELSE <<Sink>> \o rest)
        ELSE keyText \o rest

\* build_context for the three layouts: key sentences, cut to the budget, then
\* the others, compressed into what the key leaves; the sink is not counted.
Layout(text, query, budget, sink) ==
    LET key == SelectRelevant(text, query, KeyCount)
        other == Others(text, key)
        keySize == Len(Joined(key))
        keyText == IF keySize > budget THEN Truncate(Joined(key), budget)
                   ELSE Joined(key)
        left == IF keySize > budget THEN 0 ELSE budget - keySize
        rest == CompressTiered(other, left)
    IN  IF sink
        THEN <<Sink>> \o keyText \o (IF rest = <<>> THEN <<>> ELSE <<Sink>> \o rest)
        ELSE keyText \o rest

\* KeywordContextRetriever: the paragraph with most hits, of equals the earlier.
KeywordTop(text, query) == SelectRelevant(text, query, 1)

\* BM25ContextRetriever weighs a word by how rare it is and how long the
\* paragraph: any of those with a hit may have the best score.
BM25Tops(text, query) ==
    LET hit == {i \in DOMAIN text : query /\ Hits[text[i]] > 0}
    IN  IF hit = {} THEN {<<>>} ELSE {<<text[i]>> : i \in hit}

\* ContextPipeline.build_with_metadata: the contexts there may be.
Contexts(text, query, budget, strategy) ==
    CASE strategy = "truncation" -> {Truncate(Joined(text), budget)}
      [] strategy = "keyword_top1" ->
            {Truncate(Joined(KeywordTop(text, query)), budget)}
      [] strategy = "bm25_top1" ->
            {Truncate(Joined(top), budget) : top \in BM25Tops(text, query)}
      [] strategy \in Layered ->
            {IF text = <<>> THEN <<>>
             ELSE Layout(text, query, budget, strategy # "project_topic")}

-----------------------------------------------------------------------------
ContextInit ==
    /\ request \in [text : Texts, query : BOOLEAN, budget : Budgets,
                    strategy : Strategies]
    /\ response = Pending

\* ContextEngineServicer.BuildContext: defaults for what is not set, and
\* INVALID_ARGUMENT for a strategy there is not.
Strategy == IF request.strategy = "" THEN "truncation" ELSE request.strategy
Budget == IF request.budget = 0 THEN DefaultBudget ELSE request.budget

BuildContext ==
    /\ response = Pending
    /\ IF Strategy = "other"
       THEN response' = [status |-> "INVALID_ARGUMENT", context |-> <<>>]
       ELSE \E context \in Contexts(request.text, request.query, Budget, Strategy) :
               response' = [status |-> "OK", context |-> context]
    /\ UNCHANGED request

ContextNext == BuildContext

ContextSpec == ContextInit /\ [][ContextNext]_contextVars

-----------------------------------------------------------------------------
\* "Context string within budget": whatever the strategy, a context has no more
\* tokens than a positive budget, but for the two separators of the sink
\* layouts, which nothing counts.
WithinBudget ==
    response.status = "OK" /\ Budget > 0 =>
        Cardinality({i \in DOMAIN response.context : response.context[i] # Sink}) <= Budget

Kept(s) == \E i \in DOMAIN response.context : response.context[i][1] = s

\* The layouts are what they are for: a sentence the query hits is not lost to
\* one with fewer hits or with none; sentences without a hit come after those
\* with one, and of two of them the newer is kept rather than the older.
RelevantThenNewest ==
    response.status = "OK" /\ Strategy \in Layered /\ Budget > 0 =>
        LET text == request.text
            hits(i) == IF request.query THEN Hits[text[i]] ELSE 0
            key == SelectRelevant(text, request.query, KeyCount)
            place(s) == {i \in DOMAIN response.context : response.context[i][1] = s}
        IN  \A i, j \in DOMAIN text :
               /\ Contains(key, text[i]) /\ ~Contains(key, text[j])
                  => /\ hits(i) >= hits(j)
                     /\ Kept(text[j]) => Kept(text[i])
                     /\ \A m \in place(text[i]), n \in place(text[j]) : m < n
               /\ /\ ~Contains(key, text[i]) /\ ~Contains(key, text[j])
                  /\ i < j /\ Kept(text[i])
                  /\ \A m \in j .. Len(text) : text[m] # text[i]
                  => Kept(text[j])
=============================================================================
