----------------------------- MODULE LongContext -----------------------------
(****************************************************************************)
(* The long-context benchmarks of src/research: how they fit a text into a  *)
(* budget of tokens, where they hide what they ask for, and how they score  *)
(* where it is found.  A text is a sequence of sentences, and of a sentence *)
(* there is the number of words of the question that it has and its tokens; *)
(* two such sentences are the same text.  What a strategy keeps is a        *)
(* sequence of pieces, in the order of the prompt; separators count for     *)
(* nothing but the 2 tokens the code sets aside for them.                   *)
(****************************************************************************)
EXTENDS Ordering, FiniteSetsExt, SequencesExt

CONSTANTS
    Tiers,     \* whole, lightly cut and short are the newest so many: 5, 20, 50
    Cuts,      \* the tokens that a light and a short cut leave, at most
    Marker,    \* the tokens of "[compressed]"
    TopK       \* the key sentences that the best are taken for: 3

ASSUME LongContextAssumption ==
    /\ Tiers \in Seq(Nat) /\ Len(Tiers) = 3 /\ Tiers[1] <= Tiers[2] /\ Tiers[2] <= Tiers[3]
    /\ Cuts \in Seq(Nat \ {0}) /\ Len(Cuts) = 2
    /\ Marker \in Nat \ {0} /\ TopK \in Nat

At(s, places) == LET at == Ascending(places) IN [j \in DOMAIN at |-> s[at[j]]]
Piece(i, size) == [at |-> i, size |-> size]
Whole(text, places) == [j \in DOMAIN places |-> Piece(places[j], text[places[j]].size)]
Total(pieces) == SumFunction([j \in DOMAIN pieces |-> pieces[j].size])

\* The first tokens of some pieces, tok.decode(tokens[:room]).
FirstTokens(pieces, room) ==
    LET Left(j) == room - Total(SubSeq(pieces, 1, j - 1))
        cut == [j \in DOMAIN pieces |-> Piece(pieces[j].at, Min({pieces[j].size, Left(j)}))]
    IN  At(cut, {j \in DOMAIN cut : cut[j].size > 0})

\* tokens[-budget:].
Truncation(text, budget) ==
    Reverse(FirstTokens(Reverse(Whole(text, [i \in DOMAIN text |-> i])), budget))

-----------------------------------------------------------------------------
\* Which sentences are kept before others: those that have a word of the question,
\* or the TopK of them with the most words, the earlier of two that have as many.
MatchingKeys(text) == Ascending({i \in DOMAIN text : text[i].hits > 0})

BestKeys(text) ==
    LET key == {i \in DOMAIN text : text[i].hits > 0}
        before == {p \in key \X key :
                     \/ text[p[1]].hits > text[p[2]].hits
                     \/ text[p[1]].hits = text[p[2]].hits /\ p[1] < p[2]}
        scored == InOrder(key, before)
    IN  [n \in 1 .. Min({TopK, Cardinality(key)}) |-> scored[n]]

\* [s for s in sentences if s not in key]: the same text is not kept twice.
Others(text, key) == {i \in DOMAIN text : \A k \in ToSet(key) : text[i] # text[k]}

\* What is left of a sentence, the turn-th from the newest.
CutAt(turn, size, old) ==
    IF turn <= Tiers[1] THEN size
    ELSE IF turn <= Tiers[2] THEN Min({size, Cuts[1]})
    ELSE IF turn <= Tiers[3] THEN Min({size, Cuts[2]}) ELSE old

Tiered(text, others, old) ==
    [i \in others |-> CutAt(Cardinality({j \in others : j >= i}), text[i].size, old)]
Uncut(text, others) == [i \in others |-> text[i].size]

\* Mutant: a sentence may use one token more than there is.
SkippingOver(sizes, room) ==
    LET last == Max(DOMAIN sizes \cup {0})
        Fits(i, used) == i \in DOMAIN sizes /\ sizes[i] > 0 /\ used + sizes[i] <= room + 1
        used[i \in 1 .. last + 1] ==
            IF i > last THEN 0
            ELSE used[i + 1] + (IF Fits(i, used[i + 1]) THEN sizes[i] ELSE 0)
    IN  {i \in DOMAIN sizes : Fits(i, used[i + 1])}

\* The sentences that are taken from the newest on, leaving out what does not fit.
Skipping(sizes, room) ==
    LET last == Max(DOMAIN sizes \cup {0})
        Fits(i, used) == i \in DOMAIN sizes /\ sizes[i] > 0 /\ used + sizes[i] <= room
        used[i \in 1 .. last + 1] ==
            IF i > last THEN 0
            ELSE used[i + 1] + (IF Fits(i, used[i + 1]) THEN sizes[i] ELSE 0)
    IN  {i \in DOMAIN sizes : Fits(i, used[i + 1])}

\* And up to the first that does not fit, from the newest or from the oldest.
StoppingNewest(sizes, room) ==
    {i \in DOMAIN sizes : SumFunctionOnSet(sizes, {j \in DOMAIN sizes : j >= i}) <= room}
StoppingOldest(sizes, room) ==
    {i \in DOMAIN sizes : SumFunctionOnSet(sizes, {j \in DOMAIN sizes : j <= i}) <= room}

Placed(sizes, kept) == At([i \in DOMAIN sizes |-> Piece(i, sizes[i])], kept)

-----------------------------------------------------------------------------
(* The strategies.                                                          *)

\* longbench_v1: the key sentences and then the newest others that fit;
\* attention_sink and sink_topic are the same with 2 tokens less.
TopicFirst(text, key, budget) ==
    LET sizes == Tiered(text, Others(text, key), 0)
        keys == Whole(text, key)
    IN  keys \o Placed(sizes, Skipping(sizes, budget - Total(keys)))

ChooseStrategy(text, budget, strategy) ==
    CASE strategy = "truncation" -> Truncation(text, budget)
      [] strategy = "project_topic" -> TopicFirst(text, BestKeys(text), budget)
      [] strategy \in {"attention_sink", "sink_topic"} ->
            TopicFirst(text, BestKeys(text), budget - 2)

\* longbench v2 and the real texts: the others go before the key sentences.
TopicLast(text, key, budget) ==
    LET sizes == Tiered(text, Others(text, key), 0)
        keys == Whole(text, key)
    IN  Placed(sizes, Skipping(sizes, budget - Total(keys))) \o keys

\* run_semantic_ablation: project_compress, project_topic, llm_topic, rag, full_pipeline.
ProjectCompress(text, budget) ==
    LET sizes == Tiered(text, DOMAIN text, Marker)
    IN  Placed(sizes, StoppingNewest(sizes, budget))

ProjectTopic(text, key, budget) ==
    LET keys == Whole(text, key)
    IN  IF budget <= Total(keys) THEN FirstTokens(keys, budget) ELSE TopicFirst(text, key, budget)

LlmTopic(text, key, budget) ==
    LET sizes == Uncut(text, Others(text, key))
        keys == Whole(text, key)
    IN  Placed(sizes, StoppingNewest(sizes, budget - Total(keys))) \o keys

RagRetrieval(text, key, budget) ==
    LET sizes == Uncut(text, Others(text, key))
        keys == Whole(text, key)
    IN  keys \o Placed(sizes, StoppingOldest(sizes, budget - Total(keys)))

FullPipeline(text, key, budget) ==
    LET sizes == Tiered(text, Others(text, key), 0)
        keys == Whole(text, key)
        all == keys \o Placed(sizes, {i \in DOMAIN sizes : sizes[i] > 0})
    IN  IF Total(all) <= budget THEN all
        ELSE IF Total(keys) <= budget THEN FirstTokens(keys, budget) ELSE FirstTokens(keys, budget - 2)

\* run_ablation_v2: what is old leaves a marker, where there is room for one.
ProjectWithTopic(text, key, budget) ==
    LET sizes == Tiered(text, Others(text, key), Marker)
        keys == Whole(text, key)
    IN  IF budget <= Total(keys) THEN FirstTokens(keys, budget)
        ELSE keys \o Placed(sizes, Skipping(sizes, budget - Total(keys)))

\* loong: key blocks in order, the first that does not fit is cut; _fit_to_budget
\* does not count the tokens of the cut block.
FitToBudget(blocks, budget) ==
    [pieces |-> FirstTokens(blocks, budget),
     total |-> Max({0} \cup {t \in {Total(SubSeq(blocks, 1, j)) : j \in DOMAIN blocks} : t <= budget})]

LoongTopic(text, key, budget) ==
    LET sizes == Tiered(text, Others(text, key), 0)
        keys == FitToBudget(Whole(text, key), budget)
    IN  keys.pieces \o Placed(sizes, Skipping(sizes, budget - keys.total))

LoongSink(text, key, budget) ==
    LET sizes == Tiered(text, Others(text, key), 0)
        keys == FitToBudget(Whole(text, key), budget \div 2)
    IN  keys.pieces \o Placed(sizes, Skipping(sizes, budget - keys.total - 2))

-----------------------------------------------------------------------------
\* insert_needles_mixed: the sentences before each of k needles, and after the last.
InsertNeedles(n, k) ==
    LET at[i \in 0 .. k] == IF i = 0 THEN 0
                            ELSE Max({at[i - 1], Min({(i * n) \div (k + 1), n - 1})})
        upto == [i \in 1 .. k + 1 |-> IF i <= k THEN at[i] ELSE n]
    IN  [i \in 1 .. k + 1 |-> [j \in 1 .. upto[i] - at[i - 1] |-> at[i - 1] + j]]

\* compute_position_recall and compute_position_bias; a result is found or not, in
\* the front half or in the back half.
Correct(results, half) == Cardinality({i \in half : results[i].correct})
FrontHalf(results) == {i \in DOMAIN results : results[i].front}
BackHalf(results) == DOMAIN results \ FrontHalf(results)
Share(results, half) == <<Correct(results, half), Max({Cardinality(half), 1})>>

PositionRecall(results) ==
    IF results = <<>>
    THEN [overall |-> <<0, 1>>, front_half |-> <<0, 1>>, back_half |-> <<0, 1>>]
    ELSE [overall |-> Share(results, DOMAIN results),
          front_half |-> Share(results, FrontHalf(results)),
          back_half |-> Share(results, BackHalf(results))]

PositionBias(results) ==
    LET f == Share(results, FrontHalf(results)) b == Share(results, BackHalf(results))
    IN  <<f[1] * b[2] - b[1] * f[2], f[2] * b[2]>>

\* compression_tradeoff: twice the area under the sorted points.
CompressionTradeoff(results) ==
    LET before == {p \in (DOMAIN results) \X (DOMAIN results) :
                      \/ results[p[1]].ratio < results[p[2]].ratio
                      \/ results[p[1]].ratio = results[p[2]].ratio /\ p[1] < p[2]}
        order == InOrder(DOMAIN results, before)
        Step(i) == LET a == results[order[i]] b == results[order[i + 1]]
                   IN  (b.ratio - a.ratio) * (b.recall + a.recall)
    IN  SumFunction([i \in 1 .. Len(results) - 1 |-> Step(i)])

-----------------------------------------------------------------------------
\* What each strategy keeps, with the key sentences its benchmark gives it.
Strategies(text, budget) ==
    LET best == BestKeys(text)
        match == MatchingKeys(text)
    IN  << ChooseStrategy(text, budget, "truncation"), ProjectCompress(text, budget),
           ProjectTopic(text, match, budget), FullPipeline(text, match, budget),
           ProjectWithTopic(text, match, budget),
           TopicLast(text, match, budget), LlmTopic(text, match, budget),
           RagRetrieval(text, match, budget),
           ChooseStrategy(text, budget, "project_topic"),
           ChooseStrategy(text, budget, "sink_topic") >>

\* What a budget means.  No strategy exceeds it, but for key sentences that all of
\* the first kind keep whatever they have; the two of loong exceed it when a key
\* block was cut.  What is left out would not have fit in the end, a token more
\* never means that fewer are kept, and no sentence with more words of the
\* question is left out for one with fewer.
FitsBudget(text, budget) ==
    LET best == BestKeys(text)
        match == MatchingKeys(text)
        Keys(key) == Total(Whole(text, key))
        kept == Strategies(text, budget)
        fewer == Strategies(text, budget - 1)
    IN  /\ \A s \in 1 .. 5 : Total(kept[s]) <= budget
        /\ \A s \in 6 .. 8 : Total(kept[s]) <= Max({budget, Keys(match)})
        /\ Total(kept[9]) <= Max({budget, Keys(best)})
        /\ Total(kept[10]) + 2 <= Max({budget, Keys(best) + 2})
        /\ \A s \in 1 .. 10 : Total(fewer[s]) <= Total(kept[s])
        /\ Keys(match) <= budget => Total(LoongTopic(text, match, budget)) <= budget
        /\ Keys(match) <= budget \div 2 =>
              Total(LoongSink(text, match, budget)) + 2 <= Max({budget, Keys(match) + 2})
        /\ LET others == Others(text, best)
               sizes == Tiered(text, others, 0)
           IN  \A i \in others : \/ \E j \in DOMAIN kept[9] : kept[9][j].at = i
                                 \/ sizes[i] = 0
                                 \/ Total(kept[9]) + sizes[i] > budget
        /\ \A k \in ToSet(best), i \in DOMAIN text \ ToSet(best) :
              text[i].hits <= text[k].hits

\* Hiding needles loses no sentence and keeps their order.
NeedlesHidden(n, k) == FlattenSeq(InsertNeedles(n, k)) = [i \in 1 .. n |-> i]

\* The halves are the whole, weighted, and a text read backwards has the opposite bias.
HalvesAgree(results) ==
    LET recall == PositionRecall(results)
        f == Cardinality(FrontHalf(results)) b == Cardinality(BackHalf(results))
        mirrored == [i \in DOMAIN results |-> [results[i] EXCEPT !.front = ~@]]
        bias == PositionBias(results)
        other == PositionBias(mirrored)
    IN  /\ results # <<>> =>
              recall.overall[1] * recall.front_half[2] * recall.back_half[2]
                 = (recall.front_half[1] * f * recall.back_half[2]
                    + recall.back_half[1] * b * recall.front_half[2])
        /\ bias[1] * other[2] = - other[1] * bias[2]

\* The area is that on both sides of any ratio measured, in whatever order the
\* results come, and between that of the worst and that of the best recall.
AreaAgrees(results) ==
    LET area == CompressionTradeoff(results)
        ratios == {results[i].ratio : i \in DOMAIN results}
        recalls == {results[i].recall : i \in DOMAIN results}
    IN  Cardinality(ratios) = Len(results) /\ results # <<>> =>
          /\ CompressionTradeoff(Reverse(results)) = area
          /\ area <= 2 * Max(recalls) * (Max(ratios) - Min(ratios))
          /\ area >= 2 * Min(recalls) * (Max(ratios) - Min(ratios))
          /\ \A x \in ratios :
                area = CompressionTradeoff(At(results, {i \in DOMAIN results : results[i].ratio <= x}))
                       + CompressionTradeoff(At(results, {i \in DOMAIN results : results[i].ratio >= x}))
=============================================================================
