------------------------------ MODULE Metrics ------------------------------
(***************************************************************************)
(* The arithmetic of evaluation and of PPO: operators of the code beside   *)
(* what they are meant to compute.  A score is a pair of whole numbers,    *)
(* numerator and denominator; texts are sequences of words.                *)
(***************************************************************************)
EXTENDS LongContext

CONSTANTS
    Words,           \* the words of a prediction and a reference
    MaxWords,        \* the longest of these (a bound of the model)
    MaxSamples,      \* the most samples of pass@k (a bound of the model)
    MaxSteps,        \* the longest rollout (a bound of the model)
    Sentences,       \* the sentences of a text
    MaxBudget,       \* the largest budget of tokens (a bound of the model)
    Values,          \* rewards and values of a rollout, advantages
    Discounts,       \* gamma and lam, whole
    Ratios,          \* ratios of policies, in percent
    Amounts,         \* KL coefficients, divergences and targets
    Tradeoffs        \* what a strategy of compression is measured to do

ASSUME MetricsAssumption ==
    {MaxWords, MaxSamples, MaxSteps, MaxBudget} \subseteq Nat /\ Values \subseteq Int
    /\ Sentences \subseteq [hits : Nat, size : Nat]
    /\ Discounts \subseteq Int /\ Ratios \subseteq Nat /\ Amounts \subseteq Nat
    /\ Tradeoffs \subseteq [ratio : Nat, recall : Nat]

VARIABLE sample      \* the arguments

\* Mutant: what was found earlier in the row is forgotten.
LcsLengthForgets(a, b) ==
    LET Row(i, above) == [j \in 0 .. Len(b) |->
            IF j = 0 THEN 0
            ELSE IF a[i] = b[j] THEN above[j - 1] + 1 ELSE Max({above[j], above[j - 1]})]
        dp[i \in 0 .. Len(a)] ==
            IF i = 0 THEN [j \in 0 .. Len(b) |-> 0] ELSE Row(i, dp[i - 1])
    IN  dp[Len(a)][Len(b)]

\* _lcs_length: row i of the table from the row above it.
LcsRow(a, b, i, above) ==
    LET row[j \in 0 .. Len(b)] ==
            IF j = 0 THEN 0
            ELSE IF a[i] = b[j] THEN above[j - 1] + 1 ELSE Max({above[j], row[j - 1]})
    IN  row

LcsLength(a, b) ==
    LET dp[i \in 0 .. Len(a)] ==
            IF i = 0 THEN [j \in 0 .. Len(b) |-> 0] ELSE LcsRow(a, b, i, dp[i - 1])
    IN  dp[Len(a)][Len(b)]

\* rouge_1: the bags of words have so much in common.
Count(word, words) == Cardinality({i \in DOMAIN words : words[i] = word})
BagOverlap(p, r) ==
    SumFunction([w \in ToSet(p) \cup ToSet(r) |-> Min({Count(w, p), Count(w, r)})])

\* 2 * precision * recall / (precision + recall), of rouge_1, rouge_l and f1_score.
F1(common, p, r) ==
    IF p = 0 \/ r = 0 \/ common = 0 THEN <<0, 1>>
    ELSE <<2 * common * common, common * p + common * r>>

\* f1_score of one pair: of the sets of words, and 1 when both are empty.
F1Score(p, r) ==
    IF p = <<>> /\ r = <<>> THEN <<1, 1>>
    ELSE F1(Cardinality(ToSet(p) \cap ToSet(r)), Cardinality(ToSet(p)),
            Cardinality(ToSet(r)))

\* exact_match of two lists of the same length.
ExactMatch(p, r) ==
    IF p = <<>> THEN <<1, 1>>
    ELSE <<Cardinality({i \in DOMAIN p : p[i] = r[i]}), Len(p)>>

\* math.comb.
Comb(n, k) ==
    LET c[m \in 0 .. n] ==
            [l \in 0 .. k |-> IF l = 0 THEN 1 ELSE IF m = 0 THEN 0
                              ELSE c[m - 1][l - 1] + c[m - 1][l]]
    IN  c[n][k]

\* pass_at_k, k > n being n.
PassAtK(c, n, k) ==
    LET l == Min({k, n})
    IN  IF c = 0 THEN <<0, 1>> ELSE IF c = n THEN <<1, 1>>
        ELSE <<Comb(n, l) - Comb(n - c, l), Comb(n, l)>>

\* compute_advantages, backwards, for whole numbers gamma and lam.
Advantages(rewards, values, gamma, lam) ==
    LET n == Len(rewards)
        Delta(t) == rewards[t] + gamma * (IF t = n THEN 0 ELSE values[t + 1]) - values[t]
        gae[t \in 1 .. n + 1] == IF t = n + 1 THEN 0
                                 ELSE Delta(t) + gamma * lam * gae[t + 1]
    IN  [t \in 1 .. n |-> gae[t]]

\* compute_ppo_loss of one token: ratios and the clip range in percent.
Surrogate(ratio, advantage, clip) ==
    LET clipped == Max({Min({ratio, 100 + clip}), 100 - clip})
    IN  Min({ratio * advantage, clipped * advantage})

\* compute_kl_divergence: the average of the differences, over the shorter length.
ApproxKL(current, ref) ==
    LET n == Min({Len(current), Len(ref)})
    IN  IF n = 0 THEN <<0, 1>>
        ELSE <<SumFunction([i \in 1 .. n |-> current[i] - ref[i]]), n>>

\* apply_kl_penalty.
Penalized(reward, kl, penalty) == <<reward * kl[2] - penalty * kl[1], kl[2]>>

\* adapt_kl_coefficient: a fifth more or less, of a coefficient in fifths to keep
\* it whole; kl and target are in the same unit.
AdaptKL(coefficient, kl, target) ==
    IF target > 0 /\ 2 * kl > 3 * target THEN 6 * coefficient
    ELSE IF target > 0 /\ 2 * kl < target THEN 4 * coefficient
    ELSE 5 * coefficient

\* average_metrics of one key: results that do not have it count for nothing, and
\* what the first result does not have is not averaged at all.
AverageMetrics(results) ==
    LET have == {i \in DOMAIN results : results[i] # {}}
    IN  IF results = <<>> \/ results[1] = {} THEN <<0, 0>>
        ELSE <<SumFunction([i \in have |-> Max(results[i])]),
               Cardinality(have)>>

\* parse_answer of MMLU, the first letter that stands alone, and of C-Eval, the
\* first letter in any word; a word is a letter, or the letter in it, or none.
ParseMMLU(text) ==
    LET alone == {i \in DOMAIN text : text[i][1] = "alone"}
    IN  IF alone = {} THEN -1 ELSE text[Min(alone)][2]

ParseCEval(text) ==
    LET any == {i \in DOMAIN text : text[i][1] # "none"}
    IN  IF any = {} THEN -1 ELSE text[Min(any)][2]

\* extract_answer of GSM8K: the number that follows the first "answer is" that one
\* follows, or else the last number; a word is a cue, a number, or neither.
ExtractGSM8K(text) ==
    LET number == {i \in DOMAIN text : text[i][1] = "number"}
        said == {i \in number : i > 1 /\ text[i - 1][1] = "cue"}
    IN  IF said # {} THEN text[Min(said)][2]
        ELSE IF number # {} THEN text[Max(number)][2] ELSE -1

-----------------------------------------------------------------------------
WordTexts(words) == UNION {[1 .. n -> words] : n \in 0 .. MaxWords}

MetricsInit == sample = [kind |-> "none"]

Measure ==
    /\ sample.kind = "none"
    /\ \/ \E p, r \in WordTexts(Words) : sample' = [kind |-> "words", p |-> p, r |-> r]
       \/ \E n \in 1 .. MaxSamples, k \in 1 .. MaxSamples + 1 : \E c \in 0 .. n :
             sample' = [kind |-> "passes", c |-> c, n |-> n, k |-> k]
       \/ \E n \in 0 .. MaxSteps : \E r, v \in [1 .. n -> Values] :
             \E gamma, lam \in Discounts :
                sample' = [kind |-> "rollout", r |-> r, v |-> v,
                           gamma |-> gamma, lam |-> lam]
       \/ \E ratio \in Ratios, a \in Values :
             sample' = [kind |-> "ratio", ratio |-> ratio, a |-> a]
       \/ \E n \in 0 .. MaxSteps : \E current, ref \in [1 .. n -> Values], v \in Values :
             sample' = [kind |-> "penalty", current |-> current, ref |-> ref, reward |-> v]
       \/ \E coefficient, target, below, above \in Amounts :
             sample' = [kind |-> "kl", coefficient |-> coefficient, target |-> target,
                        below |-> below, above |-> above]
       \/ \E n \in 0 .. MaxSteps : \E r \in [1 .. n -> {{}} \cup {{v} : v \in Values}] :
             sample' = [kind |-> "average", results |-> r]
       \/ \E t \in WordTexts({<<"none">>} \cup ({"alone", "inside"} \X {0, 1})) :
             sample' = [kind |-> "answer", text |-> t]
       \/ \E t \in WordTexts({<<"none">>, <<"cue">>} \cup ({"number"} \X {0, 1})) :
             sample' = [kind |-> "number", text |-> t]
       \/ \E t \in WordTexts(Sentences), budget \in 3 .. MaxBudget :
             sample' = [kind |-> "context", text |-> t, budget |-> budget]
       \/ \E n \in 1 .. MaxSamples, k \in 0 .. MaxSamples :
             sample' = [kind |-> "needles", n |-> n, k |-> k]
       \/ \E r \in WordTexts([front : BOOLEAN, correct : BOOLEAN]) :
             sample' = [kind |-> "positions", results |-> r]
       \/ \E n \in 0 .. MaxSteps : \E r \in [1 .. n -> Tradeoffs] :
             sample' = [kind |-> "tradeoff", results |-> r]

MetricsNext == Measure

MetricsSpec == MetricsInit /\ [][MetricsNext]_sample

-----------------------------------------------------------------------------
Subsequences(a) ==
    {At(a, s) : s \in SUBSET DOMAIN a}

Equal(x, y) == x[1] * y[2] = y[1] * x[2]

\* What the metrics are meant to be: ROUGE-L the longest common subsequence,
\* found by trying all; an F1 of 1 for equal sets of words only; an average within
\* what was averaged, whoever lacks the key; pass@k the share of the ways to draw
\* k samples in which one is right.
ScoresAgree ==
    /\ sample.kind = "words" =>
          LET p == sample.p r == sample.r
          IN  /\ LcsLength(p, r) =
                    Max({Len(s) : s \in Subsequences(p) \cap Subsequences(r)})
              /\ BagOverlap(p, r) =
                    Max({Cardinality(s) : s \in {t \in SUBSET DOMAIN p :
                           \A w \in Words : Cardinality({i \in t : p[i] = w}) <= Count(w, r)}})
              /\ Equal(F1Score(p, r), <<1, 1>>) <=> ToSet(p) = ToSet(r)
              /\ Len(p) = Len(r) => (Equal(ExactMatch(p, r), <<1, 1>>) <=> p = r)
    /\ sample.kind = "average" =>
          LET avg == AverageMetrics(sample.results)
              said == UNION ToSet(sample.results)
          IN  avg[2] > 0 => /\ avg[1] <= Max(said) * avg[2]
                            /\ avg[1] >= Min(said) * avg[2]
                            /\ Cardinality(said) = 1 => avg[1] = Max(said) * avg[2]
    /\ sample.kind = "passes" =>
          LET draws == kSubset(Min({sample.k, sample.n}), 1 .. sample.n)
          IN  Equal(PassAtK(sample.c, sample.n, sample.k),
                    <<Cardinality({d \in draws : d \cap (1 .. sample.c) # {}}),
                      Cardinality(draws)>>)

\* An answer is read right when one letter stands alone and no other is about,
\* and a number when all that are announced are the same, whatever was computed
\* before and after, or when there is only one.
AnswersAgree ==
    /\ sample.kind = "number" =>
         LET text == sample.text
             Number(i) == i \in DOMAIN text /\ text[i][1] = "number"
             announced == {text[i + 1][2] : i \in {j \in DOMAIN text :
                               text[j][1] = "cue" /\ Number(j + 1)}}
             all == {text[i][2] : i \in {j \in DOMAIN text : Number(j)}}
         IN  \A v \in all : announced = {v} \/ all = {v} => ExtractGSM8K(text) = v
    /\ sample.kind = "answer" =>
        \A i \in DOMAIN sample.text :
           /\ sample.text[i][1] = "alone"
           /\ \A j \in DOMAIN sample.text : j # i => sample.text[j] = <<"none">>
           => /\ ParseMMLU(sample.text) = sample.text[i][2]
              /\ ParseCEval(sample.text) = sample.text[i][2]

Power(x, n) == LET f[i \in 0 .. n] == IF i = 0 THEN 1 ELSE x * f[i - 1] IN f[n]

\* The advantage is the sum of all later temporal differences, each discounted by
\* gamma * lam for every step; clipping only ever takes from the gain of a step,
\* never from its loss; a policy is penalised by as much as the reference would be
\* rewarded in its place, not at all if they are the same, and is not rewarded for
\* liking every token as much as the reference or more; and a policy that is farther from the reference than
\* another is never given the smaller penalty for it, one on target keeps its own.
PPOAgrees ==
    /\ sample.kind = "rollout" =>
          LET n == Len(sample.r)
              V(t) == IF t > n THEN 0 ELSE sample.v[t]
              Later(t) == [u \in t .. n |-> Power(sample.gamma * sample.lam, u - t)
                              * (sample.r[u] + sample.gamma * V(u + 1) - V(u))]
          IN  \A t \in 1 .. n :
                 Advantages(sample.r, sample.v, sample.gamma, sample.lam)[t] =
                    SumFunction(Later(t))
    /\ sample.kind = "penalty" =>
          LET kl == ApproxKL(sample.current, sample.ref)
              penalized == Penalized(sample.reward, kl, 1)
              swapped == Penalized(sample.reward, ApproxKL(sample.ref, sample.current), 1)
          IN  /\ penalized[1] + swapped[1] = 2 * sample.reward * kl[2]
              /\ sample.current = sample.ref => penalized[1] = sample.reward * kl[2]
              /\ (\A i \in DOMAIN sample.ref : sample.current[i] >= sample.ref[i])
                    => penalized[1] <= sample.reward * kl[2]
    /\ sample.kind = "kl" =>
          /\ sample.below <= sample.above =>
                AdaptKL(1, sample.below, sample.target) <= AdaptKL(1, sample.above, sample.target)
          /\ AdaptKL(sample.coefficient, sample.target, sample.target)
                = 5 * sample.coefficient
    /\ sample.kind = "ratio" =>
          LET s == Surrogate(sample.ratio, sample.a, 20)
          IN  /\ s <= sample.ratio * sample.a
              /\ s < sample.ratio * sample.a <=>
                    \/ sample.a > 0 /\ sample.ratio > 120
                    \/ sample.a < 0 /\ sample.ratio < 80

\* A text is fit into its budget, needles are hidden in all of it, and what was
\* found in its halves and under compression is summed up as LongContext says.
ContextsAgree ==
    /\ sample.kind = "context" => FitsBudget(sample.text, sample.budget)
    /\ sample.kind = "needles" => NeedlesHidden(sample.n, sample.k)
    /\ sample.kind = "positions" => HalvesAgree(sample.results)
    /\ sample.kind = "tradeoff" => AreaAgrees(sample.results)

MetricsAgree == ScoresAgree /\ AnswersAgree /\ PPOAgrees /\ ContextsAgree
=============================================================================
