------------------------------ MODULE Dataset ------------------------------
(***************************************************************************)
(* Synthetic training data, from the generators to the two halves that a   *)
(* trainer gets: SynthPipeline.run writes {instruction, output} records,   *)
(* DataProcessor loads them as Alpaca data and splits them.                *)
(*                                                                         *)
(* A text is what it says, whether HTML tags are in it, and whether blanks *)
(* surround it (if it has tags: blanks that surround it without them).     *)
(***************************************************************************)
EXTENDS Integers, FiniteSets, SequencesExt

CONSTANTS
    Bodies,          \* what texts say
    Empty,           \* nothing
    Poor,            \* too short, too long or repetitive
    Shuffle,         \* what a body may say after its words were shuffled
    Seeds,           \* the seed examples of a domain
    MaxNum           \* the most examples asked for (a bound of the model)

VARIABLES
    stage,           \* the step that was done last
    factor,          \* augment_factor
    dataset,         \* the records
    training,        \* indices of the records that end up in the training data,
    evaluation       \* and in the evaluation data

datasetVars == <<stage, factor, dataset, training, evaluation>>

Texts == [body : Bodies \cup {Empty}, tags : BOOLEAN, blanks : BOOLEAN]

\* _parse_tasks strips a line and drops short ones.
Instructions == {t \in Texts : t.body # Empty /\ (t.blanks => t.tags)}

Records == [instruction : Instructions, output : Texts]

ASSUME DatasetAssumption ==
    /\ Poor \subseteq Bodies /\ Empty \notin Bodies
    /\ Shuffle \in [Bodies -> SUBSET Bodies]
    /\ Seeds \in Seq(Records)
    /\ MaxNum \in Nat

\* SelfInstructGenerator.generate_dataset: at most so many tasks, less those for
\* which the model fails.
SelfInstruct(num) == UNION {[1 .. n -> Records] : n \in 0 .. num}

\* SynthPipeline.generate: the seed examples without a model, whatever num is;
\* otherwise the number is shared among the strategies, and evol_question takes
\* no num, raises and gives nothing.
Generated(num, llm, strategies) ==
    IF ~llm THEN {Seeds}
    ELSE SelfInstruct(IF "self_instruct" \in strategies
                      THEN num \div Cardinality(strategies) ELSE 0)

\* EvolQuestionGenerator and BackTranslationGenerator, for a caller who uses them
\* without the pipeline: questions without an answer, and seeds with a paraphrase.
Evolved(num) ==
    UNION {[1 .. n -> [instruction : {t \in Texts : t.body # Empty},
                       output : {[body |-> Empty, tags |-> FALSE, blanks |-> FALSE]}]]
              : n \in 0 .. num}

BackTranslated(num) ==
    UNION {[1 .. n -> [instruction : {s.instruction : s \in ToSet(Seeds)},
                       output : Texts]] : n \in 0 .. num}

\* QualityFilter._strip_html.
StripHtml(r) == [instruction |-> [r.instruction EXCEPT !.tags = FALSE],
                 output |-> [r.output EXCEPT !.tags = FALSE]]

\* Python's truth of a text: blanks are true.
Truthy(t) == t.body # Empty \/ t.blanks \/ t.tags

\* QualityFilter._should_skip; texts overlap too much when they say the same.
ShouldSkip(r) ==
    \/ {r.instruction.body, r.output.body} \cap Poor # {}
    \/ ~Truthy(r.instruction) \/ ~Truthy(r.output)
    \/ r.instruction.body = r.output.body

\* Mutant: duplicates are looked for before tags are removed.
FilteredKeysFirst(data) ==
    LET kept == FoldLeft(LAMBDA acc, r : IF Contains(acc, r) THEN acc
                                         ELSE Append(acc, r), <<>>, data)
        plain == [i \in DOMAIN kept |-> StripHtml(kept[i])]
    IN  SelectSeq(plain, LAMBDA r : ~ShouldSkip(r))

\* QualityFilter.filter: tags are removed first, so records that differ in tags
\* only are duplicates; the key of a record is its two texts as they are.
Filtered(data) ==
    LET plain == [i \in DOMAIN data |-> StripHtml(data[i])]
    IN  FoldLeft(LAMBDA acc, r : IF ShouldSkip(r) \/ Contains(acc, r) THEN acc
                                 ELSE Append(acc, r), <<>>, plain)

\* synonym_replacement, random_swap: a short text stays as it is, any other is
\* split and joined again, without the blanks around it.
Shuffled(t) ==
    {t} \cup {[t EXCEPT !.body = b, !.blanks = FALSE] :
                b \in IF t.body = Empty THEN {} ELSE Shuffle[t.body]}

\* DataAugmenter.augment_record: the record, then what differs from it.
AugmentRecord(r, inst, out) ==
    LET i == IF inst # r.instruction THEN {1} ELSE {}
        o == IF out # r.output THEN {2} ELSE {}
    IN  <<r>>
        \o (IF 1 \in i THEN <<[r EXCEPT !.instruction = inst]>> ELSE <<>>)
        \o (IF 2 \in o THEN <<[r EXCEPT !.output = out]>> ELSE <<>>)
        \o (IF i \cup o = {1, 2} THEN <<[instruction |-> inst, output |-> out]>>
            ELSE <<>>)

-----------------------------------------------------------------------------
DatasetInit ==
    /\ stage = "start"
    /\ factor \in {1, 2}
    /\ dataset = <<>>
    /\ training = {} /\ evaluation = {}

Generate ==
    /\ stage = "start"
    /\ \E num \in 0 .. MaxNum, llm \in BOOLEAN,
          strategies \in {{"self_instruct", "evol_question"}, {"self_instruct"}} :
            dataset' \in Generated(num, llm, strategies)
                            \cup Evolved(num) \cup BackTranslated(num)
    /\ stage' = "generated"
    /\ UNCHANGED <<factor, training, evaluation>>

Filter ==
    /\ stage = "generated"
    /\ dataset' = Filtered(dataset)
    /\ stage' = "filtered"
    /\ UNCHANGED <<factor, training, evaluation>>

\* augment_dataset, which run calls for a factor above 1: what is too much is cut
\* off the end, original records too.
Augment ==
    /\ stage = "filtered"
    /\ IF factor = 1 THEN dataset' = dataset
       ELSE \E inst \in [DOMAIN dataset -> UNION {Shuffled(dataset[i].instruction) : i \in DOMAIN dataset}],
               out \in [DOMAIN dataset -> UNION {Shuffled(dataset[i].output) : i \in DOMAIN dataset}] :
              /\ \A i \in DOMAIN dataset : /\ inst[i] \in Shuffled(dataset[i].instruction)
                                           /\ out[i] \in Shuffled(dataset[i].output)
              /\ LET all == FlattenSeq([i \in DOMAIN dataset |->
                                           AugmentRecord(dataset[i], inst[i], out[i])])
                 IN  dataset' = IF Len(all) <= factor * Len(dataset) THEN all
                                ELSE SubSeq(all, 1, factor * Len(dataset))
    /\ stage' = "augmented"
    /\ UNCHANGED <<factor, training, evaluation>>

\* load_alpaca: an entry has the texts without blanks around them.
Entry(r) == [instruction |-> r.instruction.body, output |-> r.output.body,
             tags |-> <<r.instruction.tags, r.output.tags>>]

\* DataProcessor.sample, which a caller may use before the split: some of the
\* records, whichever the shuffle puts first (their order is left as it was).
Sample ==
    /\ stage = "augmented"
    /\ \E n \in 0 .. Len(dataset) : \E pick \in [1 .. n -> DOMAIN dataset] :
          /\ \A i, j \in 1 .. n : i < j => pick[i] < pick[j]
          /\ dataset' = [i \in 1 .. n |-> dataset[pick[i]]]
    /\ stage' = "sampled"
    /\ UNCHANGED <<factor, training, evaluation>>

\* load_alpaca drops what has no output; of n entries split gives one in ten, but
\* at least one, to the evaluation, whichever the shuffle puts first.
Split ==
    /\ stage \in {"augmented", "sampled"}
    /\ LET loaded == {i \in DOMAIN dataset : dataset[i].output.body # Empty}
           n == Cardinality(loaded)
           count == IF n = 0 THEN 0 ELSE IF n < 20 THEN 1 ELSE n \div 10
       IN  \E e \in SUBSET loaded : /\ Cardinality(e) = count
                                    /\ evaluation' = e
                                    /\ training' = loaded \ e
    /\ stage' = "split"
    /\ UNCHANGED <<factor, dataset>>

DatasetNext == Generate \/ Filter \/ Augment \/ Sample \/ Split

DatasetSpec == DatasetInit /\ [][DatasetNext]_datasetVars

-----------------------------------------------------------------------------
\* The evaluation data says something of what was not trained: without
\* augmentation, an entry is in both halves only if its record was there twice
\* with other blanks around its texts, which the filter keeps and load_alpaca
\* makes equal; and nothing is trained that the filter refuses.
NoLeak ==
    stage = "split" =>
        /\ \A i \in training, j \in evaluation :
              factor = 1 /\ Entry(dataset[i]) = Entry(dataset[j]) =>
                 \/ dataset[i].instruction.blanks # dataset[j].instruction.blanks
                 \/ dataset[i].output.blanks # dataset[j].output.blanks
        /\ factor = 1 => \A i \in training : ~ShouldSkip(dataset[i])
        /\ \A i \in training : Entry(dataset[i]).tags = <<FALSE, FALSE>>
        /\ training # {} => evaluation # {}
=============================================================================
