---------------------------- MODULE TrainingProofs ----------------------------
(****************************************************************************)
(* Of the parts that make a model and judge it, for every value of their    *)
(* constants: what a fine-tuning can lose, which records a PPO training     *)
(* trains on, whose results a comparison returns, what a file of            *)
(* conversations trains on, what the halves of a dataset share, and that    *)
(* each score, advantage and budget is what it is meant to be.              *)
(****************************************************************************)
EXTENDS Dataset, Conversations, Trainer, Rollouts, Evaluator, Metrics, Foundations

(* A fine-tuning.                                                          *)

\* The phases of a training, and the weights a place of the disk has.
Phases == {"none", "training", "trained", "saved", "merging", "merged"}
Weights == Nat \cup {None}

\* The types, as the steps keep them.
TrainerTyped ==
    /\ kind \in {"lora", "dpo"} /\ phase \in Phases
    /\ phase # "none" => model \in Nat
    /\ best \in Nat
    /\ checkpoints \in SUBSET Nat
    /\ disk \in [output : Weights, final : Weights, merged : Weights, tokenizer : BOOLEAN]

\* The newest checkpoint is a multiple of save_steps and less than save_steps
\* behind, and the weights in memory are not ahead of the best there were.
Newest(hi) ==
    /\ hi \in checkpoints \cup {0}
    /\ \A t \in checkpoints : t <= hi
    /\ hi % SaveSteps = 0
    /\ best - hi < SaveSteps

\* What bounds the loss: memory, best and the newest checkpoint.
Behind ==
    /\ phase = "training" => model <= best
    /\ \E hi \in Nat : Newest(hi)

\* What was saved where; of LoRA weights, lora-final never has any before
\* output_dir has.
Saved ==
    /\ kind = "lora" /\ phase \in {"trained", "saved"} => disk.output = model
    /\ phase = "saved" => disk.final = model
    /\ kind = "lora" /\ disk.final # None => disk.output # None
    /\ disk.merged # None => /\ kind = "lora"
                             /\ disk.output # None /\ disk.final # None
    /\ disk.tokenizer => disk.merged # None
    /\ phase \in {"merging", "merged"} => /\ kind = "lora" /\ disk.final # None
                                         /\ model = disk.final
    /\ phase = "merged" => disk.merged # None

\* The inductive invariant of WorkKept.
TrainerInv == TrainerTyped /\ Behind /\ Saved

\* The next multiple.
LEMMA Multiples ==
    ASSUME NEW S \in Nat \ {0}, NEW h \in Nat, h % S = 0
    PROVE  (h + S) % S = 0
  <1> DEFINE q == h \div S
  <1>1. q \in Int /\ h = S * q
    BY SMT
  <1>2. h + S = S * (q + 1)
    BY <1>1, SMT
  <1>3. (S * (q + 1)) % S = 0
    BY <1>1, SMT
  <1> QED
    BY <1>2, <1>3

\* What the proofs need of save_steps.
LEMMA SaveStepsPositive == SaveSteps \in Nat \ {0}
  BY TrainerAssumption

\* Weights that are not ahead of a checkpoint are not far from it.
LEMMA NotBehind ==
    ASSUME NEW a \in Nat, NEW b \in Nat, NEW S \in Nat \ {0}, a <= b
    PROVE  a - b < S
  OBVIOUS

\* The base model counts as a checkpoint.
LEMMA ZeroIsMultiple == ASSUME NEW S \in Nat \ {0} PROVE 0 % S = 0
  BY SMT

\* Rotation only takes away, and never the newest checkpoint.
LEMMA RotationKeepsNewest ==
    ASSUME NEW steps \in SUBSET Nat, NEW hi \in steps, \A t \in steps : t <= hi
    PROVE  Rotated(steps) \subseteq steps /\ hi \in Rotated(steps)
  <1>1. \A t \in steps : ~(t > hi)
    BY SMT
  <1>2. Cardinality({t \in steps : t > hi}) = 0
    <2>1. {t \in steps : t > hi} = {}
      BY <1>1
    <2> QED
      BY <2>1, FS_EmptySet
  <1>3. 0 < SaveTotalLimit
    BY TrainerAssumption
  <1> QED
    BY <1>2, <1>3 DEF Rotated

\* Nothing was trained yet.
LEMMA TrainerStart == TrainerInit => TrainerInv
  <1> SUFFICES ASSUME TrainerInit PROVE TrainerInv
    OBVIOUS
  <1> USE TrainerAssumption DEF TrainerInit
  <1>1. TrainerTyped
    BY DEF TrainerTyped, Phases, Weights, NothingSaved
  <1>2. Newest(0)
    BY ZeroIsMultiple DEF Newest
  <1>3. Saved
    BY DEF Saved, NothingSaved
  <1> QED
    BY <1>1, <1>2, <1>3 DEF TrainerInv, Behind

\* A run that resumes has the weights of a checkpoint, none ahead of the newest; one
\* that starts afresh has those of the base model, and an empty output_dir.
LEMMA StartKeeps == ASSUME TrainerInv, StartLora \/ StartDPO PROVE TrainerInv'
  <1> USE TrainerAssumption DEF TrainerInv
  <1>0. phase' = "training" /\ UNCHANGED kind
    BY DEF StartLora, StartDPO, Begins
  <1>1. CASE /\ kind = "lora" /\ model' \in checkpoints /\ best' = model'
             /\ UNCHANGED <<checkpoints, disk>>
    <2>1. TrainerTyped'
      BY <1>0, <1>1 DEF TrainerTyped, Phases
    <2>2. PICK hi \in Nat : Newest(hi)
      BY DEF Behind
    <2>3. model' <= hi /\ model' \in Nat
      BY <1>1, <2>2 DEF Newest, TrainerTyped
    <2>4. Newest(hi)'
      <3>1. best' \in Nat /\ best' <= hi
        BY <1>1, <2>3
      <3>2. best' - hi < SaveSteps
        BY <2>2, <3>1, SaveStepsPositive, NotBehind
      <3>3. checkpoints' = checkpoints
        BY <1>1
      <3> QED
        BY <2>2, <3>2, <3>3, Zenon DEF Newest
    <2>5. Saved'
      BY <1>0, <1>1 DEF Saved
    <2> QED
      BY <1>1, <2>1, <2>3, <2>4, <2>5 DEF Behind
  <1>2. CASE Afresh
    <2>1. TrainerTyped'
      BY <1>0, <1>2 DEF TrainerTyped, Phases, Weights, Afresh, NothingSaved
    <2>2. Newest(0)'
      BY <1>2, ZeroIsMultiple DEF Newest, Afresh
    <2>3. Saved'
      BY <1>0, <1>2 DEF Saved, Afresh, NothingSaved
    <2> QED
      BY <1>2, <2>1, <2>2, <2>3 DEF Behind, Afresh
  <1> QED
    BY <1>1, <1>2 DEF StartLora, StartDPO

\* A step that writes a checkpoint makes it the newest unless a newer one is
\* there; one that does not is not save_steps away from the newest, for then it
\* would be a multiple of save_steps.
LEMMA TrainStepKeeps == ASSUME TrainerInv, TrainStep PROVE TrainerInv'
  <1> USE TrainerAssumption DEF TrainerInv
  <1>1. /\ phase = "training" /\ model \in Nat /\ model <= best /\ best \in Nat
        /\ model' = model + 1
        /\ best' = IF model + 1 > best THEN model + 1 ELSE best
        /\ UNCHANGED <<kind, phase, disk>>
    BY DEF TrainStep, TrainerTyped, Behind
  <1>2. PICK hi \in Nat : Newest(hi)
    BY DEF Behind
  <1>3. Saved'
    BY <1>1 DEF Saved
  <1>4. best' \in Nat /\ model' <= best'
    BY <1>1
  <1>5. CASE (model + 1) % SaveSteps = 0
    <2> DEFINE steps == checkpoints \cup {model + 1}
    <2>1. PICK new \in Nat : new = IF hi > model + 1 THEN hi ELSE model + 1
      BY <1>1
    <2>2. checkpoints' = Rotated(steps) /\ steps \in SUBSET Nat
      BY <1>1, <1>5 DEF TrainStep, TrainerTyped
    <2>3. new \in steps /\ \A t \in steps : t <= new
      BY <1>1, <1>2, <2>1 DEF Newest, TrainerTyped
    <2>4. checkpoints' \subseteq steps /\ new \in checkpoints'
      BY <2>2, <2>3, RotationKeepsNewest
    <2>5. new % SaveSteps = 0
      BY <1>2, <1>5, <2>1 DEF Newest
    <2>6. best' - new < SaveSteps
      BY <1>1, <1>2, <2>1, SaveStepsPositive DEF Newest
    <2>7. Newest(new)'
      BY <2>3, <2>4, <2>5, <2>6 DEF Newest
    <2>8. TrainerTyped'
      BY <1>1, <1>4, <2>2, <2>4 DEF TrainerTyped
    <2> QED
      BY <1>3, <1>4, <2>7, <2>8 DEF Behind
  <1>6. CASE (model + 1) % SaveSteps # 0
    <2>1. checkpoints' = checkpoints
      BY <1>6 DEF TrainStep
    <2>2. model + 1 # hi + SaveSteps
      BY <1>2, <1>6, Multiples DEF Newest
    <2>3. best' - hi < SaveSteps
      BY <1>1, <1>2, <2>2 DEF Newest
    <2>4. Newest(hi)'
      BY <1>2, <2>1, <2>3 DEF Newest
    <2>5. TrainerTyped'
      BY <1>1, <1>4, <2>1 DEF TrainerTyped
    <2> QED
      BY <1>3, <1>4, <2>4, <2>5 DEF Behind
  <1> QED
    BY <1>5, <1>6

\* Steps that train nothing: the checkpoints and the best stay as they are.
LEMMA OthersKeep ==
    ASSUME TrainerInv,
           \/ TrainEnds \/ Interrupt \/ Dies
           \/ SaveLora \/ SaveDPO \/ CloseLora \/ CloseDPO
           \/ MergeLoads \/ MergeSaves \/ MergeReturns
    PROVE  TrainerInv'
  <1> USE TrainerAssumption DEF TrainerInv
  <1>1. /\ UNCHANGED <<kind, checkpoints, best>>
        /\ phase' \in Phases /\ phase' # "training"
    BY DEF TrainEnds, Interrupt, Dies, SaveLora, SaveDPO, CloseLora, CloseDPO, Closes,
           MergeLoads, MergeSaves, MergeReturns, TrainerTyped, Phases
  <1>2. Behind'
    BY <1>1 DEF Behind, Newest
  <1>3. CASE TrainEnds \/ Interrupt
    <2>1. /\ phase = "training" /\ phase' = "trained" /\ model' = model
          /\ disk' = IF kind = "lora" THEN [disk EXCEPT !.output = model] ELSE disk
      BY <1>3 DEF TrainEnds, Interrupt
    <2>2. TrainerTyped'
      BY <1>1, <2>1 DEF TrainerTyped, Weights
    <2>3. Saved'
      BY <1>1, <2>1 DEF Saved, TrainerTyped
    <2> QED
      BY <1>2, <2>2, <2>3
  <1>4. CASE SaveLora \/ SaveDPO
    <2>1. /\ phase = "trained" /\ phase' = "saved" /\ model' = model
          /\ disk' = [disk EXCEPT !.final = model]
      BY <1>4 DEF SaveLora, SaveDPO
    <2>2. TrainerTyped'
      BY <1>1, <2>1 DEF TrainerTyped, Weights
    <2>3. Saved'
      BY <1>1, <2>1 DEF Saved, TrainerTyped
    <2> QED
      BY <1>2, <2>2, <2>3
  <1>5. CASE MergeLoads
    <2>1. /\ kind = "lora" /\ disk.final # None /\ phase' = "merging"
          /\ model' = disk.final /\ disk' = disk
      BY <1>5 DEF MergeLoads
    <2>2. TrainerTyped'
      BY <1>1, <2>1 DEF TrainerTyped, Weights
    <2>3. Saved'
      BY <1>1, <2>1 DEF Saved, TrainerTyped
    <2> QED
      BY <1>2, <2>2, <2>3
  <1>6. CASE MergeSaves
    <2>1. /\ phase = "merging" /\ phase' = "merged" /\ model' = model
          /\ disk' = [disk EXCEPT !.merged = model]
      BY <1>6 DEF MergeSaves
    <2>2. TrainerTyped'
      BY <1>1, <2>1 DEF TrainerTyped, Weights
    <2>3. Saved'
      BY <1>1, <2>1 DEF Saved, TrainerTyped
    <2> QED
      BY <1>2, <2>2, <2>3
  <1>7. CASE MergeReturns
    <2>1. /\ phase = "merged" /\ phase' = "none"
          /\ disk' = [disk EXCEPT !.tokenizer = TRUE]
      BY <1>7 DEF MergeReturns
    <2>2. TrainerTyped'
      BY <1>1, <2>1 DEF TrainerTyped, Weights
    <2>3. Saved'
      BY <1>1, <2>1 DEF Saved, TrainerTyped
    <2> QED
      BY <1>2, <2>2, <2>3
  <1>8. CASE Dies \/ CloseLora \/ CloseDPO
    <2>1. phase' = "none" /\ disk' = disk
      BY <1>8 DEF Dies, CloseLora, CloseDPO, Closes
    <2>2. TrainerTyped'
      BY <1>1, <2>1 DEF TrainerTyped
    <2>3. Saved'
      BY <1>1, <2>1 DEF Saved
    <2> QED
      BY <1>2, <2>2, <2>3
  <1> QED
    BY <1>3, <1>4, <1>5, <1>6, <1>7, <1>8

\* Every step keeps the invariant.
LEMMA StepKeeps == TrainerInv /\ [TrainerNext]_trainerVars => TrainerInv'
  <1>1. ASSUME TrainerInv, UNCHANGED trainerVars PROVE TrainerInv'
    BY <1>1 DEF trainerVars, TrainerInv, TrainerTyped, Behind, Newest, Saved
  <1> QED
    BY <1>1, StartKeeps, TrainStepKeeps, OthersKeep DEF TrainerNext

\* LoraTrainer and DPOTrainer: of the steps since the last fresh start at most
\* save_steps - 1 can be lost, and what train, save and merge report is on disk,
\* however often the process died or was interrupted and resumed.
THEOREM WorkIsKept == TrainerSpec => []WorkKept
  <1>1. TrainerInv => WorkKept
    <2> SUFFICES ASSUME TrainerInv PROVE WorkKept
      OBVIOUS
    <2>1. PICK hi \in Nat : Newest(hi)
      BY DEF TrainerInv, Behind
    <2> QED
      BY <2>1 DEF TrainerInv, Newest, Saved, WorkKept
  <1> QED
    BY <1>1, TrainerStart, StepKeeps, PTL DEF TrainerSpec

-----------------------------------------------------------------------------
(* A PPO training.                                                         *)

\* The records whose turn an iteration may be, and the iterations of their turns.
Had == {r \in 0 .. records - 1 : records = 1 \/ r # records - 1}
Turn(r) == {i \in 0 .. iteration - 1 : i % records = r}

\* The slice of an iteration is the record whose turn it is, if any slice has it.
LEMMA BatchOf ==
    ASSUME records \in Nat, NEW i \in Nat
    PROVE  Batch(i) = {r \in Had : i % records = r}
  <1>1. CASE records = 0
    BY <1>1 DEF Batch, Had
  <1>2. CASE records = 1
    <2>1. i % 1 = 0
      BY NextRemainder
    <2> QED
      BY <1>2, <2>1 DEF Batch, Had
  <1>3. CASE records > 1
    <2>1. /\ i % records \in 0 .. records - 1
          /\ (i + 1) % records = IF i % records = records - 1 THEN 0 ELSE (i % records) + 1
      <3>1. records \in Nat \ {0}
        BY <1>3
      <3> QED
        BY <3>1, NextRemainder
    <2> DEFINE a == i % records
               b == (i + 1) % records
    <2>2. Batch(i) = {r \in 0 .. records - 1 : a <= r /\ r < b}
      BY <1>3 DEF Batch
    <2> HIDE DEF a, b
    <2> QED
      BY <1>3, <2>1, <2>2 DEF Had, a, b
  <1> QED
    BY <1>1, <1>2, <1>3

\* The types; whatever the averages are.
RolloutsTyped ==
    /\ records \in Nat /\ planned \in Nat /\ iteration \in 0 .. planned
    /\ trained \in [0 .. records - 1 -> Nat]
    /\ outcome \in {"running", "raised", "returned"}
    /\ \E S : progress \in Seq(Nat \X S)

\* A record was trained on once for each of its turns; the last of several has
\* none.
Counted ==
    \A r \in 0 .. records - 1 :
        trained[r] = IF r \in Had THEN Cardinality(Turn(r)) ELSE 0

\* The averages are those of the turns, in their order.
Listed ==
    /\ {p[1] : p \in ToSet(progress)} = UNION {Turn(r) : r \in Had}
    /\ \A j, k \in DOMAIN progress : j < k => progress[j][1] < progress[k][1]

\* No average is of an iteration to come.
Rewarded ==
    /\ \A j \in DOMAIN progress : progress[j][1] < iteration
    /\ finalReward = IF progress # <<>> /\ Last(progress)[1] = planned - 1
                     THEN Last(progress)[2] ELSE 0

\* The inductive invariant of TrainedInTurn.
RolloutsInv == RolloutsTyped /\ Counted /\ Listed /\ Rewarded

\* No record has had a turn.
LEMMA RolloutsStart == RolloutsInit => RolloutsInv
  <1> SUFFICES ASSUME RolloutsInit PROVE RolloutsInv
    OBVIOUS
  <1>1. records \in Nat /\ planned \in Nat
    BY RolloutsAssumption DEF RolloutsInit
  <1>2. progress = <<>> /\ progress \in Seq(Nat \X {}) /\ DOMAIN progress = {} /\ ToSet(progress) = {}
    BY EmptySeq, EmptyList DEF RolloutsInit
  <1>3. \A r : Turn(r) = {}
    BY DEF Turn, RolloutsInit
  <1>4. Cardinality({}) = 0
    BY FS_EmptySet
  <1>5. RolloutsTyped
    BY <1>1, <1>2 DEF RolloutsInit, RolloutsTyped
  <1>6. Counted
    BY <1>3, <1>4 DEF RolloutsInit, Counted
  <1>7. Listed
    BY <1>2, <1>3 DEF Listed
  <1>8. Rewarded
    BY <1>2 DEF RolloutsInit, Rewarded
  <1> QED
    BY <1>5, <1>6, <1>7, <1>8 DEF RolloutsInv

\* The turns there have been are one more after an iteration.
LEMMA TurnTaken ==
    ASSUME records \in Nat, iteration \in Nat, iteration' = iteration + 1,
           records' = records, NEW r \in 0 .. records - 1
    PROVE  /\ Turn(r)' = IF iteration % records = r THEN Turn(r) \cup {iteration} ELSE Turn(r)
           /\ iteration \notin Turn(r)
           /\ IsFiniteSet(Turn(r)) /\ Cardinality(Turn(r)) \in Nat
  <1>1. \A i : i \in 0 .. (iteration + 1) - 1 <=> i = iteration \/ i \in 0 .. iteration - 1
    OBVIOUS
  <1>2. Turn(r)' = {i \in 0 .. (iteration + 1) - 1 : i % records = r}
    BY DEF Turn
  <1>3. IsFiniteSet(0 .. iteration - 1) /\ Turn(r) \in SUBSET (0 .. iteration - 1)
    BY FS_Interval DEF Turn
  <1> QED
    BY <1>1, <1>2, <1>3, FS_Subset, FS_CardinalityType DEF Turn

\* An iteration trains on the record whose turn it is and appends its average, or
\* raises because its slice is empty.
LEMMA IterationKeeps ==
    ASSUME RolloutsInv, TrainIteration
    PROVE  RolloutsInv'
  <1>1. /\ records \in Nat /\ planned \in Nat /\ iteration \in 0 .. planned
        /\ iteration < planned /\ iteration' = iteration + 1
        /\ UNCHANGED <<records, planned, outcome>>
        /\ trained \in [0 .. records - 1 -> Nat]
    BY DEF RolloutsInv, RolloutsTyped, TrainIteration
  <1>2. iteration \in Nat /\ iteration' \in 0 .. planned
    BY <1>1
  <1>3. PICK S : progress \in Seq(Nat \X S)
    BY DEF RolloutsInv, RolloutsTyped
  <1>4. Had' = Had /\ Had \subseteq 0 .. records - 1
    BY <1>1 DEF Had
  <1>5. Batch(iteration) = {r \in Had : iteration % records = r}
    BY <1>1, <1>2, BatchOf
  <1>6. \A r \in Had :
           /\ Turn(r)' = IF r \in Batch(iteration) THEN Turn(r) \cup {iteration} ELSE Turn(r)
           /\ iteration \notin Turn(r)
           /\ IsFiniteSet(Turn(r)) /\ Cardinality(Turn(r)) \in Nat
    BY <1>1, <1>2, <1>4, <1>5, TurnTaken
  <1>7. CASE Batch(iteration) = {}
    <2>1. UNCHANGED <<trained, progress, finalReward>>
      BY <1>7 DEF TrainIteration
    <2>2. \A r \in Had : Turn(r)' = Turn(r)
      BY <1>6, <1>7
    <2>3. RolloutsTyped'
      BY <1>1, <1>2, <2>1 DEF RolloutsInv, RolloutsTyped
    <2>4. Counted' /\ Listed'
      BY <1>1, <1>4, <2>1, <2>2 DEF RolloutsInv, Counted, Listed
    <2>5. Rewarded'
      <3>1. \A j \in DOMAIN progress : progress[j][1] \in Nat
        BY <1>3
      <3> QED
        BY <1>1, <1>2, <2>1, <3>1 DEF RolloutsInv, Rewarded
    <2> QED
      BY <2>3, <2>4, <2>5 DEF RolloutsInv
  <1>8. CASE Batch(iteration) # {}
    <2>1. PICK rewards \in [Batch(iteration) -> Rewards] :
             LET avg == Average(rewards, Batch(iteration))
             IN  /\ trained' = [r \in DOMAIN trained |->
                                   IF r \in Batch(iteration) THEN trained[r] + 1
                                   ELSE trained[r]]
                 /\ progress' = Append(progress, <<iteration, avg>>)
                 /\ finalReward' = IF iteration = planned - 1 THEN avg ELSE finalReward
      BY <1>8 DEF TrainIteration
    <2> DEFINE avg == Average(rewards, Batch(iteration))
               T == S \cup {avg}
               slot == <<iteration, avg>>
    <2>2. /\ trained' = [r \in 0 .. records - 1 |->
                            IF r \in Batch(iteration) THEN trained[r] + 1 ELSE trained[r]]
          /\ progress' = Append(progress, slot)
          /\ finalReward' = IF iteration = planned - 1 THEN avg ELSE finalReward
      BY <1>1, <2>1
    <2> HIDE DEF avg
    <2>3. progress \in Seq(Nat \X T) /\ slot \in Nat \X T /\ slot[1] = iteration /\ slot[2] = avg
      BY <1>2, <1>3
    <2> HIDE DEF T, slot
    <2>4. /\ progress' \in Seq(Nat \X T) /\ Len(progress') = Len(progress) + 1
          /\ ToSet(progress') = ToSet(progress) \cup {slot}
          /\ Len(progress) \in Nat /\ DOMAIN progress = 1 .. Len(progress)
          /\ DOMAIN progress' = 1 .. Len(progress) + 1
          /\ \A j \in 1 .. Len(progress) : progress'[j] = progress[j]
          /\ progress'[Len(progress) + 1] = slot
      BY <2>2, <2>3, Appended, LenProperties, AppendProperties
    <2>5. RolloutsTyped'
      BY <1>1, <1>2, <2>2, <2>4 DEF RolloutsInv, RolloutsTyped
    <2>6. Counted'
      <3> SUFFICES ASSUME NEW r \in 0 .. records - 1
                   PROVE  trained'[r] = IF r \in Had THEN Cardinality(Turn(r)') ELSE 0
        BY <1>1, <1>4 DEF Counted
      <3>1. trained[r] = IF r \in Had THEN Cardinality(Turn(r)) ELSE 0
        BY DEF RolloutsInv, Counted
      <3>2. trained'[r] = IF r \in Batch(iteration) THEN trained[r] + 1 ELSE trained[r]
        BY <2>2
      <3>3. CASE r \in Batch(iteration)
        <4>1. r \in Had
          BY <1>5, <3>3
        <4>2. Cardinality(Turn(r) \cup {iteration}) = Cardinality(Turn(r)) + 1
          BY <1>6, <4>1, FS_AddElement
        <4> QED
          BY <1>6, <3>1, <3>2, <3>3, <4>1, <4>2
      <3>4. CASE r \notin Batch(iteration)
        BY <1>6, <3>1, <3>2, <3>4
      <3> QED
        BY <3>3, <3>4
    <2>7. Listed'
      <3>1. {p[1] : p \in ToSet(progress')} = {p[1] : p \in ToSet(progress)} \cup {iteration}
        BY <2>3, <2>4
      <3>2. UNION {Turn(r)' : r \in Had} = (UNION {Turn(r) : r \in Had}) \cup {iteration}
        <4>1. PICK q \in Had : q \in Batch(iteration)
          BY <1>5, <1>8
        <4>2. Turn(q)' = Turn(q) \cup {iteration}
          BY <1>6, <4>1
        <4>3. \A r \in Had : Turn(r) \subseteq Turn(r)' /\ Turn(r)' \subseteq Turn(r) \cup {iteration}
          BY <1>6
        <4>4. /\ \A i : i \in UNION {Turn(r)' : r \in Had} <=> \E r \in Had : i \in Turn(r)'
              /\ \A i : i \in UNION {Turn(r) : r \in Had} <=> \E r \in Had : i \in Turn(r)
          OBVIOUS
        <4>5. \A i : i \in UNION {Turn(r)' : r \in Had}
                    <=> i \in UNION {Turn(r) : r \in Had} \/ i = iteration
          BY <4>1, <4>2, <4>3, <4>4
        <4> QED
          BY <4>5
      <3>3. \A j \in DOMAIN progress : progress[j][1] < iteration
        BY DEF RolloutsInv, Rewarded
      <3>4. ASSUME NEW j \in DOMAIN progress', NEW k \in DOMAIN progress', j < k
            PROVE  progress'[j][1] < progress'[k][1]
        <4>1. CASE k = Len(progress) + 1
          <5>1. j \in DOMAIN progress /\ progress'[j] = progress[j] /\ progress'[k] = slot
            BY <2>4, <3>4, <4>1
          <5> QED
            BY <2>3, <3>3, <5>1
        <4>2. CASE k # Len(progress) + 1
          <5>1. /\ j \in DOMAIN progress /\ k \in DOMAIN progress
                /\ progress'[j] = progress[j] /\ progress'[k] = progress[k]
            BY <2>4, <3>4, <4>2
          <5> QED
            BY <3>4, <5>1 DEF RolloutsInv, Listed
        <4> QED
          BY <4>1, <4>2
      <3>5. {p[1] : p \in ToSet(progress)} = UNION {Turn(r) : r \in Had}
        BY DEF RolloutsInv, Listed
      <3>6. UNION {Turn(r)' : r \in Had'} = UNION {Turn(r)' : r \in Had}
        BY <1>4
      <3>7. {p[1] : p \in ToSet(progress')} = UNION {Turn(r)' : r \in Had'}
        BY <3>1, <3>2, <3>5, <1>4
      <3> QED
        BY <3>4, <3>7 DEF Listed
    <2>8. Rewarded'
      <3>1. \A j \in DOMAIN progress : progress[j][1] < iteration /\ progress[j][1] \in Nat
        BY <1>3 DEF RolloutsInv, Rewarded
      <3>2. \A j \in DOMAIN progress' : progress'[j][1] < iteration'
        <4> SUFFICES ASSUME NEW j \in DOMAIN progress' PROVE progress'[j][1] < iteration'
          OBVIOUS
        <4>1. CASE j = Len(progress) + 1
          BY <1>1, <1>2, <2>3, <2>4, <4>1
        <4>2. CASE j # Len(progress) + 1
          <5>1. j \in DOMAIN progress /\ progress'[j] = progress[j]
            BY <2>4, <4>2
          <5> QED
            BY <1>1, <1>2, <3>1, <5>1
        <4> QED
          BY <4>1, <4>2
      <3>3. Last(progress') = slot /\ progress' # <<>>
        BY <2>4 DEF Last
      <3>4. iteration # planned - 1 => finalReward = 0
        <4>1. CASE progress = <<>>
          BY <4>1 DEF RolloutsInv, Rewarded
        <4>2. CASE progress # <<>>
          <5>1. Len(progress) \in DOMAIN progress
            BY <1>3, <2>4, <4>2, EmptySeq
          <5>2. Last(progress)[1] < iteration /\ Last(progress)[1] \in Nat
            BY <3>1, <5>1 DEF Last
          <5> QED
            BY <1>1, <1>2, <5>2 DEF RolloutsInv, Rewarded
        <4> QED
          BY <4>1, <4>2
      <3> QED
        BY <1>1, <2>2, <2>3, <3>2, <3>3, <3>4 DEF Rewarded
    <2> QED
      BY <2>5, <2>6, <2>7, <2>8 DEF RolloutsInv
  <1> QED
    BY <1>7, <1>8

\* RLHFPipeline.train: each record but the last of several is trained in turn, the
\* averages are of the iterations that trained, and final_reward is what it says.
THEOREM EachInTurn == RolloutsSpec => []TrainedInTurn
  <1>1. RolloutsInv /\ [RolloutsNext]_rolloutVars => RolloutsInv'
    <2> SUFFICES ASSUME RolloutsInv, [RolloutsNext]_rolloutVars PROVE RolloutsInv'
      OBVIOUS
    <2>1. CASE RolloutRaises \/ TrainReturns \/ UNCHANGED rolloutVars
      <3>1. /\ UNCHANGED <<records, planned, iteration, trained, progress, finalReward>>
            /\ outcome' \in {"raised", "returned", outcome}
        BY <2>1 DEF RolloutRaises, TrainReturns, rolloutVars
      <3>2. RolloutsTyped'
        BY <3>1 DEF RolloutsInv, RolloutsTyped
      <3>3. Had' = Had /\ \A r : Turn(r)' = Turn(r)
        BY <3>1 DEF Had, Turn
      <3>4. Counted' /\ Listed' /\ Rewarded'
        BY <3>1, <3>3 DEF RolloutsInv, Counted, Listed, Rewarded
      <3> QED
        BY <3>2, <3>4 DEF RolloutsInv
    <2> QED
      BY <2>1, IterationKeeps DEF RolloutsNext
  <1>2. RolloutsInv => TrainedInTurn
    BY DEF RolloutsInv, Counted, Listed, Rewarded, TrainedInTurn, Had, Turn
  <1> QED
    BY <1>1, <1>2, RolloutsStart, PTL DEF RolloutsSpec

-----------------------------------------------------------------------------
(* A comparison of models.                                                 *)

\* A run of a benchmark for a model, and what it returns.
Runs == [model : Models, name : Names]
Results == [by : Models \cup {NoResult}, right : -1 .. Questions]

\* One run of every benchmark for every model, and of one benchmark those of the
\* earlier models first.
Ordered(list, models) ==
    \A q, r \in DOMAIN list, i, k \in DOMAIN models :
        /\ q < r /\ list[q].name = list[r].name
        /\ list[q].model = models[i] /\ list[r].model = models[k]
        => i < k

\* The runs that run_all_benchmarks makes for every model of a comparison.
LEMMA RunsInOrder ==
    ASSUME NEW models \in Seq(Models), NEW names \in Seq(Names)
    PROVE  LET list == FlattenSeq([i \in DOMAIN models |->
                           [j \in DOMAIN names |-> [model |-> models[i], name |-> names[j]]]])
           IN  /\ list \in Seq(Runs)
               /\ ToSet(list) = [model : ToSet(models), name : ToSet(names)]
               /\ IsInjective(models) /\ IsInjective(names) => Ordered(list, models)
<1> DEFINE block(i) == [j \in DOMAIN names |-> [model |-> models[i], name |-> names[j]]]
           ss == [i \in DOMAIN models |-> block(i)]
           Upto(n) == [model : {models[i] : i \in 1 .. n}, name : ToSet(names)]
<1>1. /\ Len(models) \in Nat /\ DOMAIN models = 1 .. Len(models)
      /\ \A i \in DOMAIN models : models[i] \in Models
      /\ Len(names) \in Nat /\ DOMAIN names = 1 .. Len(names)
      /\ \A j \in DOMAIN names : names[j] \in Names
    BY LenProperties, ElementOfSeq
<1>2. ASSUME NEW i \in DOMAIN models
      PROVE  /\ block(i) \in Seq(Runs) /\ Len(block(i)) = Len(names)
             /\ ToSet(block(i)) = [model : {models[i]}, name : ToSet(names)]
    <2>1. block(i) \in [1 .. Len(names) -> Runs]
        BY <1>1 DEF Runs
    <2>2. ToSet(block(i)) = [model : {models[i]}, name : ToSet(names)]
        <3>1. ToSet(block(i)) = {[model |-> models[i], name |-> names[j]] : j \in DOMAIN names}
            BY DEF ToSet
        <3>2. ASSUME NEW r \in [model : {models[i]}, name : ToSet(names)]
              PROVE  \E j \in DOMAIN names : r = [model |-> models[i], name |-> names[j]]
            <4>1. PICK j \in DOMAIN names : r.name = names[j]
                BY DEF ToSet
            <4>2. r = [model |-> models[i], name |-> names[j]]
                BY <4>1
            <4> QED BY <4>2
        <3>3. \A j \in DOMAIN names :
                 [model |-> models[i], name |-> names[j]] \in [model : {models[i]}, name : ToSet(names)]
            BY DEF ToSet
        <3> HIDE DEF block
        <3> QED BY <3>1, <3>2, <3>3
    <2> HIDE DEF block
    <2>3. block(i) \in Seq(Runs) /\ Len(block(i)) \in Nat /\ DOMAIN block(i) = 1 .. Len(block(i))
        BY <1>1, <2>1, SeqDef, LenProperties
    <2> QED BY <1>1, <2>1, <2>2, <2>3
<1>3. ss \in Seq(Seq(Runs)) /\ Len(ss) = Len(models)
    <2>1. ss \in [1 .. Len(models) -> Seq(Runs)]
        <3> HIDE DEF block
        <3> QED BY <1>1, <1>2
    <2>2. Len(models) \in Nat
        BY <1>1
    <2> HIDE DEF ss
    <2>3. ss \in Seq(Seq(Runs))
        BY <2>1, <2>2, ListOf
    <2>4. Len(ss) = Len(models)
        <3>1. DOMAIN ss = 1 .. Len(models) /\ Len(ss) \in Nat /\ DOMAIN ss = 1 .. Len(ss)
            BY <2>1, <2>3, LenProperties
        <3> QED BY <2>2, <3>1
    <2> QED BY <2>3, <2>4
<1>4. PICK f \in [0 .. Len(models) -> Seq(Runs)] :
         /\ f[0] = <<>>
         /\ \A n \in 1 .. Len(models) : f[n] = f[n - 1] \o ss[n]
         /\ FlattenSeq(ss) = f[Len(models)]
    <2> HIDE DEF ss
    <2>1. \E f \in [0 .. Len(ss) -> Seq(Runs)] :
             /\ f[0] = <<>>
             /\ \A n \in 1 .. Len(ss) : f[n] = f[n - 1] \o ss[n]
             /\ FlattenSeq(ss) = f[Len(ss)]
        BY <1>3, Flattened
    <2> QED BY <1>3, <2>1
<1>5. \A n \in 1 .. Len(models) : ss[n] = block(n)
    BY <1>1
<1> DEFINE T == {n \in 0 .. Len(models) :
                    /\ ToSet(f[n]) = Upto(n)
                    /\ IsInjective(models) /\ IsInjective(names) => Ordered(f[n], models)}
<1>6. 0 \in T
    <2>1. ToSet(<<>>) = {} /\ DOMAIN <<>> = {} /\ Upto(0) = {}
        BY EmptyList, EmptySeq
    <2>2. Ordered(<<>>, models)
        BY <2>1 DEF Ordered
    <2> QED BY <1>1, <1>4, <2>1, <2>2
<1>7. ASSUME NEW n \in 0 .. Len(models) - 1, n \in T PROVE n + 1 \in T
    <2> DEFINE s == f[n]
               t == block(n + 1)
    <2>1. /\ n + 1 \in DOMAIN models /\ n + 1 \in 0 .. Len(models) /\ (n + 1) - 1 = n
          /\ n \in 0 .. Len(models)
        BY <1>1
    <2>2. f[n + 1] = s \o t /\ s \in Seq(Runs) /\ t \in Seq(Runs)
        <3> HIDE DEF block, ss
        <3> QED BY <1>1, <1>2, <1>4, <1>5, <2>1
    <2>3. /\ ToSet(s) = Upto(n) /\ ToSet(t) = [model : {models[n + 1]}, name : ToSet(names)]
          /\ IsInjective(models) /\ IsInjective(names) => Ordered(s, models)
        <3> HIDE DEF block, Upto
        <3> QED BY <1>2, <1>7, <2>1
    <2>4. \A j \in DOMAIN t : j \in DOMAIN names /\ t[j].name = names[j] /\ t[j].model = models[n + 1]
        OBVIOUS
    <2> HIDE DEF s, t, Upto
    <2>5. Upto(n + 1) = Upto(n) \cup [model : {models[n + 1]}, name : ToSet(names)]
        <3>1. \A i : i \in 1 .. n + 1 <=> i \in 1 .. n \/ i = n + 1
            BY <1>1
        <3> QED BY <3>1 DEF Upto
    <2>6. ToSet(f[n + 1]) = Upto(n + 1)
        <3>1. ToSet(s \o t) = ToSet(s) \cup ToSet(t)
            BY <2>2, Concatenated
        <3> QED BY <2>2, <2>3, <2>5, <3>1
    <2>7. ASSUME IsInjective(models), IsInjective(names)
          PROVE  Ordered(f[n + 1], models)
        <3> DEFINE u == f[n + 1]
        <3>1. /\ Len(s) \in Nat /\ DOMAIN s = 1 .. Len(s)
              /\ Len(t) \in Nat /\ DOMAIN t = 1 .. Len(t)
              /\ DOMAIN u = 1 .. Len(s) + Len(t)
              /\ \A q \in 1 .. Len(s) + Len(t) :
                    u[q] = IF q <= Len(s) THEN s[q] ELSE t[q - Len(s)]
            BY <2>2, LenProperties, ConcatProperties
        <3> HIDE DEF u
        <3> SUFFICES ASSUME NEW q \in DOMAIN u, NEW r \in DOMAIN u,
                            NEW i \in DOMAIN models, NEW k \in DOMAIN models,
                            q < r, u[q].name = u[r].name,
                            u[q].model = models[i], u[r].model = models[k]
                     PROVE  i < k
            BY DEF Ordered, u
        <3>2. CASE r <= Len(s)
            <4>1. q \in DOMAIN s /\ r \in DOMAIN s /\ u[q] = s[q] /\ u[r] = s[r]
                BY <3>1, <3>2
            <4> QED BY <2>3, <2>7, <4>1 DEF Ordered
        <3>3. CASE q <= Len(s) /\ r > Len(s)
            <4>1. q \in DOMAIN s /\ u[q] = s[q]
                BY <3>1, <3>3
            <4>2. r - Len(s) \in DOMAIN t /\ u[r] = t[r - Len(s)]
                BY <3>1, <3>3
            <4>3. k = n + 1
                BY <2>1, <2>4, <2>7, <4>2 DEF IsInjective
            <4>4. s[q] \in Upto(n)
                BY <2>3, <4>1 DEF ToSet
            <4>5. PICK h \in 1 .. n : s[q].model = models[h]
                BY <4>4 DEF Upto
            <4>6. h \in DOMAIN models /\ models[h] = models[i] /\ h <= n
                BY <1>1, <4>1, <4>5
            <4>7. i = h
                BY <2>7, <4>6 DEF IsInjective
            <4> QED BY <1>1, <4>3, <4>6, <4>7
        <3>4. CASE q > Len(s)
            <4>1. /\ q - Len(s) \in DOMAIN t /\ u[q] = t[q - Len(s)]
                  /\ r - Len(s) \in DOMAIN t /\ u[r] = t[r - Len(s)]
                  /\ q - Len(s) # r - Len(s)
                BY <3>1, <3>4
            <4>2. names[q - Len(s)] = names[r - Len(s)] /\ q - Len(s) \in DOMAIN names
                  /\ r - Len(s) \in DOMAIN names
                BY <2>4, <4>1
            <4> QED BY <2>7, <4>1, <4>2 DEF IsInjective
        <3> QED BY <3>1, <3>2, <3>3, <3>4
    <2> QED BY <2>1, <2>6, <2>7
<1>8. 0 .. Len(models) \subseteq T
    <2> HIDE DEF T
    <2> QED BY <1>1, <1>6, <1>7, BoundedInduction
<1>9. Upto(Len(models)) = [model : ToSet(models), name : ToSet(names)]
    BY <1>1 DEF ToSet
<1>10. Len(models) \in T
    BY <1>1, <1>8
<1> HIDE DEF ss, Upto
<1> QED BY <1>1, <1>4, <1>9, <1>10 DEF ss

\* The types.
EvaluatorTyped ==
    /\ benchmarks \in Seq(Names) /\ asked \in Seq(Models) /\ queue \in Seq(Runs)
    /\ latest \in [Names -> Results \cup {NoResult}]
    /\ call \in {"none", "run", "run_all", "returned", "compared", "raised"}
    /\ asking \in [asked : 0 .. Questions - 1, right : Nat] /\ asking.right <= asking.asked
    /\ DOMAIN returned \subseteq Runs /\ returned \in [DOMAIN returned -> Results]

\* A comparison that was begun, and may be done.
Comparing == call \in {"run_all", "compared"}

\* What is done and what is yet to do are the benchmarks for every model.
Shared ==
    /\ asked # <<>> /\ IsInjective(asked)
    /\ call = "compared" => queue = <<>>
    /\ DOMAIN returned \cup ToSet(queue) = [model : ToSet(asked), name : ToSet(benchmarks)]
    /\ \A run \in DOMAIN returned : returned[run] = Error \/ returned[run].by = run.model

\* Of one benchmark, the models of the results are before those yet to run.
Sequenced ==
    /\ Ordered(queue, asked)
    /\ \A run \in DOMAIN returned, q \in DOMAIN queue, i, k \in DOMAIN asked :
          run.name = queue[q].name /\ run.model = asked[i] /\ queue[q].model = asked[k]
          => i < k

\* The models that did not fail a benchmark so far; the summary has the last's result.
Passed(n) ==
    {i \in DOMAIN asked : [model |-> asked[i], name |-> n] \in DOMAIN returned
                          /\ returned[[model |-> asked[i], name |-> n]] # Error}
Summed(n) ==
    Passed(n) # {} =>
        \E i \in Passed(n) : /\ \A k \in Passed(n) : k <= i
                             /\ latest[n] = returned[[model |-> asked[i], name |-> n]]

\* The inductive invariant of ResultsAttributed.
EvaluatorInv ==
    /\ EvaluatorTyped
    /\ Comparing => /\ Shared
                    /\ IsInjective(benchmarks) =>
                          Sequenced /\ \A n \in ToSet(benchmarks) : Summed(n)

\* Nothing was called.
LEMMA EvaluatorStart == EvaluatorInit => EvaluatorInv
<1> SUFFICES ASSUME EvaluatorInit PROVE EvaluatorInv
    OBVIOUS
<1>1. benchmarks \in Seq(Names) /\ <<>> \in Seq(Models) /\ <<>> \in Seq(Runs)
    <2>1. \A x \in Names : <<x>> \in Seq(Names)
        OBVIOUS
    <2>2. <<>> \in Seq(Names) /\ <<>> \in Seq(Models) /\ <<>> \in Seq(Runs)
        BY EmptySeq
    <2> QED BY <2>1, <2>2 DEF EvaluatorInit
<1>2. Questions \in Nat \ {0} /\ Unasked \in [asked : 0 .. Questions - 1, right : Nat]
    BY EvaluatorAssumption DEF Unasked
<1>3. DOMAIN Nothing = {} /\ Nothing \in [{} -> Results]
    BY DEF Nothing
<1> QED BY <1>1, <1>2, <1>3 DEF EvaluatorInit, EvaluatorInv, EvaluatorTyped, Comparing, Unasked

\* The run that is made next, and those after it.
LEMMA NextRun ==
    ASSUME EvaluatorTyped, queue # <<>>
    PROVE  /\ Head(queue) = queue[1] /\ Head(queue) \in Runs /\ 1 \in DOMAIN queue
           /\ Tail(queue) \in Seq(Runs)
           /\ ToSet(queue) = {Head(queue)} \cup ToSet(Tail(queue))
           /\ \A q \in DOMAIN Tail(queue) : q + 1 \in DOMAIN queue /\ 1 < q + 1
                                            /\ Tail(queue)[q] = queue[q + 1]
           /\ DOMAIN Tail(queue) \subseteq Nat
<1> DEFINE t == Tail(queue)
<1>1. queue \in Seq(Runs)
    BY DEF EvaluatorTyped
<1>2. /\ Len(queue) \in Nat \ {0} /\ DOMAIN queue = 1 .. Len(queue)
      /\ \A q \in 1 .. Len(queue) : queue[q] \in Runs
    BY <1>1, LenProperties, ElementOfSeq, EmptySeq
<1>3. /\ t \in Seq(Runs) /\ DOMAIN t = 1 .. Len(queue) - 1 /\ Head(queue) = queue[1]
      /\ \A q \in 1 .. Len(queue) - 1 : t[q] = queue[q + 1]
    BY <1>1, <1>2, HeadTailProperties, LenProperties
<1> HIDE DEF t
<1>4. \A q \in 1 .. Len(queue) - 1 : q + 1 \in 1 .. Len(queue) /\ 1 < q + 1
    BY <1>2
<1>5. ToSet(queue) = {queue[1]} \cup ToSet(t)
    <2>1. ASSUME NEW q \in 1 .. Len(queue) PROVE q = 1 \/ \E p \in DOMAIN t : queue[q] = t[p]
        <3>1. CASE q # 1
            <4>1. q - 1 \in 1 .. Len(queue) - 1 /\ (q - 1) + 1 = q
                BY <1>2, <3>1
            <4> QED BY <1>3, <4>1
        <3> QED BY <3>1
    <2>2. \A p \in DOMAIN t : \E q \in 1 .. Len(queue) : t[p] = queue[q]
        BY <1>3, <1>4
    <2>3. ToSet(queue) = {queue[q] : q \in 1 .. Len(queue)} /\ ToSet(t) = {t[p] : p \in DOMAIN t}
        BY <1>2 DEF ToSet
    <2>4. 1 \in 1 .. Len(queue)
        BY <1>2
    <2> QED BY <2>1, <2>2, <2>3, <2>4
<1> QED BY <1>2, <1>3, <1>4, <1>5 DEF t

\* After a run of a comparison, whatever its result.
LEMMA RunDone ==
    ASSUME EvaluatorTyped, Shared, queue # <<>>, call = "run_all",
           NEW res \in Results, res = Error \/ res.by = Head(queue).model,
           returned' = With(returned, Head(queue), res), queue' = Tail(queue),
           UNCHANGED <<benchmarks, asked, call>>
    PROVE  /\ DOMAIN returned' = DOMAIN returned \cup {Head(queue)}
           /\ \A r \in DOMAIN returned' :
                 returned'[r] = IF r = Head(queue) THEN res ELSE returned[r]
           /\ Shared'
           /\ Sequenced => Sequenced'
<1> DEFINE job == Head(queue)
           t == Tail(queue)
<1>1. /\ DOMAIN returned' = DOMAIN returned \cup {job}
      /\ \A r \in DOMAIN returned' : returned'[r] = IF r = job THEN res ELSE returned[r]
    BY DEF With
<1>2. /\ job = queue[1] /\ 1 \in DOMAIN queue /\ ToSet(queue) = {job} \cup ToSet(t)
      /\ \A q \in DOMAIN t : q + 1 \in DOMAIN queue /\ 1 < q + 1 /\ t[q] = queue[q + 1]
      /\ DOMAIN t \subseteq Nat
    BY NextRun
<1>3. queue' = t
    OBVIOUS
<1> HIDE DEF job, t
<1>4. Shared'
    BY <1>1, <1>2, <1>3 DEF Shared, job
<1>5. ASSUME Sequenced PROVE Sequenced'
    <2>1. Ordered(t, asked)
        <3>1. \A q, r \in DOMAIN t : q < r => q + 1 < r + 1
            BY <1>2
        <3> QED BY <1>2, <1>5, <3>1 DEF Sequenced, Ordered
    <2>2. ASSUME NEW r \in DOMAIN returned', NEW q \in DOMAIN t,
                 NEW i \in DOMAIN asked, NEW k \in DOMAIN asked,
                 r.name = t[q].name, r.model = asked[i], t[q].model = asked[k]
          PROVE  i < k
        <3>1. q + 1 \in DOMAIN queue /\ 1 < q + 1 /\ t[q] = queue[q + 1]
            BY <1>2
        <3>2. CASE r \in DOMAIN returned
            BY <1>5, <2>2, <3>1, <3>2 DEF Sequenced
        <3>3. CASE r = queue[1]
            BY <1>2, <1>5, <2>2, <3>1, <3>3 DEF Sequenced, Ordered
        <3> QED BY <1>1, <1>2, <3>2, <3>3
    <2>3. asked' = asked
        OBVIOUS
    <2> QED BY <1>3, <2>1, <2>2, <2>3 DEF Sequenced, Ordered
<1> QED BY <1>1, <1>4, <1>5 DEF job

\* And the summary has the result, unless the run failed.
LEMMA RunSummed ==
    ASSUME EvaluatorTyped, Shared, queue # <<>>, call = "run_all",
           NEW res \in Results, res = Error \/ res.by = Head(queue).model,
           returned' = With(returned, Head(queue), res), queue' = Tail(queue),
           UNCHANGED <<benchmarks, asked, call>>,
           latest' = IF res = Error THEN latest ELSE [latest EXCEPT ![Head(queue).name] = res],
           Sequenced, NEW n \in ToSet(benchmarks), Summed(n)
    PROVE  Summed(n)'
<1> DEFINE job == Head(queue)
<1>1. /\ DOMAIN returned' = DOMAIN returned \cup {job}
      /\ \A r \in DOMAIN returned' : returned'[r] = IF r = job THEN res ELSE returned[r]
    BY RunDone
<1>2. job = queue[1] /\ job \in Runs /\ 1 \in DOMAIN queue /\ job \in ToSet(queue)
    BY NextRun
<1>3. /\ latest' = IF res = Error THEN latest ELSE [latest EXCEPT ![job.name] = res]
      /\ asked' = asked /\ latest \in [Names -> Results \cup {NoResult}]
      /\ job = [model |-> job.model, name |-> job.name] /\ job.name \in Names
    BY <1>2 DEF EvaluatorTyped, Runs
<1> HIDE DEF job
<1>4. PICK k \in DOMAIN asked : job.model = asked[k]
    BY <1>2 DEF Shared, ToSet
<1>5. \A r \in DOMAIN returned, i \in DOMAIN asked :
         r.name = job.name /\ r.model = asked[i] => i < k
    BY <1>2, <1>4 DEF Sequenced
<1>6. DOMAIN asked \subseteq Nat /\ \A i \in DOMAIN asked : asked[i] = asked[k] => i = k
    BY LenProperties DEF EvaluatorTyped, Shared, IsInjective
<1>7. job \notin DOMAIN returned
    BY <1>4, <1>5, <1>6
<1>8. ASSUME NEW i \in DOMAIN asked
      PROVE  [model |-> asked[i], name |-> n] = job <=> i = k /\ n = job.name
    BY <1>3, <1>4, <1>6
<1>9. CASE n = job.name /\ res # Error
    <2>1. Passed(n)' = Passed(n) \cup {k}
        BY <1>1, <1>3, <1>4, <1>7, <1>8, <1>9 DEF Passed
    <2>2. \A i \in Passed(n) : i <= k
        BY <1>5, <1>6, <1>9 DEF Passed
    <2>3. latest'[n] = res
        BY <1>3, <1>9
    <2>4. returned'[[model |-> asked'[k], name |-> n]] = res
        BY <1>1, <1>3, <1>8, <1>9
    <2> QED BY <1>6, <2>1, <2>2, <2>3, <2>4 DEF Summed
<1>10. CASE n # job.name \/ res = Error
    <2>1. \A i \in DOMAIN asked :
             LET r == [model |-> asked[i], name |-> n]
             IN  /\ r \in DOMAIN returned' /\ returned'[r] # Error
                    <=> r \in DOMAIN returned /\ returned[r] # Error
                 /\ r \in DOMAIN returned => returned'[r] = returned[r]
        BY <1>1, <1>7, <1>8, <1>10
    <2>2. Passed(n)' = Passed(n)
        BY <1>3, <2>1 DEF Passed
    <2>3. latest'[n] = latest[n]
        BY <1>3, <1>10
    <2>4. \A i \in Passed(n) : returned'[[model |-> asked'[i], name |-> n]]
                                  = returned[[model |-> asked[i], name |-> n]]
        BY <1>3, <2>1 DEF Passed
    <2> QED BY <2>2, <2>3, <2>4 DEF Summed
<1> QED BY <1>9, <1>10

\* A failure is a result, and not one that a benchmark returns.
LEMMA ErrorResult == Error \in Results /\ \A r \in Results : r.right >= 0 => r # Error
<1>1. Questions \in Nat
    BY EvaluatorAssumption
<1> QED BY <1>1 DEF Error, Results

\* The results of a comparison with one more are results.
LEMMA ReturnedTyped ==
    ASSUME EvaluatorTyped, queue # <<>>, NEW res \in Results,
           returned' = With(returned, Head(queue), res)
    PROVE  DOMAIN returned' \subseteq Runs /\ returned' \in [DOMAIN returned' -> Results]
<1>1. Head(queue) \in Runs
    BY NextRun
<1> QED BY <1>1 DEF EvaluatorTyped, With

\* A step that leaves the comparison as it is keeps what it did.
LEMMA NothingDone ==
    ASSUME EvaluatorInv, EvaluatorTyped', UNCHANGED <<benchmarks, latest, asked, queue, returned>>,
           call' = call \/ (call' = "compared" /\ call = "run_all" /\ queue = <<>>) \/ ~Comparing'
    PROVE  EvaluatorInv'
<1>1. Sequenced' = Sequenced
    BY DEF Sequenced, Ordered
<1>2. \A n : Passed(n)' = Passed(n)
    BY DEF Passed
<1>3. \A n : Summed(n)' = Summed(n)
    BY <1>2 DEF Summed
<1>4. Comparing' => Comparing
    BY DEF Comparing
<1>5. Comparing' => Shared'
    BY <1>4 DEF EvaluatorInv, Shared, Comparing
<1> QED BY <1>1, <1>3, <1>4, <1>5 DEF EvaluatorInv

\* An answer to a question: the benchmark goes on or has its result.
LEMMA AnswerKeeps ==
    ASSUME EvaluatorInv, Running, NEW right \in BOOLEAN, Answered(right)
    PROVE  EvaluatorInv'
<1> DEFINE now == [asked |-> asking.asked + 1,
                   right |-> asking.right + (IF right THEN 1 ELSE 0)]
           job == Head(queue)
           res == [by |-> job.model, right |-> now.right]
<1>1. EvaluatorTyped /\ queue # <<>> /\ UNCHANGED <<benchmarks, call, asked, calls>>
    BY DEF EvaluatorInv, Running, Answered
<1>2. /\ Questions \in Nat \ {0} /\ now.asked \in 1 .. Questions /\ now.right \in 0 .. now.asked
      /\ now = [asked |-> now.asked, right |-> now.right]
    <2>1. Questions \in Nat \ {0} /\ asking.asked \in 0 .. Questions - 1
          /\ asking.right \in Nat /\ asking.right <= asking.asked
        BY <1>1, EvaluatorAssumption DEF EvaluatorTyped
    <2> QED BY <2>1
<1>3. IF now.asked < Questions
      THEN asking' = now /\ UNCHANGED <<latest, queue, returned>>
      ELSE /\ latest' = [latest EXCEPT ![job.name] = res]
           /\ returned' = With(returned, job, res)
           /\ queue' = Tail(queue)
           /\ asking' = Unasked
    BY DEF Answered
<1> HIDE DEF now
<1>4. CASE now.asked < Questions
    <2>1. asking' \in [asked : 0 .. Questions - 1, right : Nat] /\ asking'.right <= asking'.asked
        BY <1>2, <1>3, <1>4
    <2>2. EvaluatorTyped'
        BY <1>1, <1>3, <1>4, <2>1 DEF EvaluatorTyped
    <2> QED BY <1>1, <1>3, <1>4, <2>2, NothingDone
<1>5. CASE ~(now.asked < Questions)
    <2>1. job \in Runs /\ Tail(queue) \in Seq(Runs)
        BY <1>1, NextRun
    <2>2. res \in Results /\ res # Error /\ res.by = job.model
        <3>1. res \in Results /\ res.right >= 0
            BY <1>2, <2>1 DEF Results, Runs
        <3> QED BY <3>1, ErrorResult
    <2>3. Unasked \in [asked : 0 .. Questions - 1, right : Nat] /\ Unasked.right <= Unasked.asked
        BY <1>2 DEF Unasked
    <2>4. latest' \in [Names -> Results \cup {NoResult}]
        BY <1>1, <1>3, <1>5, <2>1, <2>2 DEF EvaluatorTyped, Runs
    <2> HIDE DEF job, res
    <2>5. DOMAIN returned' \subseteq Runs /\ returned' \in [DOMAIN returned' -> Results]
        BY <1>1, <1>3, <1>5, <2>2, ReturnedTyped DEF job
    <2>6. EvaluatorTyped'
        BY <1>1, <1>3, <1>5, <2>1, <2>3, <2>4, <2>5 DEF EvaluatorTyped
    <2>7. ASSUME Comparing PROVE call = "run_all" /\ Shared
        BY <2>7 DEF EvaluatorInv, Running, Comparing
    <2>8. ASSUME Comparing PROVE Shared' /\ (Sequenced => Sequenced')
        BY <1>1, <1>3, <1>5, <2>2, <2>7, <2>8, RunDone DEF job
    <2>9. ASSUME Comparing, IsInjective(benchmarks), NEW n \in ToSet(benchmarks)
          PROVE  Summed(n)'
        <3>1. Sequenced /\ Summed(n)
            BY <2>9 DEF EvaluatorInv
        <3> QED BY <1>1, <1>3, <1>5, <2>2, <2>7, <2>9, <3>1, RunSummed DEF job
    <2>10. Comparing' = Comparing /\ benchmarks' = benchmarks
        BY <1>1 DEF Comparing
    <2> QED BY <2>6, <2>8, <2>9, <2>10 DEF EvaluatorInv
<1> QED BY <1>4, <1>5

\* A benchmark that raises has Error as its result, and the next begins.
LEMMA FailureKeeps ==
    ASSUME EvaluatorInv, BenchmarkFails
    PROVE  EvaluatorInv'
<1>1. /\ EvaluatorTyped /\ queue # <<>> /\ call \in {"run", "run_all"}
      /\ asking' = Unasked /\ UNCHANGED <<benchmarks, latest, asked, calls>>
    BY DEF EvaluatorInv, Running, BenchmarkFails
<1>2. Unasked \in [asked : 0 .. Questions - 1, right : Nat] /\ Unasked.right <= Unasked.asked
    <2>1. Questions \in Nat \ {0}
        BY EvaluatorAssumption
    <2> QED BY <2>1 DEF Unasked
<1>3. CASE call = "run"
    <2>1. call' = "raised" /\ queue' = <<>> /\ returned' = returned
        BY <1>3 DEF BenchmarkFails
    <2>2. <<>> \in Seq(Runs)
        BY EmptySeq
    <2> QED BY <1>1, <1>2, <2>1, <2>2 DEF EvaluatorInv, EvaluatorTyped, Comparing
<1>4. CASE call = "run_all"
    <2>1. /\ returned' = With(returned, Head(queue), Error) /\ queue' = Tail(queue)
          /\ call' = call
        BY <1>4 DEF BenchmarkFails
    <2>2. Error \in Results /\ Tail(queue) \in Seq(Runs)
        BY <1>1, ErrorResult, NextRun
    <2>3. EvaluatorTyped'
        <3>1. DOMAIN returned' \subseteq Runs /\ returned' \in [DOMAIN returned' -> Results]
            BY <1>1, <2>1, <2>2, ReturnedTyped
        <3> QED BY <1>1, <1>2, <2>1, <2>2, <3>1 DEF EvaluatorTyped
    <2>4. Shared
        BY <1>4 DEF EvaluatorInv, Comparing
    <2>5. Shared' /\ (Sequenced => Sequenced')
        BY <1>1, <1>4, <2>1, <2>2, <2>4, RunDone
    <2>6. ASSUME IsInjective(benchmarks), NEW n \in ToSet(benchmarks)
          PROVE  Summed(n)'
        <3>1. Sequenced /\ Summed(n)
            BY <1>4, <2>6 DEF EvaluatorInv, Comparing
        <3> QED BY <1>1, <1>4, <2>1, <2>2, <2>4, <2>6, <3>1, RunSummed
    <2>7. IsInjective(benchmarks) => Sequenced
        BY <1>4 DEF EvaluatorInv, Comparing
    <2>8. benchmarks' = benchmarks
        BY <1>1
    <2> QED BY <2>3, <2>5, <2>6, <2>7, <2>8 DEF EvaluatorInv
<1> QED BY <1>1, <1>3, <1>4

\* A comparison begins with all its runs queued and no result.
LEMMA ComparisonBegins ==
    ASSUME EvaluatorInv, NEW models \in Seq(Models), IsInjective(models), models # <<>>,
           RunAll(models)
    PROVE  EvaluatorInv'
<1> DEFINE list == FlattenSeq([i \in DOMAIN models |->
                       [j \in DOMAIN benchmarks |-> [model |-> models[i], name |-> benchmarks[j]]]])
<1>1. /\ call' = "run_all" /\ asked' = models /\ queue' = list /\ asking' = Unasked
      /\ returned' = Nothing /\ UNCHANGED <<benchmarks, latest>>
    BY DEF RunAll, Begin
<1>2. EvaluatorTyped
    BY DEF EvaluatorInv
<1>3. benchmarks \in Seq(Names)
    BY <1>2 DEF EvaluatorTyped
<1>4. /\ list \in Seq(Runs)
      /\ ToSet(list) = [model : ToSet(models), name : ToSet(benchmarks)]
      /\ IsInjective(models) /\ IsInjective(benchmarks) => Ordered(list, models)
    BY <1>3, RunsInOrder
<1> HIDE DEF list
<1>5. /\ DOMAIN Nothing = {} /\ Nothing \in [{} -> Results]
      /\ Unasked \in [asked : 0 .. Questions - 1, right : Nat] /\ Unasked.right <= Unasked.asked
    <2>1. Questions \in Nat \ {0}
        BY EvaluatorAssumption
    <2> QED BY <2>1 DEF Unasked, Nothing
<1>6. EvaluatorTyped'
    BY <1>1, <1>2, <1>4, <1>5 DEF EvaluatorTyped
<1>7. Shared'
    BY <1>1, <1>4, <1>5 DEF Shared
<1>8. IsInjective(benchmarks) => Sequenced'
    BY <1>1, <1>4, <1>5 DEF Sequenced, Ordered
<1>9. \A n : Passed(n)' = {}
    BY <1>1, <1>5 DEF Passed
<1> QED BY <1>1, <1>6, <1>7, <1>8, <1>9 DEF EvaluatorInv, Summed

\* Every step keeps the invariant.
LEMMA EvaluatorStep ==
    ASSUME EvaluatorInv, [EvaluatorNext]_evaluatorVars
    PROVE  EvaluatorInv'
<1>1. CASE \E n \in Names : RegisterBenchmark(n)
    <2>1. PICK n \in Names : RegisterBenchmark(n)
        BY <1>1
    <2>2. Append(benchmarks, n) \in Seq(Names)
        BY AppendProperties DEF EvaluatorInv, EvaluatorTyped
    <2> QED BY <2>1, <2>2 DEF RegisterBenchmark, EvaluatorInv, EvaluatorTyped, Comparing
<1>2. CASE \E m \in Models, n \in Names : RunByName(m, n)
    <2>1. PICK m \in Models, n \in Names : RunByName(m, n)
        BY <1>2
    <2>2. <<m>> \in Seq(Models) /\ [model |-> m, name |-> n] \in Runs
        BY DEF Runs
    <2>3. <<[model |-> m, name |-> n]>> \in Seq(Runs)
        BY <2>2
    <2>4. /\ DOMAIN Nothing = {} /\ Nothing \in [{} -> Results]
          /\ Unasked \in [asked : 0 .. Questions - 1, right : Nat] /\ Unasked.right <= Unasked.asked
        <3>1. Questions \in Nat \ {0}
            BY EvaluatorAssumption
        <3> QED BY <3>1 DEF Unasked, Nothing
    <2>5. /\ call' = "run" /\ asked' = <<m>> /\ queue' = <<[model |-> m, name |-> n]>>
          /\ asking' = Unasked /\ returned' = Nothing /\ UNCHANGED <<benchmarks, latest>>
        BY <2>1 DEF RunByName, Begin
    <2> QED BY <2>2, <2>3, <2>4, <2>5 DEF EvaluatorInv, EvaluatorTyped, Comparing
<1>3. CASE \E models \in {s \in SeqOf(Models, 2) : IsInjective(s) /\ s # <<>>} : RunAll(models)
    <2>1. PICK models \in SeqOf(Models, 2) : IsInjective(models) /\ models # <<>> /\ RunAll(models)
        BY <1>3
    <2>2. models \in Seq(Models)
        <3>1. PICK l \in 0 .. 2 : models \in [1 .. l -> Models]
            BY <2>1 DEF SeqOf
        <3> QED BY <3>1, SeqDef
    <2> QED BY <2>1, <2>2, ComparisonBegins
<1>4. CASE \E right \in BOOLEAN :
              AskMMLU(right) \/ AskCEval(right) \/ AskGSM8K(right) \/ AskHumanEval(right)
    BY <1>4, AnswerKeeps DEF AskMMLU, AskCEval, AskGSM8K, AskHumanEval, Ask
<1>5. CASE BenchmarkFails
    BY <1>5, FailureKeeps
<1>6. CASE SolutionExits
    <2>1. <<>> \in Seq(Runs)
        BY EmptySeq
    <2>2. Unasked \in [asked : 0 .. Questions - 1, right : Nat] /\ Unasked.right <= Unasked.asked
        <3>1. Questions \in Nat \ {0}
            BY EvaluatorAssumption
        <3> QED BY <3>1 DEF Unasked
    <2> QED BY <1>6, <2>1, <2>2 DEF SolutionExits, EvaluatorInv, EvaluatorTyped, Comparing
<1>7. CASE CallReturns
    <2>1. EvaluatorTyped'
        BY <1>7 DEF CallReturns, EvaluatorInv, EvaluatorTyped
    <2> QED BY <1>7, <2>1, NothingDone DEF CallReturns, Comparing
<1>8. CASE UNCHANGED evaluatorVars
    <2>1. UNCHANGED <<benchmarks, latest, call, asked, queue, asking, returned>>
        BY <1>8 DEF evaluatorVars
    <2>2. EvaluatorTyped'
        BY <2>1 DEF EvaluatorInv, EvaluatorTyped
    <2> QED BY <2>1, <2>2, NothingDone
<1> QED BY <1>1, <1>2, <1>3, <1>4, <1>5, <1>6, <1>7, <1>8 DEF EvaluatorNext

\* compare_models: each model's results are its own, there is one for every
\* benchmark, and the summary has those of the last model that got any.
THEOREM ResultsAreTheModels == EvaluatorSpec => []ResultsAttributed
<1>1. ASSUME EvaluatorInv PROVE ResultsAttributed
    <2> SUFFICES ASSUME call = "compared" PROVE ResultsAttributed
        BY DEF ResultsAttributed
    <2>1. /\ EvaluatorTyped /\ Shared /\ queue = <<>>
          /\ IsInjective(benchmarks) => \A n \in ToSet(benchmarks) : Summed(n)
        BY <1>1 DEF EvaluatorInv, Comparing, Shared
    <2>2. DOMAIN returned = [model : ToSet(asked), name : ToSet(benchmarks)]
        BY <2>1, EmptyList DEF Shared
    <2>3. \A r \in DOMAIN returned : returned[r] \in Results /\ returned[r] # NoResult
        BY <2>1, EvaluatorAssumption DEF EvaluatorTyped, Results
    <2>4. ASSUME NEW n \in ToSet(benchmarks), NEW m \in ToSet(asked)
          PROVE  Report[n][m] # NoResult
        <3> DEFINE job == [model |-> m, name |-> n]
        <3>1. job \in DOMAIN returned /\ job.name = n /\ job.model = m
            BY <2>2
        <3>2. n \in {run.name : run \in DOMAIN returned} /\ m \in {run.model : run \in DOMAIN returned}
            BY <3>1
        <3> HIDE DEF job
        <3>3. Report[n][m] = returned[job]
            BY <3>1, <3>2 DEF Report, job
        <3> QED BY <2>3, <3>1, <3>3
    <2>5. ASSUME IsInjective(benchmarks), NEW n \in ToSet(benchmarks)
          PROVE  LET Result(i) == returned[[model |-> asked[i], name |-> n]]
                     passed == {i \in DOMAIN asked : Result(i) # Error}
                 IN  passed # {} => latest[n] = Result(Max(passed))
        <3>1. \A i \in DOMAIN asked : [model |-> asked[i], name |-> n] \in DOMAIN returned
            BY <2>2 DEF ToSet
        <3>2. Passed(n) = {i \in DOMAIN asked : returned[[model |-> asked[i], name |-> n]] # Error}
            BY <3>1 DEF Passed
        <3>3. Summed(n)
            BY <2>1, <2>5
        <3>4. Len(asked) \in Nat /\ Passed(n) \subseteq 0 .. Len(asked)
            BY <2>1, LenProperties DEF EvaluatorTyped, Passed
        <3>5. ASSUME Passed(n) # {}
              PROVE  latest[n] = returned[[model |-> asked[Max(Passed(n))], name |-> n]]
            <4>1. Max(Passed(n)) \in Passed(n) /\ \A k \in Passed(n) : Max(Passed(n)) >= k
                BY <3>4, <3>5, MaxOf
            <4>2. PICK i \in Passed(n) : /\ \A k \in Passed(n) : k <= i
                                         /\ latest[n] = returned[[model |-> asked[i], name |-> n]]
                BY <3>3, <3>5 DEF Summed
            <4>3. i = Max(Passed(n))
                BY <3>4, <4>1, <4>2
            <4> QED BY <4>2, <4>3
        <3> QED BY <3>2, <3>5
    <2> QED BY <2>1, <2>2, <2>4, <2>5 DEF ResultsAttributed, Shared
<1>2. EvaluatorInv /\ [EvaluatorNext]_evaluatorVars => EvaluatorInv'
    BY EvaluatorStep
<1> QED BY <1>1, <1>2, EvaluatorStart, PTL DEF EvaluatorSpec

-----------------------------------------------------------------------------
(* A file of conversations.                                                *)

\* What is left of the messages ends with the last answer.
LEMMA Trimmed ==
    ASSUME NEW M, NEW ms \in Seq(M)
    PROVE  /\ Trim(ms) = <<>> <=> \A i \in DOMAIN ms : ms[i].role # "assistant"
           /\ Trim(ms) # <<>> =>
                 \E n \in DOMAIN ms :
                    /\ ms[n].role = "assistant"
                    /\ \A i \in DOMAIN ms : ms[i].role = "assistant" => i <= n
                    /\ Trim(ms) = SubSeq(ms, 1, n)
                    /\ Trim(ms) \in Seq(M) /\ Len(Trim(ms)) = n
                    /\ \A i \in 1 .. n : Trim(ms)[i] = ms[i]
<1> DEFINE answers == {i \in DOMAIN ms : ms[i].role = "assistant"}
           n == CHOOSE i \in answers : \A j \in answers : j <= i
<1>1. DOMAIN ms = 1 .. Len(ms) /\ Len(ms) \in Nat
    BY LenProperties
<1>2. CASE answers = {}
    BY <1>2 DEF Trim
<1>3. CASE answers # {}
    <2>1. Max(answers) \in answers /\ \A j \in answers : Max(answers) >= j
        <3>1. answers \subseteq 0 .. Len(ms)
            BY <1>1
        <3> HIDE DEF answers
        <3> QED BY <1>1, <1>3, <3>1, MaxOf
    <2>2. n \in answers /\ \A j \in answers : j <= n
        BY <1>1, <2>1
    <2>3. Trim(ms) = SubSeq(ms, 1, n)
        BY <1>3 DEF Trim
    <2> HIDE DEF n
    <2>4. /\ SubSeq(ms, 1, n) \in Seq(M) /\ Len(SubSeq(ms, 1, n)) = n
          /\ \A i \in 1 .. n : SubSeq(ms, 1, n)[i] = ms[i]
        BY <1>1, <2>2, SubSeqProperties
    <2>5. SubSeq(ms, 1, n) # <<>>
        BY <1>1, <2>2, <2>4, EmptySeq
    <2> QED BY <2>2, <2>3, <2>4, <2>5
<1> QED BY <1>2, <1>3

\* What a chat is made of: messages that training sees.
Said == [role : {"user", "assistant", "system"}, content : Contents \cup {Blank}]

\* The types of what is in the file.
ConversationsTyped ==
    /\ format \in {"sharegpt", "chatml", "alpaca", "pair"}
    /\ \E r \in {{"human", "gpt", "tool"}, {"user", "assistant"}} :
          entry.turns \in Seq(Messages(r))
    /\ format \in {"alpaca", "pair"} => entry.turns \in Seq(Messages({"user", "assistant"}))
    /\ format = "pair" => entry.others \in Seq(Messages({"user", "assistant"}))
    /\ format = "sharegpt" => entry.turns \in Seq(Messages({"human", "gpt", "tool"}))
    /\ format = "sharegpt" => entry.system \in Contents \cup {Blank}

\* The inductive invariant of TrainsOnAnswers: a file is read once.
ConversationsInv ==
    /\ ConversationsTyped
    /\ loaded # Unread =>
          loaded = CASE format = "sharegpt" -> LoadShareGPT(entry)
                     [] format = "chatml" -> LoadChatML(entry)
                     [] format = "alpaca" -> LoadAlpaca(entry)
                     [] format = "pair" -> LoadPair(entry)

\* An entry of ShareGPT turns gives a chat that ends with its last answer.
LEMMA ShareGPTTrains ==
    ASSUME ConversationsTyped, format = "sharegpt", LoadShareGPT(entry).outcome = "kept"
    PROVE  \E ms \in Seq(Said) :
              /\ LoadShareGPT(entry) = Kept(<<ms>>)
              /\ ms # <<>> /\ Last(ms).role = "assistant" /\ Last(ms).content # Blank
              /\ \A i \in DOMAIN entry.turns :
                    entry.turns[i].role = "gpt" /\ entry.turns[i].content # Blank =>
                       Contains(ms, Message("assistant", entry.turns[i].content))
<1> DEFINE turns == entry.turns
           piece(i) == IF turns[i].content = Blank THEN <<>>
                       ELSE <<Message(RoleMap[turns[i].role], turns[i].content)>>
           pieces == [i \in DOMAIN turns |-> piece(i)]
           said == FlattenSeq(pieces)
           all == System(entry.system) \o said
           ms == Trim(all)
           Solid == {m \in Said : m.content # Blank}
<1>1. /\ \A i \in DOMAIN turns : turns[i].role \in DOMAIN RoleMap
      /\ ms # <<>> /\ LoadShareGPT(entry) = Kept(<<ms>>)
    BY DEF LoadShareGPT, Raised, Skipped, Kept
<1>2. /\ turns \in Seq(Messages({"human", "gpt", "tool"}))
      /\ DOMAIN turns = 1 .. Len(turns) /\ Len(turns) \in Nat
      /\ \A i \in DOMAIN turns : turns[i] \in Messages({"human", "gpt", "tool"})
    BY LenProperties, ElementOfSeq DEF ConversationsTyped
<1>3. ASSUME NEW i \in DOMAIN turns
      PROVE  /\ piece(i) \in Seq(Solid)
             /\ turns[i].role = "gpt" /\ turns[i].content # Blank =>
                   Message("assistant", turns[i].content) \in ToSet(piece(i))
    <2> DEFINE m == Message(RoleMap[turns[i].role], turns[i].content)
    <2>1. turns[i].role \in {"human", "gpt"} /\ turns[i].content \in Contents \cup {Blank}
        BY <1>1, <1>2 DEF Messages, RoleMap
    <2>2. /\ turns[i].content # Blank => m \in Solid
          /\ turns[i].role = "gpt" => m = Message("assistant", turns[i].content)
        BY <2>1 DEF RoleMap, Message, Said
    <2> HIDE DEF m, Solid
    <2>3. <<>> \in Seq(Solid) /\ \A x \in Solid : <<x>> \in Seq(Solid)
        BY EmptySeq
    <2>4. \A x : x \in ToSet(<<x>>)
        BY DEF ToSet
    <2> QED BY <2>2, <2>3, <2>4 DEF m
<1>4. pieces \in Seq(Seq(Solid)) /\ DOMAIN pieces = DOMAIN turns
      /\ \A i \in DOMAIN turns : pieces[i] = piece(i)
    <2> HIDE DEF piece, turns, Solid
    <2>1. pieces \in [1 .. Len(turns) -> Seq(Solid)]
        BY <1>2, <1>3
    <2> QED BY <1>2, <2>1, SeqDef
<1> HIDE DEF piece, Solid, pieces
<1>5. /\ said \in Seq(Solid)
      /\ \A x : x \in ToSet(said) <=> \E i \in DOMAIN pieces : x \in ToSet(pieces[i])
    BY <1>4, FlattenedMembers
<1>6. System(entry.system) \in Seq(Solid)
    <2>1. entry.system # Blank => Message("system", entry.system) \in Solid
        BY DEF Message, ConversationsTyped, Said, Solid
    <2>2. <<>> \in Seq(Solid) /\ \A x \in Solid : <<x>> \in Seq(Solid)
        BY EmptySeq
    <2> QED BY <2>1, <2>2 DEF System
<1> HIDE DEF said
<1>7. all \in Seq(Solid) /\ ToSet(all) = ToSet(System(entry.system)) \cup ToSet(said)
    BY <1>5, <1>6, ConcatProperties, Concatenated
<1> HIDE DEF all
<1>8. PICK n \in DOMAIN all :
         /\ all[n].role = "assistant"
         /\ \A i \in DOMAIN all : all[i].role = "assistant" => i <= n
         /\ ms \in Seq(Solid) /\ Len(ms) = n
         /\ \A i \in 1 .. n : ms[i] = all[i]
    BY <1>1, <1>7, Trimmed
<1>9. DOMAIN all = 1 .. Len(all) /\ Len(all) \in Nat /\ n \in 1 .. n /\ n \in Nat
    BY <1>7, <1>8, LenProperties
<1> HIDE DEF ms
<1>10. Last(ms) \in Solid /\ Last(ms).role = "assistant"
    BY <1>8, <1>9, ElementOfSeq DEF Last
<1>11. ASSUME NEW i \in DOMAIN turns, turns[i].role = "gpt", turns[i].content # Blank
       PROVE  Contains(ms, Message("assistant", turns[i].content))
    <2> DEFINE m == Message("assistant", turns[i].content)
    <2>1. m \in ToSet(all) /\ m.role = "assistant"
        BY <1>3, <1>4, <1>5, <1>7, <1>11 DEF Message
    <2>2. PICK k \in DOMAIN all : all[k] = m
        BY <2>1 DEF ToSet
    <2>3. k \in 1 .. n
        BY <1>8, <1>9, <2>1, <2>2
    <2> QED BY <1>8, <2>2, <2>3 DEF Contains
<1>12. ms \in Seq(Said)
    BY <1>8, SeqDef DEF Solid
<1> QED BY <1>1, <1>10, <1>11, <1>12 DEF Solid

\* Where the chosen and the rejected turns of a pair have their last answer.
Pairs(i, j) ==
    /\ SubSeq(entry.turns, 1, i - 1) = SubSeq(entry.others, 1, j - 1)
    /\ entry.turns[i].content # entry.others[j].content
    /\ \A k \in i .. Len(entry.turns) : entry.turns[k].role = "assistant" <=> k = i
    /\ \A k \in j .. Len(entry.others) : entry.others[k].role = "assistant" <=> k = j

\* Messages that end with the answer turns[n], after the turns before it.
Ends(ms, sys, turns, n) ==
    /\ \A k \in n .. Len(turns) : turns[k].role = "assistant" <=> k = n
    /\ Front(ms) = sys \o SubSeq(turns, 1, n - 1)
    /\ Last(ms) = turns[n]

\* What a conversation of a pair is trimmed to: the system prompt and its turns up
\* to the last answer.
LEMMA TrimmedTurns ==
    ASSUME NEW M, NEW sys \in Seq(M), NEW turns \in Seq(M),
           \A i \in DOMAIN sys : sys[i].role # "assistant"
    PROVE  /\ Trim(sys \o turns) = <<>> <=> \A i \in DOMAIN turns : turns[i].role # "assistant"
           /\ Trim(sys \o turns) # <<>> =>
                 \E n \in DOMAIN turns : Ends(Trim(sys \o turns), sys, turns, n)
<1> DEFINE all == sys \o turns
           ms == Trim(all)
<1>1. /\ DOMAIN sys = 1 .. Len(sys) /\ Len(sys) \in Nat
      /\ DOMAIN turns = 1 .. Len(turns) /\ Len(turns) \in Nat
      /\ all \in Seq(M) /\ DOMAIN all = 1 .. Len(sys) + Len(turns)
      /\ \A i \in 1 .. Len(sys) + Len(turns) :
            all[i] = IF i <= Len(sys) THEN sys[i] ELSE turns[i - Len(sys)]
    BY LenProperties, ConcatProperties
<1> HIDE DEF all
<1>2. \A i \in DOMAIN turns : i + Len(sys) \in DOMAIN all /\ all[i + Len(sys)] = turns[i]
    BY <1>1
<1>3. \A i \in DOMAIN all : all[i].role = "assistant" =>
         i - Len(sys) \in DOMAIN turns /\ all[i] = turns[i - Len(sys)]
    BY <1>1
<1>4. ms = <<>> <=> \A i \in DOMAIN turns : turns[i].role # "assistant"
    <2>1. ms = <<>> <=> \A i \in DOMAIN all : all[i].role # "assistant"
        BY <1>1, Trimmed
    <2> QED BY <1>2, <1>3, <2>1
<1>5. ASSUME ms # <<>>
      PROVE  \E n \in DOMAIN turns : Ends(ms, sys, turns, n)
    <2>1. PICK l \in DOMAIN all :
             /\ all[l].role = "assistant"
             /\ \A i \in DOMAIN all : all[i].role = "assistant" => i <= l
             /\ ms \in Seq(M) /\ Len(ms) = l
             /\ \A i \in 1 .. l : ms[i] = all[i]
        BY <1>1, <1>5, Trimmed
    <2> DEFINE n == l - Len(sys)
    <2>2. n \in DOMAIN turns /\ all[l] = turns[n] /\ n \in Nat \ {0} /\ l = Len(sys) + n
        BY <1>1, <1>3, <2>1
    <2> HIDE DEF n, ms
    <2>3. \A k \in n .. Len(turns) : turns[k].role = "assistant" <=> k = n
        <3> SUFFICES ASSUME NEW k \in n .. Len(turns) PROVE turns[k].role = "assistant" <=> k = n
            OBVIOUS
        <3>1. k \in DOMAIN turns /\ k >= n /\ k \in Nat
            BY <1>1, <2>2
        <3>2. turns[k].role = "assistant" => k + Len(sys) <= l
            BY <1>2, <2>1, <3>1
        <3> QED BY <1>1, <2>1, <2>2, <3>1, <3>2
    <2>4. Last(ms) = turns[n]
        BY <1>1, <2>1, <2>2 DEF Last
    <2> DEFINE front == SubSeq(turns, 1, n - 1)
    <2>5. /\ front \in Seq(M) /\ Len(front) = n - 1
          /\ \A i \in 1 .. n - 1 : front[i] = turns[i]
        BY <1>1, <2>2, SubSeqProperties
    <2> HIDE DEF front
    <2>6. /\ sys \o front \in Seq(M) /\ Len(sys \o front) = Len(sys) + (n - 1)
          /\ \A i \in 1 .. Len(sys) + (n - 1) :
                (sys \o front)[i] = IF i <= Len(sys) THEN sys[i] ELSE front[i - Len(sys)]
        BY <2>5, ConcatProperties
    <2>7. /\ Front(ms) \in Seq(M) /\ Len(Front(ms)) = l - 1
          /\ \A i \in 1 .. l - 1 : Front(ms)[i] = ms[i]
        <3>1. 1 \in 1 .. Len(ms) + 1 /\ Len(ms) - 1 \in 0 .. Len(ms) /\ Len(ms) \in Nat
            BY <1>1, <2>1, <2>2
        <3> QED BY <2>1, <2>2, <3>1, SubSeqProperties DEF Front
    <2>8. ASSUME NEW i \in 1 .. l - 1 PROVE Front(ms)[i] = (sys \o front)[i]
        <3>1. Front(ms)[i] = all[i] /\ i \in 1 .. Len(sys) + Len(turns)
              /\ i \in 1 .. Len(sys) + (n - 1) /\ i \in 1 .. l
            BY <1>1, <2>1, <2>2, <2>7
        <3>2. CASE i <= Len(sys)
            BY <1>1, <2>6, <3>1, <3>2
        <3>3. CASE i > Len(sys)
            <4>1. i - Len(sys) \in 1 .. n - 1
                BY <1>1, <2>2, <3>1, <3>3
            <4> QED BY <1>1, <2>5, <2>6, <3>1, <3>3, <4>1
        <3>4. i <= Len(sys) \/ i > Len(sys)
            BY <1>1, <3>1
        <3> QED BY <3>2, <3>3, <3>4
    <2>9. Front(ms) = sys \o front
        <3>1. l - 1 = Len(sys) + (n - 1)
            BY <1>1, <2>2
        <3> DEFINE p == Front(ms)
                   q == sys \o front
        <3>2. /\ p \in Seq(M) /\ q \in Seq(M) /\ Len(p) = l - 1 /\ Len(q) = l - 1
              /\ \A i \in 1 .. l - 1 : p[i] = q[i]
            BY <2>6, <2>7, <2>8, <3>1
        <3> HIDE DEF p, q
        <3>3. p = q
            BY <3>2, SeqEqual
        <3> QED BY <3>3 DEF p, q
    <2> QED BY <2>2, <2>3, <2>4, <2>9 DEF front, Ends
<1> QED BY <1>4, <1>5 DEF all

\* A pair gives two answers to one prompt, if it gives anything.
LEMMA PairTrains ==
    ASSUME ConversationsTyped, format = "pair"
    PROVE  /\ LoadPair(entry) # Skipped =>
                 \E chosen, rejected :
                    /\ LoadPair(entry) = Kept(<<chosen, rejected>>)
                    /\ Front(chosen) = Front(rejected) /\ Last(chosen) # Last(rejected)
           /\ LoadPair(entry) # Skipped <=>
                 \E i \in DOMAIN entry.turns, j \in DOMAIN entry.others : Pairs(i, j)
<1> DEFINE M == [role : {"user", "assistant", "system"},
                 content : Contents \cup {Blank, entry.system}]
           sys == System(entry.system)
           turns == entry.turns
           others == entry.others
           chosen == Trim(sys \o turns)
           rejected == Trim(sys \o others)
<1>1. turns \in Seq(M) /\ others \in Seq(M)
    <2>1. Messages({"user", "assistant"}) \subseteq M
        BY DEF Messages
    <2> HIDE DEF M
    <2>2. \A s \in Seq(Messages({"user", "assistant"})) : s \in Seq(M)
        BY <2>1, SeqMonotonic
    <2> QED BY <2>2 DEF ConversationsTyped
<1>2. sys \in Seq(M) /\ \A i \in DOMAIN sys : sys[i].role # "assistant"
    <2>1. Message("system", entry.system) \in M /\ Message("system", entry.system).role # "assistant"
        BY DEF Message
    <2> HIDE DEF M
    <2>2. <<>> \in Seq(M) /\ \A x \in M : <<x>> \in Seq(M)
        BY EmptySeq
    <2>3. DOMAIN <<>> = {}
        OBVIOUS
    <2>4. \A x : DOMAIN <<x>> = {1} /\ <<x>>[1] = x
        OBVIOUS
    <2> QED BY <2>1, <2>2, <2>3, <2>4 DEF System
<1>3. \A x, y \in M : x = y <=> x.role = y.role /\ x.content = y.content
    OBVIOUS
<1>4. /\ LoadPair(entry) = IF turns = <<>> \/ others = <<>> \/ chosen = <<>> \/ rejected = <<>>
                              \/ ~PromptsMatch(Front(chosen), Front(rejected))
                              \/ Last(chosen).content = Last(rejected).content
                           THEN Skipped ELSE Kept(<<chosen, rejected>>)
      /\ \A x : Kept(x) # Skipped
    BY DEF LoadPair, Kept, Skipped
<1>5. /\ turns = <<>> => \A i \in DOMAIN turns : turns[i].role # "assistant"
      /\ others = <<>> => \A i \in DOMAIN others : others[i].role # "assistant"
    BY EmptySeq
<1> HIDE DEF M, sys, turns, others
<1>6. /\ chosen = <<>> <=> \A i \in DOMAIN turns : turns[i].role # "assistant"
      /\ rejected = <<>> <=> \A i \in DOMAIN others : others[i].role # "assistant"
    BY <1>1, <1>2, TrimmedTurns
<1>11. chosen # <<>> =>
          \E n \in DOMAIN turns : Ends(chosen, sys, turns, n)
    BY <1>1, <1>2, TrimmedTurns
<1>12. rejected # <<>> =>
          \E m \in DOMAIN others : Ends(rejected, sys, others, m)
    BY <1>1, <1>2, TrimmedTurns
<1>7. CASE chosen = <<>> \/ rejected = <<>>
    <2>1. LoadPair(entry) = Skipped
        BY <1>4, <1>7
    <2>2. \A i \in DOMAIN turns, j \in DOMAIN others : ~Pairs(i, j)
        <3>1. /\ \A i \in DOMAIN turns : i \in i .. Len(turns)
              /\ \A j \in DOMAIN others : j \in j .. Len(others)
            BY <1>1, LenProperties
        <3> QED BY <1>6, <1>7, <3>1 DEF Pairs, turns, others
    <2> QED BY <2>1, <2>2 DEF turns, others
<1>8. CASE chosen # <<>> /\ rejected # <<>>
    <2> HIDE DEF chosen, rejected
    <2>1. PICK n \in DOMAIN turns :
             /\ \A k \in n .. Len(turns) : turns[k].role = "assistant" <=> k = n
             /\ Front(chosen) = sys \o SubSeq(turns, 1, n - 1)
             /\ Last(chosen) = turns[n]
        BY <1>8, <1>11 DEF Ends
    <2>2. PICK m \in DOMAIN others :
             /\ \A k \in m .. Len(others) : others[k].role = "assistant" <=> k = m
             /\ Front(rejected) = sys \o SubSeq(others, 1, m - 1)
             /\ Last(rejected) = others[m]
        BY <1>8, <1>12 DEF Ends
    <2>3. /\ DOMAIN turns = 1 .. Len(turns) /\ Len(turns) \in Nat
          /\ DOMAIN others = 1 .. Len(others) /\ Len(others) \in Nat
          /\ \A i \in DOMAIN turns : turns[i] \in M
          /\ \A i \in DOMAIN others : others[i] \in M
        BY <1>1, LenProperties, ElementOfSeq
    <2> DEFINE a == SubSeq(turns, 1, n - 1)
               b == SubSeq(others, 1, m - 1)
    <2>4. a \in Seq(M) /\ b \in Seq(M)
        BY <2>3, SubSeqProperties
    <2>5. sys \o a = sys \o b <=> a = b
        BY <1>2, <2>4, SamePrefix
    <2>6. PromptsMatch(Front(chosen), Front(rejected)) <=> a = b
        <3> DEFINE c == sys \o a
                   d == sys \o b
        <3>1. c \in Seq(M) /\ d \in Seq(M) /\ Front(chosen) = c /\ Front(rejected) = d
            BY <1>2, <2>1, <2>2, <2>4, ConcatProperties
        <3> HIDE DEF c, d
        <3>2. /\ DOMAIN c = 1 .. Len(c) /\ \A i \in DOMAIN c : c[i] \in M
              /\ DOMAIN d = 1 .. Len(d) /\ \A i \in DOMAIN d : d[i] \in M
            BY <3>1, LenProperties, ElementOfSeq
        <3>3. PromptsMatch(c, d) <=> c = d
            <4>1. ASSUME PromptsMatch(c, d) PROVE c = d
                <5>1. Len(c) = Len(d) /\ \A i \in 1 .. Len(c) : c[i] = d[i]
                    BY <1>3, <3>2, <4>1 DEF PromptsMatch
                <5> QED BY <3>1, <5>1, SeqEqual
            <4>2. ASSUME c = d PROVE PromptsMatch(c, d)
                BY <4>2 DEF PromptsMatch
            <4> QED BY <4>1, <4>2
        <3> QED BY <2>5, <3>1, <3>3 DEF c, d
    <2>7. Last(chosen) = turns[n] /\ Last(rejected) = others[m]
        BY <2>1, <2>2
    <2>8. turns # <<>> /\ others # <<>>
        BY <2>1, <2>2
    <2>9. LoadPair(entry) # Skipped <=> a = b /\ turns[n].content # others[m].content
        BY <1>4, <1>8, <2>6, <2>7, <2>8
    <2>10. ASSUME NEW i \in DOMAIN turns, NEW j \in DOMAIN others, Pairs(i, j)
           PROVE  i = n /\ j = m
        <3>1. /\ \A k \in i .. Len(turns) : turns[k].role = "assistant" <=> k = i
              /\ \A k \in j .. Len(others) : others[k].role = "assistant" <=> k = j
            BY <2>10 DEF Pairs, turns, others
        <3>2. i = n
            <4>1. CASE i <= n
                BY <2>1, <2>3, <3>1, <4>1
            <4>2. CASE n <= i
                BY <2>1, <2>3, <3>1, <4>2
            <4> QED BY <2>3, <4>1, <4>2
        <3>3. j = m
            <4>1. CASE j <= m
                BY <2>2, <2>3, <3>1, <4>1
            <4>2. CASE m <= j
                BY <2>2, <2>3, <3>1, <4>2
            <4> QED BY <2>3, <4>1, <4>2
        <3> QED BY <3>2, <3>3
    <2>11. Pairs(n, m) <=> a = b /\ turns[n].content # others[m].content
        BY <2>1, <2>2 DEF Pairs, turns, others
    <2>12. LoadPair(entry) # Skipped <=>
              \E i \in DOMAIN turns, j \in DOMAIN others : Pairs(i, j)
        BY <2>9, <2>10, <2>11
    <2>13. LoadPair(entry) # Skipped =>
              /\ LoadPair(entry) = Kept(<<chosen, rejected>>)
              /\ Front(chosen) = Front(rejected) /\ Last(chosen) # Last(rejected)
        BY <1>4, <2>1, <2>2, <2>7, <2>9
    <2> QED BY <2>12, <2>13 DEF turns, others
<1> QED BY <1>7, <1>8

\* An Alpaca entry gives a question and its answer.
LEMMA AlpacaTrains ==
    ASSUME ConversationsTyped, format = "alpaca", LoadAlpaca(entry).outcome = "kept"
    PROVE  \E m \in Said :
              /\ LoadAlpaca(entry) = Kept(<< <<m, Message("assistant", entry.turns[2].content)>> >>)
              /\ entry.turns[2].content # Blank
<1>1. /\ Len(entry.turns) = 2 /\ entry.turns[2].content # Blank
      /\ LoadAlpaca(entry) = Kept(<< <<Message("user", entry.turns[1].content),
                                     Message("assistant", entry.turns[2].content)>> >>)
    BY DEF LoadAlpaca, Skipped
<1>2. entry.turns[1] \in Messages({"user", "assistant"})
    BY <1>1, ElementOfSeq DEF ConversationsTyped
<1>3. Message("user", entry.turns[1].content) \in Said
    BY <1>2 DEF Messages, Message, Said
<1> QED BY <1>1, <1>3

\* What loading of one entry or pair gives is an answer to what was asked.
THEOREM AnswersAreTrained == ConversationsSpec => []TrainsOnAnswers
<1>1. ASSUME ConversationsInit PROVE ConversationsInv
    <2>1. ASSUME NEW r, NEW t \in Turns(r) PROVE t \in Seq(Messages(r))
        <3>1. PICK n \in 0 .. MaxTurns : t \in [1 .. n -> Messages(r)]
            BY DEF Turns
        <3>2. n \in Nat
            BY ConversationsAssumption
        <3> QED BY <3>1, <3>2, SeqDef
    <2>2. CASE format = "sharegpt"
        BY <1>1, <2>1, <2>2 DEF ConversationsInit, ConversationsInv, ConversationsTyped
    <2>3. CASE format \in {"chatml", "alpaca"}
        BY <1>1, <2>1, <2>3 DEF ConversationsInit, ConversationsInv, ConversationsTyped
    <2>4. CASE format = "pair"
        BY <1>1, <2>1, <2>4 DEF ConversationsInit, ConversationsInv, ConversationsTyped
    <2> QED BY <1>1, <2>2, <2>3, <2>4 DEF ConversationsInit
<1>2. ASSUME ConversationsInv, [ConversationsNext]_conversationVars PROVE ConversationsInv'
    <2>1. UNCHANGED <<format, entry>>
        BY <1>2 DEF ConversationsNext, LoadFile, LoadPreferences, conversationVars
    <2>2. ConversationsTyped'
        BY <1>2, <2>1 DEF ConversationsInv, ConversationsTyped
    <2>3. format \in {"sharegpt", "chatml", "alpaca", "pair"}
        BY <1>2 DEF ConversationsInv, ConversationsTyped
    <2> QED BY <1>2, <2>1, <2>2, <2>3
            DEF ConversationsInv, ConversationsNext, LoadFile, LoadPreferences, conversationVars
<1>3. ASSUME ConversationsInv PROVE TrainsOnAnswers
    <2>1. ConversationsTyped /\ \A x : Unread # Kept(x) /\ Unread # Skipped
        BY <1>3 DEF ConversationsInv, Unread, Kept, Skipped
    <2>2. CASE loaded = Unread
        BY <2>2 DEF TrainsOnAnswers, Unread
    <2>3. CASE loaded # Unread /\ format = "sharegpt"
        <3>1. loaded = LoadShareGPT(entry)
            BY <1>3, <2>3 DEF ConversationsInv
        <3>2. CASE loaded.outcome = "kept"
            <4>1. PICK ms \in Seq(Said) :
                    /\ loaded = Kept(<<ms>>)
                    /\ ms # <<>> /\ Last(ms).role = "assistant" /\ Last(ms).content # Blank
                    /\ \A i \in DOMAIN entry.turns :
                          entry.turns[i].role = "gpt" /\ entry.turns[i].content # Blank =>
                             Contains(ms, Message("assistant", entry.turns[i].content))
                BY <2>1, <2>3, <3>1, <3>2, ShareGPTTrains
            <4>2. DOMAIN loaded.conversations = {1} /\ loaded.conversations[1] = ms
                BY <4>1 DEF Kept
            <4> QED BY <2>3, <4>1, <4>2 DEF TrainsOnAnswers, FormatForTraining
        <3> QED BY <2>3, <3>2 DEF TrainsOnAnswers
    <2>4. CASE loaded # Unread /\ format = "alpaca"
        <3>1. loaded = LoadAlpaca(entry)
            BY <1>3, <2>4 DEF ConversationsInv
        <3>2. CASE loaded.outcome = "kept"
            <4> DEFINE answer == Message("assistant", entry.turns[2].content)
            <4>1. PICK m \in Said : loaded = Kept(<< <<m, answer>> >>)
                                    /\ entry.turns[2].content # Blank
                BY <2>1, <2>4, <3>1, <3>2, AlpacaTrains
            <4>2. DOMAIN loaded.conversations = {1} /\ loaded.conversations[1] = <<m, answer>>
                BY <4>1 DEF Kept
            <4>3. Last(<<m, answer>>) = answer
                BY DEF Last
            <4>4. answer.role = "assistant" /\ answer.content # Blank
                BY <4>1 DEF Message
            <4> HIDE DEF answer
            <4> QED BY <2>4, <4>2, <4>3, <4>4 DEF TrainsOnAnswers, FormatForTraining
        <3> QED BY <2>4, <3>2 DEF TrainsOnAnswers
    <2>5. CASE loaded # Unread /\ format = "pair"
        <3>1. loaded = LoadPair(entry)
            BY <1>3, <2>5 DEF ConversationsInv
        <3>2. loaded # Skipped <=>
                 \E i \in DOMAIN entry.turns, j \in DOMAIN entry.others : Pairs(i, j)
            BY <2>1, <2>5, <3>1, PairTrains
        <3>3. ASSUME loaded.outcome = "kept"
              PROVE  LET formatted == [i \in DOMAIN loaded.conversations |->
                                          FormatForTraining(loaded.conversations[i])]
                     IN  /\ formatted[1].input = formatted[2].input
                         /\ formatted[1].output # formatted[2].output
            <4>1. loaded # Skipped
                BY <3>3 DEF Skipped
            <4>2. PICK chosen, rejected :
                     /\ loaded = Kept(<<chosen, rejected>>)
                     /\ Front(chosen) = Front(rejected) /\ Last(chosen) # Last(rejected)
                BY <2>1, <2>5, <3>1, <4>1, PairTrains
            <4>3. /\ DOMAIN loaded.conversations = {1, 2}
                  /\ loaded.conversations[1] = chosen /\ loaded.conversations[2] = rejected
                BY <4>2 DEF Kept
            <4> QED BY <4>2, <4>3 DEF FormatForTraining
        <3> QED BY <2>5, <3>2, <3>3 DEF TrainsOnAnswers, Pairs
    <2>6. CASE loaded # Unread /\ format = "chatml"
        BY <2>6 DEF TrainsOnAnswers
    <2> QED BY <2>1, <2>2, <2>3, <2>4, <2>5, <2>6 DEF ConversationsTyped
<1> QED BY <1>1, <1>2, <1>3, PTL DEF ConversationsSpec

-----------------------------------------------------------------------------
(* Synthetic training data.                                                *)

\* A record as any generator or shuffle leaves it.
Rows == [instruction : Texts, output : Texts]

\* No text of a record has tags.
Tagless(r) == ~r.instruction.tags /\ ~r.output.tags

\* What the filter lets through: no tags, nothing that it refuses, no record twice.
Clean(data) ==
    /\ IsInjective(data)
    /\ \A r \in ToSet(data) : Tagless(r) /\ ~ShouldSkip(r)

\* Tags are removed from a record and it stays a record.
LEMMA Stripped == ASSUME NEW r \in Rows PROVE StripHtml(r) \in Rows /\ Tagless(StripHtml(r))
  BY DEF StripHtml, Rows, Texts, Tagless

\* The filter takes one record after the other.
LEMMA FilterUnfolds ==
    ASSUME NEW data \in Seq(Rows)
    PROVE  \E g \in [0 .. Len(data) -> Seq(Rows)] :
              /\ g[0] = <<>> /\ Filtered(data) = g[Len(data)]
              /\ \A n \in 1 .. Len(data) :
                    LET r == StripHtml(data[n])
                    IN  g[n] = IF ShouldSkip(r) \/ Contains(g[n - 1], r) THEN g[n - 1]
                               ELSE Append(g[n - 1], r)
  <1> DEFINE plain == [i \in DOMAIN data |-> StripHtml(data[i])]
             m == Len(data)
             V == Seq(Rows)
             next(r, v) == IF ShouldSkip(r) \/ Contains(v, r) THEN v ELSE Append(v, r)
             step == [n \in 1 .. m |-> [v \in V |-> next(plain[n], v)]]
             body(f) == [s \in SUBSET (DOMAIN plain) |->
                           IF s = {} THEN <<>>
                           ELSE next(plain[Max(s)], f[s \ {Max(s)}])]
             fold == CHOOSE f : f = body(f)
  <1>1. m \in Nat /\ DOMAIN data = 1 .. m /\ DOMAIN plain = 1 .. m
        /\ \A n \in 1 .. m : plain[n] = StripHtml(data[n]) /\ plain[n] \in Rows
    <2>1. m \in Nat /\ DOMAIN data = 1 .. m /\ \A n \in 1 .. m : data[n] \in Rows
      BY LenProperties, ElementOfSeq
    <2> HIDE DEF m
    <2> QED
      BY <2>1, Stripped
  <1>2. Filtered(data) = fold[DOMAIN plain]
    BY DEF Filtered, FoldLeft, MapThenFoldSet
  <1> HIDE DEF plain, m
  <1>3. ASSUME NEW v \in V, NEW n \in 1 .. m
        PROVE  next(plain[n], v) \in V
    BY <1>1, AppendProperties
  <1>4. step \in [1 .. m -> [V -> V]] /\ <<>> \in V
    BY <1>3, EmptySeq
  <1>5. PICK h : h \in Iterated(m, V, <<>>, step)
    <2> HIDE DEF V, step
    <2>1. Iterated(m, V, <<>>, step) # {}
      BY <1>1, <1>4, IterationExists
    <2> QED
      BY <2>1
  <1>6. /\ h \in [SUBSET (1 .. m) -> V] /\ h[{}] = <<>>
        /\ \A s \in SUBSET (1 .. m) : s # {} => h[s] = next(plain[Max(s)], h[s \ {Max(s)}])
    <2>1. /\ h \in [SUBSET (1 .. m) -> V] /\ h[{}] = <<>>
          /\ \A s \in SUBSET (1 .. m) : s # {} => h[s] = step[Max(s)][h[s \ {Max(s)}]]
      BY <1>5 DEF Iterated
    <2>2. ASSUME NEW s \in SUBSET (1 .. m), s # {}
          PROVE  step[Max(s)][h[s \ {Max(s)}]] = next(plain[Max(s)], h[s \ {Max(s)}])
      <3>1. Max(s) \in 1 .. m
        <4>1. s \subseteq 0 .. m
          BY <1>1
        <4> QED
          BY <1>1, <2>2, <4>1, MaxOf
      <3>2. h[s \ {Max(s)}] \in V
        BY <2>1
      <3> HIDE DEF V, next
      <3> QED
        BY <3>1, <3>2
    <2> HIDE DEF V, next, step
    <2> QED
      BY <2>1, <2>2
  <1> HIDE DEF V, step, next
  <1>7. h = body(h)
    BY <1>1, <1>6
  <1>8. fold = body(fold)
    <2>1. fold = CHOOSE f : f = body(f)
      OBVIOUS
    <2> HIDE DEF body, fold
    <2> QED
      BY <1>7, <2>1
  <1> HIDE DEF fold
  <1> DEFINE g == [n \in 0 .. m |-> h[1 .. n]]
  <1>9. g \in RecursiveUpto(m, V, <<>>, step)
    BY <1>1, <1>4, <1>5, IteratedUpto
  <1>10. g \in [0 .. m -> V] /\ g[0] = <<>> /\ \A n \in 1 .. m : g[n] = next(plain[n], g[n - 1])
    <2> HIDE DEF g
    <2>1. g \in [0 .. m -> V] /\ g[0] = <<>> /\ \A n \in 1 .. m : g[n] = step[n][g[n - 1]]
      BY <1>9 DEF RecursiveUpto
    <2>2. ASSUME NEW n \in 1 .. m PROVE step[n][g[n - 1]] = next(plain[n], g[n - 1])
      <3>1. g[n - 1] \in V
        BY <1>1, <2>1
      <3> QED
        BY <3>1 DEF step
    <2> QED
      BY <2>1, <2>2
  <1> DEFINE T == {n \in 0 .. m : fold[1 .. n] = g[n]}
  <1>11. ASSUME NEW s \in SUBSET (1 .. m)
         PROVE  fold[s] = IF s = {} THEN <<>> ELSE next(plain[Max(s)], fold[s \ {Max(s)}])
    <2>1. body(fold)[s] = IF s = {} THEN <<>> ELSE next(plain[Max(s)], fold[s \ {Max(s)}])
      BY <1>1
    <2> HIDE DEF body
    <2> QED
      BY <1>8, <2>1
  <1>12. 0 \in T
    <2>1. 1 .. 0 = {} /\ 0 \in 0 .. m
      BY <1>1
    <2>2. fold[{}] = <<>>
      BY <1>11
    <2> HIDE DEF g
    <2> QED
      BY <1>10, <2>1, <2>2
  <1>13. ASSUME NEW n \in 0 .. m - 1, n \in T PROVE n + 1 \in T
    <2>1. /\ n + 1 \in 1 .. m /\ (n + 1) - 1 = n /\ n + 1 \in 0 .. m
          /\ n + 1 \in Nat \ {0}
      BY <1>1
    <2>2. 1 .. n + 1 \in SUBSET (1 .. m) /\ n + 1 \in 1 .. n + 1
      BY <1>1
    <2>3. (1 .. n + 1) \ {n + 1} = 1 .. n
      BY <1>1
    <2>4. Max(1 .. n + 1) = n + 1
      BY <2>1, LastPlace
    <2>5. fold[1 .. n + 1] = next(plain[n + 1], fold[1 .. n])
      BY <1>11, <2>2, <2>3, <2>4
    <2> HIDE DEF g
    <2> QED
      BY <1>10, <1>13, <2>1, <2>5
  <1>14. fold[1 .. m] = g[m]
    <2>1. 0 .. m \subseteq T
      <3> HIDE DEF T
      <3> QED
        BY <1>1, <1>12, <1>13, BoundedInduction
    <2> HIDE DEF g
    <2> QED
      BY <1>1, <2>1
  <1> HIDE DEF g
  <1>15. Filtered(data) = g[m]
    BY <1>1, <1>2, <1>14
  <1>16. \A n \in 1 .. m : next(StripHtml(data[n]), g[n - 1]) = g[n]
    <2> SUFFICES ASSUME NEW n \in 1 .. m PROVE next(StripHtml(data[n]), g[n - 1]) = g[n]
      OBVIOUS
    <2>1. plain[n] = StripHtml(data[n])
      BY <1>1
    <2> QED
      BY <1>10, <2>1
  <1>17. g \in [0 .. Len(data) -> Seq(Rows)]
    BY <1>10 DEF m, V
  <1> WITNESS g \in [0 .. Len(data) -> Seq(Rows)]
  <1> QED
    BY <1>10, <1>15, <1>16 DEF m, next

\* What comes out of the filter is clean, whatever goes in.
LEMMA FilterCleans ==
    ASSUME NEW data \in Seq(Rows)
    PROVE  Filtered(data) \in Seq(Rows) /\ Clean(Filtered(data))
  <1> DEFINE m == Len(data)
  <1>1. m \in Nat /\ \A n \in 1 .. m : data[n] \in Rows
    BY LenProperties, ElementOfSeq
  <1>2. PICK g \in [0 .. m -> Seq(Rows)] :
              /\ g[0] = <<>> /\ Filtered(data) = g[m]
              /\ \A n \in 1 .. m :
                    LET r == StripHtml(data[n])
                    IN  g[n] = IF ShouldSkip(r) \/ Contains(g[n - 1], r) THEN g[n - 1]
                               ELSE Append(g[n - 1], r)
    BY FilterUnfolds
  <1> HIDE DEF m
  <1> DEFINE T == {n \in 0 .. m : Clean(g[n])}
  <1>3. 0 \in T
    BY <1>1, <1>2, EmptyList DEF Clean
  <1>4. ASSUME NEW n \in 0 .. m - 1, n \in T PROVE n + 1 \in T
    <2> DEFINE r == StripHtml(data[n + 1])
    <2>1. n + 1 \in 1 .. m /\ (n + 1) - 1 = n /\ n + 1 \in 0 .. m /\ n \in 0 .. m
      BY <1>1
    <2>2. r \in Rows /\ Tagless(r)
      BY <1>1, <2>1, Stripped
    <2>3. g[n + 1] = IF ShouldSkip(r) \/ Contains(g[n], r) THEN g[n] ELSE Append(g[n], r)
      BY <1>2, <2>1
    <2> HIDE DEF r
    <2>4. g[n] \in Seq(Rows) /\ Clean(g[n])
      BY <1>2, <1>4, <2>1
    <2>5. CASE ShouldSkip(r) \/ Contains(g[n], r)
      BY <2>1, <2>3, <2>4, <2>5
    <2>6. CASE ~ShouldSkip(r) /\ ~Contains(g[n], r)
      <3>1. r \notin ToSet(g[n])
        BY <2>4, <2>6, MembersTyped DEF Contains
      <3>2. /\ ToSet(Append(g[n], r)) = ToSet(g[n]) \cup {r}
            /\ IsInjective(Append(g[n], r))
        BY <2>2, <2>4, <3>1, Appended DEF Clean
      <3>3. Clean(Append(g[n], r))
        BY <2>2, <2>4, <2>6, <3>2 DEF Clean
      <3> QED
        BY <2>1, <2>3, <2>6, <3>3
    <2> QED
      BY <2>5, <2>6
  <1>5. 0 .. m \subseteq T
    <2> HIDE DEF T
    <2> QED
      BY <1>1, <1>3, <1>4, BoundedInduction
  <1> QED
    BY <1>1, <1>2, <1>5

\* The records without tags.
TaglessRows == {r \in Rows : Tagless(r)}

\* What is known before the filter and after it; without augmentation the filter
\* had the last word.
Prepared ==
    /\ stage \in {"start", "generated", "filtered", "augmented", "sampled", "split"}
    /\ factor \in {1, 2}
    /\ dataset \in Seq(Rows)
    /\ stage \notin {"start", "generated"} =>
          /\ dataset \in Seq(TaglessRows)
          /\ factor = 1 => Clean(dataset)

\* The halves share nothing, and evaluation gets something if training does.
Halved ==
    stage = "split" =>
        /\ training \subseteq DOMAIN dataset /\ evaluation \subseteq DOMAIN dataset
        /\ training \cap evaluation = {}
        /\ training # {} => evaluation # {}

\* The inductive invariant of NoLeak.
DatasetInv == Prepared /\ Halved

\* A text that is said in other words has no tags if it had none.
LEMMA ShuffledTyped ==
    ASSUME NEW t \in Texts, NEW u \in Shuffled(t)
    PROVE  u \in Texts /\ u.tags = t.tags
  <1>1. CASE u = t
    BY <1>1
  <1>2. CASE u # t
    <2>1. PICK b \in IF t.body = Empty THEN {} ELSE Shuffle[t.body] :
             u = [t EXCEPT !.body = b, !.blanks = FALSE]
      BY <1>2 DEF Shuffled
    <2>2. t.body \in Bodies /\ t.tags \in BOOLEAN
      BY <2>1 DEF Texts
    <2>3. b \in Bodies
      BY <2>1, <2>2, DatasetAssumption
    <2>4. u = [body |-> b, tags |-> t.tags, blanks |-> FALSE]
      BY <2>1 DEF Texts
    <2> QED
      BY <2>2, <2>3, <2>4 DEF Texts
  <1> QED
    BY <1>1, <1>2

\* What a record is augmented to.
LEMMA AugmentedTyped ==
    ASSUME NEW r \in TaglessRows, NEW inst \in Shuffled(r.instruction),
           NEW out \in Shuffled(r.output)
    PROVE  AugmentRecord(r, inst, out) \in Seq(TaglessRows)
  <1>1. /\ r \in Rows /\ r.instruction \in Texts /\ r.output \in Texts
        /\ ~r.instruction.tags /\ ~r.output.tags
        /\ r = [instruction |-> r.instruction, output |-> r.output]
    BY DEF TaglessRows, Rows, Tagless
  <1>2. inst \in Texts /\ inst.tags = r.instruction.tags
    BY <1>1, ShuffledTyped
  <1>3. out \in Texts /\ out.tags = r.output.tags
    BY <1>1, ShuffledTyped
  <1>4. ASSUME NEW a \in Texts, NEW b \in Texts, ~a.tags, ~b.tags
        PROVE  [instruction |-> a, output |-> b] \in TaglessRows
    BY <1>4 DEF TaglessRows, Rows, Tagless
  <1> DEFINE both == [instruction |-> inst, output |-> out]
             i == [r EXCEPT !.instruction = inst]
             o == [r EXCEPT !.output = out]
  <1>5. i \in TaglessRows /\ o \in TaglessRows /\ both \in TaglessRows
    <2>1. i = [instruction |-> inst, output |-> r.output]
      BY <1>1
    <2>2. o = [instruction |-> r.instruction, output |-> out]
      BY <1>1
    <2> HIDE DEF i, o
    <2> QED
      BY <1>1, <1>2, <1>3, <1>4, <2>1, <2>2
  <1> HIDE DEF both, i, o
  <1> DEFINE A(p, x) == IF p THEN <<x>> ELSE <<>>
  <1>6. ASSUME NEW p, NEW x \in TaglessRows PROVE A(p, x) \in Seq(TaglessRows)
    OBVIOUS
  <1>7. \E p, q, s : AugmentRecord(r, inst, out) = <<r>> \o A(p, i) \o A(q, o) \o A(s, both)
    BY DEF AugmentRecord, i, o, both
  <1>8. <<r>> \in Seq(TaglessRows)
    OBVIOUS
  <1> HIDE DEF A
  <1> QED
    BY <1>5, <1>6, <1>7, <1>8, ConcatProperties

\* Nothing is generated yet.
LEMMA DatasetStart == DatasetInit => DatasetInv
  <1> SUFFICES ASSUME DatasetInit PROVE DatasetInv
    OBVIOUS
  <1>1. <<>> \in Seq(Rows)
    BY EmptySeq
  <1> QED
    BY <1>1 DEF DatasetInit, DatasetInv, Prepared, Halved

\* Every generator gives records.
LEMMA GenerateKeeps == ASSUME DatasetInv, Generate PROVE DatasetInv'
  <1>1. Records \subseteq Rows
    BY DEF Records, Rows, Instructions
  <1>2. ASSUME NEW num, NEW R, R \subseteq Rows,
               NEW data \in UNION {[1 .. n -> R] : n \in 0 .. num}
        PROVE  data \in Seq(Rows)
    <2>1. PICK n \in 0 .. num : data \in [1 .. n -> R]
      BY <1>2
    <2>2. n \in Nat /\ data \in [1 .. n -> Rows]
      BY <1>2, <2>1
    <2> QED
      BY <2>2, ListOf
  <1>3. PICK num \in 0 .. MaxNum, llm \in BOOLEAN,
             strategies \in {{"self_instruct", "evol_question"}, {"self_instruct"}} :
           dataset' \in Generated(num, llm, strategies)
                           \cup Evolved(num) \cup BackTranslated(num)
    BY DEF Generate
  <1>4. ASSUME dataset' \in Generated(num, llm, strategies)
        PROVE  dataset' \in Seq(Rows)
    <2>1. CASE ~llm
      <3>1. dataset' \in Seq(Records)
        BY <1>4, <2>1, DatasetAssumption DEF Generated
      <3> QED
        BY <1>1, <3>1, Widened
    <2>2. CASE llm
      <3> DEFINE many == IF "self_instruct" \in strategies
                         THEN num \div Cardinality(strategies) ELSE 0
      <3>1. dataset' \in SelfInstruct(many)
        BY <1>4, <2>2 DEF Generated
      <3>2. dataset' \in UNION {[1 .. n -> Records] : n \in 0 .. many}
        BY <3>1 DEF SelfInstruct
      <3> HIDE DEF many
      <3> QED
        BY <1>1, <1>2, <3>2
    <2> QED
      BY <2>1, <2>2
  <1>5. ASSUME dataset' \in Evolved(num)
        PROVE  dataset' \in Seq(Rows)
    <2> DEFINE R == [instruction : {t \in Texts : t.body # Empty},
                     output : {[body |-> Empty, tags |-> FALSE, blanks |-> FALSE]}]
    <2>1. R \subseteq Rows
      <3>1. [body |-> Empty, tags |-> FALSE, blanks |-> FALSE] \in Texts
        BY DEF Texts
      <3> QED
        BY <3>1 DEF Rows
    <2>2. dataset' \in UNION {[1 .. n -> R] : n \in 0 .. num}
      BY <1>5 DEF Evolved
    <2> HIDE DEF R
    <2> QED
      BY <1>2, <2>1, <2>2
  <1>6. ASSUME dataset' \in BackTranslated(num)
        PROVE  dataset' \in Seq(Rows)
    <2> DEFINE R == [instruction : {s.instruction : s \in ToSet(Seeds)}, output : Texts]
    <2>1. \A s \in ToSet(Seeds) : s.instruction \in Texts
      <3>1. ToSet(Seeds) \subseteq Records
        BY DatasetAssumption, MembersTyped
      <3> QED
        BY <1>1, <3>1 DEF Rows
    <2>2. R \subseteq Rows
      BY <2>1 DEF Rows
    <2>3. dataset' \in UNION {[1 .. n -> R] : n \in 0 .. num}
      BY <1>6 DEF BackTranslated
    <2> HIDE DEF R
    <2> QED
      BY <1>2, <2>2, <2>3
  <1>7. dataset' \in Seq(Rows)
    BY <1>3, <1>4, <1>5, <1>6
  <1> QED
    BY <1>7 DEF DatasetInv, Prepared, Halved, Generate

\* The filter leaves clean records.
LEMMA FilterKeeps == ASSUME DatasetInv, Filter PROVE DatasetInv'
  <1>1. dataset \in Seq(Rows) /\ dataset' = Filtered(dataset)
    BY DEF DatasetInv, Prepared, Filter
  <1>2. dataset' \in Seq(Rows) /\ Clean(dataset')
    BY <1>1, FilterCleans
  <1>3. dataset' \in Seq(TaglessRows)
    <2>1. Len(dataset') \in Nat /\ dataset' \in [1 .. Len(dataset') -> Rows]
          /\ \A i \in 1 .. Len(dataset') : Tagless(dataset'[i])
      BY <1>2, LenProperties, MembersTyped DEF Clean
    <2>2. dataset' \in [1 .. Len(dataset') -> TaglessRows]
      BY <2>1 DEF TaglessRows
    <2> QED
      BY <2>1, <2>2, ListOf
  <1>4. Clean(dataset)'
    BY <1>2 DEF Clean
  <1> QED
    BY <1>2, <1>3, <1>4 DEF DatasetInv, Prepared, Halved, Filter

\* Augmentation adds no tags; with a factor of 1 it adds nothing.
LEMMA AugmentKeeps == ASSUME DatasetInv, Augment PROVE DatasetInv'
  <1>1. /\ dataset \in Seq(TaglessRows) /\ dataset \in Seq(Rows)
        /\ factor \in {1, 2} /\ factor' = factor /\ stage' = "augmented"
        /\ factor = 1 => Clean(dataset)
    BY DEF DatasetInv, Prepared, Augment
  <1>2. CASE factor = 1
    <2>1. dataset' = dataset
      BY <1>2 DEF Augment
    <2> QED
      BY <1>1, <2>1 DEF DatasetInv, Prepared, Halved, Clean
  <1>3. CASE factor # 1
    <2>1. PICK inst \in [DOMAIN dataset -> UNION {Shuffled(dataset[i].instruction) : i \in DOMAIN dataset}],
               out \in [DOMAIN dataset -> UNION {Shuffled(dataset[i].output) : i \in DOMAIN dataset}] :
             /\ \A i \in DOMAIN dataset : /\ inst[i] \in Shuffled(dataset[i].instruction)
                                          /\ out[i] \in Shuffled(dataset[i].output)
             /\ LET all == FlattenSeq([i \in DOMAIN dataset |->
                                          AugmentRecord(dataset[i], inst[i], out[i])])
                IN  dataset' = IF Len(all) <= factor * Len(dataset) THEN all
                               ELSE SubSeq(all, 1, factor * Len(dataset))
      BY <1>3 DEF Augment
    <2> DEFINE parts == [i \in DOMAIN dataset |-> AugmentRecord(dataset[i], inst[i], out[i])]
               all == FlattenSeq(parts)
    <2>2. Len(dataset) \in Nat /\ DOMAIN dataset = 1 .. Len(dataset)
          /\ \A i \in DOMAIN dataset : dataset[i] \in TaglessRows
      BY <1>1, LenProperties, ElementOfSeq
    <2>3. parts \in Seq(Seq(TaglessRows))
      <3>1. \A i \in 1 .. Len(dataset) : parts[i] \in Seq(TaglessRows)
        BY <2>1, <2>2, AugmentedTyped
      <3>2. parts \in [1 .. Len(dataset) -> Seq(TaglessRows)]
        BY <2>2, <3>1
      <3> HIDE DEF parts
      <3> QED
        BY <2>2, <3>2, ListOf
    <2>4. dataset' = IF Len(all) <= factor * Len(dataset) THEN all
                     ELSE SubSeq(all, 1, factor * Len(dataset))
      BY <2>1
    <2> HIDE DEF parts
    <2>5. all \in Seq(TaglessRows)
      BY <2>3, FlattenedMembers
    <2> HIDE DEF all
    <2>6. dataset' \in Seq(TaglessRows)
      <3>1. CASE Len(all) <= factor * Len(dataset)
        BY <2>4, <2>5, <3>1
      <3>2. CASE ~(Len(all) <= factor * Len(dataset))
        <4>1. factor * Len(dataset) \in Nat
          BY <1>1, <2>2
        <4>2. factor * Len(dataset) \in 0 .. Len(all)
          BY <2>5, <3>2, <4>1, LenProperties
        <4> QED
          BY <2>4, <2>5, <3>2, <4>2, Parted
      <3> QED
        BY <3>1, <3>2
    <2>7. dataset' \in Seq(Rows)
      <3>1. TaglessRows \subseteq Rows
        BY DEF TaglessRows
      <3> QED
        BY <2>6, <3>1, Widened
    <2> QED
      BY <1>1, <1>3, <2>6, <2>7 DEF DatasetInv, Prepared, Halved
  <1> QED
    BY <1>2, <1>3

\* Some of the records are as clean as all of them.
LEMMA SampleKeeps == ASSUME DatasetInv, Sample PROVE DatasetInv'
  <1>1. /\ dataset \in Seq(TaglessRows)
        /\ factor \in {1, 2} /\ factor' = factor /\ stage' = "sampled"
        /\ factor = 1 => Clean(dataset)
    BY DEF DatasetInv, Prepared, Sample
  <1>2. Len(dataset) \in Nat /\ DOMAIN dataset = 1 .. Len(dataset)
        /\ \A i \in DOMAIN dataset : dataset[i] \in TaglessRows
    BY <1>1, LenProperties, ElementOfSeq
  <1>3. PICK n \in 0 .. Len(dataset) : \E pick \in [1 .. n -> DOMAIN dataset] :
           /\ \A i, j \in 1 .. n : i < j => pick[i] < pick[j]
           /\ dataset' = [i \in 1 .. n |-> dataset[pick[i]]]
    BY DEF Sample
  <1>4. PICK pick \in [1 .. n -> DOMAIN dataset] :
           /\ \A i, j \in 1 .. n : i < j => pick[i] < pick[j]
           /\ dataset' = [i \in 1 .. n |-> dataset[pick[i]]]
    BY <1>3
  <1>5. n \in Nat /\ dataset' \in [1 .. n -> TaglessRows] /\ DOMAIN dataset' = 1 .. n
    BY <1>2, <1>4
  <1>6. dataset' \in Seq(TaglessRows) /\ dataset' \in Seq(Rows)
    <2>1. TaglessRows \subseteq Rows
      BY DEF TaglessRows
    <2>2. dataset' \in Seq(TaglessRows)
      BY <1>5, ListOf
    <2> QED
      BY <2>1, <2>2, Widened
  <1>7. factor = 1 => Clean(dataset)'
    <2> SUFFICES ASSUME factor = 1 PROVE Clean(dataset)'
      OBVIOUS
    <2>1. \A a, b \in DOMAIN dataset : dataset[a] = dataset[b] => a = b
      BY <1>1 DEF Clean, IsInjective
    <2>2. ASSUME NEW i \in 1 .. n, NEW j \in 1 .. n, dataset'[i] = dataset'[j]
          PROVE  i = j
      <3>1. pick[i] = pick[j]
        BY <1>4, <2>1, <2>2
      <3>2. pick[i] \in Int
        BY <1>2, <1>4
      <3>3. ~(i < j) /\ ~(j < i)
        BY <1>4, <3>1, <3>2
      <3> QED
        BY <3>3
    <2>3. ASSUME NEW i \in 1 .. n PROVE Tagless(dataset'[i]) /\ ~ShouldSkip(dataset'[i])
      <3>1. dataset'[i] = dataset[pick[i]] /\ pick[i] \in DOMAIN dataset
        BY <1>4
      <3>2. dataset'[i] \in ToSet(dataset)
        BY <3>1 DEF ToSet
      <3> QED
        BY <1>1, <3>2 DEF Clean
    <2>4. \A r \in ToSet(dataset') : Tagless(r) /\ ~ShouldSkip(r)
      BY <1>5, <2>3 DEF ToSet
    <2>5. IsInjective(dataset')
      BY <1>5, <2>2 DEF IsInjective
    <2> QED
      BY <2>4, <2>5 DEF Clean
  <1> QED
    BY <1>1, <1>6, <1>7 DEF DatasetInv, Prepared, Halved

\* The split gives every loaded record to one half, the evaluation at least one.
LEMMA SplitKeeps == ASSUME DatasetInv, Split PROVE DatasetInv'
  <1> DEFINE full == {i \in DOMAIN dataset : dataset[i].output.body # Empty}
             n == Cardinality(full)
             count == IF n = 0 THEN 0 ELSE IF n < 20 THEN 1 ELSE n \div 10
  <1>1. PICK e \in SUBSET full : /\ Cardinality(e) = count
                                 /\ evaluation' = e /\ training' = full \ e
    BY DEF Split
  <1>2. /\ Prepared /\ stage \in {"augmented", "sampled"}
        /\ stage' = "split" /\ factor' = factor /\ dataset' = dataset
    BY DEF DatasetInv, Split
  <1>3. IsFiniteSet(full)
    <2>1. Len(dataset) \in Nat /\ DOMAIN dataset = 1 .. Len(dataset)
      BY <1>2, LenProperties DEF Prepared
    <2>2. IsFiniteSet(DOMAIN dataset)
      BY <2>1, FS_Interval
    <2> QED
      BY <2>2, FS_Subset
  <1>4. full \subseteq DOMAIN dataset
    OBVIOUS
  <1> HIDE DEF full
  <1>5. full \ e # {} => e # {}
    <2> SUFFICES ASSUME full # {}, e = {} PROVE FALSE
      OBVIOUS
    <2>1. n \in Nat /\ n # 0
      BY <1>3, FS_CardinalityType, FS_EmptySet
    <2>2. Cardinality(e) = 0
      BY FS_EmptySet
    <2> HIDE DEF n
    <2>3. count \in Nat \ {0}
      BY <2>1
    <2> QED
      BY <1>1, <2>2, <2>3
  <1>6. Prepared'
    BY <1>2 DEF Prepared, Clean
  <1> QED
    BY <1>1, <1>2, <1>4, <1>5, <1>6 DEF DatasetInv, Halved

\* The stages follow one another, and the halves are known at the last.
LEMMA DatasetStep == DatasetInv /\ [DatasetNext]_datasetVars => DatasetInv'
  <1> SUFFICES ASSUME DatasetInv, [DatasetNext]_datasetVars PROVE DatasetInv'
    OBVIOUS
  <1>1. CASE UNCHANGED datasetVars
    BY <1>1 DEF DatasetInv, Prepared, Halved, Clean, datasetVars
  <1> QED
    BY <1>1, GenerateKeeps, FilterKeeps, AugmentKeeps, SampleKeeps, SplitKeeps
       DEF DatasetNext

\* Without augmentation no entry is in both halves unless its record was there
\* twice with other blanks, nothing is trained that the filter refuses or that has
\* tags, and nothing is trained without an evaluation: whatever the generators,
\* the shuffles and the split choose.
THEOREM HalvesApart == DatasetSpec => []NoLeak
  <1>1. ASSUME DatasetInv PROVE NoLeak
    <2> SUFFICES ASSUME stage = "split" PROVE NoLeak
      BY DEF NoLeak
    <2>1. /\ dataset \in Seq(TaglessRows)
          /\ factor = 1 => Clean(dataset)
          /\ training \subseteq DOMAIN dataset /\ evaluation \subseteq DOMAIN dataset
          /\ training \cap evaluation = {} /\ (training # {} => evaluation # {})
      BY <1>1 DEF DatasetInv, Prepared, Halved
    <2>2. ASSUME NEW i \in DOMAIN dataset
          PROVE  /\ dataset[i] \in Rows /\ Tagless(dataset[i])
                 /\ dataset[i] \in ToSet(dataset)
      <3>1. dataset[i] \in TaglessRows
        BY <2>1, LenProperties, ElementOfSeq
      <3> QED
        BY <3>1 DEF TaglessRows, ToSet
    <2>3. ASSUME NEW r \in Rows, NEW q \in Rows, Tagless(r), Tagless(q), Entry(r) = Entry(q),
                 r.instruction.blanks = q.instruction.blanks, r.output.blanks = q.output.blanks
          PROVE  r = q
      BY <2>3 DEF Rows, Texts, Tagless, Entry
    <2>4. ASSUME NEW i \in training, NEW j \in evaluation, factor = 1,
                 Entry(dataset[i]) = Entry(dataset[j])
          PROVE  \/ dataset[i].instruction.blanks # dataset[j].instruction.blanks
                 \/ dataset[i].output.blanks # dataset[j].output.blanks
      <3> SUFFICES ASSUME dataset[i].instruction.blanks = dataset[j].instruction.blanks,
                          dataset[i].output.blanks = dataset[j].output.blanks
                   PROVE  FALSE
        OBVIOUS
      <3>1. dataset[i] = dataset[j]
        BY <2>1, <2>2, <2>3, <2>4
      <3>2. IsInjective(dataset)
        BY <2>1, <2>4 DEF Clean
      <3>3. i = j
        BY <2>1, <3>1, <3>2 DEF IsInjective
      <3> QED
        BY <2>1, <3>3
    <2>5. ASSUME NEW i \in training
          PROVE  /\ factor = 1 => ~ShouldSkip(dataset[i])
                 /\ Entry(dataset[i]).tags = <<FALSE, FALSE>>
      <3>1. /\ dataset[i] \in Rows /\ Tagless(dataset[i])
            /\ dataset[i] \in ToSet(dataset)
        BY <2>1, <2>2
      <3>2. Entry(dataset[i]).tags = <<FALSE, FALSE>>
        BY <3>1 DEF Entry, Tagless, Rows, Texts
      <3> QED
        BY <2>1, <3>1, <3>2 DEF Clean
    <2> QED
      BY <2>1, <2>4, <2>5 DEF NoLeak
  <1> QED
    BY <1>1, DatasetStart, DatasetStep, PTL DEF DatasetSpec

-----------------------------------------------------------------------------
(* What an evaluation scores: answers.                                      *)

\* A text is a list of words.
LEMMA TextOf ==
    ASSUME NEW W, NEW text \in WordTexts(W)
    PROVE  /\ text \in Seq(W) /\ Len(text) \in Nat /\ DOMAIN text = 1 .. Len(text)
           /\ \A i \in 1 .. Len(text) : text[i] \in W
  <1>1. MaxWords \in Nat
    BY MetricsAssumption
  <1>2. PICK n \in 0 .. MaxWords : text \in [1 .. n -> W]
    BY DEF WordTexts
  <1>3. n \in Nat
    BY <1>1
  <1>4. text \in Seq(W)
    BY <1>2, <1>3, ListOf
  <1> QED
    BY <1>2, <1>4, LenProperties, ElementOfSeq

\* What follows a cue is found, and else the last number.
LEMMA NumbersRead ==
    ASSUME NEW text \in WordTexts({<<"none">>, <<"cue">>} \cup ({"number"} \X {0, 1}))
    PROVE  LET Number(i) == i \in DOMAIN text /\ text[i][1] = "number"
               announced == {text[i + 1][2] : i \in {j \in DOMAIN text :
                                text[j][1] = "cue" /\ Number(j + 1)}}
               all == {text[i][2] : i \in {j \in DOMAIN text : Number(j)}}
           IN  \A v \in all : announced = {v} \/ all = {v} => ExtractGSM8K(text) = v
  <1> DEFINE Number(i) == i \in DOMAIN text /\ text[i][1] = "number"
             announced == {text[i + 1][2] : i \in {j \in DOMAIN text :
                              text[j][1] = "cue" /\ Number(j + 1)}}
             all == {text[i][2] : i \in {j \in DOMAIN text : Number(j)}}
             number == {i \in DOMAIN text : text[i][1] = "number"}
             said == {i \in number : i > 1 /\ text[i - 1][1] = "cue"}
  <1>1. Len(text) \in Nat /\ DOMAIN text = 1 .. Len(text)
    BY TextOf
  <1>2. number \subseteq 1 .. Len(text) /\ said \subseteq number
    BY <1>1
  <1>3. all = {text[i][2] : i \in number}
    OBVIOUS
  <1>4. announced = {text[i][2] : i \in said}
    <2>1. ASSUME NEW x \in announced PROVE x \in {text[i][2] : i \in said}
      <3>1. PICK j \in DOMAIN text : text[j][1] = "cue" /\ Number(j + 1) /\ x = text[j + 1][2]
        OBVIOUS
      <3>2. j \in Int /\ j >= 1
        BY <1>1
      <3>3. (j + 1) - 1 = j /\ j + 1 > 1
        BY <3>2
      <3>4. j + 1 \in said
        BY <3>1, <3>3
      <3> QED
        BY <3>1, <3>4
    <2>2. ASSUME NEW x \in {text[i][2] : i \in said} PROVE x \in announced
      <3>1. PICK i \in said : x = text[i][2]
        OBVIOUS
      <3>2. i \in 1 .. Len(text) /\ i > 1
        BY <1>2
      <3>3. i - 1 \in DOMAIN text /\ (i - 1) + 1 = i
        BY <1>1, <3>2
      <3>4. text[i - 1][1] = "cue" /\ Number((i - 1) + 1)
        BY <3>3
      <3> QED
        BY <3>1, <3>3, <3>4
    <2> QED
      BY <2>1, <2>2
  <1> SUFFICES ASSUME NEW v \in all, announced = {v} \/ all = {v} PROVE ExtractGSM8K(text) = v
    OBVIOUS
  <1>5. number # {}
    BY <1>3
  <1>6. ExtractGSM8K(text) = IF said # {} THEN text[Min(said)][2] ELSE text[Max(number)][2]
    BY <1>5 DEF ExtractGSM8K
  <1> HIDE DEF Number, number, said, all, announced
  <1>7. CASE said # {}
    <2>1. Min(said) \in said
      <3>1. said \subseteq Nat
        BY <1>1, <1>2
      <3> QED
        BY <1>7, <3>1, MinOf
    <2>2. text[Min(said)][2] \in announced /\ text[Min(said)][2] \in all
      BY <1>2, <1>3, <1>4, <2>1
    <2> QED
      BY <1>6, <1>7, <2>2
  <1>8. CASE said = {}
    <2>1. Max(number) \in number
      <3>1. number \subseteq 0 .. Len(text)
        BY <1>1, <1>2
      <3> QED
        BY <1>1, <1>5, <3>1, MaxOf
    <2>2. announced = {} /\ text[Max(number)][2] \in all
      BY <1>3, <1>4, <1>8, <2>1
    <2> QED
      BY <1>6, <1>8, <2>2
  <1> QED
    BY <1>7, <1>8

\* A letter that is alone in its text is read.
LEMMA LettersRead ==
    ASSUME NEW text \in WordTexts({<<"none">>} \cup ({"alone", "inside"} \X {0, 1})),
           NEW i \in DOMAIN text, text[i][1] = "alone",
           \A j \in DOMAIN text : j # i => text[j] = <<"none">>
    PROVE  ParseMMLU(text) = text[i][2] /\ ParseCEval(text) = text[i][2]
  <1>1. Len(text) \in Nat /\ DOMAIN text = 1 .. Len(text)
    BY TextOf
  <1>2. \A j \in DOMAIN text : j # i => text[j][1] = "none"
    OBVIOUS
  <1>3. {j \in DOMAIN text : text[j][1] = "alone"} = {i}
    BY <1>2
  <1>4. {j \in DOMAIN text : text[j][1] # "none"} = {i}
    BY <1>2
  <1>5. Min({i}) = i
    BY <1>1, MinOf
  <1> QED
    BY <1>3, <1>4, <1>5 DEF ParseMMLU, ParseCEval

-----------------------------------------------------------------------------
(* The longest common subsequence of ROUGE-L.                               *)

\* There are k places of the first i of a, and as many of the first j of b, with the
\* same words in the same order.
Alike(a, b, i, j, k) ==
    \E f \in [1 .. k -> 1 .. i], g \in [1 .. k -> 1 .. j] :
       /\ \A m, n \in 1 .. k : m < n => f[m] < f[n] /\ g[m] < g[n]
       /\ \A m \in 1 .. k : a[f[m]] = b[g[m]]

\* No more than there are places.
LEMMA AlikeBound ==
    ASSUME NEW a, NEW b, NEW i \in Nat, NEW j \in Nat, NEW k \in Nat, Alike(a, b, i, j, k)
    PROVE  k <= i /\ k <= j
<1>1. ASSUME NEW n \in Nat, NEW f \in [1 .. k -> 1 .. n],
             \A l, m \in 1 .. k : l < m => f[l] < f[m]
      PROVE  k <= n
  <2>1. \A l, m \in 1 .. k : f[l] = f[m] => l = m
    <3> SUFFICES ASSUME NEW l \in 1 .. k, NEW m \in 1 .. k, l # m PROVE f[l] # f[m]
      OBVIOUS
    <3>1. (l < m \/ m < l) /\ f[l] \in Int /\ f[m] \in Int
      OBVIOUS
    <3> QED
      BY <1>1, <3>1
  <2>2. f \in Injection(1 .. k, 1 .. n)
    BY <2>1, Fun_IsInj
  <2>3. IsFiniteSet(1 .. n) /\ Cardinality(1 .. n) = n /\ Cardinality(1 .. k) = k
    BY FS_Interval
  <2> QED
    BY <2>2, <2>3, FS_Injection
<1>2. PICK f \in [1 .. k -> 1 .. i], g \in [1 .. k -> 1 .. j] :
         \A m, n \in 1 .. k : m < n => f[m] < f[n] /\ g[m] < g[n]
  BY DEF Alike
<1> QED
  BY <1>1, <1>2

\* Two equal words at the end are one more.
LEMMA AlikeLast ==
    ASSUME NEW a, NEW b, NEW i \in Nat, NEW j \in Nat, NEW k \in Nat
    PROVE  /\ Alike(a, b, i, j, 0)
           /\ Alike(a, b, i + 1, j + 1, k + 1) => Alike(a, b, i, j, k)
           /\ a[i + 1] = b[j + 1] /\ Alike(a, b, i, j, k) => Alike(a, b, i + 1, j + 1, k + 1)
<1>1. Alike(a, b, i, j, 0)
  <2> DEFINE f == [m \in 1 .. 0 |-> 0]
  <2>1. f \in [1 .. 0 -> 1 .. i] /\ f \in [1 .. 0 -> 1 .. j] /\ \A m \in 1 .. 0 : FALSE
    OBVIOUS
  <2> HIDE DEF f
  <2> QED
    BY <2>1 DEF Alike
<1>2. ASSUME Alike(a, b, i + 1, j + 1, k + 1) PROVE Alike(a, b, i, j, k)
  <2>1. PICK f \in [1 .. k + 1 -> 1 .. i + 1], g \in [1 .. k + 1 -> 1 .. j + 1] :
           /\ \A m, n \in 1 .. k + 1 : m < n => f[m] < f[n] /\ g[m] < g[n]
           /\ \A m \in 1 .. k + 1 : a[f[m]] = b[g[m]]
    BY <1>2 DEF Alike
  <2> DEFINE F == [m \in 1 .. k |-> f[m]]
             G == [m \in 1 .. k |-> g[m]]
  <2>2. F \in [1 .. k -> 1 .. i] /\ G \in [1 .. k -> 1 .. j]
    <3>1. ASSUME NEW m \in 1 .. k PROVE f[m] \in 1 .. i /\ g[m] \in 1 .. j
      <4>1. /\ f[m] < f[k + 1] /\ g[m] < g[k + 1] /\ f[m] \in 1 .. i + 1 /\ g[m] \in 1 .. j + 1
            /\ f[k + 1] \in 1 .. i + 1 /\ g[k + 1] \in 1 .. j + 1
        BY <2>1
      <4> QED
        BY <4>1
    <3> QED
      BY <3>1
  <2>3. /\ \A m, n \in 1 .. k : m < n => F[m] < F[n] /\ G[m] < G[n]
        /\ \A m \in 1 .. k : a[F[m]] = b[G[m]]
    BY <2>1
  <2> HIDE DEF F, G
  <2> QED
    BY <2>2, <2>3 DEF Alike
<1>3. ASSUME a[i + 1] = b[j + 1], Alike(a, b, i, j, k) PROVE Alike(a, b, i + 1, j + 1, k + 1)
  <2>1. PICK f \in [1 .. k -> 1 .. i], g \in [1 .. k -> 1 .. j] :
           /\ \A m, n \in 1 .. k : m < n => f[m] < f[n] /\ g[m] < g[n]
           /\ \A m \in 1 .. k : a[f[m]] = b[g[m]]
    BY <1>3 DEF Alike
  <2> DEFINE F == [m \in 1 .. k + 1 |-> IF m = k + 1 THEN i + 1 ELSE f[m]]
             G == [m \in 1 .. k + 1 |-> IF m = k + 1 THEN j + 1 ELSE g[m]]
  <2>2. \A m \in 1 .. k + 1 : m # k + 1 => m \in 1 .. k
    OBVIOUS
  <2>3. F \in [1 .. k + 1 -> 1 .. i + 1] /\ G \in [1 .. k + 1 -> 1 .. j + 1]
    BY <2>2
  <2>4. ASSUME NEW m \in 1 .. k + 1, NEW n \in 1 .. k + 1, m < n
        PROVE  F[m] < F[n] /\ G[m] < G[n]
    <3>1. m \in 1 .. k /\ f[m] \in 1 .. i /\ g[m] \in 1 .. j
      BY <2>4
    <3>2. CASE n = k + 1
      BY <2>4, <3>1, <3>2
    <3>3. CASE n # k + 1
      BY <2>1, <2>2, <2>4, <3>1, <3>3
    <3> QED
      BY <3>2, <3>3
  <2>5. \A m \in 1 .. k + 1 : a[F[m]] = b[G[m]]
    BY <1>3, <2>1, <2>2
  <2> HIDE DEF F, G
  <2> QED
    BY <2>3, <2>4, <2>5 DEF Alike
<1> QED
  BY <1>1, <1>2, <1>3

\* Of two different words at the end one is not used.
LEMMA AlikeEither ==
    ASSUME NEW a, NEW b, NEW i \in Nat, NEW j \in Nat, NEW k \in Nat
    PROVE  /\ Alike(a, b, i, j + 1, k) \/ Alike(a, b, i + 1, j, k) => Alike(a, b, i + 1, j + 1, k)
           /\ a[i + 1] # b[j + 1] /\ Alike(a, b, i + 1, j + 1, k)
                 => Alike(a, b, i, j + 1, k) \/ Alike(a, b, i + 1, j, k)
<1>1. ASSUME Alike(a, b, i, j + 1, k) \/ Alike(a, b, i + 1, j, k)
      PROVE  Alike(a, b, i + 1, j + 1, k)
  <2>1. [1 .. k -> 1 .. i] \subseteq [1 .. k -> 1 .. i + 1]
        /\ [1 .. k -> 1 .. j] \subseteq [1 .. k -> 1 .. j + 1]
    OBVIOUS
  <2> QED
    BY <1>1, <2>1 DEF Alike
<1>2. ASSUME a[i + 1] # b[j + 1], Alike(a, b, i + 1, j + 1, k)
      PROVE  Alike(a, b, i, j + 1, k) \/ Alike(a, b, i + 1, j, k)
  <2>1. PICK f \in [1 .. k -> 1 .. i + 1], g \in [1 .. k -> 1 .. j + 1] :
           /\ \A m, n \in 1 .. k : m < n => f[m] < f[n] /\ g[m] < g[n]
           /\ \A m \in 1 .. k : a[f[m]] = b[g[m]]
    BY <1>2 DEF Alike
  <2>2. CASE k = 0
    <3>1. j + 1 \in Nat
      OBVIOUS
    <3>2. Alike(a, b, i, j + 1, 0)
      BY <3>1, AlikeLast
    <3> QED
      BY <2>2, <3>2
  <2>3. CASE k # 0 /\ f[k] # i + 1
    <3>1. ASSUME NEW m \in 1 .. k PROVE f[m] \in 1 .. i
      <4>1. /\ m \in 1 .. k /\ k \in 1 .. k /\ (m = k \/ m < k)
            /\ f[m] \in 1 .. i + 1 /\ f[k] \in 1 .. i + 1
        BY <2>3
      <4>2. m = k \/ f[m] < f[k]
        BY <2>1, <4>1
      <4> QED
        BY <2>3, <4>1, <4>2
    <3>2. f \in [1 .. k -> 1 .. i]
      BY <3>1
    <3> QED
      BY <2>1, <3>2 DEF Alike
  <2>4. CASE k # 0 /\ g[k] # j + 1
    <3>1. ASSUME NEW m \in 1 .. k PROVE g[m] \in 1 .. j
      <4>1. /\ m \in 1 .. k /\ k \in 1 .. k /\ (m = k \/ m < k)
            /\ g[m] \in 1 .. j + 1 /\ g[k] \in 1 .. j + 1
        BY <2>4
      <4>2. m = k \/ g[m] < g[k]
        BY <2>1, <4>1
      <4> QED
        BY <2>4, <4>1, <4>2
    <3>2. g \in [1 .. k -> 1 .. j]
      BY <3>1
    <3> QED
      BY <2>1, <3>2 DEF Alike
  <2>5. k # 0 => k \in 1 .. k
    OBVIOUS
  <2> QED
    BY <1>2, <2>1, <2>2, <2>3, <2>4, <2>5
<1> QED
  BY <1>1, <1>2

\* The most that are alike.
MostAlike(a, b, i, j) == Max({k \in 0 .. i : Alike(a, b, i, j, k)})

\* It is reached, and nothing longer is alike.
LEMMA MostAlikeOf ==
    ASSUME NEW a, NEW b, NEW i \in Nat, NEW j \in Nat
    PROVE  /\ MostAlike(a, b, i, j) \in 0 .. i /\ MostAlike(a, b, i, j) <= j
           /\ Alike(a, b, i, j, MostAlike(a, b, i, j))
           /\ \A k \in Nat : Alike(a, b, i, j, k) => k <= MostAlike(a, b, i, j)
<1> DEFINE C == {k \in 0 .. i : Alike(a, b, i, j, k)}
           M == MostAlike(a, b, i, j)
<1>1. Alike(a, b, i, j, 0)
  BY AlikeLast
<1>2. 0 \in C /\ C \subseteq 0 .. i
  BY <1>1
<1>3. M = Max(C)
  BY DEF MostAlike
<1>4. \A k \in Nat : Alike(a, b, i, j, k) => k \in C /\ k <= j
  BY AlikeBound
<1>5. M \in C /\ \A k \in C : M >= k
  <2> HIDE DEF C, M
  <2> QED
    BY <1>2, <1>3, MaxOf
<1> HIDE DEF M
<1>6. M \in 0 .. i /\ Alike(a, b, i, j, M)
  BY <1>5
<1>7. \A k \in Nat : Alike(a, b, i, j, k) => k <= M
  BY <1>4, <1>5, <1>6
<1>8. M <= j
  BY <1>4, <1>6
<1> QED
  BY <1>6, <1>7, <1>8 DEF M

\* The recurrence of the table.
NextAlike(a, b, i, j) ==
    IF a[i + 1] = b[j + 1] THEN MostAlike(a, b, i, j) + 1
    ELSE Max({MostAlike(a, b, i, j + 1), MostAlike(a, b, i + 1, j)})

\* It comes from the three before it.
LEMMA MostAlikeStep ==
    ASSUME NEW a, NEW b, NEW i \in Nat, NEW j \in Nat
    PROVE  /\ MostAlike(a, b, 0, j) = 0 /\ MostAlike(a, b, i, 0) = 0
           /\ MostAlike(a, b, i + 1, j + 1) = NextAlike(a, b, i, j)
<1> DEFINE m == MostAlike(a, b, i + 1, j + 1)
           d == MostAlike(a, b, i, j)
           u == MostAlike(a, b, i, j + 1)
           l == MostAlike(a, b, i + 1, j)
<1>1. MostAlike(a, b, 0, j) = 0 /\ MostAlike(a, b, i, 0) = 0
  <2>1. MostAlike(a, b, 0, j) \in 0 .. 0 /\ MostAlike(a, b, i, 0) \in Nat /\ MostAlike(a, b, i, 0) <= 0
    BY MostAlikeOf
  <2> QED
    BY <2>1
<1>2. /\ m \in Nat /\ Alike(a, b, i + 1, j + 1, m)
      /\ \A k \in Nat : Alike(a, b, i + 1, j + 1, k) => k <= m
  BY MostAlikeOf
<1>3. d \in Nat /\ Alike(a, b, i, j, d) /\ \A k \in Nat : Alike(a, b, i, j, k) => k <= d
  BY MostAlikeOf
<1>4. u \in Nat /\ Alike(a, b, i, j + 1, u) /\ \A k \in Nat : Alike(a, b, i, j + 1, k) => k <= u
  BY MostAlikeOf
<1>5. l \in Nat /\ Alike(a, b, i + 1, j, l) /\ \A k \in Nat : Alike(a, b, i + 1, j, k) => k <= l
  BY MostAlikeOf
<1> HIDE DEF m, d, u, l
<1>6. ASSUME a[i + 1] = b[j + 1] PROVE m = d + 1
  <2>1. d + 1 <= m
    BY <1>2, <1>3, <1>6, AlikeLast
  <2>2. m - 1 \in Nat /\ (m - 1) + 1 = m
    BY <1>2, <1>3, <2>1
  <2>3. Alike(a, b, i, j, m - 1)
    BY <1>2, <2>2, AlikeLast
  <2> QED
    BY <1>2, <1>3, <2>1, <2>2, <2>3
<1>7. ASSUME a[i + 1] # b[j + 1] PROVE m = Max({u, l})
  <2>1. u <= m /\ l <= m
    BY <1>2, <1>4, <1>5, AlikeEither
  <2>2. m <= u \/ m <= l
    BY <1>2, <1>4, <1>5, <1>7, AlikeEither
  <2>3. m \in {u, l} /\ \A y \in {u, l} : m >= y
    BY <1>2, <1>4, <1>5, <2>1, <2>2
  <2>4. \A x \in {u, l} : (\A y \in {u, l} : x >= y) => x = m
    BY <1>2, <1>4, <1>5, <2>3
  <2>5. Max({u, l}) = CHOOSE x \in {u, l} : \A y \in {u, l} : x >= y
    BY DEF Max
  <2> QED
    BY <2>3, <2>4, <2>5
<1> QED
  BY <1>1, <1>6, <1>7 DEF m, d, u, l, NextAlike

\* The next row of the table is the next row.
LEMMA RowOf ==
    ASSUME NEW a, NEW S, NEW b \in Seq(S), NEW i \in Nat
    PROVE  LcsRow(a, b, i + 1, [j \in 0 .. Len(b) |-> MostAlike(a, b, i, j)])
              = [j \in 0 .. Len(b) |-> MostAlike(a, b, i + 1, j)]
<1> DEFINE n == Len(b)
           above == [j \in 0 .. n |-> MostAlike(a, b, i, j)]
           q == [j \in 0 .. n |-> MostAlike(a, b, i + 1, j)]
           body(g) == [j \in 0 .. n |->
                         IF j = 0 THEN 0
                         ELSE IF a[i + 1] = b[j] THEN above[j - 1] + 1
                              ELSE Max({above[j], g[j - 1]})]
           f == CHOOSE g : g = body(g)
<1>0. n \in Nat
  BY LenProperties
<1>1. LcsRow(a, b, i + 1, above) = f
  BY DEF LcsRow
<1>10. MostAlike(a, b, i + 1, 0) = 0
  <2>1. i + 1 \in Nat
    OBVIOUS
  <2> QED
    BY <2>1, MostAlikeStep
<1>11. \A j \in Nat : MostAlike(a, b, i + 1, j + 1) = NextAlike(a, b, i, j)
  BY MostAlikeStep, Zenon
<1> HIDE DEF n
<1>2. ASSUME NEW j \in 0 .. n
      PROVE  q[j] = IF j = 0 THEN 0
                    ELSE IF a[i + 1] = b[j] THEN above[j - 1] + 1
                         ELSE Max({above[j], q[j - 1]})
  <2>1. CASE j = 0
    BY <1>10, <2>1
  <2>2. CASE j # 0
    <3>1. PICK t \in 0 .. n : t \in Nat /\ j = t + 1 /\ j - 1 = t
      BY <1>0, <2>2
    <3>2. MostAlike(a, b, i + 1, t + 1) =
             IF a[i + 1] = b[t + 1] THEN MostAlike(a, b, i, t) + 1
             ELSE Max({MostAlike(a, b, i, t + 1), MostAlike(a, b, i + 1, t)})
      BY <1>11, <3>1, Zenon DEF NextAlike
    <3>3. MostAlike(a, b, i + 1, j) =
             IF a[i + 1] = b[j] THEN MostAlike(a, b, i, t) + 1
             ELSE Max({MostAlike(a, b, i, j), MostAlike(a, b, i + 1, t)})
      BY <3>1, <3>2, Zenon
    <3>4. /\ q[j] = MostAlike(a, b, i + 1, j) /\ above[j] = MostAlike(a, b, i, j)
          /\ above[j - 1] = MostAlike(a, b, i, t)
          /\ q[j - 1] = MostAlike(a, b, i + 1, t)
      BY <3>1
    <3> HIDE DEF q, above
    <3> QED
      BY <2>2, <3>3, <3>4
  <2> QED
    BY <2>1, <2>2
<1>3. q = body(q)
  <2>1. body(q) = [j \in 0 .. n |-> q[j]]
    BY <1>2
  <2> QED
    BY <2>1
<1> HIDE DEF q, above
<1>4. f = body(f)
  <2> HIDE DEF body
  <2> QED
    BY <1>3
<1> HIDE DEF f
<1>5. /\ DOMAIN f = 0 .. n /\ f = [j \in 0 .. n |-> f[j]]
      /\ \A j \in 0 .. n : f[j] = IF j = 0 THEN 0
                                  ELSE IF a[i + 1] = b[j] THEN above[j - 1] + 1
                                       ELSE Max({above[j], f[j - 1]})
  <2>1. /\ DOMAIN body(f) = 0 .. n /\ body(f) = [j \in 0 .. n |-> body(f)[j]]
        /\ \A j \in 0 .. n : body(f)[j] = IF j = 0 THEN 0
                                  ELSE IF a[i + 1] = b[j] THEN above[j - 1] + 1
                                       ELSE Max({above[j], f[j - 1]})
    OBVIOUS
  <2> HIDE DEF body
  <2> QED
    BY <1>4, <2>1
<1> DEFINE T == {j \in 0 .. n : f[j] = q[j]}
<1>6. 0 \in T
  BY <1>0, <1>2, <1>5
<1>7. ASSUME NEW j \in 0 .. n - 1, j \in T PROVE j + 1 \in T
  <2>1. j + 1 \in 0 .. n /\ j + 1 # 0 /\ (j + 1) - 1 = j
    BY <1>0
  <2>2. f[j] = q[j]
    BY <1>7
  <2>3. f[j + 1] = IF a[i + 1] = b[j + 1] THEN above[j] + 1 ELSE Max({above[j + 1], f[j]})
    BY <1>5, <2>1
  <2>4. q[j + 1] = IF a[i + 1] = b[j + 1] THEN above[j] + 1 ELSE Max({above[j + 1], q[j]})
    BY <1>2, <2>1
  <2> QED
    BY <2>1, <2>2, <2>3, <2>4
<1>8. 0 .. n \subseteq T
  <2> HIDE DEF T
  <2> QED
    BY <1>0, <1>6, <1>7, BoundedInduction
<1>9. [j \in 0 .. n |-> f[j]] = [j \in 0 .. n |-> q[j]]
  BY <1>8
<1>12. f = q
  <2>1. q = [j \in 0 .. n |-> q[j]]
    BY DEF q
  <2> QED
    BY <1>5, <1>9, <2>1, Zenon
<1> QED
  BY <1>1, <1>12 DEF n, q, above

\* _lcs_length is the most that are alike.
LEMMA LcsOf ==
    ASSUME NEW S, NEW a \in Seq(S), NEW b \in Seq(S)
    PROVE  LcsLength(a, b) = MostAlike(a, b, Len(a), Len(b))
<1> DEFINE m == Len(a)
           n == Len(b)
           row(i) == [j \in 0 .. n |-> MostAlike(a, b, i, j)]
           q == [i \in 0 .. m |-> row(i)]
           zero == [j \in 0 .. n |-> 0]
           body(g) == [i \in 0 .. m |-> IF i = 0 THEN zero ELSE LcsRow(a, b, i, g[i - 1])]
           f == CHOOSE g : g = body(g)
<1>0. m \in Nat /\ n \in Nat
  BY LenProperties
<1>1. LcsLength(a, b) = f[m][n]
  BY DEF LcsLength
<1>2. row(0) = zero
  <2>1. \A j \in 0 .. n : MostAlike(a, b, 0, j) = 0
    <3>1. 0 \in Nat
      OBVIOUS
    <3>2. \A j \in 0 .. n : j \in Nat
      BY <1>0
    <3> QED
      BY <3>1, <3>2, MostAlikeStep
  <2> QED
    BY <2>1
<1>3. \A i \in Nat : LcsRow(a, b, i + 1, row(i)) = row(i + 1)
  BY RowOf
<1>9. row(m)[n] = MostAlike(a, b, m, n)
  BY <1>0
<1> HIDE DEF m, n, row, zero
<1>4. q = body(q)
  <2>1. ASSUME NEW i \in 0 .. m
        PROVE  q[i] = IF i = 0 THEN zero ELSE LcsRow(a, b, i, q[i - 1])
    <3>1. CASE i = 0
      BY <1>2, <3>1
    <3>2. CASE i # 0
      <4>1. i - 1 \in Nat /\ i - 1 \in 0 .. m /\ (i - 1) + 1 = i
        BY <1>0, <3>2
      <4>2. LcsRow(a, b, (i - 1) + 1, row(i - 1)) = row((i - 1) + 1)
        BY <1>3, <4>1
      <4> QED
        BY <3>2, <4>1, <4>2
    <3> QED
      BY <3>1, <3>2
  <2>2. body(q) = [i \in 0 .. m |-> q[i]]
    BY <2>1
  <2> QED
    BY <2>2
<1> HIDE DEF q
<1>5. f = body(f)
  <2> HIDE DEF body
  <2> QED
    BY <1>4
<1> HIDE DEF f
<1>6. \A i \in 0 .. m : f[i] = IF i = 0 THEN zero ELSE LcsRow(a, b, i, f[i - 1])
  <2>1. \A i \in 0 .. m : body(f)[i] = IF i = 0 THEN zero ELSE LcsRow(a, b, i, f[i - 1])
    OBVIOUS
  <2> HIDE DEF body
  <2> QED
    BY <1>5, <2>1
<1> DEFINE T == {i \in 0 .. m : f[i] = row(i)}
<1>7. 0 .. m \subseteq T
  <2>1. 0 \in T
    BY <1>0, <1>2, <1>6
  <2>2. ASSUME NEW i \in 0 .. m - 1, i \in T PROVE i + 1 \in T
    <3>1. i + 1 \in 0 .. m /\ i + 1 # 0 /\ (i + 1) - 1 = i /\ i \in Nat
      BY <1>0
    <3>2. f[i + 1] = LcsRow(a, b, i + 1, f[i])
      BY <1>6, <3>1
    <3> QED
      BY <1>3, <2>2, <3>1, <3>2
  <2> HIDE DEF T
  <2> QED
    BY <1>0, <2>1, <2>2, BoundedInduction
<1>8. f[m] = row(m)
  BY <1>0, <1>7
<1> QED
  BY <1>1, <1>8, <1>9 DEF m, n

\* ROUGE-L is of the longest common subsequence.
LEMMA LcsLongest ==
    ASSUME NEW S, NEW a \in Seq(S), NEW b \in Seq(S)
    PROVE  LcsLength(a, b) = Max({Len(s) : s \in Subsequences(a) \cap Subsequences(b)})
<1> DEFINE m == Len(a)
           n == Len(b)
           L == {Len(s) : s \in Subsequences(a) \cap Subsequences(b)}
           M == MostAlike(a, b, m, n)
<1>0. m \in Nat /\ n \in Nat /\ DOMAIN a = 1 .. m /\ DOMAIN b = 1 .. n
  BY LenProperties
<1>1. /\ M \in 0 .. m /\ Alike(a, b, m, n, M)
      /\ \A k \in Nat : Alike(a, b, m, n, k) => k <= M
  BY <1>0, MostAlikeOf
<1> HIDE DEF M
<1>2. ASSUME NEW c, NEW e \in Nat, DOMAIN c = 1 .. e, NEW s \in SUBSET (1 .. e)
      PROVE  \E k \in Nat : \E f \in [1 .. k -> 1 .. e] :
                /\ \A i, j \in 1 .. k : i < j => f[i] < f[j]
                /\ At(c, s) = [i \in 1 .. k |-> c[f[i]]] /\ Len(At(c, s)) = k
  <2> DEFINE k == Cardinality(s)
             f == Ascending(s)
  <2>1. /\ k \in Nat /\ f \in [1 .. k -> s]
        /\ \A i, j \in 1 .. k : i < j => f[i] < f[j]
    BY Ascended
  <2>2. At(c, s) = [j \in DOMAIN f |-> c[f[j]]]
    BY DEF At
  <2> HIDE DEF k, f
  <2>3. f \in [1 .. k -> 1 .. e] /\ At(c, s) = [i \in 1 .. k |-> c[f[i]]]
    BY <2>1, <2>2
  <2>4. Len([i \in 1 .. k |-> c[f[i]]]) = k
    BY <2>1
  <2> QED
    BY <2>1, <2>3, <2>4
<1>3. ASSUME NEW l \in L PROVE l \in Nat /\ l <= M
  <2>1. PICK x \in Subsequences(a) \cap Subsequences(b) : l = Len(x)
    OBVIOUS
  <2>2. PICK s \in SUBSET (1 .. m), t \in SUBSET (1 .. n) : x = At(a, s) /\ x = At(b, t)
    BY <1>0 DEF Subsequences
  <2>3. PICK k \in Nat : \E f \in [1 .. k -> 1 .. m] :
           /\ \A i, j \in 1 .. k : i < j => f[i] < f[j]
           /\ At(a, s) = [i \in 1 .. k |-> a[f[i]]] /\ Len(At(a, s)) = k
    BY <1>0, <1>2
  <2>4. PICK h \in Nat : \E g \in [1 .. h -> 1 .. n] :
           /\ \A i, j \in 1 .. h : i < j => g[i] < g[j]
           /\ At(b, t) = [i \in 1 .. h |-> b[g[i]]] /\ Len(At(b, t)) = h
    BY <1>0, <1>2
  <2>8. PICK f \in [1 .. k -> 1 .. m] :
           /\ \A i, j \in 1 .. k : i < j => f[i] < f[j]
           /\ At(a, s) = [i \in 1 .. k |-> a[f[i]]]
    BY <2>3
  <2>9. PICK g \in [1 .. h -> 1 .. n] :
           /\ \A i, j \in 1 .. h : i < j => g[i] < g[j]
           /\ At(b, t) = [i \in 1 .. h |-> b[g[i]]]
    BY <2>4
  <2>5. h = k /\ l = k
    BY <2>1, <2>2, <2>3, <2>4
  <2>6. \A i \in 1 .. k : a[f[i]] = x[i] /\ b[g[i]] = x[i]
    BY <2>2, <2>5, <2>8, <2>9
  <2>10. /\ g \in [1 .. k -> 1 .. n]
         /\ \A i, j \in 1 .. k : i < j => f[i] < f[j] /\ g[i] < g[j]
         /\ \A i \in 1 .. k : a[f[i]] = b[g[i]]
    BY <2>5, <2>6, <2>8, <2>9
  <2>7. Alike(a, b, m, n, k)
    BY <2>8, <2>10, <2>9, <2>5, <2>6 DEF Alike
  <2> QED
    BY <1>1, <2>5, <2>7
<1>4. M \in L
  <2>1. PICK f \in [1 .. M -> 1 .. m], g \in [1 .. M -> 1 .. n] :
           /\ \A i, j \in 1 .. M : i < j => f[i] < f[j] /\ g[i] < g[j]
           /\ \A i \in 1 .. M : a[f[i]] = b[g[i]]
    BY <1>1 DEF Alike
  <2> DEFINE s == {f[i] : i \in 1 .. M}
             t == {g[i] : i \in 1 .. M}
             x == [i \in 1 .. M |-> a[f[i]]]
  <2>0. M \in Nat
    BY <1>0, <1>1
  <2>2. s \subseteq 1 .. m /\ Ascending(s) = f
    <3>1. \A i, j \in 1 .. M : i < j => f[i] < f[j]
      BY <2>1
    <3>2. Mounting(f, M)
      BY <3>1 DEF Mounting
    <3>3. s = Named(f, M)
      BY DEF Named
    <3>4. f \in [1 .. M -> 1 .. m] /\ m \in Nat
      BY <1>0
    <3> HIDE DEF x, s, t, L, m, n
    <3> QED
      BY <2>0, <3>2, <3>3, <3>4, Enumerated
  <2>3. t \subseteq 1 .. n /\ Ascending(t) = g
    <3>1. \A i, j \in 1 .. M : i < j => g[i] < g[j]
      BY <2>1
    <3>2. Mounting(g, M)
      BY <3>1 DEF Mounting
    <3>3. t = Named(g, M)
      BY DEF Named
    <3>4. g \in [1 .. M -> 1 .. n] /\ n \in Nat
      BY <1>0
    <3> HIDE DEF x, t, s, L, m, n
    <3> QED
      BY <2>0, <3>2, <3>3, <3>4, Enumerated
  <2>4. At(a, s) = x
    BY <2>2 DEF At
  <2>5. At(b, t) = [i \in 1 .. M |-> b[g[i]]]
    BY <2>3 DEF At
  <2>6. At(b, t) = x
    BY <2>1, <2>5
  <2>7. Len(x) = M
    BY <2>0
  <2> HIDE DEF s, t, x
  <2>8. x \in Subsequences(a) /\ x \in Subsequences(b)
    BY <1>0, <2>2, <2>3, <2>4, <2>6 DEF Subsequences
  <2> QED
    BY <2>7, <2>8
<1>5. LcsLength(a, b) = M
  BY LcsOf DEF M
<1> HIDE DEF L
<1>6. Max(L) = CHOOSE x \in L : \A y \in L : x >= y
  BY DEF Max
<1>7. \A x \in L : (\A y \in L : x >= y) => x = M
  BY <1>3, <1>4
<1>8. \A y \in L : M >= y
  BY <1>3, <1>4
<1>9. Max(L) = M
  BY <1>4, <1>6, <1>7, <1>8
<1> QED
  BY <1>5, <1>9 DEF L

-----------------------------------------------------------------------------
(* ROUGE-1, F1 and exact matches.                                           *)

\* A text of words: its places and its words are finitely many.
LEMMA WordsOf ==
    ASSUME NEW p \in WordTexts(Words)
    PROVE  /\ Len(p) \in Nat /\ DOMAIN p = 1 .. Len(p) /\ p \in [1 .. Len(p) -> Words]
           /\ p \in Seq(Words) /\ p = <<>> <=> Len(p) = 0
           /\ IsFiniteSet(DOMAIN p) /\ Cardinality(DOMAIN p) = Len(p)
           /\ IsFiniteSet(ToSet(p)) /\ ToSet(p) \subseteq Words
           /\ ToSet(p) = {} <=> p = <<>>
           /\ \A w \in Words : /\ Count(w, p) \in Nat
                               /\ Count(w, p) = 0 <=> w \notin ToSet(p)
<1>1. PICK n \in 0 .. MaxWords : p \in [1 .. n -> Words]
  BY DEF WordTexts
<1>2. n \in Nat /\ Len(p) = n /\ p \in Seq(Words)
  BY <1>1, MetricsAssumption, ListOf
<1>3. IsFiniteSet(1 .. n) /\ Cardinality(1 .. n) = n
  BY <1>2, FS_Interval
<1>4. ToSet(p) = {p[i] : i \in 1 .. n}
  BY <1>1, <1>2 DEF ToSet
<1>5. IsFiniteSet({p[i] : i \in 1 .. n})
  BY <1>3, ImageFinite
<1>6. ToSet(p) = {} <=> n = 0
  BY <1>2, <1>4
<1>7. p = <<>> <=> n = 0
  BY <1>1, <1>2
<1>8. ASSUME NEW w \in Words PROVE Count(w, p) \in Nat /\ (Count(w, p) = 0 <=> w \notin ToSet(p))
  <2> DEFINE C == {i \in 1 .. n : p[i] = w}
  <2>1. C \in SUBSET (1 .. n) /\ (C = {} <=> w \notin ToSet(p)) /\ Count(w, p) = Cardinality(C)
    BY <1>1, <1>4 DEF Count
  <2> HIDE DEF C
  <2>2. IsFiniteSet(C)
    BY <1>3, <2>1, FS_Subset
  <2> QED
    BY <2>1, <2>2, FS_CardinalityType, FS_EmptySet
<1> QED
  BY <1>1, <1>2, <1>3, <1>4, <1>5, <1>6, <1>7, <1>8

\* ROUGE-1 counts as many places of one text as can each be given one in the other.
Fair(p, r) ==
    {t \in SUBSET DOMAIN p : \A w \in Words : Cardinality({i \in t : p[i] = w}) <= Count(w, r)}

\* The overlap of the bags is the most places that can be paired.
LEMMA OverlapMost ==
    ASSUME NEW p \in WordTexts(Words), NEW r \in WordTexts(Words)
    PROVE  BagOverlap(p, r) = Max({Cardinality(s) : s \in Fair(p, r)})
<1> DEFINE W == ToSet(p) \cup ToSet(r)
           D == DOMAIN p
           c == [w \in W |-> Min({Count(w, p), Count(w, r)})]
           Of(t, w) == {i \in t : p[i] = w}
           M == SumFunctionOnSet(c, W)
           L == {Cardinality(s) : s \in Fair(p, r)}
<1>1. BagOverlap(p, r) = M
  BY DEF BagOverlap, SumFunction
<1>2. IsFiniteSet(W) /\ W \subseteq Words /\ IsFiniteSet(D) /\ \A i \in D : p[i] \in W
  <2>1. IsFiniteSet(W)
    BY WordsOf, FS_Union
  <2> QED
    BY <2>1, WordsOf DEF ToSet
<1>3. \A w \in Words : /\ Count(w, p) \in Nat /\ Count(w, r) \in Nat
                       /\ w \notin W => Count(w, p) = 0
                       /\ Count(w, p) = Cardinality(Of(D, w))
  BY WordsOf DEF Count
<1>4. \A w \in W : /\ c[w] \in Nat /\ c[w] <= Count(w, p) /\ c[w] <= Count(w, r)
                   /\ c[w] = Count(w, p) \/ c[w] = Count(w, r)
  <2> SUFFICES ASSUME NEW w \in W
               PROVE  /\ c[w] \in Nat /\ c[w] <= Count(w, p) /\ c[w] <= Count(w, r)
                      /\ c[w] = Count(w, p) \/ c[w] = Count(w, r)
    OBVIOUS
  <2>1. Count(w, p) \in Nat /\ Count(w, r) \in Nat
    BY <1>2, <1>3
  <2>2. c[w] = IF Count(w, p) <= Count(w, r) THEN Count(w, p) ELSE Count(w, r)
    BY <2>1, MinMaxOfTwo
  <2> HIDE DEF c
  <2> QED
    BY <2>1, <2>2
<1>5. M \in Int
  <2> HIDE DEF c, W
  <2>1. \A w \in W : c[w] \in Int
    BY <1>4
  <2> QED
    BY <1>2, <2>1, SumInt
<1> HIDE DEF c, W, M
<1>6. ASSUME NEW t \in SUBSET D, NEW k \in [W -> Nat], \A w \in W : k[w] = Cardinality(Of(t, w))
      PROVE  Cardinality(t) = SumFunctionOnSet(k, W)
  <2> DEFINE C == {i \in t : p[i] \in W}
  <2>1. IsFiniteSet(t) /\ \A i \in t : p[i] \in W
    BY <1>2, FS_Subset
  <2> HIDE DEF D
  <2>2. \A w \in W : k[w] = Cardinality({i \in t : p[i] = w})
    BY <1>6
  <2> QED
    BY <1>2, <2>1, <2>2, SumCounts
<1>7. ASSUME NEW t \in SUBSET D, NEW w
      PROVE  /\ IsFiniteSet(Of(t, w)) /\ Cardinality(Of(t, w)) \in Nat
             /\ Cardinality(Of(t, w)) <= Cardinality(Of(D, w))
  <2>1. Of(t, w) \in SUBSET Of(D, w) /\ Of(D, w) \in SUBSET D
    OBVIOUS
  <2> HIDE DEF Of
  <2>2. IsFiniteSet(Of(D, w))
    BY <1>2, <2>1, FS_Subset
  <2> QED
    BY <2>1, <2>2, FS_Subset, FS_CardinalityType
<1>8. ASSUME NEW l \in L PROVE l \in Int /\ l <= M
  <2>1. PICK t \in Fair(p, r) : l = Cardinality(t)
    OBVIOUS
  <2>2. t \in SUBSET D /\ \A w \in Words : Cardinality(Of(t, w)) <= Count(w, r)
    BY DEF Fair
  <2> DEFINE k == [w \in W |-> Cardinality(Of(t, w))]
  <2>3. k \in [W -> Nat] /\ \A w \in W : k[w] = Cardinality(Of(t, w))
    BY <1>7, <2>2
  <2> HIDE DEF k
  <2>4. \A w \in W : k[w] \in Int /\ c[w] \in Int /\ k[w] <= c[w]
    <3> SUFFICES ASSUME NEW w \in W PROVE k[w] \in Int /\ c[w] \in Int /\ k[w] <= c[w]
      OBVIOUS
    <3>1. w \in Words
      BY <1>2
    <3>2. Cardinality(Of(t, w)) <= Cardinality(Of(D, w)) /\ Cardinality(Of(t, w)) <= Count(w, r)
      BY <1>7, <2>2, <3>1
    <3> HIDE DEF Of
    <3> QED
      BY <1>3, <1>4, <2>3, <3>1, <3>2
  <2>5. SumFunctionOnSet(k, W) <= M
    BY <1>2, <2>4, SumLeq DEF M
  <2>6. l = SumFunctionOnSet(k, W)
    BY <1>6, <2>1, <2>2, <2>3
  <2>7. l \in Nat
    <3>1. IsFiniteSet(t)
      BY <1>2, <2>2, FS_Subset
    <3> QED
      BY <2>1, <3>1, FS_CardinalityType
  <2> QED
    BY <2>5, <2>6, <2>7
<1>9. M \in L
  <2>1. \A w \in W : \E x \in SUBSET Of(D, w) : Cardinality(x) = c[w]
    <3> SUFFICES ASSUME NEW w \in W PROVE \E x \in SUBSET Of(D, w) : Cardinality(x) = c[w]
      OBVIOUS
    <3>1. w \in Words /\ D \in SUBSET D
      BY <1>2
    <3>2. IsFiniteSet(Of(D, w)) /\ c[w] \in Nat /\ c[w] <= Cardinality(Of(D, w))
      BY <1>3, <1>4, <1>7, <3>1
    <3> HIDE DEF Of
    <3> QED
      BY <3>2, PartOfSize
  <2> DEFINE X == [w \in W |-> CHOOSE x \in SUBSET Of(D, w) : Cardinality(x) = c[w]]
             t == {i \in D : i \in X[p[i]]}
  <2>2. \A w \in W : X[w] \in SUBSET Of(D, w) /\ Cardinality(X[w]) = c[w]
    <3> HIDE DEF Of
    <3> QED
      BY <2>1
  <2> HIDE DEF X
  <2>3. t \in SUBSET D
    OBVIOUS
  <2>4. \A w \in W : Of(t, w) = X[w]
    BY <1>2, <2>2
  <2>5. \A w \in W : c[w] = Cardinality(Of(t, w))
    BY <2>2, <2>4
  <2>6. \A w : w \notin W => Of(t, w) = {}
    BY <1>2
  <2>7. t \in Fair(p, r)
    <3>1. ASSUME NEW w \in Words PROVE Cardinality(Of(t, w)) <= Count(w, r)
      <4>1. CASE w \in W
        BY <1>4, <2>5, <4>1
      <4>2. CASE w \notin W
        <5>1. Cardinality(Of(t, w)) = 0
          BY <2>6, <4>2, FS_EmptySet
        <5>2. Count(w, r) \in Nat
          BY <1>3
        <5> HIDE DEF Of
        <5> QED
          BY <5>1, <5>2
      <4> QED
        BY <4>1, <4>2
    <3> QED
      BY <2>3, <3>1 DEF Fair
  <2>8. c \in [W -> Nat]
    <3>1. c = [w \in W |-> c[w]]
      BY DEF c
    <3> QED
      BY <1>4, <3>1
  <2> HIDE DEF t
  <2>9. Cardinality(t) = M
    BY <1>6, <2>3, <2>5, <2>8 DEF M
  <2> QED
    BY <2>7, <2>9
<1> HIDE DEF L
<1>10. Max(L) = M
  BY <1>8, <1>9, MaxIs
<1> QED
  BY <1>1, <1>10 DEF L

\* An F1 of 1 is for equal sets of words only.
LEMMA F1Fair ==
    ASSUME NEW p \in WordTexts(Words), NEW r \in WordTexts(Words)
    PROVE  Equal(F1Score(p, r), <<1, 1>>) <=> ToSet(p) = ToSet(r)
<1> DEFINE A == ToSet(p)
           B == ToSet(r)
           P == Cardinality(A)
           R == Cardinality(B)
           c == Cardinality(A \cap B)
<1>1. /\ IsFiniteSet(A) /\ IsFiniteSet(B) /\ (A = {} <=> p = <<>>) /\ (B = {} <=> r = <<>>)
  BY WordsOf
<1>2. F1Score(p, r) = IF p = <<>> /\ r = <<>> THEN <<1, 1>> ELSE F1(c, P, R)
  BY DEF F1Score
<1> HIDE DEF A, B
<1>3. IsFiniteSet(A \cap B) /\ c <= P /\ c <= R
  BY <1>1, FS_Intersection
<1>4. c \in Nat /\ P \in Nat /\ R \in Nat
  BY <1>1, <1>3, FS_CardinalityType
<1>5. (P = 0 <=> A = {}) /\ (R = 0 <=> B = {}) /\ (c = 0 <=> A \cap B = {})
  BY <1>1, <1>3, FS_EmptySet
<1>6. c = P /\ c = R <=> A = B
  <2>1. A \cap B \in SUBSET A /\ A \cap B \in SUBSET B
    OBVIOUS
  <2>2. c = P => A \cap B = A
    BY <1>1, <2>1, FS_Subset
  <2>3. c = R => A \cap B = B
    BY <1>1, <2>1, FS_Subset
  <2>4. A = B => A \cap B = A /\ A \cap B = B
    OBVIOUS
  <2> QED
    BY <2>2, <2>3, <2>4
<1> HIDE DEF c, P, R
<1>7. CASE p = <<>> /\ r = <<>>
  BY <1>1, <1>2, <1>7 DEF Equal
<1>8. CASE ~(p = <<>> /\ r = <<>>) /\ (P = 0 \/ R = 0 \/ c = 0)
  <2>1. F1Score(p, r) = <<0, 1>>
    BY <1>2, <1>8 DEF F1
  <2>2. ~Equal(<<0, 1>>, <<1, 1>>)
    BY DEF Equal
  <2>3. A # B
    BY <1>1, <1>5, <1>8
  <2> QED
    BY <2>1, <2>2, <2>3 DEF A, B
<1>9. CASE ~(p = <<>> /\ r = <<>>) /\ ~(P = 0 \/ R = 0 \/ c = 0)
  <2>1. F1Score(p, r) = <<2 * c * c, c * P + c * R>>
    BY <1>2, <1>9 DEF F1
  <2>2. PICK x \in Int, y \in Int, z \in Int : x = 2 * c * c /\ y = c * P /\ z = c * R
    BY <1>4
  <2>3. Equal(F1Score(p, r), <<1, 1>>) <=> x = y + z
    BY <2>1, <2>2 DEF Equal
  <2>4. x - y - z = c * (2 * c - P - R)
    BY <1>4, <2>2
  <2>5. x = y + z <=> x - y - z = 0
    BY <2>2
  <2> DEFINE d == 2 * c - P - R
  <2>6. d \in Int /\ (d = 0 <=> c = P /\ c = R)
    BY <1>3, <1>4
  <2>7. c * d = 0 <=> d = 0
    <3>1. c \in Int /\ c # 0
      BY <1>4, <1>9
    <3> HIDE DEF d
    <3> QED
      BY <2>6, <3>1
  <2> QED
    BY <1>6, <2>3, <2>4, <2>5, <2>6, <2>7 DEF A, B
<1> QED
  BY <1>7, <1>8, <1>9

\* And an exact match of 1 is of equal lists.
LEMMA ExactFair ==
    ASSUME NEW p \in WordTexts(Words), NEW r \in WordTexts(Words), Len(p) = Len(r)
    PROVE  Equal(ExactMatch(p, r), <<1, 1>>) <=> p = r
<1> DEFINE D == DOMAIN p
           E == {i \in D : p[i] = r[i]}
           n == Len(p)
<1>1. /\ n \in Nat /\ D = 1 .. n /\ p \in [1 .. n -> Words] /\ r \in [1 .. n -> Words]
      /\ IsFiniteSet(D) /\ Cardinality(D) = n
  BY WordsOf
<1>2. CASE p = <<>>
  <2>1. ExactMatch(p, r) = <<1, 1>>
    BY <1>2 DEF ExactMatch
  <2>2. Len(r) = 0
    BY <1>2
  <2>3. r = <<>>
    BY <2>2, WordsOf
  <2> QED
    BY <1>2, <2>1, <2>3 DEF Equal
<1>3. CASE p # <<>>
  <2>1. ExactMatch(p, r) = <<Cardinality(E), n>>
    BY <1>3 DEF ExactMatch
  <2>2. p = r <=> E = D
    BY <1>1
  <2>3. E \in SUBSET D
    OBVIOUS
  <2> HIDE DEF D, E, n
  <2>4. IsFiniteSet(E) /\ (Cardinality(E) = n <=> E = D)
    BY <1>1, <2>3, FS_Subset
  <2>5. Cardinality(E) \in Nat
    BY <2>4, FS_CardinalityType
  <2>6. Equal(ExactMatch(p, r), <<1, 1>>) <=> Cardinality(E) = n
    BY <1>1, <2>1, <2>5 DEF Equal
  <2> QED
    BY <2>2, <2>4, <2>6
<1> QED
  BY <1>2, <1>3

-----------------------------------------------------------------------------
(* pass@k and averages.                                                     *)

\* math.comb counts them.
LEMMA CombOf ==
    ASSUME NEW n \in Nat, NEW k \in Nat
    PROVE  Comb(n, k) = Ways(k, n)
<1> DEFINE next(m, above) == [l \in 0 .. k |-> IF l = 0 THEN 1 ELSE IF m = 0 THEN 0
                                               ELSE above[l - 1] + above[l]]
           row(m) == [l \in 0 .. k |-> Ways(l, m)]
           q == [m \in 0 .. n |-> row(m)]
           body(g) == [m \in 0 .. n |-> next(m, g[m - 1])]
           c == CHOOSE g : g = body(g)
<1>1. Comb(n, k) = c[n][k]
  BY DEF Comb
<1>2. ASSUME NEW above PROVE next(0, above) = row(0)
  <2>1. ASSUME NEW l \in 0 .. k PROVE Ways(l, 0) = IF l = 0 THEN 1 ELSE 0
    <3>1. CASE l = 0
      <4>1. 0 \in Nat
        OBVIOUS
      <4> QED
        BY <3>1, <4>1, WaysStep
    <3>2. CASE l # 0
      <4>1. PICK j \in Nat : l = j + 1
        <5>1. l - 1 \in Nat /\ l = (l - 1) + 1
          BY <3>2
        <5> QED
          BY <5>1
      <4> QED
        BY <3>2, <4>1, WaysStep
    <3> QED
      BY <3>1, <3>2
  <2> QED
    BY <2>1
<1>3. ASSUME NEW m \in Nat PROVE next(m + 1, row(m)) = row(m + 1)
  <2>1. ASSUME NEW l \in 0 .. k
        PROVE  Ways(l, m + 1) = IF l = 0 THEN 1 ELSE row(m)[l - 1] + row(m)[l]
    <3>1. CASE l = 0
      <4>1. m + 1 \in Nat
        OBVIOUS
      <4> QED
        BY <3>1, <4>1, WaysStep
    <3>2. CASE l # 0
      <4>1. PICK j \in 0 .. k : j \in Nat /\ l = j + 1 /\ l - 1 = j
        BY <3>2
      <4>2. Ways(j + 1, m + 1) = Ways(j, m) + Ways(j + 1, m)
        BY <4>1, WaysStep
      <4> QED
        BY <3>2, <4>1, <4>2
    <3> QED
      BY <3>1, <3>2
  <2>2. m + 1 # 0
    OBVIOUS
  <2> HIDE DEF row
  <2>3. next(m + 1, row(m)) = [l \in 0 .. k |-> Ways(l, m + 1)]
    BY <2>1, <2>2
  <2> QED
    BY <2>3 DEF row
<1>4. row(n)[k] = Ways(k, n)
  OBVIOUS
<1> HIDE DEF next, row
<1>5. q = body(q)
  <2>1. ASSUME NEW m \in 0 .. n PROVE q[m] = next(m, q[m - 1])
    <3>1. CASE m = 0
      BY <1>2, <3>1
    <3>2. CASE m # 0
      <4>1. PICK j \in 0 .. n : j \in Nat /\ m = j + 1 /\ m - 1 = j
        BY <3>2
      <4> QED
        BY <1>3, <4>1
    <3> QED
      BY <3>1, <3>2
  <2>2. body(q) = [m \in 0 .. n |-> q[m]]
    BY <2>1
  <2> QED
    BY <2>2
<1> HIDE DEF q
<1>6. c = body(c)
  <2> HIDE DEF body
  <2> QED
    BY <1>5
<1> HIDE DEF c
<1>7. \A m \in 0 .. n : c[m] = next(m, c[m - 1])
  <2>1. \A m \in 0 .. n : body(c)[m] = next(m, c[m - 1])
    OBVIOUS
  <2> HIDE DEF body
  <2> QED
    BY <1>6, <2>1
<1> DEFINE T == {m \in 0 .. n : c[m] = row(m)}
<1>8. 0 .. n \subseteq T
  <2>1. 0 \in T
    BY <1>2, <1>7
  <2>2. ASSUME NEW m \in 0 .. n - 1, m \in T PROVE m + 1 \in T
    <3>1. m + 1 \in 0 .. n /\ (m + 1) - 1 = m /\ m \in Nat
      OBVIOUS
    <3>2. c[m + 1] = next(m + 1, c[m])
      BY <1>7, <3>1
    <3> QED
      BY <1>3, <2>2, <3>1, <3>2
  <2> HIDE DEF T
  <2> QED
    BY <2>1, <2>2, BoundedInduction
<1>9. c[n] = row(n)
  BY <1>8
<1> QED
  BY <1>1, <1>4, <1>9

\* pass@k is the share of the draws in which one is right.
LEMMA PassesOf ==
    ASSUME NEW n \in Nat \ {0}, NEW k \in Nat \ {0}, NEW c \in 0 .. n
    PROVE  LET draws == kSubset(Min({k, n}), 1 .. n)
           IN  Equal(PassAtK(c, n, k),
                     <<Cardinality({d \in draws : d \cap (1 .. c) # {}}), Cardinality(draws)>>)
<1> DEFINE l == Min({k, n})
           draws == kSubset(l, 1 .. n)
           hits == {d \in draws : d \cap (1 .. c) # {}}
           misses == {d \in draws : d \cap (1 .. c) = {}}
           H == Cardinality(hits)
           D == Cardinality(draws)
           M == Cardinality(misses)
<1>1. l \in Nat \ {0} /\ l <= n
  <2>1. l = IF k <= n THEN k ELSE n
    BY MinMaxOfTwo
  <2> HIDE DEF l
  <2> QED
    BY <2>1
<1>2. PassAtK(c, n, k) = IF c = 0 THEN <<0, 1>> ELSE IF c = n THEN <<1, 1>>
                         ELSE <<Comb(n, l) - Comb(n - c, l), Comb(n, l)>>
  BY DEF PassAtK
<1> HIDE DEF l
<1>3. IsFiniteSet(1 .. n)
  BY FS_Interval
<1>4. IsFiniteSet(draws)
  BY <1>3, WaysFinite
<1>5. draws = hits \cup misses /\ hits \cap misses = {} /\ hits \in SUBSET draws /\ misses \in SUBSET draws
  OBVIOUS
<1>6. /\ \A d \in draws : d \in SUBSET (1 .. n) /\ d # {}
  BY <1>1, FS_EmptySet DEF kSubset
<1>7. c = 0 => hits = {}
  OBVIOUS
<1>8. c = n => hits = draws
  BY <1>6
<1>9. misses = kSubset(l, c + 1 .. c + (n - c))
  <2>1. \A d : d \in misses <=> d \in SUBSET (1 .. n) /\ Cardinality(d) = l /\ d \cap (1 .. c) = {}
    BY DEF kSubset
  <2>2. c + (n - c) = n
    OBVIOUS
  <2>3. \A d : d \in SUBSET (1 .. n) /\ d \cap (1 .. c) = {} <=> d \in SUBSET (c + 1 .. n)
    <3>1. \A x : x \in 1 .. n /\ x \notin 1 .. c <=> x \in c + 1 .. n
      OBVIOUS
    <3> QED
      BY <3>1
  <2>4. kSubset(l, c + 1 .. n) = {d \in SUBSET (c + 1 .. n) : Cardinality(d) = l}
    BY DEF kSubset
  <2> HIDE DEF misses
  <2> QED
    BY <2>1, <2>2, <2>3, <2>4
<1>10. Comb(n, l) = D
  BY <1>1, CombOf DEF Ways
<1>11. Comb(n - c, l) = M
  <2>1. n - c \in Nat /\ c \in Nat /\ l \in Nat
    BY <1>1
  <2>2. Comb(n - c, l) = Ways(l, n - c) /\ Cardinality(kSubset(l, c + 1 .. c + (n - c))) = Ways(l, n - c)
    BY <2>1, CombOf, WaysMoved
  <2> QED
    BY <1>9, <2>2
<1> HIDE DEF draws, hits, misses
<1>12. H \in Nat /\ M \in Nat /\ D = H + M
  <2>1. IsFiniteSet(hits) /\ IsFiniteSet(misses)
    BY <1>4, <1>5, FS_Subset
  <2> QED
    BY <1>5, <2>1, DisjointSize
<1>13. (c = 0 => H = 0) /\ (c = n => H = D)
  BY <1>7, <1>8, FS_EmptySet
<1> HIDE DEF H, D, M
<1>14. Equal(PassAtK(c, n, k), <<H, D>>)
  <2>1. CASE c = 0
    BY <1>2, <1>12, <1>13, <2>1 DEF Equal
  <2>2. CASE c # 0 /\ c = n
    BY <1>2, <1>12, <1>13, <2>2 DEF Equal
  <2>3. CASE c # 0 /\ c # n
    <3>1. PassAtK(c, n, k) = <<D - M, D>> /\ D - M = H
      BY <1>2, <1>10, <1>11, <1>12, <2>3
    <3> QED
      BY <1>12, <3>1 DEF Equal
  <2> QED
    BY <2>1, <2>2, <2>3
<1> QED
  BY <1>14 DEF H, D, draws, hits, l

\* An average is within what was averaged.
LEMMA AverageFair ==
    ASSUME NEW n \in Nat, NEW results \in [1 .. n -> {{}} \cup {{v} : v \in Values}]
    PROVE  LET avg == AverageMetrics(results)
               said == UNION ToSet(results)
           IN  avg[2] > 0 => /\ avg[1] <= Max(said) * avg[2]
                             /\ avg[1] >= Min(said) * avg[2]
                             /\ Cardinality(said) = 1 => avg[1] = Max(said) * avg[2]
<1> DEFINE avg == AverageMetrics(results)
           said == UNION ToSet(results)
           have == {i \in DOMAIN results : results[i] # {}}
           f == [i \in have |-> Max(results[i])]
           k == Cardinality(have)
           s == SumFunctionOnSet(f, have)
<1> SUFFICES ASSUME avg[2] > 0
             PROVE  /\ avg[1] <= Max(said) * avg[2]
                    /\ avg[1] >= Min(said) * avg[2]
                    /\ Cardinality(said) = 1 => avg[1] = Max(said) * avg[2]
  OBVIOUS
<1>1. avg = <<s, k>>
  <2>1. avg = IF results = <<>> \/ results[1] = {} THEN <<0, 0>> ELSE <<s, k>>
    BY DEF AverageMetrics, SumFunction
  <2> QED
    BY <2>1
<1>2. Values \subseteq Int /\ DOMAIN results = 1 .. n
  BY MetricsAssumption
<1>3. IsFiniteSet(1 .. n) /\ IsFiniteSet(have)
  <2>1. IsFiniteSet(1 .. n) /\ have \in SUBSET (1 .. n)
    BY <1>2, FS_Interval
  <2> HIDE DEF have
  <2> QED
    BY <2>1, FS_Subset
<1>4. \A i \in have : \E v \in Values : results[i] = {v}
  OBVIOUS
<1>5. \A i \in have : f[i] \in Int /\ f[i] \in results[i] /\ f[i] \in said
  <2> SUFFICES ASSUME NEW i \in have PROVE f[i] \in Int /\ f[i] \in results[i] /\ f[i] \in said
    OBVIOUS
  <2>1. PICK v \in Values : results[i] = {v}
    BY <1>4
  <2>2. v \in {v} /\ \A y \in {v} : y \in Int /\ y <= v
    BY <1>2
  <2>3. Max({v}) = v
    BY <2>2, MaxIs
  <2>4. f[i] = v
    BY <2>1, <2>3
  <2>5. results[i] \in ToSet(results)
    BY DEF ToSet
  <2> QED
    BY <1>2, <2>1, <2>4, <2>5
<1>6. said \subseteq Int /\ IsFiniteSet(said)
  <2>1. said \subseteq {f[i] : i \in have}
    <3> SUFFICES ASSUME NEW y \in said PROVE \E i \in have : y = f[i]
      OBVIOUS
    <3>1. PICK i \in 1 .. n : y \in results[i]
      BY <1>2 DEF ToSet
    <3>2. i \in have
      BY <1>2, <3>1
    <3>3. PICK v \in Values : results[i] = {v}
      BY <1>4, <3>2
    <3>4. f[i] \in results[i]
      BY <1>5, <3>2
    <3> HIDE DEF f, have
    <3> QED
      BY <3>1, <3>2, <3>3, <3>4
  <2>2. IsFiniteSet({f[i] : i \in have})
    <3> HIDE DEF f, have
    <3> QED
      BY <1>3, ImageFinite
  <2> HIDE DEF f, have, said
  <2>3. IsFiniteSet(said)
    BY <2>1, <2>2, FS_Subset
  <2> QED
    BY <1>5, <2>1, <2>3
<1>7. have # {} /\ k \in Nat \ {0}
  <2>1. k > 0 /\ k \in Nat
    BY <1>1, <1>3, FS_CardinalityType
  <2> HIDE DEF have
  <2>2. have = {} => k = 0
    BY FS_EmptySet
  <2> HIDE DEF k
  <2> QED
    BY <2>1, <2>2
<1> HIDE DEF f, have, said, avg
<1> DEFINE a == Max(said)
           b == Min(said)
<1>8. a \in Int /\ b \in Int /\ \A y \in said : b <= y /\ y <= a
  <2>1. said # {}
    BY <1>5, <1>7
  <2> QED
    BY <1>6, <2>1, Extremes
<1>9. Cardinality(said) = 1 => a = b
  <2> SUFFICES ASSUME Cardinality(said) = 1 PROVE a = b
    OBVIOUS
  <2>1. PICK x : said = {x}
    BY <1>6, FS_Singleton
  <2>2. said # {}
    BY <2>1
  <2>3. a \in said /\ b \in said
    BY <1>6, <2>2, Extremes
  <2> HIDE DEF a, b
  <2> QED
    BY <2>1, <2>3
<1> HIDE DEF a, b
<1> DEFINE top == [i \in have |-> a]
           low == [i \in have |-> b]
<1>10. SumFunctionOnSet(top, have) = a * k
  <2>1. \A i \in have : top[i] = a
    OBVIOUS
  <2> HIDE DEF top
  <2> QED
    BY <1>3, <1>8, <2>1, SumConstant
<1>11. SumFunctionOnSet(low, have) = b * k
  <2>1. \A i \in have : low[i] = b
    OBVIOUS
  <2> HIDE DEF low
  <2> QED
    BY <1>3, <1>8, <2>1, SumConstant
<1>12. \A i \in have : /\ f[i] \in Int /\ top[i] \in Int /\ low[i] \in Int
                       /\ f[i] <= top[i] /\ low[i] <= f[i]
  BY <1>5, <1>8
<1> HIDE DEF top, low
<1>13. s <= a * k
  <2>1. s <= SumFunctionOnSet(top, have)
    BY <1>3, <1>12, SumLeq
  <2> QED
    BY <1>10, <2>1
<1>14. b * k <= s
  <2>1. SumFunctionOnSet(low, have) <= s
    BY <1>3, <1>12, SumLeq
  <2> QED
    BY <1>11, <2>1
<1>15. s \in Int
  BY <1>3, <1>5, SumInt
<1>16. avg[1] = s /\ avg[2] = k
  BY <1>1
<1> HIDE DEF s, k
<1>17. PICK x \in Int, y \in Int : x = a * k /\ y = b * k
  BY <1>7, <1>8
<1>18. Cardinality(said) = 1 => x = y
  BY <1>9, <1>17
<1>19. s <= x /\ s >= y /\ (Cardinality(said) = 1 => s = x)
  BY <1>13, <1>14, <1>15, <1>17, <1>18
<1> QED
  BY <1>16, <1>17, <1>19 DEF a, b

-----------------------------------------------------------------------------
(* The arithmetic of PPO.                                                   *)

\* Clipping takes from the gain of a step only.
Clips(ratio, a) ==
    LET s == Surrogate(ratio, a, 20)
    IN  /\ s <= ratio * a
        /\ s < ratio * a <=> \/ a > 0 /\ ratio > 120
                             \/ a < 0 /\ ratio < 80

\* A greater ratio gains no more from an advantage that it is clipped for.
LEMMA SurrogateClips ==
    ASSUME NEW ratio \in Nat, NEW a \in Int
    PROVE  Clips(ratio, a)
  <1> DEFINE clipped == IF ratio > 120 THEN 120 ELSE IF ratio < 80 THEN 80 ELSE ratio
             x == ratio * a
             y == clipped * a
  <1>1. Max({Min({ratio, 100 + 20}), 100 - 20}) = clipped
    <2>1. Min({ratio, 120}) = IF ratio <= 120 THEN ratio ELSE 120
      <3>1. ratio \in Int /\ 120 \in Int
        OBVIOUS
      <3> QED
        BY <3>1, MinMaxOfTwo
    <2> DEFINE r == Min({ratio, 120})
    <2>2. r \in Int
      BY <2>1
    <2> HIDE DEF r
    <2>3. Max({r, 80}) = IF r >= 80 THEN r ELSE 80
      <3>1. 80 \in Int
        OBVIOUS
      <3> QED
        BY <2>2, <3>1, MinMaxOfTwo
    <2>4. 100 + 20 = 120 /\ 100 - 20 = 80
      OBVIOUS
    <2>5. r = IF ratio <= 120 THEN ratio ELSE 120
      BY <2>1 DEF r
    <2>6. Max({r, 80}) = clipped
      BY <2>3, <2>5
    <2> QED
      BY <2>4, <2>6 DEF r
  <1>2. Surrogate(ratio, a, 20) = Min({x, y})
    BY <1>1 DEF Surrogate
  <1>3. x \in Int /\ y \in Int
    OBVIOUS
  <1>4. /\ ratio > 120 => (y < x <=> a > 0)
        /\ ratio < 80 => (y < x <=> a < 0)
        /\ ratio <= 120 /\ ratio >= 80 => y = x
    <2>1. CASE ratio > 120
      <3>1. y = 120 * a /\ x = 120 * a + (ratio - 120) * a
        BY <2>1
      <3>2. (ratio - 120) * a > 0 <=> a > 0
        BY <2>1
      <3>3. (ratio - 120) * a \in Int
        OBVIOUS
      <3> QED
        BY <2>1, <3>1, <3>2, <3>3
    <2>2. CASE ratio < 80
      <3>1. y = ratio * a + (80 - ratio) * a /\ x = ratio * a
        BY <2>2
      <3>2. (80 - ratio) * a < 0 <=> a < 0
        BY <2>2
      <3>3. (80 - ratio) * a \in Int /\ ratio * a \in Int
        OBVIOUS
      <3> QED
        BY <2>2, <3>1, <3>2, <3>3
    <2> QED
      BY <2>1, <2>2
  <1> HIDE DEF x, y, clipped
  <1>5. Min({x, y}) = IF x <= y THEN x ELSE y
    BY <1>3, MinMaxOfTwo
  <1>6. Min({x, y}) <= x /\ (Min({x, y}) < x <=> y < x)
    BY <1>3, <1>5
  <1>7. y < x <=> (a > 0 /\ ratio > 120) \/ (a < 0 /\ ratio < 80)
    BY <1>3, <1>4
  <1> QED
    BY <1>2, <1>6, <1>7 DEF x, Clips

\* The penalty of a policy that is farther away is no less.
LEMMA KLAdapts ==
    ASSUME NEW c \in Nat, NEW t \in Nat, NEW lo \in Nat, NEW hi \in Nat
    PROVE  /\ lo <= hi => AdaptKL(1, lo, t) <= AdaptKL(1, hi, t)
           /\ AdaptKL(c, t, t) = 5 * c
  BY DEF AdaptKL

\* A policy is penalised by as much as the reference would be rewarded.
LEMMA PenaltyFair ==
    ASSUME NEW n \in Nat, NEW current \in [1 .. n -> Int], NEW ref \in [1 .. n -> Int],
           NEW reward \in Int
    PROVE  LET kl == ApproxKL(current, ref)
               penalized == Penalized(reward, kl, 1)
               swapped == Penalized(reward, ApproxKL(ref, current), 1)
           IN  /\ penalized[1] + swapped[1] = 2 * reward * kl[2]
               /\ current = ref => penalized[1] = reward * kl[2]
               /\ (\A i \in DOMAIN ref : current[i] >= ref[i]) => penalized[1] <= reward * kl[2]
  <1>1. /\ current \in Seq(Int) /\ ref \in Seq(Int)
        /\ Len(current) = n /\ Len(ref) = n /\ Min({n, n}) = n
    BY ListOf, LenProperties, MinMaxOfTwo
  <1> DEFINE S == 1 .. n
             d == [i \in S |-> current[i] - ref[i]]
             e == [i \in S |-> ref[i] - current[i]]
             z == [i \in S |-> 0]
             sum == SumFunctionOnSet(d, S)
             back == SumFunctionOnSet(e, S)
  <1>2. IsFiniteSet(S) /\ \A i \in S : d[i] \in Int /\ e[i] \in Int /\ z[i] = 0
    BY FS_Interval
  <1>3. ApproxKL(current, ref) = (IF n = 0 THEN <<0, 1>> ELSE <<sum, n>>)
        /\ ApproxKL(ref, current) = (IF n = 0 THEN <<0, 1>> ELSE <<back, n>>)
    BY <1>1 DEF ApproxKL, SumFunction
  <1>4. sum \in Int /\ back \in Int /\ sum + back = 0
    <2>1. \A i \in S : z[i] = 1 * d[i] + e[i]
      OBVIOUS
    <2> HIDE DEF d, e, z, S
    <2>2. /\ sum \in Int /\ back \in Int
          /\ SumFunctionOnSet(z, S) = 1 * sum + back
      BY <1>2, <2>1, SumLinear
    <2>3. SumFunctionOnSet(z, S) = 0 * Cardinality(S)
      BY <1>2, SumConstant
    <2>4. Cardinality(S) \in Nat
      BY <1>2, FS_CardinalityType
    <2> HIDE DEF sum, back
    <2> QED
      BY <2>2, <2>3, <2>4
  <1>5. current = ref => sum = 0
    <2>1. current = ref => d = e
      OBVIOUS
    <2> HIDE DEF d, e
    <2>2. current = ref => sum = back
      BY <2>1
    <2> HIDE DEF sum, back
    <2> QED
      BY <1>4, <2>2
  <1>6. (\A i \in DOMAIN ref : current[i] >= ref[i]) => sum >= 0
    <2> SUFFICES ASSUME \A i \in DOMAIN ref : current[i] >= ref[i] PROVE sum >= 0
      OBVIOUS
    <2>1. \A i \in S : d[i] \in Nat
      OBVIOUS
    <2> HIDE DEF d, S
    <2> QED
      BY <1>2, <2>1, SumNat
  <1> HIDE DEF sum, back
  <1>7. CASE n = 0
    <2>1. \A kl : kl = <<0, 1>> => Penalized(reward, kl, 1) = <<reward, 1>> /\ kl[2] = 1
      BY DEF Penalized
    <2>2. /\ ApproxKL(current, ref) = <<0, 1>> /\ ApproxKL(ref, current) = <<0, 1>>
      BY <1>3, <1>7
    <2>3. Penalized(reward, <<0, 1>>, 1) = <<reward, 1>> /\ <<0, 1>>[2] = 1
      BY <2>1
    <2> QED
      BY <2>2, <2>3
  <1>8. CASE n # 0
    <2>1. ApproxKL(current, ref) = <<sum, n>> /\ ApproxKL(ref, current) = <<back, n>>
      BY <1>3, <1>8
    <2>2. /\ Penalized(reward, <<sum, n>>, 1)[1] = reward * n - sum
          /\ Penalized(reward, <<back, n>>, 1)[1] = reward * n - back
          /\ <<sum, n>>[2] = n
      BY <1>4 DEF Penalized
    <2>3. PICK w \in Int : w = reward * n
      OBVIOUS
    <2>4. 2 * reward * n = w + w
      BY <2>3
    <2>5. (w - sum) + (w - back) = w + w /\ (sum = 0 => w - sum = w) /\ (sum >= 0 => w - sum <= w)
      BY <1>4
    <2> DEFINE kl == ApproxKL(current, ref)
               penalized == Penalized(reward, kl, 1)
               swapped == Penalized(reward, ApproxKL(ref, current), 1)
    <2>6. penalized[1] = w - sum /\ swapped[1] = w - back /\ kl[2] = n
      BY <2>1, <2>2, <2>3
    <2> HIDE DEF kl, penalized, swapped
    <2>7. /\ penalized[1] + swapped[1] = 2 * reward * kl[2]
          /\ current = ref => penalized[1] = reward * kl[2]
          /\ (\A i \in DOMAIN ref : current[i] >= ref[i]) => penalized[1] <= reward * kl[2]
      BY <1>5, <1>6, <2>3, <2>4, <2>5, <2>6
    <2> QED
      BY <2>7 DEF kl, penalized, swapped
  <1> QED
    BY <1>7, <1>8

\* The powers of a number.
LEMMA PowerOf ==
    ASSUME NEW x \in Int
    PROVE  /\ Power(x, 0) = 1
           /\ \A n \in Nat : Power(x, n) \in Int /\ Power(x, n + 1) = x * Power(x, n)
  <1> DEFINE step == [n \in Nat |-> [v \in Int |-> x * v]]
  <1>1. PICK p : p \in Recursive(Int, 1, step)
    <2>1. step \in [Nat -> [Int -> Int]]
      OBVIOUS
    <2> HIDE DEF step
    <2>2. Recursive(Int, 1, step) # {}
      <3>1. 1 \in Int
        OBVIOUS
      <3> QED
        BY <2>1, <3>1, RecursionExists
    <2> QED
      BY <2>2
  <1>2. p \in [Nat -> Int] /\ p[0] = 1 /\ \A n \in Nat : p[n + 1] = x * p[n]
    BY <1>1 DEF Recursive
  <1>3. ASSUME NEW n \in Nat PROVE Power(x, n) = p[n]
    <2> DEFINE body(g) == [i \in 0 .. n |-> IF i = 0 THEN 1 ELSE x * g[i - 1]]
               f == CHOOSE g : g = body(g)
               q == [i \in 0 .. n |-> p[i]]
    <2>1. Power(x, n) = f[n]
      BY DEF Power
    <2>2. q = body(q)
      <3> SUFFICES ASSUME NEW i \in 0 .. n
                   PROVE  q[i] = IF i = 0 THEN 1 ELSE x * q[i - 1]
        OBVIOUS
      <3>1. CASE i = 0
        BY <1>2, <3>1
      <3>2. CASE i # 0
        <4>1. i - 1 \in 0 .. n /\ (i - 1) + 1 = i /\ i - 1 \in Nat
          BY <3>2
        <4>2. p[i] = x * p[i - 1]
          BY <1>2, <4>1
        <4> QED
          BY <3>2, <4>1, <4>2
      <3> QED
        BY <3>1, <3>2
    <2> HIDE DEF q
    <2>3. f = body(f)
      <3> HIDE DEF body
      <3> QED
        BY <2>2
    <2> HIDE DEF f
    <2>4. \A i \in 0 .. n : f[i] = IF i = 0 THEN 1 ELSE x * f[i - 1]
      <3>1. \A i \in 0 .. n : body(f)[i] = IF i = 0 THEN 1 ELSE x * f[i - 1]
        OBVIOUS
      <3> HIDE DEF body
      <3> QED
        BY <2>3, <3>1
    <2> HIDE DEF body
    <2> DEFINE T == {i \in 0 .. n : f[i] = p[i]}
    <2>5. 0 \in T
      BY <1>2, <2>4
    <2>6. ASSUME NEW i \in 0 .. n - 1, i \in T PROVE i + 1 \in T
      <3>1. i + 1 \in 0 .. n /\ i + 1 # 0 /\ (i + 1) - 1 = i /\ i \in Nat
        OBVIOUS
      <3>2. f[i + 1] = x * f[i]
        BY <2>4, <3>1
      <3>3. p[i + 1] = x * p[i]
        BY <1>2, <3>1
      <3> QED
        BY <2>6, <3>1, <3>2, <3>3
    <2>7. 0 .. n \subseteq T
      <3> HIDE DEF T
      <3> QED
        BY <2>5, <2>6, BoundedInduction
    <2> QED
      BY <2>1, <2>7
  <1> QED
    BY <1>2, <1>3

\* An advantage is what one step gains and the discounted advantage of the next.
Gains(n, r, v, gamma, lam) ==
    {g \in [1 .. n + 1 -> Int] :
        /\ g[n + 1] = 0
        /\ \A t \in 1 .. n :
              /\ g[t] = r[t] + gamma * (IF t = n THEN 0 ELSE v[t + 1]) - v[t]
                        + gamma * lam * g[t + 1]
              /\ Advantages(r, v, gamma, lam)[t] = g[t]}

\* Every rollout has these.
LEMMA AdvantagesUnfold ==
    ASSUME NEW n \in Nat, NEW r \in [1 .. n -> Int], NEW v \in [1 .. n -> Int],
           NEW gamma \in Int, NEW lam \in Int
    PROVE  Gains(n, r, v, gamma, lam) # {}
  <1> DEFINE D == [t \in 1 .. n |-> r[t] + gamma * (IF t = n THEN 0 ELSE v[t + 1]) - v[t]]
             step == [t \in 1 .. n |-> [a \in Int |-> D[t] + gamma * lam * a]]
             body(g) == [t \in 1 .. n + 1 |->
                           IF t = n + 1 THEN 0
                           ELSE r[t] + gamma * (IF t = n THEN 0 ELSE v[t + 1]) - v[t]
                                + gamma * lam * g[t + 1]]
             gae == CHOOSE g : g = body(g)
  <1>1. D \in [1 .. n -> Int]
    <2>1. \A t \in 1 .. n : r[t] \in Int /\ v[t] \in Int /\ (t # n => v[t + 1] \in Int)
      <3>1. \A t \in 1 .. n : t # n => t + 1 \in 1 .. n
        OBVIOUS
      <3> QED
        BY <3>1
    <2> SUFFICES ASSUME NEW t \in 1 .. n
                 PROVE  r[t] + gamma * (IF t = n THEN 0 ELSE v[t + 1]) - v[t] \in Int
      OBVIOUS
    <2>2. PICK w \in Int : w = IF t = n THEN 0 ELSE v[t + 1]
      <3>1. (IF t = n THEN 0 ELSE v[t + 1]) \in Int
        BY <2>1
      <3> QED
        BY <3>1
    <2>3. PICK d \in Int : d = gamma * w
      OBVIOUS
    <2>4. r[t] \in Int /\ v[t] \in Int
      BY <2>1
    <2>5. r[t] + d - v[t] \in Int
      BY <2>4
    <2> QED
      BY <2>2, <2>3, <2>5
  <1>2. Len(r) = n
    BY ListOf, LenProperties
  <1>3. \A t \in 1 .. n : Advantages(r, v, gamma, lam)[t] = gae[t]
    BY <1>2 DEF Advantages
  <1>4. \A g : body(g) = [t \in 1 .. n + 1 |-> IF t = n + 1 THEN 0
                                               ELSE D[t] + gamma * lam * g[t + 1]]
    OBVIOUS
  <1>5. \A t \in 1 .. n : D[t] = r[t] + gamma * (IF t = n THEN 0 ELSE v[t + 1]) - v[t]
    OBVIOUS
  <1> HIDE DEF D
  <1>6. step \in [1 .. n -> [Int -> Int]]
    <2>1. \A t \in 1 .. n, a \in Int : D[t] + gamma * lam * a \in Int
      BY <1>1
    <2> QED
      BY <2>1
  <1>7. PICK g : g \in RecursiveBack(n, Int, 0, step)
    <2> HIDE DEF step
    <2>1. RecursiveBack(n, Int, 0, step) # {}
      <3>1. 0 \in Int
        OBVIOUS
      <3> HIDE DEF body, gae
      <3> QED
        BY <1>6, <3>1, BackwardRecursionExists
    <2> QED
      BY <2>1
  <1>8. g \in [1 .. n + 1 -> Int] /\ g[n + 1] = 0
        /\ \A t \in 1 .. n : g[t] = D[t] + gamma * lam * g[t + 1]
    <2> HIDE DEF step
    <2>1. g \in [1 .. n + 1 -> Int] /\ g[n + 1] = 0
          /\ \A t \in 1 .. n : g[t] = step[t][g[t + 1]]
      BY <1>7 DEF RecursiveBack
    <2>2. ASSUME NEW t \in 1 .. n PROVE step[t][g[t + 1]] = D[t] + gamma * lam * g[t + 1]
      <3>1. t + 1 \in 1 .. n + 1
        OBVIOUS
      <3>2. g[t + 1] \in Int
        BY <2>1, <3>1
      <3> QED
        BY <3>2 DEF step
    <2> QED
      BY <2>1, <2>2
  <1> HIDE DEF step
  <1>9. g = body(g)
    <2> DEFINE h == [t \in 1 .. n + 1 |-> IF t = n + 1 THEN 0 ELSE D[t] + gamma * lam * g[t + 1]]
    <2>1. \A t \in 1 .. n + 1 : g[t] = h[t]
      BY <1>8
    <2>2. g = h
      <3>1. DOMAIN g = 1 .. n + 1 /\ g = [t \in 1 .. n + 1 |-> g[t]]
        BY <1>8
      <3>2. h = [t \in 1 .. n + 1 |-> h[t]]
        OBVIOUS
      <3> HIDE DEF h
      <3> QED
        BY <2>1, <3>1, <3>2
    <2>3. body(g) = h
      BY <1>4
    <2> HIDE DEF body, h
    <2> QED
      BY <2>2, <2>3
  <1>10. gae = body(gae)
    <2> HIDE DEF body
    <2> QED
      BY <1>9
  <1>11. /\ gae[n + 1] = 0
         /\ \A t \in 1 .. n : gae[t] = D[t] + gamma * lam * gae[t + 1]
    <2> HIDE DEF gae
    <2> DEFINE h == [t \in 1 .. n + 1 |-> IF t = n + 1 THEN 0 ELSE D[t] + gamma * lam * gae[t + 1]]
    <2>1. gae = h
      <3>1. body(gae) = h
        BY <1>4
      <3> HIDE DEF body, h
      <3> QED
        BY <1>10, <3>1
    <2>2. h[n + 1] = 0 /\ \A t \in 1 .. n : h[t] = D[t] + gamma * lam * gae[t + 1]
      OBVIOUS
    <2> HIDE DEF h
    <2> QED
      BY <2>1, <2>2
  <1> HIDE DEF gae, body
  <1> DEFINE T == {k \in 0 .. n : gae[n + 1 - k] = g[n + 1 - k]}
  <1>12. 0 \in T
    BY <1>8, <1>11
  <1>13. ASSUME NEW k \in 0 .. n - 1, k \in T PROVE k + 1 \in T
    <2>1. /\ n + 1 - (k + 1) \in 1 .. n /\ (n + 1 - (k + 1)) + 1 = n + 1 - k /\ k + 1 \in 0 .. n
      OBVIOUS
    <2> QED
      BY <1>8, <1>11, <1>13, <2>1
  <1>14. 0 .. n \subseteq T
    <2> HIDE DEF T
    <2> QED
      BY <1>12, <1>13, BoundedInduction
  <1>15. ASSUME NEW t \in 1 .. n PROVE gae[t] = g[t]
    <2>1. n + 1 - t \in 0 .. n /\ n + 1 - (n + 1 - t) = t
      OBVIOUS
    <2>2. n + 1 - t \in T
      BY <1>14, <2>1
    <2> QED
      BY <2>1, <2>2
  <1>16. g \in Gains(n, r, v, gamma, lam)
    BY <1>3, <1>5, <1>8, <1>15 DEF Gains
  <1> QED
    BY <1>16

\* What the steps from one on gain, discounted.
Discounted(n, r, v, gamma, lam, t) ==
    LET V(k) == IF k > n THEN 0 ELSE v[k]
    IN  SumFunction([u \in t .. n |-> Power(gamma * lam, u - t)
                                         * (r[u] + gamma * V(u + 1) - V(u))])

\* The advantage is the sum of all later temporal differences, each discounted for
\* every step.
LEMMA AdvantagesSum ==
    ASSUME NEW n \in Nat, NEW r \in [1 .. n -> Int], NEW v \in [1 .. n -> Int],
           NEW gamma \in Int, NEW lam \in Int, NEW t \in 1 .. n
    PROVE  Advantages(r, v, gamma, lam)[t] = Discounted(n, r, v, gamma, lam, t)
  <1> DEFINE V(k) == IF k > n THEN 0 ELSE v[k]
             x == gamma * lam
             D == [u \in 1 .. n |-> r[u] + gamma * V(u + 1) - V(u)]
             Later(s) == [u \in s .. n |-> Power(x, u - s) * D[u]]
             L(s) == SumFunctionOnSet(Later(s), s .. n)
  <1>1. x \in Int
    OBVIOUS
  <1>2. PICK g \in [1 .. n + 1 -> Int] :
           /\ g[n + 1] = 0
           /\ \A s \in 1 .. n :
                 /\ g[s] = r[s] + gamma * (IF s = n THEN 0 ELSE v[s + 1]) - v[s]
                           + gamma * lam * g[s + 1]
                 /\ Advantages(r, v, gamma, lam)[s] = g[s]
    <2>1. Gains(n, r, v, gamma, lam) # {}
      BY AdvantagesUnfold
    <2> QED
      BY <2>1 DEF Gains
  <1>3. ASSUME NEW s \in 1 .. n
        PROVE  /\ D[s] \in Int
               /\ g[s] = D[s] + x * g[s + 1]
    <2>1. V(s) = v[s] /\ V(s + 1) = IF s = n THEN 0 ELSE v[s + 1]
      OBVIOUS
    <2>2. r[s] \in Int /\ v[s] \in Int /\ V(s + 1) \in Int
      <3>1. s # n => s + 1 \in 1 .. n
        OBVIOUS
      <3> QED
        BY <2>1, <3>1
    <2>3. D[s] = r[s] + gamma * V(s + 1) - V(s)
      OBVIOUS
    <2>4. PICK w \in Int : w = gamma * V(s + 1)
      <3>1. gamma * V(s + 1) \in Int
        BY <2>2
      <3> QED
        BY <3>1
    <2>5. PICK y \in Int : y = gamma * lam * g[s + 1]
      <3>1. s + 1 \in 1 .. n + 1
        OBVIOUS
      <3>2. PICK q \in Int : q = g[s + 1]
        BY <1>2, <3>1
      <3>3. gamma * lam * q \in Int
        OBVIOUS
      <3> QED
        BY <3>2, <3>3
    <2>6. g[s] = r[s] + w - v[s] + y
      <3> HIDE DEF V, D
      <3> QED
        BY <1>2, <2>1, <2>4, <2>5
    <2>7. D[s] = r[s] + w - v[s]
      <3> HIDE DEF V, D
      <3> QED
        BY <2>1, <2>3, <2>4
    <2>8. x * g[s + 1] = y
      BY <2>5
    <2> HIDE DEF V, D, x
    <2> QED
      BY <2>2, <2>6, <2>7, <2>8
  <1> HIDE DEF D
  <1>4. ASSUME NEW s \in 1 .. n
        PROVE  L(s) = D[s] + x * L(s + 1) /\ L(s + 1) \in Int
    <2> DEFINE S == s + 1 .. n
               f == Later(s)
               g1 == Later(s + 1)
               z == [u \in S |-> 0]
    <2>1. IsFiniteSet(S) /\ s \notin S /\ s .. n = S \cup {s}
      <3>1. s + 1 \in Int /\ n \in Int
        OBVIOUS
      <3>2. IsFiniteSet(S)
        BY <3>1, FS_Interval
      <3> QED
        BY <3>2
    <2>2. \A u \in S : g1[u] = Power(x, u - (s + 1)) * D[u] /\ f[u] = Power(x, u - s) * D[u]
      OBVIOUS
    <2>3. \A u \in S : u \in 1 .. n /\ D[u] \in Int /\ u - (s + 1) \in Nat /\ u - s = (u - (s + 1)) + 1
      BY <1>3
    <2>4. f[s] = Power(x, 0) * D[s]
      <3>1. s \in s .. n /\ s - s = 0
        OBVIOUS
      <3> QED
        BY <3>1
    <2>5. f[s] = D[s]
      <3>1. Power(x, 0) = 1
        BY <1>1, PowerOf
      <3>2. D[s] \in Int
        BY <1>3
      <3> HIDE DEF f, x
      <3> QED
        BY <2>4, <3>1, <3>2
    <2>6. ASSUME NEW u \in S PROVE g1[u] \in Int /\ f[u] = x * g1[u] + z[u] /\ z[u] = 0
      <3>1. PICK k \in Nat : k = u - (s + 1)
        BY <2>3
      <3>2. PICK p \in Int : p = Power(x, k)
        BY <1>1, PowerOf
      <3>3. Power(x, k + 1) = x * p
        BY <1>1, <3>2, PowerOf
      <3>4. g1[u] = p * D[u] /\ f[u] = (x * p) * D[u]
        BY <2>2, <2>3, <3>1, <3>2, <3>3
      <3>5. PICK d \in Int : d = D[u]
        BY <2>3
      <3> HIDE DEF f, g1, x
      <3>6. (x * p) * d = x * (p * d) /\ p * d \in Int /\ x * (p * d) \in Int
        BY <1>1
      <3> QED
        BY <3>4, <3>5, <3>6
    <2> HIDE DEF f, g1, z, S
    <2>7. f[s] \in Int /\ \A u \in S : f[u] \in Int /\ z[u] \in Int
      <3>1. ASSUME NEW u \in S PROVE f[u] \in Int /\ z[u] \in Int
        <4>1. PICK a \in Int : a = g1[u]
          BY <2>6
        <4>2. PICK b \in Int : b = x * a
          BY <1>1
        <4>3. f[u] = b + z[u] /\ z[u] = 0
          BY <2>6, <4>1, <4>2
        <4> QED
          BY <4>3
      <3>2. f[s] \in Int
        BY <1>3, <2>5
      <3> QED
        BY <3>1, <3>2
    <2>8. SumFunctionOnSet(f, S \cup {s}) = f[s] + SumFunctionOnSet(f, S)
      <3>1. \A u \in S \cup {s} : f[u] \in Int
        BY <2>7
      <3> QED
        BY <2>1, <3>1, SumAdd
    <2>9. /\ SumFunctionOnSet(g1, S) \in Int
          /\ SumFunctionOnSet(f, S) = x * SumFunctionOnSet(g1, S) + SumFunctionOnSet(z, S)
      <3>1. \A u \in S : g1[u] \in Int /\ z[u] \in Int /\ f[u] = x * g1[u] + z[u]
        BY <2>6, <2>7
      <3> HIDE DEF x
      <3> QED
        BY <1>1, <2>1, <3>1, SumLinear
    <2>10. SumFunctionOnSet(z, S) = 0
      <3>1. SumFunctionOnSet(z, S) = 0 * Cardinality(S)
        <4>1. 0 \in Int /\ IsFiniteSet(S) /\ \A u \in S : z[u] = 0
          BY <2>1, <2>6
        <4> HIDE DEF x
        <4> QED
          BY <4>1, SumConstant
      <3>2. Cardinality(S) \in Nat
        BY <2>1, FS_CardinalityType
      <3> QED
        BY <3>1, <3>2
    <2> DEFINE a == SumFunctionOnSet(g1, S)
               b == SumFunctionOnSet(f, s .. n)
    <2>11. a \in Int /\ b = D[s] + x * a
      <3>1. x * a \in Int
        BY <1>1, <2>9
      <3>2. b = D[s] + SumFunctionOnSet(f, S)
        BY <2>1, <2>5, <2>8
      <3>3. SumFunctionOnSet(f, S) = x * a + 0
        BY <2>9, <2>10
      <3>4. a \in Int
        BY <2>9
      <3> HIDE DEF x, a, b
      <3> QED
        BY <3>1, <3>2, <3>3, <3>4
    <2> QED
      BY <2>11 DEF a, b, f, g1, S
  <1>5. L(n + 1) = 0
    <2>1. n + 1 .. n = {}
      OBVIOUS
    <2>2. \A f : SumFunctionOnSet(f, {}) = 0
      <3> SUFFICES ASSUME NEW f PROVE SumFunctionOnSet(f, {}) = 0
        OBVIOUS
      <3>1. IsFiniteSet({}) /\ \A y \in {} : f[y] \in Int
        BY FS_EmptySet
      <3> QED
        BY <3>1, SumInt
    <2> HIDE DEF Later
    <2> QED
      BY <2>1, <2>2
  <1> HIDE DEF L
  <1> DEFINE T == {k \in 0 .. n : L(n + 1 - k) = g[n + 1 - k]}
  <1>6. 0 \in T
    BY <1>2, <1>5
  <1>7. ASSUME NEW k \in 0 .. n - 1, k \in T PROVE k + 1 \in T
    <2>1. PICK s \in 1 .. n : s = n + 1 - (k + 1) /\ s + 1 = n + 1 - k
      OBVIOUS
    <2>2. L(s) = D[s] + x * L(s + 1) /\ g[s] = D[s] + x * g[s + 1]
      BY <1>3, <1>4
    <2>3. L(s + 1) = g[s + 1]
      BY <1>7, <2>1
    <2>4. L(s) = g[s]
      BY <2>2, <2>3
    <2> QED
      BY <2>1, <2>4
  <1>8. 0 .. n \subseteq T
    <2> HIDE DEF T
    <2> QED
      BY <1>6, <1>7, BoundedInduction
  <1>9. L(t) = g[t]
    <2>1. n + 1 - t \in 0 .. n /\ n + 1 - (n + 1 - t) = t
      OBVIOUS
    <2>2. n + 1 - t \in T
      BY <1>8, <2>1
    <2> QED
      BY <2>1, <2>2
  <1>10. [u \in t .. n |-> Power(x, u - t) * (r[u] + gamma * V(u + 1) - V(u))] = Later(t)
    <2>1. \A u \in t .. n : u \in 1 .. n /\ D[u] = r[u] + gamma * V(u + 1) - V(u)
      BY DEF D
    <2> HIDE DEF V, D
    <2> QED
      BY <2>1
  <1>11. SumFunction(Later(t)) = L(t)
    BY DEF SumFunction, L
  <1>12. Discounted(n, r, v, gamma, lam, t)
            = SumFunction([u \in t .. n |-> Power(x, u - t) * (r[u] + gamma * V(u + 1) - V(u))])
    BY DEF Discounted
  <1> HIDE DEF V, L, Later, T
  <1> QED
    BY <1>2, <1>9, <1>10, <1>11, <1>12

-----------------------------------------------------------------------------
(* Long contexts: the halves of a text and the needles in it.               *)

\* How many of the results in a half, and of them how many found.
LEMMA HalvesOf ==
    ASSUME NEW n \in Nat, NEW results \in [1 .. n -> [front : BOOLEAN, correct : BOOLEAN]],
           NEW half \in SUBSET DOMAIN results
    PROVE  /\ IsFiniteSet(half) /\ Cardinality(half) \in Nat
           /\ Correct(results, half) \in Nat /\ Correct(results, half) <= Cardinality(half)
           /\ Share(results, half) = <<Correct(results, half),
                  IF Cardinality(half) = 0 THEN 1 ELSE Cardinality(half)>>
<1> DEFINE C == {i \in half : results[i].correct}
           h == Cardinality(half)
<1>1. half \in SUBSET (1 .. n) /\ C \in SUBSET half /\ Correct(results, half) = Cardinality(C)
  BY DEF Correct
<1> HIDE DEF C
<1>2. IsFiniteSet(half)
  <2>1. IsFiniteSet(1 .. n)
    BY FS_Interval
  <2> QED
    BY <1>1, <2>1, FS_Subset
<1>3. IsFiniteSet(C) /\ Cardinality(C) <= h
  BY <1>1, <1>2, FS_Subset
<1>4. h \in Nat /\ Cardinality(C) \in Nat
  BY <1>2, <1>3, FS_CardinalityType
<1> HIDE DEF h
<1>5. Max({h, 1}) = IF h >= 1 THEN h ELSE 1
  <2>1. h \in Int /\ 1 \in Int
    BY <1>4
  <2> QED
    BY <2>1, MinMaxOfTwo
<1>6. Max({h, 1}) = IF h = 0 THEN 1 ELSE h
  BY <1>4, <1>5
<1>7. Share(results, half) = <<Correct(results, half), IF h = 0 THEN 1 ELSE h>>
  BY <1>6 DEF Share, h
<1> QED
  BY <1>1, <1>2, <1>3, <1>4, <1>7 DEF h

\* The halves are the whole, and mirrored they have the opposite bias.
LEMMA HalvesFair ==
    ASSUME NEW n \in Nat, NEW results \in [1 .. n -> [front : BOOLEAN, correct : BOOLEAN]]
    PROVE  HalvesAgree(results)
<1> DEFINE F == FrontHalf(results)
           B == BackHalf(results)
           f == Cardinality(F)
           b == Cardinality(B)
           fc == Correct(results, F)
           bc == Correct(results, B)
           all == Correct(results, DOMAIN results)
           fd == IF f = 0 THEN 1 ELSE f
           bd == IF b = 0 THEN 1 ELSE b
           mirrored == [i \in DOMAIN results |-> [results[i] EXCEPT !.front = ~@]]
           recall == PositionRecall(results)
           bias == PositionBias(results)
           other == PositionBias(mirrored)
<1>1. /\ F \in SUBSET DOMAIN results /\ B \in SUBSET DOMAIN results
      /\ F \cup B = DOMAIN results /\ F \cap B = {}
  BY DEF FrontHalf, BackHalf
<1>2. /\ f \in Nat /\ fc \in Nat /\ fc <= f /\ Share(results, F) = <<fc, fd>>
      /\ b \in Nat /\ bc \in Nat /\ bc <= b /\ Share(results, B) = <<bc, bd>>
  <2> HIDE DEF F, B
  <2> QED
    BY <1>1, HalvesOf
<1>3. all = fc + bc
  <2> DEFINE X == {i \in F : results[i].correct}
             Y == {i \in B : results[i].correct}
             Z == {i \in DOMAIN results : results[i].correct}
  <2>1. fc = Cardinality(X) /\ bc = Cardinality(Y) /\ all = Cardinality(Z)
    BY DEF Correct
  <2>2. Z = X \cup Y /\ X \cap Y = {} /\ X \in SUBSET F /\ Y \in SUBSET B
    BY <1>1
  <2>3. IsFiniteSet(F) /\ IsFiniteSet(B)
    BY <1>1, HalvesOf
  <2> HIDE DEF X, Y, Z, F, B
  <2>4. IsFiniteSet(X) /\ IsFiniteSet(Y)
    BY <2>2, <2>3, FS_Subset
  <2>5. Cardinality(Z) = Cardinality(X) + Cardinality(Y)
    BY <2>2, <2>4, DisjointSize
  <2> QED
    BY <2>1, <2>5
<1>4. bias = <<fc * bd - bc * fd, fd * bd>>
  <2> HIDE DEF fc, bc, fd, bd
  <2>1. Share(results, F)[1] = fc /\ Share(results, F)[2] = fd
        /\ Share(results, B)[1] = bc /\ Share(results, B)[2] = bd
    BY <1>2
  <2> QED
    BY <2>1 DEF PositionBias
<1>5. other = <<bc * fd - fc * bd, bd * fd>>
  <2>1. /\ DOMAIN mirrored = DOMAIN results
        /\ \A i \in DOMAIN results : /\ mirrored[i].front = ~results[i].front
                                     /\ mirrored[i].correct = results[i].correct
    OBVIOUS
  <2> HIDE DEF mirrored
  <2>2. FrontHalf(mirrored) = B /\ BackHalf(mirrored) = F
    BY <2>1 DEF FrontHalf, BackHalf
  <2>3. Correct(mirrored, B) = bc /\ Correct(mirrored, F) = fc
    <3>1. {i \in B : mirrored[i].correct} = {i \in B : results[i].correct}
      BY <1>1, <2>1
    <3>2. {i \in F : mirrored[i].correct} = {i \in F : results[i].correct}
      BY <1>1, <2>1
    <3> QED
      BY <3>1, <3>2 DEF Correct
  <2>4. Share(mirrored, B) = <<bc, bd>> /\ Share(mirrored, F) = <<fc, fd>>
    <3>1. /\ Share(results, B)[2] = bd /\ Share(results, F)[2] = fd
      BY <1>2
    <3>2. Max({b, 1}) = bd /\ Max({f, 1}) = fd
      BY <3>1 DEF Share
    <3> QED
      BY <2>3, <3>2 DEF Share
  <2> HIDE DEF fc, bc, fd, bd
  <2>5. Share(mirrored, B)[1] = bc /\ Share(mirrored, B)[2] = bd
        /\ Share(mirrored, F)[1] = fc /\ Share(mirrored, F)[2] = fd
    BY <2>4
  <2> QED
    BY <2>2, <2>5 DEF PositionBias
<1>6. results # <<>> => recall.overall[1] = all /\ recall.front_half = <<fc, fd>> /\ recall.back_half = <<bc, bd>>
  BY <1>2 DEF PositionRecall, Share
<1> HIDE DEF F, B, all, recall, bias, other
<1>7. bias[1] * other[2] = - other[1] * bias[2]
  <2>1. fd \in Int /\ bd \in Int
    BY <1>2
  <2> HIDE DEF f, b, fc, bc, fd, bd
  <2>2. PICK x \in Int, y \in Int, z \in Int : x = fc * bd /\ y = bc * fd /\ z = fd * bd
    BY <1>2, <2>1
  <2>3. bd * fd = z
    BY <2>1, <2>2
  <2>4. bias[1] = x - y /\ bias[2] = z /\ other[1] = y - x /\ other[2] = z
    BY <1>4, <1>5, <2>2, <2>3
  <2>5. (x - y) * z = (-(y - x)) * z
    BY <2>2
  <2>6. (-(y - x)) * z = - (y - x) * z
    BY <2>2
  <2> QED
    BY <2>4, <2>5, <2>6
<1>8. ASSUME results # <<>>
      PROVE  recall.overall[1] * recall.front_half[2] * recall.back_half[2]
                 = (recall.front_half[1] * f * recall.back_half[2]
                    + recall.back_half[1] * b * recall.front_half[2])
  <2>1. /\ recall.overall[1] = fc + bc /\ recall.front_half[1] = fc /\ recall.front_half[2] = fd
        /\ recall.back_half[1] = bc /\ recall.back_half[2] = bd
    BY <1>3, <1>6, <1>8
  <2>2. fd \in Int /\ bd \in Int
    BY <1>2
  <2>3. fc * f = fc * fd /\ bc * b = bc * bd
    <3>1. f = 0 => fc = 0
      BY <1>2
    <3>2. b = 0 => bc = 0
      BY <1>2
    <3> QED
      BY <1>2, <3>1, <3>2
  <2> HIDE DEF f, b, fc, bc, fd, bd
  <2>4. PICK x \in Int, y \in Int : x = fc * fd /\ y = bc * bd
    BY <1>2, <2>2
  <2>5. (fc + bc) * fd * bd = fc * fd * bd + bc * fd * bd
    BY <1>2, <2>2
  <2>6. bc * fd * bd = bc * bd * fd
    BY <1>2, <2>2
  <2>7. fc * f * bd = x * bd /\ bc * b * fd = y * fd
    BY <2>3, <2>4
  <2> QED
    BY <2>1, <2>4, <2>5, <2>6, <2>7
<1> QED
  BY <1>7, <1>8 DEF HalvesAgree, F, B, f, b, recall, bias, other

\* The numbers from 1 on, in order.
Upto(m) == [i \in 1 .. m |-> i]

\* The needles are hidden at places that do not go back and end before the last sentence.
Places(n, k) ==
    {at \in [0 .. k -> 0 .. n - 1] :
        /\ at[0] = 0 /\ \A i \in 1 .. k : at[i - 1] <= at[i]
        /\ InsertNeedles(n, k) =
              [i \in 1 .. k + 1 |->
                 [j \in 1 .. (IF i <= k THEN at[i] ELSE n) - at[i - 1] |-> at[i - 1] + j]]}

\* There are such places.
LEMMA NeedlesPlaced ==
    ASSUME NEW n \in Nat \ {0}, NEW k \in Nat
    PROVE  Places(n, k) # {}
<1> DEFINE V == 0 .. n - 1
           near(i) == Min({(i * n) \div (k + 1), n - 1})
           next(i, v) == Max({v, near(i)})
           step == [i \in 1 .. k |-> [v \in V |-> next(i, v)]]
           body(g) == [i \in 0 .. k |-> IF i = 0 THEN 0 ELSE next(i, g[i - 1])]
           at == CHOOSE g : g = body(g)
<1>1. ASSUME NEW i \in 0 .. k, NEW v \in V PROVE next(i, v) \in V /\ v <= next(i, v)
  <2>1. (i * n) \div (k + 1) \in Nat
    <3>1. i * n \in Nat /\ k + 1 \in Nat \ {0}
      OBVIOUS
    <3> DEFINE a == i * n
               b == k + 1
    <3>2. a \in Nat /\ b \in Nat \ {0}
      BY <3>1
    <3> HIDE DEF a, b
    <3>3. a \div b \in Nat
      BY <3>2
    <3> QED
      BY <3>3 DEF a, b
  <2> DEFINE d == (i * n) \div (k + 1)
  <2>2. d \in Nat
    BY <2>1
  <2> HIDE DEF d
  <2>3. Min({d, n - 1}) = IF d <= n - 1 THEN d ELSE n - 1
    BY <2>2, MinMaxOfTwo
  <2>4. near(i) \in V
    BY <2>2, <2>3 DEF d
  <2> HIDE DEF near
  <2>5. next(i, v) = IF v >= near(i) THEN v ELSE near(i)
    <3>1. v \in Int /\ near(i) \in Int
      BY <2>4
    <3> DEFINE w == near(i)
    <3>2. v \in Int /\ w \in Int
      BY <3>1
    <3> HIDE DEF w
    <3>3. Max({v, w}) = IF v >= w THEN v ELSE w
      BY <3>2, MinMaxOfTwo
    <3> QED
      BY <3>3 DEF w
  <2> HIDE DEF next
  <2> QED
    BY <2>4, <2>5
<1>2. InsertNeedles(n, k) =
         [i \in 1 .. k + 1 |->
            [j \in 1 .. [i2 \in 1 .. k + 1 |-> IF i2 <= k THEN at[i2] ELSE n][i] - at[i - 1]
               |-> at[i - 1] + j]]
  BY DEF InsertNeedles
<1> HIDE DEF next, near
<1>3. PICK g : g \in RecursiveUpto(k, V, 0, step)
  <2>1. step \in [1 .. k -> [V -> V]]
    BY <1>1
  <2>2. 0 \in V
    OBVIOUS
  <2> HIDE DEF step, V
  <2>3. RecursiveUpto(k, V, 0, step) # {}
    BY <2>1, <2>2, BoundedRecursionExists
  <2> QED
    BY <2>3
<1>4. g \in [0 .. k -> V] /\ g[0] = 0 /\ \A i \in 1 .. k : g[i] = next(i, g[i - 1])
  <2>1. g \in [0 .. k -> V] /\ g[0] = 0 /\ \A i \in 1 .. k : g[i] = step[i][g[i - 1]]
    BY <1>3 DEF RecursiveUpto
  <2>2. \A i \in 1 .. k : i - 1 \in 0 .. k
    OBVIOUS
  <2> QED
    BY <2>1, <2>2
<1> HIDE DEF step
<1>5. g = body(g)
  <2>1. ASSUME NEW i \in 0 .. k PROVE g[i] = IF i = 0 THEN 0 ELSE next(i, g[i - 1])
    BY <1>4
  <2>2. body(g) = [i \in 0 .. k |-> g[i]]
    BY <2>1
  <2> QED
    BY <1>4, <2>2
<1>6. at = body(at)
  <2> HIDE DEF body
  <2> QED
    BY <1>5
<1> HIDE DEF at
<1>7. at = [i \in 0 .. k |-> at[i]] /\ \A i \in 0 .. k : at[i] = IF i = 0 THEN 0 ELSE next(i, at[i - 1])
  <2>1. body(at) = [i \in 0 .. k |-> body(at)[i]]
        /\ \A i \in 0 .. k : body(at)[i] = IF i = 0 THEN 0 ELSE next(i, at[i - 1])
    OBVIOUS
  <2> HIDE DEF body
  <2> QED
    BY <1>6, <2>1
<1> DEFINE T == {i \in 0 .. k : at[i] = g[i]}
<1>8. 0 .. k \subseteq T
  <2>1. 0 \in T
    <3>1. 0 \in 0 .. k
      OBVIOUS
    <3>2. at[0] = 0
      BY <1>7, <3>1
    <3> QED
      BY <1>4, <3>1, <3>2
  <2>2. ASSUME NEW i \in 0 .. k - 1, i \in T PROVE i + 1 \in T
    <3>1. i + 1 \in 0 .. k /\ i + 1 \in 1 .. k /\ i + 1 # 0 /\ (i + 1) - 1 = i
      OBVIOUS
    <3>2. at[i + 1] = next(i + 1, at[i]) /\ g[i + 1] = next(i + 1, g[i])
      BY <1>4, <1>7, <3>1
    <3> QED
      BY <2>2, <3>1, <3>2
  <2> HIDE DEF T
  <2> QED
    BY <2>1, <2>2, BoundedInduction
<1>9. at \in [0 .. k -> V] /\ at[0] = 0
  <2>1. \A i \in 0 .. k : at[i] \in V
    BY <1>4, <1>8
  <2> QED
    BY <1>4, <1>7, <1>8, <2>1
<1>10. \A i \in 1 .. k : at[i - 1] <= at[i]
  <2> SUFFICES ASSUME NEW i \in 1 .. k PROVE at[i - 1] <= at[i]
    OBVIOUS
  <2>1. i \in 0 .. k /\ i - 1 \in 0 .. k /\ i # 0
    OBVIOUS
  <2>2. at[i - 1] \in V /\ at[i] = next(i, at[i - 1])
    BY <1>7, <1>9, <2>1
  <2> QED
    BY <1>1, <2>1, <2>2
<1>11. InsertNeedles(n, k) =
          [i \in 1 .. k + 1 |->
             [j \in 1 .. (IF i <= k THEN at[i] ELSE n) - at[i - 1] |-> at[i - 1] + j]]
  BY <1>2
<1>12. at \in Places(n, k)
  BY <1>9, <1>10, <1>11 DEF Places
<1> QED
  BY <1>12

\* Hiding needles loses no sentence.
LEMMA NeedlesFair ==
    ASSUME NEW n \in Nat \ {0}, NEW k \in Nat
    PROVE  NeedlesHidden(n, k)
<1>1. PICK at : at \in Places(n, k)
  BY NeedlesPlaced
<1> DEFINE ss == InsertNeedles(n, k)
           end(i) == IF i <= k THEN at[i] ELSE n
<1>2. /\ at \in [0 .. k -> 0 .. n - 1] /\ at[0] = 0 /\ \A i \in 1 .. k : at[i - 1] <= at[i]
      /\ ss = [i \in 1 .. k + 1 |-> [j \in 1 .. end(i) - at[i - 1] |-> at[i - 1] + j]]
  BY <1>1 DEF Places
<1> HIDE DEF ss
<1>3. ASSUME NEW i \in 1 .. k + 1
      PROVE  /\ i - 1 \in 0 .. k /\ at[i - 1] = end(i - 1) /\ at[i - 1] \in Nat /\ end(i) \in Nat
             /\ at[i - 1] <= end(i)
  <2>1. i - 1 \in 0 .. k /\ i - 1 <= k
    OBVIOUS
  <2>2. at[i - 1] \in 0 .. n - 1
    BY <1>2, <2>1
  <2>3. CASE i <= k
    <3>1. i \in 1 .. k /\ at[i] \in 0 .. n - 1
      BY <1>2, <2>3
    <3>2. at[i - 1] <= at[i]
      BY <1>2, <3>1
    <3> QED
      BY <2>1, <2>2, <2>3, <3>1, <3>2
  <2>4. CASE ~(i <= k)
    BY <2>1, <2>2, <2>4
  <2> QED
    BY <2>3, <2>4
<1> HIDE DEF end
<1>4. \A i \in 1 .. k + 1 : ss[i] = [j \in 1 .. end(i) - at[i - 1] |-> at[i - 1] + j]
  BY <1>2
<1>5. \A i \in 1 .. k + 1 : ss[i] \in Seq(Nat) /\ Len(ss[i]) = end(i) - at[i - 1]
  <2> SUFFICES ASSUME NEW i \in 1 .. k + 1
               PROVE  ss[i] \in Seq(Nat) /\ Len(ss[i]) = end(i) - at[i - 1]
    OBVIOUS
  <2> DEFINE a == at[i - 1]
             l == end(i) - a
  <2>1. a \in Nat /\ l \in Nat /\ ss[i] = [j \in 1 .. l |-> a + j]
    BY <1>3, <1>4
  <2> HIDE DEF a, l
  <2>2. ss[i] \in [1 .. l -> Nat]
    BY <2>1
  <2>3. ss[i] \in Seq(Nat) /\ Len(ss[i]) = l
    BY <2>1, <2>2, ListOf
  <2> QED
    BY <2>3 DEF a, l
<1>6. ss \in Seq(Seq(Nat)) /\ Len(ss) = k + 1
  <2>1. ss \in [1 .. k + 1 -> Seq(Nat)] /\ k + 1 \in Nat
    BY <1>2, <1>5
  <2> QED
    BY <2>1, ListOf
<1>7. PICK f \in [0 .. k + 1 -> Seq(Nat)] :
         /\ f[0] = <<>> /\ \A i \in 1 .. k + 1 : f[i] = f[i - 1] \o ss[i]
         /\ FlattenSeq(ss) = f[k + 1]
  <2> HIDE DEF ss
  <2>1. PICK f \in [0 .. Len(ss) -> Seq(Nat)] :
           /\ f[0] = <<>> /\ \A i \in 1 .. Len(ss) : f[i] = f[i - 1] \o ss[i]
           /\ FlattenSeq(ss) = f[Len(ss)]
    BY <1>6, Flattened
  <2> QED
    BY <1>6, <2>1
<1> DEFINE T == {i \in 0 .. k + 1 : f[i] = Upto(end(i))}
<1>8. 0 .. k + 1 \subseteq T
  <2>1. 0 \in T
    <3>1. end(0) = 0
      BY <1>2 DEF end
    <3>2. Upto(0) = <<>>
      BY DEF Upto
    <3> QED
      BY <1>7, <3>1, <3>2
  <2>2. ASSUME NEW i \in 0 .. (k + 1) - 1, i \in T PROVE i + 1 \in T
    <3>1. i + 1 \in 1 .. k + 1 /\ (i + 1) - 1 = i /\ i + 1 \in 0 .. k + 1
      OBVIOUS
    <3> DEFINE a == end(i)
               b == end(i + 1)
               s == f[i]
               t == ss[i + 1]
    <3>2. /\ a \in Nat /\ b \in Nat /\ a <= b /\ a = at[i]
          /\ t \in Seq(Nat) /\ Len(t) = b - a /\ t = [j \in 1 .. b - a |-> a + j]
      <4>1. a \in Nat /\ b \in Nat /\ a <= b /\ a = at[i]
        BY <1>3, <3>1
      <4>2. at[(i + 1) - 1] = a
        BY <3>1, <4>1
      <4>3. t = [j \in 1 .. b - a |-> a + j]
        BY <1>4, <3>1, <4>2
      <4>4. t \in Seq(Nat) /\ Len(t) = b - a
        BY <1>5, <3>1, <4>2
      <4> QED
        BY <4>1, <4>3, <4>4
    <3>3. s = Upto(a) /\ s \in Seq(Nat) /\ f[i + 1] = s \o t
      BY <1>7, <2>2, <3>1
    <3> HIDE DEF a, b, s, t
    <3>4. Len(s) = a /\ \A j \in 1 .. a : s[j] = j
      BY <3>2, <3>3 DEF Upto
    <3> DEFINE u == s \o t
    <3> HIDE DEF T
    <3>5. /\ u \in Seq(Nat) /\ Len(u) = Len(s) + Len(t)
          /\ \A j \in 1 .. Len(s) + Len(t) : u[j] = IF j <= Len(s) THEN s[j] ELSE t[j - Len(s)]
      <4>1. s \in Seq(Nat) /\ t \in Seq(Nat)
        BY <3>2, <3>3
      <4> QED
        BY <4>1, ConcatProperties
    <3> HIDE DEF u
    <3>6. Len(u) = b
      <4>1. Len(u) = Len(s) + Len(t) /\ Len(s) = a /\ Len(t) = b - a
        BY <3>2, <3>4, <3>5
      <4> QED
        <5>1. a \in Nat /\ b \in Nat
          BY <3>2
        <5> HIDE DEF end, Upto
        <5> QED
          BY <4>1, <5>1
    <3>7. \A j \in 1 .. b : u[j] = j
      <4> SUFFICES ASSUME NEW j \in 1 .. b PROVE u[j] = j
        OBVIOUS
      <4>1. u[j] = IF j <= a THEN s[j] ELSE t[j - a]
        <5>1. Len(s) = a /\ Len(t) = b - a /\ a + (b - a) = b
          BY <3>2, <3>4
        <5>2. j \in 1 .. Len(s) + Len(t)
          BY <5>1
        <5>3. u[j] = IF j <= Len(s) THEN s[j] ELSE t[j - Len(s)]
          BY <3>5, <5>2
        <5> QED
          BY <5>1, <5>3
      <4>2. CASE j <= a
        BY <3>2, <3>4, <4>1, <4>2
      <4>3. CASE ~(j <= a)
        <5>1. j - a \in 1 .. b - a /\ a + (j - a) = j
          <6>1. j \in Nat /\ j <= b /\ a \in Nat /\ b \in Nat /\ j > a
            BY <3>2, <4>3
          <6> QED
            BY <6>1
        <5> QED
          BY <3>2, <4>1, <4>3, <5>1
      <4> QED
        BY <4>2, <4>3
    <3>8. Upto(b) \in Seq(Nat) /\ Len(Upto(b)) = b /\ \A j \in 1 .. b : Upto(b)[j] = j
      <4>1. Upto(b) \in [1 .. b -> Nat]
        BY DEF Upto
      <4> QED
        BY <3>2, <4>1, ListOf DEF Upto
    <3>9. u = Upto(b)
      BY <3>5, <3>6, <3>7, <3>8, SeqEqual
    <3> QED
      BY <3>1, <3>3, <3>9 DEF T, u, b
  <2> HIDE DEF T
  <2>3. k + 1 \in Nat
    OBVIOUS
  <2> QED
    BY <2>1, <2>2, <2>3, BoundedInduction
<1>9. f[k + 1] = Upto(end(k + 1))
  <2>1. k + 1 \in 0 .. k + 1
    OBVIOUS
  <2> QED
    BY <1>8, <2>1
<1>10. end(k + 1) = n
  BY DEF end
<1> QED
  BY <1>7, <1>9, <1>10 DEF NeedlesHidden, Upto, ss

-----------------------------------------------------------------------------
(* The area under what compression costs.                                   *)

\* A ratio of compression and the recall at it.
Points == [ratio : Int, recall : Int]

\* Points from left to right, and twice the area under them.
Rising(n, pts) ==
    pts \in [1 .. n -> Points] /\ \A i, j \in 1 .. n : i < j => pts[i].ratio < pts[j].ratio
Below(pts, i) == (pts[i + 1].ratio - pts[i].ratio) * (pts[i + 1].recall + pts[i].recall)
Apart(n, results) == \A i, j \in 1 .. n : results[i].ratio = results[j].ratio => i = j
DrawnFrom(n, pts, results) == \A i \in 1 .. n : \E j \in 1 .. n : pts[i] = results[j]
AreaUnder(pts, n) == SumFunctionOnSet([i \in 1 .. n - 1 |-> Below(pts, i)], 1 .. n - 1)

\* The area does not depend on the order in which the results come.
LEMMA AreaOf ==
    ASSUME NEW n \in Nat, NEW results \in [1 .. n -> Points],
           Apart(n, results), NEW pts, Rising(n, pts), DrawnFrom(n, pts, results)
    PROVE  CompressionTradeoff(results) = AreaUnder(pts, n) /\ DrawnFrom(n, results, pts)
<1> DEFINE D == 1 .. n
           R == {p \in D \X D :
                      \/ results[p[1]].ratio < results[p[2]].ratio
                      \/ results[p[1]].ratio = results[p[2]].ratio /\ p[1] < p[2]}
<1>1. DOMAIN results = D /\ Len(results) = n
  OBVIOUS
<1>2. \A i \in D : results[i] \in Points /\ results[i].ratio \in Int /\ results[i].recall \in Int
  BY DEF Points
<1>3. \A x, y \in D : <<x, y>> \in R <=> results[x].ratio < results[y].ratio
  <2> SUFFICES ASSUME NEW x \in D, NEW y \in D
               PROVE  <<x, y>> \in R <=> results[x].ratio < results[y].ratio
    OBVIOUS
  <2>1. <<x, y>> \in R <=> \/ results[x].ratio < results[y].ratio
                           \/ results[x].ratio = results[y].ratio /\ x < y
    OBVIOUS
  <2>2. results[x].ratio = results[y].ratio => x = y
    BY DEF Apart
  <2>3. x \in Int /\ y \in Int
    OBVIOUS
  <2> HIDE DEF R, D
  <2> QED
    BY <2>1, <2>2, <2>3
<1>4. PICK e \in [D -> D] : \A i \in D : results[e[i]] = pts[i]
  <2>1. \A i \in D : \E j \in D : results[j] = pts[i]
    BY DEF DrawnFrom
  <2> DEFINE e == [i \in D |-> CHOOSE j \in D : results[j] = pts[i]]
  <2>2. e \in [D -> D] /\ \A i \in D : results[e[i]] = pts[i]
    BY <2>1
  <2> HIDE DEF e
  <2> QED
    BY <2>2
<1>5. \A i, j \in D : i < j => pts[i].ratio < pts[j].ratio
  BY DEF Rising
<1> DEFINE O == InOrder(D, R)
           Step(i) == (results[O[i + 1]].ratio - results[O[i]].ratio)
                         * (results[O[i + 1]].recall + results[O[i]].recall)
<1>6. CompressionTradeoff(results) = SumFunction([i \in 1 .. n - 1 |-> Step(i)])
  BY <1>1 DEF CompressionTradeoff
<1> HIDE DEF R, O
<1>7. StrictOrder(D, R)
  <2> DEFINE v == [x \in D |-> results[x].ratio]
  <2>1. v \in [D -> Int] /\ \A x, y \in D : v[x] = v[y] => x = y
    BY <1>2 DEF Apart
  <2>2. \A x, y \in D : <<x, y>> \in R <=> v[x] < v[y]
    BY <1>3
  <2> HIDE DEF D, v
  <2> QED
    BY <2>1, <2>2, OrderedBy
<1>8. IsFiniteSet(D) /\ Cardinality(D) = n
  BY FirstPlaces
<1>9. \A i, j \in 1 .. n : i < j => <<e[i], e[j]>> \in R
  <2> SUFFICES ASSUME NEW i \in D, NEW j \in D, i < j PROVE <<e[i], e[j]>> \in R
    OBVIOUS
  <2>1. results[e[i]] = pts[i] /\ results[e[j]] = pts[j] /\ e[i] \in D /\ e[j] \in D
    BY <1>4
  <2>2. results[e[i]].ratio < results[e[j]].ratio
    BY <1>5, <2>1
  <2> HIDE DEF D
  <2> QED
    BY <1>3, <2>1, <2>2
<1>10. O = e /\ \A x \in D : \E i \in 1 .. n : e[i] = x
  <2>1. e \in [1 .. n -> D]
    OBVIOUS
  <2> HIDE DEF Step
  <2>2. StrictOrder(1 .. n, R)
    BY <1>7 DEF D
  <2>3. Climbs(n, e, R)
    BY <1>9 DEF Climbs
  <2>4. InOrder(1 .. n, R) = e /\ \A x \in 1 .. n : \E i \in 1 .. n : e[i] = x
    BY <2>2, <2>3, Rearranged
  <2>5. InOrder(D, R) = e
    BY ONLY <2>4 DEF D
  <2>6. O = e
    BY ONLY <2>5 DEF O
  <2> QED
    BY <2>4, <2>6 DEF D
<1>11. ASSUME NEW i \in 1 .. n - 1 PROVE Step(i) = Below(pts, i)
  <2>1. i \in D /\ i + 1 \in D
    OBVIOUS
  <2>2. results[O[i]] = pts[i] /\ results[O[i + 1]] = pts[i + 1]
    BY <1>4, <1>10, <2>1
  <2> QED
    BY <2>2 DEF Below
<1>12. [i \in 1 .. n - 1 |-> Step(i)] = [i \in 1 .. n - 1 |-> Below(pts, i)]
  <2> HIDE DEF Step
  <2> QED
    BY <1>11
<1>13. CompressionTradeoff(results) = SumFunction([i \in 1 .. n - 1 |-> Below(pts, i)])
  BY <1>6, <1>12, Zenon
<1>14. CompressionTradeoff(results) = AreaUnder(pts, n)
  BY <1>13 DEF SumFunction, AreaUnder
<1>15. ASSUME NEW j \in 1 .. n PROVE \E i \in 1 .. n : results[j] = pts[i]
  <2>1. PICK i \in 1 .. n : e[i] = j
    BY <1>10
  <2> QED
    BY <1>4, <2>1
<1> QED
  BY <1>14, <1>15 DEF DrawnFrom

\* Results of different ratios have an order from left to right.
LEMMA PointsOf ==
    ASSUME NEW n \in Nat, NEW results \in [1 .. n -> Points],
           Apart(n, results)
    PROVE  \E pts \in [1 .. n -> Points] : Rising(n, pts) /\ DrawnFrom(n, pts, results)
<1> DEFINE D == 1 .. n
           R == {p \in D \X D : results[p[1]].ratio < results[p[2]].ratio}
           O == InOrder(D, R)
           pts == [i \in 1 .. n |-> results[O[i]]]
<1>1. \A i \in 1 .. n : results[i] \in Points /\ results[i].ratio \in Int /\ results[i].recall \in Int
  BY DEF Points
<1>2. \A x, y \in D : <<x, y>> \in R <=> results[x].ratio < results[y].ratio
  OBVIOUS
<1> HIDE DEF R
<1>3. StrictOrder(D, R)
  <2> DEFINE v == [x \in D |-> results[x].ratio]
  <2>1. v \in [D -> Int] /\ \A x, y \in D : v[x] = v[y] => x = y
    BY <1>1 DEF Apart
  <2>2. \A x, y \in D : <<x, y>> \in R <=> v[x] < v[y]
    BY <1>2
  <2> HIDE DEF D, v
  <2> QED
    BY <2>1, <2>2, OrderedBy
<1>4. IsFiniteSet(D) /\ Cardinality(D) = n
  BY FirstPlaces
<1> HIDE DEF D
<1>5. O \in [1 .. n -> D] /\ \A i, j \in 1 .. n : i < j => <<O[i], O[j]>> \in R
  BY <1>3, <1>4, Ranked
<1> HIDE DEF O
<1>6. Rising(n, pts)
  BY <1>2, <1>5 DEF Rising, D
<1>7. DrawnFrom(n, pts, results)
  BY <1>5 DEF D, DrawnFrom
<1>8. pts \in [1 .. n -> Points]
  BY <1>6 DEF Rising
<1> HIDE DEF pts
<1> QED
  BY <1>6, <1>7, <1>8

\* The area is between that of the least and that of the greatest recall.
LEMMA AreaBounds ==
    ASSUME NEW n \in Nat \ {0}, NEW pts, Rising(n, pts), NEW lo \in Int, NEW hi \in Int,
           \A i \in 1 .. n : lo <= pts[i].recall /\ pts[i].recall <= hi
    PROVE  /\ AreaUnder(pts, n) <= 2 * hi * (pts[n].ratio - pts[1].ratio)
           /\ AreaUnder(pts, n) >= 2 * lo * (pts[n].ratio - pts[1].ratio)
<1> DEFINE f == [i \in 1 .. n - 1 |-> Below(pts, i)]
           S(m) == SumFunctionOnSet(f, 1 .. m)
           r(m) == pts[m].ratio
           T == {m \in 0 .. n - 1 : /\ S(m) \in Int
                                    /\ S(m) <= 2 * hi * (r(m + 1) - r(1))
                                    /\ S(m) >= 2 * lo * (r(m + 1) - r(1))}
<1>1. \A i \in 1 .. n : pts[i].ratio \in Int /\ pts[i].recall \in Int
  BY DEF Rising, Points
<1>2. ASSUME NEW i \in 1 .. n - 1
      PROVE  /\ f[i] \in Int
             /\ f[i] <= 2 * hi * (r(i + 1) - r(i)) /\ f[i] >= 2 * lo * (r(i + 1) - r(i))
  <2> DEFINE d == r(i + 1) - r(i)
             s == pts[i + 1].recall + pts[i].recall
  <2>1. i \in 1 .. n /\ i + 1 \in 1 .. n /\ i < i + 1
    OBVIOUS
  <2>2. d \in Nat
    BY <1>1, <2>1 DEF Rising
  <2>3. s \in Int /\ s <= 2 * hi /\ s >= 2 * lo
    BY <1>1, <2>1
  <2>4. f[i] = d * s
    BY DEF Below
  <2> HIDE DEF d, s, f
  <2>5. d * s \in Int /\ d * s <= d * (2 * hi) /\ d * s >= d * (2 * lo)
    BY <2>2, <2>3
  <2>6. d * (2 * hi) = 2 * hi * d /\ d * (2 * lo) = 2 * lo * d
    BY <2>2
  <2> QED
    BY <2>4, <2>5, <2>6 DEF d
<1>3. 0 \in T
  <2>1. S(0) = 0
    <3>1. 1 .. 0 = {} /\ IsFiniteSet({}) /\ \A y \in {} : f[y] \in Int
      BY FS_EmptySet
    <3> HIDE DEF f
    <3> QED
      BY <3>1, SumInt
  <2>2. r(0 + 1) - r(1) = 0
    BY <1>1
  <2> HIDE DEF S, r
  <2> QED
    BY <2>1, <2>2
<1>4. ASSUME NEW m \in 0 .. (n - 1) - 1, m \in T PROVE m + 1 \in T
  <2>1. m + 1 \in 1 .. n - 1 /\ m + 1 \in 0 .. n - 1 /\ m \in Nat
    OBVIOUS
  <2>2. \A i \in 1 .. m + 1 : f[i] \in Int
    BY <1>2, <2>1
  <2>3. S(m) \in Int /\ S(m + 1) = f[m + 1] + S(m)
    <3> HIDE DEF f
    <3> QED
      BY <2>1, <2>2, SumUpto
  <2> DEFINE a == r(1)
             b == r(m + 1)
             c == r((m + 1) + 1)
             x == f[m + 1]
             y == S(m)
  <2>4. a \in Int /\ b \in Int /\ c \in Int
    BY <1>1, <2>1
  <2>5. x \in Int /\ x <= 2 * hi * (c - b) /\ x >= 2 * lo * (c - b)
    BY <1>2, <2>1
  <2>6. y \in Int /\ y <= 2 * hi * (b - a) /\ y >= 2 * lo * (b - a)
    BY <1>4
  <2>7. S(m + 1) = x + y
    BY <2>3
  <2> HIDE DEF a, b, c, x, y, S
  <2>8. PICK p \in Int, q \in Int, u \in Int, v \in Int :
           /\ p = 2 * hi * (c - b) /\ q = 2 * hi * (b - a)
           /\ u = 2 * lo * (c - b) /\ v = 2 * lo * (b - a)
    BY <2>4
  <2>9. 2 * hi * (c - a) = p + q /\ 2 * lo * (c - a) = u + v
    BY <2>4, <2>8
  <2>10. x + y <= p + q /\ x + y >= u + v /\ x + y \in Int
    BY <2>5, <2>6, <2>8
  <2> QED
    BY <2>1, <2>7, <2>9, <2>10 DEF a, c
<1>5. 0 .. n - 1 \subseteq T
  <2> HIDE DEF T
  <2>1. n - 1 \in Nat
    OBVIOUS
  <2> QED
    BY <1>3, <1>4, <2>1, BoundedInduction
<1>6. n - 1 \in T /\ (n - 1) + 1 = n
  <2> HIDE DEF T
  <2>1. n - 1 \in 0 .. n - 1 /\ (n - 1) + 1 = n
    OBVIOUS
  <2> QED
    BY <1>5, <2>1
<1>7. AreaUnder(pts, n) = S(n - 1)
  BY DEF AreaUnder
<1> HIDE DEF S
<1> QED
  BY <1>6, <1>7

\* It is that on both sides of any point.
LEMMA AreaSplits ==
    ASSUME NEW n \in Nat \ {0}, NEW pts, Rising(n, pts), NEW k \in 1 .. n
    PROVE  AreaUnder(pts, n) = AreaUnder([i \in 1 .. k |-> pts[i]], k)
              + AreaUnder([i \in 1 .. n - k + 1 |-> pts[k + i - 1]], n - k + 1)
<1> DEFINE f == [i \in 1 .. n - 1 |-> Below(pts, i)]
           left == [i \in 1 .. k |-> pts[i]]
           right == [i \in 1 .. n - k + 1 |-> pts[k + i - 1]]
           lf == [i \in 1 .. k - 1 |-> Below(left, i)]
           rf == [i \in 1 .. (n - k + 1) - 1 |-> Below(right, i)]
           A == 1 .. k - 1
           B == k .. n - 1
           e == [i \in 1 .. n - k |-> k + i - 1]
<1>1. \A i \in 1 .. n : pts[i].ratio \in Int /\ pts[i].recall \in Int
  BY DEF Rising, Points
<1>2. \A i \in 1 .. n - 1 : f[i] \in Int
  <2> SUFFICES ASSUME NEW i \in 1 .. n - 1 PROVE Below(pts, i) \in Int
    OBVIOUS
  <2>1. i \in 1 .. n /\ i + 1 \in 1 .. n
    OBVIOUS
  <2> QED
    BY <1>1, <2>1 DEF Below
<1>3. (n - k + 1) - 1 = n - k
  OBVIOUS
<1>4. \A i \in A : lf[i] = f[i] /\ f[i] \in Int
  <2> SUFFICES ASSUME NEW i \in A PROVE lf[i] = f[i] /\ f[i] \in Int
    OBVIOUS
  <2>1. i \in 1 .. k /\ i + 1 \in 1 .. k /\ i \in 1 .. n - 1
    OBVIOUS
  <2>2. left[i] = pts[i] /\ left[i + 1] = pts[i + 1]
    BY <2>1
  <2>3. Below(left, i) = Below(pts, i)
    BY <2>2 DEF Below
  <2> HIDE DEF left
  <2> QED
    BY <1>2, <2>1, <2>3
<1>5. \A i \in 1 .. n - k : rf[i] = f[e[i]]
  <2> SUFFICES ASSUME NEW i \in 1 .. n - k PROVE rf[i] = f[e[i]]
    OBVIOUS
  <2>1. /\ i \in 1 .. n - k + 1 /\ i + 1 \in 1 .. n - k + 1 /\ k + i - 1 \in 1 .. n - 1
        /\ k + (i + 1) - 1 = (k + i - 1) + 1
    OBVIOUS
  <2>2. right[i] = pts[k + i - 1] /\ right[i + 1] = pts[(k + i - 1) + 1]
    BY <2>1
  <2>3. Below(right, i) = Below(pts, k + i - 1)
    BY <2>2 DEF Below
  <2> HIDE DEF right
  <2>4. i \in 1 .. (n - k + 1) - 1
    BY <1>3
  <2>5. rf[i] = Below(right, i)
    BY <2>4
  <2>6. e[i] = k + i - 1
    OBVIOUS
  <2>7. f[k + i - 1] = Below(pts, k + i - 1)
    BY <2>1
  <2> QED
    BY <2>3, <2>5, <2>6, <2>7
<1>6. /\ e \in [1 .. n - k -> B] /\ \A x, y \in 1 .. n - k : e[x] = e[y] => x = y
      /\ \A u \in B : \E x \in 1 .. n - k : e[x] = u
  <2>1. ASSUME NEW x \in 1 .. n - k PROVE k + x - 1 \in B
    OBVIOUS
  <2>2. ASSUME NEW u \in B PROVE u - k + 1 \in 1 .. n - k /\ k + (u - k + 1) - 1 = u
    OBVIOUS
  <2>3. \A u \in B : e[u - k + 1] = u
    BY <2>2
  <2>4. \A x, y \in 1 .. n - k : e[x] = e[y] => x = y
    OBVIOUS
  <2> QED
    BY <2>1, <2>2, <2>3, <2>4
<1>7. A \cup B = 1 .. n - 1 /\ A \cap B = {}
  OBVIOUS
<1>8. IsFiniteSet(A) /\ IsFiniteSet(B) /\ IsFiniteSet(1 .. n - k)
  BY FS_Interval
<1>9. /\ AreaUnder(pts, n) = SumFunctionOnSet(f, 1 .. n - 1)
      /\ AreaUnder(left, k) = SumFunctionOnSet(lf, A)
      /\ AreaUnder(right, n - k + 1) = SumFunctionOnSet(rf, 1 .. n - k)
  BY <1>3 DEF AreaUnder
<1> HIDE DEF f, lf, rf, e, left, right
<1>10. SumFunctionOnSet(lf, A) = SumFunctionOnSet(f, A)
  <2>1. \A i \in A : lf[i] \in Int /\ lf[i] = f[i]
    BY <1>4
  <2> HIDE DEF A
  <2> QED
    BY <1>8, <2>1, SumSame
<1>11. SumFunctionOnSet(rf, 1 .. n - k) = SumFunctionOnSet(f, B)
  <2> DEFINE N == 1 .. n - k
  <2>1. /\ IsFiniteSet(N) /\ e \in [N -> B] /\ (\A x, y \in N : e[x] = e[y] => x = y)
        /\ (\A u \in B : \E x \in N : e[x] = u) /\ (\A u \in B : f[u] \in Int)
        /\ \A x \in N : rf[x] = f[e[x]]
    BY <1>2, <1>5, <1>6, <1>7, <1>8
  <2> HIDE DEF N, B
  <2>2. SumFunctionOnSet(rf, N) = SumFunctionOnSet(f, B)
    BY <2>1, SumMoved
  <2> QED
    BY <2>2 DEF N
<1>12. SumFunctionOnSet(f, 1 .. n - 1) = SumFunctionOnSet(f, A) + SumFunctionOnSet(f, B)
  <2>1. \A y \in A \cup B : f[y] \in Int
    BY <1>2, <1>7
  <2> HIDE DEF A, B
  <2>2. SumFunctionOnSet(f, A \cup B) = SumFunctionOnSet(f, A) + SumFunctionOnSet(f, B)
    BY <1>7, <1>8, <2>1, SumUnion
  <2> QED
    BY <1>7, <2>2
<1> QED
  BY <1>9, <1>10, <1>11, <1>12 DEF left, right

\* The points from left to right are those of some of the results.
PointsAt(k, pts, S, results) ==
    /\ \A i \in 1 .. k : \E s \in S : pts[i] = results[s]
    /\ \A s \in S : \E i \in 1 .. k : pts[i] = results[s]

\* So it is with the results of some places.
LEMMA AreaPart ==
    ASSUME NEW n \in Nat, NEW results \in [1 .. n -> Points], Apart(n, results),
           NEW S \in SUBSET (1 .. n), NEW k \in Nat, NEW pts, Rising(k, pts),
           PointsAt(k, pts, S, results)
    PROVE  CompressionTradeoff(At(results, S)) = AreaUnder(pts, k)
<1> DEFINE q == At(results, S)
           a == Ascending(S)
<1>1. PICK e \in [1 .. k -> S] : \A i \in 1 .. k : pts[i] = results[e[i]]
  <2> DEFINE e == [i \in 1 .. k |-> CHOOSE s \in S : pts[i] = results[s]]
  <2>1. e \in [1 .. k -> S] /\ \A i \in 1 .. k : pts[i] = results[e[i]]
    BY DEF PointsAt
  <2> HIDE DEF e
  <2> QED
    BY <2>1
<1>2. \A i \in 1 .. n : results[i] \in Points /\ results[i].ratio \in Int
  BY DEF Points
<1>3. \A i, j \in 1 .. k : pts[i].ratio = pts[j].ratio => i = j
  <2> SUFFICES ASSUME NEW i \in 1 .. k, NEW j \in 1 .. k, i # j PROVE pts[i].ratio # pts[j].ratio
    OBVIOUS
  <2>1. i < j \/ j < i
    OBVIOUS
  <2>2. pts[i].ratio \in Int /\ pts[j].ratio \in Int
    BY DEF Rising, Points
  <2>3. pts[i].ratio < pts[j].ratio \/ pts[j].ratio < pts[i].ratio
    BY <2>1 DEF Rising
  <2> QED
    BY <2>2, <2>3
<1>4. \A i, j \in 1 .. k : e[i] = e[j] => i = j
  <2> SUFFICES ASSUME NEW i \in 1 .. k, NEW j \in 1 .. k, e[i] = e[j] PROVE i = j
    OBVIOUS
  <2>1. pts[i] = pts[j]
    BY <1>1
  <2> QED
    BY <1>3, <2>1
<1>5. ASSUME NEW s \in S PROVE \E i \in 1 .. k : e[i] = s
  <2>1. PICK i \in 1 .. k : pts[i] = results[s]
    BY DEF PointsAt
  <2>2. results[e[i]].ratio = results[s].ratio /\ e[i] \in 1 .. n /\ s \in 1 .. n
    BY <1>1, <2>1
  <2> QED
    BY <2>2 DEF Apart
<1>6. Cardinality(S) = k
  <2> DEFINE K == 1 .. k
  <2>1. IsFiniteSet(K) /\ Cardinality(K) = k
    BY FirstPlaces
  <2>2. e \in [K -> S] /\ (\A x, y \in K : e[x] = e[y] => x = y) /\ \A u \in S : \E x \in K : e[x] = u
    BY <1>4, <1>5
  <2> HIDE DEF K
  <2> QED
    BY <2>1, <2>2, Partners
<1>7. /\ a \in [1 .. k -> S] /\ \A i, j \in 1 .. k : i < j => a[i] < a[j]
      /\ \A x \in S : \E j \in 1 .. k : a[j] = x
  BY <1>6, Ascended
<1> HIDE DEF a
<1>8. q = [j \in 1 .. k |-> results[a[j]]]
  BY <1>7 DEF At, a
<1>9. \A i, j \in 1 .. k : a[i] = a[j] => i = j
  <2> SUFFICES ASSUME NEW i \in 1 .. k, NEW j \in 1 .. k, i # j PROVE a[i] # a[j]
    OBVIOUS
  <2>1. i < j \/ j < i
    OBVIOUS
  <2>2. a[i] < a[j] \/ a[j] < a[i]
    BY <1>7, <2>1
  <2>3. a[i] \in S /\ a[j] \in S
    BY <1>7
  <2>4. \A x \in S : x \in Int
    OBVIOUS
  <2>5. a[i] \in Int /\ a[j] \in Int
    BY <2>3, <2>4
  <2> QED
    BY <2>2, <2>5
<1> HIDE DEF q
<1>10. q \in [1 .. k -> Points]
  <2>1. \A j \in 1 .. k : results[a[j]] \in Points
    BY <1>2, <1>7
  <2> QED
    BY <1>8, <2>1
<1>11. Apart(k, q)
  <2> SUFFICES ASSUME NEW i \in 1 .. k, NEW j \in 1 .. k, q[i].ratio = q[j].ratio PROVE i = j
    BY DEF Apart
  <2>1. results[a[i]].ratio = results[a[j]].ratio /\ a[i] \in 1 .. n /\ a[j] \in 1 .. n
    BY <1>7, <1>8
  <2>2. a[i] = a[j]
    BY <2>1 DEF Apart
  <2> QED
    BY <1>9, <2>2
<1>12. DrawnFrom(k, pts, q)
  <2> SUFFICES ASSUME NEW i \in 1 .. k PROVE \E j \in 1 .. k : pts[i] = q[j]
    BY DEF DrawnFrom
  <2>1. PICK j \in 1 .. k : a[j] = e[i]
    BY <1>7
  <2> QED
    BY <1>1, <1>8, <2>1
<1> QED
  BY <1>10, <1>11, <1>12, AreaOf DEF q

\* Backwards, they are the same results.
LEMMA AreaReversed ==
    ASSUME NEW n \in Nat, NEW results \in [1 .. n -> Points], Apart(n, results),
           NEW pts, Rising(n, pts), DrawnFrom(n, pts, results)
    PROVE  CompressionTradeoff(Reverse(results)) = AreaUnder(pts, n)
<1> DEFINE q == Reverse(results)
<1>1. q = [i \in 1 .. n |-> results[n - i + 1]]
  <2>1. Len(results) = n
    OBVIOUS
  <2> QED
    BY <2>1 DEF Reverse
<1>2. \A i \in 1 .. n : n - i + 1 \in 1 .. n /\ n - (n - i + 1) + 1 = i
  OBVIOUS
<1> HIDE DEF q
<1>3. q \in [1 .. n -> Points]
  BY <1>1, <1>2
<1>4. Apart(n, q)
  <2> SUFFICES ASSUME NEW i \in 1 .. n, NEW j \in 1 .. n, q[i].ratio = q[j].ratio PROVE i = j
    BY DEF Apart
  <2>1. n - i + 1 = n - j + 1
    BY <1>1, <1>2 DEF Apart
  <2> QED
    BY <2>1
<1>5. DrawnFrom(n, pts, q)
  <2> SUFFICES ASSUME NEW i \in 1 .. n PROVE \E j \in 1 .. n : pts[i] = q[j]
    BY DEF DrawnFrom
  <2>1. PICK j \in 1 .. n : pts[i] = results[j]
    BY DEF DrawnFrom
  <2>2. q[n - j + 1] = results[j]
    BY <1>1, <1>2
  <2> QED
    BY <1>2, <2>1, <2>2
<1> QED
  BY <1>3, <1>4, <1>5, AreaOf DEF q

\* compression_tradeoff of any results is what AreaAgrees says.
LEMMA AreaFair ==
    ASSUME NEW n \in Nat, NEW results \in [1 .. n -> Points]
    PROVE  AreaAgrees(results)
<1> DEFINE area == CompressionTradeoff(results)
           ratios == {results[i].ratio : i \in DOMAIN results}
           recalls == {results[i].recall : i \in DOMAIN results}
           S(x) == {i \in DOMAIN results : results[i].ratio <= x}
           L(x) == {i \in DOMAIN results : results[i].ratio >= x}
           Sides(x) == CompressionTradeoff(At(results, S(x))) + CompressionTradeoff(At(results, L(x)))
<1>1. DOMAIN results = 1 .. n /\ Len(results) = n
  OBVIOUS
<1>2. \A i \in 1 .. n : results[i] \in Points /\ results[i].ratio \in Int /\ results[i].recall \in Int
  BY DEF Points
<1>3. SUFFICES ASSUME Cardinality(ratios) = n, n # 0
               PROVE  /\ CompressionTradeoff(Reverse(results)) = area
                      /\ area <= 2 * Max(recalls) * (Max(ratios) - Min(ratios))
                      /\ area >= 2 * Min(recalls) * (Max(ratios) - Min(ratios))
                      /\ \A x \in ratios : area = Sides(x)
  <2>1. results # <<>> => n # 0
    BY <1>1
  <2> QED
    BY <1>1, <2>1 DEF AreaAgrees
<1>4. /\ ratios \subseteq Int /\ recalls \subseteq Int
      /\ \A y \in ratios : \E i \in 1 .. n : results[i].ratio = y
      /\ \A i \in 1 .. n : results[i].ratio \in ratios /\ results[i].recall \in recalls
  BY <1>1, <1>2
<1>5. IsFiniteSet(recalls)
  <2> DEFINE f == [i \in 1 .. n |-> results[i].recall]
             N == 1 .. n
  <2>1. recalls = {f[i] : i \in N}
    BY <1>1
  <2>2. IsFiniteSet(N)
    BY FirstPlaces
  <2> HIDE DEF f, N, recalls
  <2> QED
    BY <2>1, <2>2, ImageFinite
<1>6. Apart(n, results)
  <2> DEFINE f == [i \in 1 .. n |-> results[i].ratio]
             N == 1 .. n
  <2>1. f \in [N -> ratios] /\ \A y \in ratios : \E i \in N : f[i] = y
    BY <1>4
  <2>2. IsFiniteSet(N) /\ Cardinality(N) = n
    BY FirstPlaces
  <2> HIDE DEF f, N, ratios
  <2>3. f \in Surjection(N, ratios)
    BY <2>1, Fun_IsSurj
  <2>4. f \in Injection(N, ratios)
    BY <1>3, <2>2, <2>3, FS_Surjection
  <2>5. \A i, j \in N : f[i] = f[j] => i = j
    BY <2>1, <2>4 DEF Injection, IsInjective
  <2> QED
    BY <2>5 DEF f, N, Apart
<1>7. PICK pts \in [1 .. n -> Points] : Rising(n, pts) /\ DrawnFrom(n, pts, results)
  BY <1>6, PointsOf
<1>8. area = AreaUnder(pts, n) /\ DrawnFrom(n, results, pts)
  BY <1>6, <1>7, AreaOf
<1> HIDE DEF area, ratios, recalls, S, L
<1>9. \A i \in 1 .. n : pts[i] \in Points /\ pts[i].ratio \in Int
  BY <1>7 DEF Points
<1>10. \A i \in 1 .. n : pts[i].ratio \in ratios /\ pts[i].recall \in recalls
  BY <1>4, <1>7 DEF DrawnFrom
<1>11. \A y \in ratios : \E i \in 1 .. n : pts[i].ratio = y
  <2> SUFFICES ASSUME NEW y \in ratios PROVE \E i \in 1 .. n : pts[i].ratio = y
    OBVIOUS
  <2>1. PICK j \in 1 .. n : results[j].ratio = y
    BY <1>4
  <2>2. PICK i \in 1 .. n : results[j] = pts[i]
    BY <1>8 DEF DrawnFrom
  <2> QED
    BY <2>1, <2>2
<1>12. \A i, j \in 1 .. n : i <= j => pts[i].ratio <= pts[j].ratio
  BY <1>7, <1>9 DEF Rising
<1>13. Max(ratios) = pts[n].ratio /\ Min(ratios) = pts[1].ratio
  <2>1. 1 \in 1 .. n /\ n \in 1 .. n /\ \A i \in 1 .. n : 1 <= i /\ i <= n
    BY <1>3
  <2>2. pts[n].ratio \in ratios /\ pts[1].ratio \in ratios
    BY <1>10, <2>1
  <2>3. \A y \in ratios : y \in Int /\ y <= pts[n].ratio /\ pts[1].ratio <= y
    BY <1>4, <1>11, <1>12, <2>1
  <2> QED
    BY <2>2, <2>3, MaxIs, MinIs
<1>14. /\ Max(recalls) \in Int /\ Min(recalls) \in Int
       /\ \A y \in recalls : Min(recalls) <= y /\ y <= Max(recalls)
  <2>1. recalls # {}
    BY <1>3, <1>10
  <2> QED
    BY <1>4, <1>5, <2>1, Extremes
<1>15. /\ area <= 2 * Max(recalls) * (Max(ratios) - Min(ratios))
       /\ area >= 2 * Min(recalls) * (Max(ratios) - Min(ratios))
  <2>1. \A i \in 1 .. n : Min(recalls) <= pts[i].recall /\ pts[i].recall <= Max(recalls)
    BY <1>10, <1>14
  <2>2. n \in Nat \ {0}
    BY <1>3
  <2>3. /\ AreaUnder(pts, n) <= 2 * Max(recalls) * (pts[n].ratio - pts[1].ratio)
        /\ AreaUnder(pts, n) >= 2 * Min(recalls) * (pts[n].ratio - pts[1].ratio)
    BY <1>7, <1>14, <2>1, <2>2, AreaBounds
  <2> QED
    BY <1>8, <1>13, <2>3
<1>16. CompressionTradeoff(Reverse(results)) = area
  BY <1>6, <1>7, <1>8, AreaReversed
<1>17. ASSUME NEW x \in ratios PROVE area = Sides(x)
  <2>1. PICK k \in 1 .. n : pts[k].ratio = x
    BY <1>11
  <2> DEFINE left == [i \in 1 .. k |-> pts[i]]
             m == n - k + 1
             right == [i \in 1 .. m |-> pts[k + i - 1]]
  <2>2. m \in Nat /\ k \in Nat /\ n \in Nat \ {0}
    BY <1>3
  <2>3. S(x) \in SUBSET (1 .. n) /\ L(x) \in SUBSET (1 .. n)
    BY <1>1 DEF S, L
  <2>4. \A i \in 1 .. k : i \in 1 .. n /\ left[i] = pts[i]
    OBVIOUS
  <2>5. \A i \in 1 .. m : k + i - 1 \in 1 .. n /\ k <= k + i - 1 /\ right[i] = pts[k + i - 1]
    OBVIOUS
  <2>6. \A i, j \in 1 .. m : i < j => k + i - 1 < k + j - 1
    OBVIOUS
  <2>7. \A j \in 1 .. n : j >= k => j - k + 1 \in 1 .. m /\ k + (j - k + 1) - 1 = j
    OBVIOUS
  <2>8. \A s \in 1 .. n : \E j \in 1 .. n : results[s] = pts[j]
    BY <1>8 DEF DrawnFrom
  <2>9. \A j \in 1 .. n : \E s \in 1 .. n : results[s] = pts[j]
    BY <1>7 DEF DrawnFrom
  <2>10. \A j \in 1 .. n : /\ pts[j].ratio <= x <=> j <= k
                           /\ pts[j].ratio >= x <=> j >= k
    <3> SUFFICES ASSUME NEW j \in 1 .. n
                 PROVE  /\ pts[j].ratio <= x <=> j <= k
                        /\ pts[j].ratio >= x <=> j >= k
      OBVIOUS
    <3>1. pts[j].ratio \in Int /\ pts[k].ratio \in Int
      BY <1>9
    <3>2. /\ j < k => pts[j].ratio < x
          /\ k < j => x < pts[j].ratio
      BY <1>7, <2>1 DEF Rising
    <3> QED
      BY <2>1, <3>1, <3>2
  <2> HIDE DEF left, right, m
  <2>11. Rising(k, left)
    <3>1. left \in [1 .. k -> Points]
      BY <1>9, <2>4 DEF left
    <3>2. \A i, j \in 1 .. k : i < j => left[i].ratio < left[j].ratio
      BY <1>7, <2>4 DEF Rising
    <3> QED
      BY <3>1, <3>2 DEF Rising
  <2>12. Rising(m, right)
    <3>1. right \in [1 .. m -> Points]
      BY <1>9, <2>5 DEF right
    <3>2. \A i, j \in 1 .. m : i < j => right[i].ratio < right[j].ratio
      BY <1>7, <2>5, <2>6 DEF Rising
    <3> QED
      BY <3>1, <3>2 DEF Rising
  <2>13. PointsAt(k, left, S(x), results)
    <3>1. ASSUME NEW i \in 1 .. k PROVE \E s \in S(x) : left[i] = results[s]
      <4>1. PICK s \in 1 .. n : results[s] = pts[i]
        BY <2>4, <2>9
      <4>2. pts[i].ratio <= x
        BY <2>4, <2>10
      <4> QED
        BY <1>1, <2>4, <4>1, <4>2 DEF S
    <3>2. ASSUME NEW s \in S(x) PROVE \E i \in 1 .. k : left[i] = results[s]
      <4>1. s \in 1 .. n /\ results[s].ratio <= x
        BY <1>1 DEF S
      <4>2. PICK j \in 1 .. n : results[s] = pts[j]
        BY <2>8, <4>1
      <4>3. j \in 1 .. k
        BY <2>10, <4>1, <4>2
      <4> QED
        BY <2>4, <4>2, <4>3
    <3> QED
      BY <3>1, <3>2 DEF PointsAt
  <2>14. PointsAt(m, right, L(x), results)
    <3>1. ASSUME NEW i \in 1 .. m PROVE \E s \in L(x) : right[i] = results[s]
      <4>1. PICK s \in 1 .. n : results[s] = pts[k + i - 1]
        BY <2>5, <2>9
      <4>2. pts[k + i - 1].ratio >= x
        BY <2>5, <2>10
      <4> QED
        BY <1>1, <2>5, <4>1, <4>2 DEF L
    <3>2. ASSUME NEW s \in L(x) PROVE \E i \in 1 .. m : right[i] = results[s]
      <4>1. s \in 1 .. n /\ results[s].ratio >= x
        BY <1>1 DEF L
      <4>2. PICK j \in 1 .. n : results[s] = pts[j]
        BY <2>8, <4>1
      <4>3. j >= k
        BY <2>10, <4>1, <4>2
      <4> QED
        BY <2>5, <2>7, <4>2, <4>3
    <3> QED
      BY <3>1, <3>2 DEF PointsAt
  <2>15. CompressionTradeoff(At(results, S(x))) = AreaUnder(left, k)
    BY <1>6, <2>2, <2>3, <2>11, <2>13, AreaPart
  <2>16. CompressionTradeoff(At(results, L(x))) = AreaUnder(right, m)
    BY <1>6, <2>2, <2>3, <2>12, <2>14, AreaPart
  <2>17. AreaUnder(pts, n) = AreaUnder(left, k) + AreaUnder(right, m)
    BY <1>7, <2>2, AreaSplits DEF left, right, m
  <2> QED
    BY <1>8, <2>15, <2>16, <2>17
<1> QED
  BY <1>15, <1>16, <1>17

-----------------------------------------------------------------------------
(* Texts and budgets: the tokens of pieces.                                 *)

\* What is kept of a text.
Pieces == [at : Int, size : Nat]
AllPieces(s, S) == \A i \in S : s[i] \in Pieces

\* The tokens of some pieces.
LEMMA TotalOf ==
    ASSUME NEW k \in Nat, NEW s \in [1 .. k -> Pieces]
    PROVE  /\ \A j \in 1 .. k : s[j].size \in Nat
           /\ Total(s) = SumFunctionOnSet([j \in 1 .. k |-> s[j].size], 1 .. k)
           /\ Total(s) \in Nat
           /\ k = 0 => Total(s) = 0
<1> DEFINE f == [j \in 1 .. k |-> s[j].size]
           N == 1 .. k
<1>1. \A j \in 1 .. k : s[j].size \in Nat
  BY DEF Pieces
<1>2. Total(s) = SumFunctionOnSet(f, N)
  BY DEF Total, SumFunction
<1>3. (\A j \in N : f[j] \in Nat) /\ IsFiniteSet(N) /\ (k = 0 => N = {})
  BY <1>1, FirstPlaces
<1>4. IsFiniteSet({}) /\ \A j \in {} : f[j] \in Int
  BY FS_EmptySet
<1> HIDE DEF f, N
<1>5. SumFunctionOnSet(f, N) \in Nat /\ SumFunctionOnSet(f, {}) = 0
  BY <1>3, <1>4, SumNat, SumInt
<1> QED
  BY <1>1, <1>2, <1>3, <1>5 DEF f, N

\* The tokens at some places.
SizeAt(s, S) == SumFunctionOnSet([i \in S |-> s[i].size], S)

\* Each of them is in a list.
Reaches(q, s, S) == \A i \in S : \E j \in DOMAIN q : q[j] = s[i]

\* The pieces of some places have the tokens of these.
LEMMA AtTotal ==
    ASSUME NEW n \in Nat, NEW S \in SUBSET (1 .. n), NEW s, AllPieces(s, S)
    PROVE  /\ Cardinality(S) \in Nat
           /\ At(s, S) \in [1 .. Cardinality(S) -> Pieces]
           /\ Total(At(s, S)) = SizeAt(s, S)
           /\ Reaches(At(s, S), s, S)
<1> DEFINE k == Cardinality(S)
           a == Ascending(S)
           q == At(s, S)
           K == 1 .. k
           f == [i \in S |-> s[i].size]
           g == [j \in 1 .. k |-> q[j].size]
<1>1. /\ k \in Nat /\ IsFiniteSet(S) /\ a \in [K -> S] /\ (\A i, j \in K : a[i] = a[j] => i = j)
      /\ \A x \in S : \E j \in K : a[j] = x
  BY AscendingOnce
<1>2. q = [j \in DOMAIN a |-> s[a[j]]]
  BY DEF At
<1>3. \A i \in S : s[i].size \in Nat /\ f[i] = s[i].size
  BY DEF Pieces, AllPieces
<1>4. IsFiniteSet(K)
  BY <1>1, FirstPlaces
<1> HIDE DEF a, q, k, f
<1>5. DOMAIN a = 1 .. k
  BY <1>1
<1> HIDE DEF K
<1>6. \A j \in K : a[j] \in S
  BY <1>1
<1>7. q = [j \in 1 .. k |-> s[a[j]]]
  BY <1>2, <1>5
<1>8. q \in [1 .. k -> Pieces] /\ \A j \in K : q[j] = s[a[j]]
  BY <1>6, <1>7 DEF K, AllPieces
<1>9. Total(q) = SumFunctionOnSet(g, K)
  BY <1>1, <1>8, TotalOf DEF K
<1>10. \A j \in K : g[j] = f[a[j]]
  BY <1>3, <1>6, <1>8 DEF K
<1> HIDE DEF g
<1>11. \A i \in S : f[i] \in Int
  <2>1. \A i \in S : f[i] \in Nat
    BY <1>3
  <2> QED
    BY <2>1
<1>12. SumFunctionOnSet(g, K) = SumFunctionOnSet(f, S)
  <2>1. OneToOne(a, K, S)
    BY <1>1 DEF OneToOne
  <2>2. Summable(f, S) /\ Relabels(g, f, a, K)
    BY <1>10, <1>11 DEF Summable, Relabels
  <2> QED
    BY <1>4, <2>1, <2>2, SumRelabelled
<1>13. ASSUME NEW i \in S PROVE \E j \in DOMAIN q : q[j] = s[i]
  <2>1. PICK j \in K : a[j] = i
    BY <1>1
  <2> QED
    BY <1>7, <1>8, <2>1 DEF K
<1> QED
  BY <1>1, <1>8, <1>9, <1>12, <1>13 DEF k, q, f, SizeAt, Reaches

\* One list of pieces after another.
LEMMA TotalCat ==
    ASSUME NEW k \in Nat, NEW s \in [1 .. k -> Pieces], NEW m \in Nat, NEW t \in [1 .. m -> Pieces]
    PROVE  /\ s \o t \in [1 .. k + m -> Pieces]
           /\ Total(s \o t) = Total(s) + Total(t)
           /\ \A j \in 1 .. m : (s \o t)[k + j] = t[j]
<1> DEFINE u == s \o t
           A == 1 .. k
           B == k + 1 .. k + m
           M == 1 .. m
           f == [j \in 1 .. k + m |-> u[j].size]
           e == [j \in 1 .. m |-> k + j]
           sf == [j \in 1 .. k |-> s[j].size]
           tf == [j \in 1 .. m |-> t[j].size]
<1>1. /\ u \in [1 .. k + m -> Pieces] /\ \A j \in 1 .. k : u[j] = s[j]
      /\ \A j \in 1 .. m : u[k + j] = t[j]
  <2>1. s \in Seq(Pieces) /\ t \in Seq(Pieces) /\ Len(s) = k /\ Len(t) = m
    OBVIOUS
  <2>2. /\ u \in Seq(Pieces) /\ Len(u) = k + m
        /\ \A j \in 1 .. k + m : u[j] = IF j <= k THEN s[j] ELSE t[j - k]
    BY <2>1, ConcatProperties
  <2> HIDE DEF u
  <2>3. u \in [1 .. k + m -> Pieces]
    BY <2>2
  <2>4. ASSUME NEW j \in 1 .. k PROVE u[j] = s[j]
    BY <2>2
  <2>5. ASSUME NEW j \in 1 .. m PROVE u[k + j] = t[j]
    <3>1. k + j \in 1 .. k + m /\ ~(k + j <= k) /\ (k + j) - k = j
      OBVIOUS
    <3> QED
      BY <2>2, <3>1
  <2> QED
    BY <2>3, <2>4, <2>5
<1>2. A \cup B = 1 .. k + m /\ A \cap B = {}
  OBVIOUS
<1>3. IsFiniteSet(A) /\ IsFiniteSet(B) /\ IsFiniteSet(M)
  BY FS_Interval
<1> HIDE DEF u
<1>4. k + m \in Nat
  OBVIOUS
<1>5. /\ Total(u) = SumFunctionOnSet(f, A \cup B) /\ \A j \in A \cup B : u[j].size \in Nat
  BY <1>1, <1>2, <1>4, TotalOf
<1>6. Total(s) = SumFunctionOnSet(sf, A) /\ \A j \in A : s[j].size \in Nat
  BY TotalOf
<1>7. Total(t) = SumFunctionOnSet(tf, M) /\ \A j \in M : t[j].size \in Nat
  BY TotalOf
<1>8. \A j \in A : f[j] = sf[j] /\ f[j] \in Int
  BY <1>1, <1>2, <1>5
<1>9. /\ e \in [M -> B] /\ (\A x, y \in M : e[x] = e[y] => x = y)
      /\ \A v \in B : \E x \in M : e[x] = v
  <2>1. \A v \in B : v - k \in 1 .. m /\ e[v - k] = v
    OBVIOUS
  <2> QED
    BY <2>1
<1>10. \A j \in M : tf[j] = f[e[j]]
  BY <1>1
<1>11. \A j \in A \cup B : f[j] \in Int
  BY <1>2, <1>5
<1> HIDE DEF f, e, sf, tf, A, B, M
<1>12. SumFunctionOnSet(f, A) = SumFunctionOnSet(sf, A)
  BY <1>3, <1>8, SumSame
<1>13. SumFunctionOnSet(tf, M) = SumFunctionOnSet(f, B)
  BY <1>3, <1>9, <1>10, <1>11, SumMoved
<1>14. SumFunctionOnSet(f, A \cup B) = SumFunctionOnSet(f, A) + SumFunctionOnSet(f, B)
  BY <1>2, <1>3, <1>11, SumUnion
<1> QED
  BY <1>1, <1>5, <1>6, <1>7, <1>12, <1>13, <1>14 DEF u

\* Backwards, pieces have the same tokens.
LEMMA TotalReversed ==
    ASSUME NEW k \in Nat, NEW s \in [1 .. k -> Pieces]
    PROVE  Reverse(s) \in [1 .. k -> Pieces] /\ Total(Reverse(s)) = Total(s)
<1> DEFINE q == Reverse(s)
           K == 1 .. k
           f == [j \in 1 .. k |-> s[j].size]
           g == [j \in 1 .. k |-> q[j].size]
           e == [j \in 1 .. k |-> k - j + 1]
<1>1. q = [j \in 1 .. k |-> s[k - j + 1]]
  <2>1. Len(s) = k
    OBVIOUS
  <2> QED
    BY <2>1 DEF Reverse
<1>2. \A j \in 1 .. k : k - j + 1 \in 1 .. k /\ k - (k - j + 1) + 1 = j
  OBVIOUS
<1> HIDE DEF q
<1>3. q \in [1 .. k -> Pieces]
  BY <1>1, <1>2
<1>4. Total(s) = SumFunctionOnSet(f, K) /\ \A j \in K : f[j] \in Int
  BY TotalOf
<1>5. Total(q) = SumFunctionOnSet(g, K)
  BY <1>3, TotalOf
<1>6. e \in [K -> K] /\ \A j \in K : e[e[j]] = j
  BY <1>2
<1>7. \A j \in K : g[j] = f[e[j]]
  BY <1>1, <1>2
<1>8. IsFiniteSet(K)
  BY FirstPlaces
<1> HIDE DEF f, g, e, K
<1>9. /\ \A x, y \in K : e[x] = e[y] => x = y
      /\ \A v \in K : \E x \in K : e[x] = v
  <2>1. \A x \in K : e[x] \in K
    BY <1>6
  <2> QED
    BY <1>6, <2>1
<1>10. SumFunctionOnSet(g, K) = SumFunctionOnSet(f, K)
  BY <1>4, <1>6, <1>7, <1>8, <1>9, SumMoved
<1> QED
  BY <1>3, <1>4, <1>5, <1>10 DEF q

\* What is kept of a total in some room.
Limited(total, room) == IF room < 0 THEN 0 ELSE IF room < total THEN room ELSE total

\* The first of some pieces.
LEMMA FirstPieces ==
    ASSUME NEW k \in Nat, NEW s \in [1 .. k -> Pieces], NEW m \in 0 .. k
    PROVE  /\ SubSeq(s, 1, m) \in [1 .. m -> Pieces]
           /\ Total(SubSeq(s, 1, m)) = SumFunctionOnSet([j \in 1 .. k |-> s[j].size], 1 .. m)
<1> DEFINE q == SubSeq(s, 1, m)
           f == [j \in 1 .. k |-> s[j].size]
           g == [j \in 1 .. m |-> q[j].size]
           M == 1 .. m
<1>1. q \in Seq(Pieces) /\ Len(q) = m /\ \A j \in 1 .. m : q[j] = s[j]
  <2>1. \A j \in 1 .. m : s[j] \in Pieces
    OBVIOUS
  <2> QED
    BY <2>1, SubSeqProperties
<1> HIDE DEF q
<1>2. q \in [1 .. m -> Pieces] /\ m \in Nat
  BY <1>1
<1>3. Total(q) = SumFunctionOnSet(g, M) /\ \A j \in M : q[j].size \in Nat
  BY <1>2, TotalOf
<1>4. \A j \in M : g[j] \in Int /\ g[j] = f[j]
  BY <1>1, <1>3
<1>5. IsFiniteSet(M)
  BY <1>2, FirstPlaces
<1> HIDE DEF f, g, M
<1>6. SumFunctionOnSet(g, M) = SumFunctionOnSet(f, M)
  BY <1>4, <1>5, SumSame
<1> QED
  BY <1>2, <1>3, <1>6 DEF q, f, M

\* The first tokens fill the room, or are all.
LEMMA FirstTokensOf ==
    ASSUME NEW k \in Nat, NEW s \in [1 .. k -> Pieces], NEW room \in Int
    PROVE  \E m \in Nat : /\ FirstTokens(s, room) \in [1 .. m -> Pieces]
                          /\ Total(FirstTokens(s, room)) = Limited(Total(s), room)
<1> DEFINE f == [j \in 1 .. k |-> s[j].size]
           P(m) == SumFunctionOnSet(f, 1 .. m)
           Left(j) == room - Total(SubSeq(s, 1, j - 1))
           cut == [j \in DOMAIN s |-> Piece(s[j].at, Min({s[j].size, Left(j)}))]
           S == {j \in DOMAIN cut : cut[j].size > 0}
           q == At(cut, S)
           h == [i \in S |-> cut[i].size]
           c == [j \in 1 .. k |-> IF cut[j].size > 0 THEN cut[j].size ELSE 0]
           N == 1 .. k
           T == {m \in 0 .. k : P(m) \in Nat /\ SumFunctionOnSet(c, 1 .. m) = Limited(P(m), room)}
<1>1. FirstTokens(s, room) = q
  BY DEF FirstTokens
<1>2. \A j \in N : s[j] \in Pieces /\ s[j].size \in Nat /\ s[j].at \in Int /\ f[j] \in Nat
  BY DEF Pieces
<1>3. Total(s) = P(k)
  BY TotalOf
<1>4. ASSUME NEW j \in N
      PROVE  /\ j \in DOMAIN cut /\ cut[j].at = s[j].at
             /\ cut[j].size = IF s[j].size <= room - P(j - 1) THEN s[j].size ELSE room - P(j - 1)
             /\ P(j - 1) \in Nat /\ cut[j].size \in Int
  <2>1. j \in DOMAIN s /\ j - 1 \in 0 .. k
    OBVIOUS
  <2>2. Left(j) = room - P(j - 1)
    BY <2>1, FirstPieces
  <2>3. P(j - 1) \in Nat
    <3>1. SubSeq(s, 1, j - 1) \in [1 .. j - 1 -> Pieces] /\ Total(SubSeq(s, 1, j - 1)) = P(j - 1)
      BY <2>1, FirstPieces
    <3>2. j - 1 \in Nat
      OBVIOUS
    <3> HIDE DEF P
    <3> QED
      BY <3>1, <3>2, TotalOf
  <2> DEFINE a == s[j].size
             b == room - P(j - 1)
  <2>4. cut[j] = Piece(s[j].at, Min({a, b}))
    BY <2>1, <2>2
  <2>5. a \in Int /\ b \in Int
    BY <1>2, <2>3
  <2> HIDE DEF a, b, cut, P
  <2>6. Min({a, b}) = IF a <= b THEN a ELSE b
    BY <2>5, MinMaxOfTwo
  <2>7. cut[j].at = s[j].at /\ cut[j].size = IF a <= b THEN a ELSE b
    BY <2>4, <2>6 DEF Piece
  <2>8. j \in DOMAIN cut
    BY <2>1 DEF cut
  <2>9. cut[j].size \in Int
    BY <2>5, <2>7
  <2> QED
    BY <2>3, <2>7, <2>8, <2>9 DEF a, b
<1>5. DOMAIN cut = N
  OBVIOUS
<1> HIDE DEF cut, P
<1>6. \A j \in N : cut[j].size \in Int
  BY <1>4
<1>7. S \in SUBSET N /\ S = {j \in N : cut[j].size > 0}
  BY <1>5
<1>8. AllPieces(cut, S)
  <2> SUFFICES ASSUME NEW j \in S PROVE cut[j] \in Pieces
    BY DEF AllPieces
  <2>1. j \in N /\ cut[j].size > 0
    BY <1>7
  <2>2. cut[j] = Piece(s[j].at, Min({s[j].size, Left(j)}))
    BY <2>1 DEF cut
  <2>3. cut[j].at \in Int
    BY <1>2, <1>4, <2>1
  <2>4. cut[j].size \in Nat
    BY <1>6, <2>1
  <2> QED
    BY <2>2, <2>3, <2>4 DEF Piece, Pieces
<1>9. \A j \in N : /\ c[j] \in Int
                   /\ c[j] = IF cut[j].size > 0 THEN cut[j].size ELSE 0
  BY <1>6
<1>10. 0 \in T
  <2>1. P(0) = 0 /\ SumFunctionOnSet(c, 1 .. 0) = 0
    <3>1. 1 .. 0 = {} /\ IsFiniteSet({}) /\ (\A y \in {} : f[y] \in Int) /\ \A y \in {} : c[y] \in Int
      BY FS_EmptySet
    <3> HIDE DEF f, c
    <3> QED
      BY <3>1, SumInt DEF P
  <2> HIDE DEF c
  <2> QED
    BY <2>1 DEF Limited
<1>11. ASSUME NEW m \in 0 .. k - 1, m \in T PROVE m + 1 \in T
  <2>1. m + 1 \in N /\ m \in Nat /\ (m + 1) - 1 = m /\ m + 1 \in 0 .. k
    OBVIOUS
  <2>2. (\A i \in 1 .. m + 1 : f[i] \in Int) /\ \A i \in 1 .. m + 1 : c[i] \in Int
    <3>1. \A i \in 1 .. m + 1 : i \in N
      OBVIOUS
    <3> QED
      BY <1>2, <1>9, <3>1
  <2>3. /\ P(m + 1) = f[m + 1] + P(m)
        /\ SumFunctionOnSet(c, 1 .. m + 1) = c[m + 1] + SumFunctionOnSet(c, 1 .. m)
    <3> HIDE DEF f, c
    <3> QED
      BY <2>1, <2>2, SumUpto DEF P
  <2> DEFINE x == s[m + 1].size
             y == P(m)
  <2>4. x \in Nat /\ y \in Nat /\ f[m + 1] = x
    BY <1>2, <1>11, <2>1
  <2>5. c[m + 1] = IF x <= room - y THEN x ELSE IF room - y > 0 THEN room - y ELSE 0
    <3>1. cut[m + 1].size = IF x <= room - y THEN x ELSE room - y
      BY <1>4, <2>1
    <3>2. c[m + 1] = IF cut[m + 1].size > 0 THEN cut[m + 1].size ELSE 0
      BY <1>9, <2>1
    <3> HIDE DEF x, y, c
    <3> QED
      BY <2>4, <3>1, <3>2
  <2>6. SumFunctionOnSet(c, 1 .. m) = Limited(y, room)
    BY <1>11
  <2>7. P(m + 1) = x + y /\ SumFunctionOnSet(c, 1 .. m + 1) = c[m + 1] + Limited(y, room)
    BY <2>3, <2>4, <2>6
  <2> HIDE DEF x, y, c, f
  <2>8. c[m + 1] + Limited(y, room) = Limited(x + y, room) /\ x + y \in Nat
    BY <2>4, <2>5 DEF Limited
  <2> QED
    BY <2>1, <2>7, <2>8
<1>12. k \in T
  <2>1. k \in 0 .. k
    OBVIOUS
  <2> HIDE DEF T
  <2> QED
    BY <1>10, <1>11, <2>1, BoundedInduction
<1>13. IsFiniteSet(N)
  BY FirstPlaces
<1> HIDE DEF f, c, h, T
<1>14. SumFunctionOnSet(c, N) = SumFunctionOnSet(h, S)
  <2> DEFINE R == N \ S
  <2>1. S \cup R = N /\ S \cap R = {} /\ S \subseteq N /\ R \subseteq N
    BY <1>7
  <2>2. IsFiniteSet(S) /\ IsFiniteSet(R)
    BY <1>13, <2>1, FS_Subset
  <2>3. \A j \in S : h[j] \in Int /\ h[j] = c[j]
    BY <1>6, <1>7, <1>9 DEF h
  <2>4. \A j \in R : c[j] = 0
    BY <1>6, <1>7, <1>9
  <2>5. \A j \in S \cup R : c[j] \in Int
    BY <1>9, <2>1
  <2> HIDE DEF N, S, R
  <2>6. SumFunctionOnSet(h, S) = SumFunctionOnSet(c, S)
    BY <2>2, <2>3, SumSame
  <2>7. SumFunctionOnSet(c, R) = 0
    <3>1. SumFunctionOnSet(c, R) = 0 * Cardinality(R) /\ Cardinality(R) \in Nat
      <4>1. 0 \in Int
        OBVIOUS
      <4> QED
        BY <2>2, <2>4, <4>1, SumConstant, FS_CardinalityType
    <3> QED
      BY <3>1
  <2>8. /\ SumFunctionOnSet(c, S) \in Int
        /\ SumFunctionOnSet(c, S \cup R) = SumFunctionOnSet(c, S) + SumFunctionOnSet(c, R)
    BY <2>1, <2>2, <2>5, SumUnion
  <2>9. SumFunctionOnSet(c, N) = SumFunctionOnSet(c, S)
    <3> DEFINE U == S \cup R
    <3>1. U = N
      BY <2>1
    <3>2. SumFunctionOnSet(c, U) = SumFunctionOnSet(c, S)
      BY <2>7, <2>8
    <3> HIDE DEF U
    <3> QED
      BY <3>1, <3>2
  <2> QED
    BY <2>6, <2>9
<1>15. /\ Cardinality(S) \in Nat /\ q \in [1 .. Cardinality(S) -> Pieces]
       /\ Total(q) = SumFunctionOnSet(h, S)
  BY <1>7, <1>8, AtTotal DEF h, SizeAt
<1>16. Total(q) = Limited(Total(s), room)
  BY <1>3, <1>12, <1>14, <1>15 DEF T
<1> QED
  BY <1>1, <1>15, <1>16

-----------------------------------------------------------------------------
(* What fits beside what was taken.                                         *)

\* Sentences of a text have so many tokens.
Sizes(n, O, sizes) == O \subseteq 1 .. n /\ sizes \in [O -> Nat]

\* The tokens of what is kept.
Cost(sizes, kept) == SumFunctionOnSet(sizes, kept)

\* Lists of pieces, and those that show some sentences.
PieceLists == UNION {[1 .. m -> Pieces] : m \in Nat}
Shows(q, kept) == \A i \in kept : \E j \in DOMAIN q : q[j].at = i

\* What is placed has the tokens of what is kept.
LEMMA PlacedOf ==
    ASSUME NEW n \in Nat, NEW O, NEW sizes, Sizes(n, O, sizes), NEW kept \in SUBSET O
    PROVE  /\ Placed(sizes, kept) \in PieceLists
           /\ Total(Placed(sizes, kept)) = Cost(sizes, kept)
           /\ Shows(Placed(sizes, kept), kept)
<1>0. O \subseteq 1 .. n /\ sizes \in [O -> Nat]
  BY DEF Sizes
<1> DEFINE s == [i \in DOMAIN sizes |-> Piece(i, sizes[i])]
           h == [i \in kept |-> s[i].size]
<1>1. \A i \in kept : i \in O /\ i \in Int /\ sizes[i] \in Nat
  <2>1. \A i \in kept : i \in O
    OBVIOUS
  <2>2. \A i \in O : i \in Int /\ sizes[i] \in Nat
    BY <1>0
  <2> QED
    BY <2>1, <2>2
<1>2. Placed(sizes, kept) = At(s, kept)
  BY DEF Placed
<1>3. \A i \in kept : s[i] = [at |-> i, size |-> sizes[i]]
  BY <1>0, <1>1 DEF Piece
<1> HIDE DEF s
<1>4. \A i \in kept : s[i] \in Pieces /\ s[i].at = i /\ s[i].size = sizes[i]
  <2> SUFFICES ASSUME NEW i \in kept
               PROVE  s[i] \in Pieces /\ s[i].at = i /\ s[i].size = sizes[i]
    OBVIOUS
  <2>1. i \in Int /\ sizes[i] \in Nat /\ s[i] = [at |-> i, size |-> sizes[i]]
    BY <1>1, <1>3
  <2>2. [at |-> i, size |-> sizes[i]] \in Pieces
    BY <2>1 DEF Pieces
  <2> QED
    BY <2>1, <2>2
<1>5. /\ Cardinality(kept) \in Nat
      /\ At(s, kept) \in [1 .. Cardinality(kept) -> Pieces]
      /\ Total(At(s, kept)) = SizeAt(s, kept)
      /\ Reaches(At(s, kept), s, kept)
  <2>1. kept \in SUBSET (1 .. n)
    BY <1>0
  <2>2. AllPieces(s, kept)
    BY <1>4 DEF AllPieces
  <2> QED
    BY <2>1, <2>2, AtTotal
<1>6. \A i \in kept : h[i] \in Int /\ h[i] = sizes[i]
  BY <1>1, <1>4
<1>7. IsFiniteSet(kept)
  <2>1. kept \in SUBSET (1 .. n)
    BY <1>0
  <2> QED
    BY <2>1, AscendingOnce
<1> HIDE DEF h
<1>8. SumFunctionOnSet(h, kept) = SumFunctionOnSet(sizes, kept)
  BY <1>6, <1>7, SumSame
<1>9. ASSUME NEW i \in kept PROVE \E j \in DOMAIN At(s, kept) : At(s, kept)[j].at = i
  <2>1. PICK j \in DOMAIN At(s, kept) : At(s, kept)[j] = s[i]
    BY <1>5 DEF Reaches
  <2>2. s[i].at = i
    BY <1>4
  <2> QED
    BY <2>1, <2>2
<1>10. At(s, kept) \in PieceLists
  BY <1>5 DEF PieceLists
<1> QED
  BY <1>2, <1>5, <1>8, <1>9, <1>10 DEF h, SizeAt, Shows, Cost

\* Tokens used from each place on, when what does not fit is left out.
Fitting(O, sizes, room, i, used) == i \in O /\ sizes[i] > 0 /\ used + sizes[i] <= room
Taken(O, sizes, room, i, used) == IF Fitting(O, sizes, room, i, used) THEN sizes[i] ELSE 0
Uses(O, sizes, room, last, u) ==
    /\ u \in [1 .. last + 1 -> Nat] /\ u[last + 1] = 0
    /\ \A i \in 1 .. last : u[i] = u[i + 1] + Taken(O, sizes, room, i, u[i + 1])

\* Skipping keeps what fits beside what it has taken before.
LEMMA SkippingOf ==
    ASSUME NEW n \in Nat, NEW O \in SUBSET (1 .. n), NEW sizes \in [O -> Nat]
    PROVE  \E last \in Nat :
              /\ O \subseteq 1 .. last
              /\ \A room \in Int : \E u \in [1 .. last + 1 -> Nat] :
                    /\ Uses(O, sizes, room, last, u)
                    /\ Skipping(sizes, room) = {i \in O : Fitting(O, sizes, room, i, u[i + 1])}
<1> DEFINE last == Max(O \cup {0})
<1>1. last \in Nat /\ O \subseteq 1 .. last
  <2> DEFINE W == O \cup {0}
  <2>1. W \subseteq Nat /\ W # {} /\ W \subseteq Int
    OBVIOUS
  <2>2. IsFiniteSet(W)
    BY AscendingOnce, FS_AddElement
  <2> HIDE DEF W
  <2>3. Max(W) \in W /\ \A y \in W : y <= Max(W)
    BY <2>1, <2>2, Extremes
  <2>4. Max(W) \in Nat /\ \A y \in W : y <= Max(W)
    BY <2>1, <2>3
  <2>5. \A y \in O : y \in W /\ y \in Nat /\ y >= 1
    BY DEF W
  <2> QED
    BY <2>4, <2>5 DEF W
<1> SUFFICES ASSUME NEW room \in Int
             PROVE  \E u \in [1 .. last + 1 -> Nat] :
                       /\ Uses(O, sizes, room, last, u)
                       /\ Skipping(sizes, room) = {i \in O : Fitting(O, sizes, room, i, u[i + 1])}
  <2> HIDE DEF last
  <2> QED
    BY <1>1
<1> DEFINE Fits(i, used) == i \in DOMAIN sizes /\ sizes[i] > 0 /\ used + sizes[i] <= room
           body(g) == [i \in 1 .. last + 1 |->
                         IF i > last THEN 0
                         ELSE g[i + 1] + (IF Fits(i, g[i + 1]) THEN sizes[i] ELSE 0)]
           step == [i \in 1 .. last |-> [v \in Nat |-> v + Taken(O, sizes, room, i, v)]]
           f == CHOOSE g : g = body(g)
<1>2. Skipping(sizes, room) = {i \in DOMAIN sizes : Fits(i, f[i + 1])}
  BY DEF Skipping
<1> HIDE DEF last
<1>3. \A i, v : Fits(i, v) <=> Fitting(O, sizes, room, i, v)
  BY DEF Fitting
<1>4. \A i \in 1 .. last : \A v \in Nat : v + Taken(O, sizes, room, i, v) \in Nat
  <2> SUFFICES ASSUME NEW i \in 1 .. last, NEW v \in Nat PROVE v + Taken(O, sizes, room, i, v) \in Nat
    OBVIOUS
  <2> QED
    BY DEF Taken, Fitting
<1>5. step \in [1 .. last -> [Nat -> Nat]]
  BY <1>4
<1> HIDE DEF Fits
<1>6. \E g : g = body(g)
  <2>1. PICK g : g \in RecursiveBack(last, Nat, 0, step)
    <3>1. 0 \in Nat
      OBVIOUS
    <3> HIDE DEF step
    <3>2. RecursiveBack(last, Nat, 0, step) # {}
      BY <1>1, <1>5, <3>1, BackwardRecursionExists
    <3> QED
      BY <3>2
  <2>2. /\ g \in [1 .. last + 1 -> Nat] /\ g[last + 1] = 0
        /\ \A i \in 1 .. last : g[i] = step[i][g[i + 1]]
    BY <2>1 DEF RecursiveBack
  <2>3. ASSUME NEW i \in 1 .. last + 1
        PROVE  g[i] = IF i > last THEN 0
                      ELSE g[i + 1] + (IF Fits(i, g[i + 1]) THEN sizes[i] ELSE 0)
    <3>1. CASE i = last + 1
      BY <1>1, <2>2, <3>1
    <3>2. CASE i \in 1 .. last
      <4>1. i + 1 \in 1 .. last + 1 /\ ~(i > last)
        BY <1>1, <3>2
      <4>2. g[i + 1] \in Nat
        BY <2>2, <4>1
      <4>3. g[i] = g[i + 1] + Taken(O, sizes, room, i, g[i + 1])
        BY <2>2, <3>2, <4>2
      <4> QED
        BY <1>3, <4>1, <4>3 DEF Taken
    <3> QED
      BY <1>1, <3>1, <3>2
  <2>4. g = body(g)
    BY <2>2, <2>3
  <2> QED
    BY <2>4
<1>7. f = body(f)
  <2> HIDE DEF body
  <2> QED
    BY <1>6
<1> HIDE DEF f
<1>8. DOMAIN f = 1 .. last + 1 /\ f[last + 1] = 0
  <2>1. last + 1 \in 1 .. last + 1 /\ last + 1 > last
    BY <1>1
  <2> QED
    BY <1>7, <2>1
<1>9. ASSUME NEW i \in 1 .. last PROVE f[i] = f[i + 1] + Taken(O, sizes, room, i, f[i + 1])
  <2>1. i \in 1 .. last + 1 /\ ~(i > last)
    BY <1>1
  <2>2. f[i] = f[i + 1] + (IF Fits(i, f[i + 1]) THEN sizes[i] ELSE 0)
    BY <1>7, <2>1
  <2> QED
    BY <1>3, <2>2 DEF Taken
<1> HIDE DEF body
<1>10. \A i \in 1 .. last + 1 : f[i] \in Nat
  <2> DEFINE T == {i \in 1 .. last + 1 : f[i] \in Nat}
  <2>1. last + 1 \in T
    BY <1>1, <1>8
  <2>2. ASSUME NEW i \in 1 .. last, i + 1 \in T PROVE i \in T
    BY <1>1, <1>4, <1>9, <2>2
  <2> HIDE DEF T
  <2>3. \A i \in 1 .. last + 1 : i \in T
    BY <1>1, <2>1, <2>2, BackwardInduction
  <2> QED
    BY <2>3 DEF T
<1>11. f \in [1 .. last + 1 -> Nat]
  <2>1. f = [i \in 1 .. last + 1 |-> f[i]]
    BY <1>7, <1>8 DEF body
  <2> QED
    BY <1>10, <2>1
<1>12. Uses(O, sizes, room, last, f)
  BY <1>8, <1>9, <1>11 DEF Uses
<1>13. Skipping(sizes, room) = {i \in O : Fitting(O, sizes, room, i, f[i + 1])}
  BY <1>2, <1>3
<1> QED
  BY <1>11, <1>12, <1>13

\* Those that fit, when u has been used after each place.
Fit(O, sizes, room, u) == {i \in O : Fitting(O, sizes, room, i, u[i + 1])}

\* They take what is used in all, and no more than the room.
LEMMA FitTakes ==
    ASSUME NEW last \in Nat, NEW O, NEW sizes, Sizes(last, O, sizes), NEW room \in Int,
           NEW u, Uses(O, sizes, room, last, u)
    PROVE  /\ u[1] \in Nat /\ (u[1] <= room \/ u[1] = 0)
           /\ Cost(sizes, Fit(O, sizes, room, u)) = u[1]
<1> DEFINE K == Fit(O, sizes, room, u)
           From(i) == {j \in K : j >= i}
           T == {i \in 1 .. last + 1 : /\ u[i] <= room \/ u[i] = 0
                                       /\ SumFunctionOnSet(sizes, From(i)) = u[i]}
<1>0. O \subseteq 1 .. last /\ sizes \in [O -> Nat]
  BY DEF Sizes
<1>1. /\ \A i \in 1 .. last + 1 : u[i] \in Nat
      /\ u[last + 1] = 0
      /\ \A i \in 1 .. last : u[i] = u[i + 1] + Taken(O, sizes, room, i, u[i + 1])
  BY DEF Uses
<1>2. K \subseteq O /\ \A i \in O : i \in K <=> Fitting(O, sizes, room, i, u[i + 1])
  BY DEF Fit
<1>3. IsFiniteSet(K)
  <2>1. O \in SUBSET (1 .. last)
    BY <1>0
  <2> QED
    BY <1>2, <2>1, AscendingOnce, FS_Subset
<1> HIDE DEF K
<1>4. \A j \in K : j \in 1 .. last /\ j \in O /\ sizes[j] \in Nat
  BY <1>0, <1>2
<1>5. \A i : IsFiniteSet(From(i))
  BY <1>3, FS_Subset
<1>6. last + 1 \in T
  <2>1. From(last + 1) = {}
    BY <1>4
  <2>2. SumFunctionOnSet(sizes, {}) = 0
    <3>1. IsFiniteSet({}) /\ \A y \in {} : sizes[y] \in Int
      BY FS_EmptySet
    <3> QED
      BY <3>1, SumInt
  <2>3. last + 1 \in 1 .. last + 1
    OBVIOUS
  <2> HIDE DEF From
  <2> QED
    BY <1>1, <2>1, <2>2, <2>3
<1>7. ASSUME NEW i \in 1 .. last, i + 1 \in T PROVE i \in T
  <2>1. i \in 1 .. last + 1 /\ i + 1 \in 1 .. last + 1
    OBVIOUS
  <2>2. /\ u[i + 1] \in Nat /\ (u[i + 1] <= room \/ u[i + 1] = 0)
        /\ SumFunctionOnSet(sizes, From(i + 1)) = u[i + 1]
        /\ u[i] = u[i + 1] + Taken(O, sizes, room, i, u[i + 1])
    BY <1>1, <1>7, <2>1
  <2>3. CASE i \in K
    <3>1. i \in O /\ Fitting(O, sizes, room, i, u[i + 1]) /\ sizes[i] \in Nat
      BY <1>2, <1>4, <2>3
    <3>2. u[i] = u[i + 1] + sizes[i] /\ u[i] <= room
      BY <2>2, <3>1 DEF Taken, Fitting
    <3>3. From(i) = From(i + 1) \cup {i} /\ i \notin From(i + 1)
      <4>1. \A j \in K : j >= i <=> j >= i + 1 \/ j = i
        BY <1>4
      <4>2. i >= i /\ ~(i >= i + 1)
        OBVIOUS
      <4> QED
        BY <2>3, <4>1, <4>2
    <3>4. \A y \in From(i + 1) \cup {i} : sizes[y] \in Int
      BY <1>4, <2>3
    <3> DEFINE W == From(i + 1)
    <3>5. IsFiniteSet(W)
      BY <1>5
    <3> HIDE DEF From, W
    <3>6. SumFunctionOnSet(sizes, W \cup {i}) = sizes[i] + SumFunctionOnSet(sizes, W)
      BY <3>3, <3>4, <3>5, SumAdd DEF W
    <3>7. SumFunctionOnSet(sizes, From(i)) = u[i]
      BY <2>2, <3>1, <3>2, <3>3, <3>6 DEF W
    <3> QED
      BY <2>1, <3>2, <3>7
  <2>4. CASE i \notin K
    <3>1. ~Fitting(O, sizes, room, i, u[i + 1])
      BY <1>2, <2>4 DEF Fitting
    <3>2. u[i] = u[i + 1]
      BY <2>2, <3>1 DEF Taken
    <3>3. From(i) = From(i + 1)
      BY <1>4, <2>4
    <3> HIDE DEF From
    <3> QED
      BY <2>1, <2>2, <3>2, <3>3
  <2> QED
    BY <2>3, <2>4
<1>8. 1 \in T
  <2> HIDE DEF T
  <2>1. 1 \in 1 .. last + 1
    OBVIOUS
  <2> QED
    BY <1>6, <1>7, <2>1, BackwardInduction
<1>9. From(1) = K
  BY <1>4
<1>10. u[1] \in Nat
  BY <1>1
<1> HIDE DEF From
<1> QED
  BY <1>8, <1>9, <1>10 DEF K, Cost

\* What is left out does not fit beside them.
LEMMA FitLeaves ==
    ASSUME NEW last \in Nat, NEW O, NEW sizes, Sizes(last, O, sizes), NEW room \in Int,
           NEW u, Uses(O, sizes, room, last, u),
           NEW i \in O, i \notin Fit(O, sizes, room, u), sizes[i] # 0
    PROVE  u[1] + sizes[i] > room
<1> DEFINE T == {j \in 1 .. last + 1 : \A k \in 1 .. last + 1 : j <= k => u[k] <= u[j]}
<1>0. O \subseteq 1 .. last /\ sizes \in [O -> Nat]
  BY DEF Sizes
<1>1. /\ \A j \in 1 .. last + 1 : u[j] \in Nat
      /\ \A j \in 1 .. last : u[j] = u[j + 1] + Taken(O, sizes, room, j, u[j + 1])
  BY DEF Uses
<1>2. last + 1 \in T
  <2>1. \A k \in 1 .. last + 1 : last + 1 <= k => k = last + 1
    OBVIOUS
  <2>2. last + 1 \in 1 .. last + 1
    OBVIOUS
  <2> QED
    BY <1>1, <2>1, <2>2
<1>3. ASSUME NEW j \in 1 .. last, j + 1 \in T PROVE j \in T
  <2>1. j \in 1 .. last + 1 /\ j + 1 \in 1 .. last + 1 /\ u[j + 1] \in Nat /\ u[j] \in Nat
    BY <1>1
  <2>2. Taken(O, sizes, room, j, u[j + 1]) \in Nat
    BY <1>0 DEF Taken, Fitting
  <2>3. u[j + 1] <= u[j]
    BY <1>1, <2>1, <2>2
  <2> SUFFICES ASSUME NEW k \in 1 .. last + 1, j <= k PROVE u[k] <= u[j]
    BY <2>1
  <2>4. CASE k = j
    BY <2>1, <2>4
  <2>5. CASE j + 1 <= k
    <3>1. u[k] <= u[j + 1] /\ u[k] \in Nat
      BY <1>1, <1>3, <2>5
    <3> QED
      BY <2>1, <2>3, <3>1
  <2> QED
    BY <2>4, <2>5
<1>4. 1 \in T
  <2> HIDE DEF T
  <2>1. 1 \in 1 .. last + 1
    OBVIOUS
  <2> QED
    BY <1>2, <1>3, <2>1, BackwardInduction
<1>5. i \in 1 .. last /\ i + 1 \in 1 .. last + 1 /\ 1 <= i + 1 /\ 1 \in 1 .. last + 1
  BY <1>0
<1>6. u[i + 1] <= u[1] /\ u[1] \in Nat /\ u[i + 1] \in Nat
  BY <1>1, <1>4, <1>5
<1>7. sizes[i] \in Nat /\ u[i + 1] + sizes[i] > room
  BY <1>0, <1>6 DEF Fit, Fitting
<1> QED
  BY <1>6, <1>7

\* One token more of room is no less used.
LEMMA FitGrows ==
    ASSUME NEW last \in Nat, NEW O, NEW sizes, Sizes(last, O, sizes), NEW room \in Int,
           NEW u, Uses(O, sizes, room, last, u), NEW v, Uses(O, sizes, room - 1, last, v)
    PROVE  v[1] <= u[1]
<1> DEFINE T == {i \in 1 .. last + 1 : v[i] = u[i] \/ (u[i] = room /\ v[i] <= room)}
<1>0. O \subseteq 1 .. last /\ sizes \in [O -> Nat]
  BY DEF Sizes
<1>1. /\ \A i \in 1 .. last + 1 : u[i] \in Nat /\ v[i] \in Nat
      /\ u[last + 1] = 0 /\ v[last + 1] = 0
      /\ \A i \in 1 .. last : /\ u[i] = u[i + 1] + Taken(O, sizes, room, i, u[i + 1])
                              /\ v[i] = v[i + 1] + Taken(O, sizes, room - 1, i, v[i + 1])
  BY DEF Uses
<1>2. last + 1 \in T
  <2>1. last + 1 \in 1 .. last + 1
    OBVIOUS
  <2> QED
    BY <1>1, <2>1
<1>3. ASSUME NEW i \in 1 .. last, i + 1 \in T PROVE i \in T
  <2> DEFINE a == u[i + 1]
             b == v[i + 1]
  <2>1. i \in 1 .. last + 1 /\ i + 1 \in 1 .. last + 1
    OBVIOUS
  <2>2. a \in Nat /\ b \in Nat /\ (b = a \/ (a = room /\ b <= room))
    BY <1>1, <1>3, <2>1
  <2>3. u[i] = a + Taken(O, sizes, room, i, a) /\ v[i] = b + Taken(O, sizes, room - 1, i, b)
    BY <1>1
  <2> HIDE DEF a, b
  <2>4. CASE i \in O /\ sizes[i] > 0
    <3>1. sizes[i] \in Nat
      BY <1>0, <2>4
    <3>2. /\ u[i] = a + (IF a + sizes[i] <= room THEN sizes[i] ELSE 0)
          /\ v[i] = b + (IF b + sizes[i] <= room - 1 THEN sizes[i] ELSE 0)
      BY <2>3, <2>4 DEF Taken, Fitting
    <3>3. v[i] = u[i] \/ (u[i] = room /\ v[i] <= room)
      BY <2>2, <2>4, <3>1, <3>2
    <3> QED
      BY <2>1, <3>3
  <2>5. CASE ~(i \in O /\ sizes[i] > 0)
    <3>1. u[i] = a /\ v[i] = b
      BY <2>2, <2>3, <2>5 DEF Taken, Fitting
    <3> QED
      BY <2>1, <2>2, <3>1
  <2> QED
    BY <2>4, <2>5
<1>4. 1 \in T
  <2> HIDE DEF T
  <2>1. 1 \in 1 .. last + 1
    OBVIOUS
  <2> QED
    BY <1>2, <1>3, <2>1, BackwardInduction
<1>5. u[1] \in Nat /\ v[1] \in Nat
  <2>1. 1 \in 1 .. last + 1
    OBVIOUS
  <2> QED
    BY <1>1, <2>1
<1> QED
  BY <1>4, <1>5

\* A total c in some room, and the total less in one token of room less.
Fills(c, less, room) == c \in Nat /\ less \in Nat /\ less <= c /\ (c <= room \/ c = 0)
LeavesNone(O, sizes, room, kept) ==
    \A i \in O : i \in kept \/ sizes[i] = 0 \/ Cost(sizes, kept) + sizes[i] > room

\* Skipping what does not fit.
LEMMA SkippingFits ==
    ASSUME NEW n \in Nat, NEW O, NEW sizes, Sizes(n, O, sizes), NEW room \in Int
    PROVE  /\ Skipping(sizes, room) \in SUBSET O /\ Skipping(sizes, room - 1) \in SUBSET O
           /\ Fills(Cost(sizes, Skipping(sizes, room)), Cost(sizes, Skipping(sizes, room - 1)), room)
           /\ LeavesNone(O, sizes, room, Skipping(sizes, room))
<1>0. O \in SUBSET (1 .. n) /\ sizes \in [O -> Nat]
  BY DEF Sizes
<1>1. PICK last \in Nat :
         /\ O \subseteq 1 .. last
         /\ \A r \in Int : \E u \in [1 .. last + 1 -> Nat] :
               /\ Uses(O, sizes, r, last, u)
               /\ Skipping(sizes, r) = {i \in O : Fitting(O, sizes, r, i, u[i + 1])}
  BY <1>0, SkippingOf
<1>2. room - 1 \in Int
  OBVIOUS
<1>3. PICK u \in [1 .. last + 1 -> Nat] :
         /\ Uses(O, sizes, room, last, u)
         /\ Skipping(sizes, room) = {i \in O : Fitting(O, sizes, room, i, u[i + 1])}
  BY <1>1
<1>4. PICK v \in [1 .. last + 1 -> Nat] :
         /\ Uses(O, sizes, room - 1, last, v)
         /\ Skipping(sizes, room - 1) = {i \in O : Fitting(O, sizes, room - 1, i, v[i + 1])}
  BY <1>1, <1>2
<1>5. /\ Skipping(sizes, room) = Fit(O, sizes, room, u)
      /\ Skipping(sizes, room - 1) = Fit(O, sizes, room - 1, v)
  BY <1>3, <1>4 DEF Fit
<1> Sizes(last, O, sizes) /\ Uses(O, sizes, room, last, u) /\ Uses(O, sizes, room - 1, last, v)
  BY <1>0, <1>1, <1>3, <1>4 DEF Sizes
<1>6. /\ u[1] \in Nat /\ (u[1] <= room \/ u[1] = 0)
      /\ Cost(sizes, Skipping(sizes, room)) = u[1]
  BY <1>5, FitTakes
<1>7. v[1] \in Nat /\ Cost(sizes, Skipping(sizes, room - 1)) = v[1]
  <2>1. v[1] \in Nat /\ Cost(sizes, Fit(O, sizes, room - 1, v)) = v[1]
    BY <1>2, FitTakes
  <2> QED
    BY <1>5, <2>1
<1>8. v[1] <= u[1]
  BY FitGrows
<1>9. ASSUME NEW i \in O, i \notin Skipping(sizes, room), sizes[i] # 0 PROVE u[1] + sizes[i] > room
  BY <1>5, <1>9, FitLeaves
<1>10. Skipping(sizes, room) \in SUBSET O /\ Skipping(sizes, room - 1) \in SUBSET O
  BY <1>3, <1>4
<1>11. LeavesNone(O, sizes, room, Skipping(sizes, room))
  BY <1>6, <1>9 DEF LeavesNone
<1> QED
  BY <1>6, <1>7, <1>8, <1>10, <1>11 DEF Fills

\* Any of the sentences are all in what the first, or the last, of them counts.
Spans(O, span) ==
    /\ span \in [O -> SUBSET O]
    /\ \A A \in SUBSET O : A # {} => \E m \in A : A \subseteq span[m]
Stopped(O, sizes, span, room) == {i \in O : Cost(sizes, span[i]) <= room}

\* Stopping at what does not fit.
LEMMA StoppedFits ==
    ASSUME NEW n \in Nat, NEW O, NEW sizes, Sizes(n, O, sizes), NEW span, Spans(O, span),
           NEW room \in Int
    PROVE  /\ Stopped(O, sizes, span, room) \in SUBSET O
           /\ Fills(Cost(sizes, Stopped(O, sizes, span, room)),
                    Cost(sizes, Stopped(O, sizes, span, room - 1)), room)
<1> DEFINE K == Stopped(O, sizes, span, room)
           L == Stopped(O, sizes, span, room - 1)
<1>1. IsFiniteSet(O) /\ \A i \in O : sizes[i] \in Nat
  <2>1. O \in SUBSET (1 .. n)
    BY DEF Sizes
  <2> QED
    BY <2>1, AscendingOnce DEF Sizes
<1>2. \A A \in SUBSET O : Cost(sizes, A) \in Nat
  <2> SUFFICES ASSUME NEW A \in SUBSET O PROVE Cost(sizes, A) \in Nat
    OBVIOUS
  <2> QED
    BY <1>1, SumNat DEF Cost
<1>3. \A A \in SUBSET O : \A B \in SUBSET A : Cost(sizes, B) <= Cost(sizes, A)
  <2> SUFFICES ASSUME NEW A \in SUBSET O, NEW B \in SUBSET A PROVE Cost(sizes, B) <= Cost(sizes, A)
    OBVIOUS
  <2>1. IsFiniteSet(A) /\ \A i \in A : sizes[i] \in Nat
    BY <1>1, FS_Subset
  <2> QED
    BY <2>1, SumNat DEF Cost
<1>4. span \in [O -> SUBSET O] /\ \A A \in SUBSET O : A # {} => \E m \in A : A \subseteq span[m]
  BY DEF Spans
<1>5. K \in SUBSET O /\ L \in SUBSET O /\ \A i \in K : Cost(sizes, span[i]) <= room
  BY DEF Stopped
<1>6. L \subseteq K
  <2> SUFFICES ASSUME NEW i \in L PROVE i \in K
    OBVIOUS
  <2>1. i \in O /\ Cost(sizes, span[i]) <= room - 1
    BY DEF Stopped
  <2>2. Cost(sizes, span[i]) \in Nat
    BY <1>2, <1>4, <2>1
  <2> QED
    BY <2>1, <2>2 DEF Stopped
<1> HIDE DEF K, L
<1>7. Cost(sizes, L) <= Cost(sizes, K) /\ Cost(sizes, K) \in Nat /\ Cost(sizes, L) \in Nat
  BY <1>2, <1>3, <1>5, <1>6
<1>8. Cost(sizes, K) <= room \/ Cost(sizes, K) = 0
  <2>1. CASE K = {}
    <3>1. IsFiniteSet({}) /\ \A y \in {} : sizes[y] \in Int
      BY FS_EmptySet
    <3> QED
      BY <2>1, <3>1, SumInt DEF Cost
  <2>2. CASE K # {}
    <3>1. PICK m \in K : K \subseteq span[m]
      BY <1>4, <1>5, <2>2
    <3>2. span[m] \in SUBSET O /\ K \in SUBSET span[m]
      BY <1>4, <1>5, <3>1
    <3>3. Cost(sizes, K) <= Cost(sizes, span[m]) /\ Cost(sizes, span[m]) \in Nat
      BY <1>2, <1>3, <3>2
    <3>4. Cost(sizes, span[m]) <= room
      BY <1>5
    <3> QED
      BY <1>7, <3>3, <3>4
  <2> QED
    BY <2>1, <2>2
<1> QED
  BY <1>5, <1>7, <1>8 DEF K, L, Fills

\* The tokens placed, with Skipping and with the two ways of stopping.
LEMMA PlacedFills ==
    ASSUME NEW n \in Nat, NEW O, NEW sizes, Sizes(n, O, sizes), NEW room \in Int
    PROVE  /\ Fills(Total(Placed(sizes, Skipping(sizes, room))),
                    Total(Placed(sizes, Skipping(sizes, room - 1))), room)
           /\ Fills(Total(Placed(sizes, StoppingNewest(sizes, room))),
                    Total(Placed(sizes, StoppingNewest(sizes, room - 1))), room)
           /\ Fills(Total(Placed(sizes, StoppingOldest(sizes, room))),
                    Total(Placed(sizes, StoppingOldest(sizes, room - 1))), room)
<1> DEFINE after == [i \in O |-> {j \in O : j >= i}]
           before == [i \in O |-> {j \in O : j <= i}]
<1>1. O \in SUBSET (1 .. n) /\ sizes \in [O -> Nat] /\ room - 1 \in Int
  BY DEF Sizes
<1>2. ASSUME NEW kept \in SUBSET O PROVE Total(Placed(sizes, kept)) = Cost(sizes, kept)
  BY PlacedOf
<1>3. \A r \in Int : /\ StoppingNewest(sizes, r) = Stopped(O, sizes, after, r)
                     /\ StoppingOldest(sizes, r) = Stopped(O, sizes, before, r)
  <2> SUFFICES ASSUME NEW r \in Int
               PROVE  /\ StoppingNewest(sizes, r) = Stopped(O, sizes, after, r)
                      /\ StoppingOldest(sizes, r) = Stopped(O, sizes, before, r)
    OBVIOUS
  <2>1. DOMAIN sizes = O
    BY <1>1
  <2> QED
    BY <2>1 DEF StoppingNewest, StoppingOldest, Stopped, Cost
<1>4. ASSUME NEW A \in SUBSET O, A # {}
      PROVE  /\ \E m \in A : A \subseteq after[m]
             /\ \E m \in A : A \subseteq before[m]
  <2>1. IsFiniteSet(A) /\ A \subseteq Int
    <3>1. A \in SUBSET (1 .. n)
      BY <1>1
    <3>2. A \subseteq Int
      BY <3>1
    <3> QED
      BY <3>1, <3>2, AscendingOnce
  <2>2. /\ Max(A) \in A /\ Min(A) \in A
        /\ \A y \in A : Min(A) <= y /\ y <= Max(A)
    BY <1>4, <2>1, Extremes
  <2>3. A \subseteq after[Min(A)] /\ A \subseteq before[Max(A)]
    BY <2>1, <2>2
  <2> QED
    BY <2>2, <2>3
<1>5. Spans(O, after) /\ Spans(O, before)
  <2>1. after \in [O -> SUBSET O] /\ before \in [O -> SUBSET O]
    OBVIOUS
  <2> HIDE DEF after, before
  <2> QED
    BY <1>4, <2>1 DEF Spans
<1> HIDE DEF after, before
<1>6. /\ StoppingNewest(sizes, room) \in SUBSET O /\ StoppingNewest(sizes, room - 1) \in SUBSET O
      /\ Fills(Cost(sizes, StoppingNewest(sizes, room)), Cost(sizes, StoppingNewest(sizes, room - 1)), room)
  BY <1>1, <1>3, <1>5, StoppedFits
<1>7. /\ StoppingOldest(sizes, room) \in SUBSET O /\ StoppingOldest(sizes, room - 1) \in SUBSET O
      /\ Fills(Cost(sizes, StoppingOldest(sizes, room)), Cost(sizes, StoppingOldest(sizes, room - 1)), room)
  BY <1>1, <1>3, <1>5, StoppedFits
<1>8. /\ Skipping(sizes, room) \in SUBSET O /\ Skipping(sizes, room - 1) \in SUBSET O
      /\ Fills(Cost(sizes, Skipping(sizes, room)), Cost(sizes, Skipping(sizes, room - 1)), room)
  BY SkippingFits
<1>9. Fills(Total(Placed(sizes, StoppingNewest(sizes, room))),
            Total(Placed(sizes, StoppingNewest(sizes, room - 1))), room)
  BY <1>2, <1>6
<1>10. Fills(Total(Placed(sizes, StoppingOldest(sizes, room))),
             Total(Placed(sizes, StoppingOldest(sizes, room - 1))), room)
  BY <1>2, <1>7
<1>11. Fills(Total(Placed(sizes, Skipping(sizes, room))),
             Total(Placed(sizes, Skipping(sizes, room - 1))), room)
  BY <1>2, <1>8
<1> QED
  BY <1>9, <1>10, <1>11

-----------------------------------------------------------------------------
(* The strategies.                                                          *)

\* Sentences, and lists of some of those of a text.
TextPieces == [hits : Nat, size : Nat]
KeyLists(n) == UNION {[1 .. c -> 1 .. n] : c \in Nat}

\* Lists of pieces: their tokens, one after another, and the first of them.
LEMMA ListTotals ==
    ASSUME NEW s \in PieceLists, NEW t \in PieceLists, NEW room \in Int
    PROVE  /\ Total(s) \in Nat
           /\ s \o t \in PieceLists /\ Total(s \o t) = Total(s) + Total(t)
           /\ \A kept : Shows(t, kept) => Shows(s \o t, kept)
           /\ FirstTokens(s, room) \in PieceLists
           /\ Total(FirstTokens(s, room)) = Limited(Total(s), room)
           /\ Reverse(s) \in PieceLists /\ Total(Reverse(s)) = Total(s)
<1>1. PICK k \in Nat : s \in [1 .. k -> Pieces]
  BY DEF PieceLists
<1>2. PICK m \in Nat : t \in [1 .. m -> Pieces]
  BY DEF PieceLists
<1>3. Total(s) \in Nat
  BY <1>1, TotalOf
<1>4. /\ s \o t \in [1 .. k + m -> Pieces] /\ Total(s \o t) = Total(s) + Total(t)
      /\ \A j \in 1 .. m : (s \o t)[k + j] = t[j]
  BY <1>1, <1>2, TotalCat
<1>5. s \o t \in PieceLists
  <2>1. k + m \in Nat
    OBVIOUS
  <2> QED
    BY <1>4, <2>1 DEF PieceLists
<1>6. ASSUME NEW kept, Shows(t, kept) PROVE Shows(s \o t, kept)
  <2> SUFFICES ASSUME NEW i \in kept PROVE \E j \in DOMAIN (s \o t) : (s \o t)[j].at = i
    BY DEF Shows
  <2>1. PICK j \in 1 .. m : t[j].at = i
    BY <1>2, <1>6 DEF Shows
  <2>2. k + j \in DOMAIN (s \o t)
    BY <1>4
  <2> QED
    BY <1>4, <2>1, <2>2
<1>7. /\ FirstTokens(s, room) \in PieceLists
      /\ Total(FirstTokens(s, room)) = Limited(Total(s), room)
  <2>1. PICK l \in Nat : /\ FirstTokens(s, room) \in [1 .. l -> Pieces]
                         /\ Total(FirstTokens(s, room)) = Limited(Total(s), room)
    BY <1>1, FirstTokensOf
  <2> QED
    BY <2>1 DEF PieceLists
<1>8. Reverse(s) \in PieceLists /\ Total(Reverse(s)) = Total(s)
  <2>1. Reverse(s) \in [1 .. k -> Pieces] /\ Total(Reverse(s)) = Total(s)
    BY <1>1, TotalReversed
  <2> QED
    BY <2>1 DEF PieceLists
<1> QED
  BY <1>3, <1>4, <1>5, <1>6, <1>7, <1>8

\* Sentences as they are are pieces.
LEMMA WholeOf ==
    ASSUME NEW n \in Nat, NEW text \in [1 .. n -> TextPieces], NEW key \in KeyLists(n)
    PROVE  Whole(text, key) \in PieceLists
<1>1. PICK c \in Nat : key \in [1 .. c -> 1 .. n]
  BY DEF KeyLists
<1>2. \A j \in 1 .. c : key[j] \in Int /\ text[key[j]].size \in Nat
  <2> SUFFICES ASSUME NEW j \in 1 .. c PROVE key[j] \in Int /\ text[key[j]].size \in Nat
    OBVIOUS
  <2>1. key[j] \in 1 .. n
    BY <1>1
  <2>2. text[key[j]] \in TextPieces
    BY <2>1
  <2> QED
    BY <2>1, <2>2 DEF TextPieces
<1>3. Whole(text, key) \in [1 .. c -> Pieces]
  <2>1. DOMAIN key = 1 .. c
    BY <1>1
  <2> QED
    BY <1>2, <2>1 DEF Whole, Piece, Pieces
<1> QED
  BY <1>3 DEF PieceLists

\* The number of words of the question, and the earlier of two with as many.
LEMMA BestOf ==
    ASSUME NEW n \in Nat, NEW text \in [1 .. n -> TextPieces]
    PROVE  /\ BestKeys(text) \in KeyLists(n) /\ MatchingKeys(text) \in KeyLists(n)
           /\ \A k \in ToSet(BestKeys(text)), i \in DOMAIN text \ ToSet(BestKeys(text)) :
                 text[i].hits <= text[k].hits
<1> DEFINE key == {i \in DOMAIN text : text[i].hits > 0}
           R == {p \in key \X key :
                     \/ text[p[1]].hits > text[p[2]].hits
                     \/ text[p[1]].hits = text[p[2]].hits /\ p[1] < p[2]}
           scored == InOrder(key, R)
           c == Cardinality(key)
           l == Min({TopK, c})
<1>1. DOMAIN text = 1 .. n /\ \A i \in 1 .. n : text[i].hits \in Nat
  BY DEF TextPieces
<1>2. key \in SUBSET (1 .. n)
  BY <1>1
<1>3. BestKeys(text) = [j \in 1 .. l |-> scored[j]] /\ MatchingKeys(text) = Ascending(key)
  BY DEF BestKeys, MatchingKeys
<1>4. \A x, y \in key : <<x, y>> \in R <=>
         \/ text[x].hits > text[y].hits \/ (text[x].hits = text[y].hits /\ x < y)
  OBVIOUS
<1>5. \A i \in 1 .. n : i \in key <=> text[i].hits > 0
  BY <1>1
<1> HIDE DEF key, R
<1>6. \A x \in key : x \in Int /\ text[x].hits \in Int
  <2> SUFFICES ASSUME NEW x \in key PROVE x \in Int /\ text[x].hits \in Int
    OBVIOUS
  <2>1. x \in 1 .. n
    BY <1>2
  <2> QED
    BY <1>1, <2>1
<1>7. StrictOrder(key, R)
  <2>1. \A x \in key : <<x, x>> \notin R
    BY <1>4, <1>6
  <2>2. ASSUME NEW x \in key, NEW y \in key, NEW z \in key, <<x, y>> \in R, <<y, z>> \in R
        PROVE  <<x, z>> \in R
    <3>1. \/ text[x].hits > text[y].hits \/ (text[x].hits = text[y].hits /\ x < y)
      BY <1>4, <2>2
    <3>2. \/ text[y].hits > text[z].hits \/ (text[y].hits = text[z].hits /\ y < z)
      BY <1>4, <2>2
    <3>3. \/ text[x].hits > text[z].hits \/ (text[x].hits = text[z].hits /\ x < z)
      BY <1>6, <3>1, <3>2
    <3> QED
      BY <1>4, <3>3
  <2>3. ASSUME NEW x \in key, NEW y \in key, x # y PROVE <<x, y>> \in R \/ <<y, x>> \in R
    <3>1. \/ text[x].hits > text[y].hits \/ (text[x].hits = text[y].hits /\ x < y)
          \/ text[y].hits > text[x].hits \/ (text[y].hits = text[x].hits /\ y < x)
      BY <1>6, <2>3
    <3> QED
      BY <1>4, <3>1
  <2> QED
    BY <2>1, <2>2, <2>3 DEF StrictOrder
<1>8. /\ c \in Nat /\ IsFiniteSet(key) /\ Ascending(key) \in [1 .. c -> key]
  BY <1>2, AscendingOnce
<1>9. /\ scored \in [1 .. c -> key]
      /\ \A i, j \in 1 .. c : i < j => <<scored[i], scored[j]>> \in R
      /\ \A x \in key : \E j \in 1 .. c : scored[j] = x
  BY <1>7, <1>8, Ranked
<1>10. l \in 0 .. c
  <2>1. TopK \in Nat
    BY LongContextAssumption DEF LongContextAssumption
  <2>2. l = IF TopK <= c THEN TopK ELSE c
    <3>1. TopK \in Int /\ c \in Int
      BY <1>8, <2>1
    <3> HIDE DEF c
    <3> QED
      BY <3>1, MinMaxOfTwo
  <2> QED
    BY <1>8, <2>1, <2>2
<1> HIDE DEF scored, c, l
<1>11. MatchingKeys(text) \in KeyLists(n)
  <2>1. Ascending(key) \in [1 .. c -> 1 .. n]
    BY <1>2, <1>8
  <2> QED
    BY <1>3, <1>8, <2>1 DEF KeyLists
<1>12. \A j \in 1 .. l : j \in 1 .. c /\ scored[j] \in key
  BY <1>8, <1>9, <1>10
<1>13. BestKeys(text) \in KeyLists(n)
  <2>1. BestKeys(text) \in [1 .. l -> 1 .. n]
    BY <1>2, <1>3, <1>12
  <2>2. l \in Nat
    BY <1>10
  <2> QED
    BY <2>1, <2>2 DEF KeyLists
<1>14. ASSUME NEW k \in ToSet(BestKeys(text)), NEW i \in DOMAIN text \ ToSet(BestKeys(text))
       PROVE  text[i].hits <= text[k].hits
  <2>1. PICK a \in 1 .. l : scored[a] = k
    BY <1>3 DEF ToSet
  <2>2. a \in 1 .. c /\ k \in key /\ k \in 1 .. n /\ i \in 1 .. n
    BY <1>1, <1>2, <1>12, <2>1
  <2>3. CASE i \notin key
    <3>1. ~(text[i].hits > 0) /\ text[i].hits \in Nat /\ text[k].hits \in Nat
      BY <1>1, <1>5, <2>2, <2>3
    <3> QED
      BY <3>1
  <2>4. CASE i \in key
    <3>1. PICK b \in 1 .. c : scored[b] = i
      BY <1>9, <2>4
    <3>2. b \notin 1 .. l
      BY <1>3, <3>1 DEF ToSet
    <3>3. a < b
      BY <1>8, <1>10, <2>2, <3>2
    <3>4. <<k, i>> \in R
      BY <1>9, <2>1, <2>2, <3>1, <3>3
    <3>5. text[k].hits > text[i].hits \/ text[k].hits = text[i].hits
      BY <1>4, <2>2, <2>4, <3>4
    <3> QED
      BY <1>6, <2>2, <2>4, <3>5
  <2> QED
    BY <2>3, <2>4
<1> QED
  BY <1>11, <1>13, <1>14

\* The sentences beside the key ones, as they are and cut, have so many tokens.
LEMMA SizesOf ==
    ASSUME NEW n \in Nat, NEW text \in [1 .. n -> TextPieces], NEW key, NEW old \in Nat
    PROVE  /\ Sizes(n, Others(text, key), Tiered(text, Others(text, key), old))
           /\ Sizes(n, Others(text, key), Uncut(text, Others(text, key)))
           /\ Sizes(n, DOMAIN text, Tiered(text, DOMAIN text, old))
<1>1. DOMAIN text = 1 .. n /\ \A i \in 1 .. n : text[i].size \in Nat
  BY DEF TextPieces
<1>2. Cuts[1] \in Nat /\ Cuts[2] \in Nat
  <2>1. Cuts \in Seq(Nat \ {0}) /\ Len(Cuts) = 2
    BY LongContextAssumption DEF LongContextAssumption
  <2>2. 1 \in 1 .. Len(Cuts) /\ 2 \in 1 .. Len(Cuts)
    BY <2>1
  <2>3. Cuts[1] \in Nat \ {0} /\ Cuts[2] \in Nat \ {0}
    BY <2>1, <2>2, ElementOfSeq
  <2> QED
    BY <2>3
<1>3. ASSUME NEW turn, NEW size \in Nat PROVE CutAt(turn, size, old) \in Nat
  <2>1. /\ Min({size, Cuts[1]}) = IF size <= Cuts[1] THEN size ELSE Cuts[1]
        /\ Min({size, Cuts[2]}) = IF size <= Cuts[2] THEN size ELSE Cuts[2]
    <3>1. size \in Int /\ Cuts[1] \in Int /\ Cuts[2] \in Int
      BY <1>2
    <3> QED
      BY <3>1, MinMaxOfTwo
  <2>2. Min({size, Cuts[1]}) \in Nat /\ Min({size, Cuts[2]}) \in Nat
    BY <1>2, <2>1
  <2> QED
    BY <2>2 DEF CutAt
<1>4. ASSUME NEW others \in SUBSET (1 .. n)
      PROVE  Sizes(n, others, Tiered(text, others, old)) /\ Sizes(n, others, Uncut(text, others))
  <2>1. \A i \in others : text[i].size \in Nat
    BY <1>1
  <2>2. Uncut(text, others) \in [others -> Nat]
    BY <2>1 DEF Uncut
  <2>3. Tiered(text, others, old) \in [others -> Nat]
    BY <1>3, <2>1 DEF Tiered
  <2> QED
    BY <2>2, <2>3 DEF Sizes
<1>5. Others(text, key) \in SUBSET (1 .. n) /\ DOMAIN text \in SUBSET (1 .. n)
  BY <1>1 DEF Others
<1> QED
  BY <1>4, <1>5

\* The tokens of what a strategy keeps, and of what it keeps with one token less:
\* within a limit, or those of the keys and of what fits beside them.
Within(t, less, limit) == t \in Nat /\ less \in Nat /\ less <= t /\ t <= limit
Adds(t, less, keys, room) ==
    t \in Nat /\ less \in Nat /\ keys \in Nat /\ Fills(t - keys, less - keys, room - keys)

\* Pieces beside the keys.
LEMMA AddsOf ==
    ASSUME NEW keys \in PieceLists, NEW p \in PieceLists, NEW q \in PieceLists,
           NEW room \in Int, Fills(Total(p), Total(q), room - Total(keys))
    PROVE  /\ Adds(Total(keys \o p), Total(keys \o q), Total(keys), room)
           /\ Adds(Total(p \o keys), Total(q \o keys), Total(keys), room)
<1>1. /\ Total(keys) \in Nat /\ Total(p) \in Nat /\ Total(q) \in Nat
      /\ Total(keys \o p) = Total(keys) + Total(p) /\ Total(keys \o q) = Total(keys) + Total(q)
      /\ Total(p \o keys) = Total(p) + Total(keys) /\ Total(q \o keys) = Total(q) + Total(keys)
  BY ListTotals
<1> DEFINE k == Total(keys)
           a == Total(p)
           b == Total(q)
<1> HIDE DEF k, a, b
<1>2. k \in Nat /\ a \in Nat /\ b \in Nat
  BY <1>1 DEF k, a, b
<1>3. (k + a) - k = a /\ (k + b) - k = b /\ (a + k) - k = a /\ (b + k) - k = b
  BY <1>2
<1>4. Fills(a, b, room - k)
  BY DEF a, b, k
<1>5. Adds(k + a, k + b, k, room) /\ Adds(a + k, b + k, k, room)
  BY <1>2, <1>3, <1>4 DEF Adds
<1> QED
  BY <1>1, <1>5 DEF k, a, b

\* What is placed beside the keys, with each way of choosing and of ordering.
LEMMA TopicTotals ==
    ASSUME NEW n \in Nat, NEW O, NEW sizes, Sizes(n, O, sizes),
           NEW keys \in PieceLists, NEW b \in Int
    PROVE  LET Room(c) == c - Total(keys)
               Skip(c) == Placed(sizes, Skipping(sizes, Room(c)))
               Late(c) == Placed(sizes, StoppingNewest(sizes, Room(c)))
               Oldest(c) == Placed(sizes, StoppingOldest(sizes, Room(c)))
               k == Total(keys)
           IN  /\ Adds(Total(keys \o Skip(b)), Total(keys \o Skip(b - 1)), k, b)
               /\ Adds(Total(Skip(b) \o keys), Total(Skip(b - 1) \o keys), k, b)
               /\ Adds(Total(Late(b) \o keys), Total(Late(b - 1) \o keys), k, b)
               /\ Adds(Total(keys \o Oldest(b)), Total(keys \o Oldest(b - 1)), k, b)
<1> DEFINE k == Total(keys)
           Skip(r) == Placed(sizes, Skipping(sizes, r))
           Late(r) == Placed(sizes, StoppingNewest(sizes, r))
           Oldest(r) == Placed(sizes, StoppingOldest(sizes, r))
<1>1. k \in Nat /\ b - k \in Int /\ (b - k) - 1 = (b - 1) - k /\ (b - k) - 1 \in Int
  <2>1. k \in Nat
    BY ListTotals
  <2> HIDE DEF k
  <2> QED
    BY <2>1
<1>2. ASSUME NEW r \in Int
      PROVE  Skip(r) \in PieceLists /\ Late(r) \in PieceLists /\ Oldest(r) \in PieceLists
  <2>1. /\ Skipping(sizes, r) \in SUBSET O /\ StoppingNewest(sizes, r) \in SUBSET O
        /\ StoppingOldest(sizes, r) \in SUBSET O
    <3>1. DOMAIN sizes = O
      BY DEF Sizes
    <3> QED
      BY <3>1, SkippingFits DEF StoppingNewest, StoppingOldest
  <2> QED
    BY <2>1, PlacedOf
<1>3. /\ Fills(Total(Skip(b - k)), Total(Skip((b - k) - 1)), b - k)
      /\ Fills(Total(Late(b - k)), Total(Late((b - k) - 1)), b - k)
      /\ Fills(Total(Oldest(b - k)), Total(Oldest((b - k) - 1)), b - k)
  BY <1>1, PlacedFills
<1> HIDE DEF Skip, Late, Oldest
<1>4. /\ Adds(Total(keys \o Skip(b - k)), Total(keys \o Skip((b - k) - 1)), k, b)
      /\ Adds(Total(Skip(b - k) \o keys), Total(Skip((b - k) - 1) \o keys), k, b)
  BY <1>1, <1>2, <1>3, AddsOf
<1>5. Adds(Total(Late(b - k) \o keys), Total(Late((b - k) - 1) \o keys), k, b)
  BY <1>1, <1>2, <1>3, AddsOf
<1>6. Adds(Total(keys \o Oldest(b - k)), Total(keys \o Oldest((b - k) - 1)), k, b)
  BY <1>1, <1>2, <1>3, AddsOf
<1> QED
  BY <1>1, <1>4, <1>5, <1>6 DEF Skip, Late, Oldest

\* The strategies that keep the key sentences whatever they have.
LEMMA KeysFirst ==
    ASSUME NEW n \in Nat, NEW text \in [1 .. n -> TextPieces], NEW key \in KeyLists(n), NEW b \in Int
    PROVE  LET k == Total(Whole(text, key))
           IN  /\ k \in Nat
               /\ Adds(Total(TopicFirst(text, key, b)), Total(TopicFirst(text, key, b - 1)), k, b)
               /\ Adds(Total(TopicLast(text, key, b)), Total(TopicLast(text, key, b - 1)), k, b)
               /\ Adds(Total(LlmTopic(text, key, b)), Total(LlmTopic(text, key, b - 1)), k, b)
               /\ Adds(Total(RagRetrieval(text, key, b)), Total(RagRetrieval(text, key, b - 1)), k, b)
<1> DEFINE O == Others(text, key)
           keys == Whole(text, key)
           tiered == Tiered(text, O, 0)
           uncut == Uncut(text, O)
<1>1. keys \in PieceLists
  BY WholeOf
<1>2. Sizes(n, O, tiered) /\ Sizes(n, O, uncut)
  <2>1. 0 \in Nat
    OBVIOUS
  <2> QED
    BY <2>1, SizesOf
<1>3. Total(keys) \in Nat
  BY <1>1, ListTotals
<1> HIDE DEF O, keys, tiered, uncut
<1>4. /\ Adds(Total(TopicFirst(text, key, b)), Total(TopicFirst(text, key, b - 1)), Total(keys), b)
      /\ Adds(Total(TopicLast(text, key, b)), Total(TopicLast(text, key, b - 1)), Total(keys), b)
  BY <1>1, <1>2, TopicTotals DEF TopicFirst, TopicLast, O, keys, tiered
<1>5. /\ Adds(Total(LlmTopic(text, key, b)), Total(LlmTopic(text, key, b - 1)), Total(keys), b)
      /\ Adds(Total(RagRetrieval(text, key, b)), Total(RagRetrieval(text, key, b - 1)), Total(keys), b)
  BY <1>1, <1>2, TopicTotals DEF LlmTopic, RagRetrieval, O, keys, uncut
<1> QED
  BY <1>3, <1>4, <1>5 DEF keys

\* The strategies that never exceed the budget.
LEMMA BudgetKept ==
    ASSUME NEW n \in Nat, NEW text \in [1 .. n -> TextPieces], NEW key \in KeyLists(n),
           NEW b \in Nat, b >= 3
    PROVE  /\ Within(Total(Truncation(text, b)), Total(Truncation(text, b - 1)), b)
           /\ Within(Total(ProjectCompress(text, b)), Total(ProjectCompress(text, b - 1)), b)
           /\ Within(Total(ProjectTopic(text, key, b)), Total(ProjectTopic(text, key, b - 1)), b)
           /\ Within(Total(FullPipeline(text, key, b)), Total(FullPipeline(text, key, b - 1)), b)
           /\ Within(Total(ProjectWithTopic(text, key, b)),
                     Total(ProjectWithTopic(text, key, b - 1)), b)
<1> DEFINE keys == Whole(text, key)
           k == Total(keys)
<1>1. keys \in PieceLists
  BY WholeOf
<1>2. b \in Int /\ b - 1 \in Int /\ (b - 1) - 2 \in Int /\ b - 2 \in Int
  OBVIOUS
<1>3. /\ k \in Nat
      /\ \A r \in Int : FirstTokens(keys, r) \in PieceLists /\ Total(FirstTokens(keys, r)) = Limited(k, r)
  <2> HIDE DEF keys
  <2> QED
    BY <1>1, ListTotals
<1>4. 0 \in Nat /\ Marker \in Nat
  <2>1. Marker \in Nat \ {0}
    BY LongContextAssumption DEF LongContextAssumption
  <2> QED
    BY <2>1
<1>5. Within(Total(Truncation(text, b)), Total(Truncation(text, b - 1)), b)
  <2> DEFINE w == Whole(text, [i \in DOMAIN text |-> i])
  <2>1. w \in PieceLists
    <3>1. [i \in DOMAIN text |-> i] \in [1 .. n -> 1 .. n]
      OBVIOUS
    <3>2. [i \in DOMAIN text |-> i] \in KeyLists(n)
      BY <3>1 DEF KeyLists
    <3> QED
      BY <3>2, WholeOf
  <2> HIDE DEF w
  <2>2. Reverse(w) \in PieceLists /\ Total(Reverse(w)) = Total(w) /\ Total(w) \in Nat
    BY <1>2, <2>1, ListTotals
  <2>3. ASSUME NEW r \in Int PROVE Total(Reverse(FirstTokens(Reverse(w), r))) = Limited(Total(w), r)
    <3>1. /\ FirstTokens(Reverse(w), r) \in PieceLists
          /\ Total(FirstTokens(Reverse(w), r)) = Limited(Total(w), r)
      <4> DEFINE v == Reverse(w)
      <4>1. v \in PieceLists /\ Total(v) = Total(w)
        BY <2>2
      <4> HIDE DEF v
      <4>2. FirstTokens(v, r) \in PieceLists
        BY <4>1, ListTotals
      <4>3. Total(FirstTokens(v, r)) = Limited(Total(v), r)
        BY <4>1, ListTotals
      <4> QED
        BY <4>1, <4>2, <4>3 DEF v
    <3> QED
      BY <3>1, ListTotals
  <2>4. /\ Total(Truncation(text, b)) = Limited(Total(w), b)
        /\ Total(Truncation(text, b - 1)) = Limited(Total(w), b - 1)
    BY <1>2, <2>3 DEF Truncation, w
  <2>5. Within(Limited(Total(w), b), Limited(Total(w), b - 1), b)
    <3> DEFINE x == Total(w)
    <3>1. x \in Nat
      BY <2>2
    <3> HIDE DEF x
    <3>2. Within(Limited(x, b), Limited(x, b - 1), b)
      BY <3>1 DEF Within, Limited
    <3> QED
      BY <3>2 DEF x
  <2> QED
    BY <2>4, <2>5
<1>6. Within(Total(ProjectCompress(text, b)), Total(ProjectCompress(text, b - 1)), b)
  <2> DEFINE sizes == Tiered(text, DOMAIN text, Marker)
             t == Total(Placed(sizes, StoppingNewest(sizes, b)))
             less == Total(Placed(sizes, StoppingNewest(sizes, b - 1)))
  <2>1. Sizes(n, DOMAIN text, sizes)
    BY <1>4, SizesOf
  <2>2. Fills(t, less, b)
    <3> HIDE DEF sizes
    <3> QED
      BY <1>2, <2>1, PlacedFills
  <2>3. Total(ProjectCompress(text, b)) = t /\ Total(ProjectCompress(text, b - 1)) = less
    BY DEF ProjectCompress
  <2> HIDE DEF t, less
  <2>4. Within(t, less, b)
    BY <2>2 DEF Fills, Within
  <2> QED
    BY <2>3, <2>4
<1> HIDE DEF keys
<1>7. Within(Total(ProjectTopic(text, key, b)), Total(ProjectTopic(text, key, b - 1)), b)
  <2> DEFINE t == Total(TopicFirst(text, key, b))
             less == Total(TopicFirst(text, key, b - 1))
  <2>1. Adds(t, less, k, b)
    BY KeysFirst DEF keys
  <2>2. /\ Total(ProjectTopic(text, key, b)) = IF b <= k THEN Limited(k, b) ELSE t
        /\ Total(ProjectTopic(text, key, b - 1)) = IF b - 1 <= k THEN Limited(k, b - 1) ELSE less
    BY <1>2, <1>3 DEF ProjectTopic, keys
  <2> HIDE DEF k, t, less
  <2>3. Within(IF b <= k THEN Limited(k, b) ELSE t, IF b - 1 <= k THEN Limited(k, b - 1) ELSE less, b)
    BY <1>3, <2>1 DEF Adds, Fills, Within, Limited
  <2> QED
    BY <2>2, <2>3
<1>8. Within(Total(ProjectWithTopic(text, key, b)), Total(ProjectWithTopic(text, key, b - 1)), b)
  <2> DEFINE O == Others(text, key)
             sizes == Tiered(text, O, Marker)
             p(c) == keys \o Placed(sizes, Skipping(sizes, c - k))
             t == Total(p(b))
             less == Total(p(b - 1))
  <2>1. Sizes(n, O, sizes)
    BY <1>4, SizesOf
  <2>2. Adds(t, less, k, b)
    <3> HIDE DEF O, sizes
    <3> QED
      BY <1>1, <1>2, <2>1, TopicTotals
  <2>3. /\ Total(ProjectWithTopic(text, key, b)) = IF b <= k THEN Limited(k, b) ELSE t
        /\ Total(ProjectWithTopic(text, key, b - 1)) = IF b - 1 <= k THEN Limited(k, b - 1) ELSE less
    BY <1>2, <1>3 DEF ProjectWithTopic, keys
  <2> HIDE DEF k, t, less
  <2>4. Within(IF b <= k THEN Limited(k, b) ELSE t, IF b - 1 <= k THEN Limited(k, b - 1) ELSE less, b)
    BY <1>3, <2>2 DEF Adds, Fills, Within, Limited
  <2> QED
    BY <2>3, <2>4
<1>9. Within(Total(FullPipeline(text, key, b)), Total(FullPipeline(text, key, b - 1)), b)
  <2> DEFINE O == Others(text, key)
             sizes == Tiered(text, O, 0)
             placed == Placed(sizes, {i \in DOMAIN sizes : sizes[i] > 0})
             a == Total(keys \o placed)
             T(c) == IF a <= c THEN a ELSE IF k <= c THEN Limited(k, c) ELSE Limited(k, c - 2)
  <2>1. Sizes(n, O, sizes)
    BY <1>4, SizesOf
  <2>2. placed \in PieceLists
    <3>1. {i \in DOMAIN sizes : sizes[i] > 0} \in SUBSET O
      BY <2>1 DEF Sizes
    <3> HIDE DEF O, sizes
    <3> QED
      BY <2>1, <3>1, PlacedOf
  <2>3. a \in Nat /\ a >= k
    <3>1. Total(placed) \in Nat
      BY <1>2, <2>2, ListTotals
    <3>2. a = k + Total(placed)
      <4> HIDE DEF placed, keys
      <4> QED
        BY <1>1, <1>2, <2>2, ListTotals
    <3> HIDE DEF a, placed, k
    <3> QED
      BY <1>3, <3>1, <3>2
  <2>4. /\ Total(FullPipeline(text, key, b)) = T(b)
        /\ Total(FullPipeline(text, key, b - 1)) = T(b - 1)
    BY <1>2, <1>3 DEF FullPipeline, keys
  <2> HIDE DEF k, a
  <2>5. Within(T(b), T(b - 1), b)
    BY <1>3, <2>3 DEF Within, Limited
  <2> QED
    BY <2>4, <2>5
<1> QED
  BY <1>5, <1>6, <1>7, <1>8, <1>9

\* Key blocks that fit are all kept, and counted.
LEMMA FittedKeys ==
    ASSUME NEW blocks \in PieceLists, NEW b \in Nat, Total(blocks) <= b
    PROVE  LET fit == FitToBudget(blocks, b)
           IN  /\ fit.pieces \in PieceLists /\ Total(fit.pieces) = Total(blocks)
               /\ fit.total = Total(blocks)
<1> DEFINE k == Total(blocks)
           V == {t \in {Total(SubSeq(blocks, 1, j)) : j \in DOMAIN blocks} : t <= b}
           W == {0} \cup V
<1>1. PICK c \in Nat : blocks \in [1 .. c -> Pieces]
  BY DEF PieceLists
<1>2. /\ k \in Nat /\ k <= b /\ b \in Int
      /\ FirstTokens(blocks, b) \in PieceLists /\ Total(FirstTokens(blocks, b)) = Limited(k, b)
  BY ListTotals
<1>3. Limited(k, b) = k
  <2> HIDE DEF k
  <2> QED
    BY <1>2 DEF Limited
<1>4. /\ FitToBudget(blocks, b).pieces = FirstTokens(blocks, b)
      /\ FitToBudget(blocks, b).total = Max(W)
  BY DEF FitToBudget
<1>5. ASSUME NEW j \in 1 .. c
      PROVE  Total(SubSeq(blocks, 1, j)) \in Nat /\ Total(SubSeq(blocks, 1, j)) <= k
  <2> DEFINE f == [i \in 1 .. c |-> blocks[i].size]
             N == 1 .. c
             J == 1 .. j
  <2>1. j \in 0 .. c /\ J \in SUBSET N /\ IsFiniteSet(N)
    BY FirstPlaces
  <2>2. Total(SubSeq(blocks, 1, j)) = SumFunctionOnSet(f, J)
    BY <1>1, <2>1, FirstPieces
  <2>3. k = SumFunctionOnSet(f, N) /\ \A i \in N : f[i] \in Nat
    BY <1>1, TotalOf
  <2> HIDE DEF f, N, J, k
  <2> QED
    BY <2>1, <2>2, <2>3, SumNat
<1>6. k \in W
  <2>1. CASE c = 0
    BY <1>1, <2>1, TotalOf
  <2>2. CASE c # 0
    <3>1. c \in 1 .. c /\ c \in 0 .. c
      BY <2>2
    <3>2. Total(SubSeq(blocks, 1, c)) = k
      <4> DEFINE f == [i \in 1 .. c |-> blocks[i].size]
      <4>1. Total(SubSeq(blocks, 1, c)) = SumFunctionOnSet(f, 1 .. c)
        BY <1>1, <3>1, FirstPieces
      <4>2. k = SumFunctionOnSet(f, 1 .. c)
        BY <1>1, TotalOf
      <4> HIDE DEF f, k
      <4> QED
        BY <4>1, <4>2
    <3>3. c \in DOMAIN blocks
      BY <1>1, <3>1
    <3> HIDE DEF k
    <3> QED
      BY <1>2, <3>2, <3>3
  <2> QED
    BY <2>1, <2>2
<1>7. \A y \in W : y \in Int /\ y <= k
  <2> SUFFICES ASSUME NEW y \in W PROVE y \in Int /\ y <= k
    OBVIOUS
  <2>1. CASE y = 0
    BY <1>2, <2>1
  <2>2. CASE y \in V
    <3>1. PICK j \in 1 .. c : y = Total(SubSeq(blocks, 1, j))
      BY <1>1, <2>2
    <3> HIDE DEF k
    <3> QED
      BY <1>5, <3>1
  <2> QED
    BY <2>1, <2>2
<1>8. Max(W) = k
  <2> HIDE DEF W, k
  <2> QED
    BY <1>6, <1>7, MaxIs
<1> QED
  BY <1>2, <1>3, <1>4, <1>8

\* Which strategy is which.
LEMMA StrategyAt ==
    ASSUME NEW text, NEW b
    PROVE  LET leading == BestKeys(text)
               match == MatchingKeys(text)
               q == Strategies(text, b)
           IN  /\ q[1] = Truncation(text, b) /\ q[2] = ProjectCompress(text, b)
               /\ q[3] = ProjectTopic(text, match, b) /\ q[4] = FullPipeline(text, match, b)
               /\ q[5] = ProjectWithTopic(text, match, b)
               /\ q[6] = TopicLast(text, match, b) /\ q[7] = LlmTopic(text, match, b)
               /\ q[8] = RagRetrieval(text, match, b)
               /\ q[9] = TopicFirst(text, leading, b) /\ q[10] = TopicFirst(text, leading, b - 2)
<1> DEFINE leading == BestKeys(text)
           match == MatchingKeys(text)
           a1 == Truncation(text, b)
           a2 == ProjectCompress(text, b)
           a3 == ProjectTopic(text, match, b)
           a4 == FullPipeline(text, match, b)
           a5 == ProjectWithTopic(text, match, b)
           a6 == TopicLast(text, match, b)
           a7 == LlmTopic(text, match, b)
           a8 == RagRetrieval(text, match, b)
           a9 == TopicFirst(text, leading, b)
           a10 == TopicFirst(text, leading, b - 2)
           q == <<a1, a2, a3, a4, a5, a6, a7, a8, a9, a10>>
<1>1. /\ ChooseStrategy(text, b, "truncation") = a1
      /\ ChooseStrategy(text, b, "project_topic") = a9
      /\ ChooseStrategy(text, b, "sink_topic") = a10
  BY DEF ChooseStrategy
<1>2. Strategies(text, b) = q
  BY <1>1 DEF Strategies
<1>3. /\ q[1] = a1 /\ q[2] = a2 /\ q[3] = a3 /\ q[4] = a4 /\ q[5] = a5
      /\ q[6] = a6 /\ q[7] = a7 /\ q[8] = a8 /\ q[9] = a9 /\ q[10] = a10
  <2> HIDE DEF a1, a2, a3, a4, a5, a6, a7, a8, a9, a10
  <2> QED
    OBVIOUS
<1> HIDE DEF q
<1> QED
  BY <1>2, <1>3

\* What is beside the keys is within the budget, or there is none of it.
LEMMA AddsWithin ==
    ASSUME NEW t, NEW less, NEW keys \in Nat, NEW room \in Int, Adds(t, less, keys, room)
    PROVE  t \in Nat /\ less \in Nat /\ less <= t /\ t <= Max({room, keys})
<1> DEFINE m == Max({room, keys})
<1>1. m = IF room >= keys THEN room ELSE keys
  <2>1. keys \in Int
    OBVIOUS
  <2> QED
    BY <2>1, MinMaxOfTwo
<1> HIDE DEF m
<1>2. m >= room /\ m >= keys /\ m \in Int
  BY <1>1
<1>3. t \in Nat /\ less \in Nat /\ less <= t /\ t <= m
  BY <1>2 DEF Adds, Fills
<1> QED
  BY <1>3 DEF m

\* A strategy that skips what does not fit leaves nothing out that would have.
LEMMA NothingWasted ==
    ASSUME NEW n \in Nat, NEW text \in [1 .. n -> TextPieces], NEW key \in KeyLists(n),
           NEW b \in Int
    PROVE  LET others == Others(text, key)
               sizes == Tiered(text, others, 0)
               q == TopicFirst(text, key, b)
           IN  \A i \in others : \/ \E j \in DOMAIN q : q[j].at = i
                                 \/ sizes[i] = 0
                                 \/ Total(q) + sizes[i] > b
<1> DEFINE O == Others(text, key)
           sizes == Tiered(text, O, 0)
           keys == Whole(text, key)
           K == Skipping(sizes, b - Total(keys))
           p == Placed(sizes, K)
           q == keys \o p
<1>1. keys \in PieceLists
  BY WholeOf
<1>2. Sizes(n, O, sizes)
  <2>1. 0 \in Nat
    OBVIOUS
  <2> QED
    BY <2>1, SizesOf
<1>3. Total(keys) \in Nat
  BY <1>1, ListTotals
<1>4. b - Total(keys) \in Int
  BY <1>3
<1>5. TopicFirst(text, key, b) = q
  BY DEF TopicFirst
<1> HIDE DEF O, sizes, keys
<1>6. K \in SUBSET O /\ LeavesNone(O, sizes, b - Total(keys), K)
  BY <1>2, <1>4, SkippingFits
<1> HIDE DEF K
<1>7. p \in PieceLists /\ Total(p) = Cost(sizes, K) /\ Shows(p, K)
  BY <1>2, <1>6, PlacedOf
<1> HIDE DEF p
<1>8. Total(q) = Total(keys) + Total(p) /\ Shows(q, K) /\ Total(p) \in Nat
  BY <1>1, <1>4, <1>7, ListTotals
<1> HIDE DEF q
<1>9. ASSUME NEW i \in O
      PROVE  \/ \E j \in DOMAIN q : q[j].at = i
             \/ sizes[i] = 0
             \/ Total(q) + sizes[i] > b
  <2>1. CASE i \in K
    BY <1>8, <2>1 DEF Shows
  <2>2. CASE sizes[i] = 0
    BY <2>2
  <2>3. CASE Cost(sizes, K) + sizes[i] > b - Total(keys)
    <3>1. sizes[i] \in Nat
      BY <1>2 DEF Sizes
    <3> QED
      BY <1>3, <1>7, <1>8, <2>3, <3>1
  <2> QED
    BY <1>6, <2>1, <2>2, <2>3 DEF LeavesNone
<1> QED
  BY <1>5, <1>9 DEF O, sizes

\* The two strategies of loong, where no key block is cut.
LEMMA LoongFits ==
    ASSUME NEW n \in Nat, NEW text \in [1 .. n -> TextPieces], NEW key \in KeyLists(n),
           NEW b \in Nat
    PROVE  LET k == Total(Whole(text, key))
           IN  /\ k <= b => Total(LoongTopic(text, key, b)) <= b
               /\ k <= b \div 2 => Total(LoongSink(text, key, b)) + 2 <= Max({b, k + 2})
<1> DEFINE sizes == Tiered(text, Others(text, key), 0)
           blocks == Whole(text, key)
           k == Total(blocks)
           p(r) == Placed(sizes, Skipping(sizes, r))
<1>1. blocks \in PieceLists
  BY WholeOf
<1>2. Sizes(n, Others(text, key), sizes)
  <2>1. 0 \in Nat
    OBVIOUS
  <2> QED
    BY <2>1, SizesOf
<1>3. k \in Nat
  BY <1>1, ListTotals
<1>4. ASSUME NEW r \in Int
      PROVE  p(r) \in PieceLists /\ Fills(Total(p(r)), Total(p(r - 1)), r)
  <2> HIDE DEF sizes
  <2>1. Skipping(sizes, r) \in SUBSET Others(text, key)
    BY <1>2, SkippingFits
  <2>2. p(r) \in PieceLists
    BY <1>2, <2>1, PlacedOf
  <2> QED
    BY <1>2, <2>2, PlacedFills
<1> HIDE DEF p
<1>5. ASSUME NEW c \in Nat, k <= c, NEW r \in Int
      PROVE  LET fit == FitToBudget(blocks, c)
             IN  /\ fit.total = k
                 /\ Total(fit.pieces \o p(r)) \in Nat
                 /\ Total(fit.pieces \o p(r)) <= k + r \/ Total(fit.pieces \o p(r)) = k
  <2> DEFINE fit == FitToBudget(blocks, c)
  <2> HIDE DEF blocks
  <2>1. fit.pieces \in PieceLists /\ Total(fit.pieces) = k /\ fit.total = k
    BY <1>1, <1>5, FittedKeys
  <2> HIDE DEF fit, k
  <2>2. p(r) \in PieceLists /\ Fills(Total(p(r)), Total(p(r - 1)), r)
    BY <1>4
  <2>3. Total(fit.pieces \o p(r)) = k + Total(p(r)) /\ Total(p(r)) \in Nat
    <3> DEFINE x == fit.pieces
               y == p(r)
    <3>1. x \in PieceLists /\ y \in PieceLists /\ 0 \in Int /\ Total(x) = k
      BY <2>1, <2>2
    <3> HIDE DEF x, y
    <3>2. Total(x \o y) = Total(x) + Total(y)
      BY <3>1, ListTotals
    <3>3. Total(y) \in Nat
      BY <3>1, ListTotals
    <3> QED
      BY <3>1, <3>2, <3>3 DEF x, y
  <2> DEFINE x == Total(p(r))
  <2> HIDE DEF x
  <2>4. x \in Nat /\ (x <= r \/ x = 0) /\ Total(fit.pieces \o p(r)) = k + x
    BY <2>2, <2>3 DEF Fills, x
  <2>5. k + x \in Nat /\ (k + x <= k + r \/ k + x = k)
    BY <1>3, <2>4
  <2>6. /\ Total(fit.pieces \o p(r)) \in Nat
        /\ Total(fit.pieces \o p(r)) <= k + r \/ Total(fit.pieces \o p(r)) = k
    BY <2>4, <2>5
  <2> QED
    BY <2>1, <2>6 DEF fit
<1>6. ASSUME k <= b PROVE Total(LoongTopic(text, key, b)) <= b
  <2> DEFINE fit == FitToBudget(blocks, b)
             t == Total(fit.pieces \o p(b - k))
  <2>1. b - k \in Int
    BY <1>3
  <2>2. fit.total = k /\ t \in Nat /\ (t <= k + (b - k) \/ t = k)
    <3> HIDE DEF blocks, k
    <3> QED
      BY <1>5, <1>6, <2>1
  <2>3. Total(LoongTopic(text, key, b)) = t
    <3>1. fit.total = k
      BY <2>2
    <3> HIDE DEF k
    <3>2. LoongTopic(text, key, b) = fit.pieces \o p(b - fit.total)
      BY DEF LoongTopic, p
    <3> QED
      BY <3>1, <3>2
  <2> HIDE DEF t, k
  <2> QED
    BY <1>3, <1>6, <2>2, <2>3
<1>7. ASSUME k <= b \div 2 PROVE Total(LoongSink(text, key, b)) + 2 <= Max({b, k + 2})
  <2> DEFINE half == b \div 2
             fit == FitToBudget(blocks, half)
             t == Total(fit.pieces \o p(b - k - 2))
             m == Max({b, k + 2})
  <2>1. b - k - 2 \in Int /\ half \in Nat /\ k + 2 \in Int /\ b \in Int
    BY <1>3
  <2>2. fit.total = k /\ t \in Nat /\ (t <= k + (b - k - 2) \/ t = k)
    <3> HIDE DEF blocks, k
    <3> QED
      BY <1>5, <1>7, <2>1
  <2>3. Total(LoongSink(text, key, b)) = t
    <3>1. fit.total = k
      BY <2>2
    <3> HIDE DEF k
    <3>2. LoongSink(text, key, b) = fit.pieces \o p(b - fit.total - 2)
      BY DEF LoongSink, p
    <3> QED
      BY <3>1, <3>2
  <2>4. m = IF b >= k + 2 THEN b ELSE k + 2
    <3> HIDE DEF k
    <3> QED
      BY <2>1, MinMaxOfTwo
  <2> HIDE DEF t, k, m
  <2>5. t + 2 <= m
    BY <1>3, <2>1, <2>2, <2>4
  <2> QED
    BY <2>3, <2>5 DEF m
<1> QED
  BY <1>6, <1>7

\* Every text of whole sentences is fit into every budget of 3 tokens or more.
LEMMA BudgetMeant ==
    ASSUME NEW n \in Nat, NEW text \in [1 .. n -> TextPieces], NEW budget \in Nat, budget >= 3
    PROVE  FitsBudget(text, budget)
<1> DEFINE leading == BestKeys(text)
           match == MatchingKeys(text)
           k == Total(Whole(text, match))
           h == Total(Whole(text, leading))
           kept == Strategies(text, budget)
           fewer == Strategies(text, budget - 1)
           t(s) == Total(kept[s])
           less(s) == Total(fewer[s])
<1>1. /\ leading \in KeyLists(n) /\ match \in KeyLists(n)
      /\ \A c \in ToSet(leading), i \in DOMAIN text \ ToSet(leading) : text[i].hits <= text[c].hits
  BY BestOf
<1> HIDE DEF leading, match
<1>2. budget \in Int /\ budget - 1 \in Int /\ budget - 2 \in Int
      /\ (budget - 2) - 1 = (budget - 1) - 2
  OBVIOUS
<1>3. /\ Within(t(1), less(1), budget) /\ Within(t(2), less(2), budget)
      /\ Within(t(3), less(3), budget) /\ Within(t(4), less(4), budget)
      /\ Within(t(5), less(5), budget)
  <2>1. /\ kept[1] = Truncation(text, budget) /\ kept[2] = ProjectCompress(text, budget)
        /\ kept[3] = ProjectTopic(text, match, budget) /\ kept[4] = FullPipeline(text, match, budget)
        /\ kept[5] = ProjectWithTopic(text, match, budget)
    BY StrategyAt DEF match
  <2>2. /\ fewer[1] = Truncation(text, budget - 1) /\ fewer[2] = ProjectCompress(text, budget - 1)
        /\ fewer[3] = ProjectTopic(text, match, budget - 1)
        /\ fewer[4] = FullPipeline(text, match, budget - 1)
        /\ fewer[5] = ProjectWithTopic(text, match, budget - 1)
    BY StrategyAt DEF match
  <2>3. /\ Within(Total(Truncation(text, budget)), Total(Truncation(text, budget - 1)), budget)
        /\ Within(Total(ProjectCompress(text, budget)), Total(ProjectCompress(text, budget - 1)), budget)
        /\ Within(Total(ProjectTopic(text, match, budget)),
                  Total(ProjectTopic(text, match, budget - 1)), budget)
        /\ Within(Total(FullPipeline(text, match, budget)),
                  Total(FullPipeline(text, match, budget - 1)), budget)
        /\ Within(Total(ProjectWithTopic(text, match, budget)),
                  Total(ProjectWithTopic(text, match, budget - 1)), budget)
    BY <1>1, BudgetKept
  <2> HIDE DEF kept, fewer
  <2> QED
    BY <2>1, <2>2, <2>3
<1>4. /\ k \in Nat /\ Adds(t(6), less(6), k, budget) /\ Adds(t(7), less(7), k, budget)
      /\ Adds(t(8), less(8), k, budget)
  <2>1. /\ kept[6] = TopicLast(text, match, budget) /\ kept[7] = LlmTopic(text, match, budget)
        /\ kept[8] = RagRetrieval(text, match, budget)
    BY StrategyAt DEF match
  <2>2. /\ fewer[6] = TopicLast(text, match, budget - 1)
        /\ fewer[7] = LlmTopic(text, match, budget - 1)
        /\ fewer[8] = RagRetrieval(text, match, budget - 1)
    BY StrategyAt DEF match
  <2>3. /\ k \in Nat
        /\ Adds(Total(TopicLast(text, match, budget)), Total(TopicLast(text, match, budget - 1)), k, budget)
        /\ Adds(Total(LlmTopic(text, match, budget)), Total(LlmTopic(text, match, budget - 1)), k, budget)
        /\ Adds(Total(RagRetrieval(text, match, budget)),
                Total(RagRetrieval(text, match, budget - 1)), k, budget)
    BY <1>1, <1>2, KeysFirst
  <2> HIDE DEF kept, fewer, k
  <2> QED
    BY <2>1, <2>2, <2>3
<1>5. h \in Nat /\ Adds(t(9), less(9), h, budget) /\ Adds(t(10), less(10), h, budget - 2)
  <2>1. kept[9] = TopicFirst(text, leading, budget) /\ kept[10] = TopicFirst(text, leading, budget - 2)
    BY StrategyAt DEF leading
  <2>2. /\ fewer[9] = TopicFirst(text, leading, budget - 1)
        /\ fewer[10] = TopicFirst(text, leading, (budget - 1) - 2)
    BY StrategyAt DEF leading
  <2>3. /\ h \in Nat
        /\ Adds(Total(TopicFirst(text, leading, budget)), Total(TopicFirst(text, leading, budget - 1)), h, budget)
    BY <1>1, <1>2, KeysFirst
  <2>4. Adds(Total(TopicFirst(text, leading, budget - 2)),
             Total(TopicFirst(text, leading, (budget - 2) - 1)), h, budget - 2)
    BY <1>1, <1>2, KeysFirst
  <2> HIDE DEF kept, fewer, h
  <2> QED
    BY <1>2, <2>1, <2>2, <2>3, <2>4
<1>6. \A i \in Others(text, leading) :
         \/ \E j \in DOMAIN kept[9] : kept[9][j].at = i
         \/ Tiered(text, Others(text, leading), 0)[i] = 0
         \/ Total(kept[9]) + Tiered(text, Others(text, leading), 0)[i] > budget
  <2>1. kept[9] = TopicFirst(text, leading, budget)
    BY StrategyAt DEF leading
  <2>2. LET q == TopicFirst(text, leading, budget)
        IN  \A i \in Others(text, leading) :
               \/ \E j \in DOMAIN q : q[j].at = i
               \/ Tiered(text, Others(text, leading), 0)[i] = 0
               \/ Total(q) + Tiered(text, Others(text, leading), 0)[i] > budget
    BY <1>1, <1>2, NothingWasted
  <2> HIDE DEF kept
  <2> QED
    BY <2>1, <2>2
<1>7. /\ k <= budget => Total(LoongTopic(text, match, budget)) <= budget
      /\ k <= budget \div 2 => Total(LoongSink(text, match, budget)) + 2 <= Max({budget, k + 2})
  BY <1>1, LoongFits
<1>8. /\ \A s \in 1 .. 5 : t(s) <= budget
      /\ \A s \in 1 .. 5 : less(s) <= t(s)
  <2> HIDE DEF t, less
  <2>1. \A s \in 1 .. 5 : Within(t(s), less(s), budget)
    BY <1>3
  <2> QED
    BY <2>1 DEF Within
<1>9. \A s \in 6 .. 8 : t(s) <= Max({budget, k}) /\ less(s) <= t(s)
  <2> HIDE DEF t, less, k
  <2>1. \A s \in 6 .. 8 : Adds(t(s), less(s), k, budget)
    BY <1>4
  <2>2. ASSUME NEW s \in 6 .. 8 PROVE t(s) <= Max({budget, k}) /\ less(s) <= t(s)
    <3>1. Adds(t(s), less(s), k, budget)
      BY <2>1
    <3> QED
      BY <1>2, <1>4, <3>1, AddsWithin
  <2> QED
    BY <2>2
<1>10. t(9) <= Max({budget, h}) /\ less(9) <= t(9)
  <2> HIDE DEF t, less, h
  <2> QED
    BY <1>2, <1>5, AddsWithin
<1>11. t(10) + 2 <= Max({budget, h + 2}) /\ less(10) <= t(10)
  <2> HIDE DEF t, less, h
  <2>1. t(10) \in Nat /\ less(10) <= t(10) /\ t(10) <= Max({budget - 2, h})
    BY <1>2, <1>5, AddsWithin
  <2>2. Max({budget - 2, h}) = IF budget - 2 >= h THEN budget - 2 ELSE h
    <3>1. h \in Int
      BY <1>5
    <3> QED
      BY <1>2, <3>1, MinMaxOfTwo
  <2>3. Max({budget, h + 2}) = IF budget >= h + 2 THEN budget ELSE h + 2
    <3>1. h + 2 \in Int
      BY <1>5
    <3> QED
      BY <1>2, <3>1, MinMaxOfTwo
  <2> QED
    BY <1>5, <2>1, <2>2, <2>3
<1>12. \A s \in 1 .. 10 : less(s) <= t(s)
  <2> HIDE DEF t, less
  <2> QED
    BY <1>8, <1>9, <1>10, <1>11
<1> HIDE DEF kept, fewer
<1> QED
  BY <1>1, <1>6, <1>7, <1>8, <1>9, <1>10, <1>11, <1>12 DEF FitsBudget, leading, match, kept, fewer

-----------------------------------------------------------------------------
(* Everything that is measured.                                             *)

\* What a sample has, of each kind.
SampledScores(s) ==
    /\ s.kind = "words" => s.p \in WordTexts(Words) /\ s.r \in WordTexts(Words)
    /\ s.kind = "average" => \E n \in Nat : s.results \in [1 .. n -> {{}} \cup {{v} : v \in Values}]
    /\ s.kind = "passes" =>
          s.n \in Nat \ {0} /\ s.k \in Nat \ {0} /\ s.c \in 0 .. s.n
SampledAnswers(s) ==
    /\ s.kind = "number" =>
          s.text \in WordTexts({<<"none">>, <<"cue">>} \cup ({"number"} \X {0, 1}))
    /\ s.kind = "answer" =>
          s.text \in WordTexts({<<"none">>} \cup ({"alone", "inside"} \X {0, 1}))
SampledPPO(s) ==
    /\ s.kind = "rollout" =>
          /\ \E n \in Nat : s.r \in [1 .. n -> Int] /\ s.v \in [1 .. n -> Int]
          /\ s.gamma \in Int /\ s.lam \in Int
    /\ s.kind = "penalty" =>
          /\ \E n \in Nat : s.current \in [1 .. n -> Int] /\ s.ref \in [1 .. n -> Int]
          /\ s.reward \in Int
    /\ s.kind = "kl" =>
          {s.coefficient, s.target, s.below, s.above} \subseteq Nat
    /\ s.kind = "ratio" => s.ratio \in Nat /\ s.a \in Int
SampledContexts(s) ==
    /\ s.kind = "context" =>
          /\ \E n \in Nat : s.text \in [1 .. n -> TextPieces]
          /\ s.budget \in Nat /\ s.budget >= 3
    /\ s.kind = "needles" => s.n \in Nat \ {0} /\ s.k \in Nat
    /\ s.kind = "positions" =>
          \E n \in Nat : s.results \in [1 .. n -> [front : BOOLEAN, correct : BOOLEAN]]
    /\ s.kind = "tradeoff" => \E n \in Nat : s.results \in [1 .. n -> Points]

\* The inductive invariant of MetricsAgree.
MetricsInv ==
    /\ SampledScores(sample) /\ SampledAnswers(sample)
    /\ SampledPPO(sample) /\ SampledContexts(sample)

\* A text of words is a list of any length.
LEMMA TextsAreLists ==
    ASSUME NEW W, NEW text \in WordTexts(W)
    PROVE  \E n \in Nat : text \in [1 .. n -> W]
<1>1. MaxWords \in Nat
  BY MetricsAssumption DEF MetricsAssumption
<1>2. PICK n \in 0 .. MaxWords : text \in [1 .. n -> W]
  BY DEF WordTexts
<1> QED
  BY <1>1, <1>2

\* Rewards and values are whole numbers.
LEMMA ValuesAreWhole ==
    ASSUME NEW n, NEW r \in [1 .. n -> Values]
    PROVE  r \in [1 .. n -> Int]
<1>1. Values \subseteq Int
  BY MetricsAssumption DEF MetricsAssumption
<1>2. \A i \in 1 .. n : r[i] \in Int
  BY <1>1
<1> QED
  BY <1>2

\* What is measured has the types of its kind.
LEMMA MeasureTyped == ASSUME Measure PROVE MetricsInv'
<1> USE DEF SampledScores, SampledAnswers, SampledPPO, SampledContexts
<1>1. /\ MaxSamples \in Nat /\ MaxSteps \in Nat /\ MaxBudget \in Nat /\ Values \subseteq Int
      /\ Sentences \subseteq TextPieces
      /\ Discounts \subseteq Int /\ Ratios \subseteq Nat /\ Amounts \subseteq Nat
      /\ Tradeoffs \subseteq [ratio : Nat, recall : Nat]
  BY MetricsAssumption DEF MetricsAssumption, TextPieces
<1>2. CASE \E p, r \in WordTexts(Words) : sample' = [kind |-> "words", p |-> p, r |-> r]
  BY <1>2 DEF MetricsInv
<1>3. CASE \E n \in 1 .. MaxSamples, k \in 1 .. MaxSamples + 1 : \E c \in 0 .. n :
              sample' = [kind |-> "passes", c |-> c, n |-> n, k |-> k]
  BY <1>1, <1>3 DEF MetricsInv
<1>4. CASE \E n \in 0 .. MaxSteps : \E r, v \in [1 .. n -> Values] :
              \E gamma, lam \in Discounts :
                 sample' = [kind |-> "rollout", r |-> r, v |-> v,
                            gamma |-> gamma, lam |-> lam]
  <2>1. PICK n \in 0 .. MaxSteps : \E r, v \in [1 .. n -> Values] :
           \E gamma, lam \in Discounts :
              sample' = [kind |-> "rollout", r |-> r, v |-> v, gamma |-> gamma, lam |-> lam]
    BY <1>4
  <2>2. PICK r \in [1 .. n -> Values], v \in [1 .. n -> Values] : \E gamma, lam \in Discounts :
              sample' = [kind |-> "rollout", r |-> r, v |-> v, gamma |-> gamma, lam |-> lam]
    BY <2>1
  <2>3. n \in Nat /\ r \in [1 .. n -> Int] /\ v \in [1 .. n -> Int]
    <3>1. n \in Nat
      BY <1>1
    <3>2. r \in [1 .. n -> Int]
      BY ValuesAreWhole
    <3>3. v \in [1 .. n -> Int]
      BY ValuesAreWhole
    <3> QED
      BY <3>1, <3>2, <3>3
  <2> QED
    BY <1>1, <2>2, <2>3 DEF MetricsInv
<1>5. CASE \E ratio \in Ratios, a \in Values :
              sample' = [kind |-> "ratio", ratio |-> ratio, a |-> a]
  BY <1>1, <1>5 DEF MetricsInv
<1>6. CASE \E n \in 0 .. MaxSteps : \E current, ref \in [1 .. n -> Values], v \in Values :
              sample' = [kind |-> "penalty", current |-> current, ref |-> ref, reward |-> v]
  <2>1. PICK n \in 0 .. MaxSteps : \E current, ref \in [1 .. n -> Values], v \in Values :
           sample' = [kind |-> "penalty", current |-> current, ref |-> ref, reward |-> v]
    BY <1>6
  <2>2. PICK current \in [1 .. n -> Values], ref \in [1 .. n -> Values], v \in Values :
           sample' = [kind |-> "penalty", current |-> current, ref |-> ref, reward |-> v]
    BY <2>1
  <2>3. n \in Nat /\ current \in [1 .. n -> Int] /\ ref \in [1 .. n -> Int] /\ v \in Int
    <3>1. n \in Nat /\ v \in Int
      BY <1>1
    <3>2. current \in [1 .. n -> Int]
      BY ValuesAreWhole
    <3>3. ref \in [1 .. n -> Int]
      BY ValuesAreWhole
    <3> QED
      BY <3>1, <3>2, <3>3
  <2> QED
    BY <2>2, <2>3 DEF MetricsInv
<1>7. CASE \E coefficient, target, below, above \in Amounts :
              sample' = [kind |-> "kl", coefficient |-> coefficient, target |-> target,
                         below |-> below, above |-> above]
  <2>1. PICK coefficient \in Amounts, target \in Amounts, below \in Amounts, above \in Amounts :
           sample' = [kind |-> "kl", coefficient |-> coefficient, target |-> target,
                      below |-> below, above |-> above]
    BY <1>7
  <2>2. {coefficient, target, below, above} \subseteq Nat
    BY <1>1
  <2> QED
    BY <2>1, <2>2 DEF MetricsInv
<1>8. CASE \E n \in 0 .. MaxSteps : \E r \in [1 .. n -> {{}} \cup {{v} : v \in Values}] :
              sample' = [kind |-> "average", results |-> r]
  <2>1. PICK n \in 0 .. MaxSteps : \E r \in [1 .. n -> {{}} \cup {{v} : v \in Values}] :
           sample' = [kind |-> "average", results |-> r]
    BY <1>8
  <2>2. n \in Nat
    BY <1>1
  <2> DEFINE S == {{}} \cup {{v} : v \in Values}
  <2>3. PICK r \in [1 .. n -> S] : sample' = [kind |-> "average", results |-> r]
    BY <2>1
  <2> HIDE DEF S
  <2>4. sample'.kind = "average" /\ \E m \in Nat : sample'.results \in [1 .. m -> S]
    BY <2>2, <2>3
  <2> QED
    BY <2>4 DEF MetricsInv, S
<1>9. CASE \E t \in WordTexts({<<"none">>} \cup ({"alone", "inside"} \X {0, 1})) :
              sample' = [kind |-> "answer", text |-> t]
  BY <1>9 DEF MetricsInv
<1>10. CASE \E t \in WordTexts({<<"none">>, <<"cue">>} \cup ({"number"} \X {0, 1})) :
               sample' = [kind |-> "number", text |-> t]
  BY <1>10 DEF MetricsInv
<1>11. CASE \E t \in WordTexts(Sentences), budget \in 3 .. MaxBudget :
               sample' = [kind |-> "context", text |-> t, budget |-> budget]
  <2>1. PICK t \in WordTexts(Sentences), budget \in 3 .. MaxBudget :
           sample' = [kind |-> "context", text |-> t, budget |-> budget]
    BY <1>11
  <2>2. PICK n \in Nat : t \in [1 .. n -> Sentences]
    BY TextsAreLists
  <2>3. t \in [1 .. n -> TextPieces] /\ budget \in Nat /\ budget >= 3
    BY <1>1, <2>2
  <2> QED
    BY <2>1, <2>3 DEF MetricsInv
<1>12. CASE \E n \in 1 .. MaxSamples, k \in 0 .. MaxSamples :
               sample' = [kind |-> "needles", n |-> n, k |-> k]
  BY <1>1, <1>12 DEF MetricsInv
<1>13. CASE \E r \in WordTexts([front : BOOLEAN, correct : BOOLEAN]) :
               sample' = [kind |-> "positions", results |-> r]
  <2>1. PICK r \in WordTexts([front : BOOLEAN, correct : BOOLEAN]) :
           sample' = [kind |-> "positions", results |-> r]
    BY <1>13
  <2>2. \E n \in Nat : r \in [1 .. n -> [front : BOOLEAN, correct : BOOLEAN]]
    BY TextsAreLists
  <2> QED
    BY <2>1, <2>2 DEF MetricsInv
<1>14. CASE \E n \in 0 .. MaxSteps : \E r \in [1 .. n -> Tradeoffs] :
               sample' = [kind |-> "tradeoff", results |-> r]
  <2>1. PICK n \in 0 .. MaxSteps : \E r \in [1 .. n -> Tradeoffs] :
           sample' = [kind |-> "tradeoff", results |-> r]
    BY <1>14
  <2>2. PICK r \in [1 .. n -> Tradeoffs] :
           sample' = [kind |-> "tradeoff", results |-> r]
    BY <2>1
  <2>3. n \in Nat /\ Tradeoffs \subseteq Points
    BY <1>1 DEF Points
  <2>4. r \in [1 .. n -> Points]
    BY <2>3
  <2> QED
    BY <2>2, <2>3, <2>4 DEF MetricsInv
<1> QED
  BY <1>2, <1>3, <1>4, <1>5, <1>6, <1>7, <1>8, <1>9, <1>10, <1>11, <1>12, <1>13, <1>14 DEF Measure

\* The scores of an evaluation.
LEMMA ScoresMeant == ASSUME SampledScores(sample) PROVE ScoresAgree
<1>1. ASSUME sample.kind = "words"
      PROVE  LET p == sample.p r == sample.r
             IN  /\ LcsLength(p, r) =
                       Max({Len(s) : s \in Subsequences(p) \cap Subsequences(r)})
                 /\ BagOverlap(p, r) =
                       Max({Cardinality(s) : s \in {t \in SUBSET DOMAIN p :
                              \A w \in Words : Cardinality({i \in t : p[i] = w}) <= Count(w, r)}})
                 /\ Equal(F1Score(p, r), <<1, 1>>) <=> ToSet(p) = ToSet(r)
                 /\ Len(p) = Len(r) => (Equal(ExactMatch(p, r), <<1, 1>>) <=> p = r)
  <2> DEFINE p == sample.p
             r == sample.r
  <2>1. p \in WordTexts(Words) /\ r \in WordTexts(Words)
    BY <1>1 DEF SampledScores
  <2> HIDE DEF p, r
  <2>2. p \in Seq(Words) /\ r \in Seq(Words)
    <3>1. p \in Seq(Words)
      BY <2>1, WordsOf
    <3>2. r \in Seq(Words)
      BY <2>1, WordsOf
    <3> QED
      BY <3>1, <3>2
  <2>3. LcsLength(p, r) = Max({Len(s) : s \in Subsequences(p) \cap Subsequences(r)})
    BY <2>2, LcsLongest
  <2>4. BagOverlap(p, r) = Max({Cardinality(s) : s \in Fair(p, r)})
    BY <2>1, OverlapMost
  <2>5. Equal(F1Score(p, r), <<1, 1>>) <=> ToSet(p) = ToSet(r)
    BY <2>1, F1Fair
  <2>6. Len(p) = Len(r) => (Equal(ExactMatch(p, r), <<1, 1>>) <=> p = r)
    BY <2>1, ExactFair
  <2> QED
    BY <2>3, <2>4, <2>5, <2>6 DEF Fair, p, r
<1>2. ASSUME sample.kind = "average"
      PROVE  LET avg == AverageMetrics(sample.results)
                 said == UNION ToSet(sample.results)
             IN  avg[2] > 0 => /\ avg[1] <= Max(said) * avg[2]
                               /\ avg[1] >= Min(said) * avg[2]
                               /\ Cardinality(said) = 1 => avg[1] = Max(said) * avg[2]
  <2>1. PICK n \in Nat : sample.results \in [1 .. n -> {{}} \cup {{v} : v \in Values}]
    BY <1>2 DEF SampledScores
  <2> QED
    BY <2>1, AverageFair
<1>3. ASSUME sample.kind = "passes"
      PROVE  LET draws == kSubset(Min({sample.k, sample.n}), 1 .. sample.n)
             IN  Equal(PassAtK(sample.c, sample.n, sample.k),
                       <<Cardinality({d \in draws : d \cap (1 .. sample.c) # {}}),
                         Cardinality(draws)>>)
  BY <1>3, PassesOf DEF SampledScores
<1> QED
  BY <1>1, <1>2, <1>3 DEF ScoresAgree

\* The answers that are read.
LEMMA AnswersMeant == ASSUME SampledAnswers(sample) PROVE AnswersAgree
<1>1. ASSUME sample.kind = "number"
      PROVE  LET text == sample.text
                 Number(i) == i \in DOMAIN text /\ text[i][1] = "number"
                 announced == {text[i + 1][2] : i \in {j \in DOMAIN text :
                                   text[j][1] = "cue" /\ Number(j + 1)}}
                 all == {text[i][2] : i \in {j \in DOMAIN text : Number(j)}}
             IN  \A v \in all : announced = {v} \/ all = {v} => ExtractGSM8K(text) = v
  BY <1>1, NumbersRead DEF SampledAnswers
<1>2. ASSUME sample.kind = "answer", NEW i \in DOMAIN sample.text,
             sample.text[i][1] = "alone",
             \A j \in DOMAIN sample.text : j # i => sample.text[j] = <<"none">>
      PROVE  /\ ParseMMLU(sample.text) = sample.text[i][2]
             /\ ParseCEval(sample.text) = sample.text[i][2]
  BY <1>2, LettersRead DEF SampledAnswers
<1> QED
  BY <1>1, <1>2 DEF AnswersAgree

\* The arithmetic of PPO.
LEMMA PPOMeant == ASSUME SampledPPO(sample) PROVE PPOAgrees
<1>1. ASSUME sample.kind = "rollout"
      PROVE  LET n == Len(sample.r)
                 V(t) == IF t > n THEN 0 ELSE sample.v[t]
                 Later(t) == [u \in t .. n |-> Power(sample.gamma * sample.lam, u - t)
                                 * (sample.r[u] + sample.gamma * V(u + 1) - V(u))]
             IN  \A t \in 1 .. n :
                    Advantages(sample.r, sample.v, sample.gamma, sample.lam)[t] =
                       SumFunction(Later(t))
  <2> DEFINE r == sample.r
             v == sample.v
             gamma == sample.gamma
             lam == sample.lam
  <2>1. PICK n \in Nat : r \in [1 .. n -> Int] /\ v \in [1 .. n -> Int]
    BY <1>1 DEF SampledPPO
  <2>2. gamma \in Int /\ lam \in Int
    BY <1>1 DEF SampledPPO
  <2>3. Len(r) = n
    BY <2>1, ListOf, LenProperties
  <2> HIDE DEF r, v, gamma, lam
  <2>4. ASSUME NEW t \in 1 .. n
        PROVE  Advantages(r, v, gamma, lam)[t] = Discounted(n, r, v, gamma, lam, t)
    BY <2>1, <2>2, AdvantagesSum
  <2> QED
    BY <2>3, <2>4 DEF Discounted, r, v, gamma, lam
<1>2. ASSUME sample.kind = "penalty"
      PROVE  LET kl == ApproxKL(sample.current, sample.ref)
                 penalized == Penalized(sample.reward, kl, 1)
                 swapped == Penalized(sample.reward, ApproxKL(sample.ref, sample.current), 1)
             IN  /\ penalized[1] + swapped[1] = 2 * sample.reward * kl[2]
                 /\ sample.current = sample.ref => penalized[1] = sample.reward * kl[2]
                 /\ (\A i \in DOMAIN sample.ref : sample.current[i] >= sample.ref[i])
                       => penalized[1] <= sample.reward * kl[2]
  <2>1. PICK n \in Nat : sample.current \in [1 .. n -> Int] /\ sample.ref \in [1 .. n -> Int]
    BY <1>2 DEF SampledPPO
  <2>2. sample.reward \in Int
    BY <1>2 DEF SampledPPO
  <2> QED
    BY <2>1, <2>2, PenaltyFair
<1>3. ASSUME sample.kind = "kl"
      PROVE  /\ sample.below <= sample.above =>
                   AdaptKL(1, sample.below, sample.target) <= AdaptKL(1, sample.above, sample.target)
             /\ AdaptKL(sample.coefficient, sample.target, sample.target)
                   = 5 * sample.coefficient
  <2>1. /\ sample.coefficient \in Nat /\ sample.target \in Nat
        /\ sample.below \in Nat /\ sample.above \in Nat
    BY <1>3 DEF SampledPPO
  <2> QED
    BY <2>1, KLAdapts
<1>4. ASSUME sample.kind = "ratio"
      PROVE  LET s == Surrogate(sample.ratio, sample.a, 20)
             IN  /\ s <= sample.ratio * sample.a
                 /\ s < sample.ratio * sample.a <=>
                       \/ sample.a > 0 /\ sample.ratio > 120
                       \/ sample.a < 0 /\ sample.ratio < 80
  <2>1. sample.ratio \in Nat /\ sample.a \in Int
    BY <1>4 DEF SampledPPO
  <2>2. Clips(sample.ratio, sample.a)
    BY <2>1, SurrogateClips
  <2> QED
    BY <2>2 DEF Clips
<1> QED
  BY <1>1, <1>2, <1>3, <1>4 DEF PPOAgrees

\* The contexts.
LEMMA ContextsMeant == ASSUME SampledContexts(sample) PROVE ContextsAgree
<1>1. ASSUME sample.kind = "context" PROVE FitsBudget(sample.text, sample.budget)
  <2>1. PICK n \in Nat : sample.text \in [1 .. n -> TextPieces]
    BY <1>1 DEF SampledContexts
  <2>2. sample.budget \in Nat /\ sample.budget >= 3
    BY <1>1 DEF SampledContexts
  <2> QED
    BY <2>1, <2>2, BudgetMeant
<1>2. ASSUME sample.kind = "needles" PROVE NeedlesHidden(sample.n, sample.k)
  BY <1>2, NeedlesFair DEF SampledContexts
<1>3. ASSUME sample.kind = "positions" PROVE HalvesAgree(sample.results)
  BY <1>3, HalvesFair DEF SampledContexts
<1>4. ASSUME sample.kind = "tradeoff" PROVE AreaAgrees(sample.results)
  BY <1>4, AreaFair DEF SampledContexts
<1> QED
  BY <1>1, <1>2, <1>3, <1>4 DEF ContextsAgree

\* Whatever is measured, of any length and with any constants, each score, advantage
\* and penalty of the code is what it is meant to be, an answer is read right, and no
\* strategy wastes its budget or exceeds it but as FitsBudget says.
THEOREM MetricsAreMeant == MetricsSpec => []MetricsAgree
<1>1. MetricsInit => MetricsInv
  BY DEF MetricsInit, MetricsInv, SampledScores, SampledAnswers, SampledPPO, SampledContexts
<1>2. MetricsInv /\ [MetricsNext]_sample => MetricsInv'
  <2>1. CASE MetricsNext
    BY <2>1, MeasureTyped DEF MetricsNext
  <2>2. CASE MetricsInv /\ UNCHANGED sample
    BY <2>2 DEF MetricsInv
  <2> QED
    BY <2>1, <2>2
<1>3. MetricsInv => MetricsAgree
  BY ScoresMeant, AnswersMeant, PPOMeant, ContextsMeant DEF MetricsInv, MetricsAgree
<1> QED
  BY <1>1, <1>2, <1>3, PTL DEF MetricsSpec
=============================================================================
