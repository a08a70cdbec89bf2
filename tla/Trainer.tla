------------------------------ MODULE Trainer ------------------------------
(***************************************************************************)
(* The life of one fine-tuning: finetune_cli train with LoraTrainer, which *)
(* may be started again with --resume, and finetune_cli merge; or a caller *)
(* of DPOTrainer.  The trainer of the library writes a checkpoint every    *)
(* save_steps steps and keeps the last few.                                *)
(*                                                                         *)
(* Weights are the number of steps they were trained for.                  *)
(***************************************************************************)
EXTENDS Integers, FiniteSets

CONSTANTS
    Steps,           \* steps of a whole training
    SaveSteps,       \* save_steps
    SaveTotalLimit,  \* save_total_limit
    MaxRuns,         \* how often it is run (a bound of the model)
    None             \* no weights

ASSUME TrainerAssumption ==
    /\ {Steps, SaveSteps, SaveTotalLimit} \subseteq Nat \ {0}
    /\ MaxRuns \in Nat /\ None \notin Nat

VARIABLES
    kind,            \* "lora" or "dpo"
    phase,           \* where the process is; "none": there is no process
    model,           \* weights in memory
    runs,            \* how often it was run
    checkpoints,     \* steps of the checkpoints in output_dir
    disk,            \* weights in output_dir, in lora-final, and merged; and
                     \* whether the merged ones have a tokenizer
    best             \* history: the most steps trained since the last fresh start

trainerVars == <<kind, phase, model, runs, checkpoints, disk, best>>

\* An output_dir, a lora-final and an output of merge that do not exist.
NothingSaved == [output |-> None, final |-> None, merged |-> None, tokenizer |-> FALSE]

TrainerInit ==
    /\ kind \in {"lora", "dpo"}
    /\ phase = "none"
    /\ model = None
    /\ runs = 0
    /\ checkpoints = {}
    /\ disk = NothingSaved
    /\ best = 0

\* The constructors of both trainers load the model, and train begins with the
\* base model and another output_dir.  Without data train raises before anything
\* changes.
Begins ==
    /\ phase = "none" /\ runs < MaxRuns
    /\ phase' = "training"
    /\ runs' = runs + 1
    /\ UNCHANGED kind

Afresh ==
    /\ model' = 0
    /\ best' = 0
    /\ checkpoints' = {}
    /\ disk' = NothingSaved

\* LoraTrainer begins afresh, or from a checkpoint that --resume names.
StartLora ==
    /\ kind = "lora" /\ Begins
    /\ \/ Afresh
       \/ /\ model' \in checkpoints
          /\ best' = model'
          /\ UNCHANGED <<checkpoints, disk>>

\* DPOTrainer, with a frozen reference model beside the policy, only afresh.
StartDPO == kind = "dpo" /\ Begins /\ Afresh

\* The checkpoints that are kept: the last ones.
Rotated(steps) ==
    {s \in steps : Cardinality({t \in steps : t > s}) < SaveTotalLimit}

\* A step of the library's trainer, which saves a checkpoint at its end.
TrainStep ==
    /\ phase = "training" /\ model < Steps
    /\ model' = model + 1
    /\ best' = IF model + 1 > best THEN model + 1 ELSE best
    /\ checkpoints' = IF (model + 1) % SaveSteps = 0
                      THEN Rotated(checkpoints \cup {model + 1}) ELSE checkpoints
    /\ UNCHANGED <<kind, phase, runs, disk>>

\* train returns; LoraTrainer has saved the model to output_dir.
TrainEnds ==
    /\ phase = "training" /\ model = Steps
    /\ phase' = "trained"
    /\ disk' = IF kind = "lora" THEN [disk EXCEPT !.output = model] ELSE disk
    /\ UNCHANGED <<kind, model, runs, checkpoints, best>>

\* Mutant: an interrupted training is not saved.
InterruptForgets ==
    /\ phase = "training"
    /\ phase' = "trained"
    /\ UNCHANGED <<kind, model, runs, checkpoints, disk, best>>

\* Ctrl-C: train returns {"interrupted": True}; LoraTrainer saves before it does.
Interrupt ==
    /\ phase = "training"
    /\ phase' = "trained"
    /\ disk' = IF kind = "lora" THEN [disk EXCEPT !.output = model] ELSE disk
    /\ UNCHANGED <<kind, model, runs, checkpoints, best>>

\* Any other exception of the library, or the end of the process: what was not
\* in a checkpoint is gone, with close or without.
Dies ==
    /\ phase \in {"training", "trained", "merging", "merged"}
    /\ phase' = "none"
    /\ model' = None
    /\ UNCHANGED <<kind, runs, checkpoints, disk, best>>

\* save, of a trainer that has trained: of LoraTrainer to lora-final, where
\* cmd_train calls it after an interrupted training too.
SaveLora ==
    /\ kind = "lora" /\ phase = "trained"
    /\ phase' = "saved"
    /\ disk' = [disk EXCEPT !.final = model]
    /\ UNCHANGED <<kind, model, runs, checkpoints, best>>

\* save of DPOTrainer: nothing else writes its policy.
SaveDPO ==
    /\ kind = "dpo" /\ phase = "trained"
    /\ phase' = "saved"
    /\ disk' = [disk EXCEPT !.final = model]
    /\ UNCHANGED <<kind, model, runs, checkpoints, best>>

\* The end of the with statement: close, and the process ends.
Closes ==
    /\ phase = "saved"
    /\ phase' = "none"
    /\ model' = None
    /\ UNCHANGED <<kind, runs, checkpoints, disk, best>>

CloseLora == kind = "lora" /\ Closes
CloseDPO == kind = "dpo" /\ Closes

\* cmd_merge loads the base model and the adapter of lora-final, which raises if
\* there is none, and merges them.
MergeLoads ==
    /\ kind = "lora" /\ phase = "none" /\ disk.final # None
    /\ phase' = "merging"
    /\ model' = disk.final
    /\ UNCHANGED <<kind, runs, checkpoints, disk, best>>

\* The merged weights are saved, over those of an earlier merge.
MergeSaves ==
    /\ phase = "merging"
    /\ phase' = "merged"
    /\ disk' = [disk EXCEPT !.merged = model]
    /\ UNCHANGED <<kind, model, runs, checkpoints, best>>

\* Then the tokenizer is, and the merge returns whether or not the hub took both.
MergeReturns ==
    /\ phase = "merged"
    /\ phase' = "none"
    /\ model' = None
    /\ disk' = [disk EXCEPT !.tokenizer = TRUE]
    /\ UNCHANGED <<kind, runs, checkpoints, best>>

TrainerNext ==
    \/ StartLora \/ StartDPO \/ TrainStep \/ TrainEnds \/ Interrupt \/ Dies
    \/ SaveLora \/ SaveDPO \/ CloseLora \/ CloseDPO
    \/ MergeLoads \/ MergeSaves \/ MergeReturns

TrainerSpec == TrainerInit /\ [][TrainerNext]_trainerVars

-----------------------------------------------------------------------------
\* What a fine-tuning can lose.  Of the steps since it began there is always a
\* checkpoint that is less than save_steps behind, whatever the process died of
\* and however often it was resumed; after train of LoraTrainer has returned, an
\* interrupt included, output_dir has every step; lora-final has them after save;
\* what is merged was saved in both places, and no tokenizer is there without it.
WorkKept ==
    LET saved == checkpoints \cup {0}
    IN  /\ kind = "lora" => \E s \in saved : best - s < SaveSteps
        /\ kind = "lora" /\ phase \in {"trained", "saved"} => disk.output = model
        /\ phase = "saved" => disk.final = model
        /\ disk.merged # None => disk.output # None /\ disk.final # None
        /\ disk.tokenizer => disk.merged # None
        /\ phase \in {"merging", "merged"} => model = disk.final
=============================================================================
