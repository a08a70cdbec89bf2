------------------------------ MODULE Rollouts ------------------------------
(***************************************************************************)
(* RLHFPipeline.train: every iteration takes a batch of the dataset, has   *)
(* the policy answer its prompts, scores the answers and does one PPO      *)
(* step.  Rewards are whole numbers.                                       *)
(***************************************************************************)
EXTENDS Integers, FiniteSets, SequencesExt

CONSTANTS
    MaxRecords,      \* the longest dataset (a bound of the model)
    MaxIterations,   \* num_iterations (a bound of the model)
    Rewards          \* what the reward model can say

ASSUME RolloutsAssumption ==
    /\ MaxRecords \in Nat /\ MaxIterations \in Nat
    /\ Rewards \subseteq Int

VARIABLES
    records,         \* len(dataset)
    planned,         \* num_iterations
    iteration,       \* i
    trained,         \* of each record, by its place from 0: how often
    progress,        \* reward_progress: average rewards, and the iterations they
                     \* are of
    finalReward,     \* final_reward
    outcome          \* "running", "returned" or "raised"

rolloutVars == <<records, planned, iteration, trained, progress, finalReward, outcome>>

RolloutsInit ==
    /\ records \in 0 .. MaxRecords
    /\ planned \in 0 .. MaxIterations
    /\ iteration = 0
    /\ trained = [r \in 0 .. records - 1 |-> 0]
    /\ progress = <<>>
    /\ finalReward = 0
    /\ outcome = "running"

\* Mutant: the slice of iteration i without its modulo.
BatchUnwrapped(i) == {r \in 0 .. records - 1 : i = r}

\* dataset[i % n:(i + 1) % n]: one record, and none when i + 1 is a multiple of n;
\* a dataset of one record is taken whole.
Batch(i) ==
    IF records <= 1 THEN 0 .. records - 1
    ELSE {r \in 0 .. records - 1 : i % records <= r /\ r < (i + 1) % records}

\* PPOTrainer.train_step returns the average of the rewards of its rollouts.
Average(rewards, batch) ==
    FoldFunction(+, 0, rewards) \div Cardinality(batch)

\* One turn of the loop.  An empty batch is skipped.
TrainIteration ==
    /\ outcome = "running" /\ iteration < planned
    /\ iteration' = iteration + 1
    /\ IF Batch(iteration) = {}
       THEN UNCHANGED <<trained, progress, finalReward>>
       ELSE \E rewards \in [Batch(iteration) -> Rewards] :
               LET avg == Average(rewards, Batch(iteration))
               IN  /\ trained' = [r \in DOMAIN trained |->
                                     IF r \in Batch(iteration) THEN trained[r] + 1
                                     ELSE trained[r]]
                   /\ progress' = Append(progress, <<iteration, avg>>)
                   /\ finalReward' = IF iteration = planned - 1 THEN avg ELSE finalReward
    /\ UNCHANGED <<records, planned, outcome>>

\* The model fails, or its answer has no tokens: generate_rollout takes the
\* logarithm of their number, and the whole training ends.
RolloutRaises ==
    /\ outcome = "running" /\ iteration < planned
    /\ Batch(iteration) # {}
    /\ outcome' = "raised"
    /\ UNCHANGED <<records, planned, iteration, trained, progress, finalReward>>

TrainReturns ==
    /\ outcome = "running" /\ iteration = planned
    /\ outcome' = "returned"
    /\ UNCHANGED <<records, planned, iteration, trained, progress, finalReward>>

RolloutsNext == TrainIteration \/ RolloutRaises \/ TrainReturns

RolloutsSpec == RolloutsInit /\ [][RolloutsNext]_rolloutVars

-----------------------------------------------------------------------------
\* Round and round the dataset: of more than one record each but the last, which
\* no slice has, is trained once in every len(dataset) iterations; there is an
\* average, in their order, for the iterations that trained and no others; and
\* final_reward is that of the last iteration, or 0 if that one was the last
\* record's turn.
TrainedInTurn ==
    LET Turn(r) == {i \in 0 .. iteration - 1 : i % records = r}
        had == {r \in 0 .. records - 1 : records = 1 \/ r # records - 1}
    IN  /\ \A r \in 0 .. records - 1 :
              trained[r] = IF r \in had THEN Cardinality(Turn(r)) ELSE 0
        /\ {p[1] : p \in ToSet(progress)} = UNION {Turn(r) : r \in had}
        /\ \A j, k \in DOMAIN progress : j < k => progress[j][1] < progress[k][1]
        /\ outcome = "returned" =>
              finalReward = IF progress # <<>> /\ Last(progress)[1] = planned - 1
                            THEN Last(progress)[2] ELSE 0
=============================================================================
