----------------------------- MODULE MCTraining -----------------------------
(* Small instances, for one run of TLC, of the parts that make a model and  *)
(* judge it and share no state: a synthetic dataset, a file of              *)
(* conversations, a fine-tuning, a PPO training, the metrics, an evaluator. *)
(* A behaviour is one of the part that Init chooses.                        *)
EXTENDS Dataset, Conversations, Trainer, Rollouts, Metrics, Evaluator, TLC

VARIABLE part

allVars == <<datasetVars, conversationVars, trainerVars, rolloutVars, sample,
             evaluatorVars, part>>

\* "x" and "y" become each other when their words are shuffled.
MCShuffle == "x" :> {"x", "y"} @@ "y" :> {"x"} @@ "p" :> {}
Plain(b) == [body |-> b, tags |-> FALSE, blanks |-> FALSE]
MCSeeds == << [instruction |-> Plain("x"), output |-> Plain("y")],
              [instruction |-> Plain("y"), output |-> Plain("x")] >>
MCRewards == {-1, 0, 1}
MCValues == {-1, 0, 2}
MCTiers == <<1, 2, 3>>
MCCuts == <<2, 1>>
MCTradeoffs == [ratio : 0 .. 4, recall : 0 .. 2]
MCSentences == [hits : 0 .. 2, size : {1, 3}]

MCInit ==
    /\ part \in {"dataset", "conversations", "trainer", "rollouts", "metrics", "evaluator"}
    /\ DatasetInit /\ TrainerInit /\ RolloutsInit /\ MetricsInit /\ EvaluatorInit
    /\ IF part = "conversations" THEN ConversationsInit
       ELSE format = "none" /\ entry = {} /\ loaded = Unread
    /\ part # "dataset" => factor = 1
    /\ part # "trainer" => kind = "lora"
    /\ part # "rollouts" => records = 0 /\ planned = 0
    /\ part # "evaluator" => benchmarks = <<>>

MCNext ==
    \/ /\ part = "dataset" /\ DatasetNext
       /\ UNCHANGED <<conversationVars, trainerVars, rolloutVars, sample, evaluatorVars, part>>
    \/ /\ part = "conversations" /\ ConversationsNext
       /\ UNCHANGED <<datasetVars, trainerVars, rolloutVars, sample, evaluatorVars, part>>
    \/ /\ part = "trainer" /\ TrainerNext
       /\ UNCHANGED <<datasetVars, conversationVars, rolloutVars, sample, evaluatorVars, part>>
    \/ /\ part = "rollouts" /\ RolloutsNext
       /\ UNCHANGED <<datasetVars, conversationVars, trainerVars, sample, evaluatorVars, part>>
    \/ /\ part = "metrics" /\ MetricsNext
       /\ UNCHANGED <<datasetVars, conversationVars, trainerVars, rolloutVars, evaluatorVars, part>>
    \/ /\ part = "evaluator" /\ EvaluatorNext
       /\ UNCHANGED <<datasetVars, conversationVars, trainerVars, rolloutVars, sample, part>>

MCSpec == MCInit /\ [][MCNext]_allVars
=============================================================================
