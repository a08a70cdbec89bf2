----------------------------- MODULE Evaluator -----------------------------
(***************************************************************************)
(* Evaluator: benchmarks are registered, and run on one model by name, all *)
(* on one model, or all on several.  A benchmark asks the model its        *)
(* questions one by one and scores the answers.                            *)
(***************************************************************************)
EXTENDS Integers, FiniteSetsExt, SequencesExt

CONSTANTS
    Models,
    Names,           \* names of benchmarks
    Questions,       \* how many questions a benchmark has
    MaxBenchmarks,   \* the most benchmarks registered (a bound of the model)
    MaxCalls,        \* how many calls are made (a bound of the model)
    NoResult         \* there is no result

ASSUME EvaluatorAssumption ==
    /\ Names \subseteq {"mmlu", "ceval", "gsm8k", "humaneval"}
    /\ {Questions, MaxBenchmarks, MaxCalls} \subseteq Nat \ {0}
    /\ NoResult \notin [by : Models \cup {NoResult}, right : -1 .. Questions]

VARIABLES
    benchmarks,      \* self.benchmarks: their names
    latest,          \* self._results, by name
    call,            \* the call under way, its outcome when it has ended
    asked,           \* the models of the call
    queue,           \* the runs it has yet to make: model and benchmark
    asking,          \* the run under way: questions asked, answers right
    returned,        \* what the call has gathered, by model and name
    calls

evaluatorVars == <<benchmarks, latest, call, asked, queue, asking, returned, calls>>

Nothing == [run \in {} |-> NoResult]
Error == [by |-> NoResult, right |-> -1]
Unasked == [asked |-> 0, right |-> 0]

EvaluatorInit ==
    /\ benchmarks \in {<<n>> : n \in Names} \cup {<<>>}
    /\ latest = [n \in Names |-> NoResult]
    /\ call = "none"
    /\ asked = <<>>
    /\ queue = <<>>
    /\ asking = Unasked
    /\ returned = Nothing
    /\ calls = 0

Idle == call \in {"none", "returned", "compared", "raised"}

\* register_benchmark; nothing keeps a name from being registered twice.
RegisterBenchmark(n) ==
    /\ Idle /\ Len(benchmarks) < MaxBenchmarks
    /\ benchmarks' = Append(benchmarks, n)
    /\ call' = "none"
    /\ UNCHANGED <<latest, asked, queue, asking, returned, calls>>

Begin(kind, models, runs) ==
    /\ Idle /\ calls < MaxCalls
    /\ calls' = calls + 1
    /\ call' = kind
    /\ asked' = models
    /\ queue' = runs
    /\ asking' = Unasked
    /\ returned' = Nothing
    /\ UNCHANGED <<benchmarks, latest>>

\* run: the first benchmark of the name; a name that is not there raises.
RunByName(m, n) ==
    /\ Contains(benchmarks, n)
    /\ Begin("run", <<m>>, <<[model |-> m, name |-> n]>>)

\* run_all, and compare_models, which is run_all of one model after the other.
RunAll(models) ==
    Begin("run_all", models,
          FlattenSeq([i \in DOMAIN models |->
              [j \in DOMAIN benchmarks |-> [model |-> models[i], name |-> benchmarks[j]]]]))

Running == call \in {"run", "run_all"} /\ queue # <<>>
With(f, key, value) == [k \in DOMAIN f \cup {key} |-> IF k = key THEN value ELSE f[k]]

\* A question is answered; after the last one the result is kept.
Answered(right) ==
    /\ LET now == [asked |-> asking.asked + 1,
                   right |-> asking.right + (IF right THEN 1 ELSE 0)]
           run == Head(queue)
           result == [by |-> run.model, right |-> now.right]
       IN  IF now.asked < Questions
           THEN asking' = now /\ UNCHANGED <<latest, queue, returned>>
           ELSE /\ latest' = [latest EXCEPT ![run.name] = result]
                /\ returned' = With(returned, run, result)
                /\ queue' = Tail(queue)
                /\ asking' = Unasked
    /\ UNCHANGED <<benchmarks, call, asked, calls>>

\* Each benchmark asks its next question: mmlu and ceval, subject by subject, and
\* gsm8k compare what they parse from the answer with what is expected; humaneval
\* executes the answer, which is wrong too if that raises.
Ask(name, right) == Running /\ Head(queue).name = name /\ Answered(right)

AskMMLU(right) == Ask("mmlu", right)
AskCEval(right) == Ask("ceval", right)
AskGSM8K(right) == Ask("gsm8k", right)
AskHumanEval(right) == Ask("humaneval", right)

\* Mutant: a run that failed is given the result the benchmark had before.
BenchmarkFailsSilently ==
    /\ Running
    /\ asking' = Unasked
    /\ IF call = "run"
       THEN call' = "raised" /\ queue' = <<>> /\ UNCHANGED returned
       ELSE /\ returned' = With(returned, Head(queue),
                  IF latest[Head(queue).name] = NoResult THEN Error
                  ELSE latest[Head(queue).name])
            /\ queue' = Tail(queue)
            /\ UNCHANGED call
    /\ UNCHANGED <<benchmarks, latest, asked, calls>>

\* The model raises: run raises, run_all notes the error and goes on.
BenchmarkFails ==
    /\ Running
    /\ asking' = Unasked
    /\ IF call = "run"
       THEN call' = "raised" /\ queue' = <<>> /\ UNCHANGED returned
       ELSE /\ returned' = With(returned, Head(queue), Error)
            /\ queue' = Tail(queue)
            /\ UNCHANGED call
    /\ UNCHANGED <<benchmarks, latest, asked, calls>>

\* The answer is code that exits when it is executed: SystemExit is no Exception,
\* so it ends the call, all runs of it.
SolutionExits ==
    /\ Running /\ Head(queue).name = "humaneval"
    /\ call' = "raised"
    /\ queue' = <<>>
    /\ asking' = Unasked
    /\ UNCHANGED <<benchmarks, latest, asked, returned, calls>>

CallReturns ==
    /\ call \in {"run", "run_all"} /\ queue = <<>>
    /\ call' = IF call = "run" THEN "returned" ELSE "compared"
    /\ UNCHANGED <<benchmarks, latest, asked, queue, asking, returned, calls>>

\* generate_comparison_markdown: a row for every benchmark that any model has a
\* result of, with a cell for every model: what it got, "ERROR", or "-".
Report ==
    [n \in {run.name : run \in DOMAIN returned} |->
        [m \in {run.model : run \in DOMAIN returned} |->
            LET run == [model |-> m, name |-> n]
            IN  IF run \in DOMAIN returned THEN returned[run] ELSE NoResult]]

EvaluatorNext ==
    \/ \E n \in Names : RegisterBenchmark(n)
    \/ \E m \in Models, n \in Names : RunByName(m, n)
    \/ \E models \in {s \in SeqOf(Models, 2) : IsInjective(s) /\ s # <<>>} : RunAll(models)
    \/ \E right \in BOOLEAN :
          AskMMLU(right) \/ AskCEval(right) \/ AskGSM8K(right) \/ AskHumanEval(right)
    \/ BenchmarkFails
    \/ SolutionExits
    \/ CallReturns

EvaluatorSpec == EvaluatorInit /\ [][EvaluatorNext]_evaluatorVars

-----------------------------------------------------------------------------
\* A comparison is of what it says.  When it returns it has every benchmark for
\* every model, each scored by that model or marked as failed, whichever others
\* failed, so that its report has no gap; and the summary has for every benchmark,
\* if none is registered twice, what the last of the models that did not fail it
\* got in the comparison.
ResultsAttributed ==
    call = "compared" =>
        /\ DOMAIN returned = [model : ToSet(asked), name : ToSet(benchmarks)]
        /\ \A run \in DOMAIN returned :
              returned[run] = Error \/ returned[run].by = run.model
        /\ benchmarks # <<>> =>
              \A n \in ToSet(benchmarks), m \in ToSet(asked) : Report[n][m] # NoResult
        /\ IsInjective(benchmarks) =>
              \A n \in ToSet(benchmarks) :
                 LET Result(i) == returned[[model |-> asked[i], name |-> n]]
                     passed == {i \in DOMAIN asked : Result(i) # Error}
                 IN  passed # {} => latest[n] = Result(Max(passed))
=============================================================================
