# Free Chat in TLA+

Free Chat is a chat platform: a Go control plane (`api-gateway`, `auth-service`,
`chat-service`) in front of Python model servers (`llm-inference`), with
PostgreSQL, Redis, Consul and RocketMQ beside them, and Python libraries for
retrieval, context building, training and evaluation. This directory holds
TLA+ models of the parts whose correctness depends on the order in which things
happen, or on how several limits, losses and boundary cases meet, TLC
configurations that check them on small instances, and proofs for every instance
that TLAPS checks.

Paths below are relative to the repository's root; `CS` stands for
`services/chat-service/internal`.

## 1. The system

| Part | State it keeps | Operations | What is hard about it |
|---|---|---|---|
| model load balancing: `CS/infrastructure/adapter/model_adapter.go`, `.../persistence/cache/model_cache.go`, `CS/interfaces/chat.go` | sorted set `llm_models:<model>` in Redis, one score per instance | list the healthy instances, pick one and add 1 in a Lua script, subtract 1 in a deferred call | nothing ties a score to the handlers that raised it: crashes, lost and repeated calls, Redis restarts |
| chat store: `CS/infrastructure/adapter/chat_repo_adapter.go`, `.../cache/session_message_cache.go`, repositories, `mq/` | sessions and messages in Redis (with expiry), rows in PostgreSQL, events in RocketMQ | save, look up, list, delete; write-back goroutines; a consumer | three stores written one after the other, each may fail; readers trust the cache first |
| answer streaming: `CS/interfaces/{chat,llm}.go`, `services/llm-inference/src/{server,hf_engine}.py` | gRPC streams, a Go channel, a pool of worker threads, a lock, a thread per generation | generate, pass on, forward, save the whole answer | five processes and threads per answer, cancellation, errors and shutdown in between |
| KV cache manager: `inference-engine/memory-manager/kv_cache_manager.py` | free blocks, blocks per request (twice), LRU order, prefix cache | allocate (evicting), free, set policy, store and look up prefixes | the same fact in three places; a request can be its own victim |
| context builder: `CS/infrastructure/context/` | none | build a prompt from the last ten messages, compress it when over budget | order, budget, the current message in the history |
| api-gateway: `services/api-gateway/internal/` | token bucket in Redis, cookies | rate limit, authenticate, relay streams as SSE | the bucket's clock is read by the caller; fail-open; disconnects |
| auth-service | users in PostgreSQL | register, log in, refresh | check-then-insert race |
| registry: `pkg/registry/` | a Consul entry per process | register, deregister, discover | order of start-up and shutdown |
| llm-inference engines: `services/llm-inference/src/` | one engine, its lock and its metrics | created by a factory, `generate`, `stream_generate`, `close` | several worker threads, a thread per stream that nobody joins, metrics rebuilt outside the lock |
| inference optimisation: `.../optimization/` | a token budget; two LRU caches | `speculate`, get/set/store/match | accepted prefixes, drafts and fallbacks against one budget |
| engine cache adapter: `inference-engine/memory-manager/engine_cache_adapter.py` | a set of sequences beside the manager's | start, grow, end a sequence, clear | the manager evicts on its own |
| context-engine (Python) | none | `BuildContext`: retrieve, select, compress, lay out | several parts share one budget |
| rag | a vector store, a BM25 index, a file | ingest, retrieve, clear, save, load; chunkers | one fact in two stores; overlap and size of chunks |
| synthetic-data, finetune, alignment, rlhf | records on disk, checkpoints, a model in memory | generate, filter, augment, split; load; train, save, merge; PPO iterations | what counts as a duplicate; interrupts and resumption; slices |
| evaluation | latest result per benchmark | run, run_all, compare; metrics | one of several runs fails |
| research: `research/long_context`, `longbench`, `longbench_v1`, `loong` | none | fit a text into a budget, hide needles in it, score where they were found | ten ways to spend one budget, each with its own order and rounding |
| web-ui, chat-cli, scripts | - | user interfaces, tooling | not modelled |

A chat request runs through most of it: the gateway checks the token bucket and
the JWT and opens `StreamChat` on a chat service; that saves the user's message
(chat store), loads the history and builds the prompt (context builder), picks
an instance (load balancing), opens the inference stream, forwards the tokens
and saves the answer (answer streaming, chat store), and gives the load back. The
inference server's worker thread calls one engine, shared by all workers. The
context engine and the RAG pipeline are services and libraries of their own, with
no caller on that path; the data, training and evaluation programs are run by hand,
one after the other: what synthetic-data writes, finetune loads, and evaluation
compares the models that come out.

The hazards, each at its line, are listed in `PROJECT.json`; the properties
below are aimed at them.

## 2. Modules

| Module | Models | Checked by | Proofs |
|---|---|---|---|
| `Balancer` | what the balancer promises, without counters | refinement target | |
| `ModelLoad` | the counters in Redis, handlers, faults | `MCModelLoad` | `ModelLoadProofs` |
| `OrderedDict` | the order of the keys of Python's `OrderedDict` | with `KVCache`, `TensorCache` | `Foundations` |
| `KVCache` | block pool, LRU, prefix cache | `MCKVCache` | `KVCacheProofs` |
| `EngineCache` | the adapter over `KVCache` (extends it) | `MCKVCache` | `KVCacheProofs` |
| `ChatStore` | cache, database, broker, write-back | `MCChatStore` | `ChatStoreProofs` |
| `TokenStream` | one answer from engine thread to client | `MCTokenStream` | `TokenStreamProofs` |
| `RateLimit` | the gateway's token bucket of one address | `MCRateLimit` | `RateLimitProofs` |
| `Engine` | an engine, its factory, lock, calls and metrics | `MCServices` | `ServicesProofs` |
| `Decoder` | what a decoder promises | refinement target | |
| `Speculative` | one call of `speculate` | `MCServices` | `ServicesProofs` |
| `TensorCache` | `KVCache` and `PrefixCache` of llm-inference | `MCServices` | `ServicesProofs` |
| `Ordering` | Python's `sorted`, of a finite set | with `ContextEngine`, `Chunker` | `Foundations` |
| `ContextEngine` | one `BuildContext` request | `MCServices` | `ServicesProofs` |
| `Chunker` | one document and either chunker | `MCServices` | `ServicesProofs` |
| `Rag` | the RAG pipeline and its two stores | `MCServices` | `ServicesProofs` |
| `Dataset` | synthetic data up to the split | `MCTraining` | `TrainingProofs` |
| `Conversations` | loaders of conversations and pairs | `MCTraining` | `TrainingProofs` |
| `Trainer` | the life of a fine-tuning | `MCTraining` | `TrainingProofs` |
| `Rollouts` | the iterations of a PPO training | `MCTraining` | `TrainingProofs` |
| `LongContext` | the budget strategies and scores of the research benchmarks | with `Metrics` | `TrainingProofs` |
| `Metrics` | the metrics, answer extraction, PPO estimates | `MCTraining` | `TrainingProofs` |
| `Evaluator` | benchmarks, comparisons, results | `MCTraining` | `TrainingProofs` |
| `Foundations` | lemmas on data that the proof modules share | | itself |

The parts of `MCServices`, and those of `MCTraining`, share no state with each
other. Each of these two modules therefore puts one part into a behaviour, chosen
in its `Init` (`part`), and the other parts stand still: the states are the sum of
the parts' states, not their product, and nothing is lost, as an interleaving of
independent parts shows nothing that the parts alone do not show. The engine is the
component that composes with `TokenStream`: `TokenStream` has one answer from end
to end with the engine reduced to a lock and a thread, `Engine` looks into it.
`EngineCache` composes the adapter with the manager, and its actions are those of
`KVCache` with the adapter's set beside them.

In every module the operators whose comment begins with *Mutant* are not part of
the model: they are wrong variants of a mapped definition, kept to show that a
property would notice.

### ModelLoad and Balancer

Variables: `registered` is Consul's list of healthy instances; `member` and
`load` are the sorted set; `snapshot` is what Redis last saved to disk; `pc`,
`view` and `addr` are a handler's place in `StreamChat`, the list it got from
Consul and its local variable `targetAddr`.

* `DiscoverService`, `SelectAndRegister`, `SelectFails`, `StreamEnds` and
  `DecrementTaskCount` are the handler's steps. The Lua script is atomic in
  Redis, so it is one step; its loop over ARGV is the recursive function of
  `BestInstance`, one `ScanInstance` per turn, and the order of ARGV, which Consul
  does not fix, is chosen freely. The script uses -1 for "no minimum yet", and so
  does the scan.
* `SelectLost`, `SelectResent`, `DecrementFails`, `DecrementResent`, `Crash` and
  `RedisRestarts` are the failures: the request's context ends between the
  script and its reply, go-redis sends a command again after a read timeout
  (its default is three retries), the clean-up context of 5 seconds ends, a process dies, Redis
  (which has a volume and `restart: always` in `docker-compose-control.yml`)
  comes back with an old save. Each is counted in `faults`.

`NeverUndercounts` and `OvercountBounded` say how far a score may be from the
number of requests in flight, given the failures so far.
`LeastLoadedUnlessUndercounted` says that the script picks a least score as long
as no score can be too low, and `ChoosesByTrueLoad` that, until something fails,
the whole protocol implements `Balancer`: the choice by the true numbers, with
`offered <- view` and `serving <- addr`.

### KVCache

`free` and `owned` are `BlockPool`, `handed` is `_request_blocks`, `lru` the
ordered dictionary of `LRUEvictionPolicy`, `order` and `cached` the prefix
cache. `allocate` is three actions (`AllocateDirect`, `EvictVictim` per turn of
its loop, `AllocateReturns`), between which no other method runs, as the manager
is used from one thread; the split lets the invariants be stated for the states
between two evictions. `set.pop()` may take any block, so `Grabs` is a choice.
The sliding-window and heavy-hitter policies never have victims, because nobody
calls `record_position` and `update_score`; they are one policy here.

`selfEvicted` and `unseen` are history variables: the requests that were the
victim of their own call, and those that hold blocks the current policy was
never told of, because `set_eviction_policy` came later. The properties
`HandedMatchesPool` and `HoldersEvictable` except just these; the second also says
that no victim is listed twice.

`EngineCache` adds `EngineCacheAdapter._sequences`. `InitializeSequence` and
`OnTokenGenerated` are `AllocateDirect` with the adapter's bookkeeping,
`FinalizeSequence` is `Free` with it, and `Clear` is the loop over all sequences
followed by the emptying of the prefix cache. `user`, which `AdapterInit` chooses,
says whether the manager is called directly or through the adapter; `UserNext` is
`KVCache`'s `Next` or `AdapterNext` accordingly. `ClearReachesAll` says that, through
the adapter, whoever holds blocks is known to it, so that `clear` leaves nothing
allocated.

### ChatStore

Sessions and messages are stored the same way and are both *items*: a key in
Redis (`keys`), membership of a sorted set (`listed`), a row (`row`), possibly
an event in the broker (`queue`) and goroutines about to write it back to the
cache (`backfill`). A worker is a request; each of its calls of Redis, RocketMQ
or PostgreSQL is a step. A pipeline of Redis commands is sent in one write and
read by Redis as one buffer, so it is one step; the two commands of
`GetSessionMessages` (ZREVRANGE, then MGET) are two. Contents and order of lists
are left out, and a page is as long as its list.

### TokenStream

Per request: the handler, the pump goroutine of `GetGeneratedToken`, the
unbuffered channel between them (a rendezvous, `TakeToken`), the inference
stream (`wire`), the server's worker thread out of a pool of `PoolSize`, and the
engine's thread, which needs the engine's lock. `HalfCloses` says whether the
caller ends its side of the inference stream: the repository's `test_client.py`
does, the chat service does not. The run that passes is about a caller that
does; `TokenStream_halfclose` is the chat service as it is.

`SavedIsWhole` says that an answer is saved only if every chunk of it was
forwarded, `PumpLeakedOnlyBySend` that the receiving goroutine is left behind
on its channel only when a `Send` to the client failed. `HandlersEnd` and
`WorkersComeBack` except what a generation thread that died (`ThreadDied`) holds
up: nothing ends the streamer its worker waits on, and that worker is then
missing for every other request.

### RateLimit

`exists`, `tokens` and `updated` are the hash of one address in Redis; `stamp`
is the clock as each request read it before it sent the script, so scripts run
in any order. Time and tokens are integers in the same unit: a tick is the time
in which the bucket gains one unit, a token is `Token` units and a second
`Qps * Token` ticks, so fractions of a token are kept. `Allow` and `Deny` are the
two results of the script; `Resend` is a script that ran and is sent again,
`FailOpen` an `Eval` that reports an error (the request is then let through),
`LoseBucket` the loss of the key. Every run of the script is `TakeToken`.

`turnedBack` is a history variable: how far `updated_at` has gone back in all.
`RateUpToReordering` says that reordering is the only way to get more out of the
bucket than its rate, and by how much at most.

### Engine

One engine and the calls of its methods by worker threads. `CreateByFactory` and
`CreateDirectly` are the two ways to one (`Built` is `EngineFactory.create` with
both checks of the quantisation's name: the registry's, which ignores case, and
that of `EngineConfig`, which does not). `Begin` to `StoreMetrics` are a call:
`StartModel`/`EndModel`/`ModelRaises` are `model.generate`, in `HFEngine` under
`lock`; for a stream it runs in a thread that goes on when the consumer closes the
generator (`Abandon`). Metrics are replaced by an object built field by field from
the one found, which is why `ReadField` is one action per operand and
`StoreMetrics` another. A field is the set of calls it has counted rather than a
sum, so that a lost call can be told from a small one. `stored` and `during` are
history variables.

`OneGeneration`: an HFEngine runs one generation at a time, those of abandoned
streams included. `MetricsLoseOnlyOverlaps`: a share can be lost only to a call
that was building its own metrics meanwhile. `AnswersEnd` (for this part `CallsEnd`):
a call ends, whatever other calls do, but for a stream whose thread died.

### Speculative and Decoder

`speculate` as a loop of `Draft`, then `RejectAll` or `Accept(k)`; acceptance may
stop anywhere, since it compares probabilities with random numbers. Of a piece of
text only the model that wrote it is kept. `DecoderSpec` is a refinement:
`Decoder` with `text <- generated` only ever appends, keeps its budget and stops.
`BudgetKept` is the reason: what was generated and what remains are `max_tokens`
at any moment. Without both models the target answers alone, with a length of its
own, and no budget is promised.

### TensorCache

`entries` is the ordered dictionary of either class, and `Set`, `Get`, `Delete` and
`ClearCache` are its operations (`OrderedDict` has what they do to the order).
`lastUse` is a history
variable that counts uses, against which `EvictsLeastRecent` judges evictions. The
same property says that `match_prefix` finds an entry of which the text is a
continuation. `Shared` is the length of the common beginning, and scores are
compared as products instead of quotients.

### ContextEngine and Chunker

Both are one step each (a request is answered, a document is cut) over all small
inputs. A text of `ContextEngine` is a sequence of sentences with sizes and hits;
the response is the list of tokens, each named by its sentence and place, so the
properties can speak of loss and order. A document of `Chunker` is a sequence of
characters of three kinds (blanks, stops, letters), each with its place, and a chunk is a sequence of these.
`WithinBudget` and `RelevantThenNewest` are what the strategies are for, and
`NothingLost` is what a chunker must not do to a document.

### Rag

`store` is the vector store by chunk id, `index` the list in `BM25Retriever`,
`file` what `save` wrote. Scores are not modelled: any of the stored chunks may be
ranked first, and any of the indexed ones with a word of the query. `Retrieve` is
also `query` and `stream_query`, which put what is retrieved into a prompt.
`StoredIsIndexed` relates the two stores, `ResultsConsistent` what one call
returns; `ClearedIsGone`, which the documentation promises, fails.

### Dataset and Conversations

`Dataset` is `SynthPipeline.run` (`Generate`, `Filter`, `Augment`) followed by
`load_alpaca`, `sample` and `split`. `Sample` keeps any of the records in the order
they had; the code shuffles them, and no property is about their order. A text is what it says, whether it has tags
and whether blanks surround it, because these are what the filter, the
augmentation and the loader treat differently. `Conversations` is one entry of a
file (or one pair for DPO) and what the loader of its format makes of it:
`LoadFile` for conversations, `LoadPreferences` for pairs. `NoLeak` says when an
evaluated record was trained too. `TrainsOnAnswers` says that the part that is learnt
is an answer to the part that is the prompt, and that a pair is kept exactly when it
is one prompt with two different answers.

### Trainer

Weights are the number of steps they were trained for, and `None` where there are
none. `StartLora` is the program being started, afresh or with `--resume` from any
checkpoint there is, `StartDPO` afresh only; `Dies` ends it anywhere; `Interrupt` is
Ctrl-C, which `train` turns into a return value. `SaveLora`, `SaveDPO`, `CloseLora` and
`CloseDPO` end a training, and `MergeLoads`, `MergeSaves` and `MergeReturns` are the
merge of a saved adapter into its base model. `WorkKept` says what is on disk at each
stage, and that a death costs a LoRA training, which alone can be resumed, less than
`save_steps` steps.

### Rollouts and Evaluator

`Rollouts` is `RLHFPipeline.train`; `Batch` is its slice, with the modulo on both
ends. `TrainedInTurn` says how often each record was trained on (in its turns, but
never the last of several), for which iterations there is an average reward, and
what `final_reward` is.

`Evaluator` follows a call question by question (`AskMMLU`, `AskCEval`, `AskGSM8K`,
`AskHumanEval`, as the benchmarks differ in what they do with an answer); a benchmark
may raise in the middle (`BenchmarkFails`) and a generated program may exit
(`SolutionExits`). `RunByName` is `run`, `RunAll` is `run_all` and `compare_models`.
`ResultsAttributed` says that a comparison has for each model and benchmark that
model's result or its failure, and that the summary has, of each benchmark, the
result of the last model that did not fail it.

### Metrics and LongContext

`Metrics` compares the metrics with reference definitions over all small samples
(`MetricsAgree`): F1 as overlap of bags, ROUGE-L by the longest common subsequence,
pass@k by counting samples, advantages as a double sum, the numbers a benchmark reads
off an answer.

`LongContext` has the strategies with which the research benchmarks fit a text into a
budget, the placing of needles, and the scores by position and by compression; its
four claims (`FitsBudget`, `NeedlesHidden`, `HalvesAgree`, `AreaAgrees`) are the last
conjunct of `MetricsAgree`. A text is a sequence of sentences, each with its size and
its hits. `FitsBudget` says which strategies keep to their budget and by what the
others exceed it, that nothing that would have fit is left out, that a larger budget
never keeps less, and that key sentences are those with the most hits.

The state of `Metrics` is one sample at a time, the arguments of the functions under
comparison. What is drawn beside it are constants (`Discounts`, `Ratios`, `Amounts`,
`Tradeoffs`), so that the run tries a few values of each and the theorem is about all.

## 3. Runs

| Run | Instance | Shows |
|---|---|---|
| `ModelLoad` | 3 handlers in 2 processes, 2 instances, one failure in all, of any kind | `TypeOK`, the two bounds, least-loaded choice, refinement of `Balancer` |
| `KVCache` | 3 blocks, 3 requests, 2 prefixes for 1 place, 2 policies, with and without the adapter | `TypeOK`, `PoolPartitioned`, `HandedMatchesPool`, `HoldersEvictable`, `ClearReachesAll` |
| `ChatStore_sync` | 2 requests, 1 session, 2 messages, no broker; Redis, PostgreSQL, process fail | `TypeOK`, `AckedDurable`, `DeleteCascades`, `RecentItemsListed` |
| `ChatStore_mq` | 1 request beside consumer and write-backs, broker, every failure and expiry | `RecentItemsListed` |
| `ChatStore_broker` (violation) | broker, nothing fails | the consumer drops every event: `AckedDurable` fails |
| `TokenStream` | 2 requests, 1 worker thread, a chunk and the final signal, every fault | `TypeOK`, `SavedIsWhole`, `PumpLeakedOnlyBySend`, `HandlersEnd`, `WorkersComeBack` |
| `TokenStream_halfclose` (violation) | the chat service's caller, 1 request | nobody half-closes: `HandlersEnd` fails |
| `RateLimit` | 3 requests, 1 token per second, 2 ticks per token, 5 ticks, one failure | `TypeOK`, `RateUpToReordering`, `PromiseKept` |
| `Services` | 2 calls of an engine; a budget of 5 tokens, drafts of 3, gamma 2; 2 places for 3 keys; 3 sentences in texts of up to 4; documents of up to 6 characters; 2 documents in 2 editions | the eleven properties of the six parts, above |
| `Services_factory` (violation) | the same | `FactoryDelivers`: no configuration gives a HuggingFace engine |
| `Services_clear` (violation) | the same | `ClearedIsGone`: a cleared chunk is retrieved |
| `Training` | 2 records of 3 bodies, conversations of up to 3 turns, 5 steps and 3 runs, 3 records and 5 iterations, 4 words, texts of 4 sentences and budgets up to 7, 2 models and comparisons of up to 2 of the 4 benchmarks with 2 questions each | the six properties of the six parts, above |

**Why the bounds are enough.** Three handlers are the fewest with two in one
process and one in another, so that a crash leaves handlers alive and a choice
has a competitor; two instances make a choice (unequal loads that are not zero
come from a failure that left a score too high). A single failure shows each
effect by itself; that effects add up is what the theorems say. Three requests
over three blocks let one call evict two victims, or itself and another, and a
prefix cache of one place with two prefixes evicts on every new one. Two workers
put every pair of calls side by side; two messages are the fewest for which a
list can have a part. One worker thread for two requests makes the pool the
bottleneck; with one chunk and the final signal that follows it, part of an
answer already exists. Five ticks are two tokens and a half at the rate of the
`RateLimit` run: enough to empty a bucket, have a request denied and see it come
back after its Retry-After; three requests are the fewest for which one is denied
between a promise and its test while a third arrives late. For longer times and
more requests there are the theorems.

In `Services`, two calls are enough for one to overlap, overtake, lose to or wait
for the other, and what holds for more is in `ServicesProofs`. A budget of 5 with gamma
2 has full rounds, a last round cut short by what remains, and rejected rounds. Two
places for three keys, one of which begins with another, evict and let prefixes
compete. Texts of four sentences of three kinds have more hits than `KeyCount` and
more sentences than levels (three); budgets are negative, not set, smaller than
one sentence, and larger than all. Six characters are twice the larger chunk and
have room for separators between words; an overlap may be larger than
a chunk. Two editions, one shorter than the other, leave a chunk behind, and five
indexed chunks hold both editions of one document and the longer one of the other. In
`Training`, five steps with a checkpoint every two end between two checkpoints;
three runs are a death, a resumption and an end; five iterations over three
records go round nearly twice; two models and two of the benchmarks, one of which may
execute code, are the fewest with which a result could be shown for another. Texts of
four sentences of six kinds, with budgets of 3 to 7 tokens, have more key sentences
than are taken, more others than fit, and sentences in every tier: the tiers are the
newest 1, 2 and 3 sentences instead of 5, 20 and 50, the key sentences 2 instead of 3.

**Symmetry** is used only where it is sound: instances, the two handlers of one
process, blocks, workers, messages and the requests of one address are
interchangeable in runs without liveness. `Services` and `Training` use none.

**Bounds that are not in the code.** `MaxFaults` (failures in all), `MaxAsk`
(blocks asked for at a time), `MaxBackfill` (write-backs of one item that wait at
the same time), `Chunks`, `MaxTime` (the length of a behaviour of `RateLimit`) and
its `MaxFailures`; `MaxUses` (uses of a cache), `MaxDraft`, `MaxText`,
`MaxIndexed`; `MaxNum`, `MaxTurns`, `MaxRuns`, `MaxRecords`, `MaxIterations`,
`MaxWords`, `MaxSamples`, `MaxSteps`, `MaxBudget`, `MaxBenchmarks`, `MaxCalls`.

**Deadlock** is checked except where the system may stop: for `TokenStream`, where
everything has ended when all requests have, and for `Services` and `Training`,
whose requests, calls and programs come to an end.

**Fairness.** `TokenStream`: weak fairness of each goroutine and thread that can
take a step: the Go scheduler, Python threads and gRPC's thread pool see to
that. Nothing forces requests to come, clients to leave or faults to happen.
There is no fairness between requests for the lock: an engine thread that is
runnable gets it when it is free, and each holder gives it back. `MCServices`: weak
fairness of the steps of each call of an engine (threads are scheduled, a
generation is bounded by `max_new_tokens`, the consumer of a stream goes on or
closes it) and of the one thread of `speculate`. A call is not forced to begin. No
other run needs fairness.

## 4. Proofs

The proof modules prove, for any constants that satisfy the assumptions of the
modules they extend:

* `ModelLoadProofs!TypeCorrect`: `Spec => []TypeOK`.
* `ModelLoadProofs!NoHiddenLoad` and `LoadIsGivenBack`: `NeverUndercounts` and
  `OvercountBounded`. Neither is inductive: a restart of Redis replaces every
  score by one from the last save, so the invariant `IInv` also bounds the saved
  scores (`SnapshotBounded`): a saved score is never below minus the repeated
  decrements so far nor above all handlers plus the overcount so far. A restart
  then costs at most `Cardinality(Handlers)` in either direction, which is the
  slack `Shortfall` and `Excess` give it. `IInvStep` has one step per action;
  the steps that change a score use that exactly one handler enters or leaves
  `InFlight(i)` (`TakenInFlight`, `GivenBackInFlight`).
* `ModelLoadProofs!LeastLoadedChosen` and `ImplementsBalancer`:
  `LeastLoadedUnlessUndercounted` and the refinement of `Balancer`. `ScanUnfolds` says
  what the script's loop has after each turn and `BestOf`, by induction over ARGV, that
  the instance it ends with has the least score if no score is below 0, in whatever
  order the instances come. `ChoiceReady` is the invariant (a selecting handler has a
  list that is not empty, and only members have scores). For the refinement,
  `ScoresAreTrue` turns the two bounds into an equation while nothing has failed, and
  `BalancerStep` maps each step to a step of `Balancer` or a stutter.
* `KVCacheProofs!TypeCorrect`, `NoBlockLostOrShared`, `ManagerAgreesWithPool`,
  `EveryHolderEvictable` and `ClearLeavesNothing`: `TypeOK`, `PoolPartitioned`,
  `HandedMatchesPool`, `HoldersEvictable`, `ClearReachesAll`, for a manager called
  directly or through the adapter. The two facts about blocks need each other and the
  types, so `IInv` is their conjunction. `Reach` adds that the policy's list and the
  victims of a call have nobody twice and miss nobody who holds blocks and is not
  `unseen`, and that the prefix cache is no longer than its maximum; `Known`, that a
  call in progress is for a sequence of the adapter, which is what makes
  `ClearReachesAll` inductive. One lemma per action shows that each part is kept.
* `ChatStoreProofs!TypeCorrect` and `Cascades`: `TypeOK` and `DeleteCascades`.
  That a deleted message stays out of the database is not inductive: a save of it
  could still be under way. So `IInv` says what is known of each call by where it
  is (`CallOK`): a save is of an id not yet acknowledged, no two calls save the
  same id (`OneSaver`), a deletion past the messages has none of those
  acknowledged before it left in the database, and what a deletion dooms was
  acknowledged. `WorkerStepKeeps` shows once that a step of one request cannot
  disturb this for the others; the lemmas for the operations then only look at
  their own call.
* `ChatStoreProofs!DurableWithoutBroker`: `AckedDurable` under the assumption
  `~UseMQ` (no name server configured). With the broker it is false, as
  `ChatStore_broker` shows.
* `ChatStoreProofs!NothingRecentHidden`: the action property `RecentItemsListed`.
  `ListInv` says that what has a key is in its sorted set unless its session is being
  deleted, and that a call between its two reads of Redis has the ids of what it found.
* `TokenStreamProofs!TypeCorrect`, `OnlyWholeAnswersSaved` and `PumpsEndWithHandlers`:
  `TypeOK`, `SavedIsWhole`, `PumpLeakedOnlyBySend`, for any number of requests, workers
  and chunks. The invariant `FlowOK` counts the chunks of an answer wherever they are:
  what was sent, what handler and pump hold and what is on the wire are together never
  more than what the worker passed on, and all of it once the final signal is out. It
  also says that nothing follows an end on the wire and how handler and pump end.
* `RateLimitProofs!TypeCorrect`, `RateBounded`, `RetryAfterSuffices`: `TypeOK`,
  `RateUpToReordering`, `PromiseKept`, for any rate, length of time and number of
  failures. The first bound becomes inductive with the tokens still in the bucket
  and `updated` for the time: `taken + tokens <= granted + updated + turnedBack`.
  A promise that is still good satisfies `tokens + (promise - updated) >= Token`:
  by then the bucket holds a token even if no script runs in between, and a denied
  script takes nothing and cannot make this worse.

* `ServicesProofs!OneAtATime` and `LostOnlyByOverlap`: `OneGeneration` and
  `MetricsLoseOnlyOverlaps`, for any number of calls. The invariant has four
  parts: types; `Locking`, that a call that runs the model of an HFEngine holds the
  lock; `Reading`, that a field a call has read has every share stored so far, but
  for those stored since it began to read and those lost before; and `Losing`, that
  a stored share is in the metrics or was stored while another call, which has
  stored since, was building.
* `ServicesProofs!SpeculationWithinBudget` and `ImplementsDecoder`: `BudgetKept` and
  the refinement of `Decoder`, for any gamma, budget and drafts. `BudgetKept` is itself
  inductive; the refinement then shows that each action is `Extend`, `Stop`, or a
  stutter, which rests on a lemma about what `\o` and `Append` leave of a sequence.
* `ServicesProofs!LeastRecentEvicted`: `EvictsLeastRecent`, for caches of any size.
  `CacheInv` says that the entries are sorted by their last use and that what is not
  there was used before all of them.
* `ServicesProofs!ContextsFit` and `KeySentencesFirst`: `WithinBudget` and
  `RelevantThenNewest`, for texts, budgets and compressions of any length. The invariant
  (`ContextInv`) is that an answer is one of the `Contexts` of its request; the work is
  in the lemmas. `Ascended` says what sorting a finite set gives, `SelectOf` and
  `OthersOf` what that makes of the key sentences and the rest; `NewestOf` and
  `CompressOf` that a compression is the newest sentences, each from its start, up to
  some number of them; `LaidOut` names where in the answer the key text and the rest are.
* `ServicesProofs!DocumentsAreWhole`: `NothingLost`, for documents of any length.
  `Merging` is the invariant of the loop over parts: the chunks so far open no later than
  some place `lo`, the current chunk closes after it, and together they have every letter
  read. `MergeKeeps` shows it for one part, whether it joins, begins or closes a chunk;
  `MergeUnfolds` and `PartsOf` make a step of the fold one part of the text.
  `WindowsWell` and `SentencesWell` are the two other ways to cut.
* `ServicesProofs!NothingStoredUnindexed` and `RetrievalsConsistent`:
  `StoredIsIndexed` and the action property `ResultsConsistent`. `load` brings back an
  old store, so the file must be known to be indexed too (`RagInv`); nothing is ever
  removed from the index, which keeps both.
* `TrainingProofs!WorkIsKept`: `WorkKept`, for any number of steps, interval and
  limit. That less than `save_steps` steps are lost needs to know that the newest
  checkpoint is a multiple of `save_steps` less than `save_steps` behind, and that
  rotation never removes the newest.
* `TrainingProofs!EachInTurn`: `TrainedInTurn`, for any number of records and
  iterations. `BatchOf` shows that the slice of an iteration is the record whose turn
  it is, if any slice has that; `Counted`, `Listed` and `Rewarded` say what is known in
  the middle of a training.
* `TrainingProofs!ResultsAreTheModels`: `ResultsAttributed`, for any models, benchmarks
  and answers. What makes it inductive: results and runs to come are together every
  benchmark of every model (`Shared`), of one benchmark the models of the results come
  before those yet to run (`Sequenced`, from the order of the queue, `RunsInOrder`), and
  the summary has the result of the last that passed (`Summed`).
* `TrainingProofs!HalvesApart`: `NoLeak`, for data of any length. `FilterUnfolds` turns
  the fold of `Filtered` into one record after the other, `FilterCleans` shows by
  induction that what comes out has no tags, nothing refused and no record twice;
  `Prepared` carries that through augmentation (which adds no tags) and `sample` (which
  takes no record twice), `Halved` says what the split does.
* `TrainingProofs!AnswersAreTrained`: `TrainsOnAnswers`, for entries of any length. A
  file is read once, so the proof is about the loaders: `Trimmed` and `TrimmedTurns` say
  what removing the trailing messages leaves, `ShareGPTTrains`, `PairTrains` and
  `AlpacaTrains` what each format makes of an entry.
* `TrainingProofs!MetricsAreMeant`: `MetricsAgree`, for texts, rollouts, results and
  budgets of any length. A step only takes the next sample, so the invariant
  (`MetricsInv`) is the types of each kind of sample and the work is in the lemmas, one
  group per metric. `LcsLongest` says that the table of ROUGE-L has at each place the
  most words its two beginnings have alike (`MostAlike`), `OverlapMost` that the overlap
  of bags is the largest fair matching of words, `F1Fair` that the score is 1 exactly
  for the same words, `PassesOf` that pass@k is the share of samples with an answer that
  passes (by Pascal's rule, `WaysStep`), and `AdvantagesSum` that the loop backwards
  over a rollout gives the double sum. `SurrogateClips` and `KLAdapts` are about the PPO
  loss and its penalty, `NumbersRead` and `LettersRead` about what is read off an
  answer. `NeedlesFair`, `HalvesFair`, `AreaFair` and `BudgetMeant` are the four claims
  of `LongContext`; the last goes strategy by strategy, by `SkippingFits`,
  `PlacedFills`, `KeysFirst`, `NothingWasted` and `LoongFits`.

Each proof module has one lemma or step per action of its component, and under it
one step per part of the invariant that the action can disturb.

**Induction.** The library states induction with a predicate as a parameter, which the
provers cannot instantiate. `Foundations` therefore has it with a set instead:
`NatInductionSet`, that a set of natural numbers with 0 that is closed under successor
is all of them, follows from facts about finite sets alone. From it come bounded
induction, existence of functions defined by recursion (`BoundedRecursionExists`), and
what a flattened list (`Flattened`) or a fold from the left (`IterationExists`,
`IteratedUpto`) has step by step: a recursive definition is a `CHOOSE`, which is worth
nothing until some function is shown to satisfy its equation. A recursion from the end
of a list has `BackwardRecursionExists`, and a sum over a finite set `SetInduction`,
from which `SumUnfolds`, `SumUnion`, `SumMoved` and `SumCounts` follow. So the theorems
about the script's scan, the queue of a comparison, trimmed conversations, filtered data
and the metrics hold for lists of any length.

**Assumptions.** A proof uses the `ASSUME` of the modules it extends and nothing else;
each is a type of a constant or a fact the code has: sets of handlers and instances are
finite, block counts and limits are natural numbers, `save_steps` is positive, `None` and
`NoResult` are no values, texts are sequences of sentences, each of at least a token and
none of them the sink, each level of compression keeps at least one character, the
seed examples of a domain are records, a sentence of a benchmark has a number of hits
and a size, rewards and discounts are whole numbers, and ratios, amounts and the points
of a trade-off natural ones. TLC evaluates them in the runs.

**Only model-checked.** Every safety property of a passing run has a theorem.
`AnswersEnd`, `HandlersEnd` and `WorkersComeBack`: liveness under fairness, which is out
of reach. The properties that the refuting runs check have no theorem, of course, nor
has `AckedDurable` with the broker.

## 5. Where the code and its documents part

Shown by a run, and quoted under `findings` in `PROJECT.json`:

* `ChatStore_broker`: the consumer cannot decode any event of the producer and
  acknowledges it, so nothing is ever stored by way of the broker.
* `TokenStream_halfclose`: the chat service never half-closes the inference
  stream, which the server reads to its end before it answers.
* `Services_factory`: `EngineFactory` passes its configuration to `HFEngine` as
  the path of a model.
* `Services_clear`: `RAGPipeline.clear` leaves the BM25 index as it was.

Met while modelling, and reachable in the models:

* Load balancing: a repeated decrement can bring a score to -1, which the script
  takes for "no minimum yet" (`model_cache.go:34`); this is why
  `LeastLoadedUnlessUndercounted` has its condition.
* Rate limit: a script that runs after one whose clock was later sets
  `updated_at` back, and the same time is given out twice (`rate_limit.go:43`);
  `RateUpToReordering` says how much that is at most.
* KV cache manager: a request can be its own LRU victim, after which `allocate`
  returns ids of blocks it no longer owns (`kv_cache_manager.py:383`). The prefix
  cache keeps ids of freed blocks, although the module promises reference counting
  (`kv_cache_manager.py:8` and `:242`).
* Chat store: a list from the cache hides messages whose own key has expired, as
  long as others are cached (`chat_repo_adapter.go:94`), and a failed write of the
  cache does the same; `RecentItemsListed` speaks of items that have their key. A
  write-back goroutine that runs after `DeleteSession` puts the session back in
  the cache, where `GetSession` and `GetSessions` look first
  (`chat_repo_adapter.go:83`).
* Streaming: when `model.generate` raises, its thread ends without ending the
  streamer, and the worker waits for ever (`hf_engine.py:168`); `HandlersEnd`,
  `WorkersComeBack` and `AnswersEnd` except it.
* Prefix cache of llm-inference: `match_prefix` returns any entry of which the
  text shares more than half, not only those it begins with, and of entries that
  fit equally well the oldest, not the longest (`optimization/kv_cache.py:104`).
* Context engine: the separators of the sink layouts are not counted, and a
  negative budget drops tokens from the front instead of being refused
  (`strategies.py:71`).
* Synthetic data: `evol_question` in the pipeline is called with an argument
  missing, raises and gives nothing; used without the pipeline, its records have
  no output, and the filter drops all of them.
* Research: `loong` compresses a text to its budget (`research/loong/run.py:75`), but a
  key block that is cut is not added to the total, so the blocks fitted after it can
  exceed the budget (`research/loong/run.py:90`); `FitsBudget` excepts just this. Key
  sentences are not cut at all by three of the strategies, and exceed a small budget.
* PPO: the slice of an iteration is empty when the next index is a multiple of
  the length of the dataset, so of several records the last is never trained
  (`ppo_pipeline.py:101`).
* Evaluation: a generated program that calls `exit` ends `run_all` with everything
  it had gathered, as `SystemExit` is not an `Exception`.

## 6. Not modelled

* The Go context builder: `GetContext`, through which it would be used, has no
  caller in the services.
* The gateway's handlers and other middleware, and auth-service: a relay of one
  stream to one response, a token check, and a look-up followed by an insertion
  under a unique index. They keep no state of their own between calls, and what
  they relay is in `TokenStream`.
* Registration and health checks of the processes, which are Consul's; `ModelLoad`
  has the list that comes out.
* Pages, contents and the order of lists in the chat store, and its operations
  without a caller (`DeleteMessage`, `GetMessage`, `GetContext`).
* `ChatModel` and sampling parameters of llm-inference; the estimate of a speed-up
  and hit counters, which are formulas.
* The dense retriever of the context engine, which no strategy selects; the
  embedding cache of rag, and its ChromaDB store, which has no operation.
* What training and evaluation compute in floating point: optimisation itself,
  the placeholder of a reward model, confidence intervals; and reports and
  statistics, which are formatting.
* Of the research scripts, what is not in `LongContext`: loading of data, calls of
  models, low-rank experiments in floating point, and tables.
* User interfaces, scripts, configuration, generated code,
  and everything a library does (bcrypt, JWT signing, tokenizers, model weights).
