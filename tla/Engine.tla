------------------------------- MODULE Engine -------------------------------
(***************************************************************************)
(* One inference engine of llm-inference: how it is created, the calls of  *)
(* its generate and stream_generate by worker threads, and the metrics     *)
(* these calls share.                                                      *)
(*                                                                         *)
(* A HuggingFace engine runs the model under a lock, for a stream in a     *)
(* thread of its own that the call does not join; vLLM takes no lock.  The *)
(* metrics are an object that a call replaces by one it builds field by    *)
(* field from the object it finds, with no lock at all.  What a call adds  *)
(* to a field is the call itself, so a field is a set of calls.            *)
(***************************************************************************)
EXTENDS Integers, FiniteSets, Sequences

CONSTANTS
    Calls,         \* calls of generate and stream_generate
    None

ASSUME EngineAssumption == None \notin Calls

Types == {"vllm", "hf", "auto"}            \* EngineType
Quantizations == {"null", "none", "awq", "AWQ", "int3"}
Fields == <<"tokens", "time", "latency">>

VARIABLES
    installed,     \* the vllm package can be imported
    engine,        \* the engine: its class, quantization, and the request for it
    closed,        \* BaseEngine._closed
    lock,          \* HFEngine._lock: the call it was taken for
    metrics,       \* BaseEngine._metrics
    phase,         \* where each call is
    mode,          \* which method it called
    model,         \* what its model.generate does
    first,         \* the calls that have had their first chunk
    fresh,         \* the metrics each call is building
    stored,        \* history: the calls that stored their metrics
    during         \* history: who stored while a call built its metrics

engineVars == <<installed, engine, closed, lock, metrics, phase, mode, model,
                first, fresh, stored, during>>
objectVars == <<installed, engine, closed>>

\* QuantizationRegistry.is_supported: looks the lower-case name up.
Supported(q) == q \in {"none", "awq", "AWQ"}

\* EngineConfig.__post_init__: _VALID_QUANTIZATIONS, letter for letter.
ValidConfig(q) == q \in {"null", "awq"}

\* QuantizationConfig.to_hf_config, with 4 bits: bitsandbytes for every method.
HFConfig(q) == IF q \in {"null", "none"} THEN "null" ELSE "nf4"

\* EngineType.AUTO: vLLM when it is installed.
Resolve(type) ==
    IF type = "auto" THEN IF installed THEN "vllm" ELSE "hf" ELSE type

NoEngine == [class |-> "none", quant |-> "null"]

\* VLLMEngine: without the package, or with a quantization that its EngineConfig
\* does not know, there is no engine; otherwise vLLM is given the quantization.
VLLMEngine(q) ==
    IF installed /\ ValidConfig(q) THEN [class |-> "vllm", quant |-> q] ELSE NoEngine

\* EngineFactory.create.  _create_hf_engine hands its EngineConfig over as the
\* first parameter of HFEngine, model_path, and a model cannot be loaded from it.
Built(type, q) ==
    IF (q = "null" \/ Supported(q)) /\ Resolve(type) = "vllm"
    THEN VLLMEngine(q)
    ELSE NoEngine

-----------------------------------------------------------------------------
EngineInit ==
    /\ installed \in BOOLEAN
    /\ engine = [class |-> "none", quant |-> "null", type |-> "null",
                 asked |-> "null"]
    /\ closed = FALSE
    /\ lock = None
    /\ metrics = [tokens |-> {}, time |-> {}, latency |-> {}]
    /\ phase = [c \in Calls |-> "idle"]
    /\ mode = [c \in Calls |-> "none"]
    /\ model = [c \in Calls |-> "none"]
    /\ first = {}
    /\ fresh = [c \in Calls |-> <<>>]
    /\ stored = {}
    /\ during = [c \in Calls |-> {}]

\* The server creates its engine by the factory; nothing else runs before.
CreateByFactory(type, q) ==
    /\ engine.class = "none"
    /\ engine' = [class |-> Built(type, q).class, quant |-> Built(type, q).quant,
                  type |-> type, asked |-> q]
    /\ UNCHANGED <<installed, closed, lock, metrics, phase, mode, model, first,
                   fresh, stored, during>>

\* HFEngine(config=...): the way its tests build one.
CreateDirectly(q) ==
    /\ engine.class = "none"
    /\ ValidConfig(q)
    /\ engine' = [class |-> "hf", quant |-> HFConfig(q), type |-> "direct",
                  asked |-> q]
    /\ UNCHANGED <<installed, closed, lock, metrics, phase, mode, model, first,
                   fresh, stored, during>>

\* A call formats its messages and asks for the model; a closed engine has
\* neither tokenizer nor model, and the call raises.
Begin(c, m) ==
    /\ engine.class # "none" /\ phase[c] = "idle"
    /\ mode' = [mode EXCEPT ![c] = m]
    /\ phase' = [phase EXCEPT ![c] = IF closed THEN "failed" ELSE "consuming"]
    /\ model' = IF closed THEN model ELSE [model EXCEPT ![c] = "waiting"]
    /\ UNCHANGED <<objectVars, lock, metrics, first, fresh, stored, during>>

\* Mutant: the thread of a stream does not take the lock.
StartModelUnlocked(c) ==
    /\ model[c] = "waiting" /\ ~closed
    /\ engine.class = "hf" /\ mode[c] = "generate" => lock = None
    /\ lock' = IF engine.class = "hf" THEN c ELSE lock
    /\ model' = [model EXCEPT ![c] = "running"]
    /\ UNCHANGED <<objectVars, metrics, phase, mode, first, fresh, stored, during>>

\* model.generate starts, in HFEngine under the lock.
StartModel(c) ==
    /\ model[c] = "waiting" /\ ~closed
    /\ engine.class = "hf" => lock = None
    /\ lock' = IF engine.class = "hf" THEN c ELSE lock
    /\ model' = [model EXCEPT ![c] = "running"]
    /\ UNCHANGED <<objectVars, metrics, phase, mode, first, fresh, stored, during>>

\* It ends, and the lock is released.
EndModel(c) ==
    /\ model[c] = "running"
    /\ lock' = IF lock = c THEN None ELSE lock
    /\ model' = [model EXCEPT ![c] = "ended"]
    /\ UNCHANGED <<objectVars, metrics, phase, mode, first, fresh, stored, during>>

\* Mutant: the lock is not released when the model raises.
ModelRaisesLocked(c) ==
    /\ model[c] = "running" \/ (model[c] = "waiting" /\ closed /\ lock = None)
    /\ model' = [model EXCEPT ![c] = "dead"]
    /\ phase' = IF /\ mode[c] = "stream" /\ engine.class = "hf"
                THEN phase ELSE [phase EXCEPT ![c] = "failed"]
    /\ UNCHANGED <<objectVars, lock, metrics, mode, first, fresh, stored, during>>

\* It raises, or the engine was closed before it began.  The lock is released;
\* a call that runs the model itself raises too, but a stream of HFEngine goes
\* on waiting for a thread that is dead.
ModelRaises(c) ==
    /\ model[c] = "running" \/ (model[c] = "waiting" /\ closed /\ lock = None)
    /\ lock' = IF lock = c THEN None ELSE lock
    /\ model' = [model EXCEPT ![c] = "dead"]
    /\ phase' = IF mode[c] = "stream" /\ engine.class = "hf"
                THEN phase ELSE [phase EXCEPT ![c] = "failed"]
    /\ UNCHANGED <<objectVars, metrics, mode, first, fresh, stored, during>>

\* A stream takes a chunk (vLLM's only one is there when the model has ended):
\* with the first, the latency goes into the object all calls share.  HFEngine
\* counts the tokens of each with its tokenizer, and raises once it is closed.
TakeChunk(c) ==
    /\ mode[c] = "stream" /\ phase[c] = "consuming"
    /\ c \notin first \/ (closed /\ engine.class = "hf")
    /\ model[c] \in IF engine.class = "hf" THEN {"running", "ended"} ELSE {"ended"}
    /\ metrics' = IF c \in first THEN metrics ELSE [metrics EXCEPT !.latency = {c}]
    /\ first' = first \cup {c}
    /\ phase' = IF closed /\ engine.class = "hf"
                THEN [phase EXCEPT ![c] = "failed"] ELSE phase
    /\ UNCHANGED <<objectVars, lock, mode, model, fresh, stored, during>>

\* The consumer closes the generator at a yield.  Nothing stops the thread.
Abandon(c) ==
    /\ phase[c] = "consuming" /\ c \in first
    /\ phase' = [phase EXCEPT ![c] = "abandoned"]
    /\ UNCHANGED <<objectVars, lock, metrics, mode, model, first, fresh, stored,
                   during>>

\* The last chunk was consumed, or generate has its output, which HFEngine
\* decodes with its tokenizer: now the metrics.
EndOfOutput(c) ==
    /\ phase[c] = "consuming" /\ model[c] = "ended"
    /\ mode[c] = "stream" /\ engine.class = "vllm" => c \in first
    /\ phase' = [phase EXCEPT ![c] =
                    IF closed /\ engine.class = "hf" /\ mode[c] = "generate"
                    THEN "failed" ELSE "building"]
    /\ UNCHANGED <<objectVars, lock, metrics, mode, model, first, fresh, stored,
                   during>>

\* vLLM gave no output: the call returns an empty result and adds nothing.
NoOutput(c) ==
    /\ engine.class = "vllm"
    /\ phase[c] = "consuming" /\ model[c] = "ended" /\ c \notin first
    /\ phase' = [phase EXCEPT ![c] = "done"]
    /\ UNCHANGED <<objectVars, lock, metrics, mode, model, first, fresh, stored,
                   during>>

\* HFEngine.generate measures no time.
Adds(c, field) ==
    IF \/ field = "tokens"
       \/ field = "time" /\ ~(engine.class = "hf" /\ mode[c] = "generate")
    THEN {c} ELSE {}

\* Mutant: a call does not read the old value.
ReadFieldFresh(c) ==
    /\ phase[c] = "building" /\ Len(fresh[c]) < Len(Fields)
    /\ LET f == Fields[Len(fresh[c]) + 1]
       IN  fresh' = [fresh EXCEPT ![c] = Append(@, Adds(c, f))]
    /\ UNCHANGED <<objectVars, lock, metrics, phase, mode, model, first, stored,
                   during>>

\* One operand of EngineMetrics(...): the old value of a field, and its share.
ReadField(c) ==
    /\ phase[c] = "building" /\ Len(fresh[c]) < Len(Fields)
    /\ LET f == Fields[Len(fresh[c]) + 1]
       IN  fresh' = [fresh EXCEPT ![c] = Append(@, metrics[f] \cup Adds(c, f))]
    /\ UNCHANGED <<objectVars, lock, metrics, phase, mode, model, first, stored,
                   during>>

\* self._metrics = ..., over whatever was stored since; and the call returns.
StoreMetrics(c) ==
    /\ phase[c] = "building" /\ Len(fresh[c]) = Len(Fields)
    /\ metrics' = [tokens |-> fresh[c][1], time |-> fresh[c][2],
                   latency |-> fresh[c][3]]
    /\ phase' = [phase EXCEPT ![c] = "done"]
    /\ stored' = stored \cup {c}
    /\ during' = [d \in Calls |->
                    IF phase[d] = "building" /\ fresh[d] # <<>> /\ d # c
                    THEN during[d] \cup {c} ELSE during[d]]
    /\ UNCHANGED <<objectVars, lock, mode, model, first, fresh>>

\* close, or the end of a with statement.
Close(class) ==
    /\ engine.class = class /\ ~closed
    /\ closed' = TRUE
    /\ UNCHANGED <<installed, engine, lock, metrics, phase, mode, model, first,
                   fresh, stored, during>>

CloseHF == Close("hf")
CloseVLLM == Close("vllm")

CallStep(c) ==
    \/ StartModel(c) \/ EndModel(c) \/ ModelRaises(c)
    \/ TakeChunk(c) \/ Abandon(c) \/ EndOfOutput(c) \/ NoOutput(c)
    \/ ReadField(c) \/ StoreMetrics(c)

EngineNext ==
    \/ \E type \in Types, q \in Quantizations : CreateByFactory(type, q)
    \/ \E q \in Quantizations : CreateDirectly(q)
    \/ \E c \in Calls, m \in {"generate", "stream"} : Begin(c, m)
    \/ \E c \in Calls : CallStep(c)
    \/ CloseHF \/ CloseVLLM

\* A call under way takes its next step: threads are scheduled, the model's
\* generation is bounded by max_new_tokens, and the consumer of a stream either
\* goes on or closes it.  A thread waits for the lock without being overtaken
\* for ever, as there are finitely many calls.
EngineFairness == \A c \in Calls : WF_engineVars(CallStep(c))

EngineSpec == EngineInit /\ [][EngineNext]_engineVars /\ EngineFairness

-----------------------------------------------------------------------------
\* Variables have their types; the lock is held exactly while a call of a
\* HuggingFace engine runs the model; no call runs before there is an engine.
EngineTypeOK ==
    /\ installed \in BOOLEAN /\ closed \in BOOLEAN
    /\ engine \in [class : {"none", "hf", "vllm"}, quant : Quantizations \cup {"nf4"},
                   type : Types \cup {"null", "direct"}, asked : Quantizations]
    /\ lock \in Calls \cup {None}
    /\ \A f \in DOMAIN metrics : metrics[f] \in SUBSET Calls
    /\ \A c \in Calls :
          /\ phase[c] \in {"idle", "consuming", "building", "done", "abandoned",
                           "failed"}
          /\ mode[c] \in {"none", "generate", "stream"}
          /\ model[c] \in {"none", "waiting", "running", "ended", "dead"}
          /\ engine.class = "none" => phase[c] = "idle"
          /\ lock = c => model[c] = "running"

\* The lock is "显卡互斥锁" (mutual exclusion on the graphics card): a HuggingFace
\* engine runs one generation at a time, those of abandoned streams included.
OneGeneration ==
    /\ EngineTypeOK
    /\ engine.class = "hf" =>
          Cardinality({c \in Calls : model[c] = "running"}) <= 1

\* What the metrics lack of a call that has stored its share was lost to a call
\* that was building its own metrics at that moment; a call that runs alone
\* loses nothing, and nothing is counted that was not stored.
MetricsLoseOnlyOverlaps ==
    \A field \in {"tokens", "time"} :
        /\ metrics[field] \subseteq stored
        /\ \A c \in stored :
              \/ Adds(c, field) = {}
              \/ c \in metrics[field]
              \/ \E d \in stored : c \in during[d]

\* A call that has begun ends, however others end or are abandoned and even if
\* the engine is closed, but for a stream whose thread has died, which hangs.
CallsEnd ==
    \A c \in Calls :
        phase[c] = "consuming" ~>
            \/ phase[c] \in {"done", "abandoned", "failed"}
            \/ mode[c] = "stream" /\ model[c] = "dead"

\* Docstring of EngineFactory.create: "Returns: An initialized engine instance."
\* A valid configuration for a backend that is there gives an engine of it.
FactoryDelivers ==
    engine.type \in Types /\ ValidConfig(engine.asked)
        /\ (Resolve(engine.type) = "vllm" => installed)
        => engine.class = Resolve(engine.type) /\ engine.quant = engine.asked
=============================================================================
