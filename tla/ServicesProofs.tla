--------------------------- MODULE ServicesProofs ---------------------------
(***************************************************************************)
(* The parts of the Python services for every value of their constants: an *)
(* inference engine and its metrics, speculative decoding, the cache of    *)
(* tensors, the context engine, the chunkers of documents, and the two     *)
(* halves of a RAG pipeline.                                               *)
(***************************************************************************)
EXTENDS Engine, Speculative, TensorCache, ContextEngine, Chunker, Rag, Foundations

-----------------------------------------------------------------------------
(* An inference engine: one generation at a time if it is a HuggingFace    *)
(* engine, and what the metrics lose is only what overlaps.                *)

Shares == [tokens : SUBSET Calls, time : SUBSET Calls, latency : SUBSET Calls]

\* The types of the variables, those of the history variables included.
EngineTyped ==
    /\ installed \in BOOLEAN /\ closed \in BOOLEAN
    /\ engine \in [class : {"none", "hf", "vllm"}, quant : Quantizations \cup {"nf4"},
                   type : Types \cup {"null", "direct"}, asked : Quantizations]
    /\ lock \in Calls \cup {None}
    /\ metrics \in Shares
    /\ phase \in [Calls -> {"idle", "consuming", "building", "done", "abandoned",
                            "failed"}]
    /\ mode \in [Calls -> {"none", "generate", "stream"}]
    /\ model \in [Calls -> {"none", "waiting", "running", "ended", "dead"}]
    /\ first \in SUBSET Calls
    /\ fresh \in [Calls -> Seq(SUBSET Calls)]
    /\ stored \in SUBSET Calls
    /\ during \in [Calls -> SUBSET Calls]

\* A call that has not begun runs no model, nor does one that has its output, and
\* none begins before there is an engine; the lock is for a model that runs, and is
\* held for every such model of a HuggingFace engine.
Locking ==
    /\ \A c \in Calls :
          /\ engine.class = "none" => phase[c] = "idle"
          /\ phase[c] = "idle" => model[c] = "none"
          /\ phase[c] \in {"building", "done"} => model[c] = "ended"
          /\ lock = c => model[c] = "running"
          /\ engine.class = "hf" /\ model[c] = "running" => lock = c

Counted == {"tokens", "time"}

\* c stored its metrics while a call that has stored since was building its own.
Overlapped(c) == \E d \in stored : c \in during[d]

\* What has been read is what was stored, and the reader's own share; of what was
\* stored it lacks only the calls that stored since the reader began, and those
\* that were lost before.  A call that stored has ended.
Reading ==
    /\ \A c \in stored : phase[c] = "done"
    /\ \A c \in Calls : phase[c] \in {"idle", "consuming"} => fresh[c] = <<>>
    /\ \A c \in Calls, k \in 1 .. 2 :
          phase[c] = "building" /\ k <= Len(fresh[c]) =>
             /\ fresh[c][k] \subseteq stored \cup {c}
             /\ Adds(c, Fields[k]) \subseteq fresh[c][k]
             /\ \A e \in stored :
                   \/ Adds(e, Fields[k]) \subseteq fresh[c][k]
                   \/ e \in during[c]
                   \/ Overlapped(e)

\* MetricsLoseOnlyOverlaps, in the form that is proved.
Losing ==
    \A field \in Counted :
        /\ metrics[field] \subseteq stored
        /\ \A c \in stored : Adds(c, field) \subseteq metrics[field] \/ Overlapped(c)

EngineInv == EngineTyped /\ Locking /\ Reading /\ Losing

-----------------------------------------------------------------------------
\* What a call adds to the fields that are counted is itself, or nothing.
LEMMA Share ==
    ASSUME NEW c, NEW field \in Counted
    PROVE  Adds(c, field) = {} \/ Adds(c, field) = {c}
  BY DEF Adds, Counted

\* The three fields by their places.
LEMMA Places == Fields[1] = "tokens" /\ Fields[2] = "time" /\ Fields[3] = "latency"
                /\ Len(Fields) = 3
  BY DEF Fields

\* There is no engine yet, and no call has begun.
LEMMA EngineInvInit == EngineInit => EngineInv
  <1> SUFFICES ASSUME EngineInit PROVE EngineInv
    OBVIOUS
  <1>1. EngineTyped
    <2>1. /\ installed \in BOOLEAN /\ closed \in BOOLEAN
          /\ engine \in [class : {"none", "hf", "vllm"},
                         quant : Quantizations \cup {"nf4"},
                         type : Types \cup {"null", "direct"}, asked : Quantizations]
      BY DEF EngineInit, Quantizations, Types
    <2>2. metrics \in Shares
      BY DEF EngineInit, Shares
    <2>3. fresh \in [Calls -> Seq(SUBSET Calls)]
      BY DEF EngineInit
    <2>4. /\ phase \in [Calls -> {"idle", "consuming", "building", "done",
                                  "abandoned", "failed"}]
          /\ mode \in [Calls -> {"none", "generate", "stream"}]
          /\ model \in [Calls -> {"none", "waiting", "running", "ended", "dead"}]
          /\ during \in [Calls -> SUBSET Calls]
          /\ first \in SUBSET Calls /\ stored \in SUBSET Calls
          /\ lock \in Calls \cup {None}
      BY DEF EngineInit
    <2> QED
      BY <2>1, <2>2, <2>3, <2>4 DEF EngineTyped
  <1> USE DEF EngineInit
  <1>2. Locking
    BY EngineAssumption DEF Locking
  <1>3. Reading
    BY DEF Reading
  <1>4. Losing
    BY DEF Losing, Counted
  <1> QED
    BY <1>1, <1>2, <1>3, <1>4 DEF EngineInv

-----------------------------------------------------------------------------
\* A step that stores nothing, reads nothing and leaves alone what a call that
\* is building or has stored adds keeps the two facts about metrics.
LEMMA MetricsUntouched ==
    ASSUME EngineInv,
           UNCHANGED <<stored, during>>,
           fresh' = fresh,
           metrics'["tokens"] = metrics["tokens"], metrics'["time"] = metrics["time"],
           \A c \in Calls : phase[c] = "done" => phase'[c] = "done",
           \A c \in Calls : phase'[c] \in {"idle", "consuming"} =>
                               phase[c] \in {"idle", "consuming"},
           \A c \in Calls : phase'[c] = "building" =>
                               phase[c] \in {"consuming", "building"},
           \A c \in Calls : phase[c] \in {"building", "done"} =>
                               mode'[c] = mode[c] /\ engine'.class = engine.class
    PROVE  Reading' /\ Losing'
  <1>1. \A c \in Calls, f \in Counted :
           phase[c] \in {"building", "done"} => Adds(c, f)' = Adds(c, f)
    BY DEF Adds, Counted
  <1>2. \A c : Overlapped(c)' = Overlapped(c)
    BY DEF Overlapped
  <1>3. stored \subseteq Calls
    BY DEF EngineInv, EngineTyped
  <1>4. Reading'
    <2>1. \A c \in stored' : phase'[c] = "done"
      BY <1>3 DEF EngineInv, Reading
    <2>2. \A c \in Calls : phase'[c] \in {"idle", "consuming"} => fresh'[c] = <<>>
      BY DEF EngineInv, Reading
    <2>3. ASSUME NEW c \in Calls, NEW k \in 1 .. 2,
                 phase'[c] = "building", k <= Len(fresh'[c])
          PROVE  /\ fresh'[c][k] \subseteq stored' \cup {c}
                 /\ Adds(c, Fields[k])' \subseteq fresh'[c][k]
                 /\ \A e \in stored' :
                       \/ Adds(e, Fields[k])' \subseteq fresh'[c][k]
                       \/ e \in during'[c]
                       \/ Overlapped(e)'
      <3>1. phase[c] = "building"
        BY <2>3 DEF EngineInv, Reading
      <3>2. Fields[k] \in Counted
        BY Places DEF Counted
      <3>3. Adds(c, Fields[k])' = Adds(c, Fields[k])
        BY <3>1, <3>2, <1>1 DEF Fields
      <3>4. \A e \in stored : Adds(e, Fields[k])' = Adds(e, Fields[k])
        BY <3>2, <1>1, <1>3 DEF EngineInv, Reading, Fields
      <3> QED
        BY <2>3, <3>1, <3>3, <3>4, <1>2 DEF EngineInv, Reading
    <2> QED
      BY <2>1, <2>2, <2>3 DEF Reading
  <1>5. Losing'
    <2>1. \A c \in stored, f \in Counted : Adds(c, f)' = Adds(c, f)
      BY <1>1, <1>3 DEF EngineInv, Reading
    <2>2. \A f \in Counted : metrics'[f] = metrics[f]
      BY DEF Counted
    <2> QED
      BY <2>1, <2>2, <1>2 DEF EngineInv, Losing
  <1> QED
    BY <1>4, <1>5

-----------------------------------------------------------------------------
\* The engine is created before any call begins, so nothing runs or is counted.
LEMMA CreateKeeps ==
    ASSUME EngineInv,
           (\E type \in Types, q \in Quantizations : CreateByFactory(type, q))
               \/ (\E q \in Quantizations : CreateDirectly(q))
    PROVE  EngineInv'
  <1>1. /\ engine.class = "none"
        /\ engine' \in [class : {"none", "hf", "vllm"}, quant : Quantizations \cup {"nf4"},
                        type : Types \cup {"null", "direct"}, asked : Quantizations]
        /\ UNCHANGED <<installed, closed, lock, metrics, phase, mode, model, first,
                       fresh, stored, during>>
    BY DEF CreateByFactory, CreateDirectly, Built, VLLMEngine, NoEngine, Quantizations, Types,
           HFConfig, ValidConfig
  <1>2. \A c \in Calls : phase[c] = "idle" /\ model[c] = "none"
    BY <1>1 DEF EngineInv, Locking
  <1>3. EngineTyped'
    BY <1>1 DEF EngineInv, EngineTyped
  <1>4. Locking'
    BY <1>1, <1>2 DEF EngineInv, Locking
  <1>5. Reading' /\ Losing'
    BY <1>1, <1>2, MetricsUntouched
  <1> QED
    BY <1>3, <1>4, <1>5 DEF EngineInv

\* A call that begins waits for the model; if the engine is closed it fails.
LEMMA BeginKeeps ==
    ASSUME EngineInv, NEW c \in Calls, NEW m \in {"generate", "stream"}, Begin(c, m)
    PROVE  EngineInv'
  <1>1. EngineTyped'
    BY DEF EngineInv, EngineTyped, Begin, objectVars
  <1>2. Locking'
    BY DEF EngineInv, EngineTyped, Locking, Begin, objectVars
  <1>3. Reading' /\ Losing'
    BY MetricsUntouched DEF EngineInv, EngineTyped, Begin, objectVars
  <1> QED
    BY <1>1, <1>2, <1>3 DEF EngineInv

\* The model of a HuggingFace engine starts only when nobody has the lock.
LEMMA StartModelKeeps ==
    ASSUME EngineInv, NEW c \in Calls, StartModel(c)
    PROVE  EngineInv'
  <1>1. EngineTyped'
    BY DEF EngineInv, EngineTyped, StartModel, objectVars
  <1>2. Locking'
    BY EngineAssumption DEF EngineInv, EngineTyped, Locking, StartModel, objectVars
  <1>3. Reading' /\ Losing'
    BY MetricsUntouched DEF EngineInv, EngineTyped, StartModel, objectVars
  <1> QED
    BY <1>1, <1>2, <1>3 DEF EngineInv

\* Whoever ends gives back the lock, which nobody else could have.
LEMMA EndModelKeeps ==
    ASSUME EngineInv, NEW c \in Calls, EndModel(c)
    PROVE  EngineInv'
  <1>1. EngineTyped'
    BY DEF EngineInv, EngineTyped, EndModel, objectVars
  <1>2. Locking'
    BY EngineAssumption DEF EngineInv, EngineTyped, Locking, EndModel, objectVars
  <1>3. Reading' /\ Losing'
    BY MetricsUntouched DEF EngineInv, EngineTyped, EndModel, objectVars
  <1> QED
    BY <1>1, <1>2, <1>3 DEF EngineInv

\* So does a model that raises, whether its call learns of it or not.
LEMMA ModelRaisesKeeps ==
    ASSUME EngineInv, NEW c \in Calls, ModelRaises(c)
    PROVE  EngineInv'
  <1> phase[c] \notin {"building", "done"}
    BY DEF EngineInv, Locking, ModelRaises
  <1>1. EngineTyped'
    BY DEF EngineInv, EngineTyped, ModelRaises, objectVars
  <1>2. Locking'
    BY EngineAssumption DEF EngineInv, EngineTyped, Locking, ModelRaises, objectVars
  <1>3. Reading' /\ Losing'
    BY MetricsUntouched DEF EngineInv, EngineTyped, ModelRaises, objectVars
  <1> QED
    BY <1>1, <1>2, <1>3 DEF EngineInv

\* Only the latency changes, which no property counts.
LEMMA TakeChunkKeeps ==
    ASSUME EngineInv, NEW c \in Calls, TakeChunk(c)
    PROVE  EngineInv'
  <1>1. /\ metrics' \in Shares
        /\ metrics'["tokens"] = metrics["tokens"] /\ metrics'["time"] = metrics["time"]
    BY DEF EngineInv, EngineTyped, TakeChunk, Shares
  <1>2. EngineTyped'
    BY <1>1 DEF EngineInv, EngineTyped, TakeChunk, objectVars
  <1>3. Locking'
    BY DEF EngineInv, EngineTyped, Locking, TakeChunk, objectVars
  <1>4. Reading' /\ Losing'
    BY <1>1, MetricsUntouched DEF EngineInv, EngineTyped, TakeChunk, objectVars
  <1> QED
    BY <1>2, <1>3, <1>4 DEF EngineInv

\* The consumer leaves, gets the last of the output, or gets none.
LEMMA ConsumerKeeps ==
    ASSUME EngineInv, NEW c \in Calls, Abandon(c) \/ EndOfOutput(c) \/ NoOutput(c)
    PROVE  EngineInv'
  <1>1. /\ phase[c] = "consuming"
        /\ \E p \in {"abandoned", "failed", "building", "done"} :
              /\ phase' = [phase EXCEPT ![c] = p]
              /\ p \in {"building", "done"} => model[c] = "ended"
        /\ UNCHANGED <<installed, engine, closed, lock, metrics, mode, model, first,
                       fresh, stored, during>>
    BY DEF Abandon, EndOfOutput, NoOutput, objectVars
  <1>2. EngineTyped'
    BY <1>1 DEF EngineInv, EngineTyped
  <1>3. Locking'
    BY <1>1 DEF EngineInv, EngineTyped, Locking
  <1>4. Reading' /\ Losing'
    BY <1>1, MetricsUntouched DEF EngineInv, EngineTyped
  <1> QED
    BY <1>2, <1>3, <1>4 DEF EngineInv

\* Closing stops nothing that runs.
LEMMA CloseEngineKeeps ==
    ASSUME EngineInv, CloseHF \/ CloseVLLM
    PROVE  EngineInv'
  <1>1. EngineTyped'
    BY DEF EngineInv, EngineTyped, CloseHF, CloseVLLM, Close
  <1>2. Locking'
    BY DEF EngineInv, Locking, CloseHF, CloseVLLM, Close
  <1>3. Reading' /\ Losing'
    BY MetricsUntouched DEF CloseHF, CloseVLLM, Close
  <1> QED
    BY <1>1, <1>2, <1>3 DEF EngineInv

\* Reading a field that others have stored into: the reader gets what is there.
LEMMA ReadFieldKeeps ==
    ASSUME EngineInv, NEW c \in Calls, ReadField(c)
    PROVE  EngineInv'
  <1> DEFINE n == Len(fresh[c]) + 1
             f == Fields[n]
             part == metrics[f] \cup Adds(c, f)
  <1>1. /\ phase[c] = "building" /\ n \in 1 .. 3
        /\ fresh' = [fresh EXCEPT ![c] = Append(@, part)]
        /\ UNCHANGED <<installed, engine, closed, lock, metrics, phase, mode, model,
                       first, stored, during>>
    BY Places DEF ReadField, objectVars, EngineInv, EngineTyped
  <1>2. f \in {"tokens", "time", "latency"} /\ (n # 3 => f \in Counted)
    BY <1>1, Places DEF Counted
  <1>3. part \in SUBSET Calls
    BY <1>2 DEF EngineInv, EngineTyped, Shares, Adds
  <1>4. /\ fresh'[c] = Append(fresh[c], part) /\ fresh'[c] \in Seq(SUBSET Calls)
        /\ Len(fresh'[c]) = n /\ fresh'[c][n] = part
        /\ \A k \in 1 .. n - 1 : fresh'[c][k] = fresh[c][k]
    BY <1>1, <1>3 DEF EngineInv, EngineTyped
  <1>5. EngineTyped'
    BY <1>1, <1>3, <1>4 DEF EngineInv, EngineTyped
  <1>6. Locking'
    BY <1>1 DEF EngineInv, Locking
  <1>7. /\ \A d, g : Adds(d, g)' = Adds(d, g)
        /\ \A d : Overlapped(d)' = Overlapped(d)
    BY <1>1 DEF Adds, Overlapped
  <1>8. Reading'
    <2>1. \A d \in stored' : phase'[d] = "done"
      BY <1>1 DEF EngineInv, Reading
    <2>2. \A d \in Calls : phase'[d] \in {"idle", "consuming"} => fresh'[d] = <<>>
      BY <1>1 DEF EngineInv, Reading, EngineTyped
    <2>3. ASSUME NEW d \in Calls, NEW k \in 1 .. 2,
                 phase'[d] = "building", k <= Len(fresh'[d])
          PROVE  /\ fresh'[d][k] \subseteq stored' \cup {d}
                 /\ Adds(d, Fields[k])' \subseteq fresh'[d][k]
                 /\ \A e \in stored' :
                       \/ Adds(e, Fields[k])' \subseteq fresh'[d][k]
                       \/ e \in during'[d]
                       \/ Overlapped(e)'
      <3>1. CASE d # c \/ k < n
        <4>1. phase[d] = "building" /\ k <= Len(fresh[d]) /\ fresh'[d][k] = fresh[d][k]
          BY <1>1, <1>4, <2>3, <3>1 DEF EngineInv, EngineTyped
        <4> QED
          BY <1>1, <1>7, <4>1 DEF EngineInv, Reading
      <3>2. CASE d = c /\ k = n
        <4>1. fresh'[d][k] = metrics[f] \cup Adds(c, f) /\ f \in Counted
          BY <1>2, <1>4, <3>2
        <4>2. /\ metrics[f] \subseteq stored
              /\ \A e \in stored : Adds(e, f) \subseteq metrics[f] \/ Overlapped(e)
          BY <4>1 DEF EngineInv, Losing
        <4>3. Adds(c, f) \subseteq {c}
          BY DEF Adds
        <4> QED
          BY <1>1, <1>7, <3>2, <4>1, <4>2, <4>3
      <3> QED
        BY <1>1, <1>4, <2>3, <3>1, <3>2
    <2> QED
      BY <2>1, <2>2, <2>3 DEF Reading
  <1>9. Losing'
    BY <1>1, <1>7 DEF EngineInv, Losing, Counted
  <1> QED
    BY <1>5, <1>6, <1>8, <1>9 DEF EngineInv

\* Storing over what others have stored: whom c did not read stored while c was
\* building, and now c is one that stored.
LEMMA StoreMetricsKeeps ==
    ASSUME EngineInv, NEW c \in Calls, StoreMetrics(c)
    PROVE  EngineInv'
  <1>1. /\ phase[c] = "building" /\ Len(fresh[c]) = 3
        /\ metrics' = [tokens |-> fresh[c][1], time |-> fresh[c][2],
                       latency |-> fresh[c][3]]
        /\ phase' = [phase EXCEPT ![c] = "done"]
        /\ stored' = stored \cup {c}
        /\ during' = [d \in Calls |->
                         IF phase[d] = "building" /\ fresh[d] # <<>> /\ d # c
                         THEN during[d] \cup {c} ELSE during[d]]
        /\ UNCHANGED <<installed, engine, closed, lock, mode, model, first, fresh>>
    BY Places DEF StoreMetrics, objectVars
  <1>2. \A k \in 1 .. 3 : fresh[c][k] \in SUBSET Calls
    <2>1. fresh[c] \in Seq(SUBSET Calls)
      BY DEF EngineInv, EngineTyped
    <2> QED
      BY <1>1, <2>1
  <1>3. metrics' \in Shares
    BY <1>1, <1>2 DEF Shares
  <1>4. EngineTyped'
    <2>1. /\ phase' \in [Calls -> {"idle", "consuming", "building", "done",
                                    "abandoned", "failed"}]
          /\ during' \in [Calls -> SUBSET Calls] /\ stored' \in SUBSET Calls
      BY <1>1 DEF EngineInv, EngineTyped
    <2> QED
      BY <1>1, <1>3, <2>1 DEF EngineInv, EngineTyped
  <1>5. Locking'
    BY <1>1 DEF EngineInv, EngineTyped, Locking
  <1>6. /\ \A d, g : Adds(d, g)' = Adds(d, g)
        /\ \A d \in Calls : Overlapped(d) => Overlapped(d)'
        /\ \A d \in Calls : d \in during[c] => Overlapped(d)'
    BY <1>1 DEF EngineInv, EngineTyped, Adds, Overlapped
  <1>7. \A d \in Calls : Adds(d, "tokens") \subseteq {d} /\ Adds(d, "time") \subseteq {d}
    BY DEF Adds
  <1>8. Losing'
    <2> SUFFICES ASSUME NEW g \in Counted
                 PROVE  /\ metrics'[g] \subseteq stored'
                        /\ \A d \in stored' : \/ Adds(d, g)' \subseteq metrics'[g]
                                               \/ Overlapped(d)'
      BY DEF Losing
    <2>1. PICK k \in 1 .. 2 : Fields[k] = g
      BY Places DEF Counted
    <2>2. metrics'[g] = fresh[c][k]
      BY <1>1, <2>1, Places
    <2>3. /\ fresh[c][k] \subseteq stored \cup {c}
          /\ Adds(c, g) \subseteq fresh[c][k]
          /\ \A e \in stored : \/ Adds(e, g) \subseteq fresh[c][k]
                                \/ e \in during[c] \/ Overlapped(e)
      BY <1>1, <2>1 DEF EngineInv, Reading
    <2> QED
      BY <1>1, <1>6, <2>2, <2>3 DEF EngineInv, EngineTyped
  <1>9. Reading'
    <2>1. \A d \in stored' : phase'[d] = "done"
      BY <1>1 DEF EngineInv, EngineTyped, Reading
    <2>2. \A d \in Calls : phase'[d] \in {"idle", "consuming"} => fresh'[d] = <<>>
      BY <1>1 DEF EngineInv, EngineTyped, Reading
    <2>3. ASSUME NEW d \in Calls, NEW k \in 1 .. 2,
                 phase'[d] = "building", k <= Len(fresh'[d])
          PROVE  /\ fresh'[d][k] \subseteq stored' \cup {d}
                 /\ Adds(d, Fields[k])' \subseteq fresh'[d][k]
                 /\ \A e \in stored' :
                       \/ Adds(e, Fields[k])' \subseteq fresh'[d][k]
                       \/ e \in during'[d]
                       \/ Overlapped(e)'
      <3>1. d # c /\ phase[d] = "building" /\ fresh'[d] = fresh[d] /\ fresh[d] # <<>>
        BY <1>1, <2>3 DEF EngineInv, EngineTyped
      <3>2. during'[d] = during[d] \cup {c}
        BY <1>1, <3>1
      <3>3. /\ fresh[d][k] \subseteq stored \cup {d}
            /\ Adds(d, Fields[k]) \subseteq fresh[d][k]
            /\ \A e \in stored :
                  \/ Adds(e, Fields[k]) \subseteq fresh[d][k]
                  \/ e \in during[d] \/ Overlapped(e)
        BY <2>3, <3>1 DEF EngineInv, Reading
      <3> QED
        BY <1>1, <1>6, <3>1, <3>2, <3>3 DEF EngineInv, EngineTyped
    <2> QED
      BY <2>1, <2>2, <2>3 DEF Reading
  <1> QED
    BY <1>4, <1>5, <1>8, <1>9 DEF EngineInv

-----------------------------------------------------------------------------
\* Every step keeps the invariant.
LEMMA EngineStepKeeps == EngineInv /\ [EngineNext]_engineVars => EngineInv'
  <1> SUFFICES ASSUME EngineInv, [EngineNext]_engineVars PROVE EngineInv'
    OBVIOUS
  <1>1. CASE UNCHANGED engineVars
    BY <1>1 DEF engineVars, EngineInv, EngineTyped, Locking, Reading, Losing, Overlapped, Adds
  <1>2. CASE (\E type \in Types, q \in Quantizations : CreateByFactory(type, q))
                \/ (\E q \in Quantizations : CreateDirectly(q))
    BY <1>2, CreateKeeps
  <1>3. CASE \E c \in Calls, m \in {"generate", "stream"} : Begin(c, m)
    BY <1>3, BeginKeeps
  <1>4. ASSUME NEW c \in Calls, CallStep(c) PROVE EngineInv'
    BY <1>4, StartModelKeeps, EndModelKeeps, ModelRaisesKeeps, TakeChunkKeeps,
       ConsumerKeeps, ReadFieldKeeps, StoreMetricsKeeps DEF CallStep
  <1>5. CASE CloseHF \/ CloseVLLM
    BY <1>5, CloseEngineKeeps
  <1> QED
    BY <1>1, <1>2, <1>3, <1>4, <1>5 DEF EngineNext

\* The invariant holds in every behaviour.
LEMMA Invariance == EngineSpec => []EngineInv
  BY EngineInvInit, EngineStepKeeps, PTL DEF EngineSpec

\* HFEngine._lock: whatever calls begin, are abandoned or fail, and even when the
\* engine is closed, at most one generation runs.
THEOREM OneAtATime == EngineSpec => []OneGeneration
  <1>1. EngineInv => OneGeneration
    <2> SUFFICES ASSUME EngineInv PROVE OneGeneration
      OBVIOUS
    <2>1. EngineTypeOK
      BY DEF EngineInv, EngineTyped, Locking, EngineTypeOK, Shares
    <2>2. ASSUME engine.class = "hf"
          PROVE  Cardinality({c \in Calls : model[c] = "running"}) <= 1
      <3> DEFINE running == {c \in Calls : model[c] = "running"}
      <3>1. running \subseteq {lock}
        BY <2>2 DEF EngineInv, Locking
      <3>2. IsFiniteSet({lock}) /\ Cardinality({lock}) = 1
        BY FS_Singleton
      <3>3. IsFiniteSet(running) /\ Cardinality(running) <= Cardinality({lock})
        BY <3>1, <3>2, FS_Subset
      <3> QED
        BY <3>2, <3>3
    <2> QED
      BY <2>1, <2>2 DEF OneGeneration
  <1> QED
    BY <1>1, Invariance, PTL

\* BaseEngine._metrics: a share that was stored is lost only to a call that was
\* building its metrics when it was stored.
THEOREM LostOnlyByOverlap == EngineSpec => []MetricsLoseOnlyOverlaps
  <1>1. EngineInv => MetricsLoseOnlyOverlaps
    BY Share DEF EngineInv, Losing, Overlapped, Counted, MetricsLoseOnlyOverlaps
  <1> QED
    BY <1>1, Invariance, PTL

-----------------------------------------------------------------------------
(* Speculative decoding keeps within its budget and implements Decoder.    *)

\* n copies of a value are a sequence of length n.
LEMMA Copies ==
    ASSUME NEW S, NEW v \in S, NEW n \in Nat
    PROVE  /\ [i \in 1 .. n |-> v] \in Seq(S)
           /\ Len([i \in 1 .. n |-> v]) = n
  OBVIOUS

\* Concatenation only extends: its beginning is the first sequence.
LEMMA Beginning ==
    ASSUME NEW S, NEW s \in Seq(S), NEW t \in Seq(S)
    PROVE  /\ s \o t \in Seq(S)
           /\ Len(s \o t) = Len(s) + Len(t)
           /\ SubSeq(s \o t, 1, Len(s)) = s
  <1>1. s \o t \in Seq(S) /\ Len(s \o t) = Len(s) + Len(t)
    OBVIOUS
  <1>2. SubSeq(s \o t, 1, Len(s)) = s
    <2>1. Len(s) \in Nat /\ Len(t) \in Nat
      OBVIOUS
    <2>2. /\ SubSeq(s \o t, 1, Len(s)) \in Seq(S)
          /\ Len(SubSeq(s \o t, 1, Len(s))) = Len(s)
      BY <1>1, <2>1
    <2>3. ASSUME NEW i \in 1 .. Len(s)
          PROVE  SubSeq(s \o t, 1, Len(s))[i] = s[i]
      BY <1>1, <2>1
    <2> QED
      BY <2>2, <2>3
  <1> QED
    BY <1>1, <1>2

\* So does appending one element.
LEMMA OneMore ==
    ASSUME NEW S, NEW s \in Seq(S), NEW v \in S
    PROVE  /\ Append(s, v) \in Seq(S)
           /\ Len(Append(s, v)) = Len(s) + 1
           /\ Len(Append(s, v)) > Len(s)
           /\ SubSeq(Append(s, v), 1, Len(s)) = s
           /\ Append(s, v) = s \o [i \in 1 .. 1 |-> v]
  <1>1. /\ Append(s, v) \in Seq(S) /\ Len(Append(s, v)) = Len(s) + 1
        /\ Len(s) \in Nat
    OBVIOUS
  <1>2. [i \in 1 .. 1 |-> v] \in Seq(S) /\ Len([i \in 1 .. 1 |-> v]) = 1
    BY Copies
  <1>3. Append(s, v) = s \o [i \in 1 .. 1 |-> v]
    BY <1>1, <1>2
  <1> QED
    BY <1>1, <1>2, <1>3, Beginning

\* The budget is kept at the start.
LEMMA BudgetInit == SpeculativeInit => BudgetKept
  BY SpeculativeAssumption
     DEF SpeculativeInit, BudgetKept, SpeculativeTypeOK

\* Every step keeps it.
LEMMA BudgetStep == BudgetKept /\ [SpeculativeNext]_specVars => BudgetKept'
  <1> SUFFICES ASSUME BudgetKept, [SpeculativeNext]_specVars
               PROVE  BudgetKept'
    OBVIOUS
  <1> USE SpeculativeAssumption DEF BudgetKept, SpeculativeTypeOK
  <1>1. CASE Fallback
    <2>1. models # {"draft", "target"} /\ models' = models
          /\ UNCHANGED <<remaining, candidates>>
      BY <1>1 DEF Fallback
    <2>2. generated' \in Seq({"draft", "target"}) /\ step' \in {"done", "raised"}
      BY <1>1, OneMore DEF Fallback
    <2> QED
      BY <2>1, <2>2
  <1>2. CASE ModelFails
    BY <1>2 DEF ModelFails
  <1>3. ASSUME NEW n \in 0 .. MaxDraft, Draft(n)
        PROVE  BudgetKept'
    <2>1. /\ candidates' = Least(n, Least(Gamma, remaining))
          /\ step' = IF candidates' = 0 THEN "done" ELSE "verify"
          /\ models = {"draft", "target"}
          /\ UNCHANGED <<models, generated, remaining>>
      BY <1>3 DEF Draft
    <2>2. candidates' \in Nat /\ candidates' <= Least(Gamma, remaining)
      BY <2>1 DEF Least
    <2> QED
      BY <2>1, <2>2 DEF Least
  <1>4. CASE RejectAll
    <2>1. /\ generated' = Append(generated, "target")
          /\ remaining' = remaining - 1 /\ step' = "start"
          /\ models = {"draft", "target"} /\ remaining > 0
          /\ UNCHANGED <<models, candidates>>
      BY <1>4 DEF RejectAll, Least
    <2>2. /\ generated' \in Seq({"draft", "target"})
          /\ Len(generated') = Len(generated) + 1
      BY <2>1, OneMore
    <2> QED
      BY <2>1, <2>2
  <1>5. ASSUME NEW k \in 1 .. MaxTokens, Accept(k)
        PROVE  BudgetKept'
    <2>1. /\ generated' = generated \o [i \in 1 .. k |-> "draft"]
          /\ remaining' = remaining - k /\ step' = "start"
          /\ models = {"draft", "target"} /\ k <= remaining
          /\ UNCHANGED <<models, candidates>>
      BY <1>5 DEF Accept, Least
    <2>2. /\ generated' \in Seq({"draft", "target"})
          /\ Len(generated') = Len(generated) + k
      <3>1. k \in Nat /\ [i \in 1 .. k |-> "draft"] \in Seq({"draft", "target"})
            /\ Len([i \in 1 .. k |-> "draft"]) = k
        BY Copies
      <3> QED
        BY <2>1, <3>1, Beginning
    <2>3. /\ remaining' \in Nat /\ Len(generated) \in Nat /\ k \in Nat
          /\ Len(generated') + remaining' = MaxTokens
      <3>1. Len(generated) + remaining = MaxTokens
        BY <2>1
      <3>2. Len(generated) \in Nat /\ remaining \in Nat /\ k \in Nat
        OBVIOUS
      <3> HIDE DEF BudgetKept, SpeculativeTypeOK
      <3>3. remaining' = remaining - k /\ k <= remaining
            /\ Len(generated') = Len(generated) + k
        BY <2>1, <2>2
      <3> QED
        BY <3>1, <3>2, <3>3
    <2>4. SpeculativeTypeOK'
      BY <2>1, <2>2, <2>3
    <2> QED
      BY <2>1, <2>3, <2>4 DEF BudgetKept
  <1>6. CASE Finish
    BY <1>6 DEF Finish
  <1>7. CASE UNCHANGED specVars
    BY <1>7 DEF specVars
  <1> QED
    BY <1>1, <1>2, <1>3, <1>4, <1>5, <1>6, <1>7 DEF SpeculativeNext

\* speculate never generates more than max_tokens: at every moment the tokens
\* generated and those remaining are max_tokens.
THEOREM SpeculationWithinBudget == SpeculativeSpec => []BudgetKept
  <1>1. SpeculativeInit => BudgetKept
    BY BudgetInit
  <1>2. BudgetKept /\ [SpeculativeNext]_specVars => BudgetKept'
    BY BudgetStep
  <1> QED
    BY <1>1, <1>2, PTL DEF SpeculativeSpec

\* An appended sequence of pieces is a step of the decoder.
LEMMA ExtendStep ==
    ASSUME BudgetKept, BudgetKept', step = "verify", step' = "start",
           NEW k \in Nat \ {0}, NEW v \in {"draft", "target"},
           generated' = generated \o [i \in 1 .. k |-> v],
           UNCHANGED models
    PROVE  Promise!DecoderNext
  <1>1. Len(generated') = Len(generated) + k
    BY Copies, Beginning DEF BudgetKept, SpeculativeTypeOK
  <1>2. SubSeq(generated', 1, Len(generated)) = generated
    BY Copies, Beginning DEF BudgetKept, SpeculativeTypeOK
  <1>3. Len(generated) \in Nat /\ Len(generated') \in Nat
    BY DEF BudgetKept, SpeculativeTypeOK
  <1>4. Promise!Fits(generated')
    BY <1>3, SpeculativeAssumption
       DEF BudgetKept, SpeculativeTypeOK, Promise!Fits
  <1> QED
    BY <1>1, <1>2, <1>3, <1>4 DEF Promise!DecoderNext, Promise!Extend

\* Every step of the loop is one of the decoder, or none.
LEMMA DecoderStep ==
    BudgetKept /\ BudgetKept' /\ [SpeculativeNext]_specVars
        => [Promise!DecoderNext]_Promise!decoderVars
  <1> SUFFICES ASSUME BudgetKept, BudgetKept', [SpeculativeNext]_specVars
               PROVE  [Promise!DecoderNext]_Promise!decoderVars
    OBVIOUS
  <1> USE DEF Promise!DecoderNext, Promise!Stop, Promise!decoderVars
  <1>1. CASE Fallback
    <2>1. CASE "target" \in models
      <3>1. /\ generated' = Append(generated, "target")
            /\ step = "start" /\ step' = "done"
            /\ models # {"draft", "target"} /\ models' = models
        BY <1>1, <2>1 DEF Fallback
      <3>2. /\ Len(generated') > Len(generated)
            /\ SubSeq(generated', 1, Len(generated)) = generated
        BY <3>1, OneMore DEF BudgetKept, SpeculativeTypeOK
      <3> QED
        BY <3>1, <3>2 DEF Promise!Extend, Promise!Fits
    <2>2. CASE "target" \notin models
      BY <1>1, <2>2 DEF Fallback
    <2> QED
      BY <2>1, <2>2
  <1>2. CASE ModelFails
    BY <1>2 DEF ModelFails
  <1>3. ASSUME NEW n \in 0 .. MaxDraft, Draft(n)
        PROVE  [Promise!DecoderNext]_Promise!decoderVars
    BY <1>3 DEF Draft
  <1>4. CASE RejectAll
    <2>1. generated' = generated \o [i \in 1 .. 1 |-> "target"]
      BY <1>4, OneMore DEF RejectAll, BudgetKept, SpeculativeTypeOK
    <2>2. step = "verify" /\ step' = "start" /\ UNCHANGED models
      BY <1>4 DEF RejectAll
    <2>3. Promise!DecoderNext
      <3> HIDE DEF Promise!DecoderNext, Promise!Stop, Promise!decoderVars
      <3>1. 1 \in Nat \ {0} /\ "target" \in {"draft", "target"}
        OBVIOUS
      <3> QED
        BY <2>1, <2>2, <3>1, ExtendStep, Zenon
    <2> QED
      BY <2>3
  <1>5. ASSUME NEW k \in 1 .. MaxTokens, Accept(k)
        PROVE  [Promise!DecoderNext]_Promise!decoderVars
    <2>1. /\ step = "verify" /\ step' = "start" /\ UNCHANGED models
          /\ generated' = generated \o [i \in 1 .. k |-> "draft"]
          /\ k \in Nat \ {0}
      BY <1>5, SpeculativeAssumption DEF Accept
    <2>2. Promise!DecoderNext
      <3> HIDE DEF Promise!DecoderNext
      <3> QED
        BY <2>1, ExtendStep
    <2> QED
      BY <2>2
  <1>6. CASE Finish
    BY <1>6 DEF Finish
  <1>7. CASE UNCHANGED specVars
    BY <1>7 DEF specVars
  <1> QED
    BY <1>1, <1>2, <1>3, <1>4, <1>5, <1>6, <1>7 DEF SpeculativeNext

\* speculate implements the decoder: text only grows, within the budget when
\* both models are set, and never after it stopped.
THEOREM ImplementsDecoder == SpeculativeSpec => DecoderSpec
  <1>1. SpeculativeInit => Promise!DecoderInit
    BY DEF SpeculativeInit, Promise!DecoderInit
  <1>2. SpeculativeSpec => []BudgetKept
    BY SpeculationWithinBudget
  <1>3. BudgetKept /\ BudgetKept' /\ [SpeculativeNext]_specVars
            => [Promise!DecoderNext]_Promise!decoderVars
    BY DecoderStep
  <1> QED
    BY <1>1, <1>2, <1>3, PTL
       DEF SpeculativeSpec, DecoderSpec, Promise!DecoderSpec

-----------------------------------------------------------------------------
(* A RAG pipeline: whatever is ingested again, deleted, saved and loaded,  *)
(* what the vector store has is indexed.                                   *)

Words == UNION {ToSet(e) : e \in Editions}
Results == [id : Documents \X Nat, text : Words]

\* Every chunk of a store is in the index, under its id and with its text.
Indexed(texts) ==
    \A id \in DOMAIN texts : [id |-> id, text |-> texts[id]] \in ToSet(index)

\* StoredIsIndexed is not inductive: what was saved comes back, so the file has to
\* be indexed too, although it may be older than any of the store.
RagInv ==
    /\ index \in Seq(Results)
    /\ Indexed(store)
    /\ \A saved \in file : Indexed(saved)

-----------------------------------------------------------------------------
\* The components of pairs and results.
LEMMA Second == ASSUME NEW a, NEW b PROVE <<a, b>>[2] = b
  OBVIOUS

LEMMA IdField == ASSUME NEW a, NEW b PROVE [id |-> a, text |-> b].id = a
  OBVIOUS

\* The chunks of an edition: a sequence of results, one for each of its texts.
LEMMA Chunks ==
    ASSUME NEW d \in Documents, NEW e \in Editions
    PROVE  /\ ChunksOf(d, e) \in Seq(Results)
           /\ DOMAIN ChunksOf(d, e) = DOMAIN e
           /\ \A i \in DOMAIN e :
                 /\ ChunksOf(d, e)[i] = [id |-> <<d, i - 1>>, text |-> e[i]]
                 /\ ChunksOf(d, e)[i].id[2] + 1 = i
  <1>1. e \in Seq(Words) /\ Len(e) \in Nat /\ DOMAIN e = 1 .. Len(e)
    BY RagAssumption DEF Words
  <1>2. \A i \in DOMAIN e : [id |-> <<d, i - 1>>, text |-> e[i]] \in Results
    BY <1>1 DEF Results
  <1>3. ChunksOf(d, e) = [i \in 1 .. Len(e) |-> [id |-> <<d, i - 1>>, text |-> e[i]]]
    BY <1>1 DEF ChunksOf
  <1>4. ChunksOf(d, e) \in Seq(Results)
    <2>1. ChunksOf(d, e) \in [1 .. Len(e) -> Results]
      BY <1>1, <1>2, <1>3, Zenon
    <2> QED
      BY <1>1, <2>1
  <1>5. \A i \in 1 .. Len(e) : ChunksOf(d, e)[i] = [id |-> <<d, i - 1>>, text |-> e[i]]
    BY <1>3
  <1>6. ASSUME NEW i \in 1 .. Len(e) PROVE ChunksOf(d, e)[i].id[2] + 1 = i
    <2>1. ChunksOf(d, e)[i] = [id |-> <<d, i - 1>>, text |-> e[i]]
      BY <1>5
    <2>2. ChunksOf(d, e)[i].id = <<d, i - 1>>
      BY <2>1, IdField, Zenon
    <2>3. ChunksOf(d, e)[i].id[2] = i - 1
      BY <2>2, Second, Zenon
    <2>4. i \in Int /\ (i - 1) + 1 = i
      BY <1>1
    <2> QED
      BY <2>3, <2>4
  <1> QED
    BY <1>1, <1>3, <1>4, <1>5, <1>6

\* A chunk that is stored, over an older one or not, is one that is appended to the
\* index; the others were indexed before.
LEMMA IngestKeeps ==
    ASSUME RagInv, NEW d \in Documents, NEW e \in Editions, Ingest(d, e)
    PROVE  RagInv'
  <1> DEFINE made == ChunksOf(d, e)
             ids == {made[i].id : i \in DOMAIN made}
  <1>1. /\ store' = [id \in DOMAIN store \cup ids |->
                        IF id \in ids THEN e[id[2] + 1] ELSE store[id]]
        /\ index' = index \o made /\ file' = file
    BY DEF Ingest
  <1>2. made \in Seq(Results) /\ index \in Seq(Results)
    BY Chunks DEF RagInv
  <1>3. index' \in Seq(Results)
    BY <1>1, <1>2
  <1>4. ToSet(index') = ToSet(index) \cup ToSet(made)
    BY <1>1, <1>2, Concatenated
  <1>5. ASSUME NEW id \in DOMAIN store'
        PROVE  [id |-> id, text |-> store'[id]] \in ToSet(index')
    <2>1. CASE id \in ids
      <3>1. PICK i \in DOMAIN made : id = made[i].id
        BY <2>1
      <3>2. /\ made[i] = [id |-> <<d, i - 1>>, text |-> e[i]]
            /\ made[i].id[2] + 1 = i
        <4>1. i \in DOMAIN e
          BY <3>1, Chunks
        <4> QED
          BY <4>1, Chunks, Zenon
      <3>3. store'[id] = e[i]
        <4>1. id[2] + 1 = i
          BY <3>1, <3>2
        <4>2. store'[id] = e[id[2] + 1]
          BY <1>1, <2>1, Zenon
        <4> QED
          BY <4>1, <4>2
      <3>4. [id |-> id, text |-> store'[id]] = made[i]
        BY <3>1, <3>2, <3>3
      <3>5. made[i] \in ToSet(made)
        BY <3>1 DEF ToSet
      <3> QED
        BY <1>4, <3>4, <3>5
    <2>2. CASE id \notin ids
      <3>1. id \in DOMAIN store /\ store'[id] = store[id]
        BY <1>1, <1>5, <2>2
      <3> QED
        BY <1>4, <3>1 DEF RagInv, Indexed
    <2> QED
      BY <2>1, <2>2
  <1>6. \A saved \in file' : Indexed(saved)'
    BY <1>1, <1>4 DEF RagInv, Indexed
  <1> QED
    BY <1>3, <1>5, <1>6 DEF RagInv, Indexed

\* Every step keeps the invariant.
LEMMA RagStepKeeps == RagInv /\ [RagNext]_ragVars => RagInv'
  <1> SUFFICES ASSUME RagInv, [RagNext]_ragVars PROVE RagInv'
    OBVIOUS
  <1>1. ASSUME NEW d \in Documents, NEW e \in Editions, Ingest(d, e) PROVE RagInv'
    BY <1>1, IngestKeeps
  <1>2. CASE Retrieve
    BY <1>2 DEF Retrieve, RagInv, Indexed
  <1>3. CASE ClearStore
    BY <1>3 DEF ClearStore, NoStore, RagInv, Indexed
  <1>4. ASSUME NEW id \in DOMAIN store, DeleteChunk(id) PROVE RagInv'
    <2>1. DOMAIN store' \subseteq DOMAIN store
          /\ \A i \in DOMAIN store' : store'[i] = store[i]
      BY <1>4 DEF DeleteChunk
    <2> QED
      BY <1>4, <2>1 DEF DeleteChunk, RagInv, Indexed
  <1>5. CASE SaveStore
    BY <1>5 DEF SaveStore, RagInv, Indexed
  <1>6. CASE LoadStore
    BY <1>6 DEF LoadStore, RagInv, Indexed
  <1>7. CASE UNCHANGED ragVars
    BY <1>7 DEF ragVars, RagInv, Indexed
  <1> QED
    BY <1>1, <1>2, <1>3, <1>4, <1>5, <1>6, <1>7 DEF RagNext

\* RAGPipeline.ingest, and save and load of the vector store: no dense result is
\* one that sparse retrieval could not find.
THEOREM NothingStoredUnindexed == RagSpec => []StoredIsIndexed
  <1>1. RagInit => RagInv
    <2> SUFFICES ASSUME RagInit PROVE RagInv
      OBVIOUS
    <2>1. index = <<>> /\ file = {} /\ DOMAIN store = {}
      BY DEF RagInit, NoStore
    <2> QED
      BY <2>1 DEF RagInv, Indexed
  <1>2. RagInv => StoredIsIndexed
    BY DEF RagInv, Indexed, StoredIsIndexed, Entries
  <1> QED
    BY <1>1, <1>2, RagStepKeeps, PTL DEF RagSpec
-----------------------------------------------------------------------------
(* What a retrieval returns.  There are finitely many chunks, stored or    *)
(* saved, so that the best TopK of them are at most TopK.                  *)

RagFinite ==
    /\ IsFiniteSet(DOMAIN store)
    /\ \A saved \in file : IsFiniteSet(DOMAIN saved)

\* An edition has finitely many chunks.
LEMMA RagFiniteStep == RagInv /\ RagFinite /\ [RagNext]_ragVars => RagFinite'
  <1> SUFFICES ASSUME RagInv, RagFinite, [RagNext]_ragVars PROVE RagFinite'
    OBVIOUS
  <1>1. ASSUME NEW d \in Documents, NEW e \in Editions, Ingest(d, e) PROVE RagFinite'
    <2> DEFINE made == ChunksOf(d, e)
               ids == {made[i].id : i \in DOMAIN made}
    <2>1. file' = file /\ DOMAIN store' = DOMAIN store \cup ids
      BY <1>1 DEF Ingest
    <2>2. IsFiniteSet(DOMAIN made)
      <3>1. made \in Seq(Results)
        BY Chunks
      <3>2. Len(made) \in Nat /\ DOMAIN made = 1 .. Len(made)
        BY <3>1, LenProperties
      <3> QED
        BY <3>2, FS_Interval
    <2>3. IsFiniteSet(ids)
      <3> DEFINE idOf == [i \in DOMAIN made |-> made[i].id]
      <3>1. ids = {idOf[i] : i \in DOMAIN made}
        OBVIOUS
      <3> HIDE DEF made, idOf, ids
      <3> QED
        BY <2>2, <3>1, ImageFinite
    <2> HIDE DEF ids
    <2> QED
      BY <2>1, <2>3, FS_Union DEF RagFinite
  <1>2. CASE Retrieve
    BY <1>2 DEF Retrieve, RagFinite
  <1>3. CASE ClearStore
    <2>1. DOMAIN store' = {} /\ file' = file
      BY <1>3 DEF ClearStore, NoStore
    <2> QED
      BY <2>1, FS_EmptySet DEF RagFinite
  <1>4. ASSUME NEW id \in DOMAIN store, DeleteChunk(id) PROVE RagFinite'
    <2>1. DOMAIN store' \subseteq DOMAIN store /\ file' = file
      BY <1>4 DEF DeleteChunk
    <2> QED
      BY <2>1, FS_Subset DEF RagFinite
  <1>5. CASE SaveStore
    BY <1>5 DEF SaveStore, RagFinite
  <1>6. CASE LoadStore
    BY <1>6 DEF LoadStore, RagFinite
  <1>7. CASE UNCHANGED ragVars
    BY <1>7 DEF ragVars, RagFinite
  <1> QED
    BY <1>1, <1>2, <1>3, <1>4, <1>5, <1>6, <1>7 DEF RagNext

\* The k best of finitely many results are at most k, and of them.
LEMMA BestOf ==
    ASSUME NEW k \in Nat, NEW results, IsFiniteSet(results), NEW best \in Best(k, results)
    PROVE  best \subseteq results /\ IsFiniteSet(best) /\ Cardinality(best) <= k
  <1>1. Cardinality(results) \in Nat
    BY FS_CardinalityType
  <1>2. best \subseteq results
        /\ Cardinality(best) = IF k < Cardinality(results) THEN k ELSE Cardinality(results)
    BY DEF Best
  <1> QED
    BY <1>1, <1>2, FS_Subset

\* Every result comes from the store, from the index, or, with fusion, from either,
\* and then once for each chunk id.
LEMMA RetrieveKeeps ==
    ASSUME RagInv, RagFinite, Retrieve
    PROVE  /\ Cardinality(retrieved') <= TopK
           /\ strategy = "dense" => retrieved' \subseteq Entries
           /\ strategy = "hybrid" => \A r, s \in retrieved' : r.id = s.id => r = s
  <1>1. TopK \in Nat /\ 2 * TopK \in Nat
    BY RagAssumption
  <1>2. IsFiniteSet(Entries) /\ \A r, s \in Entries : r.id = s.id => r = s
    <2>1. IsFiniteSet(Entries)
      <3> DEFINE entry == [id \in DOMAIN store |-> [id |-> id, text |-> store[id]]]
      <3>1. Entries = {entry[id] : id \in DOMAIN store}
        BY DEF Entries
      <3> HIDE DEF entry
      <3> QED
        BY <3>1, ImageFinite DEF RagFinite
    <2> QED
      BY <2>1 DEF Entries
  <1>3. IsFiniteSet(DOMAIN index)
    <2>1. Len(index) \in Nat /\ DOMAIN index = 1 .. Len(index)
      BY LenProperties DEF RagInv
    <2> QED
      BY <2>1, FS_Interval
  <1>4. ASSUME NEW k \in Nat, NEW s \in Sparse(k)
        PROVE  IsFiniteSet(s) /\ Cardinality(s) <= k
    <2> DEFINE hit == {i \in DOMAIN index : index[i].text \in Matching}
    <2>1. PICK best \in Best(k, hit) : s = {index[i] : i \in best}
      BY <1>4 DEF Sparse
    <2>2. IsFiniteSet(hit)
      BY <1>3, FS_Subset
    <2> HIDE DEF hit
    <2>3. IsFiniteSet(best) /\ Cardinality(best) <= k
      BY <2>1, <2>2, BestOf
    <2>4. IsFiniteSet(s) /\ Cardinality(s) <= Cardinality(best)
      BY <2>1, <2>3, ImageFinite
    <2>5. Cardinality(s) \in Nat /\ Cardinality(best) \in Nat
      BY <2>3, <2>4, FS_CardinalityType
    <2> QED
      BY <2>3, <2>4, <2>5
  <1>5. CASE strategy = "dense" /\ retrieved' \in Dense(TopK)
    <2>1. retrieved' \subseteq Entries /\ Cardinality(retrieved') <= TopK
      BY <1>1, <1>2, <1>5, BestOf DEF Dense
    <2> QED
      BY <1>5, <2>1
  <1>6. CASE strategy = "sparse" /\ retrieved' \in Sparse(TopK)
    BY <1>1, <1>4, <1>6
  <1>7. CASE /\ strategy = "hybrid"
             /\ \E d \in Dense(2 * TopK), s \in Sparse(2 * TopK) :
                   \E f \in Fusions(d, s) : retrieved' \in Best(TopK, f)
    <2>1. PICK d \in Dense(2 * TopK), s \in Sparse(2 * TopK) :
                 \E f \in Fusions(d, s) : retrieved' \in Best(TopK, f)
      BY <1>7
    <2>2. PICK f \in Fusions(d, s) : retrieved' \in Best(TopK, f)
      BY <2>1
    <2>3. d \subseteq Entries /\ IsFiniteSet(d) /\ IsFiniteSet(s)
      BY <1>1, <1>2, <1>4, BestOf DEF Dense
    <2> DEFINE others == {r \in s : \A t \in d : t.id # r.id}
    <2>4. PICK g \in SUBSET others :
              f = d \cup g /\ \A r, t \in g : r.id = t.id => r = t
      BY <2>2, Zenon DEF Fusions
    <2>5. IsFiniteSet(f)
      <3>1. IsFiniteSet(g)
        BY <2>3, <2>4, FS_Subset
      <3> QED
        BY <2>3, <2>4, <3>1, FS_Union
    <2>6. \A r, t \in f : r.id = t.id => r = t
      <3>1. \A r \in g, t \in d : t.id # r.id
        BY <2>4
      <3> QED
        BY <1>2, <2>3, <2>4, <3>1
    <2>7. retrieved' \subseteq f /\ Cardinality(retrieved') <= TopK
      BY <1>1, <2>2, <2>5, BestOf
    <2> QED
      BY <1>7, <2>6, <2>7
  <1> QED
    BY <1>5, <1>6, <1>7 DEF Retrieve

\* RAGPipeline.retrieve: at most top_k results; dense ones are stored; and fused ones
\* have each chunk id once, however often its document was ingested.
THEOREM RetrievalsConsistent == RagSpec => ResultsConsistent
  <1>1. RagInit => RagInv /\ RagFinite
    <2> SUFFICES ASSUME RagInit PROVE RagInv /\ RagFinite
      OBVIOUS
    <2>1. index = <<>> /\ file = {} /\ DOMAIN store = {}
      BY DEF RagInit, NoStore
    <2> QED
      BY <2>1, FS_EmptySet DEF RagInv, RagFinite, Indexed
  <1>2. RagInv /\ RagFinite /\ [RagNext]_ragVars => RagInv' /\ RagFinite'
    BY RagStepKeeps, RagFiniteStep
  <1>3. RagInv /\ RagFinite /\ [RagNext]_ragVars
            => [Retrieve =>
                  /\ Cardinality(retrieved') <= TopK
                  /\ strategy = "dense" => retrieved' \subseteq Entries
                  /\ strategy = "hybrid" =>
                        \A r, s \in retrieved' : r.id = s.id => r = s]_ragVars
    BY RetrieveKeeps
  <1> QED
    BY <1>1, <1>2, <1>3, PTL DEF RagSpec, ResultsConsistent
-----------------------------------------------------------------------------
(* The caches of tensors.  The entries are in the order of their last use, *)
(* and what is not there was used before all of them.                      *)

CacheInv ==
    /\ entries \in Seq(Keys) /\ Len(entries) <= MaxSize
    /\ uses \in Nat /\ lastUse \in [Keys -> Nat]
    /\ Sorted(entries, lastUse)
    /\ \A k \in Keys : lastUse[k] <= uses
    /\ \A k \in ToSet(entries) : lastUse[k] > 0
    /\ \A k \in Keys \ ToSet(entries) : \A e \in ToSet(entries) : lastUse[k] < lastUse[e]

LEMMA CacheInvInit == CacheInit => CacheInv
  <1> SUFFICES ASSUME CacheInit PROVE CacheInv
    OBVIOUS
  <1>1. entries = <<>> /\ uses = 0 /\ lastUse = [k \in Keys |-> 0]
    BY DEF CacheInit
  <1>2. <<>> \in Seq(Keys) /\ Len(<<>>) = 0 /\ DOMAIN <<>> = {} /\ ToSet(<<>>) = {}
    BY EmptySeq, EmptyList
  <1> QED
    BY <1>1, <1>2, TensorCacheAssumption DEF CacheInv, Sorted

\* A key that is used is the last, and the most recent one.
LEMMA Renewed ==
    ASSUME CacheInv, NEW k \in Keys, Use(k)
    PROVE  LET t == ToEnd(entries, k)
           IN  /\ t \in Seq(Keys) /\ t # <<>>
               /\ Len(t) = IF k \in ToSet(entries) THEN Len(entries) ELSE Len(entries) + 1
               /\ uses' \in Nat /\ lastUse' \in [Keys -> Nat]
               /\ Sorted(t, lastUse')
               /\ \A e \in Keys : lastUse'[e] <= uses'
               /\ \A e \in ToSet(t) : lastUse'[e] > 0
               /\ \A o \in Keys \ ToSet(t) : \A e \in ToSet(t) : lastUse'[o] < lastUse'[e]
  <1> DEFINE w == Without(entries, k)
             t == ToEnd(entries, k)
  <1>1. /\ entries \in Seq(Keys) /\ uses \in Nat /\ lastUse \in [Keys -> Nat]
        /\ Sorted(entries, lastUse) /\ lastUse \in [Keys -> Int]
    BY DEF CacheInv
  <1>2. IsInjective(entries)
    BY <1>1, SortedOnce
  <1>3. uses' = uses + 1 /\ lastUse' = [lastUse EXCEPT ![k] = uses + 1]
    BY DEF Use
  <1>4. uses' \in Nat /\ lastUse' \in [Keys -> Nat] /\ lastUse' \in [Keys -> Int]
    BY <1>1, <1>3
  <1>5. /\ lastUse'[k] = uses + 1
        /\ \A e \in Keys : e # k => lastUse'[e] = lastUse[e]
    BY <1>1, <1>3
  <1>6. w \in Seq(Keys) /\ ToSet(w) = ToSet(entries) \ {k} /\ Sorted(w, lastUse)
    BY <1>1, <1>2, WithoutOf, SortedWithout
  <1>7. /\ t \in Seq(Keys) /\ t # <<>> /\ ToSet(t) = ToSet(entries) \cup {k}
        /\ Len(t) = IF k \in ToSet(entries) THEN Len(entries) ELSE Len(entries) + 1
    BY <1>1, <1>2, ToEndOf
  <1>8. t = Append(w, k) /\ ToSet(entries) \subseteq Keys
    BY <1>1, MembersTyped DEF ToEnd
  <1> HIDE DEF w, t
  <1>9. Sorted(w, lastUse')
    <2>1. \A e \in ToSet(w) : lastUse'[e] = lastUse[e]
      BY <1>5, <1>6, <1>8
    <2> QED
      BY <1>6, <2>1, SortedSame
  <1>10. \A e \in ToSet(w) : lastUse'[e] < lastUse'[k]
    <2>1. \A e \in ToSet(w) : e \in Keys /\ e # k
      BY <1>6, <1>8
    <2>2. \A e \in Keys : e # k => lastUse[e] < uses + 1
      BY <1>1 DEF CacheInv
    <2> QED
      BY <1>5, <2>1, <2>2
  <1>11. Sorted(t, lastUse')
    BY <1>4, <1>6, <1>8, <1>9, <1>10, SortedAppend
  <1>12. ASSUME NEW e \in Keys PROVE lastUse'[e] <= uses'
    <2>1. lastUse[e] <= uses /\ lastUse[e] \in Nat
      BY <1>1 DEF CacheInv
    <2> QED
      BY <1>1, <1>3, <1>5, <2>1
  <1>13. ASSUME NEW e \in ToSet(t) PROVE lastUse'[e] > 0
    <2>1. CASE e = k
      BY <1>1, <1>5, <2>1
    <2>2. CASE e # k
      BY <1>5, <1>7, <1>8, <1>13, <2>2 DEF CacheInv
    <2> QED
      BY <2>1, <2>2
  <1>14. ASSUME NEW o \in Keys \ ToSet(t), NEW e \in ToSet(t)
         PROVE  lastUse'[o] < lastUse'[e]
    <2>1. o # k /\ o \notin ToSet(entries) /\ lastUse'[o] = lastUse[o]
      BY <1>5, <1>7
    <2>2. CASE e = k
      <3>1. lastUse[o] <= uses /\ lastUse[o] \in Nat
        BY <1>1 DEF CacheInv
      <3> QED
        BY <1>1, <1>5, <2>1, <2>2, <3>1
    <2>3. CASE e # k
      <3>1. e \in ToSet(entries) /\ lastUse'[e] = lastUse[e]
        BY <1>5, <1>7, <1>8, <2>3
      <3> QED
        BY <2>1, <3>1 DEF CacheInv
    <2> QED
      BY <2>2, <2>3
  <1> QED
    BY <1>4, <1>7, <1>11, <1>12, <1>13, <1>14 DEF t

\* The entry that goes when there are too many is the first, the oldest.
LEMMA SetKeeps == ASSUME CacheInv, NEW k \in Keys, Set(k) PROVE CacheInv'
  <1> DEFINE t == ToEnd(entries, k)
  <1>1. Use(k) /\ entries' = IF Len(t) > MaxSize THEN Tail(t) ELSE t
    BY DEF Set
  <1>2. /\ t \in Seq(Keys) /\ t # <<>>
        /\ Len(t) = IF k \in ToSet(entries) THEN Len(entries) ELSE Len(entries) + 1
        /\ uses' \in Nat /\ lastUse' \in [Keys -> Nat]
        /\ Sorted(t, lastUse')
        /\ \A e \in Keys : lastUse'[e] <= uses'
        /\ \A e \in ToSet(t) : lastUse'[e] > 0
        /\ \A o \in Keys \ ToSet(t) : \A e \in ToSet(t) : lastUse'[o] < lastUse'[e]
    BY <1>1, Renewed
  <1> HIDE DEF t
  <1>3. Len(t) \in Nat /\ Len(t) <= MaxSize + 1 /\ MaxSize \in Nat
    <2>1. Len(entries) \in Nat /\ Len(entries) <= MaxSize /\ MaxSize \in Nat
      BY LenProperties, TensorCacheAssumption DEF CacheInv
    <2> QED
      BY <1>2, <2>1
  <1>4. CASE ~(Len(t) > MaxSize)
    <2>1. entries' = t
      BY <1>1, <1>4
    <2>2. Len(t) <= MaxSize
      BY <1>3, <1>4
    <2> QED
      BY <1>2, <2>1, <2>2 DEF CacheInv
  <1>5. CASE Len(t) > MaxSize
    <2> DEFINE u == Tail(t)
    <2>1. /\ u \in Seq(Keys) /\ Len(u) = Len(t) - 1
          /\ ToSet(t) = {Head(t)} \cup ToSet(u)
      BY <1>2, HeadApart
    <2>2. Sorted(u, lastUse') /\ \A e \in ToSet(u) : lastUse'[Head(t)] < lastUse'[e]
      <3>1. lastUse' \in [Keys -> Int]
        BY <1>2
      <3> QED
        BY <1>2, <3>1, SortedTail
    <2> HIDE DEF u
    <2>3. \A o \in Keys \ ToSet(u) : \A e \in ToSet(u) : lastUse'[o] < lastUse'[e]
      BY <1>2, <2>1, <2>2
    <2>4. entries' = u
      BY <1>1, <1>5 DEF u
    <2>5. Len(u) <= MaxSize
      BY <1>3, <2>1
    <2> QED
      BY <1>2, <2>1, <2>2, <2>3, <2>4, <2>5 DEF CacheInv
  <1> QED
    BY <1>4, <1>5

\* Every step keeps the order.
LEMMA CacheStep == CacheInv /\ [CacheNext]_cacheVars => CacheInv'
  <1> SUFFICES ASSUME CacheInv, [CacheNext]_cacheVars PROVE CacheInv'
    OBVIOUS
  <1>1. ASSUME NEW k \in Keys, Set(k) PROVE CacheInv'
    BY <1>1, SetKeeps
  <1>2. ASSUME NEW k \in Keys, Get(k) PROVE CacheInv'
    <2> DEFINE t == ToEnd(entries, k)
    <2>1. Use(k) /\ entries' = t /\ Contains(entries, k)
      BY <1>2 DEF Get
    <2>2. k \in ToSet(entries)
      BY <2>1, MembersTyped DEF Contains, CacheInv
    <2>3. /\ t \in Seq(Keys)
          /\ Len(t) = IF k \in ToSet(entries) THEN Len(entries) ELSE Len(entries) + 1
          /\ uses' \in Nat /\ lastUse' \in [Keys -> Nat]
          /\ Sorted(t, lastUse')
          /\ \A e \in Keys : lastUse'[e] <= uses'
          /\ \A e \in ToSet(t) : lastUse'[e] > 0
          /\ \A o \in Keys \ ToSet(t) : \A e \in ToSet(t) : lastUse'[o] < lastUse'[e]
      BY <2>1, Renewed
    <2> HIDE DEF t
    <2>4. Len(t) <= MaxSize
      BY <2>2, <2>3 DEF CacheInv
    <2> QED
      BY <2>1, <2>3, <2>4 DEF CacheInv
  <1>3. ASSUME NEW k \in Keys, Delete(k) PROVE CacheInv'
    <2> DEFINE w == Without(entries, k)
    <2>1. /\ entries' = w /\ lastUse' = [lastUse EXCEPT ![k] = 0] /\ uses' = uses
      BY <1>3 DEF Delete
    <2>2. /\ entries \in Seq(Keys) /\ lastUse \in [Keys -> Int] /\ Sorted(entries, lastUse)
          /\ Len(entries) \in Nat /\ Len(entries) <= MaxSize /\ MaxSize \in Nat
      BY LenProperties, TensorCacheAssumption DEF CacheInv
    <2>3. IsInjective(entries)
      BY <2>2, SortedOnce
    <2>4. /\ w \in Seq(Keys) /\ ToSet(w) = ToSet(entries) \ {k} /\ Sorted(w, lastUse)
          /\ Len(w) = IF k \in ToSet(entries) THEN Len(entries) - 1 ELSE Len(entries)
      BY <2>2, <2>3, WithoutOf, SortedWithout
    <2>5. ToSet(entries) \subseteq Keys
      BY <2>2, MembersTyped
    <2> HIDE DEF w
    <2>6. /\ lastUse' \in [Keys -> Nat] /\ lastUse'[k] = 0
          /\ \A e \in Keys : e # k => lastUse'[e] = lastUse[e]
      BY <2>1 DEF CacheInv
    <2>7. \A e \in ToSet(w) : lastUse'[e] = lastUse[e]
      BY <2>4, <2>5, <2>6
    <2>8. Sorted(w, lastUse')
      BY <2>4, <2>7, SortedSame
    <2>9. Len(w) <= MaxSize
      BY <2>2, <2>4
    <2>10. \A e \in Keys : lastUse'[e] <= uses'
      BY <2>1, <2>6 DEF CacheInv
    <2>11. \A e \in ToSet(w) : lastUse'[e] > 0
      BY <2>4, <2>7 DEF CacheInv
    <2>12. ASSUME NEW o \in Keys \ ToSet(w), NEW e \in ToSet(w)
           PROVE  lastUse'[o] < lastUse'[e]
      <3>1. CASE o = k
        BY <2>6, <2>11, <3>1
      <3>2. CASE o # k
        BY <2>4, <2>6, <2>7, <3>2 DEF CacheInv
      <3> QED
        BY <3>1, <3>2
    <2> QED
      BY <2>1, <2>4, <2>6, <2>8, <2>9, <2>10, <2>11, <2>12 DEF CacheInv
  <1>4. CASE ClearCache
    <2>1. entries' = <<>> /\ uses' = uses /\ lastUse' = [k \in Keys |-> 0]
      BY <1>4 DEF ClearCache
    <2>2. <<>> \in Seq(Keys) /\ Len(<<>>) = 0 /\ DOMAIN <<>> = {} /\ ToSet(<<>>) = {}
      BY EmptySeq, EmptyList
    <2> QED
      BY <2>1, <2>2, TensorCacheAssumption DEF CacheInv, Sorted
  <1>5. CASE UNCHANGED cacheVars
    BY <1>5 DEF cacheVars, CacheInv
  <1> QED
    BY <1>1, <1>2, <1>3, <1>4, <1>5 DEF CacheNext

\* What a text shares with a prefix is a length of both, and all of the prefix if
\* the text begins with it.
LEMMA SharedOf ==
    ASSUME NEW S, NEW p \in Seq(S), NEW q \in Seq(S)
    PROVE  /\ Shared(p, q) \in 0 .. Len(p) /\ Shared(p, q) <= Len(q)
           /\ SubSeq(p, 1, Shared(p, q)) = SubSeq(q, 1, Shared(p, q))
           /\ IsPrefix(p, q) => Shared(p, q) = Len(p)
  <1> DEFINE m == Min({Len(p), Len(q)})
             Z == {n \in 0 .. m : SubSeq(p, 1, n) = SubSeq(q, 1, n)}
  <1>1. Len(p) \in Nat /\ Len(q) \in Nat
    BY LenProperties
  <1>2. m \in {Len(p), Len(q)} /\ m <= Len(p) /\ m <= Len(q)
    BY <1>1, MinOf
  <1> HIDE DEF m
  <1>3. 0 \in Z
    <2>1. SubSeq(p, 1, 0) = <<>> /\ SubSeq(q, 1, 0) = <<>>
      BY SubSeqEmpty
    <2> QED
      BY <1>1, <1>2, <2>1
  <1>4. Max(Z) \in Z /\ \A n \in Z : Max(Z) >= n
    <2>1. Z \subseteq 0 .. m /\ m \in Nat
      BY <1>1, <1>2
    <2> HIDE DEF Z
    <2> QED
      BY <1>3, <2>1, MaxOf
  <1>5. Shared(p, q) = Max(Z)
    BY DEF Shared, m
  <1>6. ASSUME IsPrefix(p, q) PROVE Shared(p, q) = Len(p)
    <2>1. Len(p) <= Len(q) /\ SubSeq(p, 1, Len(p)) = SubSeq(q, 1, Len(p))
      BY <1>6 DEF IsPrefix
    <2>2. Len(p) \in Z
      BY <1>1, <1>2, <2>1
    <2>3. Max(Z) >= Len(p) /\ Max(Z) \in 0 .. m
      BY <1>4, <2>2
    <2> QED
      BY <1>1, <1>2, <1>5, <2>3
  <1>7. Max(Z) \in 0 .. m /\ SubSeq(p, 1, Max(Z)) = SubSeq(q, 1, Max(Z))
    <2>1. \A n \in Z : n \in 0 .. m /\ SubSeq(p, 1, n) = SubSeq(q, 1, n)
      OBVIOUS
    <2> HIDE DEF Z
    <2> QED
      BY <1>4, <2>1
  <1> HIDE DEF Z
  <1>8. Shared(p, q) \in 0 .. Len(p) /\ Shared(p, q) <= Len(q)
    BY <1>1, <1>2, <1>5, <1>7
  <1> QED
    BY <1>5, <1>6, <1>7, <1>8

\* A key of the cache is shared whole by every text that begins with it, so that no
\* other entry beats it, and none that is shared in part matches it.
LEMMA MatchFound ==
    ASSUME CacheInv, NEW k \in ToSet(entries), NEW rest \in Keys
    PROVE  LET match == MatchPrefix(k \o rest)
           IN  match # <<>> /\ IsPrefix(match, k \o rest)
  <1> DEFINE Chars == UNION {ToSet(c) : c \in Keys}
             text == k \o rest
             Beats(p, q) == Shared(p, text) * Len(q) > Shared(q, text) * Len(p)
             best == {i \in DOMAIN entries : /\ 2 * Shared(entries[i], text) > Len(entries[i])
                                             /\ \A c \in ToSet(entries) : ~Beats(c, entries[i])}
  <1>1. Keys \subseteq Seq(Chars) /\ <<>> \notin Keys
    BY TensorCacheAssumption
  <1> HIDE DEF Chars
  <1>2. /\ DOMAIN entries = 1 .. Len(entries) /\ Len(entries) \in Nat
        /\ ToSet(entries) \subseteq Keys
        /\ \A x \in ToSet(entries) : \E i \in 1 .. Len(entries) : x = entries[i]
        /\ \A i \in 1 .. Len(entries) : entries[i] \in ToSet(entries)
    BY MembersTyped DEF CacheInv
  <1>3. k \in Seq(Chars) /\ rest \in Seq(Chars) /\ text \in Seq(Chars)
    BY <1>1, <1>2, ConcatProperties
  <1>4. \A c \in Keys : Len(c) \in Nat /\ Len(c) > 0
    BY <1>1, LenProperties, EmptySeq
  <1>5. IsPrefix(k, text)
    <2>1. /\ Len(text) = Len(k) + Len(rest) /\ Len(k) \in Nat /\ Len(rest) \in Nat
          /\ \A i \in 1 .. Len(k) : text[i] = k[i]
      BY <1>3, ConcatProperties, LenProperties
    <2> HIDE DEF text
    <2>2. SubSeq(k, 1, Len(k)) = SubSeq(text, 1, Len(k))
      BY <1>3, <2>1, SubSeqProperties
    <2> QED
      BY <2>1, <2>2 DEF IsPrefix
  <1> HIDE DEF text
  <1>6. Shared(k, text) = Len(k) /\ Len(k) \in Nat /\ Len(k) > 0
    BY <1>2, <1>3, <1>4, <1>5, SharedOf
  <1>7. ASSUME NEW c \in ToSet(entries)
        PROVE  /\ Shared(c, text) \in Nat /\ Len(c) \in Nat /\ Shared(c, text) <= Len(c)
               /\ Len(c) > 0
    <2>1. c \in Seq(Chars) /\ Len(c) \in Nat /\ Len(c) > 0
      BY <1>1, <1>2, <1>4
    <2>2. Shared(c, text) \in 0 .. Len(c)
      BY <1>3, <2>1, SharedOf
    <2> QED
      BY <2>1, <2>2
  <1>8. PICK i \in 1 .. Len(entries) : k = entries[i]
    BY <1>2
  <1>9. i \in best
    <2>1. 2 * Shared(k, text) > Len(k)
      BY <1>6
    <2>2. ASSUME NEW c \in ToSet(entries) PROVE ~Beats(c, k)
      <3> DEFINE a == Shared(c, text)
                 b == Len(c)
                 n == Len(k)
      <3>1. a \in Nat /\ b \in Nat /\ n \in Nat /\ a <= b
        BY <1>6, <1>7
      <3>2. Beats(c, k) <=> a * n > n * b
        BY <1>6
      <3> HIDE DEF a, b, n
      <3>3. a * n <= b * n
        BY <3>1
      <3>4. b * n = n * b
        BY <3>1
      <3>5. a * n \in Int /\ n * b \in Int
        BY <3>1
      <3>6. ~(a * n > n * b)
        BY <3>3, <3>4, <3>5
      <3> HIDE DEF Beats
      <3> QED
        BY <3>2, <3>6
    <2> HIDE DEF Beats
    <2> QED
      BY <1>2, <1>8, <2>1, <2>2
  <1>10. Min(best) \in best
    <2>1. best \subseteq Nat /\ best # {}
      BY <1>2, <1>9
    <2> HIDE DEF best
    <2> QED
      BY <2>1, MinOf
  <1>11. MatchPrefix(text) = entries[Min(best)]
    BY <1>9 DEF MatchPrefix
  <1> DEFINE e == entries[Min(best)]
  <1>12. e \in ToSet(entries) /\ ~Beats(k, e)
    BY <1>2, <1>10
  <1> HIDE DEF best, e
  <1>13. Shared(e, text) = Len(e)
    <2> DEFINE a == Shared(e, text)
               b == Len(e)
               n == Len(k)
    <2>1. a \in Nat /\ b \in Nat /\ n \in Nat /\ a <= b /\ n > 0
      BY <1>6, <1>7, <1>12
    <2>2. ~(n * b > a * n)
      BY <1>6, <1>12
    <2> HIDE DEF a, b, n
    <2>3. ASSUME a < b PROVE FALSE
      <3>1. n * a < n * b
        BY <2>1, <2>3
      <3>2. n * a = a * n
        BY <2>1
      <3>3. n * a \in Int /\ n * b \in Int /\ a * n \in Int
        BY <2>1
      <3> QED
        BY <2>2, <3>1, <3>2, <3>3
    <2>4. a = b
      BY <2>1, <2>3
    <2> QED
      BY <2>4 DEF a, b
  <1>14. e \in Seq(Chars) /\ e # <<>>
    BY <1>1, <1>2, <1>12
  <1>15. IsPrefix(e, text)
    BY <1>3, <1>13, <1>14, SharedOf DEF IsPrefix
  <1> QED
    BY <1>11, <1>14, <1>15 DEF e, text

\* KVCache and PrefixCache of llm-inference: whatever is stored, read, deleted and
\* cleared in whichever order, a key that was evicted was unused for longer than
\* every key that stayed, and a text is matched by a prefix of it.
THEOREM LeastRecentEvicted == CacheSpec => []EvictsLeastRecent
  <1>1. CacheInv => EvictsLeastRecent
    <2> SUFFICES ASSUME CacheInv PROVE EvictsLeastRecent
      OBVIOUS
    <2>1. entries \in Seq(Keys) /\ lastUse \in [Keys -> Int] /\ Sorted(entries, lastUse)
      BY DEF CacheInv
    <2>2. IsInjective(entries)
      BY <2>1, SortedOnce
    <2>3. \A k \in Keys : Contains(entries, k) <=> k \in ToSet(entries)
      BY <2>1, MembersTyped DEF Contains
    <2>4. \A k \in ToSet(entries), rest \in Keys :
             LET match == MatchPrefix(k \o rest)
             IN  match # <<>> /\ IsPrefix(match, k \o rest)
      BY MatchFound
    <2> QED
      BY <2>2, <2>3, <2>4 DEF CacheInv, EvictsLeastRecent
  <1> QED
    BY <1>1, CacheInvInit, CacheStep, PTL DEF CacheSpec

-----------------------------------------------------------------------------
(* The context engine: every context fits its budget, and a layout keeps   *)
(* the key sentences first and the newest of the others.                  *)

TextTokens == Sentences \X Nat

\* The tokens of a sentence are its own, and there is one at least.
LEMMA TokensOf ==
    ASSUME NEW s \in Sentences
    PROVE  /\ Tokens(s) \in Seq(TextTokens) /\ Len(Tokens(s)) = Size[s] /\ Size[s] \in Nat \ {0}
           /\ \A i \in 1 .. Size[s] : Tokens(s)[i] = <<s, i>>
<1>1. Size[s] \in Nat \ {0}
    BY ContextAssumption
<1>2. [k \in 1 .. Size[s] |-> <<s, k>>] \in [1 .. Size[s] -> TextTokens]
    BY <1>1 DEF TextTokens
<1>3. Tokens(s) \in Seq(TextTokens)
    <2> DEFINE f == [k \in 1 .. Size[s] |-> <<s, k>>]
    <2>1. f \in [1 .. Size[s] -> TextTokens]
        BY <1>2
    <2> HIDE DEF f
    <2>2. f \in Seq(TextTokens)
        BY <1>1, <2>1, ListOf
    <2> QED BY <2>2 DEF f, Tokens
<1> QED BY <1>1, <1>3 DEF Tokens

\* The tokens of joined sentences are theirs.
LEMMA JoinedOf ==
    ASSUME NEW pieces \in Seq(Sentences)
    PROVE  /\ Joined(pieces) \in Seq(TextTokens)
           /\ \A i \in DOMAIN pieces : <<pieces[i], 1>> \in ToSet(Joined(pieces))
           /\ \A t \in ToSet(Joined(pieces)) : t[1] \in ToSet(pieces)
<1> DEFINE ss == [i \in DOMAIN pieces |-> Tokens(pieces[i])]
<1>1. Len(pieces) \in Nat /\ DOMAIN pieces = 1 .. Len(pieces)
         /\ \A i \in 1 .. Len(pieces) : pieces[i] \in Sentences
    BY LenProperties, ElementOfSeq
<1>2. \A i \in DOMAIN pieces : ss[i] = Tokens(pieces[i])
    OBVIOUS
<1>3. ss \in Seq(Seq(TextTokens))
    <2>1. \A i \in 1 .. Len(pieces) : Tokens(pieces[i]) \in Seq(TextTokens)
        BY <1>1, TokensOf
    <2>2. ss \in [1 .. Len(pieces) -> Seq(TextTokens)]
        BY <1>1, <2>1
    <2> HIDE DEF ss
    <2> QED BY <1>1, <2>2, ListOf
<1>4. Joined(pieces) = FlattenSeq(ss) /\ DOMAIN ss = DOMAIN pieces
    BY DEF Joined
<1> HIDE DEF ss
<1>5. /\ FlattenSeq(ss) \in Seq(TextTokens)
      /\ \A x : x \in ToSet(FlattenSeq(ss)) <=> \E i \in DOMAIN ss : x \in ToSet(ss[i])
    BY <1>3, FlattenedMembers
<1>6. ASSUME NEW i \in DOMAIN pieces PROVE <<pieces[i], 1>> \in ToSet(ss[i])
    <2>1. /\ Tokens(pieces[i]) \in Seq(TextTokens) /\ Len(Tokens(pieces[i])) = Size[pieces[i]]
          /\ 1 \in 1 .. Size[pieces[i]]
          /\ \A k \in 1 .. Size[pieces[i]] : Tokens(pieces[i])[k] = <<pieces[i], k>>
        BY <1>1, TokensOf
    <2>2. Tokens(pieces[i])[1] \in ToSet(Tokens(pieces[i]))
        BY <2>1, MembersTyped
    <2>3. Tokens(pieces[i])[1] = <<pieces[i], 1>>
        BY <2>1
    <2> QED BY <1>2, <2>2, <2>3
<1>7. ASSUME NEW i \in DOMAIN pieces, NEW t \in ToSet(ss[i]) PROVE t[1] \in ToSet(pieces)
    <2>1. /\ Tokens(pieces[i]) \in Seq(TextTokens) /\ Len(Tokens(pieces[i])) = Size[pieces[i]]
          /\ \A k \in 1 .. Size[pieces[i]] : Tokens(pieces[i])[k] = <<pieces[i], k>>
        BY <1>1, TokensOf
    <2>2. PICK k \in 1 .. Size[pieces[i]] : t = Tokens(pieces[i])[k]
        BY <1>2, <2>1, MembersTyped
    <2>3. t[1] = pieces[i]
        BY <2>1, <2>2
    <2> QED BY <2>3 DEF ToSet
<1> QED BY <1>4, <1>5, <1>6, <1>7

\* A truncated text is a part of it, and fits a positive budget.
LEMMA TruncateOf ==
    ASSUME NEW S, NEW tokens \in Seq(S), NEW budget \in Int
    PROVE  /\ Truncate(tokens, budget) \in Seq(S)
           /\ ToSet(Truncate(tokens, budget)) \subseteq ToSet(tokens)
           /\ budget > 0 => Len(Truncate(tokens, budget)) <= budget
<1>1. Len(tokens) \in Nat /\ DOMAIN tokens = 1 .. Len(tokens)
    BY LenProperties
<1>2. ASSUME NEW m \in 1 .. Len(tokens) + 1
      PROVE  /\ SubSeq(tokens, m, Len(tokens)) \in Seq(S)
             /\ Len(SubSeq(tokens, m, Len(tokens))) = Len(tokens) + 1 - m
             /\ ToSet(SubSeq(tokens, m, Len(tokens))) \subseteq ToSet(tokens)
    <2> DEFINE k == m - 1
    <2>1. k \in 0 .. Len(tokens) /\ k + 1 = m
        BY <1>1
    <2> HIDE DEF k
    <2> QED BY <1>1, <2>1, Parted, PartsShareNothing
<1>3. CASE Len(tokens) <= budget \/ budget = 0
    BY <1>1, <1>3 DEF Truncate
<1>4. CASE ~(Len(tokens) <= budget \/ budget = 0) /\ budget > 0
    <2>1. Len(tokens) - budget + 1 \in 1 .. Len(tokens) + 1
        BY <1>1, <1>4
    <2>2. Truncate(tokens, budget) = SubSeq(tokens, Len(tokens) - budget + 1, Len(tokens))
        BY <1>4 DEF Truncate
    <2> QED BY <1>1, <1>2, <2>1, <2>2
<1>5. CASE ~(Len(tokens) <= budget \/ budget = 0) /\ ~(budget > 0)
    <2>1. Truncate(tokens, budget) = SubSeq(tokens, 1 - budget, Len(tokens))
        BY <1>5 DEF Truncate
    <2>2. CASE 1 - budget \in 1 .. Len(tokens) + 1
        BY <1>2, <1>5, <2>1, <2>2
    <2>3. CASE 1 - budget > Len(tokens)
        <3>1. SubSeq(tokens, 1 - budget, Len(tokens)) = <<>>
            BY <1>1, <2>3
        <3>2. /\ Truncate(tokens, budget) = <<>> /\ ~(budget > 0)
              /\ <<>> \in Seq(S) /\ ToSet(<<>>) = {}
            BY <1>5, <2>1, <3>1, EmptyList, EmptySeq
        <3> QED BY <3>2
    <2> QED BY <1>1, <1>5, <2>2, <2>3
<1> QED BY <1>3, <1>4, <1>5

\* How often the words of a query hit a sentence of a text.
HitsOf(text, query, i) == IF query THEN Hits[text[i]] ELSE 0

\* The key sentences are sentences of the text that the query hits, and no other
\* has more hits.
LEMMA SelectOf ==
    ASSUME NEW text \in Seq(Sentences), NEW query \in BOOLEAN, NEW k \in Nat
    PROVE  /\ SelectRelevant(text, query, k) \in Seq(Sentences)
           /\ ToSet(SelectRelevant(text, query, k)) \subseteq ToSet(text)
           /\ \A i, j \in DOMAIN text :
                 /\ Contains(SelectRelevant(text, query, k), text[i])
                 /\ ~Contains(SelectRelevant(text, query, k), text[j])
                 => HitsOf(text, query, i) >= HitsOf(text, query, j)
<1> DEFINE hit == {i \in DOMAIN text : query /\ Hits[text[i]] > 0}
           before == {p \in hit \X hit :
                         \/ Hits[text[p[1]]] > Hits[text[p[2]]]
                         \/ Hits[text[p[1]]] = Hits[text[p[2]]] /\ p[1] < p[2]}
           N == Cardinality(hit)
           count == IF k < N THEN k ELSE N
           sorted == InOrder(hit, before)
           key == SelectRelevant(text, query, k)
<1>1. /\ Len(text) \in Nat /\ DOMAIN text = 1 .. Len(text)
      /\ \A i \in 1 .. Len(text) : text[i] \in Sentences /\ Hits[text[i]] \in Nat
    BY LenProperties, ElementOfSeq, ContextAssumption
<1>2. key = [n \in 1 .. count |-> text[sorted[n]]]
    BY DEF SelectRelevant
<1>3. hit \subseteq 1 .. Len(text) /\ IsFiniteSet(hit)
    <2>1. hit \subseteq 1 .. Len(text)
        BY <1>1
    <2>2. IsFiniteSet(1 .. Len(text))
        BY <1>1, FS_Interval
    <2> HIDE DEF hit
    <2> QED BY <2>1, <2>2, FS_Subset
<1>4. \A x, y \in hit : <<x, y>> \in before <=>
         Hits[text[x]] > Hits[text[y]] \/ (Hits[text[x]] = Hits[text[y]] /\ x < y)
    <2> DEFINE Ahead(x, y) ==
                  \/ Hits[text[x]] > Hits[text[y]]
                  \/ Hits[text[x]] = Hits[text[y]] /\ x < y
    <2> HIDE DEF hit
    <2>1. before = {p \in hit \X hit : Ahead(p[1], p[2])}
        OBVIOUS
    <2> HIDE DEF Ahead, before
    <2>2. \A x, y \in hit : <<x, y>> \in before <=> Ahead(x, y)
        BY <2>1
    <2> QED BY <2>2 DEF Ahead
<1>5. \A i \in DOMAIN text : i \in hit <=> query /\ Hits[text[i]] > 0
    OBVIOUS
<1> HIDE DEF hit, before
<1>6. StrictOrder(hit, before)
    <2> DEFINE w(i) == Hits[text[i]]
    <2>1. \A x \in hit : w(x) \in Nat /\ x \in Nat
        BY <1>1, <1>3
    <2>2. \A x, y \in hit : <<x, y>> \in before <=> w(x) > w(y) \/ (w(x) = w(y) /\ x < y)
        BY <1>4
    <2> HIDE DEF w
    <2> QED BY <2>1, <2>2 DEF StrictOrder
<1>7. /\ N \in Nat /\ sorted \in [1 .. N -> hit]
      /\ \A m, n \in 1 .. N : m < n => <<sorted[m], sorted[n]>> \in before
      /\ \A x \in hit : \E n \in 1 .. N : sorted[n] = x
    BY <1>3, <1>6, Ranked, SMTT(30)
<1> HIDE DEF N, sorted, key
<1>8. count \in 0 .. N
    BY <1>7
<1> HIDE DEF count
<1>9. \A n \in 1 .. count :
         sorted[n] \in hit /\ sorted[n] \in DOMAIN text /\ text[sorted[n]] \in Sentences
    <2> SUFFICES ASSUME NEW n \in 1 .. count
                 PROVE  /\ sorted[n] \in hit /\ sorted[n] \in DOMAIN text
                        /\ text[sorted[n]] \in Sentences
        OBVIOUS
    <2>1. n \in 1 .. N
        BY <1>7, <1>8
    <2>2. sorted[n] \in hit
        BY <1>7, <2>1
    <2> QED BY <1>1, <1>3, <2>2
<1>10. key \in [1 .. count -> Sentences] /\ \A n \in 1 .. count : key[n] = text[sorted[n]]
    BY <1>2, <1>9
<1>11. key \in Seq(Sentences) /\ Len(key) = count /\ DOMAIN key = 1 .. count
    <2>1. key \in Seq(Sentences)
        BY <1>7, <1>8, <1>10, ListOf
    <2> QED BY <1>8, <1>10, <2>1, LenProperties
<1>12. ToSet(key) \subseteq ToSet(text)
    BY <1>9, <1>10, <1>11 DEF ToSet
<1>13. ASSUME NEW i \in DOMAIN text, NEW j \in DOMAIN text,
              Contains(key, text[i]), ~Contains(key, text[j])
       PROVE  HitsOf(text, query, i) >= HitsOf(text, query, j)
    <2>1. PICK n \in 1 .. count : text[i] = text[sorted[n]]
        BY <1>10, <1>11, <1>13 DEF Contains
    <2>2. query /\ Hits[text[i]] > 0
        BY <1>5, <1>9, <2>1
    <2>3. CASE j \notin hit
        BY <1>1, <1>5, <2>2, <2>3 DEF HitsOf
    <2>4. CASE j \in hit
        <3>1. PICK m \in 1 .. N : sorted[m] = j
            BY <1>7, <2>4
        <3>2. ~(m <= count)
            BY <1>7, <1>8, <1>10, <1>11, <1>13, <3>1 DEF Contains
        <3>3. n < m /\ n \in 1 .. N
            BY <1>7, <1>8, <3>2
        <3>4. <<sorted[n], sorted[m]>> \in before
            BY <1>7, <3>3
        <3>5. Hits[text[sorted[n]]] >= Hits[text[j]]
            <4>1. sorted[n] \in hit /\ <<sorted[n], j>> \in before
                BY <1>9, <3>1, <3>4
            <4>2. Hits[text[sorted[n]]] \in Nat /\ Hits[text[j]] \in Nat
                BY <1>1, <1>3, <2>4, <4>1
            <4>3. \/ Hits[text[sorted[n]]] > Hits[text[j]]
                  \/ Hits[text[sorted[n]]] = Hits[text[j]] /\ sorted[n] < j
                BY <1>4, <2>4, <4>1
            <4> QED BY <4>2, <4>3
        <3> QED BY <2>1, <2>2, <3>5 DEF HitsOf
    <2> QED BY <2>3, <2>4
<1> QED BY <1>11, <1>12, <1>13 DEF key

\* The others are the sentences of the text that are no key sentences, in the
\* order of the text.
LEMMA OthersOf ==
    ASSUME NEW text \in Seq(Sentences), NEW key
    PROVE  /\ Others(text, key) \in Seq(Sentences)
           /\ \E p \in [1 .. Len(Others(text, key)) -> DOMAIN text] :
                 /\ \A n \in 1 .. Len(Others(text, key)) :
                       Others(text, key)[n] = text[p[n]] /\ ~Contains(key, text[p[n]])
                 /\ \A m, n \in 1 .. Len(Others(text, key)) : m < n => p[m] < p[n]
                 /\ \A i \in DOMAIN text : ~Contains(key, text[i]) =>
                       \E n \in 1 .. Len(Others(text, key)) : p[n] = i
<1> DEFINE other == {i \in DOMAIN text : ~Contains(key, text[i])}
           N == Cardinality(other)
           p == Ascending(other)
           rest == Others(text, key)
<1>1. /\ Len(text) \in Nat /\ DOMAIN text = 1 .. Len(text)
      /\ \A i \in 1 .. Len(text) : text[i] \in Sentences
    BY LenProperties, ElementOfSeq
<1>2. rest = [n \in 1 .. N |-> text[p[n]]]
    BY DEF Others
<1>3. /\ other \subseteq DOMAIN text
      /\ \A i \in DOMAIN text : i \in other <=> ~Contains(key, text[i])
    OBVIOUS
<1> HIDE DEF other
<1>4. /\ N \in Nat /\ p \in [1 .. N -> other]
      /\ \A m, n \in 1 .. N : m < n => p[m] < p[n]
      /\ \A i \in other : \E n \in 1 .. N : p[n] = i
    BY <1>1, <1>3, Ascended
<1> HIDE DEF N, p, rest
<1>5. /\ \A n \in 1 .. N :
            p[n] \in DOMAIN text /\ text[p[n]] \in Sentences /\ ~Contains(key, text[p[n]])
      /\ p \in [1 .. N -> DOMAIN text]
    BY <1>1, <1>3, <1>4
<1>6. rest \in [1 .. N -> Sentences] /\ \A n \in 1 .. N : rest[n] = text[p[n]]
    BY <1>2, <1>5
<1>7. rest \in Seq(Sentences) /\ Len(rest) = N
    <2>1. rest \in Seq(Sentences)
        BY <1>4, <1>6, ListOf
    <2> QED BY <1>4, <1>6, <2>1, LenProperties
<1>8. \A i \in DOMAIN text : ~Contains(key, text[i]) => \E n \in 1 .. N : p[n] = i
    BY <1>3, <1>4
<1>9. /\ rest \in Seq(Sentences)
      /\ \E q \in [1 .. Len(rest) -> DOMAIN text] :
            /\ \A n \in 1 .. Len(rest) : rest[n] = text[q[n]] /\ ~Contains(key, text[q[n]])
            /\ \A m, n \in 1 .. Len(rest) : m < n => q[m] < q[n]
            /\ \A i \in DOMAIN text : ~Contains(key, text[i]) =>
                  \E n \in 1 .. Len(rest) : q[n] = i
    <2>1. /\ p \in [1 .. Len(rest) -> DOMAIN text]
          /\ \A n \in 1 .. Len(rest) : rest[n] = text[p[n]] /\ ~Contains(key, text[p[n]])
          /\ \A m, n \in 1 .. Len(rest) : m < n => p[m] < p[n]
          /\ \A i \in DOMAIN text : ~Contains(key, text[i]) =>
                \E n \in 1 .. Len(rest) : p[n] = i
        BY <1>4, <1>5, <1>6, <1>7, <1>8
    <2> QED BY <1>7, <2>1
<1> QED BY <1>9 DEF rest

\* The levels that reach as far as a turn.
Reaching(turn) == {l \in DOMAIN Levels : turn <= Levels[l]}

\* What is kept of a sentence is its own, and there is some if a level reaches it.
LEMMA TieredOf ==
    ASSUME NEW s \in Sentences, NEW turn \in Nat
    PROVE  /\ Tiered(s, turn) \in Seq(TextTokens)
           /\ \A t \in ToSet(Tiered(s, turn)) : t[1] = s
           /\ Reaching(turn) = {} => Tiered(s, turn) = <<>>
           /\ Reaching(turn) # {} => <<s, 1>> \in ToSet(Tiered(s, turn))
<1> DEFINE l == CHOOSE l \in Reaching(turn) : \A m \in Reaching(turn) : l <= m
           cut == Cuts[l]
           c == IF cut < Size[s] THEN cut ELSE Size[s]
<1>1. /\ Tokens(s) \in Seq(TextTokens) /\ Len(Tokens(s)) = Size[s] /\ Size[s] \in Nat \ {0}
      /\ \A i \in 1 .. Size[s] : Tokens(s)[i] = <<s, i>>
    BY TokensOf
<1>2. CASE Reaching(turn) = {}
    <2>1. Tiered(s, turn) = <<>>
        BY <1>2 DEF Tiered, Reaching
    <2> QED BY <1>2, <2>1, EmptyList, EmptySeq
<1>3. CASE Reaching(turn) # {}
    <2>1. Tiered(s, turn) = SubSeq(Tokens(s), 1, c)
        BY <1>3 DEF Tiered, Reaching
    <2>2. l \in Reaching(turn)
        <3>1. Reaching(turn) \subseteq Nat
            BY ContextAssumption, LenProperties DEF Reaching
        <3>2. \E x \in Reaching(turn) : \A y \in Reaching(turn) : x <= y
            BY <1>3, <3>1, LeastElement
        <3> QED BY <3>2
    <2> HIDE DEF l
    <2>3. cut \in Nat \ {0}
        <3>1. DOMAIN Levels = DOMAIN Cuts
            BY ContextAssumption, LenProperties
        <3>2. l \in 1 .. Len(Cuts)
            BY <2>2, <3>1, ContextAssumption, LenProperties DEF Reaching
        <3> QED BY <3>2, ContextAssumption, ElementOfSeq
    <2> HIDE DEF cut
    <2>4. c \in 1 .. Size[s]
        BY <1>1, <2>3
    <2> HIDE DEF c
    <2> DEFINE part == SubSeq(Tokens(s), 1, c)
    <2>5. part \in Seq(TextTokens) /\ Len(part) = c /\ \A i \in 1 .. c : part[i] = <<s, i>>
        <3>1. \A i \in 1 .. c : Tokens(s)[i] \in TextTokens /\ Tokens(s)[i] = <<s, i>>
            <4>1. \A i \in 1 .. c : i \in 1 .. Size[s]
                BY <1>1, <2>4
            <4> QED BY <1>1, <4>1 DEF TextTokens
        <3>2. c \in Int /\ 1 <= c
            BY <1>1, <2>4
        <3>3. /\ part \in Seq(TextTokens) /\ Len(part) = c
              /\ \A i \in 1 .. c : part[i] = Tokens(s)[1 + i - 1]
            BY <3>1, <3>2, SubSeqProperties
        <3>4. \A i \in 1 .. c : 1 + i - 1 = i
            OBVIOUS
        <3> QED BY <3>1, <3>3, <3>4
    <2> HIDE DEF part
    <2>6. DOMAIN part = 1 .. c /\ 1 \in 1 .. c
        BY <1>1, <2>4, <2>5, LenProperties
    <2>7. \A t \in ToSet(part) : t[1] = s
        BY <2>5, <2>6 DEF ToSet
    <2>8. <<s, 1>> \in ToSet(part)
        BY <2>5, <2>6 DEF ToSet
    <2>9. Tiered(s, turn) = part
        BY <2>1 DEF part
    <2> QED BY <1>3, <2>5, <2>7, <2>8, <2>9
<1> QED BY <1>2, <1>3

\* What a turn keeps, and what the turns up to one keep, the newest at the end.
Part(pieces, turn) == Tiered(pieces[Len(pieces) + 1 - turn], turn)
Newest(pieces, turns) == FlattenSeq([i \in 1 .. turns |-> Part(pieces, turns + 1 - i)])

\* A turn that keeps something puts it before what the newer ones keep.
LEMMA NewestOf ==
    ASSUME NEW pieces \in Seq(Sentences), NEW n \in 0 .. Len(pieces)
    PROVE  /\ Newest(pieces, n) \in Seq(TextTokens)
           /\ \A t : t \in ToSet(Newest(pieces, n)) <=>
                     \E m \in 1 .. n : t \in ToSet(Part(pieces, m))
           /\ n = 0 => Newest(pieces, n) = <<>>
           /\ n # 0 => Newest(pieces, n) = Part(pieces, n) \o Newest(pieces, n - 1)
<1> DEFINE g == [i \in 1 .. Len(pieces) |-> Part(pieces, i)]
           ss == [i \in 1 .. n |-> Part(pieces, n + 1 - i)]
<1>1. Len(pieces) \in Nat /\ n \in Nat
    BY LenProperties
<1>2. \A i \in 1 .. Len(pieces) : Part(pieces, i) \in Seq(TextTokens)
    <2> SUFFICES ASSUME NEW i \in 1 .. Len(pieces) PROVE Part(pieces, i) \in Seq(TextTokens)
        OBVIOUS
    <2>1. Len(pieces) + 1 - i \in 1 .. Len(pieces)
        BY <1>1
    <2>2. pieces[Len(pieces) + 1 - i] \in Sentences
        BY <2>1, ElementOfSeq
    <2>3. i \in Nat
        BY <1>1
    <2> QED BY <2>2, <2>3, TieredOf DEF Part
<1>3. \A i \in 1 .. n : n + 1 - i \in 1 .. n /\ n + 1 - i \in 1 .. Len(pieces)
    BY <1>1
<1>4. ss \in Seq(Seq(TextTokens)) /\ DOMAIN ss = 1 .. n
    <2>1. ss \in [1 .. n -> Seq(TextTokens)]
        BY <1>2, <1>3
    <2> HIDE DEF ss
    <2> QED BY <1>1, <2>1, ListOf
<1>5. /\ FlattenSeq(ss) \in Seq(TextTokens)
      /\ \A x : x \in ToSet(FlattenSeq(ss)) <=> \E i \in DOMAIN ss : x \in ToSet(ss[i])
    <2> HIDE DEF ss
    <2> QED BY <1>4, FlattenedMembers
<1>6. Newest(pieces, n) = FlattenSeq(ss)
    BY DEF Newest
<1>7. \A i \in 1 .. n : ss[i] = Part(pieces, n + 1 - i)
    OBVIOUS
<1>8. \A t : t \in ToSet(FlattenSeq(ss)) <=> \E m \in 1 .. n : t \in ToSet(Part(pieces, m))
    <2> HIDE DEF ss
    <2>1. \A m \in 1 .. n : ss[n + 1 - m] = Part(pieces, m)
        <3>1. \A m \in 1 .. n : n + 1 - (n + 1 - m) = m
            BY <1>1
        <3> QED BY <1>3, <1>7, <3>1
    <2> QED BY <1>3, <1>4, <1>5, <1>7, <2>1
<1>9. n = 0 => FlattenSeq(ss) = <<>>
    <2> SUFFICES ASSUME n = 0 PROVE FlattenSeq(ss) = <<>>
        OBVIOUS
    <2> HIDE DEF ss
    <2>1. \A x : x \notin ToSet(FlattenSeq(ss))
        BY <1>4, <1>5
    <2>2. Len(FlattenSeq(ss)) = 0
        BY <1>5, <2>1, MembersTyped
    <2> QED BY <1>5, <2>2, EmptySeq
<1>10. ASSUME n # 0 PROVE Newest(pieces, n) = Part(pieces, n) \o Newest(pieces, n - 1)
    <2> DEFINE k == n - 1
               before == [i \in 1 .. k |-> Part(pieces, k + 1 - i)]
    <2>1. k \in Nat /\ k + 1 = n
        BY <1>1, <1>10
    <2>2. \A i \in 1 .. n : g[i] \in Seq(TextTokens) /\ g[i] = Part(pieces, i)
        BY <1>1, <1>2
    <2> HIDE DEF g
    <2>3. ss = [i \in 1 .. k + 1 |-> g[k + 2 - i]]
        <3>1. \A i \in 1 .. n : g[n + 1 - i] = Part(pieces, n + 1 - i)
            BY <1>3, <2>2
        <3>2. \A i \in 1 .. n : k + 2 - i = n + 1 - i
            BY <1>1
        <3>3. \A i \in 1 .. n : g[k + 2 - i] = Part(pieces, n + 1 - i)
            BY <3>1, <3>2
        <3> QED BY <2>1, <3>3
    <2>4. before = [i \in 1 .. k |-> g[k + 1 - i]]
        <3>1. \A i \in 1 .. k : k + 1 - i \in 1 .. n
            BY <1>1
        <3> QED BY <2>2, <3>1
    <2>5. FlattenSeq([i \in 1 .. k + 1 |-> g[k + 2 - i]])
            = g[k + 1] \o FlattenSeq([i \in 1 .. k |-> g[k + 1 - i]])
        <3>1. \A i \in 1 .. k + 1 : g[i] \in Seq(TextTokens)
            BY <2>1, <2>2
        <3> HIDE DEF k
        <3> QED BY <2>1, <3>1, FlattenedCons
    <2>6. g[k + 1] = Part(pieces, n)
        BY <1>1, <2>1, <2>2, <1>10
    <2>7. Newest(pieces, n - 1) = FlattenSeq(before)
        BY DEF Newest
    <2> HIDE DEF ss, before, k
    <2> QED BY <1>6, <2>3, <2>4, <2>5, <2>6, <2>7
<1> HIDE DEF ss
<1> QED BY <1>5, <1>6, <1>8, <1>9, <1>10

\* The rest fits what is left: it is what the turns up to one keep, each of which
\* fits with the newer ones or keeps nothing.
LEMMA CompressOf ==
    ASSUME NEW pieces \in Seq(Sentences), NEW budget \in Nat
    PROVE  \E most \in 0 .. Len(pieces) :
              /\ CompressTiered(pieces, budget) = Newest(pieces, most)
              /\ Len(Newest(pieces, most)) <= budget
<1> DEFINE fitting == {n \in 0 .. Len(pieces) : \A m \in 1 .. n :
                          Part(pieces, m) = <<>> \/ Len(Newest(pieces, m)) <= budget}
           most == CHOOSE n \in fitting : \A m \in fitting : m <= n
<1>1. Len(pieces) \in Nat
    BY LenProperties
<1>2. CompressTiered(pieces, budget) = Newest(pieces, most)
    BY DEF CompressTiered, Newest, Part
<1>3. most \in fitting
    <2>1. 0 \in fitting /\ fitting \subseteq 0 .. Len(pieces)
        BY <1>1
    <2> HIDE DEF fitting
    <2>2. Max(fitting) \in fitting /\ \A y \in fitting : Max(fitting) >= y
        BY <1>1, <2>1, MaxOf
    <2>3. \A y \in fitting : y <= Max(fitting)
        BY <1>1, <2>1, <2>2
    <2> QED BY <2>2, <2>3
<1>4. \A m \in 1 .. most : Part(pieces, m) = <<>> \/ Len(Newest(pieces, m)) <= budget
    <2> HIDE DEF most
    <2> QED BY <1>3
<1>5. most \in 0 .. Len(pieces)
    <2> HIDE DEF most
    <2> QED BY <1>3
<1> HIDE DEF fitting, most
<1> DEFINE T == {n \in 0 .. most : Len(Newest(pieces, n)) <= budget}
<1>6. 0 \in T
    <2>1. Newest(pieces, 0) = <<>> /\ 0 \in 0 .. most
        BY <1>1, <1>5, NewestOf
    <2> QED BY <2>1
<1>7. ASSUME NEW n \in 0 .. most - 1, n \in T PROVE n + 1 \in T
    <2>1. /\ n + 1 \in 1 .. most /\ n + 1 \in 0 .. Len(pieces) /\ n \in 0 .. Len(pieces)
          /\ n + 1 # 0 /\ (n + 1) - 1 = n /\ n + 1 \in 0 .. most
        BY <1>1, <1>5
    <2>2. Newest(pieces, n + 1) = Part(pieces, n + 1) \o Newest(pieces, n)
             /\ Newest(pieces, n) \in Seq(TextTokens)
        <3>1. Newest(pieces, n + 1) = Part(pieces, n + 1) \o Newest(pieces, (n + 1) - 1)
            BY <2>1, NewestOf
        <3> QED BY <2>1, <3>1, NewestOf
    <2>3. CASE Part(pieces, n + 1) = <<>>
        <3>1. Newest(pieces, n + 1) = Newest(pieces, n)
            BY <2>2, <2>3, ConcatEmptySeq
        <3> QED BY <1>7, <2>1, <3>1
    <2>4. CASE Part(pieces, n + 1) # <<>>
        BY <1>4, <2>1, <2>4
    <2> QED BY <2>3, <2>4
<1>8. most \in T
    <2>1. 0 .. most \subseteq T
        <3> HIDE DEF T
        <3> QED BY <1>1, <1>5, <1>6, <1>7, BoundedInduction
    <2> QED BY <1>1, <1>5, <2>1
<1> QED BY <1>2, <1>5, <1>8

\* What a layout is made of: the text of the key sentences, and the rest; if the
\* key sentences are cut there is no rest.
KeyOf(text, query) == SelectRelevant(text, query, KeyCount)
KeyText(text, query, budget) ==
    IF Len(Joined(KeyOf(text, query))) > budget THEN Truncate(Joined(KeyOf(text, query)), budget)
    ELSE Joined(KeyOf(text, query))
RestOf(text, query, budget) ==
    CompressTiered(Others(text, KeyOf(text, query)),
                   IF Len(Joined(KeyOf(text, query))) > budget THEN 0
                   ELSE budget - Len(Joined(KeyOf(text, query))))

LEMMA LayoutOf ==
    ASSUME NEW text \in Seq(Sentences), NEW query \in BOOLEAN, NEW budget \in Nat \ {0}
    PROVE  /\ KeyOf(text, query) \in Seq(Sentences)
           /\ KeyText(text, query, budget) \in Seq(TextTokens)
           /\ RestOf(text, query, budget) \in Seq(TextTokens)
           /\ Len(KeyText(text, query, budget)) + Len(RestOf(text, query, budget)) <= budget
           /\ \A t \in ToSet(KeyText(text, query, budget)) : t[1] \in ToSet(KeyOf(text, query))
           /\ \/ RestOf(text, query, budget) = <<>>
              \/ \A i \in DOMAIN KeyOf(text, query) :
                    <<KeyOf(text, query)[i], 1>> \in ToSet(KeyText(text, query, budget))
           /\ \E most \in 0 .. Len(Others(text, KeyOf(text, query))) :
                 RestOf(text, query, budget) = Newest(Others(text, KeyOf(text, query)), most)
<1> DEFINE key == KeyOf(text, query)
           joined == Joined(key)
           other == Others(text, key)
           left == IF Len(joined) > budget THEN 0 ELSE budget - Len(joined)
           rest == RestOf(text, query, budget)
           keyText == KeyText(text, query, budget)
<1>1. key \in Seq(Sentences)
    BY SelectOf, ContextAssumption DEF KeyOf
<1>2. other \in Seq(Sentences)
    BY OthersOf
<1>3. rest = CompressTiered(other, left)
    BY DEF RestOf
<1>4. keyText = IF Len(joined) > budget THEN Truncate(joined, budget) ELSE joined
    BY DEF KeyText
<1> HIDE DEF key, other, rest, keyText
<1>5. /\ joined \in Seq(TextTokens)
      /\ \A i \in DOMAIN key : <<key[i], 1>> \in ToSet(joined)
      /\ \A t \in ToSet(joined) : t[1] \in ToSet(key)
    BY <1>1, JoinedOf
<1>6. Len(joined) \in Nat /\ left \in Nat
    <2>1. Len(joined) \in Nat
        BY <1>5, LenProperties
    <2> QED BY <2>1
<1> HIDE DEF joined
<1>7. PICK most \in 0 .. Len(other) :
         /\ CompressTiered(other, left) = Newest(other, most)
         /\ Len(Newest(other, most)) <= left
    <2> HIDE DEF left
    <2> QED BY <1>2, <1>6, CompressOf
<1>8. rest = Newest(other, most) /\ rest \in Seq(TextTokens) /\ Len(rest) <= left /\ Len(rest) \in Nat
    <2> HIDE DEF left
    <2>1. Newest(other, most) \in Seq(TextTokens)
        BY <1>2, NewestOf
    <2> QED BY <1>3, <1>7, <2>1, LenProperties
<1>9. CASE Len(joined) > budget
    <2>1. keyText = Truncate(joined, budget) /\ left = 0
        BY <1>4, <1>9
    <2>2. /\ keyText \in Seq(TextTokens) /\ ToSet(keyText) \subseteq ToSet(joined)
          /\ Len(keyText) <= budget
        <3>1. budget \in Int /\ budget > 0
            OBVIOUS
        <3> QED BY <1>5, <2>1, <3>1, TruncateOf
    <2>3. rest = <<>> /\ Len(rest) = 0
        BY <1>8, <2>1, EmptySeq
    <2>4. Len(keyText) \in Nat
        BY <2>2, LenProperties
    <2>5. Len(keyText) + Len(rest) <= budget
        BY <2>2, <2>3, <2>4
    <2> QED BY <1>1, <1>5, <1>8, <2>2, <2>3, <2>5 DEF key, other, rest, keyText
<1>10. CASE ~(Len(joined) > budget)
    <2>1. keyText = joined /\ left = budget - Len(joined)
        BY <1>4, <1>10
    <2>2. Len(keyText) + Len(rest) <= budget
        BY <1>6, <1>8, <2>1
    <2> QED BY <1>1, <1>5, <1>8, <2>1, <2>2 DEF key, other, rest, keyText
<1> QED BY <1>9, <1>10

\* Apart from the separators, the key sentences have the places after a, and the
\* rest those after b, which are later.
LaidOut(context, keyText, a, rest, b) ==
    /\ a + Len(keyText) <= b
    /\ \A i \in DOMAIN context :
          \/ context[i] = Sink
          \/ i \in a + 1 .. a + Len(keyText) /\ context[i] = keyText[i - a]
          \/ i \in b + 1 .. b + Len(rest) /\ context[i] = rest[i - b]
    /\ \A i \in 1 .. Len(keyText) :
          a + i \in DOMAIN context /\ context[a + i] = keyText[i]
    /\ \A i \in 1 .. Len(rest) :
          b + i \in DOMAIN context /\ context[b + i] = rest[i]

\* Where the two are in a layout.
Shaped(context, keyText, rest) == \E a, b \in Nat : LaidOut(context, keyText, a, rest, b)

LEMMA ShapedBy ==
    ASSUME NEW context, NEW keyText, NEW rest, NEW a \in Nat, NEW b \in Nat,
           LaidOut(context, keyText, a, rest, b)
    PROVE  Shaped(context, keyText, rest)
    BY DEF Shaped

LEMMA LayoutShape ==
    ASSUME NEW text \in Seq(Sentences), NEW query \in BOOLEAN, NEW budget \in Nat \ {0},
           NEW sink \in BOOLEAN,
           NEW keyText, keyText = KeyText(text, query, budget),
           NEW rest, rest = RestOf(text, query, budget),
           NEW context, context = Layout(text, query, budget, sink)
    PROVE  Shaped(context, keyText, rest)
<1> DEFINE All == TextTokens \cup {Sink}
           K == Len(keyText)
           R == Len(rest)
           tail == <<Sink>> \o rest
<1>1. keyText \in Seq(All) /\ rest \in Seq(All) /\ <<Sink>> \in Seq(All) /\ <<>> \in Seq(All)
    <2>1. keyText \in Seq(TextTokens) /\ rest \in Seq(TextTokens)
        BY LayoutOf
    <2>2. TextTokens \subseteq All /\ Sink \in All
        OBVIOUS
    <2> HIDE DEF All
    <2> QED BY <2>1, <2>2, Widened, EmptySeq
<1>2. K \in Nat /\ R \in Nat /\ Len(<<Sink>>) = 1 /\ <<Sink>>[1] = Sink
         /\ Len(<<>>) = 0
    BY <1>1, LenProperties
<1>3. context = IF sink THEN (<<Sink>> \o keyText) \o (IF rest = <<>> THEN <<>> ELSE tail)
                ELSE keyText \o rest
    BY DEF Layout, KeyText, RestOf, KeyOf
<1> HIDE DEF All
<1>4. CASE ~sink
    <2>1. /\ context \in Seq(All) /\ Len(context) = K + R
          /\ \A i \in 1 .. K + R : context[i] = IF i <= K THEN keyText[i] ELSE rest[i - K]
        <3>1. context = keyText \o rest
            BY <1>3, <1>4
        <3> QED BY <1>1, <3>1, ConcatProperties
    <2>2. DOMAIN context = 1 .. K + R
        BY <2>1, LenProperties
    <2> HIDE DEF K, R
    <2>3. 0 \in Nat /\ K \in Nat /\ 0 + K <= K
        BY <1>2
    <2>4. \A i \in DOMAIN context :
             \/ i \in 0 + 1 .. 0 + K /\ context[i] = keyText[i - 0]
             \/ i \in K + 1 .. K + R /\ context[i] = rest[i - K]
        BY <1>2, <2>1, <2>2
    <2>5. \A i \in 1 .. K : 0 + i \in DOMAIN context /\ context[0 + i] = keyText[i]
        BY <1>2, <2>1, <2>2
    <2>6. \A i \in 1 .. R : K + i \in DOMAIN context /\ context[K + i] = rest[i]
        <3> SUFFICES ASSUME NEW i \in 1 .. R
                     PROVE  K + i \in DOMAIN context /\ context[K + i] = rest[i]
            OBVIOUS
        <3> DEFINE j == K + i
        <3>1. j \in 1 .. K + R /\ ~(j <= K) /\ j - K = i
            BY <1>2
        <3> HIDE DEF j
        <3>2. j \in DOMAIN context /\ context[j] = rest[i]
            BY <2>1, <2>2, <3>1
        <3> QED BY <3>2 DEF j
    <2>7. LaidOut(context, keyText, 0, rest, K)
        BY <2>3, <2>4, <2>5, <2>6 DEF K, R, LaidOut
    <2> QED BY <2>3, <2>7, ShapedBy
<1>5. CASE sink
    <2> DEFINE front == <<Sink>> \o keyText
    <2>1. /\ front \in Seq(All) /\ Len(front) = 1 + K
          /\ \A i \in 1 .. 1 + K : front[i] = IF i <= 1 THEN <<Sink>>[i] ELSE keyText[i - 1]
        BY <1>1, <1>2, ConcatProperties
    <2>2. /\ tail \in Seq(All) /\ Len(tail) = 1 + R
          /\ \A i \in 1 .. 1 + R : tail[i] = IF i <= 1 THEN <<Sink>>[i] ELSE rest[i - 1]
        BY <1>1, <1>2, ConcatProperties
    <2>3. CASE rest = <<>>
        <3>1. context = front /\ R = 0
            <4>1. context = front \o <<>>
                BY <1>3, <1>5, <2>3
            <4> HIDE DEF front
            <4> QED BY <1>2, <2>1, <2>3, <4>1, ConcatEmptySeq
        <3> HIDE DEF front
        <3>2. DOMAIN context = 1 .. 1 + K
            BY <2>1, <3>1, LenProperties
        <3> HIDE DEF K, R
        <3>3. 1 \in Nat /\ 1 + K \in Nat /\ 1 + K <= 1 + K
            BY <1>2
        <3>4. \A i \in DOMAIN context :
                 context[i] = Sink \/ (i \in 1 + 1 .. 1 + K /\ context[i] = keyText[i - 1])
            BY <1>2, <2>1, <3>1, <3>2
        <3>5. \A i \in 1 .. K : 1 + i \in DOMAIN context /\ context[1 + i] = keyText[i]
            BY <1>2, <2>1, <3>1, <3>2
        <3>6. \A i \in 1 .. R : FALSE
            BY <3>1
        <3>7. LaidOut(context, keyText, 1, rest, 1 + K)
            BY <3>3, <3>4, <3>5, <3>6 DEF K, R, LaidOut
        <3> QED BY <3>3, <3>7, ShapedBy
    <2>4. CASE rest # <<>>
        <3>1. context = front \o tail
            BY <1>3, <1>5, <2>4
        <3> HIDE DEF front, tail
        <3>2. /\ context \in Seq(All) /\ Len(context) = (1 + K) + (1 + R)
              /\ \A i \in 1 .. (1 + K) + (1 + R) :
                    context[i] = IF i <= 1 + K THEN front[i] ELSE tail[i - (1 + K)]
            <4>1. /\ Cat(front, tail) \in Seq(All)
                  /\ Len(Cat(front, tail)) = Len(front) + Len(tail)
                  /\ \A i \in 1 .. Len(front) + Len(tail) : Cat(front, tail)[i] =
                        IF i <= Len(front) THEN front[i] ELSE tail[i - Len(front)]
                <5>1. front \in Seq(All) /\ tail \in Seq(All)
                    BY <2>1, <2>2
                <5> QED BY <5>1, CatPlaces, SMTT(30)
            <4> HIDE DEF K, R
            <4> QED BY <2>1, <2>2, <3>1, <4>1 DEF Cat
        <3>3. DOMAIN context = 1 .. (1 + K) + (1 + R)
            BY <3>2, LenProperties
        <3> HIDE DEF K, R
        <3>4. 1 \in Nat /\ 2 + K \in Nat /\ 1 + K <= 2 + K
            BY <1>2
        <3>5. \A i \in 1 .. K : 1 + i \in DOMAIN context /\ context[1 + i] = keyText[i]
            <4> SUFFICES ASSUME NEW i \in 1 .. K
                         PROVE  1 + i \in DOMAIN context /\ context[1 + i] = keyText[i]
                OBVIOUS
            <4>1. /\ 1 + i \in 1 .. (1 + K) + (1 + R) /\ 1 + i <= 1 + K
                  /\ 1 + i \in 1 .. 1 + K /\ ~(1 + i <= 1) /\ 1 + i - 1 = i
                BY <1>2
            <4> QED BY <2>1, <3>2, <3>3, <4>1
        <3>6. \A i \in 1 .. R : 2 + K + i \in DOMAIN context /\ context[2 + K + i] = rest[i]
            <4> SUFFICES ASSUME NEW i \in 1 .. R
                         PROVE  2 + K + i \in DOMAIN context /\ context[2 + K + i] = rest[i]
                OBVIOUS
            <4> DEFINE j == 2 + K + i
            <4>1. /\ j \in 1 .. (1 + K) + (1 + R) /\ ~(j <= 1 + K)
                  /\ j - (1 + K) = 1 + i
                  /\ 1 + i \in 1 .. 1 + R /\ ~(1 + i <= 1) /\ 1 + i - 1 = i
                BY <1>2
            <4> HIDE DEF j
            <4>2. j \in DOMAIN context /\ context[j] = tail[1 + i]
                BY <3>2, <3>3, <4>1
            <4>3. tail[1 + i] = rest[i]
                <5>1. tail[1 + i] = rest[1 + i - 1]
                    BY <2>2, <4>1
                <5> QED BY <4>1, <5>1
            <4> QED BY <4>2, <4>3 DEF j
        <3>7. \A i \in DOMAIN context :
                 \/ context[i] = Sink
                 \/ i \in 1 + 1 .. 1 + K /\ context[i] = keyText[i - 1]
                 \/ i \in 2 + K + 1 .. 2 + K + R /\ context[i] = rest[i - (2 + K)]
            <4> SUFFICES ASSUME NEW i \in DOMAIN context
                         PROVE  \/ context[i] = Sink
                                \/ i \in 1 + 1 .. 1 + K /\ context[i] = keyText[i - 1]
                                \/ i \in 2 + K + 1 .. 2 + K + R /\ context[i] = rest[i - (2 + K)]
                OBVIOUS
            <4>1. i \in 1 .. (1 + K) + (1 + R)
                BY <3>3
            <4>2. CASE i = 1 \/ i = 2 + K
                <5>1. context[i] = Sink
                    <6>1. CASE i = 1
                        <7>1. i <= 1 + K /\ i \in 1 .. 1 + K
                            BY <1>2, <6>1
                        <7> QED BY <1>2, <2>1, <3>2, <4>1, <6>1, <7>1
                    <6>2. CASE i = 2 + K
                        <7>1. ~(i <= 1 + K) /\ i - (1 + K) = 1 /\ 1 \in 1 .. 1 + R
                            BY <1>2, <6>2
                        <7>2. context[i] = tail[1]
                            BY <3>2, <4>1, <7>1
                        <7> QED BY <1>2, <2>2, <7>1, <7>2
                    <6> QED BY <4>2, <6>1, <6>2
                <5> QED BY <5>1
            <4>3. CASE i \in 2 .. 1 + K
                <5>1. i - 1 \in 1 .. K /\ 1 + (i - 1) = i /\ i \in 1 + 1 .. 1 + K
                    BY <1>2, <4>3
                <5> QED BY <3>5, <5>1
            <4>4. CASE i \in 3 + K .. (1 + K) + (1 + R)
                <5>1. /\ i - (2 + K) \in 1 .. R /\ 2 + K + (i - (2 + K)) = i
                      /\ i \in 2 + K + 1 .. 2 + K + R
                    BY <1>2, <4>4
                <5> QED BY <3>6, <5>1
            <4> QED BY <1>2, <4>1, <4>2, <4>3, <4>4
        <3>8. LaidOut(context, keyText, 1, rest, 2 + K)
            BY <3>4, <3>5, <3>6, <3>7 DEF K, R, LaidOut
        <3> QED BY <3>4, <3>8, ShapedBy
    <2> QED BY <2>3, <2>4
<1> QED BY <1>4, <1>5

\* The tokens of the rest are of sentences that are no key sentences.
LEMMA RestMembers ==
    ASSUME NEW text \in Seq(Sentences), NEW query \in BOOLEAN, NEW budget \in Nat \ {0},
           NEW t \in ToSet(RestOf(text, query, budget))
    PROVE  t[1] \notin ToSet(KeyOf(text, query))
<1> DEFINE key == KeyOf(text, query)
           other == Others(text, key)
<1>1. PICK most \in 0 .. Len(other) : RestOf(text, query, budget) = Newest(other, most)
    BY LayoutOf
<1>2. other \in Seq(Sentences) /\ Len(other) \in Nat
    BY OthersOf, LenProperties
<1>3. PICK m \in 1 .. most : t \in ToSet(Part(other, m))
    <2> HIDE DEF other
    <2> QED BY <1>1, <1>2, NewestOf
<1>4. m \in Nat /\ Len(other) + 1 - m \in 1 .. Len(other)
    <2> HIDE DEF other
    <2> QED BY <1>2
<1>5. t[1] = other[Len(other) + 1 - m]
    <2> HIDE DEF other
    <2>1. other[Len(other) + 1 - m] \in Sentences
        BY <1>2, <1>4, ElementOfSeq
    <2>2. t \in ToSet(Tiered(other[Len(other) + 1 - m], m))
        BY <1>3 DEF Part
    <2> DEFINE s == other[Len(other) + 1 - m]
    <2>3. s \in Sentences /\ t \in ToSet(Tiered(s, m))
        BY <2>1, <2>2
    <2> HIDE DEF s
    <2>4. t[1] = s
        BY <1>4, <2>3, TieredOf
    <2> QED BY <2>4 DEF s
<1>6. ~Contains(key, other[Len(other) + 1 - m])
    <2>1. PICK p \in [1 .. Len(other) -> DOMAIN text] :
             \A n \in 1 .. Len(other) : other[n] = text[p[n]] /\ ~Contains(key, text[p[n]])
        BY OthersOf
    <2> HIDE DEF other, key
    <2> QED BY <1>4, <2>1
<1>7. key \in Seq(Sentences)
    BY LayoutOf
<1> HIDE DEF other, key
<1>8. DOMAIN key = 1 .. Len(key)
    BY <1>7, LenProperties
<1>9. t[1] \notin ToSet(key)
    BY <1>5, <1>6, <1>8 DEF Contains, ToSet
<1> QED BY <1>9 DEF key

\* What a response may be, and what it answers.
ContextInv ==
    /\ request \in [text : Texts, query : BOOLEAN, budget : Budgets, strategy : Strategies]
    /\ \/ response.status # "OK"
       \/ /\ Strategy \in Layered \cup Retrieving \cup {"truncation"}
          /\ response.context \in Contexts(request.text, request.query, Budget, Strategy)

LEMMA ContextTyped ==
    ASSUME ContextInv
    PROVE  /\ request.text \in Seq(Sentences) /\ request.query \in BOOLEAN
           /\ Budget \in Int
<1>1. /\ request.text \in Texts /\ request.query \in BOOLEAN /\ request.budget \in Budgets
    BY DEF ContextInv
<1>2. Texts \subseteq Seq(Sentences) /\ Budgets \subseteq Int /\ DefaultBudget \in Int
    BY ContextAssumption
<1>3. Budget \in Int
    BY <1>1, <1>2 DEF Budget
<1> QED BY <1>1, <1>2, <1>3

LEMMA ContextInductive == ContextSpec => []ContextInv
<1>1. ContextInit => ContextInv
    BY DEF ContextInit, ContextInv, Pending
<1>2. ContextInv /\ [ContextNext]_contextVars => ContextInv'
    <2> SUFFICES ASSUME ContextInv, [ContextNext]_contextVars PROVE ContextInv'
        OBVIOUS
    <2>1. CASE BuildContext
        <3>1. request' = request /\ Strategy' = Strategy /\ Budget' = Budget
            BY <2>1 DEF BuildContext, Strategy, Budget
        <3>2. CASE Strategy = "other"
            <4>1. response'.status # "OK"
                BY <2>1, <3>2 DEF BuildContext
            <4> QED BY <3>1, <4>1 DEF ContextInv
        <3>3. CASE Strategy # "other"
            <4>1. PICK context \in Contexts(request.text, request.query, Budget, Strategy) :
                     response' = [status |-> "OK", context |-> context]
                BY <2>1, <3>3 DEF BuildContext
            <4>2. response'.context = context
                BY <4>1
            <4>3. Strategy \in Layered \cup Retrieving \cup {"truncation"}
                BY <3>3 DEF ContextInv, Strategy, Strategies
            <4>4. Contexts(request.text, request.query, Budget, Strategy)'
                    = Contexts(request.text, request.query, Budget, Strategy)
                BY <3>1
            <4> QED BY <3>1, <4>1, <4>2, <4>3, <4>4 DEF ContextInv
        <3> QED BY <3>2, <3>3
    <2>2. CASE UNCHANGED contextVars
        BY <2>2 DEF contextVars, ContextInv, Strategy, Budget
    <2> QED BY <2>1, <2>2 DEF ContextNext
<1> QED BY <1>1, <1>2, PTL DEF ContextSpec

\* The tokens that count.
NotSinks(context) == {i \in DOMAIN context : context[i] # Sink}

LEMMA TruncatedFits ==
    ASSUME NEW pieces \in Seq(Sentences), NEW budget \in Nat \ {0},
           NEW context, context = Truncate(Joined(pieces), budget)
    PROVE  Cardinality(NotSinks(context)) <= budget
<1>1. context \in Seq(TextTokens) /\ Len(context) <= budget
    <2>1. Joined(pieces) \in Seq(TextTokens) /\ budget \in Int /\ budget > 0
        BY JoinedOf
    <2> QED BY <2>1, TruncateOf
<1>2. Len(context) \in Nat /\ DOMAIN context = 1 .. Len(context)
    BY <1>1, LenProperties
<1>3. NotSinks(context) \in SUBSET (1 .. Len(context))
    BY <1>2 DEF NotSinks
<1>5. IsFiniteSet(1 .. Len(context)) /\ Cardinality(1 .. Len(context)) = Len(context)
    <2>1. 0 + 1 = 1 /\ 0 + Len(context) = Len(context)
        BY <1>2
    <2> QED BY <1>2, <2>1, PlacesAfter
<1>6. /\ Cardinality(NotSinks(context)) <= Cardinality(1 .. Len(context))
      /\ Cardinality(NotSinks(context)) \in Nat
    BY <1>3, <1>5, FS_Subset, FS_CardinalityType
<1> QED BY <1>1, <1>2, <1>5, <1>6

LEMMA LaidOutFits ==
    ASSUME NEW keyText \in Seq(TextTokens), NEW rest \in Seq(TextTokens), NEW context,
           NEW a \in Nat, NEW b \in Nat, LaidOut(context, keyText, a, rest, b)
    PROVE  Cardinality(NotSinks(context)) <= Len(keyText) + Len(rest)
<1> DEFINE A == a + 1 .. a + Len(keyText)
           B == b + 1 .. b + Len(rest)
<1>1. Len(keyText) \in Nat /\ Len(rest) \in Nat
    BY LenProperties
<1>2. NotSinks(context) \in SUBSET (A \cup B)
    BY DEF LaidOut, NotSinks
<1>4. IsFiniteSet(A) /\ Cardinality(A) = Len(keyText)
    BY <1>1, PlacesAfter
<1>5. IsFiniteSet(B) /\ Cardinality(B) = Len(rest)
    BY <1>1, PlacesAfter
<1> HIDE DEF A, B
<1>7. IsFiniteSet(A \cap B) /\ Cardinality(A \cap B) \in Nat
    BY <1>4, FS_Intersection, FS_CardinalityType
<1>8. /\ IsFiniteSet(A \cup B)
      /\ Cardinality(A \cup B) = Cardinality(A) + Cardinality(B) - Cardinality(A \cap B)
    BY <1>4, <1>5, FS_Union
<1>9. /\ Cardinality(NotSinks(context)) <= Cardinality(A \cup B)
      /\ Cardinality(NotSinks(context)) \in Nat
    BY <1>2, <1>8, FS_Subset, FS_CardinalityType
<1> QED BY <1>1, <1>4, <1>5, <1>7, <1>8, <1>9

\* A layout of a text that is not empty.
LEMMA LayeredContext ==
    ASSUME NEW text \in Seq(Sentences), text # <<>>, NEW query \in BOOLEAN,
           NEW budget \in Nat \ {0}, NEW way \in Layered,
           NEW context \in Contexts(text, query, budget, way)
    PROVE  \E a, b \in Nat :
              LaidOut(context, KeyText(text, query, budget), a, RestOf(text, query, budget), b)
<1> DEFINE sink == way # "project_topic"
<1>1. context = Layout(text, query, budget, sink)
    BY DEF Contexts, Layered
<1>2. sink \in BOOLEAN
    OBVIOUS
<1> HIDE DEF sink, Contexts
<1>3. Shaped(context, KeyText(text, query, budget), RestOf(text, query, budget))
    BY <1>1, <1>2, LayoutShape
<1> QED BY <1>3 DEF Shaped

LEMMA ContextFits ==
    ASSUME NEW text \in Seq(Sentences), NEW query \in BOOLEAN, NEW budget \in Nat \ {0},
           NEW way \in Layered \cup Retrieving \cup {"truncation"},
           NEW context \in Contexts(text, query, budget, way)
    PROVE  Cardinality(NotSinks(context)) <= budget
<1>1. CASE way = "truncation"
    <2>1. context = Truncate(Joined(text), budget)
        BY <1>1 DEF Contexts, Layered
    <2> QED BY <2>1, TruncatedFits
<1>2. CASE way = "keyword_top1"
    <2>1. context = Truncate(Joined(KeywordTop(text, query)), budget)
        BY <1>2 DEF Contexts, Layered
    <2>2. KeywordTop(text, query) \in Seq(Sentences)
        BY SelectOf DEF KeywordTop
    <2> QED BY <2>1, <2>2, TruncatedFits
<1>3. CASE way = "bm25_top1"
    <2>1. PICK top \in BM25Tops(text, query) : context = Truncate(Joined(top), budget)
        BY <1>3 DEF Contexts, Layered
    <2>2. top \in Seq(Sentences)
        <3>1. \A i \in DOMAIN text : <<text[i]>> \in Seq(Sentences)
            BY ElementOfSeq, LenProperties
        <3>2. top = <<>> \/ \E i \in DOMAIN text : top = <<text[i]>>
            BY <2>1 DEF BM25Tops
        <3> QED BY <3>1, <3>2, EmptySeq
    <2> QED BY <2>1, <2>2, TruncatedFits
<1>4. CASE way \in Layered /\ text = <<>>
    <2>1. context = <<>>
        BY <1>4 DEF Contexts, Layered
    <2>2. NotSinks(context) = {}
        BY <2>1 DEF NotSinks
    <2> QED BY <2>2, FS_EmptySet
<1>5. CASE way \in Layered /\ text # <<>>
    <2>1. PICK a \in Nat, b \in Nat :
             LaidOut(context, KeyText(text, query, budget), a, RestOf(text, query, budget), b)
        BY <1>5, LayeredContext
    <2>2. /\ KeyText(text, query, budget) \in Seq(TextTokens)
          /\ RestOf(text, query, budget) \in Seq(TextTokens)
          /\ Len(KeyText(text, query, budget)) + Len(RestOf(text, query, budget)) <= budget
        BY LayoutOf
    <2>3. /\ Len(KeyText(text, query, budget)) \in Nat
          /\ Len(RestOf(text, query, budget)) \in Nat
        BY <2>2, LenProperties
    <2>4. Cardinality(NotSinks(context))
             <= Len(KeyText(text, query, budget)) + Len(RestOf(text, query, budget))
        BY <2>1, <2>2, LaidOutFits
    <2>5. Cardinality(NotSinks(context)) \in Nat
        <3>1. NotSinks(context) \subseteq Nat
            BY <2>1, <2>3 DEF NotSinks, LaidOut
        <3>2. \A i \in NotSinks(context) :
                 i <= b + Len(KeyText(text, query, budget)) + Len(RestOf(text, query, budget))
            <4> DEFINE k == Len(KeyText(text, query, budget))
                       r == Len(RestOf(text, query, budget))
            <4>1. a + k <= b
                BY <2>1 DEF LaidOut
            <4>2. ASSUME NEW i \in NotSinks(context) PROVE i \in a + 1 .. a + k \/ i \in b + 1 .. b + r
                BY <2>1 DEF NotSinks, LaidOut
            <4>3. k \in Nat /\ r \in Nat
                BY <2>3
            <4> HIDE DEF k, r
            <4>4. \A i \in NotSinks(context) : i <= b + k + r
                BY <4>1, <4>2, <4>3
            <4> QED BY <4>4 DEF k, r
        <3>3. b + Len(KeyText(text, query, budget)) + Len(RestOf(text, query, budget)) \in Nat
            BY <2>3
        <3> QED BY <3>1, <3>2, <3>3, FS_BoundedSetOfNaturals, FS_CardinalityType
    <2> QED BY <2>2, <2>3, <2>4, <2>5
<1> QED BY <1>1, <1>2, <1>3, <1>4, <1>5 DEF Retrieving

\* Whatever the way, a context has no more tokens than a positive budget.
THEOREM ContextsFit == ContextSpec => []WithinBudget
<1>1. ContextInv => WithinBudget
    <2> SUFFICES ASSUME ContextInv, response.status = "OK", Budget > 0
                 PROVE  Cardinality(NotSinks(response.context)) <= Budget
        BY DEF WithinBudget, NotSinks
    <2>1. /\ request.text \in Seq(Sentences) /\ request.query \in BOOLEAN
          /\ Budget \in Nat \ {0}
        BY ContextTyped
    <2>2. /\ Strategy \in Layered \cup Retrieving \cup {"truncation"}
          /\ response.context \in Contexts(request.text, request.query, Budget, Strategy)
        BY DEF ContextInv
    <2> QED BY <2>1, <2>2, ContextFits
<1> QED BY <1>1, ContextInductive, PTL

\* A level that reaches a turn reaches the newer ones.
LEMMA ReachesNewer ==
    ASSUME NEW m \in Nat, NEW n \in Nat, m <= n, Reaching(n) # {}
    PROVE  Reaching(m) # {}
<1>1. PICK l \in DOMAIN Levels : n <= Levels[l]
    BY DEF Reaching
<1>2. Levels[l] \in Nat
    BY ContextAssumption, LenProperties, ElementOfSeq
<1>3. m <= Levels[l]
    BY <1>1, <1>2
<1> QED BY <1>3 DEF Reaching

Has(context, s) == \E i \in DOMAIN context : context[i][1] = s

FoundIn(context, keyText, a, rest, b, s) ==
    /\ \A i \in DOMAIN context : context[i][1] = s =>
          \/ i \in a + 1 .. a + Len(keyText) /\ \E t \in ToSet(keyText) : t[1] = s
          \/ i \in b + 1 .. b + Len(rest) /\ \E t \in ToSet(rest) : t[1] = s
    /\ \A t \in ToSet(keyText) \cup ToSet(rest) : t[1] = s => Has(context, s)

\* Which sentences are kept: those of the key text and those of the rest.
LEMMA KeptIs ==
    ASSUME NEW keyText \in Seq(TextTokens), NEW rest \in Seq(TextTokens), NEW context,
           NEW a \in Nat, NEW b \in Nat, LaidOut(context, keyText, a, rest, b),
           NEW s \in Sentences
    PROVE  FoundIn(context, keyText, a, rest, b, s)
<1>1. Len(keyText) \in Nat /\ Len(rest) \in Nat
    BY LenProperties
<1>2. ASSUME NEW i \in DOMAIN context, context[i][1] = s
      PROVE  \/ i \in a + 1 .. a + Len(keyText) /\ \E t \in ToSet(keyText) : t[1] = s
             \/ i \in b + 1 .. b + Len(rest) /\ \E t \in ToSet(rest) : t[1] = s
    <2>1. CASE context[i] = Sink
        <3>1. context[i][1] = "sink"
            BY <2>1 DEF Sink
        <3> QED BY <1>2, <3>1, ContextAssumption
    <2>2. CASE i \in a + 1 .. a + Len(keyText) /\ context[i] = keyText[i - a]
        <3>1. i - a \in 1 .. Len(keyText)
            BY <1>1, <2>2
        <3>2. keyText[i - a] \in ToSet(keyText)
            BY <3>1, MembersTyped
        <3> QED BY <1>2, <2>2, <3>2
    <2>3. CASE i \in b + 1 .. b + Len(rest) /\ context[i] = rest[i - b]
        <3>1. i - b \in 1 .. Len(rest)
            BY <1>1, <2>3
        <3>2. rest[i - b] \in ToSet(rest)
            BY <3>1, MembersTyped
        <3> QED BY <1>2, <2>3, <3>2
    <2> QED BY <2>1, <2>2, <2>3 DEF LaidOut
<1>3. ASSUME NEW t \in ToSet(keyText) \cup ToSet(rest), t[1] = s
      PROVE  Has(context, s)
    <2>1. CASE t \in ToSet(keyText)
        <3>1. PICK i \in 1 .. Len(keyText) : t = keyText[i]
            BY <2>1, MembersTyped
        <3>2. a + i \in DOMAIN context /\ context[a + i] = t
            BY <3>1 DEF LaidOut
        <3> QED BY <1>3, <3>2 DEF Has
    <2>2. CASE t \in ToSet(rest)
        <3>1. PICK i \in 1 .. Len(rest) : t = rest[i]
            BY <2>2, MembersTyped
        <3>2. b + i \in DOMAIN context /\ context[b + i] = t
            BY <3>1 DEF LaidOut
        <3> QED BY <1>3, <3>2 DEF Has
    <2> QED BY <2>1, <2>2
<1> QED BY <1>2, <1>3 DEF FoundIn

\* Of two sentences of the rest the newer is kept rather than the older.
LEMMA NewerStays ==
    ASSUME NEW text \in Seq(Sentences), NEW query \in BOOLEAN, NEW budget \in Nat \ {0},
           NEW i \in DOMAIN text, NEW j \in DOMAIN text, i < j,
           ~Contains(KeyOf(text, query), text[j]),
           \A m \in j .. Len(text) : text[m] # text[i],
           NEW t \in ToSet(RestOf(text, query, budget)), t[1] = text[i]
    PROVE  <<text[j], 1>> \in ToSet(RestOf(text, query, budget))
<1> DEFINE key == KeyOf(text, query)
           other == Others(text, key)
           N == Len(other)
           rest == RestOf(text, query, budget)
<1>1. PICK most \in 0 .. N : rest = Newest(other, most)
    BY LayoutOf
<1>2. other \in Seq(Sentences)
    BY OthersOf
<1>3. PICK p \in [1 .. N -> DOMAIN text] :
         /\ \A n \in 1 .. N : other[n] = text[p[n]] /\ ~Contains(key, text[p[n]])
         /\ \A m, n \in 1 .. N : m < n => p[m] < p[n]
         /\ \A x \in DOMAIN text : ~Contains(key, text[x]) => \E n \in 1 .. N : p[n] = x
    BY OthersOf
<1>4. Len(text) \in Nat /\ DOMAIN text = 1 .. Len(text)
    BY LenProperties
<1>5. PICK jn \in 1 .. N : p[jn] = j
    BY <1>3
<1>6. t \in ToSet(rest)
    OBVIOUS
<1> HIDE DEF other, rest, key
<1>7. N \in Nat
    BY <1>2, LenProperties
<1>8. PICK m \in 1 .. most : t \in ToSet(Part(other, m))
    BY <1>1, <1>2, <1>6, NewestOf
<1> HIDE DEF N
<1>9. m \in Nat /\ N + 1 - m \in 1 .. N
    BY <1>7
<1>10. PICK x \in 1 .. N : x = N + 1 - m
    BY <1>9
<1>11. other[x] \in Sentences /\ Part(other, m) = Tiered(other[x], m)
    <2>1. other[x] \in Sentences
        BY <1>2, <1>10, ElementOfSeq DEF N
    <2> QED BY <1>10, <2>1 DEF Part, N
<1>12. other[x] = text[i] /\ Reaching(m) # {}
    <2>1. PICK s : s = other[x]
        OBVIOUS
    <2>2. s \in Sentences /\ t \in ToSet(Tiered(s, m))
        BY <1>8, <1>11, <2>1
    <2>3. t[1] = s
        BY <1>9, <2>2, TieredOf
    <2>4. Tiered(s, m) # <<>>
        BY <2>2, EmptyList
    <2>5. Reaching(m) # {}
        BY <1>9, <2>2, <2>4, TieredOf
    <2> QED BY <2>1, <2>3, <2>5
<1>13. p[x] < j
    <2>1. text[p[x]] = text[i] /\ p[x] \in 1 .. Len(text)
        BY <1>3, <1>4, <1>12
    <2> QED BY <1>4, <2>1
<1>14. x < jn
    <2>1. x = jn => p[x] = j
        BY <1>5
    <2>2. jn < x => j < p[x]
        BY <1>3, <1>5
    <2>3. p[x] \in 1 .. Len(text) /\ j \in 1 .. Len(text)
        BY <1>3, <1>4
    <2> QED BY <1>7, <1>13, <2>1, <2>2, <2>3
<1>15. PICK k \in 1 .. most : k = N + 1 - jn /\ k <= m /\ jn = N + 1 - k
    <2>1. N + 1 - jn \in 1 .. most /\ N + 1 - jn <= m /\ jn = N + 1 - (N + 1 - jn)
        BY <1>7, <1>10, <1>14
    <2> QED BY <2>1
<1>16. other[jn] = text[j] /\ other[jn] \in Sentences
    <2>1. other[jn] = text[j]
        BY <1>3, <1>5
    <2> QED BY <1>2, <2>1, ElementOfSeq DEF N
<1>17. <<text[j], 1>> \in ToSet(Part(other, k))
    <2>1. k \in Nat /\ Reaching(k) # {}
        BY <1>7, <1>9, <1>12, <1>15, ReachesNewer
    <2>2. PICK s \in Sentences : s = other[jn]
        BY <1>16
    <2>3. <<s, 1>> \in ToSet(Tiered(s, k))
        BY <2>1, <2>2, TieredOf
    <2>4. Part(other, k) = Tiered(s, k)
        BY <1>15, <2>2 DEF Part, N
    <2> QED BY <1>16, <2>2, <2>3, <2>4
<1>18. <<text[j], 1>> \in ToSet(rest)
    <2>1. most \in 0 .. Len(other)
        BY DEF N
    <2>2. \A u : u \in ToSet(Newest(other, most))
                   <=> \E n \in 1 .. most : u \in ToSet(Part(other, n))
        BY <1>2, <2>1, NewestOf
    <2> QED BY <1>1, <1>17, <2>2
<1> QED BY <1>18 DEF rest

\* What a layout does to two sentences of the text.
WellPlaced(context, text, query, i, j) ==
    /\ Contains(KeyOf(text, query), text[i]) =>
          /\ HitsOf(text, query, i) >= HitsOf(text, query, j)
          /\ Has(context, text[j]) => Has(context, text[i])
          /\ \A m, n \in DOMAIN context :
                context[m][1] = text[i] /\ context[n][1] = text[j] => m < n
    /\ /\ ~Contains(KeyOf(text, query), text[i])
       /\ i < j /\ Has(context, text[i])
       /\ \A m \in j .. Len(text) : text[m] # text[i]
       => Has(context, text[j])

LEMMA LaidOutWell ==
    ASSUME NEW text \in Seq(Sentences), NEW query \in BOOLEAN, NEW budget \in Nat \ {0},
           NEW context, NEW a \in Nat, NEW b \in Nat,
           LaidOut(context, KeyText(text, query, budget), a, RestOf(text, query, budget), b),
           NEW i \in DOMAIN text, NEW j \in DOMAIN text,
           ~Contains(KeyOf(text, query), text[j])
    PROVE  WellPlaced(context, text, query, i, j)
<1> DEFINE key == KeyOf(text, query)
           keyText == KeyText(text, query, budget)
           rest == RestOf(text, query, budget)
<1>1. /\ key \in Seq(Sentences) /\ keyText \in Seq(TextTokens) /\ rest \in Seq(TextTokens)
      /\ \A t \in ToSet(keyText) : t[1] \in ToSet(key)
      /\ rest = <<>> \/ \A k \in DOMAIN key : <<key[k], 1>> \in ToSet(keyText)
    BY LayoutOf
<1>2. \A t \in ToSet(rest) : t[1] \notin ToSet(key)
    BY RestMembers
<1>3. \A s : Contains(key, s) <=> s \in ToSet(key)
    <2> HIDE DEF key
    <2>1. DOMAIN key = 1 .. Len(key)
        BY <1>1, LenProperties
    <2> QED BY <2>1 DEF Contains, ToSet
<1>4. text[i] \in Sentences /\ text[j] \in Sentences
    BY LenProperties, ElementOfSeq
<1>5. LaidOut(context, keyText, a, rest, b) /\ ~Contains(key, text[j])
    OBVIOUS
<1>6. ASSUME Contains(key, text[i]) PROVE HitsOf(text, query, i) >= HitsOf(text, query, j)
    <2>1. KeyCount \in Nat
        BY ContextAssumption
    <2> QED BY <1>5, <1>6, <2>1, SelectOf DEF KeyOf
<1>7. ASSUME /\ ~Contains(key, text[i]) /\ i < j
             /\ \A m \in j .. Len(text) : text[m] # text[i],
             NEW t \in ToSet(rest), t[1] = text[i]
      PROVE  <<text[j], 1>> \in ToSet(rest)
    BY <1>5, <1>7, NewerStays
<1> HIDE DEF key, keyText, rest
<1>8. Len(keyText) \in Nat /\ Len(rest) \in Nat
    BY <1>1, LenProperties
<1>9. ASSUME NEW s \in Sentences
      PROVE  /\ \A m \in DOMAIN context : context[m][1] = s =>
                   \/ m \in a + 1 .. a + Len(keyText) /\ \E t \in ToSet(keyText) : t[1] = s
                   \/ m \in b + 1 .. b + Len(rest) /\ \E t \in ToSet(rest) : t[1] = s
             /\ \A t \in ToSet(keyText) \cup ToSet(rest) : t[1] = s => Has(context, s)
    <2>1. FoundIn(context, keyText, a, rest, b, s)
        BY <1>1, <1>5, KeptIs
    <2> QED BY <2>1 DEF FoundIn
<1>10. ASSUME NEW m \in DOMAIN context, NEW s \in Sentences, context[m][1] = s,
              ~Contains(key, s)
       PROVE  m \in b + 1 .. b + Len(rest) /\ \E t \in ToSet(rest) : t[1] = s
    BY <1>1, <1>3, <1>9, <1>10
<1>11. ASSUME Contains(key, text[i]), Has(context, text[j]) PROVE Has(context, text[i])
    <2>1. PICK m \in DOMAIN context : context[m][1] = text[j]
        BY <1>11 DEF Has
    <2>2. \E t \in ToSet(rest) : t[1] = text[j]
        BY <1>4, <1>5, <1>10, <2>1
    <2>3. rest # <<>>
        BY <2>2, EmptyList
    <2>4. PICK k \in 1 .. Len(key) : key[k] = text[i]
        BY <1>11 DEF Contains
    <2>5. <<text[i], 1>> \in ToSet(keyText)
        BY <1>1, <2>3, <2>4, LenProperties
    <2>6. <<text[i], 1>>[1] = text[i]
        OBVIOUS
    <2> QED BY <1>4, <1>9, <2>5, <2>6
<1>12. ASSUME Contains(key, text[i]),
              NEW m \in DOMAIN context, NEW n \in DOMAIN context,
              context[m][1] = text[i], context[n][1] = text[j]
       PROVE  m < n
    <2>1. n \in b + 1 .. b + Len(rest)
        BY <1>4, <1>5, <1>10, <1>12
    <2>2. m \in a + 1 .. a + Len(keyText)
        BY <1>2, <1>3, <1>4, <1>9, <1>12
    <2>3. a + Len(keyText) <= b
        BY <1>5 DEF LaidOut
    <2> QED BY <1>8, <2>1, <2>2, <2>3
<1>13. ASSUME /\ ~Contains(key, text[i]) /\ i < j /\ Has(context, text[i])
              /\ \A m \in j .. Len(text) : text[m] # text[i]
       PROVE  Has(context, text[j])
    <2>1. PICK m \in DOMAIN context : context[m][1] = text[i]
        BY <1>13 DEF Has
    <2>2. PICK t \in ToSet(rest) : t[1] = text[i]
        BY <1>4, <1>10, <1>13, <2>1
    <2>3. <<text[j], 1>> \in ToSet(rest)
        BY <1>7, <1>13, <2>2
    <2>4. <<text[j], 1>>[1] = text[j]
        OBVIOUS
    <2> QED BY <1>4, <1>9, <2>3, <2>4
<1> QED BY <1>6, <1>11, <1>12, <1>13 DEF key, WellPlaced

\* The layouts are what they are for: a sentence the query hits is not lost to one
\* with fewer hits or none and comes before it, and of the others the newer stay.
THEOREM KeySentencesFirst == ContextSpec => []RelevantThenNewest
<1>1. ContextInv => RelevantThenNewest
    <2> SUFFICES ASSUME ContextInv, response.status = "OK", Strategy \in Layered, Budget > 0,
                        NEW i \in DOMAIN request.text, NEW j \in DOMAIN request.text
                 PROVE  LET text == request.text
                            key == KeyOf(text, request.query)
                            place(s) == {n \in DOMAIN response.context : response.context[n][1] = s}
                        IN  /\ Contains(key, text[i]) /\ ~Contains(key, text[j])
                               => /\ HitsOf(text, request.query, i) >= HitsOf(text, request.query, j)
                                  /\ Kept(text[j]) => Kept(text[i])
                                  /\ \A m \in place(text[i]), n \in place(text[j]) : m < n
                            /\ /\ ~Contains(key, text[i]) /\ ~Contains(key, text[j])
                               /\ i < j /\ Kept(text[i])
                               /\ \A m \in j .. Len(text) : text[m] # text[i]
                               => Kept(text[j])
        BY DEF RelevantThenNewest, KeyOf, HitsOf
    <2>1. /\ request.text \in Seq(Sentences) /\ request.query \in BOOLEAN
          /\ Budget \in Nat \ {0} /\ request.text # <<>>
        BY ContextTyped
    <2>2. response.context \in Contexts(request.text, request.query, Budget, Strategy)
        BY DEF ContextInv, Layered
    <2>3. PICK a \in Nat, b \in Nat :
             LaidOut(response.context, KeyText(request.text, request.query, Budget), a,
                     RestOf(request.text, request.query, Budget), b)
        BY <2>1, <2>2, LayeredContext
    <2>4. \A s : Kept(s) <=> Has(response.context, s)
        BY DEF Kept, Has
    <2>5. ASSUME ~Contains(KeyOf(request.text, request.query), request.text[j])
          PROVE  WellPlaced(response.context, request.text, request.query, i, j)
        BY <2>1, <2>3, <2>5, LaidOutWell
    <2> QED BY <2>4, <2>5 DEF WellPlaced
<1> QED BY <1>1, ContextInductive, PTL

-----------------------------------------------------------------------------
(* The chunkers of documents: nothing is lost, and the order is kept.      *)

Marks == Kinds \X Nat
LetterMarks == {x \in Marks : x[1] = "letter"}

\* A text as a caller gives it: every character knows its place.
Placed(text) ==
    text \in Seq(Marks) /\ \A i \in 1 .. Len(text) : text[i][2] = i

\* Characters of a text in their order, as a chunk should have them.
Rising(c) ==
    c \in Seq(Marks) /\ \A i, j \in 1 .. Len(c) : i < j => c[i][2] < c[j][2]

\* The places of the first and of the last character of a chunk.
Opens(c) == c[1][2]
Closes(c) == c[Len(c)][2]

\* Chunks that are not blank and each in order, that open no later than lo, and of
\* which each opens before any later one closes.
Laid(out, lo) ==
    /\ out \in Seq(Seq(Marks))
    /\ \A k \in 1 .. Len(out) :
          ~Blank(out[k]) /\ Rising(out[k]) /\ Opens(out[k]) <= lo
    /\ \A k, l \in 1 .. Len(out) : k < l => Opens(out[k]) < Closes(out[l])

\* What is in some chunk, and the letters of the first m characters of a text.
Shown(out) == UNION {ToSet(out[k]) : k \in 1 .. Len(out)}
Told(text, m) == {x \in LetterMarks : \E i \in 1 .. m : x = text[i]}

\* What is not blank has a first and a last character.
LEMMA SolidEnds ==
    ASSUME NEW c \in Seq(Marks), ~Blank(c) \/ c # <<>>
    PROVE  c # <<>> /\ Len(c) \in Nat \ {0} /\ Opens(c) \in Nat /\ Closes(c) \in Nat
<1>1. DOMAIN c = 1 .. Len(c) /\ Len(c) \in Nat
    BY LenProperties
<1>2. c # <<>> /\ Len(c) # 0
    BY <1>1, EmptySeq DEF Blank
<1>3. c[1] \in Marks /\ c[Len(c)] \in Marks
    BY <1>1, <1>2, ElementOfSeq
<1> QED BY <1>1, <1>2, <1>3 DEF Opens, Closes, Marks

\* A chunk is added, if it is not blank: it closes after those before have opened.
LEMMA AddChunk ==
    ASSUME NEW out, NEW lo \in Nat, Laid(out, lo), NEW c, Rising(c), NEW hi \in Nat,
           lo <= hi, c # <<>> => Opens(c) <= hi /\ lo < Closes(c)
    PROVE  /\ Laid(Cat(out, NotBlank(c)), hi)
           /\ LetterMarks \cap (Shown(out) \cup ToSet(c)) \subseteq Shown(Cat(out, NotBlank(c)))
<1>1. out \in Seq(Seq(Marks)) /\ c \in Seq(Marks) /\ Len(out) \in Nat
      /\ \A k \in 1 .. Len(out) : out[k] \in Seq(Marks)
    BY LenProperties, ElementOfSeq DEF Laid, Rising
<1>2. CASE Blank(c)
    <2>1. NotBlank(c) = <<>>
        BY <1>2 DEF NotBlank
    <2>2. Cat(out, NotBlank(c)) = out
        BY <1>1, <2>1, ConcatEmptySeq DEF Cat
    <2>3. Laid(out, hi)
        <3>1. ASSUME NEW k \in 1 .. Len(out) PROVE Opens(out[k]) <= hi
            <4>1. out[k] \in Seq(Marks) /\ ~Blank(out[k]) /\ Opens(out[k]) <= lo
                BY <1>1 DEF Laid
            <4>2. Opens(out[k]) \in Nat
                BY <4>1, SolidEnds
            <4> QED BY <4>1, <4>2
        <3> QED BY <3>1 DEF Laid
    <2>4. LetterMarks \cap ToSet(c) = {}
        <3>1. DOMAIN c = 1 .. Len(c)
            BY <1>1, LenProperties
        <3> QED BY <1>2, <3>1 DEF Blank, LetterMarks, ToSet
    <2> QED BY <2>2, <2>3, <2>4
<1>3. CASE ~Blank(c)
    <2> DEFINE new == Cat(out, <<c>>)
               n == Len(out)
    <2>1. NotBlank(c) = <<c>> /\ <<c>> \in Seq(Seq(Marks)) /\ Len(<<c>>) = 1 /\ <<c>>[1] = c
        BY <1>1, <1>3 DEF NotBlank
    <2>2. /\ new \in Seq(Seq(Marks)) /\ Len(new) = n + 1 /\ new[n + 1] = c
          /\ \A k \in 1 .. n : new[k] = out[k]
        <3>1. /\ new \in Seq(Seq(Marks)) /\ Len(new) = n + 1
              /\ \A i \in 1 .. n + 1 : new[i] = IF i <= n THEN out[i] ELSE c
            <4>1. PICK many : many = Seq(Marks)
                OBVIOUS
            <4>2. out \in Seq(many) /\ c \in many
                BY <1>1, <4>1
            <4>3. /\ Cat(out, <<c>>) \in Seq(many) /\ Len(Cat(out, <<c>>)) = Len(out) + 1
                  /\ \A i \in 1 .. Len(out) + 1 :
                        Cat(out, <<c>>)[i] = IF i <= Len(out) THEN out[i] ELSE c
                BY <4>2, AddedLast
            <4> QED BY <4>1, <4>3
        <3> HIDE DEF new, n
        <3>2. n \in Nat
            BY <1>1 DEF n
        <3> QED BY <2>1, <3>1, <3>2
    <2> HIDE DEF new, n
    <2>3. n \in Nat /\ n = Len(out)
        BY <1>1 DEF n
    <2>4. Opens(c) \in Nat /\ Closes(c) \in Nat /\ Opens(c) <= hi /\ lo < Closes(c)
        BY <1>1, <1>3, SolidEnds
    <2>5. \A k \in 1 .. n : Opens(out[k]) \in Nat /\ Opens(out[k]) <= lo
        BY <1>1, <2>3, SolidEnds DEF Laid
    <2>6. ASSUME NEW k \in 1 .. n + 1
          PROVE  ~Blank(new[k]) /\ Rising(new[k]) /\ Opens(new[k]) <= hi
        <3>1. CASE k = n + 1
            BY <1>3, <2>2, <2>4, <3>1
        <3>2. CASE k \in 1 .. n
            BY <2>2, <2>3, <2>5, <3>2 DEF Laid
        <3> QED BY <2>3, <3>1, <3>2
    <2>7. ASSUME NEW k \in 1 .. n + 1, NEW l \in 1 .. n + 1, k < l
          PROVE  Opens(new[k]) < Closes(new[l])
        <3>1. k \in 1 .. n
            BY <2>3, <2>7
        <3>2. CASE l = n + 1
            BY <2>2, <2>4, <2>5, <3>1, <3>2
        <3>3. CASE l \in 1 .. n
            BY <2>2, <2>3, <2>7, <3>1, <3>3 DEF Laid
        <3> QED BY <2>3, <3>2, <3>3
    <2>8. Laid(new, hi)
        BY <2>2, <2>6, <2>7 DEF Laid
    <2>9. Shown(out) \cup ToSet(c) \subseteq Shown(new)
        <3> SUFFICES ASSUME NEW x \in Shown(out) \cup ToSet(c) PROVE x \in Shown(new)
            OBVIOUS
        <3>1. CASE x \in ToSet(c)
            <4>1. n + 1 \in 1 .. Len(new)
                BY <2>2, <2>3
            <4> QED BY <2>2, <3>1, <4>1 DEF Shown
        <3>2. CASE x \in Shown(out)
            <4>1. PICK k \in 1 .. n : x \in ToSet(out[k])
                BY <2>3, <3>2 DEF Shown
            <4>2. k \in 1 .. Len(new) /\ new[k] = out[k]
                BY <2>2, <2>3
            <4> QED BY <4>1, <4>2 DEF Shown
        <3> QED BY <3>1, <3>2
    <2> QED BY <2>1, <2>8, <2>9 DEF new
<1> QED BY <1>2, <1>3

\* In order, and just the characters of the places from a to b.
Spans(c, text, a, b) ==
    /\ Rising(c) /\ Len(c) = b + 1 - a
    /\ \A i \in 1 .. b + 1 - a : c[i] = text[a + i - 1]
    /\ ToSet(c) = {text[p] : p \in a .. b}
    /\ a <= b => Opens(c) = a /\ Closes(c) = b

\* A span of a text is in order, and has just the characters of its places.
LEMMA SpanOf ==
    ASSUME NEW text, Placed(text), NEW a \in Nat \ {0}, NEW b \in Nat, b <= Len(text),
           a <= b + 1
    PROVE  Spans(SubSeq(text, a, b), text, a, b)
<1> DEFINE c == SubSeq(text, a, b)
           n == b + 1 - a
           L == Len(text)
<1>1. text \in Seq(Marks) /\ L \in Nat /\ (\A i \in 1 .. L : text[i][2] = i)
    BY LenProperties DEF Placed
<1>2. n \in Nat /\ (\A i \in 1 .. n : a + i - 1 \in 1 .. L) /\ b <= L
    BY <1>1
<1>3. c \in Seq(Marks) /\ Len(c) = n /\ (\A i \in 1 .. n : c[i] = text[a + i - 1])
    <2>1. c = [i \in 1 .. n |-> text[a + i - 1]]
        BY <1>1, <1>2
    <2>2. \A i \in 1 .. n : text[a + i - 1] \in Marks
        BY <1>1, <1>2, ElementOfSeq
    <2> HIDE DEF c, n
    <2>3. c \in [1 .. n -> Marks]
        BY <2>1, <2>2
    <2>4. c \in Seq(Marks)
        BY <1>2, <2>3, ListOf
    <2> QED BY <1>2, <2>1, <2>3, <2>4, LenProperties
<1> HIDE DEF c, L
<1>4. \A i \in 1 .. n : c[i][2] = a + i - 1
    BY <1>1, <1>2, <1>3
<1>5. Rising(c)
    <2>1. ASSUME NEW i \in 1 .. n, NEW j \in 1 .. n, i < j PROVE c[i][2] < c[j][2]
        <3>1. a + i - 1 < a + j - 1
            BY <2>1
        <3> QED BY <1>4, <3>1
    <2> QED BY <1>3, <2>1 DEF Rising
<1>6. ToSet(c) = {text[p] : p \in a .. b}
    <2>1. DOMAIN c = 1 .. n
        BY <1>3, LenProperties
    <2>2. ASSUME NEW p \in a .. b PROVE p + 1 - a \in 1 .. n /\ c[p + 1 - a] = text[p]
        <3>1. p + 1 - a \in 1 .. n /\ a + (p + 1 - a) - 1 = p
            OBVIOUS
        <3> HIDE DEF n
        <3> QED BY <1>3, <3>1
    <2>3. ASSUME NEW i \in 1 .. n PROVE c[i] = text[a + i - 1] /\ a + i - 1 \in a .. b
        BY <1>3
    <2> HIDE DEF n
    <2>4. ToSet(c) = {c[i] : i \in 1 .. n}
        BY <2>1 DEF ToSet
    <2>5. {c[i] : i \in 1 .. n} \subseteq {text[p] : p \in a .. b}
        BY <2>3
    <2>6. {text[p] : p \in a .. b} \subseteq {c[i] : i \in 1 .. n}
        BY <2>2
    <2> QED BY <2>4, <2>5, <2>6
<1>7. a <= b => Opens(c) = a /\ Closes(c) = b
    BY <1>3, <1>4 DEF Opens, Closes
<1>8. Spans(c, text, a, b)
    BY <1>3, <1>5, <1>6, <1>7 DEF Spans
<1> QED BY <1>8 DEF c

\* Characters in their order, of the places from a to b.
Within(c, a, b) == Rising(c) /\ \A i \in 1 .. Len(c) : c[i][2] \in a .. b

\* What is within two spans, one after the other, is within both together.
LEMMA WithinBoth ==
    ASSUME NEW q, NEW p, NEW a \in Nat, NEW m \in Nat, NEW b \in Nat, a <= m + 1, m <= b,
           Within(q, a, m), Within(p, m + 1, b)
    PROVE  /\ Within(Cat(q, p), a, b)
           /\ ToSet(Cat(q, p)) = ToSet(q) \cup ToSet(p)
           /\ p # <<>> => m < Closes(Cat(q, p))
<1>1. q \in Seq(Marks) /\ p \in Seq(Marks) /\ Len(q) \in Nat /\ Len(p) \in Nat
    BY LenProperties DEF Within, Rising
<1> DEFINE c == Cat(q, p)
           K == Len(q)
           N == Len(p)
<1>2. /\ c \in Seq(Marks) /\ Len(c) = K + N
      /\ \A i \in 1 .. K + N : c[i] = IF i <= K THEN q[i] ELSE p[i - K]
    <2> HIDE DEF K, N
    <2>1. K = Len(q) /\ N = Len(p)
        BY DEF K, N
    <2>2. /\ Cat(q, p) \in Seq(Marks) /\ Len(Cat(q, p)) = Len(q) + Len(p)
          /\ \A i \in 1 .. Len(q) + Len(p) :
                Cat(q, p)[i] = IF i <= Len(q) THEN q[i] ELSE p[i - Len(q)]
        BY <1>1, CatPlaces
    <2> QED BY <2>1, <2>2
<1>3. ToSet(c) = ToSet(q) \cup ToSet(p)
    BY <1>1, Concatenated DEF Cat
<1>4. /\ \A i \in 1 .. K : q[i][2] \in a .. m
      /\ \A i \in 1 .. N : p[i][2] \in m + 1 .. b
      /\ \A i, j \in 1 .. K : i < j => q[i][2] < q[j][2]
      /\ \A i, j \in 1 .. N : i < j => p[i][2] < p[j][2]
    BY DEF Within, Rising
<1>5. K \in Nat /\ N \in Nat
    BY <1>1
<1> HIDE DEF c, K, N
<1>6. ASSUME NEW i \in 1 .. K + N
      PROVE  c[i][2] = (IF i <= K THEN q[i][2] ELSE p[i - K][2]) /\ c[i][2] \in a .. b
    <2>1. CASE i <= K
        <3>1. i \in 1 .. K /\ c[i][2] = q[i][2]
            BY <1>2, <1>5, <2>1
        <3> QED BY <1>4, <2>1, <3>1
    <2>2. CASE ~(i <= K)
        <3>1. i - K \in 1 .. N /\ c[i][2] = p[i - K][2]
            <4>1. i - K \in 1 .. N
                BY <1>5, <2>2
            <4>2. c[i] = p[i - K]
                BY <1>2, <2>2
            <4> QED BY <4>1, <4>2
        <3> QED BY <1>4, <2>2, <3>1
    <2> QED BY <2>1, <2>2
<1>7. ASSUME NEW i \in 1 .. K + N, NEW j \in 1 .. K + N, i < j
      PROVE  c[i][2] < c[j][2]
    <2>1. CASE j <= K
        <3>1. i \in 1 .. K /\ j \in 1 .. K /\ c[i][2] = q[i][2] /\ c[j][2] = q[j][2]
            BY <1>5, <1>6, <1>7, <2>1
        <3> QED BY <1>4, <1>7, <3>1
    <2>2. CASE ~(i <= K)
        <3>1. /\ i - K \in 1 .. N /\ j - K \in 1 .. N /\ i - K < j - K
              /\ c[i][2] = p[i - K][2] /\ c[j][2] = p[j - K][2]
            BY <1>5, <1>6, <1>7, <2>2
        <3> QED BY <1>4, <3>1
    <2>3. CASE i <= K /\ ~(j <= K)
        <3>1. /\ i \in 1 .. K /\ j - K \in 1 .. N
              /\ c[i][2] = q[i][2] /\ c[j][2] = p[j - K][2]
            BY <1>5, <1>6, <2>3
        <3>2. q[i][2] \in a .. m /\ p[j - K][2] \in m + 1 .. b
            BY <1>4, <3>1
        <3> QED BY <3>1, <3>2
    <2> QED BY <1>5, <2>1, <2>2, <2>3
<1>8. Within(c, a, b)
    BY <1>2, <1>6, <1>7 DEF Within, Rising
<1>9. ASSUME p # <<>> PROVE m < Closes(c)
    <2>1. N # 0
        BY <1>1, <1>9, EmptySeq DEF N
    <2>2. K + N \in 1 .. K + N /\ ~(K + N <= K) /\ N \in 1 .. N /\ (K + N) - K = N
        BY <1>5, <2>1
    <2>3. c[K + N][2] = p[N][2] /\ p[N][2] \in m + 1 .. b
        BY <1>4, <1>6, <2>2
    <2> QED BY <1>2, <2>3 DEF Closes
<1> QED BY <1>3, <1>8, <1>9 DEF c

\* The last characters of what is within a span are within it.
LEMMA LastWithin ==
    ASSUME NEW s, NEW n \in Nat, NEW a \in Nat, NEW b \in Nat, Within(s, a, b)
    PROVE  Within(LastChars(s, n), a, b)
<1> DEFINE L == Len(s)
           d == L - n
           c == SubSeq(s, d + 1, L)
<1>1. s \in Seq(Marks) /\ L \in Nat
    BY LenProperties DEF Within, Rising
<1>2. CASE n >= L
    BY <1>2 DEF LastChars
<1>3. CASE ~(n >= L)
    <2>1. LastChars(s, n) = c /\ d \in Nat /\ d + n = L
        BY <1>1, <1>3 DEF LastChars
    <2>2. \A i \in d + 1 .. L : s[i] \in Marks
        BY <1>1, <2>1, ElementOfSeq
    <2> HIDE DEF L
    <2>3. /\ c \in Seq(Marks) /\ Len(c) = n
          /\ \A i \in 1 .. n : c[i] = s[d + i]
        <3>1. /\ c \in Seq(Marks)
              /\ Len(c) = IF d + 1 <= L THEN L - (d + 1) + 1 ELSE 0
              /\ \A i \in 1 .. L - (d + 1) + 1 : c[i] = s[(d + 1) + i - 1]
            <4> HIDE DEF d
            <4> QED BY <1>1, <2>1, <2>2, SubSeqProperties
        <3>2. L - (d + 1) + 1 = n /\ (n # 0 => d + 1 <= L)
            BY <1>1
        <3>3. \A i \in 1 .. n : (d + 1) + i - 1 = d + i
            BY <2>1
        <3> HIDE DEF d, c
        <3> QED BY <3>1, <3>2, <3>3
    <2> HIDE DEF d, c
    <2>4. \A i \in 1 .. n : d + i \in 1 .. L
        BY <2>1
    <2>5. /\ \A i \in 1 .. L : s[i][2] \in a .. b
          /\ \A i, j \in 1 .. L : i < j => s[i][2] < s[j][2]
        BY DEF Within, Rising, L
    <2>6. ASSUME NEW i \in 1 .. n, NEW j \in 1 .. n, i < j PROVE c[i][2] < c[j][2]
        <3>1. d + i \in 1 .. L /\ d + j \in 1 .. L /\ d + i < d + j
            BY <2>1, <2>4, <2>6
        <3> QED BY <2>3, <2>5, <3>1
    <2>7. \A i \in 1 .. n : c[i][2] \in a .. b
        BY <2>3, <2>4, <2>5
    <2> QED BY <2>1, <2>3, <2>6, <2>7 DEF Within, Rising
<1> QED BY <1>2, <1>3

\* The part of a text after its m-th character, up to the b-th.
Follows(part, text, m, b) == part = SubSeq(text, m + 1, b)

\* The last characters are characters.
LEMMA LastTyped ==
    ASSUME NEW s \in Seq(Marks), NEW n \in Nat
    PROVE  LastChars(s, n) \in Seq(Marks)
<1> DEFINE L == Len(s)
<1>1. L \in Nat /\ \A i \in 1 .. L : s[i] \in Marks
    BY LenProperties, ElementOfSeq
<1>2. CASE n >= L
    BY <1>2 DEF LastChars
<1>3. CASE ~(n >= L)
    <2>1. \A i \in L - n + 1 .. L : s[i] \in Marks
        BY <1>1, <1>3
    <2>2. LastChars(s, n) = SubSeq(s, L - n + 1, L)
        BY <1>3 DEF LastChars
    <2> HIDE DEF L
    <2> QED BY <1>1, <2>1, <2>2, SubSeqProperties
<1> QED BY <1>2, <1>3

\* A part without its separator is within the same span, with the same letters.
LEMMA PartWithin ==
    ASSUME NEW text, Placed(text), NEW m \in Nat, NEW b \in Nat, m < b, b <= Len(text),
           NEW sep, sep # "letter", NEW part, Follows(part, text, m, b)
    PROVE  /\ part # <<>>
           /\ Within(part, m + 1, b) /\ Within(WithoutSep(part, sep), m + 1, b)
           /\ Told(text, b) \subseteq Told(text, m) \cup ToSet(part)
           /\ Told(text, b) \subseteq Told(text, m) \cup ToSet(WithoutSep(part, sep))
<1>1. /\ Rising(part) /\ Len(part) = b - m
      /\ \A i \in 1 .. b - m : part[i] = text[m + i]
      /\ ToSet(part) = {text[p] : p \in m + 1 .. b}
    <2>1. /\ Rising(part) /\ Len(part) = b + 1 - (m + 1)
          /\ \A i \in 1 .. b + 1 - (m + 1) : part[i] = text[(m + 1) + i - 1]
          /\ ToSet(part) = {text[p] : p \in m + 1 .. b}
        <3>1. PICK a : a = m + 1
            OBVIOUS
        <3>2. a \in Nat \ {0} /\ a <= b + 1
            BY <3>1
        <3>3. Spans(SubSeq(text, a, b), text, a, b)
            BY <3>2, SpanOf
        <3> QED BY <3>1, <3>3 DEF Follows, Spans
    <2>2. b + 1 - (m + 1) = b - m /\ \A i \in 1 .. b - m : (m + 1) + i - 1 = m + i
        OBVIOUS
    <2> QED BY <2>1, <2>2
<1>2. text \in Seq(Marks) /\ Len(text) \in Nat /\ \A i \in 1 .. Len(text) : text[i][2] = i
    BY LenProperties DEF Placed
<1>3. part \in Seq(Marks) /\ part # <<>>
    BY <1>1, EmptySeq DEF Rising
<1>4. Within(part, m + 1, b)
    <2>1. ASSUME NEW i \in 1 .. b - m PROVE part[i][2] \in m + 1 .. b
        <3>1. m + i \in 1 .. Len(text) /\ m + i \in m + 1 .. b
            BY <1>2
        <3> QED BY <1>1, <1>2, <3>1
    <2> QED BY <1>1, <2>1 DEF Within
<1>5. Told(text, b) \subseteq Told(text, m) \cup ToSet(part)
    <2> SUFFICES ASSUME NEW x \in LetterMarks, NEW i \in 1 .. b, x = text[i]
                 PROVE  x \in Told(text, m) \cup ToSet(part)
        BY DEF Told
    <2>1. CASE i \in 1 .. m
        BY <2>1 DEF Told
    <2>2. CASE i \in m + 1 .. b
        BY <1>1, <2>2
    <2> QED BY <2>1, <2>2
<1>6. CASE part[1][1] = sep
    <2>1. WithoutSep(part, sep) = Tail(part)
        BY <1>3, <1>6 DEF WithoutSep
    <2>2. /\ Tail(part) \in Seq(Marks) /\ Len(Tail(part)) = b - m - 1
          /\ \A i \in 1 .. b - m - 1 : Tail(part)[i] = part[i + 1]
        BY <1>1, <1>3, HeadTailProperties
    <2>3. Within(Tail(part), m + 1, b)
        <3>1. ASSUME NEW i \in 1 .. b - m - 1
              PROVE  i + 1 \in 1 .. Len(part) /\ Tail(part)[i][2] \in m + 1 .. b
            <4>1. i + 1 \in 1 .. Len(part)
                BY <1>1
            <4> QED BY <1>4, <2>2, <4>1 DEF Within
        <3>2. ASSUME NEW i \in 1 .. b - m - 1, NEW j \in 1 .. b - m - 1, i < j
              PROVE  Tail(part)[i][2] < Tail(part)[j][2]
            <4>1. i + 1 < j + 1
                BY <3>2
            <4> QED BY <1>4, <2>2, <3>1, <4>1 DEF Within, Rising
        <3> QED BY <2>2, <3>1, <3>2 DEF Within, Rising
    <2>4. ToSet(part) = {part[1]} \cup ToSet(Tail(part))
        <3>1. part # <<>> /\ part \in Seq(Marks)
            BY <1>3
        <3>2. Head(part) = part[1]
            BY <3>1, HeadTailProperties
        <3>3. ToSet(part) = {Head(part)} \cup ToSet(Tail(part))
            BY <3>1, HeadApart
        <3> QED BY <3>2, <3>3
    <2>5. part[1] \notin LetterMarks
        BY <1>6 DEF LetterMarks
    <2> QED BY <1>3, <1>4, <1>5, <2>1, <2>3, <2>4, <2>5 DEF Told
<1>7. CASE part[1][1] # sep
    BY <1>3, <1>4, <1>5, <1>7 DEF WithoutSep
<1> QED BY <1>6, <1>7

\* What a merge has when it has taken m characters: chunks, then the current one,
\* which closes after they have opened; no letter so far is lost.
Merging(text, acc, m) ==
    /\ acc \in [done : Seq(Seq(Marks)), current : Seq(Marks)]
    /\ Within(acc.current, 1, m)
    /\ \E lo \in 0 .. m : /\ Laid(acc.done, lo)
                          /\ acc.current # <<>> => lo < Closes(acc.current)
    /\ Told(text, m) \subseteq Shown(acc.done) \cup ToSet(acc.current)

\* The current chunk is done.
LEMMA CurrentDone ==
    ASSUME NEW text, NEW acc, NEW m \in Nat, Merging(text, acc, m)
    PROVE  /\ Laid(Cat(acc.done, NotBlank(acc.current)), m)
           /\ Told(text, m) \subseteq Shown(Cat(acc.done, NotBlank(acc.current)))
<1>1. PICK lo \in 0 .. m : /\ Laid(acc.done, lo)
                           /\ acc.current # <<>> => lo < Closes(acc.current)
    BY DEF Merging
<1> DEFINE c == acc.current
           out == acc.done
<1>2. Within(c, 1, m) /\ Rising(c) /\ c \in Seq(Marks) /\ Told(text, m) \subseteq LetterMarks
      /\ Told(text, m) \subseteq Shown(out) \cup ToSet(c)
    BY DEF Merging, Within, Rising, Told
<1>3. Laid(out, lo) /\ (c # <<>> => lo < Closes(c)) /\ lo \in Nat /\ lo <= m
    BY <1>1
<1> HIDE DEF c, out
<1>4. c # <<>> => Opens(c) <= m
    <2>1. c # <<>> => Len(c) \in Nat \ {0}
        BY <1>2, SolidEnds
    <2> QED BY <1>2, <2>1 DEF Within, Opens
<1>5. /\ Laid(Cat(out, NotBlank(c)), m)
      /\ LetterMarks \cap (Shown(out) \cup ToSet(c)) \subseteq Shown(Cat(out, NotBlank(c)))
    BY <1>2, <1>3, <1>4, AddChunk
<1> QED BY <1>2, <1>5 DEF c, out

\* One more part, whatever becomes of the current chunk.
LEMMA MergeKeeps ==
    ASSUME size \in Nat \ {0}, overlap \in Nat,
           NEW text, Placed(text), NEW m \in Nat, NEW b \in Nat, m < b, b <= Len(text),
           NEW sep, sep # "letter", NEW part, Follows(part, text, m, b),
           NEW acc, Merging(text, acc, m)
    PROVE  Merging(text, MergeStep(acc, part, sep), b)
<1> DEFINE bare == WithoutSep(part, sep)
           old == acc.current
           done == Cat(acc.done, NotBlank(old))
           next == MergeStep(acc, part, sep)
<1>1. /\ part # <<>>
      /\ Within(part, m + 1, b) /\ Within(bare, m + 1, b)
      /\ Told(text, b) \subseteq Told(text, m) \cup ToSet(part)
      /\ Told(text, b) \subseteq Told(text, m) \cup ToSet(bare)
    <2> HIDE DEF old, done, next
    <2> QED BY PartWithin
<1>2. /\ acc.done \in Seq(Seq(Marks)) /\ old \in Seq(Marks) /\ Within(old, 1, m)
      /\ Told(text, m) \subseteq Shown(acc.done) \cup ToSet(old)
      /\ acc = [done |-> acc.done, current |-> old]
    BY DEF Merging
<1>3. PICK lo \in 0 .. m : Laid(acc.done, lo) /\ (old # <<>> => lo < Closes(old))
    BY DEF Merging
<1>4. Laid(done, m) /\ Told(text, m) \subseteq Shown(done) /\ m \in 0 .. m
    BY CurrentDone
<1> HIDE DEF bare, old, done
<1>5. ASSUME NEW out, NEW q, NEW p, NEW l \in 0 .. m, Laid(out, l),
             Told(text, m) \subseteq Shown(out) \cup ToSet(q),
             Within(q, 1, m), Within(p, m + 1, b), q # <<>> => p # <<>>,
             Told(text, b) \subseteq Told(text, m) \cup ToSet(p)
      PROVE  Merging(text, [done |-> out, current |-> Cat(q, p)], b)
    <2> DEFINE c == Cat(q, p)
    <2>1. /\ Within(c, 1, b) /\ ToSet(c) = ToSet(q) \cup ToSet(p)
          /\ p # <<>> => m < Closes(c)
        <3>1. 1 \in Nat /\ 1 <= m + 1 /\ m <= b
            OBVIOUS
        <3> QED BY <1>5, <3>1, WithinBoth
    <2>2. c # <<>> => m < Closes(c)
        <3>1. p = <<>> => c = <<>>
            BY <1>5 DEF Cat
        <3> QED BY <2>1, <3>1
    <2> HIDE DEF c
    <2>3. c \in Seq(Marks) /\ out \in Seq(Seq(Marks))
        BY <1>5, <2>1 DEF Within, Rising, Laid
    <2>4. c # <<>> => l < Closes(c)
        <3>1. ASSUME c # <<>> PROVE Closes(c) \in Nat
            BY <2>3, <3>1, SolidEnds
        <3> QED BY <2>2, <3>1
    <2>5. l \in 0 .. b
        OBVIOUS
    <2>6. Told(text, b) \subseteq Shown(out) \cup ToSet(c)
        BY <1>5, <2>1
    <2> HIDE DEF next
    <2>7. Merging(text, [done |-> out, current |-> c], b)
        BY <1>5, <2>1, <2>3, <2>4, <2>5, <2>6 DEF Merging
    <2> QED BY <2>7 DEF c
<1>6. \A s \in Seq(Marks) : Cat(<<>>, s) = s
    BY ConcatEmptySeq DEF Cat
<1>7. Within(<<>>, 1, m) /\ ToSet(<<>>) = {} /\ bare \in Seq(Marks) /\ part \in Seq(Marks)
    BY <1>1, EmptySeq DEF Within, Rising, ToSet
<1>8. CASE old = <<>>
    <2>1. next = [done |-> acc.done, current |-> bare]
        BY <1>2, <1>8 DEF MergeStep, old, bare
    <2>2. Told(text, m) \subseteq Shown(acc.done) \cup ToSet(<<>>)
        BY <1>2, <1>8
    <2>3. Merging(text, [done |-> acc.done, current |-> Cat(<<>>, bare)], b)
        BY <1>1, <1>3, <1>5, <1>7, <2>2
    <2> HIDE DEF next
    <2> QED BY <1>6, <1>7, <2>1, <2>3 DEF next
<1>9. CASE old # <<>> /\ Len(old) + Len(part) <= size
    <2>1. next = [done |-> acc.done, current |-> Cat(old, part)]
        BY <1>2, <1>9 DEF MergeStep, old, Cat
    <2>2. Merging(text, [done |-> acc.done, current |-> Cat(old, part)], b)
        BY <1>1, <1>2, <1>3, <1>5
    <2> QED BY <2>1, <2>2
<1>10. CASE old # <<>> /\ ~(Len(old) + Len(part) <= size) /\ overlap > 0
    <2> DEFINE q == LastChars(old, overlap)
    <2>1. next = [done |-> done, current |-> Cat(q, part)]
        BY <1>10 DEF MergeStep, old, done, Cat
    <2>2. Within(q, 1, m)
        BY <1>2, LastWithin
    <2> HIDE DEF q
    <2>3. Told(text, m) \subseteq Shown(done) \cup ToSet(q)
        BY <1>4
    <2>4. Merging(text, [done |-> done, current |-> Cat(q, part)], b)
        BY <1>1, <1>4, <1>5, <2>2, <2>3
    <2> QED BY <2>1, <2>4
<1>11. CASE old # <<>> /\ ~(Len(old) + Len(part) <= size) /\ ~(overlap > 0)
    <2>1. next = [done |-> done, current |-> bare]
        BY <1>11 DEF MergeStep, old, done, Cat, bare
    <2>2. Told(text, m) \subseteq Shown(done) \cup ToSet(<<>>)
        BY <1>4
    <2>3. Merging(text, [done |-> done, current |-> Cat(<<>>, bare)], b)
        BY <1>1, <1>4, <1>5, <1>7, <2>2
    <2> HIDE DEF next
    <2> QED BY <1>6, <1>7, <2>1, <2>3 DEF next
<1> QED BY <1>8, <1>9, <1>10, <1>11

\* Where each of the K parts of a split ends.
SplitAt(text, sep, K, lim) ==
    /\ lim[0] = 0 /\ lim[K] = Len(text)
    /\ \A n \in 1 .. K : lim[n - 1] < lim[n]
    /\ Parts(text, sep) = [n \in 1 .. K |-> SubSeq(text, lim[n - 1] + 1, lim[n])]

\* The parts of a split: one after the other, they are the text.
LEMMA PartsOf ==
    ASSUME NEW text, Placed(text), Len(text) # 0, NEW sep
    PROVE  \E K \in Nat \ {0} :
              \E lim \in [0 .. K -> 0 .. Len(text)] : SplitAt(text, sep, K, lim)
<1> DEFINE L == Len(text)
           begin == {1} \cup {i \in DOMAIN text : text[i][1] = sep}
           K == Cardinality(begin)
           A == Ascending(begin)
           End(n) == IF n < K THEN A[n + 1] - 1 ELSE L
           lim == [n \in 0 .. K |-> IF n < K THEN A[n + 1] - 1 ELSE L]
<1>1. L \in Nat \ {0} /\ DOMAIN text = 1 .. L
    BY LenProperties DEF Placed
<1>2. Parts(text, sep) = [n \in 1 .. K |-> SubSeq(text, A[n], End(n))]
    BY DEF Parts
<1> HIDE DEF L
<1>3. begin \subseteq 1 .. L /\ 1 \in begin
    BY <1>1
<1> HIDE DEF begin
<1>4. /\ K \in Nat /\ A \in [1 .. K -> begin]
      /\ \A i, j \in 1 .. K : i < j => A[i] < A[j]
      /\ \A x \in begin : \E n \in 1 .. K : A[n] = x
    <2>1. L \in Nat /\ begin \subseteq 1 .. L
        BY <1>1, <1>3
    <2> QED BY <2>1, Ascended
<1> HIDE DEF A, K
<1>5. \A n \in 1 .. K : A[n] \in 1 .. L
    BY <1>3, <1>4
<1>6. K \in Nat \ {0} /\ A[1] = 1
    <2>1. PICK n \in 1 .. K : A[n] = 1
        BY <1>3, <1>4
    <2>2. K \in Nat \ {0} /\ 1 \in 1 .. K /\ A[1] >= 1
        BY <1>4, <1>5
    <2>3. 1 < n => A[1] < A[n]
        BY <1>4, <2>2
    <2>4. n = 1
        BY <1>1, <1>5, <2>1, <2>2, <2>3
    <2> QED BY <2>1, <2>2, <2>4
<1>7. ASSUME NEW n \in 0 .. K PROVE (IF n < K THEN A[n + 1] - 1 ELSE L) \in 0 .. L
    <2>1. CASE n < K
        <3>1. n + 1 \in 1 .. K
            BY <1>4, <2>1
        <3> QED BY <1>1, <1>5, <2>1, <3>1
    <2>2. CASE ~(n < K)
        BY <1>1, <2>2
    <2> QED BY <2>1, <2>2
<1>8. lim \in [0 .. K -> 0 .. L]
    BY <1>7
<1>9. lim[0] = 0 /\ lim[K] = L
    <2>1. 0 \in 0 .. K /\ K \in 0 .. K /\ 0 < K /\ ~(K < K) /\ 0 + 1 = 1
        BY <1>6
    <2> QED BY <1>6, <2>1
<1>10. ASSUME NEW n \in 1 .. K
       PROVE  lim[n - 1] = A[n] - 1 /\ lim[n] = End(n)
    <2>1. n - 1 \in 0 .. K /\ n \in 0 .. K /\ n - 1 < K /\ (n - 1) + 1 = n
        BY <1>6
    <2> QED BY <2>1
<1>11. ASSUME NEW n \in 1 .. K PROVE lim[n - 1] < lim[n]
    <2>1. A[n] \in 1 .. L
        BY <1>5
    <2>2. CASE n < K
        <3>1. n + 1 \in 1 .. K /\ n < n + 1
            BY <1>6, <2>2
        <3>2. A[n] < A[n + 1] /\ A[n + 1] \in 1 .. L
            BY <1>4, <1>5, <3>1
        <3>3. lim[n] = A[n + 1] - 1
            BY <1>10, <2>2
        <3> HIDE DEF lim
        <3> QED BY <1>1, <1>10, <2>1, <3>2, <3>3
    <2>3. CASE ~(n < K)
        <3>1. lim[n] = L
            BY <1>10, <2>3
        <3> HIDE DEF lim
        <3> QED BY <1>1, <1>10, <2>1, <3>1
    <2> QED BY <2>2, <2>3
<1>12. \A n \in 1 .. K : SubSeq(text, A[n], End(n)) = SubSeq(text, lim[n - 1] + 1, lim[n])
    <2> SUFFICES ASSUME NEW n \in 1 .. K
                 PROVE  SubSeq(text, A[n], End(n)) = SubSeq(text, lim[n - 1] + 1, lim[n])
        OBVIOUS
    <2>1. A[n] \in 1 .. L
        BY <1>5
    <2> HIDE DEF lim, End
    <2>2. lim[n - 1] + 1 = A[n]
        BY <1>1, <1>10, <2>1
    <2> QED BY <1>10, <2>2
<1>13. Parts(text, sep) = [n \in 1 .. K |-> SubSeq(text, lim[n - 1] + 1, lim[n])]
    <2> HIDE DEF lim, End
    <2> QED BY <1>2, <1>12
<1> HIDE DEF lim
<1>14. SplitAt(text, sep, K, lim)
    BY <1>9, <1>11, <1>13 DEF SplitAt, L
<1> QED BY <1>6, <1>8, <1>14 DEF L

\* What a chunker owes a text: chunks in order, and no letter lost.
WellChunked(text, out) ==
    Laid(out, Len(text)) /\ Told(text, Len(text)) \subseteq Shown(out)

\* The loop over parts, and what there may be before or after any turn of it.
MergeOver(parts, sep) ==
    FoldLeft(LAMBDA a, part : MergeStep(a, part, sep),
             [done |-> <<>>, current |-> <<>>], parts)
MergeStates == [done : Seq(Seq(Marks)), current : Seq(Marks)]

\* The merge takes one part after the other.
LEMMA MergeUnfolds ==
    ASSUME size \in Nat \ {0}, overlap \in Nat,
           NEW sep, NEW m \in Nat, NEW parts \in [1 .. m -> Seq(Marks)]
    PROVE  \E g \in [0 .. m -> MergeStates] :
              /\ g[0] = [done |-> <<>>, current |-> <<>>]
              /\ \A n \in 1 .. m : g[n] = MergeStep(g[n - 1], parts[n], sep)
              /\ g[m] = MergeOver(parts, sep)
<1> DEFINE V == MergeStates
           v0 == [done |-> <<>>, current |-> <<>>]
           next(r, v) == MergeStep(v, r, sep)
           turn == [n \in 1 .. m |-> [v \in V |-> next(parts[n], v)]]
           body(f) == [s \in SUBSET (DOMAIN parts) |->
                         IF s = {} THEN v0 ELSE next(parts[Max(s)], f[s \ {Max(s)}])]
           fold == CHOOSE f : f = body(f)
           result == MergeOver(parts, sep)
<1>1. DOMAIN parts = 1 .. m /\ \A n \in 1 .. m : parts[n] \in Seq(Marks)
    OBVIOUS
<1>2. result = fold[DOMAIN parts]
    BY DEF MergeOver, FoldLeft, MapThenFoldSet
<1> HIDE DEF result
<1>3. ASSUME NEW v \in V, NEW n \in 1 .. m
      PROVE  next(parts[n], v) \in V
    <2> DEFINE p == parts[n]
    <2>1. p \in Seq(Marks)
        BY <1>1
    <2> HIDE DEF p
    <2>2. v.done \in Seq(Seq(Marks)) /\ v.current \in Seq(Marks)
        BY DEF MergeStates
    <2>3. WithoutSep(p, sep) \in Seq(Marks)
        BY <2>1, HeadTailProperties DEF WithoutSep
    <2>4. Cat(v.current, p) \in Seq(Marks)
        BY <2>1, <2>2, ConcatProperties DEF Cat
    <2>5. Cat(LastChars(v.current, overlap), p) \in Seq(Marks)
        <3>1. LastChars(v.current, overlap) \in Seq(Marks)
            BY <2>2, LastTyped
        <3> QED BY <2>1, <3>1, ConcatProperties DEF Cat
    <2>6. Cat(v.done, NotBlank(v.current)) \in Seq(Seq(Marks))
        <3>1. NotBlank(v.current) \in Seq(Seq(Marks))
            BY <2>2, EmptySeq DEF NotBlank
        <3> QED BY <2>2, <3>1, ConcatProperties DEF Cat
    <2> HIDE DEF next
    <2>7. MergeStep(v, p, sep) \in V
        BY <2>2, <2>3, <2>4, <2>5, <2>6 DEF MergeStep, MergeStates, Cat
    <2> QED BY <2>7 DEF next, p
<1>4. turn \in [1 .. m -> [V -> V]] /\ v0 \in V
    <2>1. v0 \in V
        BY EmptySeq DEF MergeStates
    <2> HIDE DEF V, next, v0
    <2> QED BY <1>3, <2>1
<1> HIDE DEF v0, next
<1>5. PICK h : h \in Iterated(m, V, v0, turn)
    <2> HIDE DEF V, turn
    <2>1. Iterated(m, V, v0, turn) # {}
        BY <1>1, <1>4, IterationExists
    <2> QED BY <2>1
<1>6. /\ h \in [SUBSET (1 .. m) -> V] /\ h[{}] = v0
      /\ \A s \in SUBSET (1 .. m) : s # {} => h[s] = next(parts[Max(s)], h[s \ {Max(s)}])
    <2>1. /\ h \in [SUBSET (1 .. m) -> V] /\ h[{}] = v0
          /\ \A s \in SUBSET (1 .. m) : s # {} => h[s] = turn[Max(s)][h[s \ {Max(s)}]]
        BY <1>5 DEF Iterated
    <2>2. ASSUME NEW s \in SUBSET (1 .. m), s # {}
          PROVE  turn[Max(s)][h[s \ {Max(s)}]] = next(parts[Max(s)], h[s \ {Max(s)}])
        <3>1. Max(s) \in 1 .. m
            <4>1. s \subseteq 0 .. m
                OBVIOUS
            <4> QED BY <2>2, <4>1, MaxOf
        <3>2. h[s \ {Max(s)}] \in V
            BY <2>1
        <3> HIDE DEF V
        <3> QED BY <3>1, <3>2
    <2> HIDE DEF V, turn
    <2> QED BY <2>1, <2>2
<1> HIDE DEF V, turn
<1>7. h = body(h)
    BY <1>1, <1>6
<1>8. fold = body(fold)
    <2>1. fold = CHOOSE f : f = body(f)
        OBVIOUS
    <2> HIDE DEF body, fold
    <2> QED BY <1>7, <2>1
<1> HIDE DEF fold
<1> DEFINE g == [n \in 0 .. m |-> h[1 .. n]]
<1>9. g \in RecursiveUpto(m, V, v0, turn)
    BY <1>4, <1>5, IteratedUpto
<1>10. g \in [0 .. m -> V] /\ g[0] = v0 /\ \A n \in 1 .. m : g[n] = next(parts[n], g[n - 1])
    <2> HIDE DEF g
    <2>1. g \in [0 .. m -> V] /\ g[0] = v0 /\ \A n \in 1 .. m : g[n] = turn[n][g[n - 1]]
        BY <1>9 DEF RecursiveUpto
    <2>2. ASSUME NEW n \in 1 .. m PROVE turn[n][g[n - 1]] = next(parts[n], g[n - 1])
        <3>1. g[n - 1] \in V
            BY <2>1
        <3> QED BY <3>1 DEF turn
    <2> QED BY <2>1, <2>2
<1> HIDE DEF g
<1> DEFINE T == {n \in 0 .. m : fold[1 .. n] = g[n]}
<1>11. ASSUME NEW s \in SUBSET (1 .. m)
       PROVE  fold[s] = IF s = {} THEN v0 ELSE next(parts[Max(s)], fold[s \ {Max(s)}])
    <2>1. body(fold)[s] = IF s = {} THEN v0 ELSE next(parts[Max(s)], fold[s \ {Max(s)}])
        BY <1>1
    <2> HIDE DEF body
    <2> QED BY <1>8, <2>1
<1>12. 0 \in T
    <2>1. 1 .. 0 = {} /\ 0 \in 0 .. m
        OBVIOUS
    <2>2. fold[{}] = v0
        BY <1>11
    <2> QED BY <1>10, <2>1, <2>2
<1>13. ASSUME NEW n \in 0 .. m - 1, n \in T PROVE n + 1 \in T
    <2>1. /\ n + 1 \in 1 .. m /\ (n + 1) - 1 = n /\ n + 1 \in 0 .. m
          /\ n + 1 \in Nat \ {0}
        OBVIOUS
    <2>2. 1 .. n + 1 \in SUBSET (1 .. m) /\ n + 1 \in 1 .. n + 1
        OBVIOUS
    <2>3. (1 .. n + 1) \ {n + 1} = 1 .. n
        OBVIOUS
    <2>4. Max(1 .. n + 1) = n + 1
        BY <2>1, LastPlace
    <2>5. fold[1 .. n + 1] = next(parts[n + 1], fold[1 .. n])
        BY <1>11, <2>2, <2>3, <2>4
    <2> QED BY <1>10, <1>13, <2>1, <2>5
<1>14. fold[1 .. m] = g[m]
    <2>1. 0 .. m \subseteq T
        <3> HIDE DEF T
        <3> QED BY <1>12, <1>13, BoundedInduction
    <2> QED BY <2>1
<1>15. result = g[m]
    BY <1>1, <1>2, <1>14
<1> QED BY <1>10, <1>15 DEF V, v0, next, result

\* A text that is cut at a separator is well chunked.
LEMMA MergedWell ==
    ASSUME size \in Nat \ {0}, overlap \in Nat,
           NEW text, Placed(text), Len(text) # 0, NEW sep, sep # "letter"
    PROVE  WellChunked(text, Merged(text, sep))
<1> DEFINE L == Len(text)
<1>0. PICK K \in Nat \ {0} :
         \E lim \in [0 .. K -> 0 .. Len(text)] : SplitAt(text, sep, K, lim)
    <2> HIDE DEF L
    <2> QED BY PartsOf
<1>1. PICK lim \in [0 .. K -> 0 .. L] :
         /\ lim[0] = 0 /\ lim[K] = L
         /\ \A n \in 1 .. K : lim[n - 1] < lim[n]
         /\ Parts(text, sep) = [n \in 1 .. K |-> SubSeq(text, lim[n - 1] + 1, lim[n])]
    BY <1>0 DEF SplitAt
<1> DEFINE parts == Parts(text, sep)
<1>2. L \in Nat
    BY LenProperties DEF Placed
<1> HIDE DEF L
<1>3. ASSUME NEW n \in 1 .. K
      PROVE  /\ lim[n - 1] \in Nat /\ lim[n] \in Nat /\ lim[n - 1] < lim[n] /\ lim[n] <= L
             /\ Follows(parts[n], text, lim[n - 1], lim[n])
             /\ parts[n] \in Seq(Marks)
    <2>1. lim[n - 1] \in Nat /\ lim[n] \in Nat /\ lim[n - 1] < lim[n] /\ lim[n] <= L
        <3>1. n - 1 \in 0 .. K /\ n \in 0 .. K
            OBVIOUS
        <3>2. lim[n - 1] \in 0 .. L /\ lim[n] \in 0 .. L
            BY <3>1
        <3> QED BY <1>1, <1>2, <3>2
    <2>2. Follows(parts[n], text, lim[n - 1], lim[n])
        BY <1>1 DEF Follows
    <2> HIDE DEF parts
    <2>3. Within(parts[n], lim[n - 1] + 1, lim[n])
        <3>1. PICK a, b, p : a = lim[n - 1] /\ b = lim[n] /\ p = parts[n]
            OBVIOUS
        <3>2. a \in Nat /\ b \in Nat /\ a < b /\ b <= Len(text) /\ Follows(p, text, a, b)
            BY <2>1, <2>2, <3>1 DEF L
        <3>3. Within(p, a + 1, b)
            BY <3>2, PartWithin
        <3> QED BY <3>1, <3>3
    <2> QED BY <2>1, <2>2, <2>3 DEF Within, Rising
<1>4. parts \in [1 .. K -> Seq(Marks)]
    <2>1. parts = [n \in 1 .. K |-> parts[n]]
        BY <1>1
    <2> HIDE DEF parts
    <2> QED BY <1>3, <2>1
<1> DEFINE acc == MergeOver(parts, sep)
<1>5. Merged(text, sep) = Cat(acc.done, NotBlank(acc.current))
    BY DEF Merged, MergeOver, Cat
<1> HIDE DEF parts
<1>6. PICK g \in [0 .. K -> MergeStates] :
         /\ g[0] = [done |-> <<>>, current |-> <<>>]
         /\ \A n \in 1 .. K : g[n] = MergeStep(g[n - 1], parts[n], sep)
         /\ g[K] = acc
    <2> HIDE DEF acc
    <2> QED BY <1>4, MergeUnfolds DEF acc
<1> HIDE DEF acc
<1> DEFINE T == {n \in 0 .. K : Merging(text, g[n], lim[n])}
<1>7. 0 \in T
    <2>1. Within(<<>>, 1, 0) /\ Laid(<<>>, 0) /\ Told(text, 0) = {}
        <3>1. Len(<<>>) = 0 /\ 1 .. 0 = {} /\ \A M : <<>> \in Seq(M)
            BY EmptySeq
        <3> QED BY <3>1 DEF Within, Rising, Laid, Told
    <2>2. Merging(text, [done |-> <<>>, current |-> <<>>], 0)
        BY <2>1, EmptySeq DEF Merging
    <2>3. g[0] = [done |-> <<>>, current |-> <<>>] /\ lim[0] = 0 /\ 0 \in 0 .. K
        BY <1>1, <1>6
    <2> QED BY <2>2, <2>3
<1>8. ASSUME NEW n \in 0 .. K - 1, n \in T PROVE n + 1 \in T
    <2>1. n + 1 \in 1 .. K /\ n + 1 \in 0 .. K /\ (n + 1) - 1 = n
        OBVIOUS
    <2>2. PICK m, b, part, a : m = lim[n] /\ b = lim[n + 1] /\ part = parts[n + 1] /\ a = g[n]
        OBVIOUS
    <2>3. /\ m \in Nat /\ b \in Nat /\ m < b /\ b <= Len(text) /\ Follows(part, text, m, b)
          /\ Merging(text, a, m) /\ g[n + 1] = MergeStep(a, part, sep)
        BY <1>3, <1>6, <1>8, <2>1, <2>2 DEF L
    <2>4. Merging(text, MergeStep(a, part, sep), b)
        BY <2>3, MergeKeeps
    <2> QED BY <2>1, <2>2, <2>3, <2>4
<1>9. 0 .. K \subseteq T
    <2> HIDE DEF T
    <2> QED BY <1>7, <1>8, BoundedInduction
<1>10. Merging(text, acc, L)
    <2>1. K \in 0 .. K
        OBVIOUS
    <2> QED BY <1>1, <1>6, <1>9, <2>1
<1> QED BY <1>2, <1>5, <1>10, CurrentDone DEF WellChunked, L

\* K chunks that open one after the other, at the places A.
OneByOne(w, K, A) ==
    /\ \A i, j \in 1 .. K : i < j => A[i] < A[j]
    /\ \A n \in 1 .. K : /\ Rising(w[n]) /\ w[n] # <<>>
                         /\ Opens(w[n]) = A[n] /\ A[n] <= Closes(w[n])

\* Those that are not blank.
Gathered(w, K) == FlattenSeq([n \in 1 .. K |-> NotBlank(w[n])])

\* They are in order, and none of their letters is lost.
LEMMA GatheredWell ==
    ASSUME NEW L \in Nat, NEW K \in Nat, NEW A \in [1 .. K -> 1 .. L],
           NEW w, OneByOne(w, K, A)
    PROVE  /\ Laid(Gathered(w, K), L)
           /\ \A n \in 1 .. K : LetterMarks \cap ToSet(w[n]) \subseteq Shown(Gathered(w, K))
<1>0. /\ \A i, j \in 1 .. K : i < j => A[i] < A[j]
      /\ \A n \in 1 .. K : /\ Rising(w[n]) /\ w[n] # <<>>
                           /\ Opens(w[n]) = A[n] /\ A[n] <= Closes(w[n])
    BY DEF OneByOne
<1> DEFINE ss == [n \in 1 .. K |-> NotBlank(w[n])]
           lo(n) == IF n = 0 THEN 0 ELSE A[n]
           C == Seq(Marks)
<1>1. \A n \in 1 .. K : w[n] \in C
    BY <1>0 DEF Rising
<1> HIDE DEF C
<1>2. ss \in Seq(Seq(C)) /\ Len(ss) = K /\ (\A n \in 1 .. K : ss[n] = NotBlank(w[n]))
    <2>1. ss \in [1 .. K -> Seq(C)]
        BY <1>1, EmptySeq DEF NotBlank
    <2> HIDE DEF ss
    <2>2. PICK D : D = Seq(C)
        OBVIOUS
    <2>3. ss \in Seq(D) /\ Len(ss) = K
        BY <2>1, <2>2, ListOf, LenProperties
    <2> QED BY <2>2, <2>3 DEF ss
<1> HIDE DEF ss
<1>3. PICK f \in [0 .. K -> Seq(C)] :
         /\ f[0] = <<>>
         /\ \A n \in 1 .. K : f[n] = f[n - 1] \o ss[n]
         /\ FlattenSeq(ss) = f[K]
    BY <1>2, Flattened
<1>4. ASSUME NEW n \in 0 .. K PROVE lo(n) \in 0 .. L
    <2>1. n # 0 => n \in 1 .. K
        OBVIOUS
    <2> QED BY <2>1
<1> DEFINE Good(n) == /\ Laid(f[n], lo(n))
                      /\ \A k \in 1 .. n : LetterMarks \cap ToSet(w[k]) \subseteq Shown(f[n])
           T == {n \in 0 .. K : Good(n)}
<1>5. 0 \in T
    <2>1. Len(<<>>) = 0 /\ 1 .. 0 = {} /\ \A M : <<>> \in Seq(M)
        BY EmptySeq
    <2>2. Laid(<<>>, 0)
        BY <2>1 DEF Laid
    <2> QED BY <1>3, <2>1, <2>2
<1>6. ASSUME NEW n \in 0 .. K - 1, n \in T PROVE n + 1 \in T
    <2>1. n + 1 \in 1 .. K /\ n + 1 \in 0 .. K /\ (n + 1) - 1 = n /\ n \in 0 .. K /\ n + 1 # 0
        OBVIOUS
    <2>2. PICK out, c, a, b : out = f[n] /\ c = w[n + 1] /\ a = lo(n) /\ b = A[n + 1]
        OBVIOUS
    <2>3. f[n + 1] = Cat(out, NotBlank(c))
        BY <1>2, <1>3, <2>1, <2>2 DEF Cat
    <2>4. /\ Laid(out, a) /\ Rising(c) /\ c # <<>> /\ Opens(c) = b /\ b <= Closes(c)
          /\ \A k \in 1 .. n : LetterMarks \cap ToSet(w[k]) \subseteq Shown(out)
        <3>1. Laid(f[n], lo(n))
              /\ \A k \in 1 .. n : LetterMarks \cap ToSet(w[k]) \subseteq Shown(f[n])
            BY <1>6
        <3> HIDE DEF lo
        <3> QED BY <1>0, <2>1, <2>2, <3>1
    <2>5. a \in Nat /\ b \in Nat /\ a < b
        <3>1. a \in 0 .. L
            BY <1>4, <2>1, <2>2
        <3>2. b \in 1 .. L
            BY <2>1, <2>2
        <3>3. CASE n = 0
            <4>1. a = 0
                BY <2>2, <3>3
            <4> QED BY <3>2, <4>1
        <3>4. CASE n # 0
            <4>1. n \in 1 .. K /\ n < n + 1
                BY <3>4
            <4>2. A[n] < A[n + 1]
                BY <1>0, <2>1, <4>1
            <4> QED BY <2>2, <3>1, <3>2, <3>4, <4>2
        <3> QED BY <3>3, <3>4
    <2>6. Closes(c) \in Nat
        BY <2>4, SolidEnds DEF Rising
    <2> HIDE DEF lo
    <2>7. a <= b /\ Opens(c) <= b /\ a < Closes(c)
        BY <2>4, <2>5, <2>6
    <2>8. /\ Laid(Cat(out, NotBlank(c)), b)
          /\ LetterMarks \cap (Shown(out) \cup ToSet(c)) \subseteq Shown(Cat(out, NotBlank(c)))
        <3>1. b \in Nat /\ a \in Nat
            BY <2>5
        <3> QED BY <2>4, <2>7, <3>1, AddChunk
    <2>9. lo(n + 1) = b
        BY <2>1, <2>2 DEF lo
    <2>10. ASSUME NEW k \in 1 .. n + 1
           PROVE  LetterMarks \cap ToSet(w[k]) \subseteq Shown(f[n + 1])
        <3>1. CASE k = n + 1
            BY <2>2, <2>3, <2>8, <3>1
        <3>2. CASE k \in 1 .. n
            BY <2>3, <2>4, <2>8, <3>2
        <3> QED BY <3>1, <3>2
    <2> QED BY <2>1, <2>3, <2>8, <2>9, <2>10
<1>7. 0 .. K \subseteq T
    <2> HIDE DEF T
    <2> QED BY <1>5, <1>6, BoundedInduction
<1>8. Good(K) /\ K \in 0 .. K
    <2>1. K \in 0 .. K
        OBVIOUS
    <2>2. K \in T
        <3> HIDE DEF T
        <3> QED BY <1>7, <2>1
    <2> HIDE DEF Good
    <2> QED BY <2>1, <2>2
<1>9. Laid(f[K], L)
    <2>1. Laid(f[K], lo(K)) /\ lo(K) \in Nat /\ lo(K) <= L
        BY <1>4, <1>8
    <2>2. ASSUME NEW k \in 1 .. Len(f[K]) PROVE Opens(f[K][k]) <= L
        <3>1. /\ f[K] \in Seq(C) /\ ~Blank(f[K][k]) /\ Rising(f[K][k])
              /\ Opens(f[K][k]) <= lo(K)
            BY <1>3, <1>8, <2>1 DEF Laid
        <3>2. Opens(f[K][k]) \in Nat
            BY <3>1, SolidEnds DEF Rising
        <3> HIDE DEF lo
        <3> QED BY <2>1, <3>1, <3>2
    <2> HIDE DEF lo
    <2> QED BY <2>1, <2>2 DEF Laid
<1> QED BY <1>3, <1>8, <1>9 DEF ss, Gathered

\* A text that is split by characters is well chunked.
LEMMA WindowsWell ==
    ASSUME size \in Nat \ {0}, overlap \in Nat, overlap < size, NEW text, Placed(text)
    PROVE  WellChunked(text, Windows(text))
<1> DEFINE L == Len(text)
           gap == size - overlap
           starts == {i \in DOMAIN text : (i - 1) % gap = 0}
           End(i) == IF i + size - 1 < L THEN i + size - 1 ELSE L
           K == Cardinality(starts)
           A == Ascending(starts)
           w == [n \in 1 .. K |-> SubSeq(text, A[n], End(A[n]))]
<1>1. L \in Nat /\ DOMAIN text = 1 .. L /\ gap \in Nat \ {0} /\ gap <= size
    BY LenProperties DEF Placed
<1>2. Windows(text) = Gathered(w, K)
    <2> DEFINE all == IF gap <= 0 THEN {} ELSE starts
               window(i) == SubSeq(text, i, End(i))
    <2>1. Windows(text) = FlattenSeq([n \in 1 .. Cardinality(all) |->
                                         NotBlank(window(Ascending(all)[n]))])
        BY DEF Windows
    <2>2. all = starts
        BY <1>1
    <2> HIDE DEF window, all, starts
    <2>3. \A n \in 1 .. K : w[n] = window(A[n])
        BY DEF window
    <2> HIDE DEF w
    <2>4. \A n \in 1 .. K : NotBlank(w[n]) = NotBlank(window(A[n]))
        BY <2>3
    <2>5. [n \in 1 .. K |-> NotBlank(w[n])] = [n \in 1 .. K |-> NotBlank(window(A[n]))]
        BY <2>4
    <2> QED BY <2>1, <2>2, <2>5 DEF Gathered
<1> HIDE DEF L, gap
<1>3. starts \subseteq 1 .. L /\ \A i \in 1 .. L : i \in starts <=> (i - 1) % gap = 0
    BY <1>1
<1> HIDE DEF starts
<1>4. /\ K \in Nat /\ A \in [1 .. K -> starts]
      /\ \A i, j \in 1 .. K : i < j => A[i] < A[j]
      /\ \A x \in starts : \E n \in 1 .. K : A[n] = x
    BY <1>1, <1>3, Ascended
<1> HIDE DEF K, A
<1>5. A \in [1 .. K -> 1 .. L]
    BY <1>3, <1>4
<1>6. ASSUME NEW n \in 1 .. K
      PROVE  /\ Rising(w[n]) /\ w[n] # <<>> /\ Opens(w[n]) = A[n] /\ A[n] <= Closes(w[n])
             /\ ToSet(w[n]) = {text[p] : p \in A[n] .. End(A[n])}
    <2>1. PICK a, b : a = A[n] /\ b = End(A[n])
        OBVIOUS
    <2>2. a \in 1 .. L
        BY <1>5, <2>1
    <2>3. b \in Nat /\ a <= b /\ b <= L
        BY <1>1, <2>1, <2>2
    <2>4. a \in Nat \ {0} /\ a <= b + 1 /\ b + 1 - a # 0
        BY <2>2, <2>3
    <2>5. w[n] = SubSeq(text, a, b)
        BY <2>1
    <2> HIDE DEF w, End
    <2>6. /\ Rising(SubSeq(text, a, b)) /\ Len(SubSeq(text, a, b)) = b + 1 - a
          /\ ToSet(SubSeq(text, a, b)) = {text[p] : p \in a .. b}
          /\ Opens(SubSeq(text, a, b)) = a /\ Closes(SubSeq(text, a, b)) = b
        <3>1. /\ a \in Nat \ {0} /\ b \in Nat /\ b <= Len(text)
              /\ a <= b + 1 /\ a <= b
            BY <2>3, <2>4 DEF L
        <3>2. Spans(SubSeq(text, a, b), text, a, b)
            BY <3>1, SpanOf
        <3> QED BY <3>1, <3>2 DEF Spans
    <2>7. w[n] # <<>>
        BY <2>4, <2>5, <2>6, EmptySeq
    <2> QED BY <2>1, <2>3, <2>5, <2>6, <2>7
<1> HIDE DEF w
<1>7. /\ Laid(Windows(text), L)
      /\ \A n \in 1 .. K : LetterMarks \cap ToSet(w[n]) \subseteq Shown(Windows(text))
    <2>1. OneByOne(w, K, A)
        BY <1>4, <1>6 DEF OneByOne
    <2> HIDE DEF End
    <2> QED BY <1>1, <1>2, <1>4, <1>5, <2>1, GatheredWell
<1>8. ASSUME NEW i \in 1 .. L PROVE \E n \in 1 .. K : text[i] \in ToSet(w[n])
    <2> DEFINE s == LastStart(gap, i)
    <2>1. s \in 1 .. i /\ i < s + gap /\ (s - 1) % gap = 0
        <3>1. i \in Nat \ {0}
            BY <1>1
        <3> QED BY <1>1, <3>1, Remainders
    <2>2. s \in 1 .. L
        BY <1>1, <2>1
    <2> HIDE DEF s
    <2>3. PICK n \in 1 .. K : A[n] = s
        BY <1>3, <1>4, <2>1, <2>2
    <2>4. i \in s .. End(s)
        BY <1>1, <2>1, <2>2
    <2> HIDE DEF s, End
    <2> QED BY <1>6, <2>3, <2>4
<1>9. Told(text, L) \subseteq Shown(Windows(text))
    BY <1>7, <1>8 DEF Told
<1> QED BY <1>7, <1>9 DEF WellChunked, L

\* A text that is cut into sentences is well chunked.
LEMMA SentencesWell ==
    ASSUME NEW text, Placed(text)
    PROVE  WellChunked(text, BySentence(text))
<1> DEFINE L == Len(text)
           solid == {i \in DOMAIN text : text[i][1] # "newline"}
           Earlier(i) == {j \in solid : j < i}
           begin == {i \in solid : \/ Earlier(i) = {}
                                   \/ /\ Max(Earlier(i)) < i - 1
                                      /\ text[Max(Earlier(i))][1] = "stop"}
           within(b) == {j \in solid : j >= b /\ \A c \in begin : c > b => j < c}
           End(b) == Max(within(b))
           K == Cardinality(begin)
           A == Ascending(begin)
           out == [n \in 1 .. K |-> SubSeq(text, A[n], End(A[n]))]
<1>1. L \in Nat /\ DOMAIN text = 1 .. L
    BY LenProperties DEF Placed
<1>2. BySentence(text) = out
    BY DEF BySentence
<1> HIDE DEF L
<1>3. solid \subseteq 1 .. L /\ \A i \in solid : text[i][1] # "newline"
    BY <1>1
<1>4. begin \subseteq solid /\ \A i \in solid : Earlier(i) = {} => i \in begin
    OBVIOUS
<1> HIDE DEF begin
<1>5. /\ K \in Nat /\ A \in [1 .. K -> begin]
      /\ \A i, j \in 1 .. K : i < j => A[i] < A[j]
      /\ \A x \in begin : \E n \in 1 .. K : A[n] = x
    <2>1. L \in Nat /\ begin \subseteq 1 .. L
        BY <1>1, <1>3, <1>4
    <2> QED BY <2>1, Ascended
<1>6. ASSUME NEW b \in begin
      PROVE  /\ b \in 1 .. L /\ text[b][1] # "newline"
             /\ End(b) \in Nat /\ b <= End(b) /\ End(b) <= L
             /\ \A j \in within(b) : j <= End(b)
    <2>1. b \in solid /\ b \in 1 .. L
        BY <1>3, <1>4
    <2>2. within(b) \subseteq 0 .. L /\ b \in within(b)
        BY <1>3, <2>1
    <2>3. \A j \in within(b) : j \in solid /\ j >= b
        OBVIOUS
    <2>4. PICK W : W = within(b)
        OBVIOUS
    <2>5. Max(W) \in W /\ \A y \in W : Max(W) >= y
        <3> HIDE DEF within
        <3>1. W \subseteq 0 .. L /\ W # {} /\ L \in Nat
            BY <1>1, <2>2, <2>4
        <3> QED BY <3>1, MaxOf
    <2>6. End(b) = Max(W)
        BY <2>4
    <2> HIDE DEF within, End, solid
    <2>7. Max(W) \in solid /\ Max(W) >= b
        BY <2>3, <2>4, <2>5
    <2>8. \A j \in within(b) : j <= Max(W)
        <3> SUFFICES ASSUME NEW j \in within(b) PROVE j <= Max(W)
            OBVIOUS
        <3>1. Max(W) >= j
            BY <2>4, <2>5
        <3>2. j \in 0 .. L /\ Max(W) \in 1 .. L
            BY <1>3, <2>2, <2>7
        <3> QED BY <1>1, <3>1, <3>2
    <2>9. b \in 1 .. L /\ Max(W) \in 1 .. L /\ b <= Max(W) /\ text[b][1] # "newline"
        BY <1>3, <2>1, <2>7
    <2>10. Max(W) \in Nat /\ Max(W) <= L
        BY <1>1, <2>9
    <2> QED BY <2>6, <2>8, <2>9, <2>10
<1> HIDE DEF A, K
<1>7. ASSUME NEW n \in 1 .. K
      PROVE  /\ Rising(out[n]) /\ ~Blank(out[n]) /\ Opens(out[n]) = A[n]
             /\ A[n] \in 1 .. L /\ A[n] <= Closes(out[n]) /\ Closes(out[n]) \in Nat
             /\ ToSet(out[n]) = {text[p] : p \in A[n] .. End(A[n])}
    <2>1. PICK a, b : a = A[n] /\ b = End(A[n])
        OBVIOUS
    <2>2. a \in begin
        BY <1>5, <2>1
    <2> HIDE DEF End
    <2>3. a \in Nat \ {0} /\ b \in Nat /\ b <= Len(text) /\ a <= b /\ a <= b + 1 /\ a \in 1 .. L
          /\ text[a][1] # "newline" /\ b + 1 - a \in Nat \ {0}
        <3>1. a \in 1 .. L /\ text[a][1] # "newline" /\ b \in Nat /\ a <= b /\ b <= L
            BY <1>6, <2>1, <2>2
        <3> QED BY <1>1, <3>1 DEF L
    <2>4. out[n] = SubSeq(text, a, b)
        BY <2>1
    <2> HIDE DEF out
    <2>5. /\ Rising(SubSeq(text, a, b)) /\ Len(SubSeq(text, a, b)) = b + 1 - a
          /\ \A i \in 1 .. b + 1 - a : SubSeq(text, a, b)[i] = text[a + i - 1]
          /\ ToSet(SubSeq(text, a, b)) = {text[p] : p \in a .. b}
          /\ Opens(SubSeq(text, a, b)) = a /\ Closes(SubSeq(text, a, b)) = b
        <3>1. /\ a \in Nat \ {0} /\ b \in Nat /\ b <= Len(text)
              /\ a <= b + 1 /\ a <= b
            BY <2>3
        <3>2. Spans(SubSeq(text, a, b), text, a, b)
            BY <3>1, SpanOf
        <3> QED BY <3>1, <3>2 DEF Spans
    <2>6. ~Blank(out[n])
        <3>1. 1 \in 1 .. b + 1 - a /\ a + 1 - 1 = a
            BY <2>3
        <3>2. out[n][1] = text[a]
            BY <2>4, <2>5, <3>1
        <3>3. out[n] \in Seq(Marks) /\ Len(out[n]) = b + 1 - a
            BY <2>4, <2>5 DEF Rising
        <3>4. 1 \in DOMAIN out[n]
            BY <3>1, <3>3, LenProperties
        <3> QED BY <2>3, <3>2, <3>4 DEF Blank
    <2> QED BY <2>1, <2>3, <2>4, <2>5, <2>6
<1>8. out \in Seq(Seq(Marks)) /\ Len(out) = K
    <2>1. out = [n \in 1 .. K |-> out[n]]
        OBVIOUS
    <2> HIDE DEF out
    <2>2. PICK M : M = Seq(Marks)
        OBVIOUS
    <2>3. out \in [1 .. K -> M]
        BY <1>7, <2>1, <2>2 DEF Rising
    <2>4. out \in Seq(M) /\ Len(out) = K
        BY <1>5, <2>3, ListOf, LenProperties
    <2> QED BY <2>2, <2>4
<1> HIDE DEF out
<1>9. Laid(out, L)
    <2>1. ASSUME NEW k \in 1 .. K, NEW l \in 1 .. K, k < l
          PROVE  Opens(out[k]) < Closes(out[l])
        <3>1. A[k] < A[l] /\ A[k] \in 1 .. L /\ A[l] \in 1 .. L
              /\ A[l] <= Closes(out[l]) /\ Closes(out[l]) \in Nat /\ Opens(out[k]) = A[k]
            BY <1>5, <1>7, <2>1
        <3> QED BY <3>1
    <2>2. \A k \in 1 .. K : Opens(out[k]) <= L
        BY <1>1, <1>7
    <2> HIDE DEF End
    <2> QED BY <1>7, <1>8, <2>1, <2>2 DEF Laid
<1>10. ASSUME NEW i \in 1 .. L, text[i] \in LetterMarks
       PROVE  \E n \in 1 .. K : text[i] \in ToSet(out[n])
    <2>1. i \in solid
        BY <1>1, <1>10 DEF LetterMarks
    <2> DEFINE before == {c \in begin : c <= i}
    <2>2. before # {}
        <3>1. solid \subseteq Nat /\ solid # {}
            BY <1>1, <1>3, <2>1
        <3>2. Min(solid) \in solid /\ \A y \in solid : Min(solid) <= y
            <4> HIDE DEF solid
            <4> QED BY <3>1, MinOf
        <3>3. Earlier(Min(solid)) = {}
            <4> SUFFICES ASSUME NEW j \in solid, j < Min(solid) PROVE FALSE
                OBVIOUS
            <4>1. Min(solid) <= j /\ j \in Nat /\ Min(solid) \in Nat
                BY <3>1, <3>2
            <4> QED BY <4>1
        <3>4. Min(solid) \in begin
            BY <1>4, <3>2, <3>3
        <3>5. Min(solid) <= i
            BY <2>1, <3>2
        <3> QED BY <3>4, <3>5
    <2>3. before \subseteq 0 .. L /\ before \subseteq begin /\ \A c \in before : c <= i
        BY <1>3, <1>4
    <2>4. \A c \in begin : c <= i => c \in before
        OBVIOUS
    <2> HIDE DEF before
    <2>5. PICK b : b = Max(before)
        OBVIOUS
    <2>6. b \in before /\ \A c \in before : b >= c
        <3>1. Max(before) \in before /\ \A c \in before : Max(before) >= c
            BY <1>1, <2>2, <2>3, MaxOf
        <3> QED BY <2>5, <3>1
    <2>7. b \in begin /\ b <= i
        BY <2>3, <2>6
    <2>8. i \in within(b)
        <3>1. ASSUME NEW c \in begin, c > b PROVE i < c
            <4>1. c \in 1 .. L /\ b \in 1 .. L
                BY <1>3, <1>4, <2>7
            <4>2. c \notin before
                BY <2>6, <3>1, <4>1
            <4> QED BY <2>4, <4>1, <4>2
        <3>2. b \in 1 .. L
            BY <1>3, <1>4, <2>7
        <3>3. i >= b
            BY <2>7, <3>2
        <3> QED BY <2>1, <3>1, <3>3
    <2> HIDE DEF within, End
    <2>9. i \in b .. End(b)
        <3>1. b \in 1 .. L /\ i <= End(b) /\ End(b) \in Nat
            BY <1>6, <2>7, <2>8
        <3> QED BY <2>7, <3>1
    <2>10. PICK n \in 1 .. K : A[n] = b
        BY <1>5, <2>7
    <2> QED BY <1>7, <2>9, <2>10
<1>11. Told(text, L) \subseteq Shown(out)
    BY <1>8, <1>10 DEF Told, Shown
<1> QED BY <1>2, <1>9, <1>11 DEF WellChunked, L

-----------------------------------------------------------------------------
\* What is known of a document: how it begins, and that its chunks, once there are
\* any, are well made.
ChunkerInv ==
    /\ Placed(document) /\ size \in Nat \ {0} /\ overlap \in Nat
    /\ chunker \in {"recursive", "semantic"}
    /\ chunks # NoChunks /\ (overlap < size \/ chunker = "semantic")
       => WellChunked(document, chunks)

\* Whichever way a recursive chunker cuts a text.
LEMMA ChunkedWell ==
    ASSUME size \in Nat \ {0}, overlap \in Nat, overlap < size, NEW text, Placed(text)
    PROVE  WellChunked(text, ChunkText(text))
<1> DEFINE found == {i \in DOMAIN Separators :
                        \E j \in DOMAIN text : text[j][1] = Separators[i]}
           L == Len(text)
<1>1. L \in Nat /\ text \in Seq(Marks)
    BY LenProperties DEF Placed
<1> HIDE DEF L
<1>2. CASE L <= size
    <2>1. Laid(<<>>, 0) /\ Shown(<<>>) = {}
        <3>1. Len(<<>>) = 0 /\ 1 .. 0 = {} /\ \A M : <<>> \in Seq(M)
            BY EmptySeq
        <3> QED BY <3>1 DEF Laid, Shown
    <2>2. /\ Rising(text) /\ (text # <<>> => Opens(text) <= L /\ 0 < Closes(text))
          /\ Told(text, L) \subseteq LetterMarks \cap ToSet(text)
        <3>1. Rising(text)
            BY <1>1 DEF Placed, Rising, L
        <3>2. text # <<>> => Opens(text) = 1 /\ Closes(text) = L /\ L # 0
            BY <1>1, EmptySeq DEF Placed, Opens, Closes, L
        <3>3. \A i \in 1 .. L : text[i] \in ToSet(text)
            BY <1>1, MembersTyped DEF L, ToSet
        <3> QED BY <1>1, <3>1, <3>2, <3>3 DEF Told
    <2>3. /\ Laid(Cat(<<>>, NotBlank(text)), L)
          /\ LetterMarks \cap (Shown(<<>>) \cup ToSet(text))
                \subseteq Shown(Cat(<<>>, NotBlank(text)))
        <3>1. PICK none : none = <<>>
            OBVIOUS
        <3>2. 0 \in Nat /\ 0 <= L /\ Laid(none, 0)
            BY <1>1, <2>1, <3>1
        <3>3. /\ Laid(Cat(none, NotBlank(text)), L)
              /\ LetterMarks \cap (Shown(none) \cup ToSet(text))
                    \subseteq Shown(Cat(none, NotBlank(text)))
            BY <1>1, <2>2, <3>2, AddChunk
        <3> QED BY <3>1, <3>3
    <2>4. Cat(<<>>, NotBlank(text)) = NotBlank(text)
        <3>1. NotBlank(text) \in Seq(Seq(Marks))
            BY <1>1, EmptySeq DEF NotBlank
        <3> QED BY <3>1, ConcatEmptySeq DEF Cat
    <2>5. ChunkText(text) = NotBlank(text)
        BY <1>2 DEF ChunkText, L
    <2> QED BY <2>2, <2>3, <2>4, <2>5 DEF WellChunked, L
<1>3. CASE ~(L <= size) /\ found = {}
    <2>1. ChunkText(text) = Windows(text)
        BY <1>3 DEF ChunkText, L
    <2> QED BY <2>1, WindowsWell
<1>4. CASE ~(L <= size) /\ found # {}
    <2> DEFINE least == CHOOSE i \in found : \A j \in found : i <= j
               sep == Separators[least]
    <2>1. ChunkText(text) = Merged(text, sep)
        BY <1>4 DEF ChunkText, L
    <2>2. found \subseteq {1, 2}
        BY DEF Separators
    <2>3. least \in found
        <3> HIDE DEF found
        <3>1. \E i \in found : \A j \in found : i <= j
            <4>1. found = {1} \/ found = {2} \/ found = {1, 2}
                BY <1>4, <2>2
            <4> QED BY <4>1
        <3> QED BY <3>1
    <2> HIDE DEF found, least
    <2>4. sep # "letter"
        <3>1. least = 1 \/ least = 2
            BY <2>2, <2>3
        <3> QED BY <3>1 DEF Separators
    <2>5. Len(text) # 0
        BY <1>1, <1>4 DEF L
    <2> HIDE DEF sep
    <2> QED BY <2>1, <2>4, <2>5, MergedWell
<1> QED BY <1>2, <1>3, <1>4

\* This holds from the start, and chunking keeps it.
LEMMA ChunkerInductive == ChunkerSpec => []ChunkerInv
<1>1. ASSUME ChunkerInit PROVE ChunkerInv
    <2>1. PICK n \in 0 .. MaxText : \E kinds \in [1 .. n -> Kinds] :
             document = [i \in 1 .. n |-> <<kinds[i], i>>]
        BY <1>1 DEF ChunkerInit
    <2>2. PICK kinds \in [1 .. n -> Kinds] : document = [i \in 1 .. n |-> <<kinds[i], i>>]
        BY <2>1
    <2>3. n \in Nat
        BY ChunkerAssumption
    <2>4. document \in [1 .. n -> Marks] /\ \A i \in 1 .. n : document[i][2] = i
        BY <2>2, <2>3 DEF Marks
    <2>5. document \in Seq(Marks) /\ Len(document) = n
        BY <2>3, <2>4, ListOf, LenProperties
    <2> QED BY <1>1, <2>4, <2>5, ChunkerAssumption DEF ChunkerInit, ChunkerInv, Placed
<1>2. ASSUME ChunkerInv, [ChunkerNext]_chunkerVars PROVE ChunkerInv'
    <2>1. CASE UNCHANGED chunkerVars
        BY <1>2, <2>1 DEF chunkerVars, ChunkerInv, WellChunked, Placed, Laid, Told, Shown
    <2>2. CASE Chunk
        <3>1. UNCHANGED <<chunker, document, size, overlap>>
            BY <2>2 DEF Chunk
        <3>2. ASSUME overlap < size \/ chunker = "semantic"
              PROVE  WellChunked(document, chunks')
            <4>1. CASE chunker = "semantic"
                <5>1. chunks' = BySentence(document)
                    BY <2>2, <4>1 DEF Chunk
                <5> QED BY <1>2, <5>1, SentencesWell DEF ChunkerInv
            <4>2. CASE chunker = "recursive"
                <5>1. chunks' = ChunkText(document)
                    BY <2>2, <4>2 DEF Chunk
                <5> QED BY <1>2, <3>2, <4>2, <5>1, ChunkedWell DEF ChunkerInv
            <4> QED BY <1>2, <4>1, <4>2 DEF ChunkerInv
        <3> QED BY <1>2, <3>1, <3>2 DEF ChunkerInv
    <2> QED BY <1>2, <2>1, <2>2 DEF ChunkerNext
<1> QED BY <1>1, <1>2, PTL DEF ChunkerSpec

\* For any document, size and overlap below it: every letter of a document is in some
\* chunk, and chunks are in the order of the document but for the overlap.
THEOREM DocumentsAreWhole == ChunkerSpec => []NothingLost
<1>1. ASSUME ChunkerInv PROVE NothingLost
    <2> SUFFICES ASSUME chunks # NoChunks, overlap < size \/ chunker = "semantic"
                 PROVE  /\ \A i \in DOMAIN document : document[i][1] = "letter" =>
                              \E c \in DOMAIN chunks : Contains(chunks[c], document[i])
                        /\ \A c \in DOMAIN chunks :
                              /\ ~Blank(chunks[c])
                              /\ \A i, j \in DOMAIN chunks[c] :
                                    i < j => chunks[c][i][2] < chunks[c][j][2]
                              /\ \A d \in c + 1 .. Len(chunks) :
                                    chunks[c][1][2] < chunks[d][Len(chunks[d])][2]
        BY DEF NothingLost
    <2>1. /\ document \in Seq(Marks) /\ Laid(chunks, Len(document))
          /\ Told(document, Len(document)) \subseteq Shown(chunks)
        BY <1>1 DEF ChunkerInv, Placed, WellChunked
    <2>2. /\ chunks \in Seq(Seq(Marks)) /\ DOMAIN chunks = 1 .. Len(chunks)
          /\ Len(chunks) \in Nat /\ DOMAIN document = 1 .. Len(document)
        BY <2>1, LenProperties DEF Laid
    <2>3. ASSUME NEW c \in 1 .. Len(chunks)
          PROVE  chunks[c] \in Seq(Marks) /\ DOMAIN chunks[c] = 1 .. Len(chunks[c])
        BY <2>2, ElementOfSeq, LenProperties
    <2>4. ASSUME NEW i \in 1 .. Len(document), document[i][1] = "letter"
          PROVE  \E c \in 1 .. Len(chunks) : Contains(chunks[c], document[i])
        <3>1. document[i] \in Marks
            BY <2>1, ElementOfSeq
        <3>2. document[i] \in Shown(chunks)
            BY <2>1, <2>4, <3>1 DEF Told, LetterMarks
        <3>3. PICK c \in 1 .. Len(chunks) : document[i] \in ToSet(chunks[c])
            BY <3>2 DEF Shown
        <3>4. Contains(chunks[c], document[i])
            BY <2>3, <3>3 DEF Contains, ToSet
        <3> QED BY <3>4
    <2>5. ASSUME NEW c \in 1 .. Len(chunks)
          PROVE  /\ ~Blank(chunks[c])
                 /\ \A i, j \in DOMAIN chunks[c] :
                       i < j => chunks[c][i][2] < chunks[c][j][2]
                 /\ \A d \in c + 1 .. Len(chunks) :
                       chunks[c][1][2] < chunks[d][Len(chunks[d])][2]
        <3>1. ASSUME NEW d \in c + 1 .. Len(chunks)
              PROVE  chunks[c][1][2] < chunks[d][Len(chunks[d])][2]
            <4>1. d \in 1 .. Len(chunks) /\ c < d
                BY <2>2
            <4> QED BY <2>1, <4>1 DEF Laid, Opens, Closes
        <3> QED BY <2>1, <2>3, <3>1 DEF Laid, Rising
    <2> QED BY <2>2, <2>4, <2>5
<1> QED BY <1>1, ChunkerInductive, PTL
=============================================================================
