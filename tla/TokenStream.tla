---------------------------- MODULE TokenStream ----------------------------
(***************************************************************************)
(* A chat request's answer on its way from the engine to the client.       *)
(*                                                                         *)
(*   HFEngine's generation thread --streamer queue--> worker thread of the *)
(*   llm-inference server --gRPC stream--> pump goroutine of LLMClient     *)
(*   --unbuffered channel--> StreamChat handler --gRPC stream--> client    *)
(*                                                                         *)
(* Requests share the server's pool of worker threads and the engine's     *)
(* lock.  A client may go away at any time, which cancels the context its  *)
(* handler and both streams depend on, and so does the handler's return.   *)
(***************************************************************************)
EXTENDS Naturals, Sequences, FiniteSets

CONSTANTS
    Requests,      \* StreamChat calls
    PoolSize,      \* config.maxWorkers
    Chunks,        \* how many chunks an answer has
    HalfCloses,    \* whether the caller ends its side of the inference stream
    Faults,        \* what may go wrong in the server
    None           \* "nobody"

FaultKinds == {"raises", "threadDies", "stops"}

ASSUME BoundsAssumption ==
    /\ PoolSize \in Nat \ {0} /\ Chunks \in Nat \ {0} /\ HalfCloses \in BOOLEAN
    /\ Faults \subseteq FaultKinds /\ None \notin Requests

VARIABLES
    handler,       \* StreamChat: where it is
    token,         \* StreamChat: the token it has taken from the channel
    sent,          \* StreamChat: how many chunks are in fullResponse
    saved,         \* whether the assistant message was saved
    sendFailed,    \* history: stream.Send to the client returned an error
    left,          \* whether the client has gone away
    pump,          \* the goroutine of GetGeneratedToken
    hand,          \* the token it is trying to put into the channel
    wire,          \* responses on the inference stream, not yet received
    worker,        \* the server's thread for the request
    passed,        \* how many chunks it has passed on
    thread,        \* the engine's thread for the request
    produced,      \* how many chunks are or were in the streamer queue
    lock,          \* HFEngine._lock
    stopped        \* whether the server has shut down

chat == <<handler, token, sent, saved, sendFailed>>
link == <<pump, hand>>
engine == <<thread, produced, lock>>
vars == <<chat, left, link, wire, worker, passed, engine, stopped>>

Tokens == {"chunk", "last", "error"}
Ended(r) == handler[r] \in {"done", "failed"}
Cancelled(r) == left[r] \/ Ended(r)

Init ==
    /\ handler = [r \in Requests |-> "idle"]
    /\ token = [r \in Requests |-> "chunk"]
    /\ sent = [r \in Requests |-> 0]
    /\ saved = [r \in Requests |-> FALSE]
    /\ sendFailed = [r \in Requests |-> FALSE]
    /\ left = [r \in Requests |-> FALSE]
    /\ pump = [r \in Requests |-> "none"]
    /\ hand = [r \in Requests |-> "chunk"]
    /\ wire = [r \in Requests |-> <<>>]
    /\ worker = [r \in Requests |-> "none"]
    /\ passed = [r \in Requests |-> 0]
    /\ thread = [r \in Requests |-> "none"]
    /\ produced = [r \in Requests |-> 0]
    /\ lock = None
    /\ stopped = FALSE

-----------------------------------------------------------------------------
(* The StreamChat handler, from GetGeneratedToken on.                      *)

\* GetGeneratedToken opens the stream, sends the request and starts the pump;
\* it fails when the server cannot be reached or the client has gone.
Start(r) ==
    /\ handler[r] = "idle"
    /\ \/ /\ ~stopped
          /\ handler' = [handler EXCEPT ![r] = "waiting"]
          /\ pump' = [pump EXCEPT ![r] = "recv"]
          /\ worker' = [worker EXCEPT ![r] = "queued"]
       \/ /\ stopped \/ left[r]
          /\ handler' = [handler EXCEPT ![r] = "failed"]
          /\ UNCHANGED <<pump, worker>>
    /\ UNCHANGED <<token, sent, saved, sendFailed, left, hand, wire, passed, engine,
                   stopped>>

\* Mutant: an error ends the answer like the last token.
TakeTokenAnyEnd(r) ==
    /\ handler[r] = "waiting" /\ pump[r] = "handing"
    /\ token' = [token EXCEPT ![r] = hand[r]]
    /\ handler' = [handler EXCEPT ![r] = "sending"]
    /\ pump' = [pump EXCEPT ![r] = IF hand[r] = "chunk" THEN "recv" ELSE "closed"]
    /\ UNCHANGED <<sent, saved, sendFailed, left, hand, wire, worker, passed,
                   engine, stopped>>

\* Mutant: the goroutine goes on receiving after it has passed on an error.
TakeTokenPumpGoesOn(r) ==
    /\ handler[r] = "waiting" /\ pump[r] = "handing"
    /\ token' = [token EXCEPT ![r] = hand[r]]
    /\ handler' = [handler EXCEPT ![r] =
                     IF hand[r] = "error" THEN "failed" ELSE "sending"]
    /\ pump' = [pump EXCEPT ![r] = IF hand[r] = "last" THEN "closed" ELSE "recv"]
    /\ UNCHANGED <<sent, saved, sendFailed, left, hand, wire, worker, passed,
                   engine, stopped>>

\* The handler takes the token the pump offers; an error ends the handler, and
\* the last token or an error ends the pump.
TakeToken(r) ==
    /\ handler[r] = "waiting" /\ pump[r] = "handing"
    /\ token' = [token EXCEPT ![r] = hand[r]]
    /\ handler' = [handler EXCEPT ![r] =
                     IF hand[r] = "error" THEN "failed" ELSE "sending"]
    /\ pump' = [pump EXCEPT ![r] = IF hand[r] = "chunk" THEN "recv" ELSE "closed"]
    /\ UNCHANGED <<sent, saved, sendFailed, left, hand, wire, worker, passed,
                   engine, stopped>>

\* stream.Send succeeds, and the token's content joins fullResponse.
SendToken(r) ==
    /\ handler[r] = "sending"
    /\ sent' = [sent EXCEPT ![r] = @ + (IF token[r] = "chunk" THEN 1 ELSE 0)]
    /\ handler' = [handler EXCEPT ![r] = "waiting"]
    /\ UNCHANGED <<token, saved, sendFailed, left, link, wire, worker, passed, engine,
                   stopped>>

SendTokenFails(r) ==
    /\ handler[r] = "sending"
    /\ left[r]
    /\ sendFailed' = [sendFailed EXCEPT ![r] = TRUE]
    /\ handler' = [handler EXCEPT ![r] = "failed"]
    /\ UNCHANGED <<token, sent, saved, left, link, wire, worker, passed, engine,
                   stopped>>

\* The channel is closed: what was sent, if anything, is saved as the answer,
\* in a context that does not depend on the client.
SaveAnswer(r) ==
    /\ handler[r] = "waiting" /\ pump[r] = "closed"
    /\ saved' = [saved EXCEPT ![r] = sent[r] > 0]
    /\ handler' = [handler EXCEPT ![r] = "done"]
    /\ UNCHANGED <<token, sent, sendFailed, left, link, wire, worker, passed, engine,
                   stopped>>

ClientLeaves(r) ==
    /\ ~Cancelled(r)
    /\ left' = [left EXCEPT ![r] = TRUE]
    /\ UNCHANGED <<chat, link, wire, worker, passed, engine, stopped>>

-----------------------------------------------------------------------------
(* The pump goroutine: Recv, and an offer on the channel.  It blocks there *)
(* until the handler takes the token, even when the handler is gone.       *)

Offer(r, t) ==
    /\ pump' = [pump EXCEPT ![r] = "handing"]
    /\ hand' = [hand EXCEPT ![r] = t]

RecvToken(r) ==
    /\ pump[r] = "recv"
    /\ wire[r] # <<>>
    /\ Offer(r, Head(wire[r]))
    /\ wire' = [wire EXCEPT ![r] = Tail(@)]
    /\ UNCHANGED <<chat, left, worker, passed, engine, stopped>>

\* Mutant: Recv does not return when the context is cancelled.
RecvFailsUncancelled(r) ==
    /\ pump[r] = "recv"
    /\ stopped /\ wire[r] = <<>> /\ worker[r] # "done"
    /\ Offer(r, "error")
    /\ UNCHANGED <<chat, left, wire, worker, passed, engine, stopped>>

\* Recv returns an error: the context was cancelled, or the server went away.
RecvFails(r) ==
    /\ pump[r] = "recv"
    /\ Cancelled(r) \/ (stopped /\ wire[r] = <<>> /\ worker[r] # "done")
    /\ Offer(r, "error")
    /\ UNCHANGED <<chat, left, wire, worker, passed, engine, stopped>>

-----------------------------------------------------------------------------
(* The server: StreamInference in a worker thread.                         *)

Busy == {r \in Requests : worker[r] \in {"reading", "streaming"}}

\* Responses go out while the stream is still open.
Respond(r, responses) ==
    wire' = IF Cancelled(r) THEN wire ELSE [wire EXCEPT ![r] = @ \o responses]

AcceptRequest(r) ==
    /\ worker[r] = "queued"
    /\ Cardinality(Busy) < PoolSize
    /\ worker' = [worker EXCEPT ![r] = "reading"]
    /\ UNCHANGED <<chat, left, link, wire, passed, engine, stopped>>

\* The loop over request_iterator ends when the caller half-closes; then
\* stream_generate starts the engine's thread.
ReadRequest(r) ==
    /\ worker[r] = "reading"
    /\ HalfCloses /\ ~Cancelled(r)
    /\ worker' = [worker EXCEPT ![r] = "streaming"]
    /\ thread' = [thread EXCEPT ![r] = "started"]
    /\ UNCHANGED <<chat, left, link, wire, passed, produced, lock, stopped>>

\* A cancelled stream makes the loop raise, and nobody gets the error response.
ReadCancelled(r) ==
    /\ worker[r] = "reading"
    /\ Cancelled(r)
    /\ worker' = [worker EXCEPT ![r] = "done"]
    /\ UNCHANGED <<chat, left, link, wire, passed, engine, stopped>>

\* The worker takes a chunk from the streamer; once the stream is cancelled its
\* generator is not resumed.
PassChunk(r) ==
    /\ worker[r] = "streaming"
    /\ passed[r] < produced[r]
    /\ passed' = [passed EXCEPT ![r] = @ + 1]
    /\ Respond(r, <<"chunk">>)
    /\ worker' = IF Cancelled(r) THEN [worker EXCEPT ![r] = "done"] ELSE worker
    /\ UNCHANGED <<chat, left, link, engine, stopped>>

\* The streamer has ended: the final signal.
FinishStream(r) ==
    /\ worker[r] = "streaming"
    /\ passed[r] = produced[r] /\ thread[r] = "ended"
    /\ Respond(r, <<"last">>)
    /\ worker' = [worker EXCEPT ![r] = "done"]
    /\ UNCHANGED <<chat, left, link, passed, engine, stopped>>

\* stream_generate raises in the worker: the error response.
GenerateRaises(r) ==
    /\ "raises" \in Faults
    /\ worker[r] = "streaming"
    /\ Respond(r, <<"error">>)
    /\ worker' = [worker EXCEPT ![r] = "done"]
    /\ UNCHANGED <<chat, left, link, passed, engine, stopped>>

\* SIGTERM: the server takes no more calls and cuts off those it has.
StopServer ==
    /\ "stops" \in Faults
    /\ ~stopped
    /\ stopped' = TRUE
    /\ worker' = [r \in Requests |->
                    IF worker[r] \in {"none", "done"} THEN worker[r] ELSE "killed"]
    /\ thread' = [r \in Requests |-> "none"]
    /\ lock' = None
    /\ UNCHANGED <<chat, left, link, wire, passed, produced>>

-----------------------------------------------------------------------------
(* HFEngine: _safe_generate in a thread of its own.                        *)

AcquireLock(r) ==
    /\ thread[r] = "started"
    /\ lock = None
    /\ lock' = r
    /\ thread' = [thread EXCEPT ![r] = "running"]
    /\ UNCHANGED <<chat, left, link, wire, worker, passed, produced, stopped>>

ProduceChunk(r) ==
    /\ thread[r] = "running"
    /\ produced[r] < Chunks
    /\ produced' = [produced EXCEPT ![r] = @ + 1]
    /\ UNCHANGED <<chat, left, link, wire, worker, passed, thread, lock, stopped>>

\* Mutant: the lock is taken and released by hand, and this path forgets it.
EndGenerationLocked(r) ==
    /\ thread[r] = "running"
    /\ produced[r] = Chunks
    /\ thread' = [thread EXCEPT ![r] = "ended"]
    /\ UNCHANGED <<chat, left, link, wire, worker, passed, produced, lock,
                   stopped>>

EndGeneration(r) ==
    /\ thread[r] = "running"
    /\ produced[r] = Chunks
    /\ thread' = [thread EXCEPT ![r] = "ended"]
    /\ lock' = None
    /\ UNCHANGED <<chat, left, link, wire, worker, passed, produced, stopped>>

\* model.generate raises in the thread: the lock is released, and nothing ends
\* the streamer the worker is waiting for.
ThreadDies(r) ==
    /\ "threadDies" \in Faults
    /\ thread[r] = "running"
    /\ thread' = [thread EXCEPT ![r] = "dead"]
    /\ lock' = None
    /\ UNCHANGED <<chat, left, link, wire, worker, passed, produced, stopped>>

-----------------------------------------------------------------------------
StreamChat(r) ==
    TakeToken(r) \/ SendToken(r) \/ SendTokenFails(r) \/ SaveAnswer(r)

Pump(r) == RecvToken(r) \/ RecvFails(r)

StreamInference(r) ==
    ReadRequest(r) \/ ReadCancelled(r) \/ PassChunk(r) \/ FinishStream(r)

Generate(r) == AcquireLock(r) \/ ProduceChunk(r) \/ EndGeneration(r)

Next ==
    \/ \E r \in Requests :
          \/ Start(r) \/ ClientLeaves(r)
          \/ StreamChat(r) \/ Pump(r)
          \/ AcceptRequest(r) \/ StreamInference(r) \/ GenerateRaises(r)
          \/ Generate(r) \/ ThreadDies(r)
    \/ StopServer

\* Goroutines and threads that can run do run; requests need not come, clients
\* need not leave, and nothing need go wrong.
Fairness ==
    \A r \in Requests :
        /\ WF_vars(StreamChat(r)) /\ WF_vars(Pump(r))
        /\ WF_vars(AcceptRequest(r)) /\ WF_vars(StreamInference(r))
        /\ WF_vars(Generate(r))

Spec == Init /\ [][Next]_vars /\ Fairness

-----------------------------------------------------------------------------
\* Every variable has its type, and the lock is held by a running thread.
TypeOK ==
    /\ handler \in [Requests -> {"idle", "waiting", "sending", "done", "failed"}]
    /\ sent \in [Requests -> 0 .. Chunks]
    /\ saved \in [Requests -> BOOLEAN] /\ sendFailed \in [Requests -> BOOLEAN]
    /\ left \in [Requests -> BOOLEAN] /\ stopped \in BOOLEAN
    /\ pump \in [Requests -> {"none", "recv", "handing", "closed"}]
    /\ hand \in [Requests -> Tokens] /\ token \in [Requests -> Tokens]
    /\ wire \in [Requests -> Seq(Tokens)]
    /\ worker \in [Requests ->
                     {"none", "queued", "reading", "streaming", "done", "killed"}]
    /\ passed \in [Requests -> 0 .. Chunks]
    /\ thread \in [Requests -> {"none", "started", "running", "ended", "dead"}]
    /\ produced \in [Requests -> 0 .. Chunks]
    /\ lock \in Requests \cup {None}
    /\ {r \in Requests : thread[r] = "running"} = {lock} \ {None}

\* An assistant message is saved only when it is the whole answer and the final
\* signal has come: not when the engine failed, the server stopped or the client
\* left half way.
SavedIsWhole ==
    \A r \in Requests : saved[r] => sent[r] = Chunks /\ token[r] = "last"

\* The goroutine of GetGeneratedToken outlives its handler, blocked on the
\* channel nobody reads any more, only if a Send to the client failed.
PumpLeakedOnlyBySend ==
    \A r \in Requests :
        Ended(r) /\ pump[r] \in {"recv", "handing"} => sendFailed[r]

ThreadDied(r) == thread[r] = "dead"

\* README: in the token stream the inference service sends chunks and the chat
\* service forwards them.  A handler that waits for tokens ends at last (and
\* gives back the load of its instance), unless the engine's thread died for
\* it or for another request that keeps a worker of the pool.
HandlersEnd ==
    \A r \in Requests :
        handler[r] = "waiting" ~> Ended(r) \/ \E q \in Requests : ThreadDied(q)

\* A worker thread of the server comes back to the pool, whatever the client
\* does, unless the engine's thread it waits for died.
WorkersComeBack ==
    \A r \in Requests :
        worker[r] \in {"reading", "streaming"} ~>
            worker[r] \in {"done", "killed"} \/ ThreadDied(r)
=============================================================================
