-------------------------- MODULE TokenStreamProofs --------------------------
(***************************************************************************)
(* Proofs about TokenStream.  The inductive invariant counts the chunks of *)
(* an answer wherever they are between the streamer and fullResponse: what *)
(* the client was sent, what the handler and the pump hold, and what is on *)
(* the wire, are together never more than what the worker passed on, and   *)
(* all of it once the final signal is out, unless a Send has failed.       *)
(***************************************************************************)
EXTENDS TokenStream, SequenceTheorems, TLAPS

LastOf(w) == w[Len(w)]

\* What is on the wire: chunks, then at most one token that is not a chunk.
ChunksFirst(w) == \A i \in 1 .. Len(w) : i < Len(w) => w[i] = "chunk"

ChunksIn(w) ==
    IF w = <<>> THEN 0 ELSE IF LastOf(w) = "chunk" THEN Len(w) ELSE Len(w) - 1

\* Chunks of r that have left the server and were not lost.
InHandler(r) == IF handler[r] = "sending" /\ token[r] = "chunk" THEN 1 ELSE 0
InPump(r) == IF pump[r] = "handing" /\ hand[r] = "chunk" THEN 1 ELSE 0
Arriving(r) == sent[r] + InHandler(r) + InPump(r) + ChunksIn(wire[r])

\* The final signal of r is out.
LastOut(r) ==
    \/ wire[r] # <<>> /\ LastOf(wire[r]) = "last"
    \/ pump[r] = "handing" /\ hand[r] = "last"
    \/ token[r] = "last"

\* The wire, and that nothing follows an end on it.
WireOK(r) ==
    /\ ChunksFirst(wire[r])
    /\ wire[r] # <<>> /\ LastOf(wire[r]) # "chunk" => worker[r] = "done"
    /\ pump[r] = "handing" /\ hand[r] = "last" => wire[r] = <<>> /\ worker[r] = "done"
    /\ token[r] = "last" =>
         wire[r] = <<>> /\ worker[r] = "done" /\ pump[r] = "closed"

\* The chunks: none appears from nowhere, and none is missing when it counts.
CountOK(r) ==
    /\ Arriving(r) <= passed[r] /\ passed[r] <= produced[r]
    /\ thread[r] = "ended" => produced[r] = Chunks
    /\ worker[r] \in {"none", "queued", "reading"} => passed[r] = 0 /\ thread[r] = "none"
    /\ worker[r] = "streaming" /\ ~Cancelled(r) => Arriving(r) = passed[r]
    /\ LastOut(r) /\ handler[r] # "failed" => Arriving(r) = Chunks

\* How a handler and its pump end.
EndOK(r) ==
    /\ handler[r] = "idle" => pump[r] = "none" /\ worker[r] = "none"
    /\ token[r] = "error" => handler[r] = "failed"
    /\ pump[r] = "closed" => token[r] = "last" \/ handler[r] = "failed"
    /\ saved[r] => handler[r] = "done" /\ token[r] = "last" /\ sent[r] = Chunks
    /\ Ended(r) /\ pump[r] \in {"recv", "handing"} => sendFailed[r]

FlowOK(r) == WireOK(r) /\ CountOK(r) /\ EndOK(r)

\* The inductive invariant.
IInv == TypeOK /\ \A r \in Requests : FlowOK(r)

-----------------------------------------------------------------------------
(* The wire.                                                               *)

LEMMA EmptyWire ==
    ASSUME NEW w \in Seq(Tokens) PROVE Len(w) \in Nat /\ (w = <<>> <=> Len(w) = 0)
BY EmptySeq, LenProperties

\* ChunksIn by the length of the wire.
LEMMA ChunksInByLength ==
    ASSUME NEW w \in Seq(Tokens)
    PROVE  /\ Len(w) = 0 => ChunksIn(w) = 0
           /\ Len(w) # 0 /\ LastOf(w) = "chunk" => ChunksIn(w) = Len(w)
           /\ Len(w) # 0 /\ LastOf(w) # "chunk" => ChunksIn(w) = Len(w) - 1
           /\ ChunksIn(w) \in Nat
BY EmptyWire DEF ChunksIn

\* Taking the first token off the wire.
LEMMA HeadOffWire ==
    ASSUME NEW w \in Seq(Tokens), w # <<>>, ChunksFirst(w)
    PROVE  /\ Head(w) \in Tokens /\ Tail(w) \in Seq(Tokens) /\ ChunksFirst(Tail(w))
           /\ ChunksIn(w) = ChunksIn(Tail(w)) + (IF Head(w) = "chunk" THEN 1 ELSE 0)
           /\ Head(w) # "chunk" => Tail(w) = <<>>
           /\ IF Tail(w) = <<>> THEN LastOf(w) = Head(w)
                                ELSE LastOf(Tail(w)) = LastOf(w)
<1> DEFINE v == Tail(w)
<1> DEFINE t == Head(w)
<1>1. /\ Len(w) \in Nat \ {0} /\ t = w[1] /\ t \in Tokens
      /\ v \in Seq(Tokens) /\ Len(v) = Len(w) - 1
      /\ \A i \in 1 .. Len(w) - 1 : v[i] = w[i + 1]
    BY HeadTailProperties, EmptyWire
<1> HIDE DEF v, t
<1>2. v = <<>> <=> Len(w) = 1
    BY <1>1, EmptyWire
<1>3. ChunksFirst(v)
    BY <1>1 DEF ChunksFirst
<1>4. Len(w) > 1 => t = "chunk"
    BY <1>1 DEF ChunksFirst
<1>5. IF v = <<>> THEN LastOf(w) = t ELSE LastOf(v) = LastOf(w)
    BY <1>1, <1>2 DEF LastOf
<1>6. ChunksIn(w) = ChunksIn(v) + (IF t = "chunk" THEN 1 ELSE 0)
    <2>1. CASE Len(w) = 1
        <3>1. Len(v) = 0
            BY <1>1, <2>1
        <3>2. ChunksIn(v) = 0
            BY <1>1, <3>1, ChunksInByLength
        <3>3. ChunksIn(w) = IF t = "chunk" THEN 1 ELSE 0
            BY <1>1, <1>2, <1>5, <2>1, ChunksInByLength
        <3> QED BY <3>2, <3>3
    <2>2. CASE Len(w) > 1
        BY <1>1, <1>2, <1>4, <1>5, <2>2, ChunksInByLength
    <2> QED BY <1>1, <2>1, <2>2
<1> QED BY <1>1, <1>2, <1>3, <1>4, <1>5, <1>6 DEF v, t

\* Putting a token on a wire that has no end yet.
LEMMA OntoWire ==
    ASSUME NEW w \in Seq(Tokens), NEW t \in Tokens,
           w # <<>> => LastOf(w) = "chunk", ChunksFirst(w)
    PROVE  /\ w \o <<t>> \in Seq(Tokens) /\ w \o <<t>> # <<>>
           /\ ChunksFirst(w \o <<t>>) /\ LastOf(w \o <<t>>) = t
           /\ ChunksIn(w \o <<t>>) = ChunksIn(w) + (IF t = "chunk" THEN 1 ELSE 0)
<1> DEFINE u == w \o <<t>>
<1>1. /\ Len(w) \in Nat /\ u \in Seq(Tokens) /\ Len(u) = Len(w) + 1
      /\ \A i \in 1 .. Len(u) : u[i] = IF i <= Len(w) THEN w[i] ELSE t
    BY ConcatProperties, EmptyWire
<1>2. u # <<>> /\ (w = <<>> <=> Len(w) = 0)
    BY <1>1, EmptyWire
<1> HIDE DEF u
<1>3. LastOf(u) = t
    BY <1>1 DEF LastOf
<1>4. \A i \in 1 .. Len(w) : w[i] = "chunk"
    BY <1>1, <1>2 DEF LastOf, ChunksFirst
<1>5. ChunksFirst(u)
    BY <1>1, <1>4 DEF ChunksFirst
<1>6. ChunksIn(w) = Len(w)
    BY <1>1, <1>2, ChunksInByLength
<1>7. ChunksIn(u) = Len(w) + (IF t = "chunk" THEN 1 ELSE 0)
    BY <1>1, <1>3, ChunksInByLength
<1> QED BY <1>1, <1>2, <1>3, <1>5, <1>6, <1>7 DEF u

\* A step that leaves everything of r alone keeps its flow.
LEMMA FlowFrame ==
    ASSUME NEW r \in Requests, FlowOK(r),
           handler'[r] = handler[r], token'[r] = token[r], sent'[r] = sent[r],
           saved'[r] = saved[r], sendFailed'[r] = sendFailed[r], left'[r] = left[r],
           pump'[r] = pump[r], hand'[r] = hand[r], wire'[r] = wire[r],
           worker'[r] = worker[r], passed'[r] = passed[r], thread'[r] = thread[r],
           produced'[r] = produced[r]
    PROVE  FlowOK(r)'
BY DEF FlowOK, WireOK, CountOK, EndOK, Arriving, InHandler, InPump, LastOut,
       Ended, Cancelled

\* What the types of the variables say about one request.
TypesAt(r) ==
    /\ handler[r] \in {"idle", "waiting", "sending", "done", "failed"}
    /\ token[r] \in Tokens /\ hand[r] \in Tokens
    /\ sent[r] \in Nat /\ sent[r] <= Chunks /\ Chunks \in Nat /\ Chunks > 0
    /\ passed[r] \in Nat /\ passed[r] <= Chunks
    /\ produced[r] \in Nat /\ produced[r] <= Chunks
    /\ ChunksIn(wire[r]) \in Nat
    /\ InHandler(r) \in Nat /\ InPump(r) \in Nat /\ Arriving(r) \in Nat

LEMMA TypesOf ==
    ASSUME TypeOK, NEW r \in Requests PROVE TypesAt(r)
<1>1. Chunks \in Nat /\ Chunks > 0
    BY BoundsAssumption
<1>2. wire[r] \in Seq(Tokens)
    BY DEF TypeOK
<1>3. ChunksIn(wire[r]) \in Nat
    BY <1>2, ChunksInByLength
<1> QED BY <1>1, <1>2, <1>3 DEF TypesAt, TypeOK, InHandler, InPump, Arriving

\* A step of r that keeps its flow keeps everybody's, if it touches no other.
LEMMA OnlyOne ==
    ASSUME NEW r \in Requests, \A q \in Requests : FlowOK(q), FlowOK(r)',
           \A q \in Requests \ {r} :
              /\ handler'[q] = handler[q]
              /\ token'[q] = token[q]
              /\ sent'[q] = sent[q]
              /\ saved'[q] = saved[q]
              /\ sendFailed'[q] = sendFailed[q]
              /\ left'[q] = left[q]
              /\ pump'[q] = pump[q]
              /\ hand'[q] = hand[q]
              /\ wire'[q] = wire[q]
              /\ worker'[q] = worker[q]
              /\ passed'[q] = passed[q]
              /\ thread'[q] = thread[q]
              /\ produced'[q] = produced[q]
    PROVE  \A q \in Requests : FlowOK(q)'
BY FlowFrame

\* The lock's holder is the request whose thread runs.
LEMMA Holder ==
    ASSUME NEW l \in Requests \cup {None}, NEW S, S \subseteq Requests
    PROVE  S = {l} \ {None} <=> \A q \in Requests : q \in S <=> q = l
BY BoundsAssumption

-----------------------------------------------------------------------------
(* One lemma per action.                                                   *)

\* A call that starts, or fails to.
LEMMA StartKeeps ==
    ASSUME IInv, NEW r \in Requests, Start(r)
    PROVE  TypeOK' /\ \A q \in Requests : FlowOK(q)'
<1>1. FlowOK(r) /\ TypesAt(r) /\ TypeOK
    BY TypesOf DEF IInv
<1>2. /\ handler[r] = "idle" /\ pump[r] = "none"
      /\ UNCHANGED <<token, sent, saved, sendFailed, left, hand, wire, passed, thread,
                     produced, lock, stopped>>
    BY <1>1 DEF Start, engine, FlowOK, EndOK
<1>3. \/ /\ handler' = [handler EXCEPT ![r] = "waiting"]
         /\ pump' = [pump EXCEPT ![r] = "recv"]
         /\ worker' = [worker EXCEPT ![r] = "queued"]
      \/ handler' = [handler EXCEPT ![r] = "failed"] /\ UNCHANGED <<pump, worker>>
    BY DEF Start
<1>4. \/ handler'[r] = "waiting" /\ pump'[r] = "recv" /\ worker'[r] = "queued"
      \/ handler'[r] = "failed" /\ pump'[r] = "none" /\ worker'[r] = worker[r]
    BY <1>1, <1>2, <1>3 DEF TypeOK
<1>5. token[r] # "last"
    BY <1>1, <1>2 DEF FlowOK, WireOK
<1>6. worker[r] = "none"
    BY <1>1, <1>2 DEF FlowOK, EndOK
<1>7. Arriving(r)' = Arriving(r)
    BY <1>1, <1>2, <1>4 DEF Arriving, InHandler, InPump
<1>8. WireOK(r)' /\ EndOK(r)'
    BY <1>1, <1>2, <1>4, <1>6 DEF FlowOK, WireOK, EndOK, Ended
<1>9. CountOK(r)'
    BY <1>1, <1>2, <1>4, <1>5, <1>6, <1>7 DEF FlowOK, WireOK, CountOK, LastOut
<1>10. \A q \in Requests : FlowOK(q)'
    BY <1>1, <1>2, <1>3, <1>8, <1>9, OnlyOne DEF IInv, TypeOK, FlowOK
<1>11. TypeOK'
    BY <1>1, <1>2, <1>3 DEF TypeOK
<1> QED BY <1>10, <1>11

\* The handler takes a token.
LEMMA TakeTokenKeeps ==
    ASSUME IInv, NEW r \in Requests, TakeToken(r)
    PROVE  TypeOK' /\ \A q \in Requests : FlowOK(q)'
<1> USE TakeToken(r) DEF TakeToken, engine
<1>0. TypesAt(r)
    BY TypesOf DEF IInv
<1>1. FlowOK(r)
    BY DEF IInv
<1>2. Arriving(r)' = Arriving(r)
    BY <1>0 DEF TypesAt, IInv, TypeOK, Arriving, InHandler, InPump
<1>3. WireOK(r)'
    BY <1>1 DEF IInv, TypeOK, FlowOK, WireOK
<1>4. CountOK(r)'
    BY <1>1, <1>2, <1>0 DEF TypesAt, IInv, TypeOK, FlowOK, WireOK, CountOK, EndOK, LastOut,
       Ended, Cancelled
<1>5. EndOK(r)'
    BY <1>1, <1>2, <1>0 DEF TypesAt, IInv, TypeOK, FlowOK, WireOK, CountOK, EndOK, LastOut,
       Arriving, InHandler, InPump, ChunksIn, Ended, Tokens
<1>6. TypeOK'
    BY DEF IInv, TypeOK, Tokens
<1>7. \A q \in Requests : FlowOK(q)'
    BY <1>3, <1>4, <1>5, OnlyOne DEF IInv, TypeOK, FlowOK
<1> QED BY <1>6, <1>7

\* The handler has sent a token.
LEMMA SendTokenKeeps ==
    ASSUME IInv, NEW r \in Requests, SendToken(r)
    PROVE  TypeOK' /\ \A q \in Requests : FlowOK(q)'
<1> USE SendToken(r) DEF SendToken, link, engine
<1>0. TypesAt(r)
    BY TypesOf DEF IInv
<1>1. FlowOK(r)
    BY DEF IInv
<1>2. Arriving(r)' = Arriving(r)
    BY <1>0 DEF TypesAt, IInv, TypeOK, Arriving, InHandler, InPump
<1>3. WireOK(r)'
    BY <1>1 DEF IInv, TypeOK, FlowOK, WireOK
<1>4. CountOK(r)'
    BY <1>1, <1>2, <1>0 DEF TypesAt, IInv, TypeOK, FlowOK, WireOK, CountOK, EndOK, LastOut,
       Ended, Cancelled
<1>5. EndOK(r)'
    BY <1>1, <1>2, <1>0 DEF TypesAt, IInv, TypeOK, FlowOK, WireOK, CountOK, EndOK, LastOut,
       Arriving, InHandler, InPump, ChunksIn, Ended, Tokens
<1>6. TypeOK'
    <2>1. sent'[r] <= Chunks
        <3>1. Arriving(r) <= Chunks
            BY <1>0, <1>1 DEF TypesAt, FlowOK, CountOK
        <3>2. sent[r] + InHandler(r) <= Arriving(r)
            BY <1>0 DEF TypesAt, Arriving
        <3>3. sent'[r] = sent[r] + InHandler(r)
            BY <1>0 DEF TypesAt, IInv, TypeOK, InHandler
        <3> QED BY <1>0, <3>1, <3>2, <3>3 DEF TypesAt
    <2>2. sent' \in [Requests -> 0 .. Chunks]
        <3>1. sent \in [Requests -> 0 .. Chunks] /\ Chunks \in Nat
            BY <1>0 DEF TypesAt, IInv, TypeOK
        <3>2. sent' = [sent EXCEPT ![r] = sent[r] + InHandler(r)]
            BY DEF InHandler
        <3>3. sent[r] + InHandler(r) \in 0 .. Chunks
            BY <1>0, <2>1, <3>1, <3>2 DEF TypesAt
        <3> HIDE DEF SendToken
        <3> QED BY <3>1, <3>2, <3>3
    <2>3. handler' \in [Requests -> {"idle", "waiting", "sending", "done", "failed"}]
        BY DEF IInv, TypeOK
    <2>4. /\ token' = token /\ saved' = saved /\ sendFailed' = sendFailed /\ left' = left
          /\ pump' = pump /\ hand' = hand /\ wire' = wire /\ worker' = worker
          /\ passed' = passed /\ thread' = thread /\ produced' = produced /\ lock' = lock
          /\ stopped' = stopped
        OBVIOUS
    <2>5. {q \in Requests : thread'[q] = "running"} = {lock'} \ {None}
        BY <2>4 DEF IInv, TypeOK
    <2> HIDE DEF SendToken, link, engine
    <2> QED BY <2>2, <2>3, <2>4, <2>5 DEF IInv, TypeOK
<1>7. \A q \in Requests : FlowOK(q)'
    BY <1>3, <1>4, <1>5, OnlyOne DEF IInv, TypeOK, FlowOK
<1> QED BY <1>6, <1>7

\* The handler cannot send a token.
LEMMA SendTokenFailsKeeps ==
    ASSUME IInv, NEW r \in Requests, SendTokenFails(r)
    PROVE  TypeOK' /\ \A q \in Requests : FlowOK(q)'
<1> USE SendTokenFails(r) DEF SendTokenFails, link, engine
<1>0. TypesAt(r)
    BY TypesOf DEF IInv
<1>1. FlowOK(r)
    BY DEF IInv
<1>2. Arriving(r)' <= Arriving(r)
    <2>1. sent'[r] = sent[r] /\ InPump(r)' = InPump(r) /\ ChunksIn(wire'[r]) = ChunksIn(wire[r])
        BY DEF InPump
    <2>2. InHandler(r)' = 0
        BY DEF IInv, TypeOK, InHandler
    <2> HIDE DEF SendTokenFails
    <2> QED BY <1>0, <2>1, <2>2 DEF TypesAt, Arriving
<1>3. WireOK(r)'
    BY <1>1 DEF IInv, TypeOK, FlowOK, WireOK
<1>4. CountOK(r)'
    <2>1. handler'[r] = "failed" /\ Arriving(r)' \in Nat
        BY <1>0 DEF TypesAt, IInv, TypeOK, Arriving, InHandler, InPump
    <2> QED BY <1>0, <1>1, <1>2, <2>1
            DEF TypesAt, FlowOK, CountOK, Ended, Cancelled
<1>5. EndOK(r)'
    BY <1>1, <1>2, <1>0 DEF TypesAt, IInv, TypeOK, FlowOK, WireOK, CountOK, EndOK, LastOut,
       Arriving, InHandler, InPump, ChunksIn, Ended, Tokens
<1>6. TypeOK'
    BY DEF IInv, TypeOK, Tokens
<1>7. \A q \in Requests : FlowOK(q)'
    BY <1>3, <1>4, <1>5, OnlyOne DEF IInv, TypeOK, FlowOK
<1> QED BY <1>6, <1>7

\* The handler saves the answer.
LEMMA SaveAnswerKeeps ==
    ASSUME IInv, NEW r \in Requests, SaveAnswer(r)
    PROVE  TypeOK' /\ \A q \in Requests : FlowOK(q)'
<1> USE SaveAnswer(r) DEF SaveAnswer, link, engine
<1>0. TypesAt(r)
    BY TypesOf DEF IInv
<1>1. FlowOK(r)
    BY DEF IInv
<1>2. Arriving(r)' = Arriving(r)
    BY <1>0 DEF TypesAt, IInv, TypeOK, Arriving, InHandler, InPump
<1>3. WireOK(r)'
    BY <1>1 DEF IInv, TypeOK, FlowOK, WireOK
<1>4. CountOK(r)'
    BY <1>1, <1>2, <1>0 DEF TypesAt, IInv, TypeOK, FlowOK, WireOK, CountOK, EndOK, LastOut,
       Ended, Cancelled
<1>5. EndOK(r)'
    BY <1>1, <1>2, <1>0 DEF TypesAt, IInv, TypeOK, FlowOK, WireOK, CountOK, EndOK, LastOut,
       Arriving, InHandler, InPump, ChunksIn, Ended, Tokens
<1>6. TypeOK'
    BY DEF IInv, TypeOK, Tokens
<1>7. \A q \in Requests : FlowOK(q)'
    BY <1>3, <1>4, <1>5, OnlyOne DEF IInv, TypeOK, FlowOK
<1> QED BY <1>6, <1>7

\* A client leaves.
LEMMA ClientLeavesKeeps ==
    ASSUME IInv, NEW r \in Requests, ClientLeaves(r)
    PROVE  TypeOK' /\ \A q \in Requests : FlowOK(q)'
<1> USE ClientLeaves(r) DEF ClientLeaves, chat, link, engine
<1>0. TypesAt(r)
    BY TypesOf DEF IInv
<1>1. FlowOK(r)
    BY DEF IInv
<1>2. Arriving(r)' = Arriving(r)
    BY <1>0 DEF TypesAt, IInv, TypeOK, Arriving, InHandler, InPump
<1>3. WireOK(r)'
    BY <1>1 DEF IInv, TypeOK, FlowOK, WireOK
<1>4. CountOK(r)'
    BY <1>1, <1>2, <1>0 DEF TypesAt, IInv, TypeOK, FlowOK, WireOK, CountOK, EndOK, LastOut,
       Ended, Cancelled
<1>5. EndOK(r)'
    BY <1>1, <1>2, <1>0 DEF TypesAt, IInv, TypeOK, FlowOK, WireOK, CountOK, EndOK, LastOut,
       Arriving, InHandler, InPump, ChunksIn, Ended, Tokens
<1>6. TypeOK'
    BY DEF IInv, TypeOK, Tokens
<1>7. \A q \in Requests : FlowOK(q)'
    BY <1>3, <1>4, <1>5, OnlyOne DEF IInv, TypeOK, FlowOK
<1> QED BY <1>6, <1>7

\* The pump gets an error.
LEMMA RecvFailsKeeps ==
    ASSUME IInv, NEW r \in Requests, RecvFails(r)
    PROVE  TypeOK' /\ \A q \in Requests : FlowOK(q)'
<1> USE RecvFails(r) DEF RecvFails, chat, engine, Offer
<1>0. TypesAt(r)
    BY TypesOf DEF IInv
<1>1. FlowOK(r)
    BY DEF IInv
<1>2. Arriving(r)' = Arriving(r)
    BY <1>0 DEF TypesAt, IInv, TypeOK, Arriving, InHandler, InPump
<1>3. WireOK(r)'
    BY <1>1 DEF IInv, TypeOK, FlowOK, WireOK
<1>4. CountOK(r)'
    BY <1>1, <1>2, <1>0 DEF TypesAt, IInv, TypeOK, FlowOK, WireOK, CountOK, EndOK, LastOut,
       Ended, Cancelled
<1>5. EndOK(r)'
    BY <1>1, <1>2, <1>0 DEF TypesAt, IInv, TypeOK, FlowOK, WireOK, CountOK, EndOK, LastOut,
       Arriving, InHandler, InPump, ChunksIn, Ended, Tokens
<1>6. TypeOK'
    BY DEF IInv, TypeOK, Tokens
<1>7. \A q \in Requests : FlowOK(q)'
    BY <1>3, <1>4, <1>5, OnlyOne DEF IInv, TypeOK, FlowOK
<1> QED BY <1>6, <1>7

\* A worker takes the request.
LEMMA AcceptRequestKeeps ==
    ASSUME IInv, NEW r \in Requests, AcceptRequest(r)
    PROVE  TypeOK' /\ \A q \in Requests : FlowOK(q)'
<1> USE AcceptRequest(r) DEF AcceptRequest, chat, link, engine
<1>0. TypesAt(r)
    BY TypesOf DEF IInv
<1>1. FlowOK(r)
    BY DEF IInv
<1>2. Arriving(r)' = Arriving(r)
    BY <1>0 DEF TypesAt, IInv, TypeOK, Arriving, InHandler, InPump
<1>3. WireOK(r)'
    BY <1>1 DEF IInv, TypeOK, FlowOK, WireOK
<1>4. CountOK(r)'
    BY <1>1, <1>2, <1>0 DEF TypesAt, IInv, TypeOK, FlowOK, WireOK, CountOK, EndOK, LastOut,
       Ended, Cancelled
<1>5. EndOK(r)'
    BY <1>1, <1>2, <1>0 DEF TypesAt, IInv, TypeOK, FlowOK, WireOK, CountOK, EndOK, LastOut,
       Arriving, InHandler, InPump, ChunksIn, Ended, Tokens
<1>6. TypeOK'
    BY DEF IInv, TypeOK, Tokens
<1>7. \A q \in Requests : FlowOK(q)'
    BY <1>3, <1>4, <1>5, OnlyOne DEF IInv, TypeOK, FlowOK
<1> QED BY <1>6, <1>7

\* The engine's thread is started.
LEMMA ReadRequestKeeps ==
    ASSUME IInv, NEW r \in Requests, ReadRequest(r)
    PROVE  TypeOK' /\ \A q \in Requests : FlowOK(q)'
<1> USE ReadRequest(r) DEF ReadRequest, chat, link
<1>0. TypesAt(r)
    BY TypesOf DEF IInv
<1>1. FlowOK(r)
    BY DEF IInv
<1>2. Arriving(r)' = Arriving(r)
    BY <1>0 DEF TypesAt, IInv, TypeOK, Arriving, InHandler, InPump
<1>3. WireOK(r)'
    BY <1>1 DEF IInv, TypeOK, FlowOK, WireOK
<1>4. CountOK(r)'
    BY <1>1, <1>2, <1>0 DEF TypesAt, IInv, TypeOK, FlowOK, WireOK, CountOK, EndOK, LastOut,
       Ended, Cancelled
<1>5. EndOK(r)'
    BY <1>1, <1>2, <1>0 DEF TypesAt, IInv, TypeOK, FlowOK, WireOK, CountOK, EndOK, LastOut,
       Arriving, InHandler, InPump, ChunksIn, Ended, Tokens
<1>6. TypeOK'
    <2> DEFINE Running == {q \in Requests : thread[q] = "running"}
    <2>1. \A q \in Requests : q \in Running <=> q = lock
        <3> HIDE DEF Running
        <3> QED BY Holder DEF IInv, TypeOK, Running
    <2>2. lock' \in Requests \cup {None} /\ Running' \subseteq Requests
        BY DEF IInv, TypeOK
    <2>3. \A q \in Requests : q \in Running' <=> q = lock'
        <3>1. \A q \in Requests :
                 thread'[q] = "running" <=> q = lock'
            BY <1>1, <2>1 DEF IInv, TypeOK, FlowOK, CountOK
        <3> QED BY <3>1
    <2>4. Running' = {lock'} \ {None}
        <3> HIDE DEF Running
        <3> QED BY <2>2, <2>3, Holder
    <2> QED BY <2>2, <2>4 DEF IInv, TypeOK
<1>7. \A q \in Requests : FlowOK(q)'
    BY <1>3, <1>4, <1>5, OnlyOne DEF IInv, TypeOK, FlowOK
<1> QED BY <1>6, <1>7

\* The worker finds the stream cancelled.
LEMMA ReadCancelledKeeps ==
    ASSUME IInv, NEW r \in Requests, ReadCancelled(r)
    PROVE  TypeOK' /\ \A q \in Requests : FlowOK(q)'
<1> USE ReadCancelled(r) DEF ReadCancelled, chat, link, engine
<1>0. TypesAt(r)
    BY TypesOf DEF IInv
<1>1. FlowOK(r)
    BY DEF IInv
<1>2. Arriving(r)' = Arriving(r)
    BY <1>0 DEF TypesAt, IInv, TypeOK, Arriving, InHandler, InPump
<1>3. WireOK(r)'
    BY <1>1 DEF IInv, TypeOK, FlowOK, WireOK
<1>4. CountOK(r)'
    BY <1>1, <1>2, <1>0 DEF TypesAt, IInv, TypeOK, FlowOK, WireOK, CountOK, EndOK, LastOut,
       Ended, Cancelled
<1>5. EndOK(r)'
    BY <1>1, <1>2, <1>0 DEF TypesAt, IInv, TypeOK, FlowOK, WireOK, CountOK, EndOK, LastOut,
       Arriving, InHandler, InPump, ChunksIn, Ended, Tokens
<1>6. TypeOK'
    BY DEF IInv, TypeOK, Tokens
<1>7. \A q \in Requests : FlowOK(q)'
    BY <1>3, <1>4, <1>5, OnlyOne DEF IInv, TypeOK, FlowOK
<1> QED BY <1>6, <1>7

\* The pump takes a token off the wire.
LEMMA RecvTokenKeeps ==
    ASSUME IInv, NEW r \in Requests, RecvToken(r)
    PROVE  TypeOK' /\ \A q \in Requests : FlowOK(q)'
<1> USE RecvToken(r) DEF RecvToken, Offer, chat, engine
<1>0. TypesAt(r)
    BY TypesOf DEF IInv
<1> DEFINE t == Head(wire[r])
<1> DEFINE w == Tail(wire[r])
<1>1. FlowOK(r) /\ wire[r] \in Seq(Tokens) /\ wire[r] # <<>> /\ ChunksFirst(wire[r])
    BY DEF IInv, TypeOK, FlowOK, WireOK
<1>2. /\ t \in Tokens /\ w \in Seq(Tokens) /\ ChunksFirst(w)
      /\ ChunksIn(wire[r]) = ChunksIn(w) + (IF t = "chunk" THEN 1 ELSE 0)
      /\ t # "chunk" => w = <<>>
      /\ IF w = <<>> THEN LastOf(wire[r]) = t ELSE LastOf(w) = LastOf(wire[r])
      /\ ChunksIn(w) \in Nat
    BY <1>1, HeadOffWire, ChunksInByLength
<1>3. wire' = [wire EXCEPT ![r] = w] /\ hand' = [hand EXCEPT ![r] = t]
    OBVIOUS
<1> HIDE DEF t, w
<1>4. /\ wire'[r] = w /\ hand'[r] = t /\ pump[r] = "recv" /\ pump'[r] = "handing"
      /\ UNCHANGED <<handler, token, sent, saved, sendFailed, left, worker, passed,
                     thread, produced>>
    BY <1>3 DEF IInv, TypeOK
<1>5. WireOK(r)'
    BY <1>1, <1>2, <1>4 DEF FlowOK, WireOK
<1>6. InPump(r) = 0 /\ InPump(r)' = (IF t = "chunk" THEN 1 ELSE 0)
    BY <1>4 DEF InPump
<1>7. Arriving(r)' = Arriving(r)
    <2>1. sent'[r] = sent[r] /\ InHandler(r)' = InHandler(r)
        BY <1>4 DEF InHandler
    <2>2. Arriving(r)' = sent[r] + InHandler(r) + InPump(r)' + ChunksIn(w)
        BY <1>4, <2>1 DEF Arriving
    <2> QED BY <1>0, <1>2, <1>6, <2>2 DEF TypesAt, Arriving
<1>8. LastOut(r)' => LastOut(r)
    BY <1>1, <1>2, <1>4 DEF LastOut
<1>9. CountOK(r)' /\ EndOK(r)'
    BY <1>1, <1>4, <1>7, <1>8 DEF FlowOK, CountOK, EndOK, Ended, Cancelled
<1>10. \A q \in Requests : FlowOK(q)'
    <2>1. FlowOK(r)'
        BY <1>5, <1>9 DEF FlowOK
    <2> QED BY <2>1, <1>3, OnlyOne DEF IInv, TypeOK
<1>11. TypeOK'
    <2>1. pump' = [pump EXCEPT ![r] = "handing"]
          /\ UNCHANGED <<handler, sent, saved, sendFailed, left, stopped, token, worker,
                         passed, thread, produced, lock>>
        OBVIOUS
    <2>2. /\ wire' \in [Requests -> Seq(Tokens)] /\ hand' \in [Requests -> Tokens]
        BY <1>2, <1>3 DEF IInv, TypeOK
    <2>3. pump' \in [Requests -> {"none", "recv", "handing", "closed"}]
        BY <2>1 DEF IInv, TypeOK
    <2> HIDE DEF RecvToken, Offer, chat, engine
    <2> QED BY <2>1, <2>2, <2>3 DEF IInv, TypeOK
<1> QED BY <1>10, <1>11

\* A response that goes out: the wire gets it, and stays in order.
LEMMA RespondKeepsWire ==
    ASSUME IInv, NEW r \in Requests, NEW t \in Tokens, worker[r] = "streaming",
           Respond(r, <<t>>)
    PROVE  /\ wire' \in [Requests -> Seq(Tokens)]
           /\ \A q \in Requests \ {r} : wire'[q] = wire[q]
           /\ ChunksFirst(wire[r]) /\ ChunksFirst(wire'[r])
           /\ wire[r] # <<>> => LastOf(wire[r]) = "chunk"
           /\ Cancelled(r) => wire'[r] = wire[r]
           /\ ~Cancelled(r) =>
                /\ wire'[r] # <<>> /\ LastOf(wire'[r]) = t
                /\ ChunksIn(wire'[r]) = ChunksIn(wire[r]) + (IF t = "chunk" THEN 1 ELSE 0)
           /\ ChunksIn(wire'[r]) \in Nat
<1> DEFINE w == wire[r] \o <<t>>
<1>1. /\ wire[r] \in Seq(Tokens) /\ ChunksFirst(wire[r])
      /\ wire[r] # <<>> => LastOf(wire[r]) = "chunk"
    BY DEF IInv, TypeOK, FlowOK, WireOK
<1>2. /\ w \in Seq(Tokens) /\ w # <<>> /\ ChunksFirst(w) /\ LastOf(w) = t
      /\ ChunksIn(w) = ChunksIn(wire[r]) + (IF t = "chunk" THEN 1 ELSE 0)
    BY <1>1, OntoWire
<1>3. wire' = IF Cancelled(r) THEN wire ELSE [wire EXCEPT ![r] = w]
    BY DEF Respond
<1> HIDE DEF w
<1>4. ChunksIn(w) \in Nat /\ ChunksIn(wire[r]) \in Nat
    BY <1>1, <1>2, ChunksInByLength
<1> QED BY <1>1, <1>2, <1>3, <1>4 DEF IInv, TypeOK

\* The worker passes on a chunk.
LEMMA PassChunkKeeps ==
    ASSUME IInv, NEW r \in Requests, PassChunk(r)
    PROVE  TypeOK' /\ \A q \in Requests : FlowOK(q)'
<1>0. TypesAt(r)
    BY TypesOf DEF IInv
<1>1. /\ FlowOK(r) /\ worker[r] = "streaming" /\ Respond(r, <<"chunk">>)
      /\ passed[r] < produced[r] /\ passed' = [passed EXCEPT ![r] = @ + 1]
      /\ worker' = IF Cancelled(r) THEN [worker EXCEPT ![r] = "done"] ELSE worker
      /\ UNCHANGED <<handler, token, sent, saved, sendFailed, left, pump, hand,
                     thread, produced, lock, stopped>>
    BY DEF IInv, PassChunk, chat, link, engine
<1>2. /\ wire' \in [Requests -> Seq(Tokens)]
      /\ \A q \in Requests \ {r} : wire'[q] = wire[q]
      /\ ChunksFirst(wire[r]) /\ ChunksFirst(wire'[r])
      /\ wire[r] # <<>> => LastOf(wire[r]) = "chunk"
      /\ Cancelled(r) => wire'[r] = wire[r]
      /\ ~Cancelled(r) =>
           /\ wire'[r] # <<>> /\ LastOf(wire'[r]) = "chunk"
           /\ ChunksIn(wire'[r]) = ChunksIn(wire[r]) + 1
      /\ ChunksIn(wire'[r]) \in Nat
    BY <1>1, RespondKeepsWire DEF Tokens
<1>3. WireOK(r)'
    BY <1>1, <1>2 DEF IInv, TypeOK, FlowOK, WireOK
<1>4. Arriving(r)' = IF Cancelled(r) THEN Arriving(r) ELSE Arriving(r) + 1
    <2>1. InHandler(r)' = InHandler(r) /\ InPump(r)' = InPump(r) /\ sent'[r] = sent[r]
        BY <1>1 DEF InHandler, InPump
    <2>2. Arriving(r)' = sent[r] + InHandler(r) + InPump(r) + ChunksIn(wire'[r])
        BY <2>1 DEF Arriving
    <2>3. /\ sent[r] \in Nat /\ InHandler(r) \in Nat /\ InPump(r) \in Nat
          /\ ChunksIn(wire[r]) \in Nat
        BY <1>0 DEF TypesAt
    <2> QED BY <1>2, <2>2, <2>3 DEF Arriving
<1>5. CountOK(r)'
    <2>1. LastOut(r)' => ~Cancelled(r) \/ LastOut(r)
        BY <1>1, <1>2 DEF LastOut
    <2> QED BY <1>1, <1>2, <1>4, <2>1, <1>0
            DEF TypesAt, IInv, TypeOK, FlowOK, WireOK, CountOK, LastOut, Ended, Cancelled
<1>6. EndOK(r)' /\ FlowOK(r)'
    BY <1>1, <1>3, <1>5 DEF FlowOK, EndOK, Ended
<1>7. TypeOK'
    <2>1. /\ wire' \in [Requests -> Seq(Tokens)]
          /\ worker' \in [Requests ->
               {"none", "queued", "reading", "streaming", "done", "killed"}]
          /\ passed' \in [Requests -> 0 .. Chunks]
        <3>1. passed[r] + 1 \in 0 .. Chunks
            BY <1>0, <1>1 DEF TypesAt
        <3> QED BY <1>1, <1>2, <3>1 DEF IInv, TypeOK
    <2> QED BY <1>1, <2>1 DEF IInv, TypeOK
<1>8. \A q \in Requests : FlowOK(q)'
    BY <1>1, <1>2, <1>6, OnlyOne DEF IInv, TypeOK
<1> QED BY <1>7, <1>8

\* The worker sends the final signal.
LEMMA FinishStreamKeeps ==
    ASSUME IInv, NEW r \in Requests, FinishStream(r)
    PROVE  TypeOK' /\ \A q \in Requests : FlowOK(q)'
<1>0. TypesAt(r)
    BY TypesOf DEF IInv
<1>1. /\ FlowOK(r) /\ worker[r] = "streaming" /\ Respond(r, <<"last">>)
      /\ worker' = [worker EXCEPT ![r] = "done"]
      /\ passed[r] = produced[r] /\ thread[r] = "ended"
      /\ UNCHANGED <<handler, token, sent, saved, sendFailed, left, pump, hand,
                     thread, produced, lock, stopped, passed>>
    BY DEF IInv, FinishStream, chat, link, engine
<1>2. /\ wire' \in [Requests -> Seq(Tokens)]
      /\ \A q \in Requests \ {r} : wire'[q] = wire[q]
      /\ ChunksFirst(wire[r]) /\ ChunksFirst(wire'[r])
      /\ wire[r] # <<>> => LastOf(wire[r]) = "chunk"
      /\ Cancelled(r) => wire'[r] = wire[r]
      /\ ~Cancelled(r) =>
           /\ wire'[r] # <<>> /\ LastOf(wire'[r]) = "last"
           /\ ChunksIn(wire'[r]) = ChunksIn(wire[r]) + 0
      /\ ChunksIn(wire'[r]) \in Nat
    BY <1>1, RespondKeepsWire DEF Tokens
<1>3. WireOK(r)'
    BY <1>1, <1>2 DEF IInv, TypeOK, FlowOK, WireOK
<1>4. Arriving(r)' = Arriving(r)
    <2>1. InHandler(r)' = InHandler(r) /\ InPump(r)' = InPump(r) /\ sent'[r] = sent[r]
        BY <1>1 DEF InHandler, InPump
    <2> QED BY <1>2, <2>1, <1>0 DEF TypesAt, IInv, Arriving
<1>5. CountOK(r)'
    <2>1. LastOut(r)' => ~Cancelled(r) \/ LastOut(r)
        BY <1>1, <1>2 DEF LastOut
    <2> QED BY <1>1, <1>2, <1>4, <2>1, <1>0
            DEF TypesAt, IInv, TypeOK, FlowOK, WireOK, CountOK, LastOut, Ended, Cancelled
<1>6. EndOK(r)' /\ FlowOK(r)'
    BY <1>1, <1>3, <1>5 DEF FlowOK, EndOK, Ended
<1>7. TypeOK'
    <2>1. /\ wire' \in [Requests -> Seq(Tokens)]
          /\ worker' \in [Requests ->
               {"none", "queued", "reading", "streaming", "done", "killed"}]
          /\ passed' \in [Requests -> 0 .. Chunks]
        BY <1>1, <1>2, <1>0 DEF TypesAt, IInv, TypeOK
    <2> QED BY <1>1, <2>1 DEF IInv, TypeOK
<1>8. \A q \in Requests : FlowOK(q)'
    BY <1>1, <1>2, <1>6, OnlyOne DEF IInv, TypeOK
<1> QED BY <1>7, <1>8

\* The worker's generator raises.
LEMMA GenerateRaisesKeeps ==
    ASSUME IInv, NEW r \in Requests, GenerateRaises(r)
    PROVE  TypeOK' /\ \A q \in Requests : FlowOK(q)'
<1>0. TypesAt(r)
    BY TypesOf DEF IInv
<1>1. /\ FlowOK(r) /\ worker[r] = "streaming" /\ Respond(r, <<"error">>)
      /\ worker' = [worker EXCEPT ![r] = "done"]
      /\ UNCHANGED <<handler, token, sent, saved, sendFailed, left, pump, hand,
                     thread, produced, lock, stopped, passed>>
    BY DEF IInv, GenerateRaises, chat, link, engine
<1>2. /\ wire' \in [Requests -> Seq(Tokens)]
      /\ \A q \in Requests \ {r} : wire'[q] = wire[q]
      /\ ChunksFirst(wire[r]) /\ ChunksFirst(wire'[r])
      /\ wire[r] # <<>> => LastOf(wire[r]) = "chunk"
      /\ Cancelled(r) => wire'[r] = wire[r]
      /\ ~Cancelled(r) =>
           /\ wire'[r] # <<>> /\ LastOf(wire'[r]) = "error"
           /\ ChunksIn(wire'[r]) = ChunksIn(wire[r]) + 0
      /\ ChunksIn(wire'[r]) \in Nat
    BY <1>1, RespondKeepsWire DEF Tokens
<1>3. WireOK(r)'
    BY <1>1, <1>2 DEF IInv, TypeOK, FlowOK, WireOK
<1>4. Arriving(r)' = Arriving(r)
    <2>1. InHandler(r)' = InHandler(r) /\ InPump(r)' = InPump(r) /\ sent'[r] = sent[r]
        BY <1>1 DEF InHandler, InPump
    <2> QED BY <1>2, <2>1, <1>0 DEF TypesAt, IInv, Arriving
<1>5. CountOK(r)'
    <2>1. LastOut(r)' => ~Cancelled(r) \/ LastOut(r)
        BY <1>1, <1>2 DEF LastOut
    <2> QED BY <1>1, <1>2, <1>4, <2>1, <1>0
            DEF TypesAt, IInv, TypeOK, FlowOK, WireOK, CountOK, LastOut, Ended, Cancelled
<1>6. EndOK(r)' /\ FlowOK(r)'
    BY <1>1, <1>3, <1>5 DEF FlowOK, EndOK, Ended
<1>7. TypeOK'
    <2>1. /\ wire' \in [Requests -> Seq(Tokens)]
          /\ worker' \in [Requests ->
               {"none", "queued", "reading", "streaming", "done", "killed"}]
          /\ passed' \in [Requests -> 0 .. Chunks]
        BY <1>1, <1>2, <1>0 DEF TypesAt, IInv, TypeOK
    <2> QED BY <1>1, <2>1 DEF IInv, TypeOK
<1>8. \A q \in Requests : FlowOK(q)'
    BY <1>1, <1>2, <1>6, OnlyOne DEF IInv, TypeOK
<1> QED BY <1>7, <1>8

\* The thread takes the lock.
LEMMA AcquireLockKeeps ==
    ASSUME IInv, NEW r \in Requests, AcquireLock(r)
    PROVE  TypeOK' /\ \A q \in Requests : FlowOK(q)'
<1> USE AcquireLock(r) DEF AcquireLock, chat, link
<1>0. TypesAt(r)
    BY TypesOf DEF IInv
<1>1. FlowOK(r)
    BY DEF IInv
<1>2. Arriving(r)' = Arriving(r)
    BY <1>0 DEF TypesAt, IInv, TypeOK, Arriving, InHandler, InPump
<1>3. WireOK(r)'
    BY <1>1 DEF IInv, TypeOK, FlowOK, WireOK
<1>4. CountOK(r)'
    BY <1>1, <1>2, <1>0 DEF TypesAt, IInv, TypeOK, FlowOK, WireOK, CountOK, EndOK, LastOut,
       Ended, Cancelled
<1>5. EndOK(r)'
    BY <1>1, <1>2, <1>0 DEF TypesAt, IInv, TypeOK, FlowOK, WireOK, CountOK, EndOK, LastOut,
       Arriving, InHandler, InPump, ChunksIn, Ended, Tokens
<1>6. TypeOK'
    <2> DEFINE Running == {q \in Requests : thread[q] = "running"}
    <2>1. \A q \in Requests : q \in Running <=> q = lock
        <3> HIDE DEF Running
        <3> QED BY Holder DEF IInv, TypeOK, Running
    <2>2. lock' \in Requests \cup {None} /\ Running' \subseteq Requests
        BY DEF IInv, TypeOK
    <2>3. \A q \in Requests : q \in Running' <=> q = lock'
        <3>1. \A q \in Requests :
                 thread'[q] = "running" <=> q = lock'
            BY <2>1, BoundsAssumption DEF IInv, TypeOK
        <3> QED BY <3>1
    <2>4. Running' = {lock'} \ {None}
        <3> HIDE DEF Running
        <3> QED BY <2>2, <2>3, Holder
    <2> QED BY <2>2, <2>4 DEF IInv, TypeOK
<1>7. \A q \in Requests : FlowOK(q)'
    BY <1>3, <1>4, <1>5, OnlyOne DEF IInv, TypeOK, FlowOK
<1> QED BY <1>6, <1>7

\* The thread makes a chunk.
LEMMA ProduceChunkKeeps ==
    ASSUME IInv, NEW r \in Requests, ProduceChunk(r)
    PROVE  TypeOK' /\ \A q \in Requests : FlowOK(q)'
<1> USE ProduceChunk(r) DEF ProduceChunk, chat, link
<1>0. TypesAt(r)
    BY TypesOf DEF IInv
<1>1. FlowOK(r)
    BY DEF IInv
<1>2. Arriving(r)' = Arriving(r)
    BY <1>0 DEF TypesAt, IInv, TypeOK, Arriving, InHandler, InPump
<1>3. WireOK(r)'
    BY <1>1 DEF IInv, TypeOK, FlowOK, WireOK
<1>4. CountOK(r)'
    BY <1>1, <1>2, <1>0 DEF TypesAt, IInv, TypeOK, FlowOK, WireOK, CountOK, EndOK, LastOut,
       Ended, Cancelled
<1>5. EndOK(r)'
    BY <1>1, <1>2, <1>0 DEF TypesAt, IInv, TypeOK, FlowOK, WireOK, CountOK, EndOK, LastOut,
       Arriving, InHandler, InPump, ChunksIn, Ended, Tokens
<1>6. TypeOK'
    BY BoundsAssumption DEF IInv, TypeOK
<1>7. \A q \in Requests : FlowOK(q)'
    BY <1>3, <1>4, <1>5, OnlyOne DEF IInv, TypeOK, FlowOK
<1> QED BY <1>6, <1>7

\* The thread ends.
LEMMA EndGenerationKeeps ==
    ASSUME IInv, NEW r \in Requests, EndGeneration(r)
    PROVE  TypeOK' /\ \A q \in Requests : FlowOK(q)'
<1> USE EndGeneration(r) DEF EndGeneration, chat, link
<1>0. TypesAt(r)
    BY TypesOf DEF IInv
<1>1. FlowOK(r)
    BY DEF IInv
<1>2. Arriving(r)' = Arriving(r)
    BY <1>0 DEF TypesAt, IInv, TypeOK, Arriving, InHandler, InPump
<1>3. WireOK(r)'
    BY <1>1 DEF IInv, TypeOK, FlowOK, WireOK
<1>4. CountOK(r)'
    BY <1>1, <1>2, <1>0 DEF TypesAt, IInv, TypeOK, FlowOK, WireOK, CountOK, EndOK, LastOut,
       Ended, Cancelled
<1>5. EndOK(r)'
    BY <1>1, <1>2, <1>0 DEF TypesAt, IInv, TypeOK, FlowOK, WireOK, CountOK, EndOK, LastOut,
       Arriving, InHandler, InPump, ChunksIn, Ended, Tokens
<1>6. TypeOK'
    <2> DEFINE Running == {q \in Requests : thread[q] = "running"}
    <2>1. \A q \in Requests : q \in Running <=> q = lock
        <3> HIDE DEF Running
        <3> QED BY Holder DEF IInv, TypeOK, Running
    <2>2. lock' \in Requests \cup {None} /\ Running' \subseteq Requests
        BY DEF IInv, TypeOK
    <2>3. \A q \in Requests : q \in Running' <=> q = lock'
        <3>1. \A q \in Requests :
                 thread'[q] = "running" <=> q = lock'
            BY <2>1, BoundsAssumption DEF IInv, TypeOK
        <3> QED BY <3>1
    <2>4. Running' = {lock'} \ {None}
        <3> HIDE DEF Running
        <3> QED BY <2>2, <2>3, Holder
    <2> QED BY <2>2, <2>4 DEF IInv, TypeOK
<1>7. \A q \in Requests : FlowOK(q)'
    BY <1>3, <1>4, <1>5, OnlyOne DEF IInv, TypeOK, FlowOK
<1> QED BY <1>6, <1>7

\* The thread dies.
LEMMA ThreadDiesKeeps ==
    ASSUME IInv, NEW r \in Requests, ThreadDies(r)
    PROVE  TypeOK' /\ \A q \in Requests : FlowOK(q)'
<1> USE ThreadDies(r) DEF ThreadDies, chat, link
<1>0. TypesAt(r)
    BY TypesOf DEF IInv
<1>1. FlowOK(r)
    BY DEF IInv
<1>2. Arriving(r)' = Arriving(r)
    BY <1>0 DEF TypesAt, IInv, TypeOK, Arriving, InHandler, InPump
<1>3. WireOK(r)'
    BY <1>1 DEF IInv, TypeOK, FlowOK, WireOK
<1>4. CountOK(r)'
    BY <1>1, <1>2, <1>0 DEF TypesAt, IInv, TypeOK, FlowOK, WireOK, CountOK, EndOK, LastOut,
       Ended, Cancelled
<1>5. EndOK(r)'
    BY <1>1, <1>2, <1>0 DEF TypesAt, IInv, TypeOK, FlowOK, WireOK, CountOK, EndOK, LastOut,
       Arriving, InHandler, InPump, ChunksIn, Ended, Tokens
<1>6. TypeOK'
    <2> DEFINE Running == {q \in Requests : thread[q] = "running"}
    <2>1. \A q \in Requests : q \in Running <=> q = lock
        <3> HIDE DEF Running
        <3> QED BY Holder DEF IInv, TypeOK, Running
    <2>2. lock' \in Requests \cup {None} /\ Running' \subseteq Requests
        BY DEF IInv, TypeOK
    <2>3. \A q \in Requests : q \in Running' <=> q = lock'
        <3>1. \A q \in Requests :
                 thread'[q] = "running" <=> q = lock'
            BY <2>1, BoundsAssumption DEF IInv, TypeOK
        <3> QED BY <3>1
    <2>4. Running' = {lock'} \ {None}
        <3> HIDE DEF Running
        <3> QED BY <2>2, <2>3, Holder
    <2> QED BY <2>2, <2>4 DEF IInv, TypeOK
<1>7. \A q \in Requests : FlowOK(q)'
    BY <1>3, <1>4, <1>5, OnlyOne DEF IInv, TypeOK, FlowOK
<1> QED BY <1>6, <1>7

\* The server stops.
LEMMA StopServerKeeps ==
    ASSUME IInv, StopServer
    PROVE  TypeOK' /\ \A q \in Requests : FlowOK(q)'
<1> USE StopServer DEF StopServer, chat, link
<1>1. TypeOK'
    BY DEF IInv, TypeOK, Tokens
<1>2. ASSUME NEW q \in Requests PROVE FlowOK(q)'
    <2>1. TypesAt(q) /\ FlowOK(q)
        BY TypesOf DEF IInv
    <2> QED BY <2>1 DEF IInv, TypeOK, TypesAt, FlowOK, WireOK, CountOK, EndOK, Arriving,
                InHandler, InPump, LastOut, Ended, Cancelled
<1> QED BY <1>1, <1>2

-----------------------------------------------------------------------------
LEMMA InitIInv == Init => IInv
<1> SUFFICES ASSUME Init PROVE IInv
    OBVIOUS
<1> USE BoundsAssumption DEF Init
<1>1. TypeOK
    <2>1. wire \in [Requests -> Seq(Tokens)]
        OBVIOUS
    <2>2. {r \in Requests : thread[r] = "running"} = {lock} \ {None}
        OBVIOUS
    <2>3. 0 \in 0 .. Chunks
        OBVIOUS
    <2> QED BY <2>1, <2>2, <2>3 DEF TypeOK, Tokens
<1>2. ASSUME NEW r \in Requests PROVE FlowOK(r)
    BY DEF FlowOK, WireOK, ChunksFirst, CountOK, EndOK, Arriving, InHandler, InPump,
       ChunksIn, LastOut, Ended, Cancelled
<1> QED BY <1>1, <1>2 DEF IInv

LEMMA StepKeeps == IInv /\ [Next]_vars => IInv'
<1> SUFFICES ASSUME IInv, [Next]_vars PROVE IInv'
    OBVIOUS
<1>1. ASSUME NEW r \in Requests, StreamChat(r) \/ Pump(r) PROVE IInv'
    BY <1>1, TakeTokenKeeps, SendTokenKeeps, SendTokenFailsKeeps, SaveAnswerKeeps,
       RecvTokenKeeps, RecvFailsKeeps DEF StreamChat, Pump, IInv
<1>2. ASSUME NEW r \in Requests, StreamInference(r) \/ Generate(r) PROVE IInv'
    BY <1>2, ReadRequestKeeps, ReadCancelledKeeps, PassChunkKeeps, FinishStreamKeeps,
       AcquireLockKeeps, ProduceChunkKeeps, EndGenerationKeeps
       DEF StreamInference, Generate, IInv
<1>3. ASSUME NEW r \in Requests,
             Start(r) \/ ClientLeaves(r) \/ AcceptRequest(r) \/ GenerateRaises(r)
               \/ ThreadDies(r)
      PROVE  IInv'
    BY <1>3, StartKeeps, ClientLeavesKeeps, AcceptRequestKeeps, GenerateRaisesKeeps,
       ThreadDiesKeeps DEF IInv
<1>4. ASSUME StopServer PROVE IInv'
    BY <1>4, StopServerKeeps DEF IInv
<1>5. ASSUME UNCHANGED vars PROVE IInv'
    <2>1. TypeOK'
        BY <1>5 DEF IInv, TypeOK, vars, chat, link, engine
    <2>2. ASSUME NEW q \in Requests PROVE FlowOK(q)'
        BY <1>5, FlowFrame DEF IInv, vars, chat, link, engine
    <2> QED BY <2>1, <2>2 DEF IInv
<1> QED BY <1>1, <1>2, <1>3, <1>4, <1>5 DEF Next

LEMMA SpecIInv == Spec => []IInv
BY InitIInv, StepKeeps, PTL DEF Spec

\* Every variable of a stream keeps its type for any number of requests and any
\* length of the answers; no more is sent than an answer has, and HFEngine's lock
\* is held by the thread that runs and by no other.
THEOREM TypeCorrect == Spec => []TypeOK
<1>1. IInv => TypeOK
    BY DEF IInv
<1> QED BY <1>1, SpecIInv, PTL

\* StreamChat saves an answer only if it is whole and its final signal has come,
\* whatever fails, stops or leaves half way.
THEOREM OnlyWholeAnswersSaved == Spec => []SavedIsWhole
<1>1. IInv => SavedIsWhole
    BY DEF IInv, FlowOK, EndOK, SavedIsWhole
<1> QED BY <1>1, SpecIInv, PTL

\* The goroutine of GetGeneratedToken is left behind, blocked on its channel, only
\* by a handler whose Send to the client failed.
THEOREM PumpsEndWithHandlers == Spec => []PumpLeakedOnlyBySend
<1>1. IInv => PumpLeakedOnlyBySend
    BY DEF IInv, FlowOK, EndOK, PumpLeakedOnlyBySend
<1> QED BY <1>1, SpecIInv, PTL
=============================================================================
