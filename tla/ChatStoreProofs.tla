-------------------------- MODULE ChatStoreProofs --------------------------
(* The chat store for any number of requests, sessions and messages.        *)
EXTENDS ChatStore, TLAPS

-----------------------------------------------------------------------------
(* What is known of a call by where it is.                                  *)

SavePlaces == {"cacheItem", "sendEvent", "insertRow"}
LookupPlaces == {"cacheSession", "dbSession"}
DeletePlaces == {"cacheOwner", "dbOwner", "uncache", "unlist",
                 "deleteMessages", "deleteSession"}

\* A save is of an id that was given out and not yet acknowledged; a deletion is
\* of a session that counts as touched, and once past the messages, those acked
\* before it began are out of the database.
CallOK(c) ==
    /\ c.at \in SavePlaces => c.item \in issued \ acked
    /\ c.at \in LookupPlaces => c.item \in Sessions /\ c.op \in {"history", "delete"}
    /\ c.at \in DeletePlaces => c.item \in Sessions /\ c.op = "delete"
    /\ c.op = "delete" => c.item \in touched
    /\ c.before \subseteq acked
    /\ c.at = "deleteSession" =>
          \A m \in MessagesOf(c.item) \cap c.before : row[m] # "live"

CallsOK == \A w \in Workers : CallOK(call[w])

\* No two requests save the same item.
OneSaver ==
    \A v, w \in Workers :
        v # w /\ call[v].at \in SavePlaces /\ call[w].at \in SavePlaces =>
            call[v].item # call[w].item

DoomedAcked == doomed \subseteq acked
BackfillIssued == \A x \in Items : backfill[x] > 0 => x \in issued

Inv == CallsOK /\ OneSaver /\ DoomedAcked /\ BackfillIssued /\ DeleteCascades
IInv == TypeOK /\ Inv

\* A step of one request, as far as the other calls depend on it: it
\* acknowledges and inserts no item but the one it saves.
WorkerStep(w) ==
    /\ call' \in [Workers -> Calls]
    /\ \A v \in Workers \ {w} : call'[v] = call[v]
    /\ CallOK(call[w])'
    /\ call'[w].at \in SavePlaces =>
          \/ call[w].at \in SavePlaces /\ call'[w].item = call[w].item
          \/ call'[w].item \notin issued
    /\ issued \subseteq issued' /\ touched \subseteq touched' /\ acked \subseteq acked'
    /\ \A x \in acked' \ acked : call[w].at \in SavePlaces /\ x = call[w].item
    /\ \A x \in Items :
          row'[x] = "live" =>
             \/ row[x] = "live"
             \/ call[w].at \in SavePlaces /\ x = call[w].item
    /\ \A m \in doomed' \ doomed : m \in acked /\ row'[m] # "live"
    /\ \A x \in Items : backfill'[x] > 0 => backfill[x] > 0 \/ x \in issued

\* Such a step keeps what is known of the calls.
LEMMA WorkerStepKeeps ==
    ASSUME IInv, NEW w \in Workers, WorkerStep(w)
    PROVE  Inv'
<1> USE DEF IInv, Inv
<1>1. CallsOK'
  <2> SUFFICES ASSUME NEW v \in Workers PROVE CallOK(call[v])'
    BY DEF CallsOK
  <2>1. CASE v = w
    BY <2>1 DEF WorkerStep
  <2>2. CASE v # w
    <3>1. call'[v] = call[v] /\ CallOK(call[v])
      BY <2>2 DEF WorkerStep, CallsOK
    <3>2. call[v].at \in SavePlaces => call[v].item \notin acked' \ acked
      BY <2>2 DEF WorkerStep, OneSaver
    <3>3. \A m \in acked : row'[m] = "live" => row[m] = "live"
      BY DEF WorkerStep, CallsOK, CallOK, TypeOK
    <3> QED BY <3>1, <3>2, <3>3 DEF CallOK, WorkerStep, MessagesOf
  <2> QED BY <2>1, <2>2
<1>2. OneSaver'
  <2> SUFFICES ASSUME NEW u \in Workers, NEW v \in Workers, u # v,
                      call'[u].at \in SavePlaces, call'[v].at \in SavePlaces
               PROVE  call'[u].item # call'[v].item
    BY DEF OneSaver
  <2>1. CASE u # w /\ v # w
    BY <2>1 DEF WorkerStep, OneSaver
  <2>2. CASE u = w
    BY <2>2 DEF WorkerStep, OneSaver, CallsOK, CallOK
  <2>3. CASE v = w
    BY <2>3 DEF WorkerStep, OneSaver, CallsOK, CallOK
  <2> QED BY <2>1, <2>2, <2>3
<1>3. DoomedAcked' /\ DeleteCascades'
  <2>1. \A m \in acked : row'[m] = "live" => row[m] = "live"
    BY DEF WorkerStep, CallsOK, CallOK, TypeOK
  <2> QED BY <2>1 DEF WorkerStep, DoomedAcked, DeleteCascades
<1>4. BackfillIssued'
  BY DEF WorkerStep, BackfillIssued
<1> QED BY <1>1, <1>2, <1>3, <1>4

-----------------------------------------------------------------------------
(* How the steps change a call.                                             *)

\* The call goes on at another place.
LEMMA GotoChanges ==
    ASSUME TypeOK, NEW w \in Workers, NEW place \in Places, Goto(w, place)
    PROVE  /\ call' \in [Workers -> Calls]
           /\ \A v \in Workers \ {w} : call'[v] = call[v]
           /\ call'[w] = [call[w] EXCEPT !.at = place]
BY DEF Goto, TypeOK, Calls

\* The call is over.
LEMMA EndChanges ==
    ASSUME TypeOK, NEW w \in Workers, End(w)
    PROVE  /\ call' \in [Workers -> Calls]
           /\ \A v \in Workers \ {w} : call'[v] = call[v]
           /\ call'[w] = NoCall
<1>1. NoCall \in Calls
  BY DEF NoCall, Calls, Ops, Places
<1> QED BY <1>1 DEF End, TypeOK

\* The call is over and its answer is kept.
LEMMA AnswerChanges ==
    ASSUME TypeOK, NEW w \in Workers, NEW S \in SUBSET Items, Answer(w, S)
    PROVE  /\ call' \in [Workers -> Calls]
           /\ \A v \in Workers \ {w} : call'[v] = call[v]
           /\ call'[w].at = "answered" /\ call'[w].op = "none"
           /\ call'[w].before = {}
<1>1. [NoCall EXCEPT !.at = "answered", !.page = S] \in Calls
  BY DEF NoCall, Calls, Ops, Places
<1>2. /\ [NoCall EXCEPT !.at = "answered", !.page = S].at = "answered"
      /\ [NoCall EXCEPT !.at = "answered", !.page = S].op = "none"
      /\ [NoCall EXCEPT !.at = "answered", !.page = S].before = {}
  BY DEF NoCall
<1> QED BY <1>1, <1>2 DEF Answer, TypeOK

\* A request that asks for nothing is as it should be.
LEMMA IdleOK ==
    ASSUME NEW c, c.at \in {"idle", "answered"}, c.op = "none", c.before = {}
    PROVE  CallOK(c)
BY DEF CallOK, SavePlaces, LookupPlaces, DeletePlaces

\* The list of a call is of items.
LEMMA ListForItems ==
    ASSUME NEW w \in Workers PROVE ListFor(w) \subseteq Items
BY DEF ListFor, MessagesOf, Items

-----------------------------------------------------------------------------
(* The calls begin.                                                         *)

\* A new call has the type of a call.
LEMMA BeginChanges ==
    ASSUME TypeOK, NEW w \in Workers, NEW op \in Ops, NEW x \in Items \cup {None},
           NEW o \in BOOLEAN, NEW place \in Places, Begin(w, op, x, o, place)
    PROVE  /\ call' \in [Workers -> Calls]
           /\ \A v \in Workers \ {w} : call'[v] = call[v]
           /\ call'[w] = Call(op, x, o, place)
<1>1. Call(op, x, o, place) \in Calls
  BY DEF Call, Calls, TypeOK
<1> QED BY <1>1 DEF Begin, TypeOK

\* An id is given out once, so its save is the only one.
LEMMA BeginSaveKeeps ==
    ASSUME IInv, NEW w \in Workers, NEW x \in Items, BeginSave(w, x)
    PROVE  IInv'
<1> USE DEF IInv
<1>1. /\ call' \in [Workers -> Calls]
      /\ \A v \in Workers \ {w} : call'[v] = call[v]
      /\ call'[w] = Call("save", x, TRUE, "cacheItem")
  <2>1. Begin(w, "save", x, TRUE, "cacheItem")
    BY DEF BeginSave
  <2>2. "save" \in Ops /\ "cacheItem" \in Places /\ TRUE \in BOOLEAN
    BY DEF Ops, Places
  <2> QED
    BY <2>1, <2>2, BeginChanges
<1>2. /\ x \notin issued /\ issued' = issued \cup {x}
      /\ UNCHANGED <<keys, listed, row, queue, backfill, acked, gone, doomed, touched>>
  BY DEF BeginSave, Begin, redis
<1>3. TypeOK'
  BY <1>1, <1>2 DEF TypeOK
<1>4. call'[w].at = "cacheItem" /\ call'[w].item = x /\ call'[w].op = "save"
      /\ call'[w].before = {}
  BY <1>1 DEF Call
<1>5. WorkerStep(w)
  BY <1>1, <1>2, <1>4
     DEF WorkerStep, CallOK, SavePlaces, LookupPlaces, DeletePlaces, TypeOK
<1> QED BY <1>3, <1>5, WorkerStepKeeps

\* The calls that read, and the deletion.
LEMMA BeginOtherKeeps ==
    ASSUME IInv, NEW w \in Workers,
           \/ \E s \in Sessions : BeginHistory(w, s)
           \/ BeginSessions(w)
           \/ \E s \in Sessions, o \in BOOLEAN : BeginDelete(w, s, o)
    PROVE  IInv'
<1> USE DEF IInv
<1>1. PICK op \in {"history", "sessions", "delete"}, x \in Sessions \cup {None},
           o \in BOOLEAN, place \in {"cacheSession", "cacheList"} :
         /\ Begin(w, op, x, o, place)
         /\ place = "cacheSession" => x \in Sessions /\ op \in {"history", "delete"}
         /\ touched' = touched \cup (IF op = "delete" THEN {x} ELSE {})
         /\ op = "delete" => x \in Sessions
  BY DEF BeginHistory, BeginSessions, BeginDelete
<1>2. op \in Ops /\ x \in Items \cup {None} /\ place \in Places
  BY <1>1 DEF Ops, Items, Places
<1>3. /\ call' \in [Workers -> Calls]
      /\ \A v \in Workers \ {w} : call'[v] = call[v]
      /\ call'[w] = Call(op, x, o, place)
  BY <1>1, <1>2, BeginChanges
<1>4. UNCHANGED <<keys, listed, row, queue, backfill, acked, gone, doomed, issued>>
  BY DEF BeginHistory, BeginSessions, BeginDelete, Begin, redis
<1>5. TypeOK'
  BY <1>1, <1>3, <1>4 DEF TypeOK
<1>6. call'[w].at = place /\ call'[w].item = x /\ call'[w].op = op
      /\ call'[w].before = acked
  BY <1>1, <1>3 DEF Call
<1>7. WorkerStep(w)
  BY <1>1, <1>3, <1>4, <1>6
     DEF WorkerStep, CallOK, SavePlaces, LookupPlaces, DeletePlaces
<1> QED BY <1>5, <1>7, WorkerStepKeeps

-----------------------------------------------------------------------------
(* A save.                                                                  *)

LEMMA SaveKeeps ==
    ASSUME IInv, NEW w \in Workers, Save(w)
    PROVE  IInv'
<1> USE DEF IInv
<1>1. CallOK(call[w])
  BY DEF Inv, CallsOK
<1>2. CASE CacheItem(w)
  <2>1. PICK place \in {"sendEvent", "insertRow"} : Goto(w, place)
    BY <1>2 DEF CacheItem
  <2>2. /\ At(w, "cacheItem") /\ UNCHANGED <<row, queue, backfill, history>>
        /\ keys' \subseteq keys \cup {call[w].item}
        /\ listed' \subseteq listed \cup {call[w].item}
    BY <1>2 DEF CacheItem, redis
  <2>3. /\ call' \in [Workers -> Calls]
        /\ \A v \in Workers \ {w} : call'[v] = call[v]
        /\ call'[w] = [call[w] EXCEPT !.at = place]
    <3>1. place \in Places
      BY DEF Places
    <3> QED
      BY <2>1, <3>1, GotoChanges
  <2>4. call[w].item \in issued
    BY <1>1, <2>2 DEF CallOK, At, SavePlaces
  <2>5. TypeOK'
    BY <2>2, <2>3, <2>4 DEF TypeOK, history
  <2>6. /\ call'[w].at = place /\ call'[w].item = call[w].item
        /\ call'[w].op = call[w].op /\ call'[w].before = call[w].before
    BY <2>3 DEF TypeOK, Calls
  <2>7. CallOK(call[w])'
    BY <1>1, <2>2, <2>6
       DEF CallOK, At, SavePlaces, LookupPlaces, DeletePlaces, history
  <2>8. WorkerStep(w)
    BY <2>2, <2>3, <2>6, <2>7 DEF WorkerStep, At, SavePlaces, history
  <2> QED BY <2>5, <2>8, WorkerStepKeeps
<1>3. CASE SendEvent(w)
  <2>1. /\ At(w, "sendEvent") /\ queue' = queue \cup {call[w].item}
        /\ acked' = acked \cup {call[w].item}
        /\ UNCHANGED <<keys, listed, row, backfill, issued, touched, gone, doomed>>
    BY <1>3 DEF SendEvent, redis
  <2>2. /\ call' \in [Workers -> Calls]
        /\ \A v \in Workers \ {w} : call'[v] = call[v]
        /\ call'[w] = NoCall
    BY <1>3, EndChanges DEF SendEvent
  <2>3. call[w].item \in issued
    BY <1>1, <2>1 DEF CallOK, At, SavePlaces
  <2>4. TypeOK'
    BY <2>1, <2>2, <2>3 DEF TypeOK
  <2>5. CallOK(call[w])' /\ call'[w].at = "idle"
    BY <2>2 DEF NoCall, CallOK, SavePlaces, LookupPlaces, DeletePlaces
  <2>6. WorkerStep(w)
    BY <2>1, <2>2, <2>5 DEF WorkerStep, At, SavePlaces
  <2> QED BY <2>4, <2>6, WorkerStepKeeps
<1>4. CASE SendEventFails(w)
  <2>1. /\ At(w, "sendEvent") /\ queue' \subseteq queue \cup {call[w].item}
        /\ UNCHANGED <<keys, listed, row, backfill, history>>
    BY <1>4 DEF SendEventFails, redis
  <2>2. /\ call' \in [Workers -> Calls]
        /\ \A v \in Workers \ {w} : call'[v] = call[v]
        /\ call'[w] = [call[w] EXCEPT !.at = "insertRow"]
    BY <1>4, GotoChanges DEF SendEventFails, Places
  <2>3. call[w].item \in issued
    BY <1>1, <2>1 DEF CallOK, At, SavePlaces
  <2>4. TypeOK'
    BY <2>1, <2>2, <2>3 DEF TypeOK, history
  <2>5. /\ call'[w].at = "insertRow" /\ call'[w].item = call[w].item
        /\ call'[w].op = call[w].op /\ call'[w].before = call[w].before
    BY <2>2 DEF TypeOK, Calls
  <2>6. CallOK(call[w])'
    BY <1>1, <2>1, <2>5
       DEF CallOK, At, SavePlaces, LookupPlaces, DeletePlaces, history
  <2>7. WorkerStep(w)
    BY <2>1, <2>2, <2>5, <2>6 DEF WorkerStep, At, SavePlaces, history
  <2> QED BY <2>4, <2>7, WorkerStepKeeps
<1>5. CASE InsertRow(w)
  <2>1. /\ At(w, "insertRow")
        /\ \/ /\ row' = [row EXCEPT ![call[w].item] = "live"]
              /\ acked' = acked \cup {call[w].item}
           \/ UNCHANGED <<row, acked>>
        /\ UNCHANGED <<keys, listed, queue, backfill, issued, touched, gone, doomed>>
    BY <1>5 DEF InsertRow, redis
  <2>2. /\ call' \in [Workers -> Calls]
        /\ \A v \in Workers \ {w} : call'[v] = call[v]
        /\ call'[w] = NoCall
    BY <1>5, EndChanges DEF InsertRow
  <2>3. call[w].item \in issued /\ call[w].item \in Items
    BY <1>1, <2>1 DEF CallOK, At, SavePlaces, TypeOK
  <2>4. TypeOK'
    BY <2>1, <2>2, <2>3 DEF TypeOK
  <2>5. CallOK(call[w])' /\ call'[w].at = "idle"
    BY <2>2 DEF NoCall, CallOK, SavePlaces, LookupPlaces, DeletePlaces
  <2>6. \A x \in Items : row'[x] = "live" => row[x] = "live" \/ x = call[w].item
    BY <2>1 DEF TypeOK
  <2>7. acked \subseteq acked' /\ acked' \ acked \subseteq {call[w].item}
    BY <2>1
  <2>8. WorkerStep(w)
    BY <2>1, <2>2, <2>5, <2>6, <2>7 DEF WorkerStep, At, SavePlaces
  <2> QED BY <2>4, <2>8, WorkerStepKeeps
<1> QED BY <1>2, <1>3, <1>4, <1>5 DEF Save

-----------------------------------------------------------------------------
(* The steps that write to no item and acknowledge none.                    *)

\* Such a step keeps the invariant if what it makes of its call is right.
LEMMA QuietStepKeeps ==
    ASSUME IInv, NEW w \in Workers,
           call' \in [Workers -> Calls],
           \A v \in Workers \ {w} : call'[v] = call[v],
           CallOK(call[w])', call'[w].at \notin SavePlaces,
           keys' \subseteq keys, listed' \subseteq listed,
           UNCHANGED <<row, queue, issued, acked, touched, doomed>>,
           gone' \subseteq touched,
           backfill' \in [Items -> 0 .. MaxBackfill],
           \A x \in Items : backfill'[x] > 0 => backfill[x] > 0 \/ row[x] = "live"
    PROVE  IInv'
<1> USE DEF IInv
<1>1. TypeOK'
  BY DEF TypeOK
<1>2. WorkerStep(w)
  BY DEF WorkerStep, TypeOK
<1> QED BY <1>1, <1>2, WorkerStepKeeps

\* A goroutine is started only for items with a live row, within the bound.
LEMMA WriteBackLive ==
    ASSUME TypeOK, NEW S \in SUBSET Items, \A x \in S : row[x] = "live", WriteBack(S)
    PROVE  /\ backfill' \in [Items -> 0 .. MaxBackfill]
           /\ \A x \in Items : backfill'[x] > 0 => backfill[x] > 0 \/ row[x] = "live"
<1>1. MaxBackfill \in Nat
  BY ModeAssumption
<1>2. ASSUME NEW x \in Items
      PROVE  /\ backfill[x] \in 0 .. MaxBackfill
             /\ x \in S => backfill[x] < MaxBackfill
  BY DEF TypeOK, WriteBack
<1>3. ASSUME NEW x \in Items
      PROVE  backfill[x] + (IF x \in S THEN 1 ELSE 0) \in 0 .. MaxBackfill
  BY <1>1, <1>2
<1>4. backfill' = [x \in Items |-> backfill[x] + (IF x \in S THEN 1 ELSE 0)]
  BY DEF WriteBack
<1>5. \A x \in Items : x \notin S => backfill'[x] = backfill[x]
  BY <1>2, <1>4
<1> QED BY <1>3, <1>4, <1>5

\* What follows a session that was found is right for the call.
LEMMA WithSessionOK ==
    ASSUME IInv, NEW w \in Workers, WithSession(w), call[w].at \in LookupPlaces,
           UNCHANGED <<row, issued, acked, touched>>
    PROVE  /\ call' \in [Workers -> Calls]
           /\ \A v \in Workers \ {w} : call'[v] = call[v]
           /\ CallOK(call[w])' /\ call'[w].at \notin SavePlaces
<1> USE DEF IInv
<1>1. CallOK(call[w]) /\ call[w] \in Calls
  BY DEF Inv, CallsOK, TypeOK
<1>2. CASE \E place \in {"cacheList", "cacheOwner"} :
             Goto(w, place) /\ (place = "cacheOwner" => call[w].op = "delete")
  <2>1. PICK place \in {"cacheList", "cacheOwner"} :
          Goto(w, place) /\ (place = "cacheOwner" => call[w].op = "delete")
    BY <1>2
  <2>2. /\ call' \in [Workers -> Calls]
        /\ \A v \in Workers \ {w} : call'[v] = call[v]
        /\ call'[w] = [call[w] EXCEPT !.at = place]
    <3>1. place \in Places /\ TypeOK
      BY DEF Places
    <3> QED BY <2>1, <3>1, GotoChanges
  <2>3. /\ call'[w].at = place /\ call'[w].item = call[w].item
        /\ call'[w].op = call[w].op /\ call'[w].before = call[w].before
    BY <1>1, <2>2 DEF Calls
  <2>4. CallOK(call[w])'
    BY <1>1, <2>1, <2>3 DEF CallOK, SavePlaces, LookupPlaces, DeletePlaces
  <2> QED BY <2>2, <2>3, <2>4 DEF SavePlaces
<1>3. CASE End(w)
  <2>1. /\ call' \in [Workers -> Calls]
        /\ \A v \in Workers \ {w} : call'[v] = call[v]
        /\ call'[w] = NoCall
    BY <1>3, EndChanges
  <2>2. CallOK(call[w])' /\ call'[w].at = "idle"
    BY <2>1 DEF NoCall, CallOK, SavePlaces, LookupPlaces, DeletePlaces
  <2> QED BY <2>1, <2>2 DEF SavePlaces
<1> QED BY <1>2, <1>3 DEF WithSession

LEMMA GetSessionKeeps ==
    ASSUME IInv, NEW w \in Workers, GetSession(w)
    PROVE  IInv'
<1> USE DEF IInv
<1>1. CallOK(call[w]) /\ call[w] \in Calls /\ backfill \in [Items -> 0 .. MaxBackfill]
      /\ gone \subseteq touched
  BY DEF Inv, CallsOK, TypeOK
<1>2. CASE GetSessionFromCache(w)
  <2>1. /\ call[w].at = "cacheSession"
        /\ UNCHANGED <<keys, listed, row, queue, backfill, issued, acked, touched, gone,
                       doomed>>
    BY <1>2 DEF GetSessionFromCache, At, redis, history
  <2>2. CASE WithSession(w)
    <3>1. /\ call' \in [Workers -> Calls]
          /\ \A v \in Workers \ {w} : call'[v] = call[v]
          /\ CallOK(call[w])' /\ call'[w].at \notin SavePlaces
      BY <2>1, <2>2, WithSessionOK DEF LookupPlaces
    <3> QED BY <1>1, <2>1, <3>1, QuietStepKeeps
  <2>3. CASE Goto(w, "dbSession")
    <3>1. /\ call' \in [Workers -> Calls]
          /\ \A v \in Workers \ {w} : call'[v] = call[v]
          /\ call'[w] = [call[w] EXCEPT !.at = "dbSession"]
      BY <2>3, GotoChanges DEF Places
    <3>2. /\ call'[w].at = "dbSession" /\ call'[w].item = call[w].item
          /\ call'[w].op = call[w].op /\ call'[w].before = call[w].before
      BY <1>1, <3>1 DEF Calls
    <3>3. CallOK(call[w])' /\ call'[w].at \notin SavePlaces
      BY <1>1, <2>1, <3>2 DEF CallOK, SavePlaces, LookupPlaces, DeletePlaces
    <3> QED BY <1>1, <2>1, <3>1, <3>3, QuietStepKeeps
  <2> QED BY <1>2, <2>2, <2>3 DEF GetSessionFromCache
<1>3. CASE GetSessionFromDB(w)
  <2>1. /\ call[w].at = "dbSession" /\ WithSession(w)
        /\ row[call[w].item] = "live" /\ WriteBack({call[w].item})
        /\ UNCHANGED <<keys, listed, row, queue, issued, acked, touched, gone, doomed>>
    BY <1>3 DEF GetSessionFromDB, At, redis, history
  <2>2. call[w].item \in Items
    BY <1>1, <2>1 DEF CallOK, LookupPlaces, Items
  <2>3. /\ backfill' \in [Items -> 0 .. MaxBackfill]
        /\ \A x \in Items : backfill'[x] > 0 => backfill[x] > 0 \/ row[x] = "live"
    <3>1. {call[w].item} \in SUBSET Items /\ \A x \in {call[w].item} : row[x] = "live"
      BY <2>1, <2>2
    <3> QED BY <2>1, <3>1, WriteBackLive
  <2>4. /\ call' \in [Workers -> Calls]
        /\ \A v \in Workers \ {w} : call'[v] = call[v]
        /\ CallOK(call[w])' /\ call'[w].at \notin SavePlaces
    BY <2>1, WithSessionOK DEF LookupPlaces
  <2> QED BY <1>1, <2>1, <2>3, <2>4, QuietStepKeeps
<1>4. CASE GetSessionFails(w)
  <2>1. /\ call[w].at = "dbSession" /\ gone' \subseteq touched
        /\ UNCHANGED <<keys, listed, row, queue, backfill, issued, acked, touched,
                       doomed>>
    BY <1>1, <1>4 DEF GetSessionFails, At, redis, CallOK
  <2>2. /\ call' \in [Workers -> Calls]
        /\ \A v \in Workers \ {w} : call'[v] = call[v]
        /\ call'[w] = NoCall
    BY <1>4, EndChanges DEF GetSessionFails
  <2>3. CallOK(call[w])' /\ call'[w].at \notin SavePlaces
    BY <2>2 DEF NoCall, CallOK, SavePlaces, LookupPlaces, DeletePlaces
  <2> QED BY <1>1, <2>1, <2>2, <2>3, QuietStepKeeps
<1> QED BY <1>2, <1>3, <1>4 DEF GetSession

LEMMA GetListKeeps ==
    ASSUME IInv, NEW w \in Workers, GetList(w)
    PROVE  IInv'
<1> USE DEF IInv
<1>1. CallOK(call[w]) /\ call[w] \in Calls /\ backfill \in [Items -> 0 .. MaxBackfill]
      /\ gone \subseteq touched
  BY DEF Inv, CallsOK, TypeOK
<1>2. ASSUME At(w, "cacheList") \/ At(w, "cacheItems"),
             UNCHANGED <<row, issued, acked, touched>>,
             NEW place \in {"cacheItems", "dbList"},
             NEW ids \in SUBSET Items, NEW had \in SUBSET Items,
             call' = [call EXCEPT ![w] =
                        [@ EXCEPT !.at = place, !.ids = ids, !.had = had]]
      PROVE  /\ call' \in [Workers -> Calls]
             /\ \A v \in Workers \ {w} : call'[v] = call[v]
             /\ CallOK(call[w])' /\ call'[w].at \notin SavePlaces
  <2>1. [call[w] EXCEPT !.at = place, !.ids = ids, !.had = had] \in Calls
    BY <1>1 DEF Calls, Places
  <2>2. /\ call' \in [Workers -> Calls]
        /\ \A v \in Workers \ {w} : call'[v] = call[v]
        /\ call'[w] = [call[w] EXCEPT !.at = place, !.ids = ids, !.had = had]
    BY <1>2, <2>1 DEF TypeOK
  <2>3. /\ call'[w].at = place /\ call'[w].item = call[w].item
        /\ call'[w].op = call[w].op /\ call'[w].before = call[w].before
    BY <1>1, <2>2 DEF Calls
  <2>4. CallOK(call[w])' /\ call'[w].at \notin SavePlaces
    BY <1>1, <1>2, <2>3 DEF CallOK, SavePlaces, LookupPlaces, DeletePlaces
  <2> QED BY <2>2, <2>4
<1>3. ASSUME NEW S \in SUBSET Items, Answer(w, S)
      PROVE  /\ call' \in [Workers -> Calls]
             /\ \A v \in Workers \ {w} : call'[v] = call[v]
             /\ CallOK(call[w])' /\ call'[w].at \notin SavePlaces
  <2>1. /\ call' \in [Workers -> Calls]
        /\ \A v \in Workers \ {w} : call'[v] = call[v]
        /\ call'[w].at = "answered" /\ call'[w].op = "none"
        /\ call'[w].before = {}
    BY <1>3, AnswerChanges
  <2>2. CallOK(call[w])' /\ call'[w].at \notin SavePlaces
    BY <2>1 DEF CallOK, SavePlaces, LookupPlaces, DeletePlaces
  <2> QED BY <2>1, <2>2
<1>4. CASE ReadIds(w)
  <2>1. /\ At(w, "cacheList")
        /\ UNCHANGED <<keys, listed, row, queue, backfill, issued, acked, touched, gone,
                       doomed>>
    BY <1>4 DEF ReadIds, redis, history
  <2>2. PICK place \in {"cacheItems", "dbList"}, ids \in SUBSET Items,
             had \in SUBSET Items :
          call' = [call EXCEPT ![w] =
                     [@ EXCEPT !.at = place, !.ids = ids, !.had = had]]
    <3>1. /\ ListFor(w) \cap listed \in SUBSET Items
          /\ call[w].before \cap ListFor(w) \cap keys \in SUBSET Items
      BY ListForItems
    <3> QED BY <1>4, <3>1 DEF ReadIds, Miss
  <2>3. /\ call' \in [Workers -> Calls]
        /\ \A v \in Workers \ {w} : call'[v] = call[v]
        /\ CallOK(call[w])' /\ call'[w].at \notin SavePlaces
    BY <1>2, <2>1, <2>2
  <2> QED BY <1>1, <2>1, <2>3, QuietStepKeeps
<1>5. CASE ReadCache(w)
  <2>1. /\ At(w, "cacheItems")
        /\ UNCHANGED <<keys, listed, row, queue, backfill, issued, acked, touched, gone,
                       doomed>>
    BY <1>5 DEF ReadCache, redis, history
  <2>2. CASE Answer(w, call[w].ids \cap keys)
    <3>1. call[w].ids \cap keys \in SUBSET Items
      BY <1>1 DEF Calls
    <3>2. /\ call' \in [Workers -> Calls]
          /\ \A v \in Workers \ {w} : call'[v] = call[v]
          /\ CallOK(call[w])' /\ call'[w].at \notin SavePlaces
      BY <1>3, <2>2, <3>1
    <3> QED BY <1>1, <2>1, <3>2, QuietStepKeeps
  <2>3. CASE Miss(w)
    <3>1. call' = [call EXCEPT ![w] =
                     [@ EXCEPT !.at = "dbList", !.ids = {}, !.had = {}]]
      BY <2>3 DEF Miss
    <3>2. /\ call' \in [Workers -> Calls]
          /\ \A v \in Workers \ {w} : call'[v] = call[v]
          /\ CallOK(call[w])' /\ call'[w].at \notin SavePlaces
      BY <1>2, <2>1, <3>1
    <3> QED BY <1>1, <2>1, <3>2, QuietStepKeeps
  <2> QED BY <1>5, <2>2, <2>3 DEF ReadCache
<1>6. CASE ReadDB(w)
  <2>1. /\ Answer(w, Live(ListFor(w))) /\ WriteBack(Live(ListFor(w)))
        /\ UNCHANGED <<keys, listed, row, queue, issued, acked, touched, gone, doomed>>
    BY <1>6 DEF ReadDB, redis, history
  <2>2. Live(ListFor(w)) \in SUBSET Items /\ \A x \in Live(ListFor(w)) : row[x] = "live"
    BY ListForItems DEF Live
  <2>3. /\ backfill' \in [Items -> 0 .. MaxBackfill]
        /\ \A x \in Items : backfill'[x] > 0 => backfill[x] > 0 \/ row[x] = "live"
    BY <2>1, <2>2, WriteBackLive
  <2>4. /\ call' \in [Workers -> Calls]
        /\ \A v \in Workers \ {w} : call'[v] = call[v]
        /\ CallOK(call[w])' /\ call'[w].at \notin SavePlaces
    BY <1>3, <2>1, <2>2
  <2> QED BY <1>1, <2>1, <2>3, <2>4, QuietStepKeeps
<1>7. CASE ReadDBFails(w)
  <2>1. UNCHANGED <<keys, listed, row, queue, backfill, issued, acked, touched, gone,
                    doomed>>
    BY <1>7 DEF ReadDBFails, redis, history
  <2>2. /\ call' \in [Workers -> Calls]
        /\ \A v \in Workers \ {w} : call'[v] = call[v]
        /\ call'[w] = NoCall
    BY <1>7, EndChanges DEF ReadDBFails
  <2>3. CallOK(call[w])' /\ call'[w].at \notin SavePlaces
    BY <2>2 DEF NoCall, CallOK, SavePlaces, LookupPlaces, DeletePlaces
  <2> QED BY <1>1, <2>1, <2>2, <2>3, QuietStepKeeps
<1> QED BY <1>4, <1>5, <1>6, <1>7 DEF GetList

-----------------------------------------------------------------------------
(* A deletion.                                                              *)

LEMMA DeleteSessionKeeps ==
    ASSUME IInv, NEW w \in Workers, DeleteSession(w)
    PROVE  IInv'
<1> USE DEF IInv
<1>1. CallOK(call[w]) /\ call[w] \in Calls /\ backfill \in [Items -> 0 .. MaxBackfill]
      /\ gone \subseteq touched
  BY DEF Inv, CallsOK, TypeOK
<1>2. CASE LookUpOwner(w)
  <2>1. /\ call[w].at \in {"cacheOwner", "dbOwner"}
        /\ UNCHANGED <<keys, listed, row, queue, backfill, issued, acked, touched, gone,
                       doomed>>
    BY <1>2 DEF LookUpOwner, At, redis, history
  <2>2. PICK place \in {"uncache", "dbOwner", "unlist"} : Goto(w, place)
    BY <1>2 DEF LookUpOwner
  <2>3. /\ call' \in [Workers -> Calls]
        /\ \A v \in Workers \ {w} : call'[v] = call[v]
        /\ call'[w] = [call[w] EXCEPT !.at = place]
    <3>1. place \in Places /\ TypeOK
      BY DEF Places
    <3> QED BY <2>2, <3>1, GotoChanges
  <2>4. /\ call'[w].at = place /\ call'[w].item = call[w].item
        /\ call'[w].op = call[w].op /\ call'[w].before = call[w].before
    BY <1>1, <2>3 DEF Calls
  <2>5. CallOK(call[w])' /\ call'[w].at \notin SavePlaces
    BY <1>1, <2>1, <2>4 DEF CallOK, SavePlaces, LookupPlaces, DeletePlaces
  <2> QED BY <1>1, <2>1, <2>3, <2>5, QuietStepKeeps
<1>3. CASE Uncache(w)
  <2>1. /\ call[w].at \in {"uncache", "unlist"} /\ Goto(w, "deleteMessages")
        /\ keys' \subseteq keys /\ listed' \subseteq listed
        /\ UNCHANGED <<row, queue, backfill, issued, acked, touched, gone, doomed>>
    BY <1>3 DEF Uncache, redis, history
  <2>2. /\ call' \in [Workers -> Calls]
        /\ \A v \in Workers \ {w} : call'[v] = call[v]
        /\ call'[w] = [call[w] EXCEPT !.at = "deleteMessages"]
    BY <2>1, GotoChanges DEF Places
  <2>3. /\ call'[w].at = "deleteMessages" /\ call'[w].item = call[w].item
        /\ call'[w].op = call[w].op /\ call'[w].before = call[w].before
    BY <1>1, <2>2 DEF Calls
  <2>4. CallOK(call[w])' /\ call'[w].at \notin SavePlaces
    BY <1>1, <2>1, <2>3 DEF CallOK, SavePlaces, LookupPlaces, DeletePlaces
  <2> QED BY <1>1, <2>1, <2>2, <2>4, QuietStepKeeps
<1>4. CASE DeleteMessageRows(w)
  <2>1. /\ call[w].at = "deleteMessages"
        /\ UNCHANGED <<keys, listed, queue, backfill, issued, acked, touched, gone, doomed>>
    BY <1>4 DEF DeleteMessageRows, At, redis, history
  <2>2. CASE UNCHANGED row /\ End(w)
    <3>1. /\ call' \in [Workers -> Calls]
          /\ \A v \in Workers \ {w} : call'[v] = call[v]
          /\ call'[w] = NoCall
      BY <2>2, EndChanges
    <3>2. CallOK(call[w])' /\ call'[w].at \notin SavePlaces
      BY <3>1 DEF NoCall, CallOK, SavePlaces, LookupPlaces, DeletePlaces
    <3> QED BY <1>1, <2>1, <2>2, <3>1, <3>2, QuietStepKeeps
  <2>3. CASE /\ row' = [x \in Items |->
                          IF x \in Live(MessagesOf(call[w].item)) THEN "deleted"
                          ELSE row[x]]
             /\ Goto(w, "deleteSession")
    <3>1. /\ call' \in [Workers -> Calls]
          /\ \A v \in Workers \ {w} : call'[v] = call[v]
          /\ call'[w] = [call[w] EXCEPT !.at = "deleteSession"]
      BY <2>3, GotoChanges DEF Places
    <3>2. /\ call'[w].at = "deleteSession" /\ call'[w].item = call[w].item
          /\ call'[w].op = call[w].op /\ call'[w].before = call[w].before
      BY <1>1, <3>1 DEF Calls
    <3>3. \A m \in MessagesOf(call[w].item) : row'[m] # "live"
      BY <2>3 DEF MessagesOf, Live, Items
    <3>4. CallOK(call[w])' /\ call'[w].at \notin SavePlaces
      BY <1>1, <2>1, <3>2, <3>3
         DEF CallOK, SavePlaces, LookupPlaces, DeletePlaces, MessagesOf
    <3>5. \A x \in Items : row'[x] = "live" => row[x] = "live"
      BY <2>3
    <3>6. TypeOK'
      <4>1. row' \in [Items -> {"none", "live", "deleted"}]
        BY <2>3 DEF TypeOK
      <4>2. \A x \in Items : row'[x] # "none" => x \in issued
        BY <2>3 DEF TypeOK, Live
      <4> QED BY <2>1, <3>1, <4>1, <4>2 DEF TypeOK
    <3>7. WorkerStep(w)
      BY <2>1, <3>1, <3>4, <3>5 DEF WorkerStep
    <3> QED BY <3>6, <3>7, WorkerStepKeeps
  <2> QED BY <1>4, <2>2, <2>3 DEF DeleteMessageRows
<1>5. CASE DeleteSessionRow(w)
  <2>1. /\ call[w].at = "deleteSession" /\ End(w)
        /\ UNCHANGED <<keys, listed, queue, backfill, issued, acked, touched>>
    BY <1>5 DEF DeleteSessionRow, At, redis
  <2>2. /\ call' \in [Workers -> Calls]
        /\ \A v \in Workers \ {w} : call'[v] = call[v]
        /\ call'[w] = NoCall
    BY <2>1, EndChanges
  <2>3. CallOK(call[w])' /\ call'[w].at \notin SavePlaces
    BY <2>2 DEF NoCall, CallOK, SavePlaces, LookupPlaces, DeletePlaces
  <2>4. CASE UNCHANGED <<row, gone, doomed>>
    BY <1>1, <2>1, <2>2, <2>3, <2>4, QuietStepKeeps
  <2>5. CASE /\ row' = [x \in Items |->
                          IF x \in Live({call[w].item}) THEN "deleted" ELSE row[x]]
             /\ gone' = gone \cup {call[w].item}
             /\ doomed' = doomed \cup (MessagesOf(call[w].item) \cap call[w].before)
    <3>1. /\ call[w].item \in touched
          /\ \A m \in MessagesOf(call[w].item) \cap call[w].before :
               row[m] # "live" /\ m \in acked
      BY <1>1, <2>1 DEF CallOK, DeletePlaces
    <3>2. \A x \in Items : row'[x] = "live" => row[x] = "live"
      BY <2>5
    <3>3. \A m \in doomed' \ doomed : m \in acked /\ row'[m] # "live"
      BY <2>5, <3>1, <3>2 DEF MessagesOf, Items
    <3>4. TypeOK'
      <4>1. row' \in [Items -> {"none", "live", "deleted"}]
        BY <2>5 DEF TypeOK
      <4>2. \A x \in Items : row'[x] # "none" => x \in issued
        BY <2>5 DEF TypeOK, Live
      <4>3. gone' \subseteq touched /\ doomed' \subseteq Messages
        BY <1>1, <2>5, <3>1 DEF TypeOK, MessagesOf
      <4> QED BY <2>1, <2>2, <4>1, <4>2, <4>3 DEF TypeOK
    <3>5. WorkerStep(w)
      BY <2>1, <2>2, <2>3, <3>2, <3>3 DEF WorkerStep
    <3> QED BY <3>4, <3>5, WorkerStepKeeps
  <2> QED BY <1>5, <2>4, <2>5 DEF DeleteSessionRow
<1> QED BY <1>2, <1>3, <1>4, <1>5 DEF DeleteSession

-----------------------------------------------------------------------------
(* Beside the requests.                                                     *)

\* The consumer, the expiry and the goroutines leave the rows and calls alone.
LEMMA BesideKeeps ==
    ASSUME IInv, UNCHANGED <<row, call, issued, acked, touched, gone, doomed>>,
           keys' \subseteq issued, listed' \subseteq issued, queue' \subseteq queue,
           backfill' \in [Items -> 0 .. MaxBackfill],
           \A x \in Items : backfill'[x] > 0 => backfill[x] > 0
    PROVE  IInv'
<1> USE DEF IInv, Inv
<1>1. TypeOK'
  BY DEF TypeOK
<1>2. CallsOK'
  BY DEF CallsOK, CallOK
<1>3. OneSaver' /\ DoomedAcked' /\ BackfillIssued' /\ DeleteCascades'
  BY DEF OneSaver, DoomedAcked, BackfillIssued, DeleteCascades
<1> QED BY <1>1, <1>2, <1>3

LEMMA BesideStepsKeep ==
    ASSUME IInv,
           \/ \E x \in Items : ConsumeEvent(x) \/ Backfill(x) \/ ExpireKey(x)
           \/ \E S \in Lists : ExpireList(S)
    PROVE  IInv'
<1> USE DEF IInv
<1>1. /\ backfill \in [Items -> 0 .. MaxBackfill] /\ keys \subseteq issued
      /\ listed \subseteq issued
  BY DEF TypeOK
<1>2. CASE \E x \in Items : Backfill(x)
  <2>1. PICK x \in Items : Backfill(x)
    BY <1>2
  <2>2. /\ backfill[x] > 0 /\ backfill' = [backfill EXCEPT ![x] = @ - 1]
        /\ keys' \subseteq keys \cup {x} /\ listed' \subseteq listed \cup {x}
        /\ UNCHANGED <<row, queue, call, issued, acked, touched, gone, doomed>>
    BY <2>1 DEF Backfill, redis, history
  <2>3. x \in issued
    BY <2>2 DEF Inv, BackfillIssued
  <2>4. MaxBackfill \in Nat /\ backfill[x] \in 0 .. MaxBackfill
    BY <1>1, ModeAssumption
  <2>5. backfill[x] - 1 \in 0 .. MaxBackfill
    BY <2>2, <2>4
  <2>6. /\ backfill' \in [Items -> 0 .. MaxBackfill]
        /\ \A y \in Items : backfill'[y] > 0 => backfill[y] > 0
    BY <1>1, <2>2, <2>5
  <2> QED BY <1>1, <2>2, <2>3, <2>6, BesideKeeps
<1>3. CASE \/ \E x \in Items : ConsumeEvent(x) \/ ExpireKey(x)
           \/ \E S \in Lists : ExpireList(S)
  <2>1. /\ UNCHANGED <<row, backfill, call, issued, acked, touched, gone, doomed>>
        /\ keys' \subseteq keys /\ listed' \subseteq listed /\ queue' \subseteq queue
    BY <1>3 DEF ConsumeEvent, ExpireKey, ExpireList, redis, history
  <2> QED BY <1>1, <2>1, BesideKeeps
<1> QED BY <1>2, <1>3

LEMMA CrashKeeps ==
    ASSUME IInv, Crash
    PROVE  IInv'
<1> USE DEF IInv, Inv
<1>1. /\ call' = [w \in Workers |-> NoCall] /\ backfill' = [x \in Items |-> 0]
      /\ UNCHANGED <<keys, listed, row, queue, issued, acked, touched, gone, doomed>>
  BY DEF Crash, redis, history
<1>2. NoCall \in Calls /\ MaxBackfill \in Nat
  BY ModeAssumption DEF NoCall, Calls, Ops, Places
<1>3. TypeOK'
  BY <1>1, <1>2 DEF TypeOK
<1>4. \A w \in Workers : call'[w].at = "idle" /\ call'[w].op = "none"
                         /\ call'[w].before = {}
  BY <1>1 DEF NoCall
<1>5. CallsOK' /\ OneSaver'
  BY <1>4 DEF CallsOK, CallOK, OneSaver, SavePlaces, LookupPlaces, DeletePlaces
<1>6. DoomedAcked' /\ BackfillIssued' /\ DeleteCascades'
  BY <1>1 DEF DoomedAcked, BackfillIssued, DeleteCascades
<1> QED BY <1>3, <1>5, <1>6

-----------------------------------------------------------------------------
(* The invariant.                                                           *)

LEMMA IInvInit == Init => IInv
<1> SUFFICES ASSUME Init PROVE IInv
  OBVIOUS
<1> USE DEF Init
<1>1. NoCall \in Calls /\ MaxBackfill \in Nat
  BY ModeAssumption DEF NoCall, Calls, Ops, Places
<1>2. TypeOK
  BY <1>1 DEF TypeOK
<1>3. \A w \in Workers : call[w].at = "idle" /\ call[w].op = "none"
                         /\ call[w].before = {}
  BY DEF NoCall
<1>4. CallsOK /\ OneSaver
  BY <1>3 DEF CallsOK, CallOK, OneSaver, SavePlaces, LookupPlaces, DeletePlaces
<1>5. DoomedAcked /\ BackfillIssued /\ DeleteCascades
  BY DEF DoomedAcked, BackfillIssued, DeleteCascades
<1> QED BY <1>2, <1>4, <1>5 DEF IInv, Inv

LEMMA IInvStep == IInv /\ [Next]_vars => IInv'
<1> SUFFICES ASSUME IInv, [Next]_vars PROVE IInv'
  OBVIOUS
<1>1. CASE UNCHANGED vars
  <2>1. UNCHANGED <<keys, listed, row, queue, backfill, call, issued, acked, touched,
                    gone, doomed>>
    BY <1>1 DEF vars, redis, history
  <2>2. /\ backfill \in [Items -> 0 .. MaxBackfill]
        /\ keys \subseteq issued /\ listed \subseteq issued
    BY DEF IInv, TypeOK
  <2> QED BY <2>1, <2>2, BesideKeeps
<1>2. ASSUME NEW w \in Workers, \E x \in Items : BeginSave(w, x)
      PROVE  IInv'
  BY <1>2, BeginSaveKeeps
<1>3. ASSUME NEW w \in Workers,
             \/ \E s \in Sessions : BeginHistory(w, s)
             \/ BeginSessions(w)
             \/ \E s \in Sessions, o \in BOOLEAN : BeginDelete(w, s, o)
      PROVE  IInv'
  BY <1>3, BeginOtherKeeps
<1>4. ASSUME NEW w \in Workers, Save(w)
      PROVE  IInv'
  BY <1>4, SaveKeeps
<1>5. ASSUME NEW w \in Workers, GetSession(w)
      PROVE  IInv'
  BY <1>5, GetSessionKeeps
<1>6. ASSUME NEW w \in Workers, GetList(w)
      PROVE  IInv'
  BY <1>6, GetListKeeps
<1>7. ASSUME NEW w \in Workers, DeleteSession(w)
      PROVE  IInv'
  BY <1>7, DeleteSessionKeeps
<1>8. CASE \/ \E x \in Items : ConsumeEvent(x) \/ Backfill(x) \/ ExpireKey(x)
           \/ \E S \in Lists : ExpireList(S)
  BY <1>8, BesideStepsKeep
<1>9. CASE Crash
  BY <1>9, CrashKeeps
<1> QED BY <1>1, <1>2, <1>3, <1>4, <1>5, <1>6, <1>7, <1>8, <1>9 DEF Next

LEMMA Invariance == Spec => []IInv
BY IInvInit, IInvStep, PTL DEF Spec

\* Whatever fails and whoever reads and writes, the store is well formed: no
\* key, list entry, row, event or acknowledgement is of an id not given out.
THEOREM TypeCorrect == Spec => []TypeOK
<1>1. IInv => TypeOK
  BY DEF IInv
<1> QED BY <1>1, Invariance, PTL

\* For any number of requests, saves, repeated deletions and crashes: once a
\* deletion of a session has succeeded, the messages acknowledged before it
\* began are out of the database for good (DeleteSession of the repository).
THEOREM Cascades == Spec => []DeleteCascades
<1>1. IInv => DeleteCascades
  BY DEF IInv, Inv
<1> QED BY <1>1, Invariance, PTL

-----------------------------------------------------------------------------
(* Without a producer, an acknowledged save has its row.                    *)

\* No save is on its way to the broker, and what is acknowledged has a row.
Durable ==
    /\ \A w \in Workers : call[w].at # "sendEvent"
    /\ \A x \in acked : row[x] # "none"

LEMMA DurableStep ==
    ASSUME ~UseMQ, IInv, Durable, [Next]_vars
    PROVE  Durable'
<1>1. CASE \/ UNCHANGED vars
           \/ \E x \in Items : ConsumeEvent(x) \/ Backfill(x) \/ ExpireKey(x)
           \/ \E S \in Lists : ExpireList(S)
  BY <1>1 DEF Durable, vars, history, ConsumeEvent, Backfill, ExpireKey, ExpireList
<1>2. CASE Crash
  BY <1>2 DEF Durable, Crash, history, NoCall
<1>3. ASSUME NEW w \in Workers,
             \/ \E x \in Items : BeginSave(w, x)
             \/ \E s \in Sessions : BeginHistory(w, s)
             \/ BeginSessions(w)
             \/ \E s \in Sessions, o \in BOOLEAN : BeginDelete(w, s, o)
             \/ Save(w) \/ GetSession(w) \/ GetList(w) \/ DeleteSession(w)
      PROVE  Durable'
  <2>1. call[w].at # "sendEvent" /\ call[w] \in Calls /\ CallOK(call[w])
    BY DEF Durable, IInv, Inv, TypeOK, CallsOK
  <2>2. \A v \in Workers : call'[v].at # "sendEvent"
    <3>1. ASSUME NEW c, call' = [call EXCEPT ![w] = c], c.at # "sendEvent"
          PROVE  \A v \in Workers : call'[v].at # "sendEvent"
      BY <3>1 DEF Durable, IInv, TypeOK
    <3>2. ASSUME NEW op, NEW x, NEW o, NEW place,
                 Begin(w, op, x, o, place), place # "sendEvent"
          PROVE  \A v \in Workers : call'[v].at # "sendEvent"
      <4>1. Call(op, x, o, place).at # "sendEvent"
        BY <3>2 DEF Call
      <4> QED BY <3>1, <3>2, <4>1 DEF Begin
    <3>3. ASSUME NEW place \in Places \ {"sendEvent"}, Goto(w, place)
          PROVE  \A v \in Workers : call'[v].at # "sendEvent"
      <4>1. [call[w] EXCEPT !.at = place].at # "sendEvent"
        BY <2>1 DEF Calls
      <4> QED BY <3>1, <3>3, <4>1 DEF Goto
    <3>4. ASSUME End(w)
          PROVE  \A v \in Workers : call'[v].at # "sendEvent"
      <4>1. NoCall.at # "sendEvent"
        BY DEF NoCall
      <4> QED BY <3>1, <3>4, <4>1 DEF End
    <3>5. ASSUME NEW S, Answer(w, S)
          PROVE  \A v \in Workers : call'[v].at # "sendEvent"
      <4>1. [NoCall EXCEPT !.at = "answered", !.page = S].at # "sendEvent"
        BY DEF NoCall
      <4> QED BY <3>1, <3>5, <4>1 DEF Answer
    <3>6. ASSUME NEW place \in {"cacheItems", "dbList"}, NEW ids, NEW had,
                 call' = [call EXCEPT ![w] =
                            [@ EXCEPT !.at = place, !.ids = ids, !.had = had]]
          PROVE  \A v \in Workers : call'[v].at # "sendEvent"
      <4>1. [call[w] EXCEPT !.at = place, !.ids = ids, !.had = had].at # "sendEvent"
        BY <2>1 DEF Calls
      <4> QED BY <3>1, <3>6, <4>1
    <3>7. CASE \/ \E x \in Items : BeginSave(w, x)
               \/ \E s \in Sessions : BeginHistory(w, s)
               \/ BeginSessions(w)
               \/ \E s \in Sessions, o \in BOOLEAN : BeginDelete(w, s, o)
      BY <3>2, <3>7 DEF BeginSave, BeginHistory, BeginSessions, BeginDelete
    <3>8. CASE Save(w)
      BY <2>1, <3>3, <3>4, <3>8
         DEF Save, CacheItem, SendEvent, SendEventFails, InsertRow, Places
    <3>9. CASE GetSession(w)
      BY <3>3, <3>4, <3>9
         DEF GetSession, GetSessionFromCache, GetSessionFromDB, GetSessionFails,
             WithSession, Places
    <3>10. CASE GetList(w)
      BY <3>4, <3>5, <3>6, <3>10
         DEF GetList, ReadIds, ReadCache, Miss, ReadDB, ReadDBFails
    <3>11. CASE DeleteSession(w)
      BY <3>3, <3>4, <3>11
         DEF DeleteSession, LookUpOwner, Uncache, DeleteMessageRows,
             DeleteSessionRow, Places
    <3> QED BY <1>3, <3>7, <3>8, <3>9, <3>10, <3>11
  <2>3. \A x \in acked' : row'[x] # "none"
    <3>1. CASE UNCHANGED <<row, acked>>
      BY <3>1 DEF Durable
    <3>2. CASE InsertRow(w)
      <4>1. call[w].item \in Items
        BY <2>1, <3>2 DEF InsertRow, At, CallOK, SavePlaces, IInv, TypeOK
      <4> QED BY <3>2, <4>1 DEF InsertRow, Durable, IInv, TypeOK
    <3>3. CASE DeleteMessageRows(w) \/ DeleteSessionRow(w)
      <4>1. acked' = acked /\ \A x \in Items : row[x] # "none" => row'[x] # "none"
        BY <3>3 DEF DeleteMessageRows, DeleteSessionRow, history
      <4> QED BY <4>1 DEF Durable, IInv, TypeOK
    <3>4. CASE SendEvent(w)
      BY <2>1, <3>4 DEF SendEvent, At
    <3> QED BY <1>3, <3>1, <3>2, <3>3, <3>4
            DEF BeginSave, BeginHistory, BeginSessions, BeginDelete, Begin, Save,
                CacheItem, SendEventFails, GetSession, GetSessionFromCache,
                GetSessionFromDB, GetSessionFails, GetList, ReadIds, ReadCache,
                ReadDB, ReadDBFails, DeleteSession, LookUpOwner, Uncache, history
  <2> QED BY <2>2, <2>3 DEF Durable
<1> QED BY <1>1, <1>2, <1>3 DEF Next

\* When no name server is configured, a save that was reported a success has its
\* row for good, whatever fails or crashes, for any number of requests
\* (SaveMessage and SaveSession, which then always reach the insert).
THEOREM DurableWithoutBroker ==
    ASSUME ~UseMQ
    PROVE  Spec => []AckedDurable
<1>1. Init => Durable
  BY DEF Init, Durable, NoCall
<1>2. IInv /\ Durable /\ [Next]_vars => Durable'
  BY DurableStep
<1>3. Durable => AckedDurable
  BY DEF Durable, AckedDurable
<1> QED BY <1>1, <1>2, <1>3, Invariance, PTL DEF Spec

-----------------------------------------------------------------------------
(* The lists.                                                               *)

\* An item with a key is in its sorted set, but for the messages of a session
\* that someone began to delete.
KeysListed ==
    \A x \in keys : x \notin listed => x \in Messages /\ SessionOf[x] \in touched

\* A call between its two reads has the ids of what it found with a key.
HasIds(w) ==
    /\ At(w, "cacheItems") /\ Undisturbed(w) => call[w].had \subseteq call[w].ids
    /\ At(w, "dbList") => call[w].had = {}

ListInv == KeysListed /\ \A w \in Workers : HasIds(w)

LEMMA ListInvInit == Init => ListInv
BY DEF Init, ListInv, KeysListed, HasIds, At, NoCall

\* A step of one request that does not write to Redis and ends between the two
\* reads only if it has the ids.
LEMMA ReaderKeeps ==
    ASSUME ListInv, NEW w \in Workers, \A v \in Workers \ {w} : call'[v] = call[v],
           touched \subseteq touched', HasIds(w)', KeysListed'
    PROVE  ListInv'
BY DEF ListInv, HasIds, At, Undisturbed

\* What is known of the keys stays if Redis is only read.
LEMMA KeysListedKeeps ==
    ASSUME KeysListed, touched \subseteq touched', keys' \subseteq keys,
           \A x \in keys' : x \in listed => x \in listed'
    PROVE  KeysListed'
BY DEF KeysListed

LEMMA BeginListed ==
    ASSUME ListInv, TypeOK, NEW w \in Workers,
           \/ \E x \in Items : BeginSave(w, x)
           \/ \E s \in Sessions : BeginHistory(w, s)
           \/ BeginSessions(w)
           \/ \E s \in Sessions, o \in BOOLEAN : BeginDelete(w, s, o)
    PROVE  ListInv'
<1>1. PICK op \in Ops, x \in Items \cup {None}, o \in BOOLEAN,
           place \in {"cacheItem", "cacheSession", "cacheList"} : Begin(w, op, x, o, place)
  BY DEF BeginSave, BeginHistory, BeginSessions, BeginDelete, Ops, Items
<1>2. touched \subseteq touched' /\ UNCHANGED <<keys, listed>>
  BY DEF BeginSave, BeginHistory, BeginSessions, BeginDelete, Begin, redis
<1>3. /\ \A v \in Workers \ {w} : call'[v] = call[v]
      /\ call'[w] = Call(op, x, o, place)
  <2>1. place \in Places
    BY DEF Places
  <2> QED BY <1>1, <2>1, BeginChanges
<1>4. HasIds(w)'
  <2>1. call'[w].at = place
    BY <1>3 DEF Call
  <2> QED BY <2>1 DEF HasIds, At
<1>5. KeysListed'
  BY <1>2, KeysListedKeeps DEF ListInv
<1> QED BY <1>2, <1>3, <1>4, <1>5, ReaderKeeps

\* The call leaves the two reads or has not come to them.
LEMMA GoesElsewhere ==
    ASSUME TypeOK, NEW w \in Workers,
           \/ \E place \in Places \ {"cacheItems", "dbList"} : Goto(w, place)
           \/ End(w)
           \/ \E S \in SUBSET Items : Answer(w, S)
    PROVE  (\A v \in Workers \ {w} : call'[v] = call[v]) /\ HasIds(w)'
<1>1. CASE \E place \in Places \ {"cacheItems", "dbList"} : Goto(w, place)
  <2>1. PICK place \in Places \ {"cacheItems", "dbList"} : Goto(w, place)
    BY <1>1
  <2>2. /\ \A v \in Workers \ {w} : call'[v] = call[v]
        /\ call'[w] = [call[w] EXCEPT !.at = place]
    BY <2>1, GotoChanges
  <2>3. call'[w].at = place
    BY <2>2 DEF TypeOK, Calls
  <2> QED BY <2>2, <2>3 DEF HasIds, At
<1>2. CASE End(w)
  <2>1. (\A v \in Workers \ {w} : call'[v] = call[v]) /\ call'[w] = NoCall
    BY <1>2, EndChanges
  <2> QED BY <2>1 DEF HasIds, At, NoCall
<1>3. CASE \E S \in SUBSET Items : Answer(w, S)
  <2>1. (\A v \in Workers \ {w} : call'[v] = call[v]) /\ call'[w].at = "answered"
    BY <1>3, AnswerChanges
  <2> QED BY <2>1 DEF HasIds, At
<1> QED BY <1>1, <1>2, <1>3

LEMMA SaveListed ==
    ASSUME ListInv, TypeOK, NEW w \in Workers, Save(w)
    PROVE  ListInv'
<1>1. \/ \E place \in Places \ {"cacheItems", "dbList"} : Goto(w, place)
      \/ End(w)
  BY DEF Save, CacheItem, SendEvent, SendEventFails, InsertRow, Places
<1>2. /\ touched' = touched
      /\ \/ UNCHANGED <<keys, listed>>
         \/ keys' = keys \cup {call[w].item} /\ listed' = listed \cup {call[w].item}
  BY DEF Save, CacheItem, SendEvent, SendEventFails, InsertRow, redis, history
<1>3. KeysListed'
  BY <1>2 DEF KeysListed, ListInv
<1> QED BY <1>1, <1>2, <1>3, GoesElsewhere, ReaderKeeps

LEMMA GetSessionListed ==
    ASSUME ListInv, TypeOK, NEW w \in Workers, GetSession(w)
    PROVE  ListInv'
<1>1. \/ \E place \in Places \ {"cacheItems", "dbList"} : Goto(w, place)
      \/ End(w)
  BY DEF GetSession, GetSessionFromCache, GetSessionFromDB, GetSessionFails,
         WithSession, Places
<1>2. touched' = touched /\ UNCHANGED <<keys, listed>>
  BY DEF GetSession, GetSessionFromCache, GetSessionFromDB, GetSessionFails, redis, history
<1>3. KeysListed'
  BY <1>2, KeysListedKeeps DEF ListInv
<1> QED BY <1>1, <1>2, <1>3, GoesElsewhere, ReaderKeeps

\* Only a deletion takes a listed item that has a key from its list, and it is of
\* a session that was touched.
LEMMA DeleteSessionListed ==
    ASSUME IInv, ListInv, NEW w \in Workers, DeleteSession(w)
    PROVE  ListInv'
<1> USE DEF IInv
<1>1. \/ \E place \in Places \ {"cacheItems", "dbList"} : Goto(w, place)
      \/ End(w)
  BY DEF DeleteSession, LookUpOwner, Uncache, DeleteMessageRows, DeleteSessionRow, Places
<1>2. touched' = touched
  BY DEF DeleteSession, LookUpOwner, Uncache, DeleteMessageRows, DeleteSessionRow, history
<1>3. KeysListed'
  <2>1. CASE UNCHANGED <<keys, listed>>
    BY <1>2, <2>1, KeysListedKeeps DEF ListInv
  <2>2. CASE ~UNCHANGED <<keys, listed>>
    <3>1. /\ call[w].at \in {"uncache", "unlist"}
          /\ keys' = IF At(w, "uncache") THEN keys \ {call[w].item} ELSE keys
          /\ listed' = (listed \ MessagesOf(call[w].item)) \
                         (IF At(w, "uncache") THEN {call[w].item} ELSE {})
      BY <2>2 DEF DeleteSession, LookUpOwner, Uncache, DeleteMessageRows,
                  DeleteSessionRow, redis
    <3>2. call[w].item \in touched
      BY <3>1 DEF Inv, CallsOK, CallOK, DeletePlaces
    <3> QED BY <1>2, <3>1, <3>2 DEF KeysListed, ListInv, MessagesOf
  <2> QED BY <2>1, <2>2
<1> QED BY <1>1, <1>2, <1>3, GoesElsewhere, ReaderKeeps

\* The first read of a list nobody deletes from finds the ids of all that have a
\* key.
LEMMA GetListListed ==
    ASSUME ListInv, TypeOK, NEW w \in Workers, GetList(w)
    PROVE  ListInv'
<1>1. touched' = touched /\ UNCHANGED <<keys, listed>>
  BY DEF GetList, ReadIds, ReadCache, ReadDB, ReadDBFails, redis, history
<1>2. KeysListed'
  BY <1>1, KeysListedKeeps DEF ListInv
<1>3. CASE End(w) \/ \E S \in SUBSET Items : Answer(w, S)
  BY <1>1, <1>2, <1>3, GoesElsewhere, ReaderKeeps
<1>4. CASE Miss(w)
  <2>1. call' = [call EXCEPT ![w] = [@ EXCEPT !.at = "dbList", !.ids = {}, !.had = {}]]
    BY <1>4 DEF Miss
  <2>2. (\A v \in Workers \ {w} : call'[v] = call[v]) /\ call'[w].at = "dbList"
        /\ call'[w].had = {}
    BY <2>1 DEF TypeOK, Calls
  <2>3. HasIds(w)'
    BY <2>2 DEF HasIds, At
  <2> QED BY <1>1, <1>2, <2>2, <2>3, ReaderKeeps
<1>5. ASSUME call' = [call EXCEPT ![w] =
                        [@ EXCEPT !.at = "cacheItems", !.ids = ListFor(w) \cap listed,
                                  !.had = call[w].before \cap ListFor(w) \cap keys]]
      PROVE  ListInv'
  <2>1. call[w] \in Calls /\ call \in [Workers -> Calls]
    BY DEF TypeOK
  <2> DEFINE ids == ListFor(w) \cap listed
             had == call[w].before \cap ListFor(w) \cap keys
  <2>2. /\ \A v \in Workers \ {w} : call'[v] = call[v]
        /\ call'[w].op = call[w].op /\ call'[w].item = call[w].item
        /\ call'[w].ids = ids /\ call'[w].had = had /\ call'[w].at = "cacheItems"
    <3> HIDE DEF ids, had
    <3>1. call' = [call EXCEPT ![w] = [@ EXCEPT !.at = "cacheItems", !.ids = ids, !.had = had]]
      BY <1>5 DEF ids, had
    <3> QED BY <2>1, <3>1 DEF Calls
  <2>3. Undisturbed(w)' => had \subseteq ids
    BY <1>1, <2>2 DEF Undisturbed, ListInv, KeysListed, ListFor, MessagesOf
  <2>4. HasIds(w)'
    BY <2>2, <2>3 DEF HasIds, At
  <2> QED BY <1>1, <1>2, <2>2, <2>4, ReaderKeeps
<1>6. /\ Live(ListFor(w)) \in SUBSET Items
      /\ call[w].ids \cap keys \in SUBSET Items
  BY ListForItems DEF TypeOK, Calls, Live
<1> QED BY <1>3, <1>4, <1>5, <1>6 DEF GetList, ReadIds, ReadCache, ReadDB, ReadDBFails

LEMMA BesideListed ==
    ASSUME ListInv,
           \/ \E x \in Items : ConsumeEvent(x) \/ Backfill(x) \/ ExpireKey(x)
           \/ \E S \in Lists : ExpireList(S)
    PROVE  ListInv'
<1>1. UNCHANGED <<call, touched>>
  BY DEF ConsumeEvent, Backfill, ExpireKey, ExpireList, history
<1>2. KeysListed'
  BY <1>1 DEF ConsumeEvent, Backfill, ExpireKey, ExpireList, redis, ListInv, KeysListed
<1> QED BY <1>1, <1>2 DEF ListInv, HasIds, At, Undisturbed

LEMMA ListInvStep == IInv /\ ListInv /\ [Next]_vars => ListInv'
<1> SUFFICES ASSUME IInv, ListInv, [Next]_vars PROVE ListInv'
  OBVIOUS
<1>0. TypeOK
  BY DEF IInv
<1>1. CASE UNCHANGED vars
  <2>1. UNCHANGED <<keys, listed, call, touched>>
    BY <1>1 DEF vars, redis, history
  <2> QED BY <2>1 DEF ListInv, KeysListed, HasIds, At, Undisturbed
<1>2. CASE Crash
  <2>1. UNCHANGED <<keys, listed, touched>> /\ call' = [w \in Workers |-> NoCall]
    BY <1>2 DEF Crash, redis, history
  <2> QED BY <2>1 DEF ListInv, KeysListed, HasIds, At, NoCall
<1> QED BY <1>0, <1>1, <1>2, BeginListed, SaveListed, GetSessionListed, GetListListed,
           DeleteSessionListed, BesideListed DEF Next

\* A request changes its own call only.
LEMMA OwnCallOnly ==
    ASSUME NEW u \in Workers,
           \/ \E x \in Items : BeginSave(u, x)
           \/ \E s \in Sessions : BeginHistory(u, s)
           \/ BeginSessions(u)
           \/ \E s \in Sessions, o \in BOOLEAN : BeginDelete(u, s, o)
           \/ Save(u) \/ GetSession(u) \/ GetList(u) \/ DeleteSession(u)
    PROVE  \E c : call' = [call EXCEPT ![u] = c]
<1> USE DEF Goto, End, Answer, Miss, Begin
<1>1. CASE \/ \E x \in Items : BeginSave(u, x)
           \/ \E s \in Sessions : BeginHistory(u, s)
           \/ BeginSessions(u)
           \/ \E s \in Sessions, o \in BOOLEAN : BeginDelete(u, s, o)
  BY <1>1 DEF BeginSave, BeginHistory, BeginSessions, BeginDelete
<1>2. CASE Save(u)
  BY <1>2 DEF Save, CacheItem, SendEvent, SendEventFails, InsertRow
<1>3. CASE GetSession(u)
  BY <1>3 DEF GetSession, GetSessionFromCache, GetSessionFromDB, GetSessionFails, WithSession
<1>4. CASE GetList(u)
  BY <1>4 DEF GetList, ReadIds, ReadCache, ReadDB, ReadDBFails
<1>5. CASE DeleteSession(u)
  BY <1>5 DEF DeleteSession, LookUpOwner, Uncache, DeleteMessageRows, DeleteSessionRow
<1> QED BY <1>1, <1>2, <1>3, <1>4, <1>5

\* A call between its two reads is answered with what the second finds.
LEMMA AnswersFromCache ==
    ASSUME TypeOK, [Next]_vars, NEW w \in Workers, At(w, "cacheItems"),
           call'[w].at = "answered"
    PROVE  Answer(w, call[w].ids \cap keys)
<1>0. call \in [Workers -> Calls] /\ call' # call
  BY DEF TypeOK, At
<1>1. PICK u \in Workers :
         \/ \E x \in Items : BeginSave(u, x)
         \/ \E s \in Sessions : BeginHistory(u, s)
         \/ BeginSessions(u)
         \/ \E s \in Sessions, o \in BOOLEAN : BeginDelete(u, s, o)
         \/ Save(u) \/ GetSession(u) \/ GetList(u) \/ DeleteSession(u)
  <2>1. ~Crash
    BY DEF Crash, NoCall
  <2>2. ~ \/ \E x \in Items : ConsumeEvent(x) \/ Backfill(x) \/ ExpireKey(x)
          \/ \E S \in Lists : ExpireList(S)
    BY <1>0 DEF ConsumeEvent, Backfill, ExpireKey, ExpireList
  <2>3. ~UNCHANGED vars
    BY <1>0 DEF vars
  <2> QED BY <2>1, <2>2, <2>3 DEF Next
<1>2. u = w
  <2>1. PICK c : call' = [call EXCEPT ![u] = c]
    BY <1>1, OwnCallOnly
  <2> QED BY <1>0, <2>1 DEF At
<1>3. ReadCache(w)
  <2>1. ~ \/ \E x \in Items : BeginSave(w, x)
          \/ \E s \in Sessions : BeginHistory(w, s)
          \/ BeginSessions(w)
          \/ \E s \in Sessions, o \in BOOLEAN : BeginDelete(w, s, o)
    BY DEF BeginSave, BeginHistory, BeginSessions, BeginDelete, Begin, Waits, At
  <2>2. ~Save(w)
    BY DEF Save, CacheItem, SendEvent, SendEventFails, InsertRow, At
  <2>3. ~GetSession(w)
    BY DEF GetSession, GetSessionFromCache, GetSessionFromDB, GetSessionFails, At
  <2>4. ~DeleteSession(w)
    BY DEF DeleteSession, LookUpOwner, Uncache, DeleteMessageRows, DeleteSessionRow, At
  <2> QED
    BY <1>1, <1>2, <2>1, <2>2, <2>3, <2>4 DEF GetList, ReadIds, ReadDB, ReadDBFails, At
<1>4. ~Miss(w)
  BY <1>0 DEF Miss, Calls
<1> QED BY <1>3, <1>4 DEF ReadCache

\* A list that comes from Redis has every item that was acknowledged before the
\* call and had its key from the read of the ids to the read of the items,
\* whatever else is saved, expires, is written back or fails meanwhile.
THEOREM NothingRecentHidden == Spec => RecentItemsListed
<1>1. ASSUME IInv, ListInv, [Next]_vars, NEW w \in Workers, Answers(w), Undisturbed(w)
      PROVE  (call[w].had \cap keys) \subseteq call'[w].page
  <2>1. TypeOK /\ call \in [Workers -> Calls]
    BY <1>1 DEF IInv, TypeOK
  <2>2. call'[w].at = "answered" /\ call[w].at \in {"cacheItems", "dbList"}
    BY <1>1 DEF Answers
  <2>3. HasIds(w)
    BY <1>1 DEF ListInv
  <2>4. CASE At(w, "dbList")
    BY <2>3, <2>4 DEF HasIds
  <2>5. CASE At(w, "cacheItems")
    <3>1. call[w].had \subseteq call[w].ids
      BY <1>1, <2>3, <2>5 DEF HasIds
    <3>2. Answer(w, call[w].ids \cap keys)
      BY <1>1, <2>1, <2>2, <2>5, AnswersFromCache
    <3>3. call'[w].page = call[w].ids \cap keys
      BY <2>1, <3>2 DEF Answer, NoCall
    <3> QED BY <3>1, <3>3
  <2> QED BY <2>2, <2>4, <2>5 DEF At
<1>2. IInv /\ ListInv /\ [Next]_vars
        => [\A w \in Workers : Answers(w) /\ Undisturbed(w) =>
               (call[w].had \cap keys) \subseteq call'[w].page]_vars
  BY <1>1
<1>3. Spec => []ListInv
  BY ListInvInit, ListInvStep, Invariance, PTL DEF Spec
<1> QED BY <1>2, <1>3, Invariance, PTL DEF Spec, RecentItemsListed
=============================================================================
