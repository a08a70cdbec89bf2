----------------------------- MODULE ChatStore -----------------------------
(***************************************************************************)
(* Sessions and messages of the chat service: Redis as a cache with expiry, *)
(* PostgreSQL behind it, and, when name servers are configured, RocketMQ   *)
(* in between for the writes.                                              *)
(*                                                                         *)
(* Sessions and messages are stored in the same way, so both are items: an *)
(* item has a key in Redis (session:<id>, message:<id>), a place in a      *)
(* sorted set (user_sessions:<user>, session_messages:<session>) and a row *)
(* in PostgreSQL, which deletion only marks.  All sessions belong to one   *)
(* user, as users share nothing; a page is as long as the list it is of.   *)
(*                                                                         *)
(* A worker is a request being served.  Its calls of Redis, RocketMQ and   *)
(* PostgreSQL are its steps (a pipeline of Redis commands is one step),    *)
(* and the goroutines that write back to the cache run beside it.          *)
(***************************************************************************)
EXTENDS Integers, FiniteSets

CONSTANTS
    Workers,        \* requests in progress
    Sessions,       \* session ids
    Messages,       \* message ids
    SessionOf,      \* the session of each message
    UseMQ,          \* whether a producer was initialised
    Faults,         \* what may fail
    MaxBackfill,    \* how often one item may be waiting to be written back
    None            \* "no item"

Items == Sessions \cup Messages
FaultKinds == {"redis", "db", "mq", "expiry", "crash"}

ASSUME ItemsAssumption ==
    /\ Sessions \cap Messages = {} /\ None \notin Items
    /\ SessionOf \in [Messages -> Sessions]
ASSUME ModeAssumption ==
    /\ UseMQ \in BOOLEAN /\ Faults \subseteq FaultKinds
    /\ MaxBackfill \in Nat

VARIABLES
    keys,           \* Redis: the items that have a key
    listed,         \* Redis: the items that are in their sorted set
    row,            \* PostgreSQL: no row, a live one, or one marked deleted
    queue,          \* RocketMQ: the save events not consumed yet
    backfill,       \* how many goroutines are still to write an item to Redis
    call,           \* the call each worker serves
    issued,         \* history: the ids given out
    acked,          \* history: the items whose save was reported a success
    touched,        \* history: the sessions someone began to delete
    gone,           \* history: the sessions whose deletion was reported
    doomed          \* history: the messages acked before their session's
                    \* deletion began, once the deletion has succeeded

redis == <<keys, listed>>
history == <<issued, acked, touched, gone, doomed>>
vars == <<redis, row, queue, backfill, call, history>>

\* A call: what it is of which item, whether the session's owner makes it, where
\* it is, the items acked when it began, the ids it has read from Redis, those
\* that had a key then, and the list it returns (before and had are history).
Call(op, x, byOwner, place) ==
    [op |-> op, item |-> x, owner |-> byOwner, at |-> place,
     before |-> IF op = "save" THEN {} ELSE acked,
     ids |-> {}, had |-> {}, page |-> {}]
NoCall ==
    [op |-> "none", item |-> None, owner |-> TRUE, before |-> {}, at |-> "idle",
     ids |-> {}, had |-> {}, page |-> {}]

MessagesOf(s) == {m \in Messages : SessionOf[m] = s}

\* The list a call reads: the user's sessions, or a session's messages.
ListFor(w) ==
    IF call[w].op = "sessions" THEN Sessions ELSE MessagesOf(call[w].item)

MayFail(kind) == kind \in Faults
At(w, place) == call[w].at = place
Waits(w) == call[w].at \in {"idle", "answered"}
Goto(w, place) == call' = [call EXCEPT ![w] = [@ EXCEPT !.at = place]]
Answer(w, S) == call' = [call EXCEPT ![w] = [NoCall EXCEPT !.at = "answered", !.page = S]]
Miss(w) ==
    call' = [call EXCEPT ![w] = [@ EXCEPT !.at = "dbList", !.ids = {}, !.had = {}]]
End(w) == call' = [call EXCEPT ![w] = NoCall]
Live(S) == {x \in S : row[x] = "live"}

-----------------------------------------------------------------------------
Init ==
    /\ keys = {} /\ listed = {} /\ queue = {}
    /\ row = [x \in Items |-> "none"]
    /\ backfill = [x \in Items |-> 0]
    /\ call = [w \in Workers |-> NoCall]
    /\ issued = {} /\ acked = {} /\ touched = {} /\ gone = {} /\ doomed = {}

Begin(w, op, x, byOwner, place) ==
    /\ Waits(w)
    /\ call' = [call EXCEPT ![w] = Call(op, x, byOwner, place)]
    /\ UNCHANGED <<redis, row, queue, backfill, acked, gone, doomed>>

\* CreateSession and EnsureSession draw a session id; SaveMessage draws the id
\* of a message in a session whose id the client has.
BeginSave(w, x) ==
    /\ x \notin issued
    /\ x \in Messages => SessionOf[x] \in acked
    /\ Begin(w, "save", x, TRUE, "cacheItem")
    /\ issued' = issued \cup {x}
    /\ UNCHANGED touched

BeginHistory(w, s) ==
    /\ s \in acked
    /\ Begin(w, "history", s, TRUE, "cacheSession")
    /\ UNCHANGED <<issued, touched>>

BeginSessions(w) ==
    /\ Begin(w, "sessions", None, TRUE, "cacheList")
    /\ UNCHANGED <<issued, touched>>

BeginDelete(w, s, byOwner) ==
    /\ s \in acked
    /\ Begin(w, "delete", s, byOwner, "cacheSession")
    /\ touched' = touched \cup {s}
    /\ UNCHANGED issued

-----------------------------------------------------------------------------
(* ChatRepositoryAdapter.SaveMessage and SaveSession.                      *)

\* Mutant: the write does not add the item to its sorted set.
CacheItemUnlisted(w) ==
    /\ At(w, "cacheItem")
    /\ \/ keys' = keys \cup {call[w].item}
       \/ MayFail("redis") /\ UNCHANGED keys
    /\ Goto(w, IF UseMQ THEN "sendEvent" ELSE "insertRow")
    /\ UNCHANGED <<listed, row, queue, backfill, history>>

\* The cache comes first, and its failure is only logged.
CacheItem(w) ==
    /\ At(w, "cacheItem")
    /\ \/ /\ keys' = keys \cup {call[w].item}
          /\ listed' = listed \cup {call[w].item}
       \/ MayFail("redis") /\ UNCHANGED redis
    /\ Goto(w, IF UseMQ THEN "sendEvent" ELSE "insertRow")
    /\ UNCHANGED <<row, queue, backfill, history>>

\* SendSync succeeds, and the call reports success.
SendEvent(w) ==
    /\ At(w, "sendEvent")
    /\ queue' = queue \cup {call[w].item}
    /\ acked' = acked \cup {call[w].item}
    /\ End(w)
    /\ UNCHANGED <<redis, row, backfill, issued, touched, gone,
                   doomed>>

\* SendSync reports an error, whether or not the broker has the event.
SendEventFails(w) ==
    /\ At(w, "sendEvent")
    /\ MayFail("mq")
    /\ queue' \in {queue, queue \cup {call[w].item}}
    /\ Goto(w, "insertRow")
    /\ UNCHANGED <<redis, row, backfill, history>>

\* Mutant: the failure of the insert is only logged, as the cache's is.
InsertRowUnchecked(w) ==
    /\ At(w, "insertRow")
    /\ \/ row' = [row EXCEPT ![call[w].item] = "live"]
       \/ MayFail("db") /\ UNCHANGED row
    /\ acked' = acked \cup {call[w].item}
    /\ End(w)
    /\ UNCHANGED <<redis, queue, backfill, issued, touched, gone,
                   doomed>>

\* Save of the repositories; the ids are new, so both insert.
InsertRow(w) ==
    /\ At(w, "insertRow")
    /\ \/ /\ row' = [row EXCEPT ![call[w].item] = "live"]
          /\ acked' = acked \cup {call[w].item}
       \/ MayFail("db") /\ UNCHANGED <<row, acked>>
    /\ End(w)
    /\ UNCHANGED <<redis, queue, backfill, issued, touched, gone,
                   doomed>>

\* The consumer unmarshals a model's JSON, whose ID is a number, into a domain
\* struct, whose ID is a string; that always fails, and the handler returns nil.
ConsumeEvent(x) ==
    /\ x \in queue
    /\ queue' = queue \ {x}
    /\ UNCHANGED <<redis, row, backfill, call, history>>

-----------------------------------------------------------------------------
(* ChatService.GetHistory and DeleteSession begin with GetSession.         *)

\* What GetHistory and DeleteSession do with a session they found.
WithSession(w) ==
    \/ call[w].op = "history" /\ Goto(w, "cacheList")
    \/ call[w].op = "delete" /\ call[w].owner /\ Goto(w, "cacheOwner")
    \/ call[w].op = "delete" /\ ~call[w].owner /\ End(w)

\* An error of Redis is taken for a miss.
GetSessionFromCache(w) ==
    /\ At(w, "cacheSession")
    /\ \/ call[w].item \in keys /\ WithSession(w)
       \/ (call[w].item \notin keys \/ MayFail("redis")) /\ Goto(w, "dbSession")
    /\ UNCHANGED <<redis, row, queue, backfill, history>>

\* A goroutine is to write what was found to the cache.
WriteBack(S) ==
    /\ \A x \in S : backfill[x] < MaxBackfill
    /\ backfill' = [x \in Items |-> backfill[x] + (IF x \in S THEN 1 ELSE 0)]

GetSessionFromDB(w) ==
    /\ At(w, "dbSession")
    /\ row[call[w].item] = "live"
    /\ WriteBack({call[w].item})
    /\ WithSession(w)
    /\ UNCHANGED <<redis, row, queue, history>>

\* A missing session is an error of GetHistory and a success of DeleteSession;
\* an error of the database is one of both.
GetSessionFails(w) ==
    /\ At(w, "dbSession")
    /\ \/ /\ row[call[w].item] # "live"
          /\ gone' = IF call[w].op = "delete" THEN gone \cup {call[w].item} ELSE gone
       \/ MayFail("db") /\ UNCHANGED gone
    /\ End(w)
    /\ UNCHANGED <<redis, row, queue, backfill, issued, acked,
                   touched, doomed>>

(* ChatRepositoryAdapter.GetSessionMessages and GetSessions.               *)

\* ZREVRANGE: the members of the sorted set.
ReadIds(w) ==
    LET ids == ListFor(w) \cap listed
    IN  /\ At(w, "cacheList")
        /\ \/ /\ ids # {}
              /\ call' = [call EXCEPT ![w] =
                             [@ EXCEPT !.at = "cacheItems", !.ids = ids,
                                       !.had = call[w].before \cap ListFor(w) \cap keys]]
           \/ (ids = {} \/ MayFail("redis")) /\ Miss(w)
        /\ UNCHANGED <<redis, row, queue, backfill, history>>

\* MGET: those of them whose key is there; if there are any, they are the
\* answer.
ReadCache(w) ==
    LET found == call[w].ids \cap keys
    IN  /\ At(w, "cacheItems")
        /\ \/ found # {} /\ Answer(w, found)
           \/ (found = {} \/ MayFail("redis")) /\ Miss(w)
        /\ UNCHANGED <<redis, row, queue, backfill, history>>

\* Mutant: the ids of the list are written back whether or not they have a row.
ReadDBWritesAll(w) ==
    /\ At(w, "dbList")
    /\ Answer(w, Live(ListFor(w)))
    /\ WriteBack(ListFor(w))
    /\ UNCHANGED <<redis, row, queue, history>>

ReadDB(w) ==
    /\ At(w, "dbList")
    /\ Answer(w, Live(ListFor(w)))
    /\ WriteBack(Live(ListFor(w)))
    /\ UNCHANGED <<redis, row, queue, history>>

ReadDBFails(w) ==
    /\ At(w, "dbList")
    /\ MayFail("db")
    /\ End(w)
    /\ UNCHANGED <<redis, row, queue, backfill, history>>

-----------------------------------------------------------------------------
(* ChatRepositoryAdapter.DeleteSession.                                    *)

\* It looks the session up again, for its user; no error is reported.
LookUpOwner(w) ==
    /\ \/ /\ At(w, "cacheOwner")
          /\ \/ call[w].item \in keys /\ Goto(w, "uncache")
             \/ (call[w].item \notin keys \/ MayFail("redis")) /\ Goto(w, "dbOwner")
       \/ /\ At(w, "dbOwner")
          /\ \/ row[call[w].item] = "live" /\ Goto(w, "uncache")
             \/ (row[call[w].item] # "live" \/ MayFail("db")) /\ Goto(w, "unlist")
    /\ UNCHANGED <<redis, row, queue, backfill, history>>

\* DeleteSession of the cache, or InvalidateSessionMessages when the session
\* was not found; the keys of the messages stay.
Uncache(w) ==
    /\ call[w].at \in {"uncache", "unlist"}
    /\ \/ /\ keys' = IF At(w, "uncache") THEN keys \ {call[w].item} ELSE keys
          /\ listed' = (listed \ MessagesOf(call[w].item)) \
                         (IF At(w, "uncache") THEN {call[w].item} ELSE {})
       \/ MayFail("redis") /\ UNCHANGED redis
    /\ Goto(w, "deleteMessages")
    /\ UNCHANGED <<row, queue, backfill, history>>

\* Mutant: an error of the messages' deletion does not end the call.
DeleteMessageRowsGoesOn(w) ==
    /\ At(w, "deleteMessages")
    /\ \/ row' = [x \in Items |->
                    IF x \in Live(MessagesOf(call[w].item)) THEN "deleted" ELSE row[x]]
       \/ MayFail("db") /\ UNCHANGED row
    /\ Goto(w, "deleteSession")
    /\ UNCHANGED <<redis, queue, backfill, history>>

DeleteMessageRows(w) ==
    /\ At(w, "deleteMessages")
    /\ \/ /\ row' = [x \in Items |->
                       IF x \in Live(MessagesOf(call[w].item)) THEN "deleted"
                       ELSE row[x]]
          /\ Goto(w, "deleteSession")
       \/ MayFail("db") /\ UNCHANGED row /\ End(w)
    /\ UNCHANGED <<redis, queue, backfill, history>>

DeleteSessionRow(w) ==
    /\ At(w, "deleteSession")
    /\ \/ /\ row' = [x \in Items |->
                       IF x \in Live({call[w].item}) THEN "deleted" ELSE row[x]]
          /\ gone' = gone \cup {call[w].item}
          /\ doomed' = doomed \cup (MessagesOf(call[w].item) \cap call[w].before)
       \/ MayFail("db") /\ UNCHANGED <<row, gone, doomed>>
    /\ End(w)
    /\ UNCHANGED <<redis, queue, backfill, issued, acked,
                   touched>>

-----------------------------------------------------------------------------
(* Beside the workers.                                                     *)

\* A goroutine of GetSession, GetSessionMessages or GetSessions writes an item
\* back; it ignores an error.
Backfill(x) ==
    /\ backfill[x] > 0
    /\ backfill' = [backfill EXCEPT ![x] = @ - 1]
    /\ \/ /\ keys' = keys \cup {x}
          /\ listed' = listed \cup {x}
       \/ MayFail("redis") /\ UNCHANGED redis
    /\ UNCHANGED <<row, queue, call, history>>

\* MessageTTL or SessionTTL after it was last written, a key is gone.
ExpireKey(x) ==
    /\ MayFail("expiry")
    /\ x \in keys
    /\ keys' = keys \ {x}
    /\ UNCHANGED <<listed, row, queue, backfill, call, history>>

\* Mutant: a write does not renew the expiry of the sorted set.
ExpireListEarly(S) ==
    /\ MayFail("expiry")
    /\ S \cap listed # {}
    /\ listed' = listed \ S
    /\ UNCHANGED <<keys, row, queue, backfill, call, history>>

\* A sorted set has the expiry of the item written last, so it outlives the
\* keys of all its members.
ExpireList(S) ==
    /\ MayFail("expiry")
    /\ S \cap listed # {} /\ S \cap listed \cap keys = {}
    /\ listed' = listed \ S
    /\ UNCHANGED <<keys, row, queue, backfill, call, history>>

\* The process dies, and its requests and goroutines with it.
Crash ==
    /\ MayFail("crash")
    /\ call' = [w \in Workers |-> NoCall]
    /\ backfill' = [x \in Items |-> 0]
    /\ UNCHANGED <<redis, row, queue, history>>

Save(w) == CacheItem(w) \/ SendEvent(w) \/ SendEventFails(w) \/ InsertRow(w)

GetSession(w) ==
    GetSessionFromCache(w) \/ GetSessionFromDB(w) \/ GetSessionFails(w)

GetList(w) ==
    ReadIds(w) \/ ReadCache(w) \/ ReadDB(w) \/ ReadDBFails(w)

DeleteSession(w) ==
    \/ LookUpOwner(w) \/ Uncache(w)
    \/ DeleteMessageRows(w) \/ DeleteSessionRow(w)

Lists == {Sessions} \cup {MessagesOf(s) : s \in Sessions}

Next ==
    \/ \E w \in Workers :
          \/ \E x \in Items : BeginSave(w, x)
          \/ \E s \in Sessions : BeginHistory(w, s)
          \/ BeginSessions(w)
          \/ \E s \in Sessions, o \in BOOLEAN : BeginDelete(w, s, o)
          \/ Save(w) \/ GetSession(w) \/ GetList(w) \/ DeleteSession(w)
    \/ \E x \in Items : ConsumeEvent(x) \/ Backfill(x) \/ ExpireKey(x)
    \/ \E S \in Lists : ExpireList(S)
    \/ Crash

Spec == Init /\ [][Next]_vars

-----------------------------------------------------------------------------
Ops == {"none", "save", "history", "sessions", "delete"}

Places == {"idle", "cacheItem", "sendEvent", "insertRow", "cacheSession",
           "dbSession", "cacheList", "cacheItems", "dbList", "answered", "cacheOwner",
           "dbOwner", "uncache", "unlist", "deleteMessages", "deleteSession"}

Calls == [op : Ops, item : Items \cup {None}, owner : BOOLEAN,
          before : SUBSET Items, at : Places, ids : SUBSET Items,
          had : SUBSET Items, page : SUBSET Items]

\* Every variable has its type, and only ids that were given out are anywhere.
TypeOK ==
    /\ keys \subseteq issued /\ listed \subseteq issued /\ queue \subseteq issued
    /\ issued \subseteq Items /\ acked \subseteq issued
    /\ row \in [Items -> {"none", "live", "deleted"}]
    /\ \A x \in Items : row[x] # "none" => x \in issued
    /\ backfill \in [Items -> 0 .. MaxBackfill]
    /\ call \in [Workers -> Calls]
    /\ touched \subseteq Sessions /\ gone \subseteq touched
    /\ doomed \subseteq Messages

\* A save that was reported a success is in the database or still in the
\* broker, whatever fails or crashes (SaveMessage, SaveSession, the consumer).
AckedDurable == \A x \in acked : row[x] # "none" \/ x \in queue

\* When DeleteSession has succeeded, every message that was acked before it
\* began is out of the database, though an earlier attempt may have stopped
\* half way and others save, read and delete meanwhile.
DeleteCascades ==
    \A m \in doomed : row[m] # "live"

\* The sessions a list's members depend on are not being deleted.
Undisturbed(w) ==
    IF call[w].op = "sessions" THEN touched = {} ELSE call[w].item \notin touched

Answers(w) == call[w].at \in {"cacheItems", "dbList"} /\ call'[w].at = "answered"

\* A list from the cache has every item that was acked before the call and had
\* its key from the first read to the second: no expiry of an older item, no
\* write-back and no save in between hides it.
RecentItemsListed ==
    [][\A w \in Workers :
         Answers(w) /\ Undisturbed(w) =>
            (call[w].had \cap keys) \subseteq call'[w].page]_vars
=============================================================================
