----------------------------- MODULE ModelLoad -----------------------------
(***************************************************************************)
(* Load balancing of chat requests over the llm-inference instances.       *)
(*                                                                         *)
(* A StreamChat handler of the chat service asks Consul for the healthy    *)
(* instances of the model, runs a Lua script in Redis that picks one and   *)
(* adds 1 to its score in the sorted set llm_models:<model>, streams the   *)
(* answer from it, and in a deferred call subtracts 1 again.  The scores   *)
(* are shared by the handlers of all replicas; nothing ties a score to the *)
(* handlers that raised it, so every way a handler can disappear between   *)
(* the two Redis calls, and every way Redis can lose or repeat one of      *)
(* them, is a fault action here.                                           *)
(*                                                                         *)
(* The environment's failures are counted in `faults' (at most MaxFaults,  *)
(* a bound of the model): the properties say how far the scores may then   *)
(* be from the truth.                                                      *)
(***************************************************************************)
EXTENDS Integers, FiniteSets, SequencesExt

CONSTANTS
    Handlers,     \* the StreamChat calls that may run at the same time
    Replicas,     \* the chat-service processes
    ReplicaOf,    \* the process each handler runs in
    Instances,    \* the addresses of the llm-inference instances
    None,         \* "no instance"
    Faults,       \* the kinds of failure that may happen
    MaxFaults     \* how many of them may happen in all

FaultKinds ==
    {"selectLost", "selectResent", "releaseFailed", "releaseResent",
     "crash", "restart"}

ASSUME HandlersAssumption ==
    IsFiniteSet(Handlers) /\ ReplicaOf \in [Handlers -> Replicas]
ASSUME InstancesAssumption == IsFiniteSet(Instances) /\ None \notin Instances
ASSUME FaultsAssumption == Faults \subseteq FaultKinds /\ MaxFaults \in Nat

VARIABLES
    registered,   \* Consul: the instances whose health check passes
    member,       \* Redis: the members of the sorted set
    load,         \* Redis: their scores (0 for an instance that is no member)
    snapshot,     \* Redis: what the last save to disk holds
    pc,           \* where each handler is
    view,         \* the instances a handler got from Consul
    addr,         \* targetAddr: the instance a handler must release
    faults        \* how many failures of each kind there have been

vars == <<registered, member, load, snapshot, pc, view, addr, faults>>
redisVars == <<member, load, snapshot>>

-----------------------------------------------------------------------------
(* The script selectBestFromListScript.                                    *)

Orderings(S) == SetToSeqs(S)

\* Mutant: the loop does not remember the least score so far.
ScanInstanceForgets(acc, i) ==
    IF acc.done
    THEN acc
    ELSE IF i \notin member \/ load[i] = 0
    THEN [acc EXCEPT !.best = i, !.done = TRUE]
    ELSE [acc EXCEPT !.best = i, !.min = load[i]]

\* One turn of the script's loop over ARGV.  -1 in `min' means "none yet", as
\* in the script, where it can also be a score.
ScanInstance(acc, i) ==
    IF acc.done
    THEN acc
    ELSE IF i \notin member \/ load[i] = 0
    THEN [acc EXCEPT !.best = i, !.done = TRUE]
    ELSE IF acc.min = -1 \/ load[i] < acc.min
    THEN [acc EXCEPT !.best = i, !.min = load[i]]
    ELSE acc

\* The instance the script returns when ARGV lists the instances in this order.
BestInstance(order) ==
    LET scan[n \in 0 .. Len(order)] ==
            IF n = 0 THEN [min |-> -1, best |-> None, done |-> FALSE]
            ELSE ScanInstance(scan[n - 1], order[n])
    IN  scan[Len(order)].best

\* Mutant: ZADD key 1 member for a member of any age.
AddTaskResets(i) ==
    /\ member' = member \cup {i}
    /\ load' = [load EXCEPT ![i] = 1]
    /\ UNCHANGED snapshot

\* ZADD key 1 member for a new member, ZINCRBY key 1 member for an old one.
AddTask(i) ==
    /\ member' = member \cup {i}
    /\ load' = [load EXCEPT ![i] = @ + 1]
    /\ UNCHANGED snapshot

\* ZINCRBY key -1 member, which makes a member of an absent one.
RemoveTask(i) ==
    /\ member' = member \cup {i}
    /\ load' = [load EXCEPT ![i] = @ - 1]
    /\ UNCHANGED snapshot

\* The script runs for handler h and picks a; Consul gives no order.
SelectScript(h, a) ==
    /\ \E order \in Orderings(view[h]) : a = BestInstance(order)
    /\ AddTask(a)

-----------------------------------------------------------------------------
Fault(kind) ==
    /\ kind \in Faults /\ FoldFunction(+, 0, faults) < MaxFaults
    /\ faults' = [faults EXCEPT ![kind] = @ + 1]

Init ==
    /\ registered \in SUBSET Instances
    /\ member = {}
    /\ load = [i \in Instances |-> 0]
    /\ snapshot = [member |-> {}, load |-> load]
    /\ pc = [h \in Handlers |-> "idle"]
    /\ view = [h \in Handlers |-> {}]
    /\ addr = [h \in Handlers |-> None]
    /\ faults = [k \in FaultKinds |-> 0]

(* The registry: a health check starts or stops passing, or the instance   *)
(* registers or deregisters itself.                                        *)
Register(i) ==
    /\ i \notin registered
    /\ registered' = registered \cup {i}
    /\ UNCHANGED <<redisVars, pc, view, addr, faults>>

Deregister(i) ==
    /\ i \in registered
    /\ registered' = registered \ {i}
    /\ UNCHANGED <<redisVars, pc, view, addr, faults>>

\* SelectAndIncreaseModelLoads asks Consul; with no healthy instance the call
\* fails and the handler returns, which changes nothing.
DiscoverService(h) ==
    /\ pc[h] = "idle"
    /\ registered # {}
    /\ view' = [view EXCEPT ![h] = registered]
    /\ pc' = [pc EXCEPT ![h] = "selecting"]
    /\ UNCHANGED <<registered, redisVars, addr, faults>>

\* SelectAndRegister succeeds and StreamChat defers the release.
SelectAndRegister(h) ==
    /\ pc[h] = "selecting"
    /\ \E a \in view[h] :
          /\ SelectScript(h, a)
          /\ addr' = [addr EXCEPT ![h] = a]
    /\ view' = [view EXCEPT ![h] = {}]
    /\ pc' = [pc EXCEPT ![h] = "streaming"]
    /\ UNCHANGED <<registered, faults>>

\* Mutant: the release is deferred before the selection is known to be good.
SelectFailsReleases(h) ==
    /\ pc[h] = "selecting"
    /\ view' = [view EXCEPT ![h] = {}]
    /\ pc' = [pc EXCEPT ![h] = "releasing"]
    /\ UNCHANGED <<registered, redisVars, addr, faults>>

\* Redis does not run the script: the handler returns "select model instance
\* failed" before the release is deferred.
SelectFails(h) ==
    /\ pc[h] = "selecting"
    /\ view' = [view EXCEPT ![h] = {}]
    /\ pc' = [pc EXCEPT ![h] = "idle"]
    /\ UNCHANGED <<registered, redisVars, addr, faults>>

\* Redis runs the script but the request's context ends before the reply is
\* read: the handler returns the same error and knows of no instance to release.
SelectLost(h) ==
    /\ pc[h] = "selecting"
    /\ Fault("selectLost")
    /\ \E a \in view[h] : SelectScript(h, a)
    /\ view' = [view EXCEPT ![h] = {}]
    /\ pc' = [pc EXCEPT ![h] = "idle"]
    /\ UNCHANGED <<registered, addr>>

\* The reply does not come within the client's read timeout: the Redis client
\* sends the script again.
SelectResent(h) ==
    /\ pc[h] = "selecting"
    /\ Fault("selectResent")
    /\ \E a \in view[h] : SelectScript(h, a)
    /\ UNCHANGED <<registered, pc, view, addr>>

\* Mutant: a return path gives the load back itself, and the deferred call again.
StreamEndsReleases(h) ==
    /\ pc[h] = "streaming"
    /\ RemoveTask(addr[h])
    /\ pc' = [pc EXCEPT ![h] = "releasing"]
    /\ UNCHANGED <<registered, view, addr, faults>>

\* Mutant: a return path comes before the call is deferred.
StreamEndsEarly(h) ==
    /\ pc[h] = "streaming"
    /\ addr' = [addr EXCEPT ![h] = None]
    /\ pc' = [pc EXCEPT ![h] = "idle"]
    /\ UNCHANGED <<registered, redisVars, view, faults>>

\* The handler returns, on any of the paths after the selection: call llm
\* failed, llm stream error, send error, end of the answer.
StreamEnds(h) ==
    /\ pc[h] = "streaming"
    /\ pc' = [pc EXCEPT ![h] = "releasing"]
    /\ UNCHANGED <<registered, redisVars, view, addr, faults>>

\* The deferred DecrementModelLoad.
DecrementTaskCount(h) ==
    /\ pc[h] = "releasing"
    /\ RemoveTask(addr[h])
    /\ addr' = [addr EXCEPT ![h] = None]
    /\ pc' = [pc EXCEPT ![h] = "idle"]
    /\ UNCHANGED <<registered, view, faults>>

\* Redis cannot be reached for the 5 seconds of the clean-up context: the
\* handler logs a warning and is gone.
DecrementFails(h) ==
    /\ pc[h] = "releasing"
    /\ Fault("releaseFailed")
    /\ addr' = [addr EXCEPT ![h] = None]
    /\ pc' = [pc EXCEPT ![h] = "idle"]
    /\ UNCHANGED <<registered, redisVars, view>>

\* Redis subtracts, the reply is late, and the Redis client sends it again.
DecrementResent(h) ==
    /\ pc[h] = "releasing"
    /\ Fault("releaseResent")
    /\ RemoveTask(addr[h])
    /\ UNCHANGED <<registered, pc, view, addr>>

\* A chat-service process dies; its handlers run no deferred call.
Crash(r) ==
    /\ Fault("crash")
    /\ pc' = [h \in Handlers |-> IF ReplicaOf[h] = r THEN "idle" ELSE pc[h]]
    /\ view' = [h \in Handlers |-> IF ReplicaOf[h] = r THEN {} ELSE view[h]]
    /\ addr' = [h \in Handlers |-> IF ReplicaOf[h] = r THEN None ELSE addr[h]]
    /\ UNCHANGED <<registered, redisVars>>

(* Redis saves to disk now and then, and restarts from its last save.      *)
RedisSaves ==
    /\ "restart" \in Faults
    /\ snapshot' = [member |-> member, load |-> load]
    /\ UNCHANGED <<registered, member, load, pc, view, addr, faults>>

RedisRestarts ==
    /\ Fault("restart")
    /\ member' = snapshot.member
    /\ load' = snapshot.load
    /\ UNCHANGED <<registered, snapshot, pc, view, addr>>

HandlerStep(h) ==
    \/ DiscoverService(h)
    \/ SelectAndRegister(h) \/ SelectFails(h)
    \/ SelectLost(h) \/ SelectResent(h)
    \/ StreamEnds(h)
    \/ DecrementTaskCount(h) \/ DecrementFails(h) \/ DecrementResent(h)

Next ==
    \/ \E i \in Instances : Register(i) \/ Deregister(i)
    \/ \E h \in Handlers : HandlerStep(h)
    \/ \E r \in Replicas : Crash(r)
    \/ RedisSaves \/ RedisRestarts

Spec == Init /\ [][Next]_vars

-----------------------------------------------------------------------------
\* The handlers an instance is really serving.
InFlight(i) == {h \in Handlers : addr[h] = i}

Counts == [Instances -> Int]

\* Every variable has its type, and a handler knows an instance exactly while
\* it owes Redis a decrement (StreamChat, between selection and deferred call).
TypeOK ==
    /\ registered \in SUBSET Instances
    /\ member \in SUBSET Instances
    /\ load \in Counts
    /\ snapshot \in [member : SUBSET Instances, load : Counts]
    /\ pc \in [Handlers -> {"idle", "selecting", "streaming", "releasing"}]
    /\ view \in [Handlers -> SUBSET Instances]
    /\ addr \in [Handlers -> Instances \cup {None}]
    /\ faults \in [FaultKinds -> Nat]
    /\ \A h \in Handlers :
          (addr[h] # None) <=> (pc[h] \in {"streaming", "releasing"})

\* What the failures so far can have taken from a score: a decrement that
\* Redis got twice, or, when Redis restarts from an old save, the handlers that
\* can have selected since.
Shortfall ==
    faults["releaseResent"] + Cardinality(Handlers) * faults["restart"]

\* What they can have left in it: a selection or a release that was lost, the
\* handlers of a process that died, and those done since the save of a restart.
Excess ==
    faults["selectLost"] + faults["selectResent"] + faults["releaseFailed"]
      + Cardinality(Handlers) * (faults["crash"] + faults["restart"])

\* A score falls short of the requests in flight on the instance by no more
\* than the decrements Redis got twice and its restarts explain: neither a lost
\* call nor the crash of a chat service makes an instance in use look idle.
NeverUndercounts ==
    \A i \in Instances : load[i] >= Cardinality(InFlight(i)) - Shortfall

\* A score exceeds the requests in flight by no more than the lost calls,
\* crashes and restarts explain: each return path of StreamChat gives back what
\* its selection took, once.
OvercountBounded ==
    \A i \in Instances : load[i] <= Cardinality(InFlight(i)) + Excess

\* The same bounds for the save Redis restarts from; with the type invariant
\* and the two above, the inductive invariant of the module.
SnapshotBounded ==
    \A i \in Instances :
        /\ snapshot.load[i] >= - Shortfall
        /\ snapshot.load[i] <= Cardinality(Handlers) + Excess

\* An instance that is no member has no score, in Redis and in its save, and a
\* handler holds Consul's answer exactly while it selects: what the two choices
\* below need besides the bounds.
ChoiceReady ==
    /\ \A i \in Instances : i \notin member => load[i] = 0
    /\ \A i \in Instances : i \notin snapshot.member => snapshot.load[i] = 0
    /\ \A h \in Handlers : view[h] # {} <=> pc[h] = "selecting"

Chooses(h) == addr[h] = None /\ addr'[h] # None

\* No failure so far can have pushed a score below the truth.
NoUndercountYet == faults["restart"] = 0 /\ faults["releaseResent"] = 0

\* While no score can be too low, a handler takes an instance whose score is
\* least among those Consul named (the script's scan, in any order of ARGV).
LeastLoadedUnlessUndercounted ==
    [][\A h \in Handlers : NoUndercountYet /\ Chooses(h) =>
          \A b \in view[h] : load[addr'[h]] <= load[b]]_vars

Truth == INSTANCE Balancer WITH offered <- view, serving <- addr

NoFaultYet == \A k \in FaultKinds : faults[k] = 0

\* Until something fails the counters implement the choice by true numbers of
\* requests in flight: the whole of discovery, script and deferred decrement.
ChoosesByTrueLoad ==
    Truth!Init /\ [][NoFaultYet' => [Truth!Next]_(Truth!vars)]_vars
=============================================================================
