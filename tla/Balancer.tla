------------------------------ MODULE Balancer ------------------------------
(***************************************************************************)
(* What the chat service promises about the choice of a model instance,    *)
(* with no counter at all: a request that was offered a set of instances   *)
(* is served by one that, of those offered, serves the fewest requests at  *)
(* that moment, and keeps it until the request is over.  ModelLoad, where  *)
(* the numbers are counters in Redis, is shown to implement it when        *)
(* nothing fails.                                                          *)
(***************************************************************************)
EXTENDS Naturals, FiniteSets

CONSTANTS
    Handlers,     \* the StreamChat calls of all chat-service replicas
    Instances,    \* the addresses of the llm-inference instances
    None          \* "no instance"

VARIABLES
    registered,   \* the healthy instances the registry lists
    offered,      \* what each handler was told of the registry
    serving       \* the instance that serves each handler, or None

vars == <<registered, offered, serving>>

Serves(i) == {h \in Handlers : serving[h] = i}

Init ==
    /\ registered \in SUBSET Instances
    /\ offered = [h \in Handlers |-> {}]
    /\ serving = [h \in Handlers |-> None]

Register(i) ==
    /\ registered' = registered \cup {i}
    /\ UNCHANGED <<offered, serving>>

Deregister(i) ==
    /\ registered' = registered \ {i}
    /\ UNCHANGED <<offered, serving>>

Offer(h) ==
    /\ offered[h] = {} /\ serving[h] = None
    /\ registered # {}
    /\ offered' = [offered EXCEPT ![h] = registered]
    /\ UNCHANGED <<registered, serving>>

Refuse(h) ==
    /\ offered[h] # {}
    /\ offered' = [offered EXCEPT ![h] = {}]
    /\ UNCHANGED <<registered, serving>>

Acquire(h) ==
    \E a \in offered[h] :
        /\ \A b \in offered[h] :
              Cardinality(Serves(a)) <= Cardinality(Serves(b))
        /\ serving' = [serving EXCEPT ![h] = a]
        /\ offered' = [offered EXCEPT ![h] = {}]
        /\ UNCHANGED registered

Release(h) ==
    /\ serving[h] # None
    /\ serving' = [serving EXCEPT ![h] = None]
    /\ UNCHANGED <<registered, offered>>

Next ==
    \/ \E i \in Instances : Register(i) \/ Deregister(i)
    \/ \E h \in Handlers : Offer(h) \/ Refuse(h) \/ Acquire(h) \/ Release(h)

Spec == Init /\ [][Next]_vars
=============================================================================
