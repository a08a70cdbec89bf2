------------------------------ MODULE KVCache ------------------------------
(***************************************************************************)
(* The KV cache manager of the inference engine: a pool of blocks that     *)
(* requests grow into, an eviction policy that takes blocks from other     *)
(* requests when the pool is exhausted, and a cache from prompt prefixes   *)
(* to the blocks that hold them.                                           *)
(*                                                                         *)
(* The manager is called from one thread, so its methods do not overlap.   *)
(* allocate is the one method with a loop that chooses (set.pop takes any  *)
(* free block): it is AllocateDirect, then EvictVictim once per victim,    *)
(* then AllocateReturns, and no other method can run in between.           *)
(*                                                                         *)
(* A list of block ids is the set of its members, as nothing depends on    *)
(* their order or on how often an id is repeated.                          *)
(***************************************************************************)
EXTENDS FiniteSets, OrderedDict

CONSTANTS
    Blocks,        \* range(total_blocks)
    Requests,      \* request ids
    Prompts,       \* prompt prefixes worth caching
    MaxPrefixes,   \* max_prefixes
    MaxAsk,        \* the most blocks a call asks for (a bound of the model)
    Policies,      \* the eviction policies set_eviction_policy is called with
    None           \* "no request"

ASSUME BlocksAssumption == IsFiniteSet(Blocks)
ASSUME RequestsAssumption == None \notin Requests
ASSUME BoundsAssumption == MaxAsk \in Nat \ {0} /\ MaxPrefixes \in Nat

VARIABLES
    free,          \* BlockPool._free_blocks
    owned,         \* BlockPool._allocated
    handed,        \* KVCacheManager._request_blocks
    policy,        \* the class of KVCacheManager._eviction
    lru,           \* LRUEvictionPolicy._access_order, least recent first
    order,         \* PrefixCache._entries: the prefixes, least recent first
    cached,        \* PrefixCache._entries: the blocks of each
    call,          \* the call of allocate in progress
    selfEvicted,   \* history: requests that were the victim of their own call
    unseen         \* history: holders the policy was not told of since it was set

vars == <<free, owned, handed, policy, lru, order, cached, call, selfEvicted,
          unseen>>
poolVars == <<free, owned, handed, policy, lru, call, selfEvicted, unseen>>
prefixVars == <<order, cached>>

Smaller(m, n) == IF m < n THEN m ELSE n

NoCall == [req |-> None, need |-> 0, got |-> {}, victims |-> <<>>]

\* BlockPool.allocate: n free blocks, or all of them if there are fewer.
Grabs(n, available) ==
    {g \in SUBSET available :
        Cardinality(g) = Smaller(n, Cardinality(available))}

\* EvictionPolicy.evict(n): LRU pops the n least recent requests.  The manager
\* never records positions or scores, so the other policies have no victims.
Victims(n) ==
    IF policy = "lru" THEN SubSeq(lru, 1, Smaller(n, Len(lru))) ELSE <<>>

-----------------------------------------------------------------------------
Init ==
    /\ free = Blocks
    /\ owned = [r \in Requests |-> {}]
    /\ handed = [r \in Requests |-> {}]
    /\ policy = "lru"
    /\ lru = <<>>
    /\ order = <<>>
    /\ cached = [p \in Prompts |-> {}]
    /\ call = NoCall
    /\ selfEvicted = {}
    /\ unseen = {}

\* allocate, up to and including the choice of victims.
AllocateDirect(r, n) ==
    /\ call = NoCall
    /\ \E got \in Grabs(n, free) :
          LET need == n - Cardinality(got)
              victims == Victims(need)
          IN  /\ free' = free \ got
              /\ owned' = [owned EXCEPT ![r] = @ \cup got]
              /\ lru' = SubSeq(lru, Len(victims) + 1, Len(lru))
              /\ call' = [req |-> r, need |-> need, got |-> got,
                          victims |-> victims]
    /\ UNCHANGED <<handed, policy, prefixVars, selfEvicted, unseen>>

\* Mutant: the manager's list of the victim is not dropped.
EvictVictimKeepsList ==
    /\ call.victims # <<>> /\ call.need > 0
    /\ LET v == Head(call.victims)
           r == call.req
       IN  \E g \in Grabs(1, free \cup owned[v]) :
              /\ free' = (free \cup owned[v]) \ g
              /\ owned' = [[owned EXCEPT ![v] = {}] EXCEPT ![r] = @ \cup g]
              /\ call' = [req |-> r, need |-> call.need - Cardinality(g),
                          got |-> call.got \cup g, victims |-> Tail(call.victims)]
              /\ selfEvicted' = IF v = r THEN selfEvicted \cup {r}
                                ELSE selfEvicted \ {v}
    /\ UNCHANGED <<handed, policy, lru, prefixVars, unseen>>

\* One turn of allocate's loop: the victim loses everything it has, and the
\* request gets one block.  The victim can be the request itself.
EvictVictim ==
    /\ call.victims # <<>> /\ call.need > 0
    /\ LET v == Head(call.victims)
           r == call.req
       IN  \E g \in Grabs(1, free \cup owned[v]) :
              /\ free' = (free \cup owned[v]) \ g
              /\ owned' = [[owned EXCEPT ![v] = {}] EXCEPT ![r] = @ \cup g]
              /\ handed' = [handed EXCEPT ![v] = {}]
              /\ call' = [req |-> r, need |-> call.need - Cardinality(g),
                          got |-> call.got \cup g, victims |-> Tail(call.victims)]
              /\ selfEvicted' = IF v = r THEN selfEvicted \cup {r}
                                ELSE selfEvicted \ {v}
    /\ UNCHANGED <<policy, lru, prefixVars, unseen>>

\* Mutant: record_access only when the request got what it asked for.
AllocateReturnsUntracked ==
    /\ call # NoCall
    /\ call.victims = <<>> \/ call.need = 0
    /\ handed' = [handed EXCEPT ![call.req] = @ \cup call.got]
    /\ lru' = IF policy = "lru" /\ call.need = 0 THEN ToEnd(lru, call.req)
              ELSE lru
    /\ call' = NoCall
    /\ unseen' = unseen \ {call.req}
    /\ UNCHANGED <<free, owned, policy, prefixVars, selfEvicted>>

\* The end of allocate: what it got is added to what the request has, and the
\* request becomes the most recent one.
AllocateReturns ==
    /\ call # NoCall
    /\ call.victims = <<>> \/ call.need = 0
    /\ handed' = [handed EXCEPT ![call.req] = @ \cup call.got]
    /\ lru' = IF policy = "lru" THEN ToEnd(lru, call.req) ELSE lru
    /\ call' = NoCall
    /\ unseen' = unseen \ {call.req}
    /\ UNCHANGED <<free, owned, policy, prefixVars, selfEvicted>>

\* Mutant: the pool forgets the request without taking its blocks back.
FreeLeaks(r) ==
    /\ call = NoCall
    /\ owned' = [owned EXCEPT ![r] = {}]
    /\ handed' = [handed EXCEPT ![r] = {}]
    /\ lru' = Without(lru, r)
    /\ selfEvicted' = selfEvicted \ {r}
    /\ UNCHANGED <<free, policy, call, prefixVars, unseen>>

\* Pool, manager and policy forget the request.
Free(r) ==
    /\ call = NoCall
    /\ free' = free \cup owned[r]
    /\ owned' = [owned EXCEPT ![r] = {}]
    /\ handed' = [handed EXCEPT ![r] = {}]
    /\ lru' = Without(lru, r)
    /\ selfEvicted' = selfEvicted \ {r}
    /\ UNCHANGED <<policy, call, prefixVars, unseen>>

\* Mutant: the new policy inherits what the old one tracked.
SetEvictionPolicyKeeps(p) ==
    /\ call = NoCall
    /\ policy' = p
    /\ unseen' = {r \in Requests : owned[r] # {}}
    /\ UNCHANGED <<free, owned, handed, lru, call, prefixVars, selfEvicted>>

\* set_eviction_policy starts the new policy with nothing tracked.
SetEvictionPolicy(p) ==
    /\ call = NoCall
    /\ policy' = p
    /\ lru' = <<>>
    /\ unseen' = {r \in Requests : owned[r] # {}}
    /\ UNCHANGED <<free, owned, handed, call, prefixVars, selfEvicted>>

\* store_prefix, by a caller that has the blocks of a request; the oldest entry
\* goes when there are more than max_prefixes.
StorePrefix(p, r) ==
    /\ call = NoCall
    /\ handed[r] # {}
    /\ LET longer == ToEnd(order, p)
           stored == [cached EXCEPT ![p] = handed[r]]
           full == Len(longer) > MaxPrefixes
       IN  /\ order' = IF full THEN Tail(longer) ELSE longer
           /\ cached' = IF full THEN [stored EXCEPT ![Head(longer)] = {}]
                        ELSE stored
    /\ UNCHANGED poolVars

\* lookup_prefix returns cached[p], and a hit makes the entry the most recent.
LookupPrefix(p) ==
    /\ call = NoCall
    /\ p \in ToSet(order)
    /\ order' = ToEnd(order, p)
    /\ UNCHANGED <<poolVars, cached>>

Next ==
    \/ \E r \in Requests, n \in 1 .. MaxAsk : AllocateDirect(r, n)
    \/ EvictVictim
    \/ AllocateReturns
    \/ \E r \in Requests : Free(r)
    \/ \E p \in Policies : SetEvictionPolicy(p)
    \/ \E p \in Prompts, r \in Requests : StorePrefix(p, r)
    \/ \E p \in Prompts : LookupPrefix(p)

Spec == Init /\ [][Next]_vars

-----------------------------------------------------------------------------
\* Every variable has its type, no call is in progress without a request, and
\* only an LRU policy tracks requests (set_eviction_policy builds a new object).
TypeOK ==
    /\ free \in SUBSET Blocks
    /\ owned \in [Requests -> SUBSET Blocks]
    /\ handed \in [Requests -> SUBSET Blocks]
    /\ policy \in Policies \cup {"lru"}
    /\ lru \in Seq(Requests)
    /\ order \in Seq(Prompts)
    /\ cached \in [Prompts -> SUBSET Blocks]
    /\ call \in [req : Requests \cup {None}, need : Int,
                 got : SUBSET Blocks, victims : Seq(Requests)]
    /\ selfEvicted \in SUBSET Requests /\ unseen \in SUBSET Requests
    /\ call = NoCall \/ call.req \in Requests
    /\ policy = "lru" \/ lru = <<>>

\* At every moment, even between two evictions of one call, each block is free
\* or belongs to exactly one request: no eviction loses or doubles a block.
PoolPartitioned ==
    /\ \A b \in Blocks : b \in free \/ \E r \in Requests : b \in owned[r]
    /\ \A r \in Requests : free \cap owned[r] = {}
    /\ \A r, s \in Requests : r # s => owned[r] \cap owned[s] = {}

\* The manager's own list of a request's blocks agrees with the pool's, in a
\* call up to what the call has got, unless the request evicted itself.
HandedMatchesPool ==
    \A r \in Requests \ selfEvicted :
        owned[r] = handed[r] \cup (IF r = call.req THEN call.got ELSE {})

\* Under LRU a request that holds blocks can be evicted, or is a victim of or
\* the caller in the call in progress: no block is out of the policy's reach,
\* but for what requests hold from before set_eviction_policy until they call
\* allocate again.  And a request is the policy's once, so that no victim is
\* freed twice in a call, and the prefix cache keeps within its limit.
HoldersEvictable ==
    /\ policy = "lru" =>
          \A r \in Requests \ unseen :
              owned[r] # {} => \/ r \in ToSet(lru)
                               \/ r \in ToSet(call.victims) \cup {call.req}
    /\ IsInjective(lru \o call.victims)
    /\ IsInjective(order) /\ Len(order) <= MaxPrefixes
=============================================================================
