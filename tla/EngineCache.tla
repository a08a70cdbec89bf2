---------------------------- MODULE EngineCache ----------------------------
(***************************************************************************)
(* EngineCacheAdapter: the KV cache manager as an inference engine uses    *)
(* it, for sequences that start, grow by a token and end.  The adapter     *)
(* keeps a set of sequences of its own beside what the manager knows.  A   *)
(* manager is called by an adapter, or without one.                        *)
(***************************************************************************)
EXTENDS KVCache

VARIABLES
    user,          \* who calls the manager
    sequences      \* EngineCacheAdapter._sequences

cacheAdapterVars == <<vars, user, sequences>>

AdapterInit ==
    /\ Init
    /\ user \in {"direct", "adapter"}
    /\ sequences = {}

\* initialize_sequence: n is max(1, int(prompt_tokens * blocks_per_token)).
InitializeSequence(s, n) ==
    /\ AllocateDirect(s, n)
    /\ sequences' = sequences \cup {s}

\* on_token_generated, for a sequence under way: a whole block for each token,
\* as max(1, int(blocks_per_token)) is 1 for every share below 2.
OnTokenGenerated(s) ==
    /\ s \in sequences
    /\ AllocateDirect(s, 1)
    /\ UNCHANGED sequences

\* Mutant: a sequence whose blocks were all evicted is not freed.
FinalizeSequenceLazily(s) ==
    /\ call = NoCall
    /\ IF Cardinality(owned[s]) > 1 THEN Free(s) ELSE UNCHANGED vars
    /\ sequences' = sequences \ {s}

\* finalize_sequence.
FinalizeSequence(s) ==
    /\ Free(s)
    /\ sequences' = sequences \ {s}

\* What is left of a list without those that are gone.
Rest(seq, gone) ==
    LET rest[i \in 0 .. Len(seq)] ==
            IF i = 0 THEN <<>>
            ELSE IF seq[i] \in gone THEN rest[i - 1] ELSE Append(rest[i - 1], seq[i])
    IN  rest[Len(seq)]

\* clear: finalize_sequence of every sequence, then the prefix cache.
Clear ==
    /\ call = NoCall
    /\ free' = free \cup UNION {owned[s] : s \in sequences}
    /\ owned' = [r \in Requests |-> IF r \in sequences THEN {} ELSE owned[r]]
    /\ handed' = [r \in Requests |-> IF r \in sequences THEN {} ELSE handed[r]]
    /\ lru' = Rest(lru, sequences)
    /\ selfEvicted' = selfEvicted \ sequences
    /\ order' = <<>> /\ cached' = [p \in Prompts |-> {}]
    /\ sequences' = {}
    /\ UNCHANGED <<policy, call, unseen>>

AdapterNext ==
    \/ \E s \in Requests, n \in 1 .. MaxAsk : InitializeSequence(s, n)
    \/ \E s \in Requests : OnTokenGenerated(s) \/ FinalizeSequence(s)
    \/ Clear
    \/ /\ \/ EvictVictim \/ AllocateReturns
          \/ \E p \in Policies : SetEvictionPolicy(p)
          \/ \E p \in Prompts : LookupPrefix(p) \/ \E r \in Requests : StorePrefix(p, r)
       /\ UNCHANGED sequences

UserNext ==
    /\ \/ user = "direct" /\ Next /\ UNCHANGED sequences
       \/ user = "adapter" /\ AdapterNext
    /\ UNCHANGED user

UserSpec == AdapterInit /\ [][UserNext]_cacheAdapterVars

-----------------------------------------------------------------------------
\* When all calls come from the adapter, whoever holds blocks is a sequence it
\* knows, whoever was evicted or evicted itself in between, so that clear leaves
\* nothing allocated.
ClearReachesAll ==
    user = "adapter" =>
        /\ sequences \subseteq Requests
        /\ \A r \in Requests \ sequences : owned[r] = {} /\ handed[r] = {}
=============================================================================
