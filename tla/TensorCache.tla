---------------------------- MODULE TensorCache ----------------------------
(***************************************************************************)
(* The two caches of the inference optimisation, one object of either      *)
(* class: KVCache renews an entry at every get, PrefixCache only when it   *)
(* is stored again.  What an entry holds plays no part.                    *)
(***************************************************************************)
EXTENDS OrderedDict

CONSTANTS
    Keys,          \* keys, or prefixes: sequences of characters (their hashes
                   \* are taken to differ)
    MaxSize,       \* max_size, max_entries
    MaxUses        \* how many uses are counted (a bound of the model)

ASSUME TensorCacheAssumption ==
    /\ MaxSize \in Nat /\ MaxUses \in Nat
    /\ Keys \subseteq Seq(UNION {ToSet(k) : k \in Keys}) /\ <<>> \notin Keys

VARIABLES
    class,         \* the class of the cache
    entries,       \* _cache, _entries: the keys in order, oldest first
    uses,          \* history: how many uses there were
    lastUse        \* history: when each key was renewed, 0 once it is deleted

cacheVars == <<class, entries, uses, lastUse>>

\* _compute_prefix_score, times the length of the prefix: what they share.
Shared(prefix, text) ==
    Max({n \in 0 .. Min({Len(prefix), Len(text)}) :
            SubSeq(prefix, 1, n) = SubSeq(text, 1, n)})

\* PrefixCache.match_prefix: of the entries of which the text shares the largest
\* part, and more than half, the oldest; no key if there is none.
MatchPrefix(text) ==
    LET Beats(p, q) == Shared(p, text) * Len(q) > Shared(q, text) * Len(p)
        best == {i \in DOMAIN entries : /\ 2 * Shared(entries[i], text) > Len(entries[i])
                                        /\ \A k \in ToSet(entries) : ~Beats(k, entries[i])}
    IN  IF best = {} THEN <<>> ELSE entries[Min(best)]

CacheInit ==
    /\ class \in {"KVCache", "PrefixCache"}
    /\ entries = <<>>
    /\ uses = 0
    /\ lastUse = [k \in Keys |-> 0]

Use(k) ==
    /\ uses < MaxUses
    /\ uses' = uses + 1
    /\ lastUse' = [lastUse EXCEPT ![k] = uses + 1]
    /\ UNCHANGED class

\* Mutant: an entry that is set again keeps its place.
SetInPlace(k) ==
    /\ LET longer == IF Contains(entries, k) THEN entries ELSE Append(entries, k)
       IN  entries' = IF Len(longer) > MaxSize THEN Tail(longer) ELSE longer
    /\ Use(k)

\* set, store: to the end, and the oldest goes when there are too many.
Set(k) ==
    /\ LET longer == ToEnd(entries, k)
       IN  entries' = IF Len(longer) > MaxSize THEN Tail(longer) ELSE longer
    /\ Use(k)

\* get and lookup; a miss changes nothing, nor does a hit of a PrefixCache.
Get(k) ==
    /\ class = "KVCache"
    /\ Contains(entries, k)
    /\ entries' = ToEnd(entries, k)
    /\ Use(k)

\* KVCache.delete.
Delete(k) ==
    /\ class = "KVCache"
    /\ entries' = Without(entries, k)
    /\ lastUse' = [lastUse EXCEPT ![k] = 0]
    /\ UNCHANGED <<class, uses>>

\* clear.
ClearCache ==
    /\ entries' = <<>>
    /\ lastUse' = [k \in Keys |-> 0]
    /\ UNCHANGED <<class, uses>>

CacheNext ==
    \/ \E k \in Keys : Set(k) \/ Get(k) \/ Delete(k)
    \/ ClearCache

CacheSpec == CacheInit /\ [][CacheNext]_cacheVars

-----------------------------------------------------------------------------
\* "LRU eviction": a key that was set and is gone without having been deleted
\* was unused for longer than every key that is there, after any sequence of
\* calls, and there are never more than the limit.
EvictsLeastRecent ==
    /\ Len(entries) <= MaxSize /\ IsInjective(entries)
    /\ \A k \in Keys :
          IF Contains(entries, k) THEN lastUse[k] > 0
          ELSE \A e \in ToSet(entries) : lastUse[k] < lastUse[e]
    /\ class = "PrefixCache" =>
          \A k \in ToSet(entries), rest \in Keys :
             LET match == MatchPrefix(k \o rest)
             IN  match # <<>> /\ IsPrefix(match, k \o rest)
=============================================================================
