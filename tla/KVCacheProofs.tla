--------------------------- MODULE KVCacheProofs ---------------------------
(***************************************************************************)
(* The KV cache manager for any number of blocks, requests and prefixes,   *)
(* called directly or by the engine's adapter: the pool stays partitioned  *)
(* between the free list and the requests, the manager's own lists of      *)
(* blocks agree with it, whoever holds blocks can be evicted, and the      *)
(* adapter knows whoever holds blocks.                                     *)
(***************************************************************************)
EXTENDS EngineCache, Foundations

-----------------------------------------------------------------------------
(* Lists.                                                                  *)

\* A segment of a list that does not go past its end is a list.
LEMMA SegmentTyped ==
    ASSUME NEW S, NEW seq \in Seq(S), NEW m \in Int, NEW n \in Int,
           1 <= m, n <= Len(seq)
    PROVE  SubSeq(seq, m, n) \in Seq(S)
<1>1. Len(seq) \in Nat
  BY LenProperties
<1>2. \A j \in m .. n : seq[j] \in S
  BY <1>1, ElementOfSeq
<1> QED BY <1>2, SubSeqProperties

\* The victims of an LRU policy are the first of its list, as many as it is asked
\* for if it has as many; the policy forgets them.
LEMMA VictimsApart ==
    ASSUME TypeOK, NEW n \in Int, n >= 0
    PROVE  LET victims == Victims(n)
               rest == SubSeq(lru, Len(victims) + 1, Len(lru))
           IN  /\ Len(victims) <= n
               /\ ToSet(victims) \cup ToSet(rest) = ToSet(lru)
               /\ IsInjective(lru) => /\ IsInjective(victims) /\ IsInjective(rest)
                                      /\ ToSet(victims) \cap ToSet(rest) = {}
<1>1. lru \in Seq(Requests) /\ Len(lru) \in Nat
  BY LenProperties DEF TypeOK
<1>2. CASE policy = "lru"
  <2>1. PICK k \in 0 .. Len(lru) : k = Smaller(n, Len(lru)) /\ k <= n
    BY <1>1 DEF Smaller
  <2>2. Victims(n) = SubSeq(lru, 1, k)
    BY <1>2, <2>1 DEF Victims
  <2>3. Len(Victims(n)) = k
    BY <1>1, <2>2, Parted
  <2>4. /\ ToSet(SubSeq(lru, 1, k)) \cup ToSet(SubSeq(lru, k + 1, Len(lru))) = ToSet(lru)
        /\ IsInjective(lru) =>
              /\ IsInjective(SubSeq(lru, 1, k))
              /\ IsInjective(SubSeq(lru, k + 1, Len(lru)))
              /\ ToSet(SubSeq(lru, 1, k)) \cap ToSet(SubSeq(lru, k + 1, Len(lru))) = {}
    BY <1>1, PartsShareNothing
  <2> QED BY <2>1, <2>2, <2>3, <2>4
<1>3. CASE policy # "lru"
  <2>1. lru = <<>> /\ Victims(n) = <<>> /\ Len(lru) = 0
    BY <1>3, EmptySeq DEF TypeOK, Victims
  <2>2. SubSeq(lru, Len(Victims(n)) + 1, Len(lru)) = <<>>
    BY <2>1, SubSeqEmpty
  <2> QED BY <2>1, <2>2, EmptyList
<1> QED BY <1>2, <1>3

\* clear: what is left of a list when some are gone are the others, each still
\* once.
LEMMA RestOf ==
    ASSUME NEW S, NEW seq \in Seq(S), NEW gone
    PROVE  /\ Rest(seq, gone) \in Seq(S)
           /\ ToSet(Rest(seq, gone)) = ToSet(seq) \ gone
           /\ IsInjective(seq) => IsInjective(Rest(seq, gone))
<1> DEFINE m == Len(seq)
           step == [i \in 1 .. m |->
                      [v \in Seq(S) |-> IF seq[i] \in gone THEN v ELSE Append(v, seq[i])]]
           rest == CHOOSE r : r = [i \in 0 .. m |->
                      IF i = 0 THEN <<>>
                      ELSE IF seq[i] \in gone THEN r[i - 1] ELSE Append(r[i - 1], seq[i])]
           upTo(i) == {seq[j] : j \in 1 .. i}
<1>1. m \in Nat /\ DOMAIN seq = 1 .. m /\ (\A i \in 1 .. m : seq[i] \in S) /\ <<>> \in Seq(S)
  BY LenProperties, ElementOfSeq, EmptySeq
<1>2. Rest(seq, gone) = rest[m]
  BY DEF Rest
<1>3. step \in [1 .. m -> [Seq(S) -> Seq(S)]]
  BY <1>1, AppendProperties
<1>4. /\ rest \in [0 .. m -> Seq(S)] /\ rest[0] = <<>>
      /\ \A i \in 1 .. m : rest[i] = IF seq[i] \in gone THEN rest[i - 1]
                                     ELSE Append(rest[i - 1], seq[i])
  <2> DEFINE body(r) == [i \in 0 .. m |->
                      IF i = 0 THEN <<>>
                      ELSE IF seq[i] \in gone THEN r[i - 1] ELSE Append(r[i - 1], seq[i])]
  <2>1. RecursiveUpto(m, Seq(S), <<>>, step) # {}
    <3> HIDE DEF m, step
    <3> QED BY <1>1, <1>3, BoundedRecursionExists
  <2>2. PICK g \in RecursiveUpto(m, Seq(S), <<>>, step) : TRUE
    BY <2>1
  <2>3. /\ g \in [0 .. m -> Seq(S)] /\ g[0] = <<>>
        /\ \A i \in 1 .. m : g[i] = step[i][g[i - 1]]
    BY <2>2 DEF RecursiveUpto
  <2>4. \A i \in 1 .. m : g[i] = IF seq[i] \in gone THEN g[i - 1]
                                 ELSE Append(g[i - 1], seq[i])
    <3> SUFFICES ASSUME NEW i \in 1 .. m
                 PROVE  g[i] = IF seq[i] \in gone THEN g[i - 1]
                               ELSE Append(g[i - 1], seq[i])
      OBVIOUS
    <3> HIDE DEF m, step
    <3>1. g[i - 1] \in Seq(S)
      BY <1>1, <2>3
    <3>2. step[i][g[i - 1]] = IF seq[i] \in gone THEN g[i - 1]
                              ELSE Append(g[i - 1], seq[i])
      BY <3>1 DEF step
    <3> QED BY <2>3, <3>2
  <2>5. g = body(g)
    <3> HIDE DEF m
    <3>1. g = [i \in 0 .. m |-> g[i]]
      BY <2>3
    <3>2. \A i \in 0 .. m : i = 0 \/ i \in 1 .. m
      BY <1>1
    <3> QED BY <2>3, <2>4, <3>1, <3>2
  <2>6. rest = body(rest)
    <3>1. rest = CHOOSE r : r = body(r)
      OBVIOUS
    <3> HIDE DEF body, rest
    <3> QED BY <2>5, <3>1
  <2>7. /\ DOMAIN rest = 0 .. m /\ rest[0] = <<>>
        /\ \A i \in 1 .. m : rest[i] = IF seq[i] \in gone THEN rest[i - 1]
                                       ELSE Append(rest[i - 1], seq[i])
    <3> HIDE DEF rest, m
    <3>1. DOMAIN body(rest) = 0 .. m /\ body(rest)[0] = <<>>
      BY <1>1
    <3>2. \A i \in 1 .. m : i # 0 /\ i \in 0 .. m
      BY <1>1
    <3>3. \A i \in 1 .. m : body(rest)[i] = IF seq[i] \in gone THEN rest[i - 1]
                                            ELSE Append(rest[i - 1], seq[i])
      BY <3>2
    <3> HIDE DEF body
    <3> QED BY <2>6, <3>1, <3>3
  <2>8. \A i \in 0 .. m : rest[i] \in Seq(S)
    <3> DEFINE T == {i \in 0 .. m : rest[i] \in Seq(S)}
    <3> HIDE DEF rest, m
    <3> HIDE DEF body
    <3>1. 0 \in T
      <4>1. 0 \in 0 .. m /\ rest[0] \in Seq(S)
        <5>1. rest[0] = <<>>
          BY <2>7
        <5>2. <<>> \in Seq(S) /\ 0 \in 0 .. m
          BY <1>1
        <5> QED BY <5>1, <5>2
      <4> QED BY <4>1
    <3>2. ASSUME NEW n \in 0 .. m - 1, n \in T PROVE n + 1 \in T
      <4>1. n + 1 \in 1 .. m /\ (n + 1) - 1 = n /\ rest[n] \in Seq(S)
        BY <1>1, <3>2
      <4>2. rest[n + 1] = IF seq[n + 1] \in gone THEN rest[n]
                          ELSE Append(rest[n], seq[n + 1])
        BY <2>7, <4>1
      <4>3. seq[n + 1] \in S
        BY <1>1, <4>1
      <4>4. rest[n + 1] \in Seq(S)
        BY <4>1, <4>2, <4>3, AppendProperties
      <4>5. n + 1 \in 0 .. m
        BY <1>1, <4>1
      <4> QED BY <4>4, <4>5
    <3> HIDE DEF T
    <3>3. 0 .. m \subseteq T
      BY <1>1, <3>1, <3>2, BoundedInduction
    <3> QED BY <3>3 DEF T
  <2>9. rest = [i \in 0 .. m |-> rest[i]]
    <3> HIDE DEF rest, m
    <3> QED BY <2>6
  <2> HIDE DEF rest, m
  <2> QED BY <2>7, <2>8, <2>9
<1> HIDE DEF rest, step
<1>5. \A i \in 0 .. m : /\ ToSet(rest[i]) = upTo(i) \ gone
                        /\ IsInjective(seq) => IsInjective(rest[i])
  <2> DEFINE T == {i \in 0 .. m : /\ ToSet(rest[i]) = upTo(i) \ gone
                                  /\ IsInjective(seq) => IsInjective(rest[i])}
  <2> HIDE DEF m
  <2>1. 0 \in T
    BY <1>1, <1>4, EmptyList
  <2>2. ASSUME NEW n \in 0 .. m - 1, n \in T PROVE n + 1 \in T
    <3>1. n + 1 \in 1 .. m /\ (n + 1) - 1 = n /\ n \in 0 .. m
      BY <1>1
    <3>2. /\ rest[n] \in Seq(S) /\ seq[n + 1] \in S
          /\ rest[n + 1] = IF seq[n + 1] \in gone THEN rest[n]
                           ELSE Append(rest[n], seq[n + 1])
      BY <1>1, <1>4, <3>1
    <3>3. upTo(n + 1) = upTo(n) \cup {seq[n + 1]}
      BY <3>1
    <3>4. ToSet(rest[n]) = upTo(n) \ gone /\ (IsInjective(seq) => IsInjective(rest[n]))
      BY <2>2
    <3>5. IsInjective(seq) => seq[n + 1] \notin upTo(n)
      BY <1>1, <3>1 DEF IsInjective
    <3> DEFINE s == rest[n]
               x == seq[n + 1]
    <3>6. /\ ToSet(Append(s, x)) = ToSet(s) \cup {x}
          /\ IsInjective(s) /\ x \notin ToSet(s) => IsInjective(Append(s, x))
      BY <3>2, Appended
    <3> HIDE DEF upTo
    <3> QED BY <3>1, <3>2, <3>3, <3>4, <3>5, <3>6
  <2> HIDE DEF T
  <2>3. 0 .. m \subseteq T
    BY <1>1, <2>1, <2>2, BoundedInduction
  <2> QED BY <2>3 DEF T
<1>6. upTo(m) = ToSet(seq)
  BY <1>1 DEF ToSet
<1> HIDE DEF m, upTo
<1> QED BY <1>1, <1>2, <1>4, <1>5, <1>6

-----------------------------------------------------------------------------
(* Blocks.                                                                 *)

\* Blocks are taken from those available, and no more than were asked for.
LEMMA GrabsTyped ==
    ASSUME NEW n \in Int, NEW A \in SUBSET Blocks, NEW g \in Grabs(n, A)
    PROVE  /\ g \subseteq A
           /\ Cardinality(g) \in Nat /\ Cardinality(g) <= n
<1>1. g \subseteq A /\ Cardinality(g) = Smaller(n, Cardinality(A))
  BY DEF Grabs
<1>2. IsFiniteSet(g) /\ IsFiniteSet(A)
  BY <1>1, BlocksAssumption, FS_Subset
<1>3. Cardinality(g) \in Nat /\ Cardinality(A) \in Nat
  BY <1>2, FS_CardinalityType
<1> QED BY <1>1, <1>3 DEF Smaller

\* The victims are requests, and the policy tracks the others.
LEMMA VictimsTyped ==
    ASSUME TypeOK, NEW n \in Int, n >= 0
    PROVE  /\ Victims(n) \in Seq(Requests)
           /\ SubSeq(lru, Len(Victims(n)) + 1, Len(lru)) \in Seq(Requests)
           /\ policy = "lru" \/ SubSeq(lru, Len(Victims(n)) + 1, Len(lru)) = <<>>
<1>1. lru \in Seq(Requests) /\ Len(lru) \in Nat
  BY LenProperties DEF TypeOK
<1>2. CASE policy = "lru"
  <2> DEFINE k == Smaller(n, Len(lru))
  <2>1. k \in Nat /\ k <= Len(lru)
    BY <1>1 DEF Smaller
  <2>2. SubSeq(lru, 1, k) \in Seq(Requests)
    BY <1>1, <2>1, SegmentTyped
  <2>3. Victims(n) = SubSeq(lru, 1, k)
    BY <1>2 DEF Victims
  <2>4. Len(Victims(n)) \in Nat
    BY <2>2, <2>3, LenProperties
  <2> QED BY <1>1, <1>2, <2>2, <2>3, <2>4, SegmentTyped
<1>3. CASE policy # "lru"
  <2>1. lru = <<>> /\ Victims(n) = <<>> /\ Len(lru) = 0
    BY <1>3, EmptySeq DEF TypeOK, Victims
  <2>2. SubSeq(lru, 1, 0) = <<>>
    BY SubSeqEmpty
  <2> QED BY <2>1, <2>2, EmptySeq
<1> QED BY <1>2, <1>3

-----------------------------------------------------------------------------
(* The steps.  Pool holds the three facts about blocks that each step must  *)
(* keep together: who has a block, and what the manager thinks of it.       *)

Pool == PoolPartitioned /\ HandedMatchesPool

IInv == TypeOK /\ Pool

\* Nothing is allocated at the start.
LEMMA IInvInit == Init => IInv
<1> SUFFICES ASSUME Init PROVE IInv
  OBVIOUS
<1>1. TypeOK
  <2>1. <<>> \in Seq(Requests) /\ <<>> \in Seq(Prompts)
    BY EmptySeq
  <2> QED BY <2>1 DEF Init, TypeOK, NoCall
<1>2. PoolPartitioned
  BY DEF Init, PoolPartitioned
<1>3. HandedMatchesPool
  BY RequestsAssumption DEF Init, HandedMatchesPool, NoCall
<1> QED BY <1>1, <1>2, <1>3 DEF IInv, Pool

\* The blocks a call takes from the free list go to its request alone.
LEMMA DirectKeeps ==
    ASSUME IInv, NEW r \in Requests, NEW n \in 1 .. MaxAsk,
           AllocateDirect(r, n)
    PROVE  IInv'
<1> USE DEF IInv, Pool
<1>1. PICK got \in Grabs(n, free) :
          /\ free' = free \ got
          /\ owned' = [owned EXCEPT ![r] = @ \cup got]
          /\ lru' = SubSeq(lru, Len(Victims(n - Cardinality(got))) + 1, Len(lru))
          /\ call' = [req |-> r, need |-> n - Cardinality(got), got |-> got,
                      victims |-> Victims(n - Cardinality(got))]
  BY DEF AllocateDirect
<1>2. call = NoCall /\ UNCHANGED <<handed, policy, order, cached, selfEvicted, unseen>>
  BY DEF AllocateDirect, prefixVars
<1>3. n \in Int /\ free \in SUBSET Blocks
  BY BoundsAssumption DEF TypeOK
<1>4. got \subseteq free /\ n - Cardinality(got) \in Int /\ n - Cardinality(got) >= 0
  BY <1>3, GrabsTyped
<1>5. TypeOK'
  <2>1. /\ Victims(n - Cardinality(got)) \in Seq(Requests)
        /\ lru' \in Seq(Requests)
        /\ policy = "lru" \/ lru' = <<>>
    BY <1>1, <1>4, VictimsTyped
  <2>2. owned' \in [Requests -> SUBSET Blocks]
    BY <1>1, <1>4 DEF TypeOK
  <2> QED BY <1>1, <1>2, <1>4, <2>1, <2>2 DEF TypeOK
<1>6. PoolPartitioned'
  BY <1>1, <1>4 DEF TypeOK, PoolPartitioned
<1>7. HandedMatchesPool'
  BY <1>1, <1>2, RequestsAssumption DEF TypeOK, HandedMatchesPool, NoCall
<1> QED BY <1>5, <1>6, <1>7

\* A victim's blocks go back to the pool before one of them is handed out.
LEMMA EvictKeeps == ASSUME IInv, EvictVictim PROVE IInv'
<1> USE DEF IInv, Pool
<1> DEFINE v == Head(call.victims)
           r == call.req
<1>1. PICK g \in Grabs(1, free \cup owned[v]) :
          /\ free' = (free \cup owned[v]) \ g
          /\ owned' = [[owned EXCEPT ![v] = {}] EXCEPT ![r] = @ \cup g]
          /\ handed' = [handed EXCEPT ![v] = {}]
          /\ call' = [req |-> r, need |-> call.need - Cardinality(g),
                      got |-> call.got \cup g, victims |-> Tail(call.victims)]
          /\ selfEvicted' = IF v = r THEN selfEvicted \cup {r}
                            ELSE selfEvicted \ {v}
  BY DEF EvictVictim
<1>2. call.victims # <<>> /\ UNCHANGED <<policy, lru, order, cached, unseen>>
  BY DEF EvictVictim, prefixVars
<1>3. /\ v \in Requests /\ Tail(call.victims) \in Seq(Requests)
      /\ r \in Requests
  <2>1. call.victims \in Seq(Requests)
    BY DEF TypeOK
  <2>2. r \in Requests
    BY <1>2 DEF TypeOK, NoCall
  <2> QED BY <1>2, <2>1, <2>2, HeadTailProperties
<1>4. g \subseteq free \cup owned[v] /\ Cardinality(g) \in Nat
  BY <1>3, GrabsTyped DEF TypeOK
<1>5. TypeOK'
  <2>1. owned' \in [Requests -> SUBSET Blocks]
    BY <1>1, <1>3, <1>4 DEF TypeOK
  <2>2. call' \in [req : Requests \cup {None}, need : Int,
                   got : SUBSET Blocks, victims : Seq(Requests)]
    BY <1>1, <1>3, <1>4 DEF TypeOK
  <2>3. call'.req \in Requests
    BY <1>1, <1>3 DEF TypeOK
  <2> QED BY <1>1, <1>2, <1>3, <1>4, <2>1, <2>2, <2>3 DEF TypeOK
<1>6. PoolPartitioned'
  <2> DEFINE NowFree == (free \cup owned[v]) \ g
             Before(s) == IF s = v THEN {} ELSE owned[s]
             NowOwned(s) == IF s = r THEN Before(s) \cup g ELSE Before(s)
  <2>1. free' = NowFree /\ \A s \in Requests : owned'[s] = NowOwned(s)
    BY <1>1, <1>3 DEF TypeOK
  <2>2. \A b \in Blocks : b \in NowFree \/ \E s \in Requests : b \in NowOwned(s)
    BY <1>3 DEF PoolPartitioned
  <2>3. \A s \in Requests : NowFree \cap NowOwned(s) = {}
    BY <1>3 DEF PoolPartitioned
  <2>4. \A s, t \in Requests : s # t => NowOwned(s) \cap NowOwned(t) = {}
    BY <1>3, <1>4 DEF PoolPartitioned
  <2> HIDE DEF NowFree, NowOwned
  <2> QED
    BY <2>1, <2>2, <2>3, <2>4 DEF PoolPartitioned
<1>7. HandedMatchesPool'
  <2>1. call'.req = r /\ call'.got = call.got \cup g
    BY <1>1 DEF TypeOK
  <2> QED BY <1>1, <1>3, <2>1 DEF TypeOK, HandedMatchesPool
<1> QED BY <1>5, <1>6, <1>7

\* What the call got is added to the request's list.
LEMMA ReturnsKeeps == ASSUME IInv, AllocateReturns PROVE IInv'
<1> USE DEF IInv, Pool
<1>1. /\ call # NoCall /\ call' = NoCall
      /\ handed' = [handed EXCEPT ![call.req] = @ \cup call.got]
      /\ lru' = IF policy = "lru" THEN ToEnd(lru, call.req) ELSE lru
      /\ unseen' = unseen \ {call.req}
      /\ UNCHANGED <<free, owned, policy, order, cached, selfEvicted>>
  BY DEF AllocateReturns, prefixVars
<1>2. call.req \in Requests /\ call.got \in SUBSET Blocks
  BY <1>1 DEF TypeOK
<1>3. TypeOK'
  <2>1. lru' \in Seq(Requests) /\ (policy = "lru" \/ lru' = <<>>)
    BY <1>1, <1>2, ToEndTyped DEF TypeOK
  <2>2. NoCall \in [req : Requests \cup {None}, need : Int,
                    got : SUBSET Blocks, victims : Seq(Requests)]
    BY EmptySeq DEF NoCall
  <2> QED BY <1>1, <1>2, <2>1, <2>2 DEF TypeOK
<1>4. PoolPartitioned'
  BY <1>1 DEF PoolPartitioned
<1>5. HandedMatchesPool'
  BY <1>1, <1>2, RequestsAssumption DEF TypeOK, HandedMatchesPool, NoCall
<1> QED BY <1>3, <1>4, <1>5

\* A request that is freed leaves nothing behind.
LEMMA FreeKeeps == ASSUME IInv, NEW r \in Requests, Free(r) PROVE IInv'
<1> USE DEF IInv, Pool
<1>1. TypeOK'
  <2>1. lru' \in Seq(Requests)
    BY WithoutTyped DEF Free, TypeOK
  <2>2. policy = "lru" \/ lru' = <<>>
    <3>1. ASSUME lru = <<>> PROVE Without(lru, r) = <<>>
      BY <3>1 DEF Without, ToSet
    <3> QED BY <3>1 DEF Free, TypeOK
  <2> QED BY <2>1, <2>2 DEF Free, TypeOK, prefixVars
<1>2. PoolPartitioned'
  BY DEF Free, TypeOK, PoolPartitioned
<1>3. HandedMatchesPool'
  BY RequestsAssumption DEF Free, TypeOK, HandedMatchesPool, NoCall
<1> QED BY <1>1, <1>2, <1>3

\* The prefix cache keeps lists of prefixes and touches no request's blocks.
LEMMA PrefixKeeps ==
    ASSUME IInv, NEW p \in Prompts,
           \/ \E r \in Requests : StorePrefix(p, r)
           \/ LookupPrefix(p)
    PROVE  IInv'
<1> USE DEF IInv, Pool
<1>1. UNCHANGED <<free, owned, handed, policy, lru, call, selfEvicted, unseen>>
  BY DEF StorePrefix, LookupPrefix, poolVars
<1>2. ToEnd(order, p) \in Seq(Prompts) /\ ToEnd(order, p) # <<>>
  BY ToEndTyped DEF TypeOK
<1>3. /\ Head(ToEnd(order, p)) \in Prompts
      /\ Tail(ToEnd(order, p)) \in Seq(Prompts)
  BY <1>2, HeadTailProperties
<1>4. order' \in Seq(Prompts) /\ cached' \in [Prompts -> SUBSET Blocks]
  <2>1. CASE LookupPrefix(p)
    BY <2>1, <1>2 DEF LookupPrefix, TypeOK
  <2>2. ASSUME NEW r \in Requests, StorePrefix(p, r)
        PROVE  order' \in Seq(Prompts) /\ cached' \in [Prompts -> SUBSET Blocks]
    BY <2>2, <1>2, <1>3 DEF StorePrefix, TypeOK
  <2> QED BY <2>1, <2>2
<1>5. TypeOK'
  BY <1>1, <1>4 DEF TypeOK
<1>6. Pool'
  BY <1>1 DEF PoolPartitioned, HandedMatchesPool
<1> QED BY <1>5, <1>6

\* Every step keeps the invariant.
LEMMA IInvStep == IInv /\ [Next]_vars => IInv'
<1> SUFFICES ASSUME IInv, [Next]_vars PROVE IInv'
  OBVIOUS
<1>1. ASSUME NEW r \in Requests, NEW n \in 1 .. MaxAsk, AllocateDirect(r, n)
      PROVE  IInv'
  BY <1>1, DirectKeeps
<1>2. CASE EvictVictim
  BY <1>2, EvictKeeps
<1>3. CASE AllocateReturns
  BY <1>3, ReturnsKeeps
<1>4. ASSUME NEW r \in Requests, Free(r) PROVE IInv'
  BY <1>4, FreeKeeps
<1>5. ASSUME NEW p \in Policies, SetEvictionPolicy(p) PROVE IInv'
  BY <1>5, EmptySeq DEF SetEvictionPolicy, prefixVars, IInv, TypeOK, Pool,
                        PoolPartitioned, HandedMatchesPool
<1>6. ASSUME NEW p \in Prompts,
             \/ \E r \in Requests : StorePrefix(p, r)
             \/ LookupPrefix(p)
      PROVE  IInv'
  BY <1>6, PrefixKeeps
<1>7. CASE UNCHANGED vars
  BY <1>7 DEF vars, IInv, TypeOK, Pool, PoolPartitioned, HandedMatchesPool
<1> QED BY <1>1, <1>2, <1>3, <1>4, <1>5, <1>6, <1>7 DEF Next

-----------------------------------------------------------------------------
(* Whom the policy can evict.  A request is in the policy's list or among   *)
(* the victims of the call, never in both and never twice, and a call has  *)
(* no more victims than blocks to get: the loop ends without one left.     *)

Tracked ==
    /\ policy = "lru" =>
          \A r \in Requests \ unseen :
              owned[r] # {} => r \in ToSet(lru) \cup ToSet(call.victims) \cup {call.req}
    /\ IsInjective(lru) /\ IsInjective(call.victims)
    /\ ToSet(lru) \cap ToSet(call.victims) = {}
    /\ Len(call.victims) <= call.need

Cached == IsInjective(order) /\ Len(order) <= MaxPrefixes

Reach == Tracked /\ Cached

\* Without a call there are no victims.
LEMMA NoVictims ==
    /\ NoCall.victims = <<>> /\ NoCall.req = None /\ NoCall.need = 0 /\ NoCall.got = {}
    /\ ToSet(<<>>) = {} /\ IsInjective(<<>>) /\ Len(<<>>) = 0
BY EmptyList, EmptySeq DEF NoCall

LEMMA ReachInit == Init => Reach
BY NoVictims, BoundsAssumption DEF Init, Reach, Tracked, Cached

\* The victims leave the policy's list, and the caller is looked after.
LEMMA DirectReaches ==
    ASSUME IInv, Tracked, NEW r \in Requests, NEW n \in 1 .. MaxAsk,
           AllocateDirect(r, n)
    PROVE  Tracked'
<1>1. PICK got \in Grabs(n, free) :
          /\ owned' = [owned EXCEPT ![r] = @ \cup got]
          /\ lru' = SubSeq(lru, Len(Victims(n - Cardinality(got))) + 1, Len(lru))
          /\ call' = [req |-> r, need |-> n - Cardinality(got), got |-> got,
                      victims |-> Victims(n - Cardinality(got))]
  BY DEF AllocateDirect
<1>2. call = NoCall /\ UNCHANGED <<policy, unseen>>
  BY DEF AllocateDirect
<1>3. n \in Int /\ free \in SUBSET Blocks
  BY BoundsAssumption DEF IInv, TypeOK
<1>4. n - Cardinality(got) \in Int /\ n - Cardinality(got) >= 0
  BY <1>3, GrabsTyped
<1> DEFINE need == n - Cardinality(got)
           victims == Victims(need)
           rest == SubSeq(lru, Len(victims) + 1, Len(lru))
<1>5. /\ Len(victims) <= need
      /\ ToSet(victims) \cup ToSet(rest) = ToSet(lru)
      /\ IsInjective(lru) => /\ IsInjective(victims) /\ IsInjective(rest)
                             /\ ToSet(victims) \cap ToSet(rest) = {}
  <2> HIDE DEF need
  <2>1. need \in Int /\ need >= 0
    BY <1>4 DEF need
  <2> QED BY <2>1, VictimsApart DEF IInv
<1>6. /\ lru' = rest /\ call'.victims = victims /\ call'.need = need /\ call'.req = r
  BY <1>1
<1> HIDE DEF rest, victims, need
<1>7. policy' = "lru" =>
          \A s \in Requests \ unseen' :
              owned'[s] # {} => s \in ToSet(lru') \cup ToSet(call'.victims) \cup {call'.req}
  <2> SUFFICES ASSUME policy = "lru", NEW s \in Requests \ unseen, owned'[s] # {}, s # r
               PROVE  s \in ToSet(rest) \cup ToSet(victims)
    BY <1>2, <1>6
  <2>1. owned[s] # {} /\ s # None
    BY <1>1, RequestsAssumption DEF IInv, TypeOK
  <2>2. s \in ToSet(lru)
    BY <1>2, <2>1, NoVictims DEF Tracked
  <2> QED BY <1>5, <2>2
<1> QED BY <1>5, <1>6, <1>7 DEF Tracked

\* A victim that has lost its blocks is out of the policy's concern, and each
\* turn of the loop settles at most one block.
LEMMA EvictReaches == ASSUME IInv, Tracked, EvictVictim PROVE Tracked'
<1> DEFINE v == Head(call.victims)
           r == call.req
           t == Tail(call.victims)
<1>1. PICK g \in Grabs(1, free \cup owned[v]) :
          /\ owned' = [[owned EXCEPT ![v] = {}] EXCEPT ![r] = @ \cup g]
          /\ call' = [req |-> r, need |-> call.need - Cardinality(g),
                      got |-> call.got \cup g, victims |-> t]
  BY DEF EvictVictim
<1>2. call.victims # <<>> /\ UNCHANGED <<policy, lru, unseen>>
  BY DEF EvictVictim
<1>3. /\ call.victims \in Seq(Requests) /\ Len(call.victims) \in Nat /\ call.need \in Int
      /\ owned \in [Requests -> SUBSET Blocks] /\ free \in SUBSET Blocks
  BY LenProperties DEF IInv, TypeOK
<1>4. /\ v \in Requests /\ Len(t) = Len(call.victims) - 1
      /\ ToSet(call.victims) = {v} \cup ToSet(t)
      /\ IsInjective(call.victims) => IsInjective(t)
  BY <1>2, <1>3, HeadApart
<1> HIDE DEF v, r, t
<1>5. Cardinality(g) \in Nat /\ Cardinality(g) <= 1
  <2>1. free \cup owned[v] \in SUBSET Blocks
    BY <1>3, <1>4
  <2> QED BY <2>1, GrabsTyped
<1>6. call'.victims = t /\ call'.need = call.need - Cardinality(g) /\ call'.req = r
  BY <1>1
<1>7. policy' = "lru" =>
          \A s \in Requests \ unseen' :
              owned'[s] # {} => s \in ToSet(lru') \cup ToSet(call'.victims) \cup {call'.req}
  <2> SUFFICES ASSUME policy = "lru", NEW s \in Requests \ unseen, owned'[s] # {}, s # r
               PROVE  s \in ToSet(lru) \cup ToSet(t)
    BY <1>2, <1>6
  <2>1. s # v /\ owned[s] # {}
    BY <1>1, <1>3
  <2>2. s \in ToSet(lru) \cup ToSet(call.victims)
    BY <2>1 DEF Tracked, r
  <2> QED BY <1>4, <2>1, <2>2
<1>8. Len(t) <= call.need - Cardinality(g)
  BY <1>3, <1>4, <1>5 DEF Tracked
<1> QED BY <1>2, <1>4, <1>6, <1>7, <1>8 DEF Tracked

\* The caller joins the policy's list.
LEMMA ReturnsReaches == ASSUME IInv, Tracked, AllocateReturns PROVE Tracked'
<1>1. /\ call # NoCall /\ call' = NoCall
      /\ call.victims = <<>> \/ call.need = 0
      /\ lru' = IF policy = "lru" THEN ToEnd(lru, call.req) ELSE lru
      /\ unseen' = unseen \ {call.req} /\ UNCHANGED <<owned, policy>>
  BY DEF AllocateReturns
<1>2. /\ call.req \in Requests /\ call.victims \in Seq(Requests) /\ Len(call.victims) \in Nat
      /\ lru \in Seq(Requests) /\ IsInjective(lru)
  BY <1>1, LenProperties DEF IInv, TypeOK, Tracked
<1>3. ToSet(call.victims) = {}
  <2>1. Len(call.victims) = 0
    BY <1>1, <1>2, NoVictims DEF Tracked
  <2>2. call.victims = <<>>
    BY <1>2, <2>1, EmptySeq
  <2> QED BY <2>2, NoVictims
<1>4. CASE policy = "lru"
  <2>1. lru' = ToEnd(lru, call.req)
    BY <1>1, <1>4
  <2>2. /\ IsInjective(ToEnd(lru, call.req))
        /\ ToSet(ToEnd(lru, call.req)) = ToSet(lru) \cup {call.req}
    <3> DEFINE r == call.req
    <3>1. r \in Requests /\ lru \in Seq(Requests) /\ IsInjective(lru)
      BY <1>2
    <3> HIDE DEF r
    <3>2. /\ IsInjective(ToEnd(lru, r))
          /\ ToSet(ToEnd(lru, r)) = ToSet(lru) \cup {r}
      BY <3>1, ToEndOf
    <3> QED BY <3>2 DEF r
  <2>3. \A s \in Requests \ unseen' :
           owned'[s] # {} => s \in ToSet(lru') \cup {call.req}
    BY <1>1, <1>3, <1>4, <2>1, <2>2 DEF Tracked
  <2> QED BY <1>1, <2>1, <2>2, <2>3, NoVictims DEF Tracked
<1>5. CASE policy # "lru"
  BY <1>1, <1>2, <1>5, NoVictims DEF Tracked
<1> QED BY <1>4, <1>5

\* Whoever is freed leaves the policy's list and owns nothing.
LEMMA FreeReaches == ASSUME IInv, Tracked, NEW r \in Requests, Free(r) PROVE Tracked'
<1>1. /\ owned' = [owned EXCEPT ![r] = {}] /\ lru' = Without(lru, r)
      /\ UNCHANGED <<policy, call, unseen>>
  BY DEF Free
<1>2. lru \in Seq(Requests) /\ owned \in [Requests -> SUBSET Blocks]
  BY DEF IInv, TypeOK
<1>3. IsInjective(lru') /\ ToSet(lru') = ToSet(lru) \ {r}
  BY <1>1, <1>2, WithoutOf DEF Tracked
<1>4. \A s \in Requests : owned'[s] # {} => s # r /\ owned[s] # {}
  BY <1>1, <1>2
<1> QED BY <1>1, <1>3, <1>4 DEF Tracked

\* The prefix cache holds a prefix once, and drops the oldest when it is full.
LEMMA PrefixCached ==
    ASSUME IInv, Cached, NEW p \in Prompts,
           \/ \E r \in Requests : StorePrefix(p, r)
           \/ LookupPrefix(p)
    PROVE  Cached'
<1> DEFINE longer == ToEnd(order, p)
<1>1. order \in Seq(Prompts) /\ Len(order) \in Nat /\ MaxPrefixes \in Nat
  BY LenProperties, BoundsAssumption DEF IInv, TypeOK
<1>2. /\ longer \in Seq(Prompts) /\ longer # <<>> /\ IsInjective(longer)
      /\ Len(longer) = IF p \in ToSet(order) THEN Len(order) ELSE Len(order) + 1
  BY <1>1, ToEndOf DEF Cached
<1>3. CASE LookupPrefix(p)
  BY <1>2, <1>3 DEF LookupPrefix, Cached
<1>4. ASSUME NEW r \in Requests, StorePrefix(p, r) PROVE Cached'
  <2>1. order' = IF Len(longer) > MaxPrefixes THEN Tail(longer) ELSE longer
    BY <1>4 DEF StorePrefix
  <2> HIDE DEF longer
  <2>2. Len(Tail(longer)) = Len(longer) - 1 /\ IsInjective(Tail(longer))
    BY <1>2, HeadApart
  <2>3. Len(longer) <= MaxPrefixes + 1
    BY <1>1, <1>2 DEF Cached
  <2>4. Len(longer) \in Nat
    BY <1>2, LenProperties
  <2>5. Len(order') <= MaxPrefixes
    BY <1>1, <2>1, <2>2, <2>3, <2>4
  <2> QED BY <1>2, <2>1, <2>2, <2>5 DEF Cached
<1> QED BY <1>3, <1>4

\* Every step keeps the policy and the prefix cache in order.
LEMMA ReachStep == IInv /\ Reach /\ [Next]_vars => Reach'
<1> SUFFICES ASSUME IInv, Reach, [Next]_vars PROVE Reach'
  OBVIOUS
<1> USE DEF Reach
<1>1. ASSUME NEW r \in Requests, NEW n \in 1 .. MaxAsk, AllocateDirect(r, n)
      PROVE  Reach'
  BY <1>1, DirectReaches DEF AllocateDirect, prefixVars, Cached
<1>2. CASE EvictVictim
  BY <1>2, EvictReaches DEF EvictVictim, prefixVars, Cached
<1>3. CASE AllocateReturns
  BY <1>3, ReturnsReaches DEF AllocateReturns, prefixVars, Cached
<1>4. ASSUME NEW r \in Requests, Free(r) PROVE Reach'
  BY <1>4, FreeReaches DEF Free, prefixVars, Cached
<1>5. ASSUME NEW p \in Policies, SetEvictionPolicy(p) PROVE Reach'
  BY <1>5, NoVictims DEF SetEvictionPolicy, prefixVars, Cached, Tracked
<1>6. ASSUME NEW p \in Prompts,
             \/ \E r \in Requests : StorePrefix(p, r)
             \/ LookupPrefix(p)
      PROVE  Reach'
  <2>1. UNCHANGED <<owned, policy, lru, call, unseen>>
    BY <1>6 DEF StorePrefix, LookupPrefix, poolVars
  <2>2. Cached'
    BY <1>6, PrefixCached
  <2> QED BY <2>1, <2>2 DEF Tracked
<1>7. CASE UNCHANGED vars
  BY <1>7 DEF vars, Tracked, Cached
<1> QED BY <1>1, <1>2, <1>3, <1>4, <1>5, <1>6, <1>7 DEF Next

\* What the policy tracks and what the call will evict make one list.
LEMMA ReachSays == IInv /\ Reach => HoldersEvictable
<1> SUFFICES ASSUME IInv, Reach PROVE HoldersEvictable
  OBVIOUS
<1>1. lru \in Seq(Requests) /\ call.victims \in Seq(Requests)
  BY DEF IInv, TypeOK
<1>2. IsInjective(lru \o call.victims)
  BY <1>1, Concatenated DEF Reach, Tracked
<1> QED BY <1>2 DEF Reach, Tracked, Cached, HoldersEvictable

-----------------------------------------------------------------------------
(* The adapter.  A call in progress is one for a sequence it knows.        *)

Known ==
    user = "adapter" =>
        /\ sequences \subseteq Requests
        /\ \A r \in Requests \ sequences : owned[r] = {} /\ handed[r] = {}
        /\ call # NoCall => call.req \in sequences

UserInv == IInv /\ Reach /\ Known

LEMMA UserInit == AdapterInit => UserInv
BY IInvInit, ReachInit DEF AdapterInit, UserInv, Known, Init

\* clear returns the blocks of every sequence and leaves the others alone.
LEMMA ClearKeeps == ASSUME IInv, Reach, sequences \subseteq Requests, Clear
                    PROVE  IInv' /\ Reach'
<1>1. /\ call = NoCall
      /\ free' = free \cup UNION {owned[s] : s \in sequences}
      /\ owned' = [r \in Requests |-> IF r \in sequences THEN {} ELSE owned[r]]
      /\ handed' = [r \in Requests |-> IF r \in sequences THEN {} ELSE handed[r]]
      /\ lru' = Rest(lru, sequences)
      /\ selfEvicted' = selfEvicted \ sequences
      /\ order' = <<>> /\ cached' = [p \in Prompts |-> {}]
      /\ UNCHANGED <<policy, call, unseen>>
  BY DEF Clear
<1>2. lru \in Seq(Requests) /\ owned \in [Requests -> SUBSET Blocks] /\ IsInjective(lru)
  BY DEF IInv, TypeOK, Reach, Tracked
<1>3. /\ lru' \in Seq(Requests) /\ ToSet(lru') = ToSet(lru) \ sequences
      /\ IsInjective(lru')
  BY <1>1, <1>2, RestOf
<1>4. lru = <<>> => lru' = <<>>
  <2> SUFFICES ASSUME lru = <<>> PROVE lru' = <<>>
    OBVIOUS
  <2>1. ToSet(lru') = {}
    BY <1>3, EmptyList
  <2>2. \A i \in 1 .. Len(lru') : FALSE
    BY <1>3, <2>1, MembersTyped
  <2>3. Len(lru') \in Nat
    BY <1>3, LenProperties
  <2>4. Len(lru') = 0
    BY <2>2, <2>3
  <2> QED BY <1>3, <2>4, EmptySeq
<1>5. TypeOK'
  <2>1. free' \in SUBSET Blocks /\ owned' \in [Requests -> SUBSET Blocks]
    BY <1>1 DEF IInv, TypeOK
  <2>2. handed' \in [Requests -> SUBSET Blocks] /\ selfEvicted' \in SUBSET Requests
    BY <1>1 DEF IInv, TypeOK
  <2>3. order' \in Seq(Prompts) /\ cached' \in [Prompts -> SUBSET Blocks]
    BY <1>1, EmptySeq
  <2>4. policy' = "lru" \/ lru' = <<>>
    BY <1>1, <1>4 DEF IInv, TypeOK
  <2> QED BY <1>1, <1>3, <2>1, <2>2, <2>3, <2>4 DEF IInv, TypeOK
<1>6. PoolPartitioned'
  <2>1. \A r \in Requests : r \in sequences \/ owned'[r] = owned[r]
    BY <1>1
  <2>2. \A r \in Requests : r \in sequences => owned'[r] = {}
    BY <1>1
  <2>3. \A b \in Blocks : b \in free' \/ \E r \in Requests : b \in owned'[r]
    BY <1>1, <2>1 DEF IInv, Pool, PoolPartitioned
  <2>4. \A r \in Requests : free' \cap owned'[r] = {}
    BY <1>1, <2>1, <2>2 DEF IInv, Pool, PoolPartitioned
  <2>5. \A r, s \in Requests : r # s => owned'[r] \cap owned'[s] = {}
    BY <2>1, <2>2 DEF IInv, Pool, PoolPartitioned
  <2> QED BY <2>3, <2>4, <2>5 DEF PoolPartitioned
<1>7. HandedMatchesPool'
  BY <1>1, NoVictims, RequestsAssumption DEF IInv, Pool, HandedMatchesPool
<1>8. Tracked'
  <2>1. \A s \in Requests : owned'[s] # {} => s \notin sequences /\ owned[s] # {}
    BY <1>1
  <2> QED BY <1>1, <1>3, <2>1 DEF Reach, Tracked
<1>9. Cached'
  BY <1>1, NoVictims, BoundsAssumption DEF Cached
<1> QED BY <1>5, <1>6, <1>7, <1>8, <1>9 DEF IInv, Pool, Reach

\* Each of the adapter's calls is a call of the manager for a sequence that it
\* knows, or clear.
LEMMA AdapterKeeps ==
    ASSUME UserInv, user = "adapter", AdapterNext, UNCHANGED user
    PROVE  UserInv'
<1> USE DEF UserInv
<1>1. /\ sequences \subseteq Requests
      /\ \A r \in Requests \ sequences : owned[r] = {} /\ handed[r] = {}
      /\ call # NoCall => call.req \in sequences
      /\ user' = "adapter"
  BY DEF Known
<1>2. ASSUME [Next]_vars PROVE IInv' /\ Reach'
  BY <1>2, IInvStep, ReachStep
<1>3. /\ owned \in [Requests -> SUBSET Blocks] /\ handed \in [Requests -> SUBSET Blocks]
      /\ None \notin Requests
  BY RequestsAssumption DEF IInv, TypeOK
<1>4. ASSUME NEW s \in Requests, NEW n \in 1 .. MaxAsk, AllocateDirect(s, n),
             sequences' = sequences \cup {s}
      PROVE  UserInv'
  <2>1. IInv' /\ Reach'
    BY <1>2, <1>4 DEF Next
  <2>2. PICK g \in Grabs(n, free) :
            /\ owned' = [owned EXCEPT ![s] = @ \cup g]
            /\ call' = [req |-> s, need |-> n - Cardinality(g), got |-> g,
                        victims |-> Victims(n - Cardinality(g))]
    BY <1>4 DEF AllocateDirect
  <2>3. handed' = handed
    BY <1>4 DEF AllocateDirect
  <2>4. Known'
    BY <1>1, <1>3, <1>4, <2>2, <2>3 DEF Known
  <2> QED BY <2>1, <2>4
<1>5. ASSUME NEW s \in Requests, OnTokenGenerated(s) PROVE UserInv'
  <2>1. 1 \in 1 .. MaxAsk
    BY BoundsAssumption
  <2>2. s \in sequences /\ AllocateDirect(s, 1) /\ sequences' = sequences
    BY <1>5 DEF OnTokenGenerated
  <2>3. sequences' = sequences \cup {s}
    BY <2>2
  <2> QED BY <1>4, <2>1, <2>2, <2>3
<1>6. ASSUME NEW s \in Requests, FinalizeSequence(s) PROVE UserInv'
  <2>1. Free(s) /\ sequences' = sequences \ {s}
    BY <1>6 DEF FinalizeSequence
  <2>2. IInv' /\ Reach'
    BY <1>2, <2>1 DEF Next
  <2>3. Known'
    BY <1>1, <1>3, <2>1 DEF Known, Free
  <2> QED BY <2>2, <2>3
<1>7. CASE Clear
  <2>1. IInv' /\ Reach'
    BY <1>1, <1>7, ClearKeeps
  <2>2. Known'
    BY <1>1, <1>3, <1>7 DEF Known, Clear
  <2> QED BY <2>1, <2>2
<1>8. CASE EvictVictim /\ UNCHANGED sequences
  <2>1. IInv' /\ Reach'
    BY <1>2, <1>8 DEF Next
  <2>2. call # NoCall
    BY <1>8, NoVictims DEF EvictVictim
  <2>3. PICK g \in Grabs(1, free \cup owned[Head(call.victims)]) :
            /\ owned' = [[owned EXCEPT ![Head(call.victims)] = {}]
                             EXCEPT ![call.req] = @ \cup g]
            /\ handed' = [handed EXCEPT ![Head(call.victims)] = {}]
            /\ call' = [req |-> call.req, need |-> call.need - Cardinality(g),
                        got |-> call.got \cup g, victims |-> Tail(call.victims)]
    BY <1>8 DEF EvictVictim
  <2>4. Known'
    BY <1>1, <1>3, <1>8, <2>2, <2>3 DEF Known
  <2> QED BY <2>1, <2>4
<1>9. CASE AllocateReturns /\ UNCHANGED sequences
  <2>1. IInv' /\ Reach'
    BY <1>2, <1>9 DEF Next
  <2>2. Known'
    BY <1>1, <1>3, <1>9 DEF Known, AllocateReturns
  <2> QED BY <2>1, <2>2
<1>10. CASE /\ \/ \E p \in Policies : SetEvictionPolicy(p)
               \/ \E p \in Prompts : LookupPrefix(p) \/ \E r \in Requests : StorePrefix(p, r)
            /\ UNCHANGED sequences
  <2>1. IInv' /\ Reach'
    BY <1>2, <1>10 DEF Next
  <2>2. UNCHANGED <<owned, handed, call>>
    BY <1>10 DEF SetEvictionPolicy, LookupPrefix, StorePrefix, poolVars
  <2>3. Known'
    BY <1>1, <1>10, <2>2 DEF Known
  <2> QED BY <2>1, <2>3
<1> QED BY <1>4, <1>5, <1>6, <1>7, <1>8, <1>9, <1>10 DEF AdapterNext, InitializeSequence

\* Every step of either user keeps the invariant.
LEMMA UserStep == UserInv /\ [UserNext]_cacheAdapterVars => UserInv'
<1> SUFFICES ASSUME UserInv, [UserNext]_cacheAdapterVars PROVE UserInv'
  OBVIOUS
<1>1. CASE user = "direct" /\ Next /\ UNCHANGED <<sequences, user>>
  <2>1. IInv' /\ Reach'
    BY <1>1, IInvStep, ReachStep DEF UserInv
  <2> QED BY <1>1, <2>1 DEF UserInv, Known
<1>2. CASE user = "adapter" /\ AdapterNext /\ UNCHANGED user
  BY <1>2, AdapterKeeps
<1>3. CASE UNCHANGED cacheAdapterVars
  <2>1. UNCHANGED vars /\ UNCHANGED <<user, sequences>>
    BY <1>3 DEF cacheAdapterVars
  <2>2. IInv' /\ Reach'
    BY <2>1, IInvStep, ReachStep DEF UserInv
  <2>3. Known'
    BY <2>1 DEF UserInv, Known, vars
  <2> QED BY <2>2, <2>3 DEF UserInv
<1> QED BY <1>1, <1>2, <1>3 DEF UserNext

\* The invariant holds whoever calls the manager.
LEMMA UserInvariance == UserSpec => []UserInv
BY UserInit, UserStep, PTL DEF UserSpec

-----------------------------------------------------------------------------
(* The theorems, for a manager that is called directly or by the adapter.  *)

\* Every variable has its type, and only an LRU policy tracks requests.
THEOREM TypeCorrect == UserSpec => []TypeOK
BY UserInvariance, PTL DEF UserInv, IInv

\* BlockPool: however the pool is exhausted and whoever is evicted, each block
\* is free or belongs to exactly one request.
THEOREM NoBlockLostOrShared == UserSpec => []PoolPartitioned
BY UserInvariance, PTL DEF UserInv, IInv, Pool

\* KVCacheManager: a request that was never the victim of its own call has in
\* _request_blocks just the blocks the pool says it owns.
THEOREM ManagerAgreesWithPool == UserSpec => []HandedMatchesPool
BY UserInvariance, PTL DEF UserInv, IInv, Pool

\* LRUEvictionPolicy: whoever holds blocks can be evicted, nobody is a victim
\* twice, and the prefix cache keeps within its limit.
THEOREM EveryHolderEvictable == UserSpec => []HoldersEvictable
<1>1. UserInv => HoldersEvictable
  BY ReachSays DEF UserInv
<1> QED BY <1>1, UserInvariance, PTL

\* EngineCacheAdapter: whoever holds blocks is a sequence the adapter knows, so
\* that clear leaves nothing allocated.
THEOREM ClearLeavesNothing == UserSpec => []ClearReachesAll
<1>1. UserInv => ClearReachesAll
  BY DEF UserInv, Known, ClearReachesAll
<1> QED BY <1>1, UserInvariance, PTL
=============================================================================
