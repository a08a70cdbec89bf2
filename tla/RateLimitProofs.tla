-------------------------- MODULE RateLimitProofs --------------------------
(* The token bucket for any rate, any number of requests and any failures.  *)
EXTENDS RateLimit, TLAPS

-----------------------------------------------------------------------------
(* The products Qps * Token are dealt with here; afterwards Second and       *)
(* Capacity are just numbers.                                               *)

\* A second brings a token at least, and a bucket holds two.
LEMMA Sizes ==
    /\ Token \in Nat /\ Token >= 1
    /\ Second \in Nat /\ Second >= Token
    /\ Capacity \in Nat /\ Capacity >= Token
<1>1. Qps \in Nat /\ Qps >= 1 /\ Token \in Nat /\ Token >= 1
  BY ConstantsAssumption
<1>2. Qps * Token \in Nat /\ Qps * Token >= Token
  BY <1>1
<1> QED BY <1>1, <1>2 DEF Second, Capacity

\* The whole seconds of Retry-After cover what is missing.
LEMMA RetryCovers ==
    ASSUME NEW now \in Nat, Level(now) \in Nat, ~Allows(now)
    PROVE  /\ Second * RetryAfter(now) \in Nat
           /\ Level(now) + Second * RetryAfter(now) >= Token
<1> DEFINE x == Token - Level(now)
<1>1. x \in Nat /\ x >= 1 /\ x <= Second
  BY Sizes DEF Allows
<1>2. ASSUME NEW s \in Nat, s >= 1, NEW y \in Nat, y >= 1, y <= s
      PROVE  (y + s - 1) \div s = 1
  BY <1>2
<1>3. RetryAfter(now) = 1
  BY <1>1, <1>2, Sizes DEF RetryAfter
<1> QED BY <1>1, <1>3, Sizes

-----------------------------------------------------------------------------
(* The invariant.  What is in the bucket has not been taken yet, so it goes  *)
(* on the side of what was taken; and a promise is what the bucket will have *)
(* gained by then, whenever the last script's clock was read.               *)

Balance == taken + tokens <= granted + updated + turnedBack

Promises ==
    \A r \in Requests :
        promise[r] # None /\ exists => tokens + promise[r] - updated >= Token

Empty == ~exists => tokens = 0

IInv == TypeOK /\ Balance /\ Promises /\ Empty

\* Nobody has taken anything and nothing was promised at the start.
LEMMA IInvInit == Init => IInv
<1> SUFFICES ASSUME Init PROVE IInv
  OBVIOUS
<1>1. TypeOK
  <2>1. /\ stamp \in [Requests -> Nat \cup {None}]
        /\ promise \in [Requests -> Nat \cup {None}]
        /\ \A r \in Requests : stamp[r] = None
    BY DEF Init, NoPromises
  <2>2. time \in Nat /\ failures \in Nat /\ taken \in Nat /\ granted \in Nat
        /\ turnedBack \in Nat
    BY DEF Init
  <2>3. tokens \in Nat /\ tokens <= Capacity /\ updated \in Nat /\ updated <= time
    BY Sizes DEF Init
  <2>4. exists \in BOOLEAN
    BY DEF Init
  <2> QED BY <2>1, <2>2, <2>3, <2>4 DEF TypeOK
<1> QED BY <1>1 DEF Init, IInv, Balance, Promises, Empty, NoPromises

\* The level a script finds is between nothing and the capacity.
LEMMA LevelTyped ==
    ASSUME TypeOK, NEW now \in Nat
    PROVE  Level(now) \in Nat /\ Level(now) <= Capacity
BY Sizes DEF TypeOK, Level, AtMost, AtLeast

\* A script keeps the types and the balance, whatever clock it was given.
LEMMA ScriptKeeps ==
    ASSUME IInv, NEW now \in Nat, now <= time, TakeToken(now)
    PROVE  /\ exists' = TRUE
           /\ tokens' \in Nat /\ tokens' <= Capacity
           /\ updated' \in Nat /\ updated' <= time
           /\ taken' \in Nat /\ granted' \in Nat /\ turnedBack' \in Nat
           /\ Balance'
<1>1. Level(now) \in Nat /\ Level(now) <= Capacity
  BY LevelTyped DEF IInv
<1>2. /\ taken' \in Nat /\ granted' \in Nat /\ turnedBack' \in Nat
      /\ tokens' \in Nat /\ tokens' <= Capacity /\ updated' = now
  BY <1>1, Sizes DEF IInv, TypeOK, TakeToken, Allows, AtLeast
<1>3. Balance'
  <2>1. taken' + tokens' = taken + Level(now)
    BY <1>1, Sizes DEF IInv, TypeOK, TakeToken, Allows
  <2>2. CASE exists
    <3>1. Level(now) <= tokens + AtLeast(0, now - updated)
      BY <2>2, Sizes DEF Level, AtMost, AtLeast, IInv, TypeOK
    <3>2. granted' = granted + 0
      BY <2>2 DEF TakeToken
    <3>3. turnedBack' = turnedBack + AtLeast(0, updated - now)
      BY DEF TakeToken
    <3>4. /\ taken \in Nat /\ tokens \in Nat /\ granted \in Nat
          /\ updated \in Nat /\ turnedBack \in Nat
          /\ taken + tokens <= granted + updated + turnedBack
      BY DEF IInv, TypeOK, Balance
    <3>5. AtLeast(0, now - updated) + updated = AtLeast(0, updated - now) + now
          /\ AtLeast(0, now - updated) \in Nat /\ AtLeast(0, updated - now) \in Nat
      BY <3>4 DEF AtLeast
    <3> QED BY <1>1, <1>2, <2>1, <3>1, <3>2, <3>3, <3>4, <3>5 DEF Balance
  <2>3. CASE ~exists
    <3>1. Level(now) = Capacity /\ granted' = granted + Capacity /\ tokens = 0
      BY <2>3 DEF Level, TakeToken, IInv, Empty
    <3> QED BY <1>2, <2>1, <3>1, Sizes
            DEF TakeToken, AtLeast, IInv, TypeOK, Balance
  <2> QED BY <2>2, <2>3
<1> QED BY <1>2, <1>3 DEF TakeToken, IInv, TypeOK

\* A script that takes no token leaves every promise as good as it was.
LEMMA DenialKeepsPromises ==
    ASSUME IInv, NEW now \in Nat, TakeToken(now), ~Allows(now),
           NEW p \in Nat, exists => tokens + p - updated >= Token
    PROVE  tokens' + p - updated' >= Token /\ now < p
<1>1. exists /\ Level(now) < Token /\ Level(now) \in Nat
  BY Sizes, LevelTyped DEF Level, Allows, IInv
<1>2. tokens' = Level(now) /\ updated' = now
  BY <1>1 DEF TakeToken
<1>3. Level(now) = tokens + AtLeast(0, now - updated)
  BY <1>1, Sizes DEF Level, AtMost, AtLeast, IInv, TypeOK
<1> QED BY <1>1, <1>2, <1>3, Sizes DEF AtLeast, IInv, TypeOK

\* The two facts together, as the actions use them.
LEMMA ScriptIInv ==
    ASSUME IInv, NEW r \in Requests, stamp[r] # None, TakeToken(stamp[r]),
           time' = time, failures' \in Nat,
           \/ promise' = NoPromises
           \/ ~Allows(stamp[r]) /\ promise' = promise
           \/ /\ ~Allows(stamp[r])
              /\ promise' = [promise EXCEPT ![r] =
                                stamp[r] + Second * RetryAfter(stamp[r])],
           stamp' = stamp \/ stamp' = [stamp EXCEPT ![r] = None]
    PROVE  IInv'
<1> DEFINE now == stamp[r]
<1>1. now \in Nat /\ now <= time
  BY DEF IInv, TypeOK
<1>2. /\ exists' = TRUE
      /\ tokens' \in Nat /\ tokens' <= Capacity
      /\ updated' \in Nat /\ updated' <= time
      /\ taken' \in Nat /\ granted' \in Nat /\ turnedBack' \in Nat
      /\ Balance'
  BY <1>1, ScriptKeeps
<1>3. Level(now) \in Nat
  BY <1>1, LevelTyped DEF IInv
<1>4. stamp' \in [Requests -> Nat \cup {None}]
      /\ \A q \in Requests : stamp'[q] # None => stamp'[q] <= time
  BY DEF IInv, TypeOK
<1>5. promise' \in [Requests -> Nat \cup {None}] /\ Promises'
  <2>1. CASE promise' = NoPromises
    BY <2>1 DEF NoPromises, Promises
  <2>2. CASE ~Allows(now) /\ promise' = promise
    <3>1. ASSUME NEW q \in Requests, promise[q] # None
          PROVE  tokens' + promise[q] - updated' >= Token
      <4>1. promise[q] \in Nat
        BY <3>1 DEF IInv, TypeOK
      <4>2. exists => tokens + promise[q] - updated >= Token
        BY <3>1 DEF IInv, Promises
      <4> QED BY <1>1, <2>2, <4>1, <4>2, DenialKeepsPromises
    <3> QED BY <2>2, <3>1 DEF Promises, IInv, TypeOK
  <2>3. CASE /\ ~Allows(now)
             /\ promise' = [promise EXCEPT ![r] = now + Second * RetryAfter(now)]
    <3> DEFINE p == now + Second * RetryAfter(now)
    <3>1. Second * RetryAfter(now) \in Nat
          /\ Level(now) + Second * RetryAfter(now) >= Token
      BY <1>1, <1>3, <2>3, RetryCovers
    <3>2. tokens' = Level(now) /\ updated' = now
      BY <1>3, <2>3 DEF TakeToken
    <3>3. p \in Nat /\ tokens' + p - updated' >= Token
      BY <1>1, <1>3, <3>1, <3>2, Sizes
    <3>4. ASSUME NEW q \in Requests, q # r, promise[q] # None
          PROVE  tokens' + promise[q] - updated' >= Token
      <4>1. promise[q] \in Nat
        BY <3>4 DEF IInv, TypeOK
      <4>2. exists => tokens + promise[q] - updated >= Token
        BY <3>4 DEF IInv, Promises
      <4> QED BY <1>1, <2>3, <4>1, <4>2, DenialKeepsPromises
    <3>5. promise' = [promise EXCEPT ![r] = p]
      BY <2>3
    <3> HIDE DEF p
    <3> QED BY <3>3, <3>4, <3>5 DEF Promises, IInv, TypeOK
  <2> QED BY <2>1, <2>2, <2>3
<1> QED BY <1>2, <1>4, <1>5 DEF IInv, TypeOK, Empty

\* Every step keeps the invariant.
LEMMA IInvStep == IInv /\ [Next]_vars => IInv'
<1> SUFFICES ASSUME IInv, [Next]_vars PROVE IInv'
  OBVIOUS
<1>1. CASE Tick
  BY <1>1 DEF Tick, bucket, IInv, TypeOK, Balance, Promises, Empty
<1>2. ASSUME NEW r \in Requests, Arrive(r) PROVE IInv'
  BY <1>2 DEF Arrive, bucket, IInv, TypeOK, Balance, Promises, Empty
<1>3. ASSUME NEW r \in Requests, Allow(r) PROVE IInv'
  BY <1>3, ScriptIInv DEF Allow, Leave, IInv, TypeOK
<1>4. ASSUME NEW r \in Requests, Deny(r) PROVE IInv'
  BY <1>4, ScriptIInv DEF Deny, Leave, IInv, TypeOK
<1>5. ASSUME NEW r \in Requests, Resend(r) PROVE IInv'
  <2>1. /\ stamp[r] # None /\ time' = time /\ failures' \in Nat /\ stamp' = stamp
        /\ TakeToken(stamp[r])
    BY <1>5 DEF Resend, Fail, IInv, TypeOK
  <2>2. promise' = NoPromises \/ (~Allows(stamp[r]) /\ promise' = promise)
    BY <1>5 DEF Resend
  <2> QED BY <2>1, <2>2, ScriptIInv
<1>6. ASSUME NEW r \in Requests, FailOpen(r) PROVE IInv'
  <2>1. CASE TakeToken(stamp[r])
             /\ promise' = IF Allows(stamp[r]) THEN NoPromises ELSE promise
    <3>1. /\ stamp[r] # None /\ time' = time /\ failures' \in Nat
          /\ stamp' = [stamp EXCEPT ![r] = None]
      BY <1>6 DEF FailOpen, Fail, Leave, IInv, TypeOK
    <3>2. promise' = NoPromises \/ (~Allows(stamp[r]) /\ promise' = promise)
      BY <2>1
    <3> QED BY <2>1, <3>1, <3>2, ScriptIInv
  <2>2. CASE UNCHANGED <<bucket, taken, granted, turnedBack, promise>>
    BY <1>6, <2>2 DEF FailOpen, Fail, Leave, bucket, IInv, TypeOK, Balance,
                      Promises, Empty
  <2> QED BY <1>6, <2>1, <2>2 DEF FailOpen
<1>7. CASE LoseBucket
  <2>1. /\ exists' = FALSE /\ tokens' = 0 /\ failures' \in Nat
        /\ UNCHANGED <<time, stamp, updated, taken, granted, turnedBack, promise>>
    BY <1>7 DEF LoseBucket, Fail, IInv, TypeOK
  <2>2. TypeOK'
    <3>1. 0 \in Nat /\ 0 <= Capacity /\ FALSE \in BOOLEAN
      BY Sizes
    <3> QED BY <2>1, <3>1 DEF IInv, TypeOK
  <2>3. Balance'
    BY <2>1 DEF IInv, TypeOK, Balance
  <2> QED BY <2>1, <2>2, <2>3 DEF IInv, Promises, Empty
<1>8. CASE UNCHANGED vars
  BY <1>8 DEF vars, bucket, IInv, TypeOK, Balance, Promises, Empty
<1> QED BY <1>1, <1>2, <1>3, <1>4, <1>5, <1>6, <1>7, <1>8 DEF Next

\* The invariant holds at all times.
LEMMA Invariance == Spec => []IInv
BY IInvInit, IInvStep, PTL DEF Spec

-----------------------------------------------------------------------------
\* A bucket never holds more than its capacity, and every variable has its type.
THEOREM TypeCorrect == Spec => []TypeOK
BY Invariance, PTL DEF IInv

\* RateLimit: over any time the scripts take no more than new buckets held, the
\* bucket gained, and reordering turned the bucket's clock back.
THEOREM RateBounded == Spec => []RateUpToReordering
<1>1. IInv => RateUpToReordering
  BY DEF IInv, TypeOK, Balance, RateUpToReordering
<1> QED BY <1>1, Invariance, PTL

\* RateLimit: Retry-After is long enough, for any rate and in any order of the
\* scripts, as long as nobody else takes a token.
THEOREM RetryAfterSuffices == Spec => PromiseKept
<1>1. ASSUME IInv, NEW r \in Requests, Deny(r), NEW q \in Requests,
             promise[q] # None
      PROVE  stamp[r] < promise[q]
  <2>1. promise[q] \in Nat /\ (exists => tokens + promise[q] - updated >= Token)
    BY <1>1 DEF IInv, TypeOK, Promises
  <2>2. stamp[r] \in Nat /\ ~Allows(stamp[r]) /\ TakeToken(stamp[r])
    BY <1>1 DEF Deny, IInv, TypeOK
  <2> QED BY <1>1, <2>1, <2>2, DenialKeepsPromises
<1>2. IInv => [\A r \in Requests :
                 Deny(r) => \A q \in Requests :
                              promise[q] # None => stamp[r] < promise[q]]_vars
  BY <1>1
<1> QED BY <1>2, Invariance, PTL DEF PromiseKept
=============================================================================
