----------------------------- MODULE RateLimit -----------------------------
(***************************************************************************)
(* The token bucket of the API gateway: a Lua script in Redis that takes a *)
(* token from the bucket of the caller's address.                          *)
(*                                                                         *)
(* The gateway reads its clock before it sends the script, so scripts may  *)
(* run in another order than their clocks were read, and the script stores *)
(* the clock it was given, whichever it is.                                *)
(*                                                                         *)
(* Time advances in ticks, and tokens are measured in what the bucket      *)
(* gains in a tick: a token is Token ticks' worth, a second is Second      *)
(* ticks, and fractions of a token are those of Token.                     *)
(***************************************************************************)
EXTENDS Integers

CONSTANTS
    Requests,      \* the requests of one address that may be in the gateway
    Qps,           \* qps: tokens per second
    Token,         \* ticks in which the bucket gains a token
    MaxTime,       \* how long a behaviour lasts (a bound of the model)
    MaxFailures,   \* how often Redis may fail (a bound of the model)
    None           \* "not in the gateway", "no promise"

ASSUME ConstantsAssumption ==
    /\ Qps \in Nat \ {0} /\ Token \in Nat \ {0}
    /\ MaxTime \in Nat /\ MaxFailures \in Nat /\ None \notin Nat

VARIABLES
    time,          \* the gateway's clock
    stamp,         \* now: the clock as each request read it
    exists,        \* Redis: whether the address has a bucket
    tokens,        \* Redis: tokens
    updated,       \* Redis: updated_at; the last value, when there is no bucket
    failures,      \* how often Redis has failed
    taken,         \* history: what scripts have taken from buckets
    granted,       \* history: what new buckets had in them
    turnedBack,    \* history: how far updated_at has gone back, in all
    promise        \* history: when a denied request may come back, as long as
                   \* no script has taken a token since it was told

bucket == <<exists, tokens, updated>>
vars == <<time, stamp, bucket, failures, taken, granted, turnedBack, promise>>

Second == Qps * Token
Capacity == 2 * Second

AtMost(m, n) == IF m < n THEN m ELSE n
AtLeast(m, n) == IF m > n THEN m ELSE n

-----------------------------------------------------------------------------
(* The script.                                                             *)

\* Mutant: a clock that has gone back takes tokens away.
LevelSigned(now) ==
    IF exists THEN AtMost(Capacity, tokens + (now - updated)) ELSE Capacity

\* The tokens a script finds that is given the clock `now'.
Level(now) ==
    IF exists THEN AtMost(Capacity, tokens + AtLeast(0, now - updated))
    ELSE Capacity

Allows(now) == Level(now) >= Token

\* Mutant: math.floor.
RetryAfterFloor(now) == (Token - Level(now)) \div Second

\* math.ceil of (requested - tokens) / rate, in seconds.
RetryAfter(now) == ((Token - Level(now)) + Second - 1) \div Second

\* Mutant: only a request that is let through renews updated_at.
TakeTokenKeepsTime(now) ==
    /\ exists' = TRUE
    /\ tokens' = Level(now) - (IF Allows(now) THEN Token ELSE 0)
    /\ updated' = IF Allows(now) THEN now ELSE updated
    /\ taken' = taken + (IF Allows(now) THEN Token ELSE 0)
    /\ granted' = granted + (IF exists THEN 0 ELSE Capacity)
    /\ turnedBack' = turnedBack + AtLeast(0, updated - now)

TakeToken(now) ==
    /\ exists' = TRUE
    /\ tokens' = Level(now) - (IF Allows(now) THEN Token ELSE 0)
    /\ updated' = now
    /\ taken' = taken + (IF Allows(now) THEN Token ELSE 0)
    /\ granted' = granted + (IF exists THEN 0 ELSE Capacity)
    /\ turnedBack' = turnedBack + AtLeast(0, updated - now)

Leave(r) == stamp' = [stamp EXCEPT ![r] = None]
NoPromises == [r \in Requests |-> None]
Fail == failures < MaxFailures /\ failures' = failures + 1

-----------------------------------------------------------------------------
Init ==
    /\ time = 0 /\ failures = 0
    /\ stamp = [r \in Requests |-> None]
    /\ exists = FALSE /\ tokens = 0 /\ updated = 0
    /\ taken = 0 /\ granted = 0 /\ turnedBack = 0
    /\ promise = NoPromises

Tick ==
    /\ time < MaxTime
    /\ time' = time + 1
    /\ UNCHANGED <<stamp, bucket, failures, taken, granted, turnedBack, promise>>

\* The middleware reads the clock.
Arrive(r) ==
    /\ stamp[r] = None
    /\ stamp' = [stamp EXCEPT ![r] = time]
    /\ UNCHANGED <<time, bucket, failures, taken, granted, turnedBack, promise>>

\* The script lets the request through.
Allow(r) ==
    /\ stamp[r] # None
    /\ Allows(stamp[r])
    /\ TakeToken(stamp[r])
    /\ promise' = NoPromises
    /\ Leave(r)
    /\ UNCHANGED <<time, failures>>

\* 429, with Retry-After in whole seconds.
Deny(r) ==
    /\ stamp[r] # None
    /\ ~Allows(stamp[r])
    /\ TakeToken(stamp[r])
    /\ promise' = [promise EXCEPT ![r] =
                     stamp[r] + Second * RetryAfter(stamp[r])]
    /\ Leave(r)
    /\ UNCHANGED <<time, failures>>

\* The script runs and its reply is late: the Redis client sends it again.
Resend(r) ==
    /\ stamp[r] # None
    /\ Fail
    /\ TakeToken(stamp[r])
    /\ promise' = IF Allows(stamp[r]) THEN NoPromises ELSE promise
    /\ UNCHANGED <<time, stamp>>

\* Eval returns an error, whether or not the script ran, and the request is let
\* through.
FailOpen(r) ==
    /\ stamp[r] # None
    /\ Fail
    /\ \/ /\ TakeToken(stamp[r])
          /\ promise' = IF Allows(stamp[r]) THEN NoPromises ELSE promise
       \/ UNCHANGED <<bucket, taken, granted, turnedBack, promise>>
    /\ Leave(r)
    /\ UNCHANGED time

\* Redis restarts without the bucket.  (It also expires after a day without a
\* request, when it is full.)
LoseBucket ==
    /\ exists
    /\ Fail
    /\ exists' = FALSE /\ tokens' = 0
    /\ UNCHANGED <<time, stamp, updated, taken, granted, turnedBack, promise>>

Next ==
    \/ Tick
    \/ \E r \in Requests : Arrive(r) \/ Allow(r) \/ Deny(r) \/ Resend(r) \/ FailOpen(r)
    \/ LoseBucket

Spec == Init /\ [][Next]_vars

-----------------------------------------------------------------------------
\* Every variable has its type, a bucket holds no more than its capacity, and no
\* clock that was read is ahead of the clock.
TypeOK ==
    /\ time \in Nat /\ failures \in Nat
    /\ stamp \in [Requests -> Nat \cup {None}]
    /\ \A r \in Requests : stamp[r] # None => stamp[r] <= time
    /\ exists \in BOOLEAN
    /\ tokens \in Nat /\ tokens <= Capacity
    /\ updated \in Nat /\ updated <= time
    /\ taken \in Nat /\ granted \in Nat /\ turnedBack \in Nat
    /\ promise \in [Requests -> Nat \cup {None}]

\* What scripts take from the bucket is what new buckets held and what it gained
\* since the start, plus a second gain of the time by which updated_at ever went
\* back: nothing else (a lost reply, a script that ran twice, an error, a
\* restart of Redis) makes the bucket give more than its rate.
RateUpToReordering == taken <= granted + time + turnedBack

\* Retry-After is enough: a denied request that comes back no sooner is let
\* through, unless another has taken a token since, however the scripts of
\* other denied requests are reordered.
PromiseKept ==
    [][\A r \in Requests :
          Deny(r) => \A q \in Requests :
                        promise[q] # None => stamp[r] < promise[q]]_vars
=============================================================================
