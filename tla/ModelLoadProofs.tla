-------------------------- MODULE ModelLoadProofs --------------------------
(***************************************************************************)
(* Proofs about ModelLoad, for any number of handlers, processes and       *)
(* instances and any failures.  The invariant that is inductive is the     *)
(* conjunction of the type invariant, the two bounds on the scores and the *)
(* bounds on the save that a restart of Redis brings back.                 *)
(***************************************************************************)
EXTENDS ModelLoad, Foundations

-----------------------------------------------------------------------------
(* What the parts of an action do to the variables they write.             *)

\* A fault that happens keeps the record of failures a record of numbers.
LEMMA FaultTyped ==
    ASSUME TypeOK, NEW kind, Fault(kind)
    PROVE  faults' \in [FaultKinds -> Nat]
<1>1. kind \in FaultKinds
  BY FaultsAssumption DEF Fault
<1>2. faults \in [FaultKinds -> Nat] /\ faults[kind] + 1 \in Nat
  BY <1>1 DEF TypeOK
<1> QED
  BY <1>1, <1>2 DEF Fault

\* The script raises a score and stays within the instances.
LEMMA AddTaskTyped ==
    ASSUME TypeOK, NEW i \in Instances, AddTask(i)
    PROVE  /\ member' \in SUBSET Instances
           /\ load' \in Counts
           /\ snapshot' = snapshot
BY DEF TypeOK, AddTask, Counts

\* The decrement lowers a score and stays within the instances.
LEMMA RemoveTaskTyped ==
    ASSUME TypeOK, NEW i \in Instances, RemoveTask(i)
    PROVE  /\ member' \in SUBSET Instances
           /\ load' \in Counts
           /\ snapshot' = snapshot
BY DEF TypeOK, RemoveTask, Counts

-----------------------------------------------------------------------------
\* The type invariant of the load balancer (all handlers, script and faults).
THEOREM TypeCorrect == Spec => []TypeOK
<1>1. Init => TypeOK
  BY InstancesAssumption DEF Init, TypeOK, Counts, FaultKinds
<1>2. TypeOK /\ [Next]_vars => TypeOK'
  <2> SUFFICES ASSUME TypeOK, [Next]_vars PROVE TypeOK'
    OBVIOUS
  <2>1. ASSUME NEW i \in Instances, Register(i) \/ Deregister(i)
        PROVE TypeOK'
    BY <2>1 DEF Register, Deregister, TypeOK, redisVars
  <2>2. ASSUME NEW h \in Handlers, DiscoverService(h) PROVE TypeOK'
    BY <2>2 DEF DiscoverService, TypeOK, redisVars
  <2>3. ASSUME NEW h \in Handlers, SelectAndRegister(h) PROVE TypeOK'
    <3>1. PICK a \in view[h] :
             /\ AddTask(a)
             /\ addr' = [addr EXCEPT ![h] = a]
      BY <2>3 DEF SelectAndRegister, SelectScript
    <3>2. a \in Instances
      BY <3>1 DEF TypeOK
    <3> QED
      BY <2>3, <3>1, <3>2, AddTaskTyped, InstancesAssumption
      DEF SelectAndRegister, TypeOK
  <2>4. ASSUME NEW h \in Handlers, SelectFails(h) PROVE TypeOK'
    BY <2>4 DEF SelectFails, TypeOK, redisVars
  <2>5. ASSUME NEW h \in Handlers, SelectLost(h) \/ SelectResent(h)
        PROVE TypeOK'
    <3>1. PICK a \in view[h] : AddTask(a)
      BY <2>5 DEF SelectLost, SelectResent, SelectScript
    <3>2. a \in Instances
      BY DEF TypeOK
    <3>3. faults' \in [FaultKinds -> Nat]
      BY <2>5, FaultTyped DEF SelectLost, SelectResent
    <3> QED
      BY <2>5, <3>1, <3>2, <3>3, AddTaskTyped
      DEF SelectLost, SelectResent, TypeOK
  <2>6. ASSUME NEW h \in Handlers, StreamEnds(h) PROVE TypeOK'
    BY <2>6 DEF StreamEnds, TypeOK, redisVars
  <2>7. ASSUME NEW h \in Handlers, DecrementTaskCount(h) PROVE TypeOK'
    <3>1. addr[h] \in Instances
      BY <2>7 DEF DecrementTaskCount, TypeOK
    <3> QED
      BY <2>7, <3>1, RemoveTaskTyped DEF DecrementTaskCount, TypeOK
  <2>8. ASSUME NEW h \in Handlers, DecrementFails(h) PROVE TypeOK'
    BY <2>8, FaultTyped DEF DecrementFails, TypeOK, redisVars
  <2>9. ASSUME NEW h \in Handlers, DecrementResent(h) PROVE TypeOK'
    <3>1. addr[h] \in Instances
      BY <2>9 DEF DecrementResent, TypeOK
    <3> QED
      BY <2>9, <3>1, RemoveTaskTyped, FaultTyped DEF DecrementResent, TypeOK
  <2>10. ASSUME NEW r \in Replicas, Crash(r) PROVE TypeOK'
    BY <2>10, FaultTyped DEF Crash, TypeOK, redisVars
  <2>11. CASE RedisSaves
    BY <2>11 DEF RedisSaves, TypeOK
  <2>12. CASE RedisRestarts
    BY <2>12, FaultTyped DEF RedisRestarts, TypeOK
  <2>13. CASE UNCHANGED vars
    BY <2>13 DEF vars, TypeOK
  <2> QED
    BY <2>1, <2>2, <2>3, <2>4, <2>5, <2>6, <2>7, <2>8, <2>9, <2>10, <2>11,
       <2>12, <2>13 DEF Next, HandlerStep
<1> QED
  BY <1>1, <1>2, PTL DEF Spec

-----------------------------------------------------------------------------
(* How failures change the two slacks, and handlers the requests in flight. *)

N == Cardinality(Handlers)

\* A part of the handlers is no more than all of them.
LEMMA SubsetCardinality ==
    ASSUME NEW S \in SUBSET Handlers
    PROVE  IsFiniteSet(S) /\ Cardinality(S) \in Nat /\ Cardinality(S) <= N
<1>1. IsFiniteSet(Handlers)
  BY HandlersAssumption
<1>2. IsFiniteSet(S) /\ Cardinality(S) <= N
  BY <1>1, FS_Subset DEF N
<1> QED
  BY <1>2, FS_CardinalityType

\* The products of the two slacks, each as one number.
PerRestart == N * faults["restart"]
PerDisaster == N * (faults["crash"] + faults["restart"])

\* Multiplying the handlers by two kinds of failure or by their sum is the same.
LEMMA SlackSums ==
    /\ Shortfall = faults["releaseResent"] + PerRestart
    /\ Excess = faults["selectLost"] + faults["selectResent"]
                  + faults["releaseFailed"] + PerDisaster
BY DEF Shortfall, Excess, PerRestart, PerDisaster, N

\* A fault adds one to its own kind and nothing to the others.
LEMMA FaultCounts ==
    ASSUME TypeOK
    PROVE  /\ \A k \in FaultKinds : faults[k] \in Nat
           /\ N \in Nat /\ PerRestart \in Nat /\ PerDisaster \in Nat
<1>1. N \in Nat
  BY SubsetCardinality DEF N
<1>2. \A k \in FaultKinds : faults[k] \in Nat
  BY DEF TypeOK
<1>3. faults["restart"] \in Nat /\ faults["crash"] + faults["restart"] \in Nat
  BY <1>2 DEF FaultKinds
<1>4. \A y \in Nat : N * y \in Nat
  BY <1>1
<1> QED
  BY <1>1, <1>2, <1>3, <1>4 DEF PerRestart, PerDisaster

\* What the failures explain, either way, is a number.
LEMMA SlackType ==
    ASSUME TypeOK
    PROVE  N \in Nat /\ Shortfall \in Nat /\ Excess \in Nat
BY FaultCounts, SlackSums DEF FaultKinds

\* No fault takes from what the failures explain, and each adds what it is counted for.
LEMMA FaultSlack ==
    ASSUME TypeOK, NEW kind \in FaultKinds, Fault(kind)
    PROVE  /\ kind \in {"selectLost", "selectResent", "releaseFailed"} =>
                 Shortfall' = Shortfall /\ Excess' = Excess + 1
           /\ kind = "releaseResent" =>
                 Shortfall' = Shortfall + 1 /\ Excess' = Excess
           /\ kind = "crash" =>
                 Shortfall' = Shortfall /\ Excess' = Excess + N
           /\ kind = "restart" =>
                 Shortfall' = Shortfall + N /\ Excess' = Excess + N
<1>1. \A k \in FaultKinds :
        faults'[k] = IF k = kind THEN faults[k] + 1 ELSE faults[k]
  BY DEF TypeOK, Fault
<1>2. /\ N \in Nat
      /\ \A k \in FaultKinds : faults[k] \in Nat
      /\ PerRestart \in Nat /\ PerDisaster \in Nat
  BY FaultCounts
<1>3. \A x \in Nat : N * (x + 1) = N * x + N
  BY <1>2
<1>4. PerRestart' = IF kind = "restart" THEN PerRestart + N ELSE PerRestart
  <2>1. PerRestart' = N * faults'["restart"]
    BY DEF PerRestart, N
  <2> QED
    BY <1>1, <1>2, <1>3, <2>1 DEF PerRestart, FaultKinds
<1>5. PerDisaster' = IF kind \in {"crash", "restart"}
                     THEN PerDisaster + N ELSE PerDisaster
  <2>1. PerDisaster' = N * (faults'["crash"] + faults'["restart"])
    BY DEF PerDisaster, N
  <2>2. /\ faults["crash"] + faults["restart"] \in Nat
        /\ faults'["crash"] + faults'["restart"] =
             IF kind \in {"crash", "restart"}
             THEN (faults["crash"] + faults["restart"]) + 1
             ELSE faults["crash"] + faults["restart"]
    BY <1>1, <1>2 DEF FaultKinds
  <2> QED
    BY <1>3, <2>1, <2>2 DEF PerDisaster
<1>6. /\ Shortfall' = faults'["releaseResent"] + PerRestart'
      /\ Excess' = faults'["selectLost"] + faults'["selectResent"]
                     + faults'["releaseFailed"] + PerDisaster'
  BY DEF Shortfall, Excess, PerRestart, PerDisaster, N
<1> QED
  BY <1>1, <1>2, <1>4, <1>5, <1>6, SlackSums DEF FaultKinds

\* A selection puts one handler more in flight on its instance.
LEMMA TakenInFlight ==
    ASSUME TypeOK, NEW h \in Handlers, NEW a \in Instances, addr[h] = None,
           addr' = [addr EXCEPT ![h] = a], NEW i \in Instances
    PROVE  Cardinality(InFlight(i)') =
             IF i = a THEN Cardinality(InFlight(i)) + 1
                      ELSE Cardinality(InFlight(i))
<1>1. IsFiniteSet(InFlight(i)) /\ h \notin InFlight(i)
  BY SubsetCardinality, InstancesAssumption DEF InFlight
<1>2. InFlight(i)' = IF i = a THEN InFlight(i) \cup {h} ELSE InFlight(i)
  BY InstancesAssumption DEF InFlight, TypeOK
<1> QED
  BY <1>1, <1>2, FS_AddElement

\* A handler that ends is one less in flight on its instance.
LEMMA GivenBackInFlight ==
    ASSUME TypeOK, NEW h \in Handlers, addr[h] \in Instances,
           addr' = [addr EXCEPT ![h] = None], NEW i \in Instances
    PROVE  Cardinality(InFlight(i)') =
             IF i = addr[h] THEN Cardinality(InFlight(i)) - 1
                            ELSE Cardinality(InFlight(i))
<1>1. IsFiniteSet(InFlight(i)) /\ (h \in InFlight(i) <=> i = addr[h])
  BY SubsetCardinality DEF InFlight
<1>2. InFlight(i)' = InFlight(i) \ {h}
  BY InstancesAssumption DEF InFlight, TypeOK
<1>3. i # addr[h] => InFlight(i) \ {h} = InFlight(i)
  BY <1>1
<1> QED
  BY <1>1, <1>2, <1>3, FS_RemoveElement

\* The handlers in flight on an instance are finitely many.
LEMMA InFlightCount ==
    ASSUME NEW i \in Instances
    PROVE  /\ Cardinality(InFlight(i)) \in 0 .. N
           /\ Cardinality(InFlight(i)') \in 0 .. N
<1>1. InFlight(i) \in SUBSET Handlers /\ InFlight(i)' \in SUBSET Handlers
  BY DEF InFlight
<1>2. N \in Nat
  BY SubsetCardinality DEF N
<1> QED
  BY <1>1, <1>2, SubsetCardinality

-----------------------------------------------------------------------------
\* The part of the inductive invariant about one instance.
Bounded(i) ==
    /\ load[i] >= Cardinality(InFlight(i)) - Shortfall
    /\ load[i] <= Cardinality(InFlight(i)) + Excess
    /\ snapshot.load[i] >= - Shortfall
    /\ snapshot.load[i] <= N + Excess

IInv == TypeOK /\ \A i \in Instances : Bounded(i)

\* The invariant is what the properties say, put together.
LEMMA IInvMeaning ==
    IInv <=> TypeOK /\ NeverUndercounts /\ OvercountBounded /\ SnapshotBounded
BY DEF IInv, Bounded, NeverUndercounts, OvercountBounded, SnapshotBounded, N

\* Nothing is in flight and no score is set at the start.
LEMMA IInvInit == Init => IInv
<1> SUFFICES ASSUME Init PROVE IInv
  OBVIOUS
<1>1. TypeOK
  BY InstancesAssumption DEF Init, TypeOK, Counts, FaultKinds
<1>2. Shortfall \in Nat /\ Excess \in Nat /\ N \in Nat
  BY <1>1, SlackType
<1>3. ASSUME NEW i \in Instances PROVE Bounded(i)
  <2>1. InFlight(i) = {}
    BY InstancesAssumption DEF Init, InFlight
  <2>2. load[i] = 0 /\ snapshot.load[i] = 0
    BY DEF Init
  <2> QED
    BY <1>2, <2>1, <2>2, FS_EmptySet DEF Bounded
<1> QED
  BY <1>1, <1>3 DEF IInv

\* A step that touches neither the scores, nor who holds an instance, nor the
\* record of failures.
LEMMA IdleStep ==
    ASSUME IInv, TypeOK', UNCHANGED <<load, snapshot, addr, faults>>
    PROVE  IInv'
<1>1. Shortfall' = Shortfall /\ Excess' = Excess
  BY DEF Shortfall, Excess
<1>2. \A i \in Instances : InFlight(i)' = InFlight(i)
  BY DEF InFlight
<1> QED
  BY <1>1, <1>2 DEF IInv, Bounded, N

\* Every step of a handler, of Redis and of the registry keeps the invariant.
LEMMA IInvStep == IInv /\ TypeOK' /\ [Next]_vars => IInv'
<1> SUFFICES ASSUME IInv, TypeOK', [Next]_vars PROVE IInv'
  OBVIOUS
<1>a. TypeOK /\ N' = N
  BY DEF IInv, N
<1>b. Shortfall \in Nat /\ Excess \in Nat /\ N \in Nat
  BY <1>a, SlackType
<1>c. \A i \in Instances :
         /\ load[i] \in Int /\ snapshot.load[i] \in Int
         /\ load'[i] \in Int /\ snapshot'.load[i] \in Int
  BY <1>a DEF TypeOK, Counts
<1>d. \A i \in Instances : Bounded(i)
  BY DEF IInv
<1>e. faults' = faults => Shortfall' = Shortfall /\ Excess' = Excess
  BY DEF Shortfall, Excess
<1>f. addr' = addr => \A i \in Instances : InFlight(i)' = InFlight(i)
  BY DEF InFlight
<1>1. ASSUME NEW h \in Handlers, SelectAndRegister(h) PROVE IInv'
  <2>1. PICK a \in view[h] : AddTask(a) /\ addr' = [addr EXCEPT ![h] = a]
    BY <1>1 DEF SelectAndRegister, SelectScript
  <2>2. a \in Instances /\ addr[h] = None /\ faults' = faults
    BY <1>1, <1>a DEF TypeOK, SelectAndRegister
  <2>3. ASSUME NEW i \in Instances PROVE Bounded(i)'
    <3>1. Cardinality(InFlight(i)') = IF i = a
                                      THEN Cardinality(InFlight(i)) + 1
                                      ELSE Cardinality(InFlight(i))
      BY <1>a, <2>1, <2>2, TakenInFlight
    <3>2. load'[i] = IF i = a THEN load[i] + 1 ELSE load[i]
      BY <1>a, <2>1, <2>2 DEF AddTask, TypeOK, Counts
    <3>3. snapshot' = snapshot
      BY <2>1 DEF AddTask
    <3> QED
      BY <1>a, <1>b, <1>c, <1>d, <1>e, <2>2, <3>1, <3>2, <3>3, InFlightCount
      DEF Bounded
  <2> QED
    BY <2>3 DEF IInv
<1>2. ASSUME NEW h \in Handlers, SelectLost(h) \/ SelectResent(h) PROVE IInv'
  <2>1. PICK a \in view[h] : AddTask(a)
    BY <1>2 DEF SelectLost, SelectResent, SelectScript
  <2>2. a \in Instances /\ addr' = addr
    BY <1>2, <1>a DEF TypeOK, SelectLost, SelectResent
  <2>3. Shortfall' = Shortfall /\ Excess' = Excess + 1
    BY <1>2, <1>a, FaultSlack DEF SelectLost, SelectResent, FaultKinds
  <2>4. ASSUME NEW i \in Instances PROVE Bounded(i)'
    <3>1. load'[i] = IF i = a THEN load[i] + 1 ELSE load[i]
      BY <1>a, <2>1, <2>2 DEF AddTask, TypeOK, Counts
    <3>2. snapshot' = snapshot
      BY <2>1 DEF AddTask
    <3> QED
      BY <1>a, <1>b, <1>c, <1>d, <1>f, <2>2, <2>3, <3>1, <3>2, InFlightCount
      DEF Bounded
  <2> QED
    BY <2>4 DEF IInv
<1>3. ASSUME NEW h \in Handlers, DecrementTaskCount(h) PROVE IInv'
  <2>1. /\ addr[h] \in Instances /\ RemoveTask(addr[h])
        /\ addr' = [addr EXCEPT ![h] = None] /\ faults' = faults
    BY <1>3, <1>a DEF DecrementTaskCount, TypeOK
  <2>2. ASSUME NEW i \in Instances PROVE Bounded(i)'
    <3>1. Cardinality(InFlight(i)') = IF i = addr[h]
                                      THEN Cardinality(InFlight(i)) - 1
                                      ELSE Cardinality(InFlight(i))
      BY <1>a, <2>1, GivenBackInFlight
    <3>2. load'[i] = IF i = addr[h] THEN load[i] - 1 ELSE load[i]
      BY <1>a, <2>1 DEF RemoveTask, TypeOK, Counts
    <3>3. snapshot' = snapshot
      BY <2>1 DEF RemoveTask
    <3> QED
      BY <1>a, <1>b, <1>c, <1>d, <1>e, <2>1, <3>1, <3>2, <3>3, InFlightCount
      DEF Bounded
  <2> QED
    BY <2>2 DEF IInv
<1>4. ASSUME NEW h \in Handlers, DecrementFails(h) PROVE IInv'
  <2>1. /\ addr[h] \in Instances /\ addr' = [addr EXCEPT ![h] = None]
        /\ load' = load /\ snapshot' = snapshot
    BY <1>4, <1>a DEF DecrementFails, TypeOK, redisVars
  <2>2. Shortfall' = Shortfall /\ Excess' = Excess + 1
    BY <1>4, <1>a, FaultSlack DEF DecrementFails, FaultKinds
  <2>3. ASSUME NEW i \in Instances PROVE Bounded(i)'
    <3>1. Cardinality(InFlight(i)') = IF i = addr[h]
                                      THEN Cardinality(InFlight(i)) - 1
                                      ELSE Cardinality(InFlight(i))
      BY <1>a, <2>1, GivenBackInFlight
    <3> QED
      BY <1>a, <1>b, <1>c, <1>d, <2>1, <2>2, <3>1, InFlightCount DEF Bounded
  <2> QED
    BY <2>3 DEF IInv
<1>5. ASSUME NEW h \in Handlers, DecrementResent(h) PROVE IInv'
  <2>1. /\ addr[h] \in Instances /\ RemoveTask(addr[h]) /\ addr' = addr
    BY <1>5, <1>a DEF DecrementResent, TypeOK
  <2>2. Shortfall' = Shortfall + 1 /\ Excess' = Excess
    BY <1>5, <1>a, FaultSlack DEF DecrementResent, FaultKinds
  <2>3. ASSUME NEW i \in Instances PROVE Bounded(i)'
    <3>1. load'[i] = IF i = addr[h] THEN load[i] - 1 ELSE load[i]
      BY <1>a, <2>1 DEF RemoveTask, TypeOK, Counts
    <3>2. snapshot' = snapshot
      BY <2>1 DEF RemoveTask
    <3> QED
      BY <1>a, <1>b, <1>c, <1>d, <1>f, <2>1, <2>2, <3>1, <3>2, InFlightCount
      DEF Bounded
  <2> QED
    BY <2>3 DEF IInv
<1>6. ASSUME NEW r \in Replicas, Crash(r) PROVE IInv'
  <2>1. load' = load /\ snapshot' = snapshot
    BY <1>6 DEF Crash, redisVars
  <2>2. Shortfall' = Shortfall /\ Excess' = Excess + N
    BY <1>6, <1>a, FaultSlack DEF Crash, FaultKinds
  <2>3. ASSUME NEW i \in Instances PROVE Bounded(i)'
    <3>1. InFlight(i)' \in SUBSET InFlight(i)
      BY <1>6, InstancesAssumption DEF Crash, InFlight, TypeOK
    <3>2. Cardinality(InFlight(i)') <= Cardinality(InFlight(i))
      BY <3>1, FS_Subset, SubsetCardinality DEF InFlight
    <3> QED
      BY <1>a, <1>b, <1>c, <1>d, <2>1, <2>2, <3>2, InFlightCount DEF Bounded
  <2> QED
    BY <2>3 DEF IInv
<1>7. CASE RedisSaves
  <2>1. /\ load' = load /\ addr' = addr /\ faults' = faults
        /\ snapshot'.load = load
    BY <1>7 DEF RedisSaves
  <2>2. ASSUME NEW i \in Instances PROVE Bounded(i)'
    BY <1>a, <1>b, <1>c, <1>d, <1>e, <1>f, <2>1, InFlightCount DEF Bounded
  <2> QED
    BY <2>2 DEF IInv
<1>8. CASE RedisRestarts
  <2>1. load' = snapshot.load /\ snapshot' = snapshot /\ addr' = addr
    BY <1>8 DEF RedisRestarts
  <2>2. Shortfall' = Shortfall + N /\ Excess' = Excess + N
    BY <1>8, <1>a, FaultSlack DEF RedisRestarts, FaultKinds
  <2>3. ASSUME NEW i \in Instances PROVE Bounded(i)'
    BY <1>a, <1>b, <1>c, <1>d, <1>f, <2>1, <2>2, InFlightCount DEF Bounded
  <2> QED
    BY <2>3 DEF IInv
<1>9. CASE \/ \E i \in Instances : Register(i) \/ Deregister(i)
           \/ \E h \in Handlers :
                DiscoverService(h) \/ SelectFails(h) \/ StreamEnds(h)
           \/ UNCHANGED vars
  BY <1>9, IdleStep
  DEF Register, Deregister, DiscoverService, SelectFails, StreamEnds, vars,
      redisVars
<1> QED
  BY <1>1, <1>2, <1>3, <1>4, <1>5, <1>6, <1>7, <1>8, <1>9
  DEF Next, HandlerStep

\* The invariant holds at all times.
LEMMA Invariance == Spec => []IInv
<1>1. IInv /\ TypeOK' /\ [Next]_vars => IInv'
  BY IInvStep
<1>2. Init => IInv
  BY IInvInit
<1> QED
  BY <1>1, <1>2, TypeCorrect, PTL DEF Spec

\* An instance in use never looks idle for any reason but a decrement Redis got
\* twice or a restart of Redis (model_cache.go with the handler's deferred call).
THEOREM NoHiddenLoad == Spec => []NeverUndercounts
BY Invariance, IInvMeaning, PTL

\* Every return path of StreamChat gives back what its selection took: a score
\* is too high only by the lost calls, crashes and restarts there have been.
THEOREM LoadIsGivenBack == Spec => []OvercountBounded
BY Invariance, IInvMeaning, PTL

-----------------------------------------------------------------------------
(* The script's scan.                                                       *)

Scans == [min : Int, best : Instances \cup {None}, done : BOOLEAN]

\* One turn of the loop, field by field.
LEMMA TurnOf ==
    ASSUME load \in Counts, NEW acc \in Scans, NEW i \in Instances
    PROVE  /\ ScanInstance(acc, i) \in Scans
           /\ acc.done => ScanInstance(acc, i) = acc
           /\ ~acc.done /\ (i \notin member \/ load[i] = 0) =>
                 ScanInstance(acc, i).done /\ ScanInstance(acc, i).best = i
           /\ ~acc.done /\ i \in member /\ load[i] # 0 =>
                 /\ ~ScanInstance(acc, i).done
                 /\ IF acc.min = -1 \/ load[i] < acc.min
                    THEN /\ ScanInstance(acc, i).best = i
                         /\ ScanInstance(acc, i).min = load[i]
                    ELSE ScanInstance(acc, i) = acc
<1>1. load[i] \in Int
  BY DEF Counts
<1> QED
  BY <1>1 DEF ScanInstance, Scans

\* The loop has a value after each turn (the recursive definition has a solution
\* on the numbers up to the length of ARGV).
LEMMA ScanUnfolds ==
    ASSUME load \in Counts, InstancesAssumption,
           NEW m \in Nat, NEW order \in [1 .. m -> Instances]
    PROVE  \E scan \in [0 .. m -> Scans] :
              /\ scan[0] = [min |-> -1, best |-> None, done |-> FALSE]
              /\ \A n \in 1 .. m : scan[n] = ScanInstance(scan[n - 1], order[n])
              /\ BestInstance(order) = scan[m].best
<1> DEFINE v0 == [min |-> -1, best |-> None, done |-> FALSE]
           step == [n \in 1 .. m |-> [acc \in Scans |-> ScanInstance(acc, order[n])]]
           body(r) == [n \in 0 .. m |-> IF n = 0 THEN v0 ELSE ScanInstance(r[n - 1], order[n])]
           scan == CHOOSE r : r = body(r)
<1>1. Len(order) = m
  <2>1. order \in Seq(Instances)
    BY SeqDef
  <2>2. DOMAIN order = 1 .. Len(order) /\ Len(order) \in Nat /\ DOMAIN order = 1 .. m
    BY <2>1, LenProperties
  <2> QED
    BY <2>2
<1>2. BestInstance(order) = scan[m].best
  BY <1>1 DEF BestInstance
<1>3. v0 \in Scans
  BY DEF Scans
<1>4. step \in [1 .. m -> [Scans -> Scans]]
  BY TurnOf
<1> HIDE DEF v0
<1>5. RecursiveUpto(m, Scans, v0, step) # {}
  <2> HIDE DEF step
  <2> QED BY <1>3, <1>4, BoundedRecursionExists
<1>6. PICK g \in RecursiveUpto(m, Scans, v0, step) : TRUE
  BY <1>5
<1>7. /\ g \in [0 .. m -> Scans] /\ g[0] = v0
      /\ \A n \in 1 .. m : g[n] = ScanInstance(g[n - 1], order[n])
  <2>1. g \in [0 .. m -> Scans] /\ g[0] = v0 /\ \A n \in 1 .. m : g[n] = step[n][g[n - 1]]
    BY <1>6 DEF RecursiveUpto
  <2>2. ASSUME NEW n \in 1 .. m PROVE step[n][g[n - 1]] = ScanInstance(g[n - 1], order[n])
    <3>1. g[n - 1] \in Scans
      BY <2>1
    <3> QED
      BY <3>1
  <2> HIDE DEF step
  <2> QED
    BY <2>1, <2>2
<1>8. g = body(g)
  <2>1. g = [n \in 0 .. m |-> g[n]]
    BY <1>7
  <2>2. \A n \in 0 .. m : n = 0 \/ n \in 1 .. m
    OBVIOUS
  <2> QED BY <1>7, <2>1, <2>2
<1>9. scan = body(scan)
  <2>1. scan = CHOOSE r : r = body(r)
    OBVIOUS
  <2> HIDE DEF body, scan
  <2> QED BY <1>8, <2>1
<1>10. scan = g
  <2> HIDE DEF scan
  <2>1. DOMAIN scan = 0 .. m /\ scan = [n \in 0 .. m |-> scan[n]] /\ scan[0] = v0
    BY <1>9
  <2>2. \A n \in 1 .. m : scan[n] = ScanInstance(scan[n - 1], order[n])
    <3>1. \A n \in 1 .. m : n # 0 /\ n \in 0 .. m
      OBVIOUS
    <3>2. \A n \in 1 .. m : body(scan)[n] = ScanInstance(scan[n - 1], order[n])
      BY <3>1
    <3> HIDE DEF body
    <3> QED BY <1>9, <3>2
  <2> DEFINE T == {n \in 0 .. m : scan[n] = g[n]}
  <2>3. 0 \in T
    BY <1>7, <2>1
  <2>4. ASSUME NEW n \in 0 .. m - 1, n \in T PROVE n + 1 \in T
    <3>1. n + 1 \in 1 .. m /\ (n + 1) - 1 = n /\ n + 1 \in 0 .. m
      OBVIOUS
    <3>2. scan[n] = g[n]
      BY <2>4
    <3> QED BY <1>7, <2>2, <3>1, <3>2
  <2>5. 0 .. m \subseteq T
    <3> HIDE DEF T
    <3> QED BY <2>3, <2>4, BoundedInduction
  <2>6. g = [n \in 0 .. m |-> g[n]]
    BY <1>7
  <2> HIDE DEF body, v0
  <2> QED BY <2>1, <2>5, <2>6
<1> HIDE DEF scan
<1> QED
  BY <1>2, <1>7, <1>10 DEF v0

\* While no score is negative and an instance without a score has none, the
\* script returns an instance of ARGV with the least score of ARGV.
LEMMA BestOf ==
    ASSUME load \in Counts, \A i \in Instances : load[i] >= 0,
           \A i \in Instances : i \notin member => load[i] = 0,
           NEW S \in SUBSET Instances, S # {}, NEW order \in Orderings(S)
    PROVE  /\ BestInstance(order) \in S
           /\ \A b \in S : load[BestInstance(order)] <= load[b]
<1> DEFINE m == Cardinality(S)
<1>1. IsFiniteSet(S) /\ m \in Nat /\ m # 0
  BY InstancesAssumption, FS_Subset, FS_CardinalityType, FS_EmptySet
<1>2. order \in [1 .. m -> S] /\ \A i, j \in 1 .. m : i # j => order[i] # order[j]
  BY DEF Orderings, SetToSeqs
<1>3. \A b \in S : \E i \in 1 .. m : order[i] = b
  <2>1. order \in Injection(1 .. m, S)
    BY <1>2 DEF Injection, IsInjective
  <2>2. Cardinality(1 .. m) = m
    BY <1>1, FS_Interval
  <2>3. order \in Surjection(1 .. m, S)
    BY <1>1, <2>1, <2>2, FS_Injection
  <2> QED
    BY <2>3 DEF Surjection
<1> HIDE DEF m
<1>4. order \in [1 .. m -> Instances]
  BY <1>2
<1>5. PICK scan \in [0 .. m -> Scans] :
         /\ scan[0] = [min |-> -1, best |-> None, done |-> FALSE]
         /\ \A n \in 1 .. m : scan[n] = ScanInstance(scan[n - 1], order[n])
         /\ BestInstance(order) = scan[m].best
  BY <1>1, <1>4, InstancesAssumption, ScanUnfolds
<1> DEFINE Least(acc, n) ==
             /\ acc.done => acc.best \in S /\ load[acc.best] = 0
             /\ ~acc.done => (acc.min = -1 <=> n = 0)
             /\ ~acc.done /\ n # 0 => /\ acc.best \in S /\ acc.min = load[acc.best]
                                      /\ \A j \in 1 .. n : acc.min <= load[order[j]]
           T == {n \in 0 .. m : Least(scan[n], n)}
<1>6. 0 \in T
  BY <1>1, <1>5
<1>7. ASSUME NEW n \in 0 .. m - 1, n \in T PROVE n + 1 \in T
  <2> DEFINE acc == scan[n]
             next == scan[n + 1]
             i == order[n + 1]
  <2>1. n \in Nat /\ n + 1 \in 1 .. m /\ n + 1 \in 0 .. m /\ (n + 1) - 1 = n /\ n \in 0 .. m
    BY <1>1
  <2>2. acc \in Scans /\ i \in S /\ i \in Instances /\ next = ScanInstance(acc, i)
    BY <1>2, <1>5, <2>1
  <2>3. Least(acc, n)
    BY <1>7
  <2>4. \A k \in Instances : load[k] \in Int
    BY DEF Counts
  <2>5. \A j \in 1 .. n + 1 : j \in 1 .. n \/ j = n + 1
    BY <2>1
  <2>6. \A j \in 1 .. n : order[j] \in Instances
    <3>1. \A j \in 1 .. n : j \in 1 .. m
      BY <1>1, <2>1
    <3> QED
      BY <1>4, <3>1
  <2> HIDE DEF acc, next, T
  <2>7. CASE acc.done
    <3>1. next = acc
      BY <2>2, <2>7, TurnOf
    <3> QED
      BY <2>1, <2>3, <2>7, <3>1 DEF T, next
  <2>8. CASE ~acc.done /\ (i \notin member \/ load[i] = 0)
    <3>1. next.done /\ next.best = i
      BY <2>2, <2>8, TurnOf
    <3> QED
      BY <2>1, <2>2, <2>8, <3>1 DEF T, next
  <2>9. CASE ~acc.done /\ i \in member /\ load[i] # 0
    <3>1. /\ ~next.done
          /\ IF acc.min = -1 \/ load[i] < acc.min
             THEN next.best = i /\ next.min = load[i]
             ELSE next = acc
      BY <2>2, <2>9, TurnOf
    <3>2. load[i] > 0 /\ acc.min \in Int
      BY <2>2, <2>4, <2>9 DEF Scans
    <3>3. Least(next, n + 1)
      <4>1. CASE acc.min = -1 \/ load[i] < acc.min
        <5>1. next.best = i /\ next.min = load[i]
          BY <3>1, <4>1
        <5>2. ASSUME NEW j \in 1 .. n + 1 PROVE load[i] <= load[order[j]]
          <6>1. CASE j = n + 1
            BY <2>2, <2>4, <6>1
          <6>2. CASE j \in 1 .. n
            <7>1. n # 0
              BY <6>2
            <7>2. load[i] < acc.min /\ acc.min <= load[order[j]]
              BY <2>3, <2>9, <4>1, <6>2, <7>1
            <7> QED
              BY <2>2, <2>4, <2>6, <3>2, <6>2, <7>2
          <6> QED
            BY <2>5, <6>1, <6>2
        <5> QED
          BY <2>1, <2>2, <3>1, <3>2, <5>1, <5>2
      <4>2. CASE ~(acc.min = -1 \/ load[i] < acc.min)
        <5>1. next = acc /\ n # 0 /\ acc.min <= load[i]
          BY <2>2, <2>3, <2>4, <2>9, <3>1, <3>2, <4>2
        <5>2. \A j \in 1 .. n + 1 : acc.min <= load[order[j]]
          BY <2>3, <2>5, <2>9, <5>1
        <5> QED
          BY <2>1, <2>3, <2>9, <4>2, <5>1, <5>2
      <4> QED
        BY <4>1, <4>2
    <3> QED
      BY <2>1, <3>3 DEF T, next
  <2> QED
    BY <2>7, <2>8, <2>9
<1>8. m \in T
  <2> HIDE DEF T
  <2>1. 0 .. m \subseteq T
    BY <1>1, <1>6, <1>7, BoundedInduction
  <2> QED
    BY <1>1, <2>1
<1> DEFINE acc == scan[m]
<1>9. Least(acc, m)
  BY <1>8
<1>10. BestInstance(order) = acc.best /\ acc \in Scans
  BY <1>1, <1>5
<1> HIDE DEF acc
<1>11. \A k \in Instances : load[k] \in Int
  BY DEF Counts
<1>12. CASE acc.done
  <2>1. acc.best \in S /\ load[acc.best] = 0
    BY <1>9, <1>12
  <2>2. \A b \in S : 0 <= load[b]
    BY <1>11
  <2> QED
    BY <1>10, <2>1, <2>2
<1>13. CASE ~acc.done
  <2>1. /\ acc.best \in S /\ acc.min = load[acc.best]
        /\ \A j \in 1 .. m : acc.min <= load[order[j]]
    BY <1>1, <1>9, <1>13
  <2>2. \A b \in S : acc.min <= load[b]
    BY <1>3, <2>1
  <2> QED
    BY <1>10, <2>1, <2>2
<1> QED
  BY <1>12, <1>13

-----------------------------------------------------------------------------
(* What the choice needs besides the bounds on the scores.                  *)

\* Nobody selects at the start and nothing has a score.
LEMMA ReadyInit == Init => ChoiceReady
BY DEF Init, ChoiceReady

\* The script makes a member of the instance it scores.
LEMMA AddTaskReady ==
    ASSUME TypeOK, ChoiceReady, NEW a \in Instances, AddTask(a),
           \A h \in Handlers : view'[h] # {} <=> pc'[h] = "selecting"
    PROVE  ChoiceReady'
BY DEF AddTask, TypeOK, Counts, ChoiceReady

\* The decrement does as well.
LEMMA RemoveTaskReady ==
    ASSUME TypeOK, ChoiceReady, NEW a \in Instances, RemoveTask(a),
           \A h \in Handlers : view'[h] # {} <=> pc'[h] = "selecting"
    PROVE  ChoiceReady'
BY DEF RemoveTask, TypeOK, Counts, ChoiceReady

\* Every step keeps it.
LEMMA ReadyStep == TypeOK /\ ChoiceReady /\ [Next]_vars => ChoiceReady'
<1> SUFFICES ASSUME TypeOK, ChoiceReady, [Next]_vars PROVE ChoiceReady'
  OBVIOUS
<1> USE DEF redisVars
<1>1. ASSUME NEW i \in Instances, Register(i) \/ Deregister(i)
      PROVE  ChoiceReady'
  BY <1>1 DEF Register, Deregister, ChoiceReady
<1>2. ASSUME NEW h \in Handlers, DiscoverService(h) PROVE ChoiceReady'
  BY <1>2 DEF DiscoverService, ChoiceReady, TypeOK
<1>3. ASSUME NEW h \in Handlers, SelectFails(h) \/ StreamEnds(h) \/ DecrementFails(h)
      PROVE  ChoiceReady'
  BY <1>3 DEF SelectFails, StreamEnds, DecrementFails, ChoiceReady, TypeOK
<1>4. ASSUME NEW h \in Handlers, SelectAndRegister(h) \/ SelectLost(h) \/ SelectResent(h)
      PROVE  ChoiceReady'
  <2>1. PICK a \in view[h] : AddTask(a)
    BY <1>4 DEF SelectAndRegister, SelectLost, SelectResent, SelectScript
  <2>2. a \in Instances
    BY DEF TypeOK
  <2>3. \A g \in Handlers : view'[g] # {} <=> pc'[g] = "selecting"
    BY <1>4 DEF SelectAndRegister, SelectLost, SelectResent, ChoiceReady, TypeOK
  <2> QED
    BY <2>1, <2>2, <2>3, AddTaskReady
<1>5. ASSUME NEW h \in Handlers, DecrementTaskCount(h) \/ DecrementResent(h)
      PROVE  ChoiceReady'
  <2>1. addr[h] \in Instances /\ RemoveTask(addr[h])
    BY <1>5 DEF DecrementTaskCount, DecrementResent, TypeOK
  <2>2. \A g \in Handlers : view'[g] # {} <=> pc'[g] = "selecting"
    BY <1>5 DEF DecrementTaskCount, DecrementResent, ChoiceReady, TypeOK
  <2> QED
    BY <2>1, <2>2, RemoveTaskReady
<1>6. ASSUME NEW r \in Replicas, Crash(r) PROVE ChoiceReady'
  BY <1>6 DEF Crash, ChoiceReady, TypeOK
<1>7. CASE RedisSaves
  BY <1>7 DEF RedisSaves, ChoiceReady, TypeOK
<1>8. CASE RedisRestarts
  BY <1>8 DEF RedisRestarts, ChoiceReady, TypeOK
<1>9. CASE UNCHANGED vars
  BY <1>9 DEF vars, ChoiceReady
<1> QED
  BY <1>1, <1>2, <1>3, <1>4, <1>5, <1>6, <1>7, <1>8, <1>9 DEF Next, HandlerStep

LEMMA AlwaysReady == Spec => []ChoiceReady
<1>1. Init => ChoiceReady
  BY ReadyInit
<1>2. TypeOK /\ ChoiceReady /\ [Next]_vars => ChoiceReady'
  BY ReadyStep
<1> QED
  BY <1>1, <1>2, TypeCorrect, PTL DEF Spec

-----------------------------------------------------------------------------
(* The choice.                                                              *)

\* What the script takes while no score can be too low.
LEMMA SelectScriptChooses ==
    ASSUME IInv, ChoiceReady, NoUndercountYet,
           NEW h \in Handlers, NEW a \in view[h], SelectScript(h, a)
    PROVE  \A b \in view[h] : load[a] <= load[b]
<1>1. TypeOK /\ load \in Counts /\ view[h] \in SUBSET Instances /\ view[h] # {}
  BY DEF IInv, TypeOK
<1>2. N \in Nat /\ N * 0 = 0
  BY <1>1, SlackType
<1>3. Shortfall = 0
  BY <1>2 DEF NoUndercountYet, Shortfall, N
<1>4. ASSUME NEW i \in Instances PROVE load[i] >= 0
  <2>1. load[i] >= Cardinality(InFlight(i)) - 0 /\ Cardinality(InFlight(i)) \in Nat
    BY <1>2, <1>3, InFlightCount DEF IInv, Bounded
  <2>2. load[i] \in Int
    BY <1>1 DEF Counts
  <2> QED
    BY <2>1, <2>2
<1>5. PICK order \in Orderings(view[h]) : a = BestInstance(order)
  BY DEF SelectScript
<1>6. \A i \in Instances : i \notin member => load[i] = 0
  BY DEF ChoiceReady
<1> QED
  BY <1>1, <1>4, <1>5, <1>6, BestOf

\* A handler comes to know an instance by a selection only.
LEMMA ChoosesBySelecting ==
    ASSUME TypeOK, [Next]_vars, NEW h \in Handlers, Chooses(h)
    PROVE  SelectAndRegister(h)
<1> USE DEF redisVars, Chooses, TypeOK
<1>1. ASSUME NEW i \in Instances, Register(i) \/ Deregister(i) PROVE FALSE
  BY <1>1 DEF Register, Deregister
<1>2. ASSUME NEW g \in Handlers, DiscoverService(g) \/ SelectFails(g) \/ SelectLost(g)
                                 \/ SelectResent(g) \/ StreamEnds(g) \/ DecrementResent(g)
      PROVE  FALSE
  BY <1>2 DEF DiscoverService, SelectFails, SelectLost, SelectResent, StreamEnds, DecrementResent
<1>3. ASSUME NEW g \in Handlers, DecrementTaskCount(g) \/ DecrementFails(g) PROVE FALSE
  BY <1>3 DEF DecrementTaskCount, DecrementFails
<1>4. ASSUME NEW g \in Handlers, SelectAndRegister(g) PROVE g = h
  BY <1>4 DEF SelectAndRegister
<1>5. ASSUME NEW r \in Replicas, Crash(r) PROVE FALSE
  BY <1>5 DEF Crash
<1>6. CASE RedisSaves \/ RedisRestarts \/ UNCHANGED vars
  BY <1>6 DEF RedisSaves, RedisRestarts, vars
<1> QED
  BY <1>1, <1>2, <1>3, <1>4, <1>5, <1>6 DEF Next, HandlerStep

\* While no score can be too low, every choice is of a least score among the
\* instances Consul named, in whatever order the script is given them.
THEOREM LeastLoadedChosen == Spec => LeastLoadedUnlessUndercounted
<1> DEFINE Chosen(h) == NoUndercountYet /\ Chooses(h) =>
                           \A b \in view[h] : load[addr'[h]] <= load[b]
<1>1. ASSUME IInv, ChoiceReady, [Next]_vars, NEW h \in Handlers
      PROVE  Chosen(h)
  <2> SUFFICES ASSUME NoUndercountYet, Chooses(h)
               PROVE  \A b \in view[h] : load[addr'[h]] <= load[b]
    OBVIOUS
  <2>1. TypeOK
    BY <1>1 DEF IInv
  <2>2. SelectAndRegister(h)
    BY <1>1, <2>1, ChoosesBySelecting
  <2>3. PICK a \in view[h] : SelectScript(h, a) /\ addr' = [addr EXCEPT ![h] = a]
    BY <2>2 DEF SelectAndRegister
  <2>4. addr'[h] = a
    BY <2>1, <2>3 DEF TypeOK
  <2> QED
    BY <1>1, <2>3, <2>4, SelectScriptChooses
<1>2. IInv /\ ChoiceReady /\ [Next]_vars => [\A h \in Handlers : Chosen(h)]_vars
  BY <1>1
<1> QED
  BY <1>2, Invariance, AlwaysReady, PTL DEF Spec, LeastLoadedUnlessUndercounted

-----------------------------------------------------------------------------
(* The refinement of Balancer.                                              *)

\* While nothing has failed the scores are the numbers of requests in flight.
LEMMA ScoresAreTrue ==
    ASSUME IInv, NoFaultYet, NEW i \in Instances
    PROVE  load[i] = Cardinality(InFlight(i))
<1>1. N \in Nat /\ N * 0 = 0 /\ N * (0 + 0) = 0
  BY SlackType DEF IInv
<1>2. Shortfall = 0 /\ Excess = 0
  BY <1>1 DEF NoFaultYet, FaultKinds, Shortfall, Excess, N
<1>3. /\ load[i] >= Cardinality(InFlight(i)) - 0
      /\ load[i] <= Cardinality(InFlight(i)) + 0
  BY <1>2 DEF IInv, Bounded
<1>4. load[i] \in Int /\ Cardinality(InFlight(i)) \in Int
  BY <1>1, InFlightCount DEF IInv, TypeOK, Counts
<1> QED
  BY <1>3, <1>4

\* A step with a fault leaves a record of it.
LEMMA FaultSeen ==
    ASSUME TypeOK, NEW kind, Fault(kind)
    PROVE  ~NoFaultYet'
<1>1. kind \in FaultKinds
  BY FaultsAssumption DEF Fault
<1>2. faults[kind] \in Nat /\ faults'[kind] = faults[kind] + 1
  BY <1>1 DEF Fault, TypeOK
<1> QED
  BY <1>1, <1>2 DEF NoFaultYet

\* The initial states map to Balancer's.
LEMMA BalancerInit == Init => Truth!Init
BY DEF Init, Truth!Init

\* Balancer counts as this module does.
LEMMA SameCardinality == \A S : Truth!Cardinality(S) = Cardinality(S)
BY DEF Truth!Cardinality, Cardinality

\* A step that leaves no failure behind is one of Balancer or changes nothing of
\* it: discovery offers, the script acquires by true load, the deferred call gives
\* back.
LEMMA BalancerStep ==
    ASSUME IInv, ChoiceReady, [Next]_vars, NoFaultYet'
    PROVE  [Truth!Next]_(Truth!vars)
<1>1. TypeOK
  BY DEF IInv
<1> USE DEF redisVars, Truth!vars
<1>2. ASSUME NEW i \in Instances, Register(i) \/ Deregister(i)
      PROVE  [Truth!Next]_(Truth!vars)
  BY <1>2 DEF Register, Deregister, Truth!Next, Truth!Register, Truth!Deregister
<1>3. ASSUME NEW h \in Handlers, DiscoverService(h) PROVE [Truth!Next]_(Truth!vars)
  <2>1. Truth!Offer(h)
    BY <1>1, <1>3 DEF DiscoverService, Truth!Offer, ChoiceReady, TypeOK
  <2> QED
    BY <2>1 DEF Truth!Next
<1>4. ASSUME NEW h \in Handlers, SelectAndRegister(h) PROVE [Truth!Next]_(Truth!vars)
  <2>1. PICK a \in view[h] : SelectScript(h, a) /\ addr' = [addr EXCEPT ![h] = a]
    BY <1>4 DEF SelectAndRegister
  <2>2. faults' = faults /\ view' = [view EXCEPT ![h] = {}] /\ registered' = registered
    BY <1>4 DEF SelectAndRegister
  <2>3. NoFaultYet /\ NoUndercountYet
    BY <2>2 DEF NoFaultYet, NoUndercountYet, FaultKinds
  <2>4. \A b \in view[h] : load[a] <= load[b]
    BY <2>1, <2>3, SelectScriptChooses
  <2>5. \A i \in view[h] : i \in Instances
    BY <1>1 DEF TypeOK
  <2>6. \A i \in view[h] : load[i] = Cardinality(InFlight(i))
    BY <2>3, <2>5, ScoresAreTrue
  <2>7. \A i : Truth!Serves(i) = InFlight(i)
    BY DEF Truth!Serves, InFlight
  <2>8. \A b \in view[h] : Cardinality(Truth!Serves(a)) <= Cardinality(Truth!Serves(b))
    BY <2>4, <2>6, <2>7
  <2>9. Truth!Acquire(h)
    BY <2>1, <2>2, <2>8, SameCardinality DEF Truth!Acquire
  <2> QED
    BY <2>9 DEF Truth!Next
<1>5. ASSUME NEW h \in Handlers, SelectFails(h) PROVE [Truth!Next]_(Truth!vars)
  <2>1. Truth!Refuse(h)
    BY <1>5 DEF SelectFails, Truth!Refuse, ChoiceReady
  <2> QED
    BY <2>1 DEF Truth!Next
<1>6. ASSUME NEW h \in Handlers, DecrementTaskCount(h) PROVE [Truth!Next]_(Truth!vars)
  <2>1. Truth!Release(h)
    BY <1>1, <1>6 DEF DecrementTaskCount, Truth!Release, TypeOK
  <2> QED
    BY <2>1 DEF Truth!Next
<1>7. ASSUME NEW h \in Handlers, StreamEnds(h) PROVE [Truth!Next]_(Truth!vars)
  BY <1>7 DEF StreamEnds
<1>8. ASSUME NEW h \in Handlers, SelectLost(h) \/ SelectResent(h) \/ DecrementFails(h)
                                 \/ DecrementResent(h)
      PROVE  FALSE
  <2>1. \E kind \in {"selectLost", "selectResent", "releaseFailed", "releaseResent"} : Fault(kind)
    BY <1>8 DEF SelectLost, SelectResent, DecrementFails, DecrementResent
  <2> QED
    BY <1>1, <2>1, FaultSeen
<1>9. ASSUME NEW r \in Replicas, Crash(r) PROVE FALSE
  <2>1. Fault("crash")
    BY <1>9 DEF Crash
  <2> QED
    BY <1>1, <2>1, FaultSeen
<1>10. CASE RedisRestarts
  <2>1. Fault("restart")
    BY <1>10 DEF RedisRestarts
  <2> QED
    BY <1>1, <2>1, FaultSeen
<1>11. CASE RedisSaves \/ UNCHANGED vars
  BY <1>11 DEF RedisSaves, vars
<1> QED
  BY <1>2, <1>3, <1>4, <1>5, <1>6, <1>7, <1>8, <1>9, <1>10, <1>11 DEF Next, HandlerStep

\* Until something fails, discovery, the counters in Redis with the script, and
\* the deferred decrement implement a balancer that counts the requests
\* themselves.
THEOREM ImplementsBalancer == Spec => ChoosesByTrueLoad
<1>1. Init => Truth!Init
  BY BalancerInit
<1>2. IInv /\ ChoiceReady /\ [Next]_vars
        => [NoFaultYet' => [Truth!Next]_(Truth!vars)]_vars
  BY BalancerStep
<1> QED
  BY <1>1, <1>2, Invariance, AlwaysReady, PTL DEF Spec, ChoosesByTrueLoad
=============================================================================
