----------------------------- MODULE Foundations -----------------------------
(***************************************************************************)
(* What the proofs of this project need of data: induction over numbers,   *)
(* functions that are defined by recursion, lists whose members are there  *)
(* once, sums over finite sets, and what can be counted.                   *)
(*                                                                         *)
(* The induction theorems of the library take a predicate as a parameter.  *)
(* The ones below take a SET instead, the set of the numbers of which the  *)
(* claim holds, and rest only on the facts about finite sets: if a set     *)
(* with 0 that is closed under successor missed n, then taking 1 away      *)
(* would map the missed numbers up to n into the missed numbers below n.   *)
(***************************************************************************)
EXTENDS OrderedDict, Ordering, TLAPS, FiniteSetTheorems, FunctionTheorems,
        SequenceTheorems

-----------------------------------------------------------------------------
(* Induction and recursion.                                                *)

\* A set of natural numbers with 0 that is closed under successor is Nat.
LEMMA NatInductionSet ==
    ASSUME NEW T, T \subseteq Nat, 0 \in T, \A n \in T : n + 1 \in T
    PROVE  T = Nat
<1> SUFFICES ASSUME NEW n \in Nat, n \notin T PROVE FALSE
    OBVIOUS
<1> DEFINE B == (0 .. n) \ T
<1> DEFINE f == [x \in B |-> x - 1]
<1>1. IsFiniteSet(B) /\ n \in B
    <2>1. IsFiniteSet(0 .. n)
        BY FS_Interval
    <2> QED BY <2>1, FS_Subset
<1>2. /\ IsFiniteSet(B \ {n}) /\ Cardinality(B) \in Nat
      /\ Cardinality(B \ {n}) = Cardinality(B) - 1
    <2> HIDE DEF B
    <2> QED BY <1>1, FS_RemoveElement, FS_CardinalityType
<1>3. \A x \in B : x - 1 \in B \ {n}
    <2> SUFFICES ASSUME NEW x \in B PROVE x - 1 \in B \ {n}
        OBVIOUS
    <2>1. x \in 1 .. n
        OBVIOUS
    <2>2. x - 1 \notin T
        BY <2>1
    <2> QED BY <2>1, <2>2
<1>4. f \in Injection(B, B \ {n})
    <2>1. f \in [B -> B \ {n}]
        BY <1>3
    <2>2. \A a, b \in B : f[a] = f[b] => a = b
        OBVIOUS
    <2> HIDE DEF B, f
    <2> QED BY <2>1, <2>2, Fun_IsInj
<1>5. Cardinality(B) <= Cardinality(B \ {n})
    <2> HIDE DEF B, f
    <2> QED BY <1>4, <1>2, FS_Injection
<1> QED BY <1>2, <1>5

\* The same up to a bound.
LEMMA BoundedInduction ==
    ASSUME NEW m \in Nat, NEW T, 0 \in T, \A n \in 0 .. m - 1 : n \in T => n + 1 \in T
    PROVE  0 .. m \subseteq T
<1> DEFINE S == {n \in Nat : n <= m => n \in T}
<1>1. 0 \in S
    OBVIOUS
<1>2. \A n \in S : n + 1 \in S
    OBVIOUS
<1>3. S = Nat
    <2> HIDE DEF S
    <2>1. S \subseteq Nat
        BY DEF S
    <2> QED BY <1>1, <1>2, <2>1, NatInductionSet
<1> QED BY <1>3

\* A set of natural numbers that is not empty has a least element.
LEMMA LeastElement ==
    ASSUME NEW S, S \subseteq Nat, S # {}
    PROVE  \E x \in S : \A y \in S : x <= y
<1> SUFFICES ASSUME \A x \in S : \E y \in S : y < x PROVE FALSE
    OBVIOUS
<1> DEFINE T == {n \in Nat : \A k \in 0 .. n : k \notin S}
<1>1. 0 \in T
    OBVIOUS
<1>2. \A n \in T : n + 1 \in T
    <2> SUFFICES ASSUME NEW n \in T PROVE n + 1 \notin S
        OBVIOUS
    <2> SUFFICES ASSUME n + 1 \in S PROVE FALSE
        OBVIOUS
    <2>1. PICK y \in S : y < n + 1
        OBVIOUS
    <2>2. y \in 0 .. n
        BY <2>1
    <2> QED BY <2>2
<1>3. T = Nat
    <2> HIDE DEF T
    <2>1. T \subseteq Nat
        BY DEF T
    <2> QED BY <1>1, <1>2, <2>1, NatInductionSet
<1>4. PICK n : n \in S /\ n \in Nat
    OBVIOUS
<1> QED BY <1>3, <1>4

\* What Min and Max choose.
LEMMA MinOf ==
    ASSUME NEW S, S \subseteq Nat, S # {}
    PROVE  Min(S) \in S /\ \A y \in S : Min(S) <= y
<1>1. \E x \in S : \A y \in S : x <= y
    BY LeastElement
<1> QED BY <1>1 DEF Min

LEMMA MaxOf ==
    ASSUME NEW m \in Nat, NEW S, S \subseteq 0 .. m, S # {}
    PROVE  Max(S) \in S /\ \A y \in S : Max(S) >= y
<1> DEFINE T == {m - x : x \in S}
<1>1. T \subseteq Nat /\ T # {}
    <2>1. \A x \in S : x \in 0 .. m /\ m - x \in Nat
        OBVIOUS
    <2>2. PICK x \in S : TRUE
        OBVIOUS
    <2>3. m - x \in T
        BY <2>2
    <2> QED BY <2>1, <2>3
<1>2. PICK t \in T : \A y \in T : t <= y
    <2> HIDE DEF T
    <2> QED BY <1>1, LeastElement
<1>3. PICK x \in S : t = m - x
    BY <1>2
<1>4. \A y \in S : x >= y
    <2> SUFFICES ASSUME NEW y \in S PROVE x >= y
        OBVIOUS
    <2>1. t <= m - y
        BY <1>2
    <2>2. x \in 0 .. m /\ y \in 0 .. m
        OBVIOUS
    <2> QED BY <1>3, <2>1, <2>2
<1> QED BY <1>3, <1>4 DEF Max

\* The functions with values in V that are v0 at 0 and at n + 1 what step[n]
\* makes of their value at n; and those on the numbers up to m only, with step[n]
\* leading to n.
Recursive(V, v0, step) ==
    {g \in [Nat -> V] : g[0] = v0 /\ \A n \in Nat : g[n + 1] = step[n][g[n]]}

RecursiveUpto(m, V, v0, step) ==
    {g \in [0 .. m -> V] : g[0] = v0 /\ \A n \in 1 .. m : g[n] = step[n][g[n - 1]]}

\* There is such a function, whatever the step.
LEMMA RecursionExists ==
    ASSUME NEW V, NEW v0 \in V, NEW step \in [Nat -> [V -> V]]
    PROVE  Recursive(V, v0, step) # {}
<1> DEFINE Upto(n, g) == g[0] = v0 /\ \A i \in 0 .. n - 1 : g[i + 1] = step[i][g[i]]
<1> DEFINE T == {n \in Nat : \E g \in [0 .. n -> V] : Upto(n, g)}
<1>1. 0 \in T
    <2>1. Upto(0, [i \in 0 .. 0 |-> v0])
        OBVIOUS
    <2> QED BY <2>1
<1>2. ASSUME NEW n \in T PROVE n + 1 \in T
    <2>1. PICK g \in [0 .. n -> V] : Upto(n, g)
        OBVIOUS
    <2>2. n \in Nat /\ g[n] \in V /\ step[n][g[n]] \in V
        OBVIOUS
    <2> DEFINE h == [i \in 0 .. n + 1 |-> IF i <= n THEN g[i] ELSE step[n][g[n]]]
    <2>3. h \in [0 .. n + 1 -> V]
        BY <2>2
    <2>4. Upto(n + 1, h)
        <3>1. h[0] = v0
            BY <2>1, <2>2
        <3>2. ASSUME NEW i \in 0 .. n PROVE h[i + 1] = step[i][h[i]]
            <4>1. CASE i = n
                BY <4>1, <2>2
            <4>2. CASE i # n
                BY <4>2, <2>1, <2>2
            <4> QED BY <4>1, <4>2
        <3> HIDE DEF h
        <3> QED BY <3>1, <3>2, <2>2
    <2> HIDE DEF Upto, h
    <2> QED BY <2>2, <2>3, <2>4
<1>3. T = Nat
    <2>1. T \subseteq Nat
        OBVIOUS
    <2> HIDE DEF T
    <2> QED BY <1>1, <1>2, <2>1, NatInductionSet
<1> DEFINE G == [n \in Nat |-> CHOOSE g \in [0 .. n -> V] : Upto(n, g)]
<1> DEFINE f == [n \in Nat |-> G[n][n]]
<1>4. ASSUME NEW n \in Nat PROVE G[n] \in [0 .. n -> V] /\ Upto(n, G[n])
    <2>1. \E g \in [0 .. n -> V] : Upto(n, g)
        BY <1>3
    <2> HIDE DEF Upto
    <2> QED BY <2>1
<1>5. ASSUME NEW n \in Nat PROVE \A i \in 0 .. n : G[n + 1][i] = G[n][i]
    <2> DEFINE S == {i \in Nat : i <= n => G[n + 1][i] = G[n][i]}
    <2> HIDE DEF G, Upto
    <2>0. Upto(n, G[n]) /\ Upto(n + 1, G[n + 1])
        BY <1>4
    <2> USE DEF Upto
    <2>1. 0 \in S
        BY <2>0
    <2>2. ASSUME NEW i \in S PROVE i + 1 \in S
        <3>1. CASE i + 1 <= n
            <4>1. G[n + 1][i] = G[n][i]
                BY <3>1
            <4>2. G[n + 1][i + 1] = step[i][G[n + 1][i]]
                BY <2>0, <3>1
            <4>3. G[n][i + 1] = step[i][G[n][i]]
                BY <2>0, <3>1
            <4> QED BY <4>1, <4>2, <4>3
        <3> QED BY <3>1
    <2>3. S = Nat
        <3>1. S \subseteq Nat
            OBVIOUS
        <3> HIDE DEF S
        <3> QED BY <2>1, <2>2, <3>1, NatInductionSet
    <2> QED BY <2>3
<1> HIDE DEF G
<1>6. f \in [Nat -> V]
    <2>1. \A n \in Nat : G[n][n] \in V
        BY <1>4
    <2> QED BY <2>1
<1>7. f[0] = v0
    BY <1>4
<1>8. ASSUME NEW n \in Nat PROVE f[n + 1] = step[n][f[n]]
    <2>1. G[n + 1][n + 1] = step[n][G[n + 1][n]]
        BY <1>4
    <2>2. G[n + 1][n] = G[n][n]
        BY <1>5
    <2> QED BY <2>1, <2>2
<1> HIDE DEF f
<1>9. f \in Recursive(V, v0, step)
    BY <1>6, <1>7, <1>8 DEF Recursive
<1> QED BY <1>9

\* The same for a function on the numbers up to m.
LEMMA BoundedRecursionExists ==
    ASSUME NEW V, NEW m \in Nat, NEW v0 \in V, NEW step \in [1 .. m -> [V -> V]]
    PROVE  RecursiveUpto(m, V, v0, step) # {}
<1> DEFINE all == [n \in Nat |-> IF n + 1 \in 1 .. m THEN step[n + 1] ELSE [v \in V |-> v]]
<1>1. all \in [Nat -> [V -> V]]
    OBVIOUS
<1>2. \A n \in 1 .. m : n - 1 \in Nat /\ (n - 1) + 1 = n /\ all[n - 1] = step[n]
    OBVIOUS
<1> HIDE DEF all
<1>3. PICK f : f \in Recursive(V, v0, all)
    BY <1>1, RecursionExists
<1>4. f \in [Nat -> V] /\ f[0] = v0 /\ \A n \in Nat : f[n + 1] = all[n][f[n]]
    BY <1>3 DEF Recursive
<1> DEFINE g == [n \in 0 .. m |-> f[n]]
<1>5. g \in [0 .. m -> V] /\ g[0] = v0
    BY <1>4
<1>6. ASSUME NEW n \in 1 .. m PROVE g[n] = step[n][g[n - 1]]
    <2>1. g[n] = f[n] /\ g[n - 1] = f[n - 1]
        OBVIOUS
    <2>2. f[(n - 1) + 1] = all[n - 1][f[n - 1]]
        BY <1>2, <1>4
    <2> QED BY <1>2, <2>1, <2>2
<1> HIDE DEF g
<1>7. g \in RecursiveUpto(m, V, v0, step)
    BY <1>5, <1>6 DEF RecursiveUpto
<1> QED BY <1>7

\* The last of the first n positions.
LEMMA LastPlace == ASSUME NEW n \in Nat \ {0} PROVE Max(1 .. n) = n
<1> DEFINE S == 1 .. n
           top == Max(S)
<1>1. S \subseteq 0 .. n /\ n \in S /\ \A y \in S : y <= n /\ y \in Int
    OBVIOUS
<1> HIDE DEF S
<1>2. Max(S) \in S /\ \A y \in S : Max(S) >= y
    BY <1>1, MaxOf
<1>3. top \in S /\ top >= n
    BY <1>1, <1>2
<1>4. top \in Int /\ top <= n
    BY <1>1, <1>3
<1>5. top = n
    <2> HIDE DEF top
    <2> QED BY <1>3, <1>4
<1> QED BY <1>5 DEF S

\* The functions on the sets of positions that a fold from the left defines: the
\* last position of a set is folded in last.
Iterated(m, V, v0, step) ==
    {h \in [SUBSET (1 .. m) -> V] :
        /\ h[{}] = v0
        /\ \A s \in SUBSET (1 .. m) : s # {} => h[s] = step[Max(s)][h[s \ {Max(s)}]]}

\* There is such a function, whatever the step.
LEMMA IterationExists ==
    ASSUME NEW V, NEW m \in Nat, NEW v0 \in V, NEW step \in [1 .. m -> [V -> V]]
    PROVE  Iterated(m, V, v0, step) # {}
<1> DEFINE on == [s \in SUBSET (1 .. m) |->
                    [n \in 1 .. m |-> IF n \in s THEN step[n] ELSE [v \in V |-> v]]]
           G == [s \in SUBSET (1 .. m) |-> CHOOSE g : g \in RecursiveUpto(m, V, v0, on[s])]
           h == [s \in SUBSET (1 .. m) |-> G[s][m]]
<1>1. ASSUME NEW s \in SUBSET (1 .. m) PROVE G[s] \in RecursiveUpto(m, V, v0, on[s])
    <2>1. on[s] \in [1 .. m -> [V -> V]]
        OBVIOUS
    <2> HIDE DEF on
    <2>2. \E g : g \in RecursiveUpto(m, V, v0, on[s])
        BY <2>1, BoundedRecursionExists
    <2> QED BY <2>2
<1>2. ASSUME NEW s \in SUBSET (1 .. m)
      PROVE  /\ G[s] \in [0 .. m -> V] /\ G[s][0] = v0
             /\ \A n \in 1 .. m : G[s][n] = IF n \in s THEN step[n][G[s][n - 1]]
                                            ELSE G[s][n - 1]
    <2> HIDE DEF G
    <2>1. /\ G[s] \in [0 .. m -> V] /\ G[s][0] = v0
          /\ \A n \in 1 .. m : G[s][n] = on[s][n][G[s][n - 1]]
        BY <1>1 DEF RecursiveUpto
    <2>2. ASSUME NEW n \in 1 .. m
          PROVE  on[s][n][G[s][n - 1]] = IF n \in s THEN step[n][G[s][n - 1]]
                                         ELSE G[s][n - 1]
        <3>1. G[s][n - 1] \in V
            BY <2>1
        <3> QED BY <3>1
    <2> HIDE DEF on
    <2> QED BY <2>1, <2>2
<1> HIDE DEF G, on
\* What comes after the last of the positions changes nothing.
<1>3. ASSUME NEW s \in SUBSET (1 .. m), NEW k \in 0 .. m, \A n \in s : n <= k
      PROVE  h[s] = G[s][k]
    <2> DEFINE T == {n \in 0 .. m - k : G[s][k + n] = G[s][k]}
    <2>1. 0 \in T
        OBVIOUS
    <2>2. ASSUME NEW n \in 0 .. (m - k) - 1, n \in T PROVE n + 1 \in T
        <3>1. k + (n + 1) \in 1 .. m /\ (k + (n + 1)) - 1 = k + n /\ n + 1 \in 0 .. m - k
            OBVIOUS
        <3>2. k + (n + 1) \notin s
            BY <1>3, <3>1
        <3> QED BY <1>2, <2>2, <3>1, <3>2
    <2>3. 0 .. m - k \subseteq T
        <3>1. m - k \in Nat
            OBVIOUS
        <3> HIDE DEF T
        <3> QED BY <2>1, <2>2, <3>1, BoundedInduction
    <2>4. m - k \in 0 .. m - k /\ k + (m - k) = m
        OBVIOUS
    <2> QED BY <2>3, <2>4
\* Only the positions up to k count for what there is at k.
<1>4. ASSUME NEW s \in SUBSET (1 .. m), NEW t \in SUBSET (1 .. m), NEW k \in 0 .. m,
             \A n \in 1 .. k : n \in s <=> n \in t
      PROVE  G[s][k] = G[t][k]
    <2> DEFINE T == {n \in 0 .. k : G[s][n] = G[t][n]}
    <2>1. 0 \in T
        BY <1>2
    <2>2. ASSUME NEW n \in 0 .. k - 1, n \in T PROVE n + 1 \in T
        <3>1. n + 1 \in 1 .. m /\ n + 1 \in 1 .. k /\ (n + 1) - 1 = n /\ n + 1 \in 0 .. k
            OBVIOUS
        <3>2. n + 1 \in s <=> n + 1 \in t
            BY <1>4, <3>1
        <3> QED BY <1>2, <2>2, <3>1, <3>2
    <2>3. 0 .. k \subseteq T
        <3>1. k \in Nat
            OBVIOUS
        <3> HIDE DEF T
        <3> QED BY <2>1, <2>2, <3>1, BoundedInduction
    <2> QED BY <2>3
<1>5. h \in [SUBSET (1 .. m) -> V]
    BY <1>2
<1>6. h[{}] = v0
    <2>1. h[{}] = G[{}][0]
        <3> HIDE DEF h
        <3> QED BY <1>3
    <2> QED BY <1>2, <2>1
<1>7. ASSUME NEW s \in SUBSET (1 .. m), s # {} PROVE h[s] = step[Max(s)][h[s \ {Max(s)}]]
    <2> DEFINE k == Max(s)
               t == s \ {k}
    <2>1. k \in s /\ \A n \in s : k >= n
        <3>1. s \subseteq 0 .. m
            OBVIOUS
        <3> QED BY <1>7, <3>1, MaxOf
    <2> HIDE DEF k
    <2>2. k \in 1 .. m /\ k \in 0 .. m /\ k - 1 \in 0 .. m /\ t \in SUBSET (1 .. m)
        BY <2>1
    <2>3. h[s] = G[s][k]
        BY <1>3, <2>1, <2>2
    <2>4. \A n \in t : n <= k - 1
        BY <2>1, <2>2
    <2>5. h[t] = G[t][k - 1]
        <3> HIDE DEF h, t
        <3> QED BY <1>3, <2>2, <2>4
    <2>6. \A n \in 1 .. k - 1 : n \in s <=> n \in t
        BY <2>2
    <2>7. G[s][k - 1] = G[t][k - 1]
        <3> HIDE DEF h, t
        <3> QED BY <1>4, <2>2, <2>6
    <2>8. G[s][k] = step[k][G[s][k - 1]]
        BY <1>2, <2>1, <2>2
    <2> HIDE DEF h
    <2> QED BY <2>3, <2>5, <2>7, <2>8 DEF k, t
<1> HIDE DEF h
<1>8. h \in Iterated(m, V, v0, step)
    BY <1>5, <1>6, <1>7 DEF Iterated
<1> QED BY <1>8

\* On the first positions it is what one step after the other makes.
LEMMA IteratedUpto ==
    ASSUME NEW V, NEW m \in Nat, NEW v0 \in V, NEW step \in [1 .. m -> [V -> V]],
           NEW h \in Iterated(m, V, v0, step)
    PROVE  [n \in 0 .. m |-> h[1 .. n]] \in RecursiveUpto(m, V, v0, step)
<1> DEFINE g == [n \in 0 .. m |-> h[1 .. n]]
<1>1. /\ h \in [SUBSET (1 .. m) -> V] /\ h[{}] = v0
      /\ \A s \in SUBSET (1 .. m) : s # {} => h[s] = step[Max(s)][h[s \ {Max(s)}]]
    BY DEF Iterated
<1>2. ASSUME NEW n \in 0 .. m PROVE 1 .. n \in SUBSET (1 .. m)
    OBVIOUS
<1>3. g \in [0 .. m -> V]
    BY <1>1, <1>2
<1>4. g[0] = v0
    <2>1. 1 .. 0 = {}
        OBVIOUS
    <2> QED BY <1>1, <2>1
<1>5. ASSUME NEW n \in 1 .. m PROVE g[n] = step[n][g[n - 1]]
    <2>1. n \in 0 .. m /\ n - 1 \in 0 .. m /\ n \in 1 .. n /\ 1 .. n # {}
        <3>1. n \in 0 .. m /\ n - 1 \in 0 .. m /\ n \in 1 .. n
            OBVIOUS
        <3> QED BY <3>1
    <2>2. Max(1 .. n) = n
        BY <2>1, LastPlace
    <2>3. (1 .. n) \ {n} = 1 .. n - 1
        OBVIOUS
    <2>4. h[1 .. n] = step[Max(1 .. n)][h[(1 .. n) \ {Max(1 .. n)}]]
        BY <1>1, <1>2, <2>1
    <2>5. g[n] = h[1 .. n] /\ g[n - 1] = h[1 .. n - 1]
        BY <2>1
    <2> HIDE DEF g
    <2> QED BY <2>2, <2>3, <2>4, <2>5
<1> HIDE DEF g
<1>6. g \in RecursiveUpto(m, V, v0, step)
    BY <1>3, <1>4, <1>5 DEF RecursiveUpto
<1> QED BY <1>6 DEF g

-----------------------------------------------------------------------------
(* Finite sets.                                                            *)

\* What a function makes of finitely many arguments is finitely many values, no
\* more than there are arguments.
LEMMA ImageFinite ==
    ASSUME NEW S, IsFiniteSet(S), NEW f
    PROVE  /\ IsFiniteSet({f[x] : x \in S})
           /\ Cardinality({f[x] : x \in S}) <= Cardinality(S)
<1> DEFINE T == {f[x] : x \in S}
           g == [x \in S |-> f[x]]
<1>1. g \in [S -> T] /\ \A t \in T : \E x \in S : g[x] = t
    OBVIOUS
<1> HIDE DEF T, g
<1>2. g \in Surjection(S, T)
    BY <1>1, Fun_IsSurj
<1>3. IsFiniteSet(T) /\ Cardinality(T) <= Cardinality(S)
    BY <1>2, FS_Surjection
<1> QED BY <1>3 DEF T

-----------------------------------------------------------------------------
(* Lists whose members are there once: IsInjective(s).                     *)

\* A function on the first positions is a list.
LEMMA ListOf == ASSUME NEW S, NEW n \in Nat, NEW f \in [1 .. n -> S] PROVE f \in Seq(S)
    OBVIOUS

\* A list of a type is one of a wider type.
LEMMA Widened == ASSUME NEW S, NEW U, S \subseteq U, NEW s \in Seq(S) PROVE s \in Seq(U)
<1>1. Len(s) \in Nat /\ s \in [1 .. Len(s) -> U]
    BY LenProperties
<1> QED BY <1>1, ListOf

\* The members of a list are those of its type.
LEMMA MembersTyped ==
    ASSUME NEW S, NEW s \in Seq(S)
    PROVE  /\ DOMAIN s = 1 .. Len(s) /\ Len(s) \in Nat
           /\ ToSet(s) \subseteq S
           /\ \A x \in ToSet(s) : \E i \in 1 .. Len(s) : x = s[i]
           /\ \A i \in 1 .. Len(s) : s[i] \in ToSet(s)
<1>1. DOMAIN s = 1 .. Len(s) /\ Len(s) \in Nat /\ s \in [1 .. Len(s) -> S]
    BY LenProperties
<1> QED BY <1>1 DEF ToSet

\* The empty list.
LEMMA EmptyList == ToSet(<<>>) = {} /\ IsInjective(<<>>)
    BY DEF ToSet, IsInjective

\* A concatenation has the members of both, and each once if both have them once
\* and share none.
LEMMA Concatenated ==
    ASSUME NEW S, NEW s \in Seq(S), NEW t \in Seq(S)
    PROVE  /\ ToSet(s \o t) = ToSet(s) \cup ToSet(t)
           /\ IsInjective(s \o t) <=>
                 IsInjective(s) /\ IsInjective(t) /\ ToSet(s) \cap ToSet(t) = {}
<1> DEFINE u == s \o t
<1>1. /\ u \in Seq(S) /\ Len(u) = Len(s) + Len(t)
      /\ \A i \in 1 .. Len(s) + Len(t) :
            u[i] = IF i <= Len(s) THEN s[i] ELSE t[i - Len(s)]
    BY ConcatProperties
<1>2. /\ DOMAIN s = 1 .. Len(s) /\ DOMAIN t = 1 .. Len(t)
      /\ DOMAIN u = 1 .. Len(s) + Len(t) /\ Len(s) \in Nat /\ Len(t) \in Nat
    BY <1>1, LenProperties
<1> HIDE DEF u
<1>3. \A i \in 1 .. Len(s) : i \in DOMAIN u /\ u[i] = s[i]
    BY <1>1, <1>2
<1>4. \A i \in 1 .. Len(t) : Len(s) + i \in DOMAIN u /\ u[Len(s) + i] = t[i]
    <2> SUFFICES ASSUME NEW i \in 1 .. Len(t)
                 PROVE  Len(s) + i \in DOMAIN u /\ u[Len(s) + i] = t[i]
        OBVIOUS
    <2>1. PICK k : k = Len(s) + i
        OBVIOUS
    <2>2. /\ k \in 1 .. Len(s) + Len(t) /\ ~(k <= Len(s)) /\ k - Len(s) = i
        BY <1>2, <2>1
    <2>3. k \in DOMAIN u /\ u[k] = t[i]
        BY <1>1, <1>2, <2>2
    <2> QED BY <2>1, <2>3
<1>5. \A i \in DOMAIN u : \/ i \in 1 .. Len(s) /\ u[i] = s[i]
                          \/ i - Len(s) \in 1 .. Len(t) /\ u[i] = t[i - Len(s)]
    BY <1>1, <1>2
<1>6. ToSet(u) = ToSet(s) \cup ToSet(t)
    <2>1. ToSet(u) \subseteq ToSet(s) \cup ToSet(t)
        BY <1>2, <1>5 DEF ToSet
    <2>2. ToSet(s) \subseteq ToSet(u)
        BY <1>2, <1>3 DEF ToSet
    <2>3. ToSet(t) \subseteq ToSet(u)
        BY <1>2, <1>4 DEF ToSet
    <2> QED BY <2>1, <2>2, <2>3
<1>7. ASSUME IsInjective(s), IsInjective(t), ToSet(s) \cap ToSet(t) = {}
      PROVE  IsInjective(u)
    <2> SUFFICES ASSUME NEW i \in DOMAIN u, NEW j \in DOMAIN u, u[i] = u[j]
                 PROVE  i = j
        BY DEF IsInjective
    <2>1. CASE i \in 1 .. Len(s) /\ u[i] = s[i] /\ j \in 1 .. Len(s) /\ u[j] = s[j]
        BY <1>2, <1>7, <2>1 DEF IsInjective
    <2>2. CASE /\ i - Len(s) \in 1 .. Len(t) /\ u[i] = t[i - Len(s)]
               /\ j - Len(s) \in 1 .. Len(t) /\ u[j] = t[j - Len(s)]
        <3>1. i - Len(s) = j - Len(s)
            BY <1>2, <1>7, <2>2 DEF IsInjective
        <3> QED BY <1>2, <3>1
    <2>3. ~(i \in 1 .. Len(s) /\ u[i] = s[i] /\ j - Len(s) \in 1 .. Len(t)
            /\ u[j] = t[j - Len(s)])
        BY <1>2, <1>7 DEF ToSet
    <2>4. ~(j \in 1 .. Len(s) /\ u[j] = s[j] /\ i - Len(s) \in 1 .. Len(t)
            /\ u[i] = t[i - Len(s)])
        BY <1>2, <1>7 DEF ToSet
    <2> QED BY <1>5, <2>1, <2>2, <2>3, <2>4
<1>8. ASSUME IsInjective(u)
      PROVE  IsInjective(s) /\ IsInjective(t) /\ ToSet(s) \cap ToSet(t) = {}
    <2>1. IsInjective(s)
        BY <1>2, <1>3, <1>8 DEF IsInjective
    <2>2. IsInjective(t)
        <3> SUFFICES ASSUME NEW i \in 1 .. Len(t), NEW j \in 1 .. Len(t), t[i] = t[j]
                     PROVE  i = j
            BY <1>2 DEF IsInjective
        <3>1. Len(s) + i = Len(s) + j
            BY <1>4, <1>8 DEF IsInjective
        <3> QED BY <1>2, <3>1
    <2>3. ASSUME NEW i \in 1 .. Len(s), NEW j \in 1 .. Len(t), s[i] = t[j]
          PROVE  FALSE
        <3>1. i = Len(s) + j
            BY <1>3, <1>4, <1>8, <2>3 DEF IsInjective
        <3> QED BY <1>2, <3>1
    <2> QED BY <1>2, <2>1, <2>2, <2>3 DEF ToSet
<1> QED BY <1>6, <1>7, <1>8 DEF u

\* One more member at the end.
LEMMA Appended ==
    ASSUME NEW S, NEW s \in Seq(S), NEW x \in S
    PROVE  /\ Append(s, x) \in Seq(S) /\ Len(Append(s, x)) = Len(s) + 1
           /\ ToSet(Append(s, x)) = ToSet(s) \cup {x}
           /\ IsInjective(s) /\ x \notin ToSet(s) => IsInjective(Append(s, x))
<1>1. Append(s, x) = s \o <<x>> /\ <<x>> \in Seq(S) /\ Len(<<x>>) = 1
    OBVIOUS
<1>2. ToSet(<<x>>) = {x} /\ IsInjective(<<x>>)
    BY DEF ToSet, IsInjective
<1>3. Append(s, x) \in Seq(S) /\ Len(Append(s, x)) = Len(s) + 1
    OBVIOUS
<1>4. /\ ToSet(s \o <<x>>) = ToSet(s) \cup ToSet(<<x>>)
      /\ IsInjective(s \o <<x>>) <=>
            IsInjective(s) /\ IsInjective(<<x>>) /\ ToSet(s) \cap ToSet(<<x>>) = {}
    BY <1>1, Concatenated
<1> QED BY <1>1, <1>2, <1>3, <1>4

\* A list is what comes up to a place and what comes after it.
LEMMA Parted ==
    ASSUME NEW S, NEW s \in Seq(S), NEW k \in 0 .. Len(s)
    PROVE  /\ SubSeq(s, 1, k) \in Seq(S) /\ Len(SubSeq(s, 1, k)) = k
           /\ SubSeq(s, k + 1, Len(s)) \in Seq(S)
           /\ Len(SubSeq(s, k + 1, Len(s))) = Len(s) - k
           /\ s = SubSeq(s, 1, k) \o SubSeq(s, k + 1, Len(s))
<1>1. Len(s) \in Nat /\ \A i \in 1 .. Len(s) : s[i] \in S
    BY LenProperties, ElementOfSeq
<1>2. SubSeq(s, 1, k) \in Seq(S) /\ Len(SubSeq(s, 1, k)) = k
    BY <1>1, SubSeqProperties
<1>3. /\ SubSeq(s, k + 1, Len(s)) \in Seq(S)
      /\ Len(SubSeq(s, k + 1, Len(s))) = Len(s) - k
    BY <1>1, SubSeqProperties
<1>4. SubSeq(s, 1, k) \o SubSeq(s, k + 1, Len(s)) = SubSeq(s, 1, Len(s))
    <2>1. 1 \in 1 .. Len(s) + 1 /\ k \in 1 - 1 .. Len(s) /\ Len(s) \in k .. Len(s)
        BY <1>1
    <2> QED BY <2>1, ConcatAdjacentSubSeq
<1>5. SubSeq(s, 1, Len(s)) = s
    BY SubSeqFull
<1> QED BY <1>2, <1>3, <1>4, <1>5

\* The members of the two parts.
LEMMA PartsShareNothing ==
    ASSUME NEW S, NEW s \in Seq(S), NEW k \in 0 .. Len(s)
    PROVE  /\ ToSet(SubSeq(s, 1, k)) \cup ToSet(SubSeq(s, k + 1, Len(s))) = ToSet(s)
           /\ IsInjective(s) =>
                 /\ IsInjective(SubSeq(s, 1, k))
                 /\ IsInjective(SubSeq(s, k + 1, Len(s)))
                 /\ ToSet(SubSeq(s, 1, k)) \cap ToSet(SubSeq(s, k + 1, Len(s))) = {}
<1> DEFINE a == SubSeq(s, 1, k)
           b == SubSeq(s, k + 1, Len(s))
<1>1. a \in Seq(S) /\ b \in Seq(S) /\ s = a \o b
    BY Parted
<1> HIDE DEF a, b
<1>2. /\ ToSet(a \o b) = ToSet(a) \cup ToSet(b)
      /\ IsInjective(a \o b) <=>
            IsInjective(a) /\ IsInjective(b) /\ ToSet(a) \cap ToSet(b) = {}
    BY <1>1, Concatenated
<1> QED BY <1>1, <1>2 DEF a, b

\* The first of a list and the others.
LEMMA HeadApart ==
    ASSUME NEW S, NEW s \in Seq(S), s # <<>>
    PROVE  /\ Head(s) \in S /\ Tail(s) \in Seq(S) /\ Len(Tail(s)) = Len(s) - 1
           /\ ToSet(s) = {Head(s)} \cup ToSet(Tail(s))
           /\ IsInjective(s) => IsInjective(Tail(s)) /\ Head(s) \notin ToSet(Tail(s))
<1>1. /\ Head(s) \in S /\ Tail(s) \in Seq(S) /\ Len(Tail(s)) = Len(s) - 1
      /\ s = <<Head(s)>> \o Tail(s) /\ <<Head(s)>> \in Seq(S)
    OBVIOUS
<1> DEFINE h == <<Head(s)>>
           t == Tail(s)
<1>2. ToSet(h) = {Head(s)}
    BY DEF ToSet
<1> HIDE DEF h, t
<1>3. h \in Seq(S) /\ t \in Seq(S) /\ s = h \o t
    BY <1>1 DEF h, t
<1>4. /\ ToSet(h \o t) = ToSet(h) \cup ToSet(t)
      /\ IsInjective(h \o t) <=>
            IsInjective(h) /\ IsInjective(t) /\ ToSet(h) \cap ToSet(t) = {}
    BY <1>3, Concatenated
<1> QED BY <1>1, <1>2, <1>3, <1>4 DEF t

\* A list without one of its members.
LEMMA Removed ==
    ASSUME NEW S, NEW s \in Seq(S), NEW i \in 1 .. Len(s)
    PROVE  /\ RemoveAt(s, i) \in Seq(S) /\ Len(RemoveAt(s, i)) = Len(s) - 1
           /\ ToSet(RemoveAt(s, i)) \subseteq ToSet(s)
           /\ ToSet(s) \subseteq ToSet(RemoveAt(s, i)) \cup {s[i]}
           /\ IsInjective(s) => /\ IsInjective(RemoveAt(s, i))
                                /\ ToSet(RemoveAt(s, i)) = ToSet(s) \ {s[i]}
<1> DEFINE k == i - 1
           a == SubSeq(s, 1, k)
           b == SubSeq(s, k + 1, Len(s))
           t == SubSeq(s, i + 1, Len(s))
<1>1. Len(s) \in Nat /\ k \in 0 .. Len(s) /\ k + 1 = i
    BY LenProperties
<1>2. /\ a \in Seq(S) /\ Len(a) = k /\ b \in Seq(S) /\ Len(b) = Len(s) - k
    <2> HIDE DEF k
    <2> QED BY <1>1, Parted
<1>3. /\ ToSet(a) \cup ToSet(b) = ToSet(s)
      /\ IsInjective(s) => IsInjective(a) /\ IsInjective(b) /\ ToSet(a) \cap ToSet(b) = {}
    <2> HIDE DEF k
    <2> QED BY <1>1, PartsShareNothing
<1>4. Head(b) = s[i] /\ Tail(b) = t
    <2>1. b = SubSeq(s, i, Len(s))
        BY <1>1
    <2>2. Len(s) \in i .. Len(s)
        BY <1>1
    <2> QED BY <2>1, <2>2, HeadTailOfSubSeq
<1>5. b # <<>>
    <2>1. Len(b) > 0
        BY <1>1, <1>2
    <2>2. Len(<<>>) = 0
        OBVIOUS
    <2> HIDE DEF b
    <2> QED BY <2>1, <2>2
<1>6. t \in Seq(S) /\ Len(t) = Len(s) - i
    BY <1>1, Parted
<1>7. RemoveAt(s, i) = a \o t
    BY DEF RemoveAt
<1> HIDE DEF a, b, t, k
<1>8. /\ ToSet(b) = {Head(b)} \cup ToSet(Tail(b))
      /\ IsInjective(b) => IsInjective(Tail(b)) /\ Head(b) \notin ToSet(Tail(b))
    BY <1>2, <1>5, HeadApart
<1>9. /\ ToSet(a \o t) = ToSet(a) \cup ToSet(t)
      /\ IsInjective(a \o t) <=>
            IsInjective(a) /\ IsInjective(t) /\ ToSet(a) \cap ToSet(t) = {}
    BY <1>2, <1>6, Concatenated
<1>10. a \o t \in Seq(S) /\ Len(a \o t) = Len(s) - 1
    <2>1. a \o t \in Seq(S) /\ Len(a \o t) = Len(a) + Len(t)
        BY <1>2, <1>6, ConcatProperties
    <2>2. k \in Int /\ i \in Int /\ Len(s) \in Int /\ k + 1 = i
        BY <1>1
    <2>3. k + (Len(s) - i) = Len(s) - 1
        BY <2>2
    <2> QED BY <1>2, <1>6, <2>1, <2>3
<1> QED BY <1>3, <1>4, <1>7, <1>8, <1>9, <1>10

\* What is where in a list that one was taken from.
LEMMA RemovedPlaces ==
    ASSUME NEW S, NEW s \in Seq(S), NEW i \in 1 .. Len(s)
    PROVE  /\ DOMAIN RemoveAt(s, i) = 1 .. Len(s) - 1
           /\ \A j \in 1 .. Len(s) - 1 :
                 RemoveAt(s, i)[j] = IF j < i THEN s[j] ELSE s[j + 1]
<1> DEFINE a == SubSeq(s, 1, i - 1)
           b == SubSeq(s, i + 1, Len(s))
<1>1. Len(s) \in Nat /\ \A j \in 1 .. Len(s) : s[j] \in S
    BY LenProperties, ElementOfSeq
<1>2. /\ a \in Seq(S) /\ Len(a) = i - 1
      /\ \A j \in 1 .. i - 1 : a[j] = s[j]
    BY <1>1, SubSeqProperties
<1>3. /\ b \in Seq(S) /\ Len(b) = Len(s) - i
      /\ \A j \in 1 .. Len(s) - i : b[j] = s[i + j]
    <2>1. i + 1 <= Len(s) + 1 /\ \A j \in i + 1 .. Len(s) : s[j] \in S
        BY <1>1
    <2> QED BY <1>1, <2>1, SubSeqProperties
<1>4. RemoveAt(s, i) = a \o b
    BY DEF RemoveAt
<1> HIDE DEF a, b
<1>5. /\ Len(a \o b) = Len(s) - 1 /\ a \o b \in Seq(S)
      /\ \A j \in 1 .. Len(a) + Len(b) :
            (a \o b)[j] = IF j <= Len(a) THEN a[j] ELSE b[j - Len(a)]
    <2>1. a \in Seq(S) /\ b \in Seq(S) /\ Len(a) + Len(b) = Len(s) - 1
        BY <1>1, <1>2, <1>3
    <2>2. /\ a \o b \in Seq(S) /\ Len(a \o b) = Len(a) + Len(b)
          /\ \A j \in 1 .. Len(a) + Len(b) :
                (a \o b)[j] = IF j <= Len(a) THEN a[j] ELSE b[j - Len(a)]
        BY <2>1, ConcatProperties
    <2> QED BY <2>1, <2>2
<1>6. DOMAIN (a \o b) = 1 .. Len(s) - 1
    BY <1>5, LenProperties
<1>7. ASSUME NEW j \in 1 .. Len(s) - 1
      PROVE  (a \o b)[j] = IF j < i THEN s[j] ELSE s[j + 1]
    <2>1. CASE j < i
        BY <1>1, <1>2, <1>3, <1>5, <2>1
    <2>2. CASE ~(j < i)
        <3>1. j - Len(a) \in 1 .. Len(s) - i /\ i + (j - Len(a)) = j + 1
            BY <1>1, <1>2, <2>2
        <3>2. (a \o b)[j] = b[j - Len(a)]
            BY <1>1, <1>2, <1>3, <1>5, <2>2
        <3> QED BY <1>3, <2>2, <3>1, <3>2
    <2> QED BY <2>1, <2>2
<1> QED BY <1>4, <1>6, <1>7

-----------------------------------------------------------------------------
(* The keys of an OrderedDict, and lists in the order of their values f.   *)

\* pop(key, None): the others stay, each still once, and of a list that has the
\* key one entry goes.
LEMMA WithoutOf ==
    ASSUME NEW S, NEW seq \in Seq(S), NEW x
    PROVE  /\ Without(seq, x) \in Seq(S)
           /\ Len(Without(seq, x)) = IF x \in ToSet(seq) THEN Len(seq) - 1 ELSE Len(seq)
           /\ IsInjective(seq) => /\ IsInjective(Without(seq, x))
                                  /\ ToSet(Without(seq, x)) = ToSet(seq) \ {x}
<1>1. CASE x \in ToSet(seq)
  <2>1. DOMAIN seq = 1 .. Len(seq) /\ \E j \in 1 .. Len(seq) : seq[j] = x
    BY <1>1, MembersTyped DEF ToSet
  <2>2. PICK i : i \in 1 .. Len(seq) /\ seq[i] = x /\ Without(seq, x) = RemoveAt(seq, i)
    BY <1>1, <2>1 DEF Without
  <2> QED BY <1>1, <2>2, Removed
<1>2. CASE x \notin ToSet(seq)
  BY <1>2 DEF Without
<1> QED BY <1>1, <1>2

LEMMA WithoutTyped ==
    ASSUME NEW S, NEW seq \in Seq(S), NEW x
    PROVE  Without(seq, x) \in Seq(S)
BY WithoutOf

\* Assignment with move_to_end: the key is the last member, once.
LEMMA ToEndOf ==
    ASSUME NEW S, NEW seq \in Seq(S), NEW x \in S
    PROVE  /\ ToEnd(seq, x) \in Seq(S) /\ ToEnd(seq, x) # <<>>
           /\ Len(ToEnd(seq, x)) = IF x \in ToSet(seq) THEN Len(seq) ELSE Len(seq) + 1
           /\ IsInjective(seq) => /\ IsInjective(ToEnd(seq, x))
                                  /\ ToSet(ToEnd(seq, x)) = ToSet(seq) \cup {x}
<1> DEFINE w == Without(seq, x)
<1>1. /\ w \in Seq(S) /\ Len(w) = IF x \in ToSet(seq) THEN Len(seq) - 1 ELSE Len(seq)
      /\ IsInjective(seq) => IsInjective(w) /\ ToSet(w) = ToSet(seq) \ {x}
  BY WithoutOf
<1>2. ToEnd(seq, x) = Append(w, x) /\ Len(seq) \in Nat
  BY LenProperties DEF ToEnd
<1> HIDE DEF w
<1>3. /\ Append(w, x) \in Seq(S) /\ Len(Append(w, x)) = Len(w) + 1
      /\ ToSet(Append(w, x)) = ToSet(w) \cup {x}
      /\ IsInjective(w) /\ x \notin ToSet(w) => IsInjective(Append(w, x))
  BY <1>1, Appended
<1>4. Append(w, x) # <<>>
  BY <1>1, AppendProperties
<1> QED BY <1>1, <1>2, <1>3, <1>4

LEMMA ToEndTyped ==
    ASSUME NEW S, NEW seq \in Seq(S), NEW x \in S
    PROVE  ToEnd(seq, x) \in Seq(S) /\ ToEnd(seq, x) # <<>>
BY ToEndOf

\* The values f of the members of a list grow.
Sorted(s, f) == \A i, j \in DOMAIN s : i < j => f[s[i]] < f[s[j]]

\* A list in order has each member once.
LEMMA SortedOnce ==
    ASSUME NEW S, NEW s \in Seq(S), NEW f \in [S -> Int], Sorted(s, f)
    PROVE  IsInjective(s)
<1>1. DOMAIN s = 1 .. Len(s) /\ \A i \in 1 .. Len(s) : f[s[i]] \in Int
    BY LenProperties, ElementOfSeq
<1>2. ASSUME NEW i \in DOMAIN s, NEW j \in DOMAIN s, s[i] = s[j], i < j PROVE FALSE
    <2>1. f[s[i]] < f[s[j]] /\ f[s[i]] = f[s[j]] /\ f[s[i]] \in Int
        BY <1>1, <1>2 DEF Sorted
    <2> QED BY <2>1
<1>3. ASSUME NEW i \in DOMAIN s, NEW j \in DOMAIN s, s[i] = s[j] PROVE i = j
    <2>1. ~(i < j) /\ ~(j < i)
        BY <1>2, <1>3
    <2>2. i \in Int /\ j \in Int
        BY <1>1
    <2> QED BY <2>1, <2>2
<1> QED BY <1>3 DEF IsInjective

\* The order of a list only depends on the values of its members.
LEMMA SortedSame ==
    ASSUME NEW s, NEW f, NEW g, Sorted(s, f), \A x \in ToSet(s) : g[x] = f[x]
    PROVE  Sorted(s, g)
BY DEF Sorted, ToSet

\* It stays in order when one goes, and when one comes that is greater than all.
LEMMA SortedWithout ==
    ASSUME NEW S, NEW s \in Seq(S), NEW f \in [S -> Int], Sorted(s, f), NEW x
    PROVE  Sorted(Without(s, x), f)
<1>1. Len(s) \in Nat /\ DOMAIN s = 1 .. Len(s) /\ \A i \in 1 .. Len(s) : s[i] \in S
    BY LenProperties, ElementOfSeq
<1>2. CASE x \in ToSet(s)
    <2>1. \E j \in 1 .. Len(s) : s[j] = x
        BY <1>2, MembersTyped
    <2>2. PICK i : i \in 1 .. Len(s) /\ Without(s, x) = RemoveAt(s, i)
        BY <1>1, <1>2, <2>1 DEF Without
    <2> DEFINE t == RemoveAt(s, i)
    <2>3. /\ DOMAIN t = 1 .. Len(s) - 1
          /\ \A j \in 1 .. Len(s) - 1 : t[j] = IF j < i THEN s[j] ELSE s[j + 1]
        BY <2>2, RemovedPlaces
    <2> HIDE DEF t
    <2>4. ASSUME NEW j \in DOMAIN t, NEW k \in DOMAIN t, j < k PROVE f[t[j]] < f[t[k]]
        <3>0. \A n \in DOMAIN t : \E a \in 1 .. Len(s) :
                 a = (IF n < i THEN n ELSE n + 1) /\ t[n] = s[a]
            <4> SUFFICES ASSUME NEW n \in 1 .. Len(s) - 1
                         PROVE  \E a \in 1 .. Len(s) :
                                   a = (IF n < i THEN n ELSE n + 1) /\ t[n] = s[a]
                BY <2>3
            <4> DEFINE a == IF n < i THEN n ELSE n + 1
            <4>1. a \in 1 .. Len(s)
                BY <1>1, <2>2
            <4>2. t[n] = s[a]
                BY <2>3
            <4> QED BY <4>1, <4>2
        <3>1. PICK a \in 1 .. Len(s) : a = (IF j < i THEN j ELSE j + 1) /\ t[j] = s[a]
            BY <3>0
        <3>2. PICK b \in 1 .. Len(s) : b = (IF k < i THEN k ELSE k + 1) /\ t[k] = s[b]
            BY <3>0
        <3>3. a < b
            BY <1>1, <2>2, <2>3, <2>4, <3>1, <3>2
        <3> QED BY <1>1, <3>1, <3>2, <3>3 DEF Sorted
    <2> QED BY <2>2, <2>4 DEF Sorted, t
<1>3. CASE x \notin ToSet(s)
    BY <1>3 DEF Without
<1> QED BY <1>2, <1>3

LEMMA SortedAppend ==
    ASSUME NEW S, NEW s \in Seq(S), NEW f \in [S -> Int], Sorted(s, f), NEW x \in S,
           \A y \in ToSet(s) : f[y] < f[x]
    PROVE  Sorted(Append(s, x), f)
<1> DEFINE t == Append(s, x)
<1>1. Len(s) \in Nat /\ DOMAIN s = 1 .. Len(s)
    BY LenProperties
<1>2. /\ DOMAIN t = 1 .. Len(s) + 1 /\ t[Len(s) + 1] = x
      /\ \A i \in 1 .. Len(s) : t[i] = s[i]
    BY <1>1, AppendProperties
<1> HIDE DEF t
<1>3. ASSUME NEW i \in DOMAIN t, NEW j \in DOMAIN t, i < j PROVE f[t[i]] < f[t[j]]
    <2>1. i \in 1 .. Len(s) /\ t[i] = s[i]
        BY <1>1, <1>2, <1>3
    <2>2. CASE j \in 1 .. Len(s)
        BY <1>1, <1>2, <1>3, <2>1, <2>2 DEF Sorted
    <2>3. CASE j = Len(s) + 1
        BY <1>1, <1>2, <2>1, <2>3 DEF ToSet
    <2> QED BY <1>1, <1>2, <2>2, <2>3
<1> QED BY <1>3 DEF Sorted, t

\* Its first is the least, and the others stay in order.
LEMMA SortedTail ==
    ASSUME NEW S, NEW s \in Seq(S), s # <<>>, NEW f \in [S -> Int], Sorted(s, f)
    PROVE  Sorted(Tail(s), f) /\ \A y \in ToSet(Tail(s)) : f[Head(s)] < f[y]
<1> DEFINE t == Tail(s)
<1>1. Len(s) \in Nat \ {0} /\ DOMAIN s = 1 .. Len(s)
    BY LenProperties, EmptySeq
<1>2. /\ DOMAIN t = 1 .. Len(s) - 1 /\ Head(s) = s[1]
      /\ \A i \in 1 .. Len(s) - 1 : t[i] = s[i + 1]
    BY <1>1, HeadTailProperties
<1> HIDE DEF t
<1>3. \A i \in 1 .. Len(s) - 1 : i + 1 \in DOMAIN s /\ 1 < i + 1 /\ 1 \in DOMAIN s
    BY <1>1
<1>4. \A i, j \in 1 .. Len(s) - 1 : i < j => i + 1 < j + 1
    BY <1>1
<1>5. ASSUME NEW i \in 1 .. Len(s) - 1, NEW j \in 1 .. Len(s) - 1, i < j
      PROVE  f[t[i]] < f[t[j]]
    <2>1. t[i] = s[i + 1] /\ t[j] = s[j + 1]
        BY <1>2
    <2>2. f[s[i + 1]] < f[s[j + 1]]
        BY <1>3, <1>4, <1>5 DEF Sorted
    <2> QED BY <2>1, <2>2
<1>6. ASSUME NEW i \in 1 .. Len(s) - 1 PROVE f[Head(s)] < f[t[i]]
    <2>1. t[i] = s[i + 1]
        BY <1>2
    <2>2. f[s[1]] < f[s[i + 1]]
        BY <1>3 DEF Sorted
    <2> QED BY <1>2, <2>1, <2>2
<1>7. Sorted(t, f)
    BY <1>2, <1>5 DEF Sorted
<1>8. \A y \in ToSet(t) : f[Head(s)] < f[y]
    BY <1>2, <1>6 DEF ToSet
<1> QED BY <1>7, <1>8 DEF t

\* A flattened list is what the concatenations from the first on come to.
LEMMA Flattened ==
    ASSUME NEW S, NEW ss \in Seq(Seq(S))
    PROVE  \E f \in [0 .. Len(ss) -> Seq(S)] :
              /\ f[0] = <<>>
              /\ \A n \in 1 .. Len(ss) : f[n] = f[n - 1] \o ss[n]
              /\ FlattenSeq(ss) = f[Len(ss)]
<1> DEFINE m == Len(ss)
           V == Seq(S)
           step == [n \in 1 .. m |-> [v \in V |-> v \o ss[n]]]
           body(r) == [n \in 1 .. m |-> IF n = 1 THEN ss[n] ELSE r[n - 1] \o ss[n]]
           flat == CHOOSE r : r = body(r)
<1>1. m \in Nat /\ \A n \in 1 .. m : ss[n] \in V
    BY LenProperties, ElementOfSeq
<1>2. FlattenSeq(ss) = IF m = 0 THEN ss ELSE flat[m]
    BY DEF FlattenSeq
<1>3. <<>> \in V /\ \A v, w \in V : v \o w \in V /\ <<>> \o w = w
    BY EmptySeq, ConcatProperties, ConcatEmptySeq
<1> HIDE DEF m, V
<1>4. step \in [1 .. m -> [V -> V]]
    BY <1>1, <1>3
<1>5. RecursiveUpto(m, V, <<>>, step) # {}
    <2> HIDE DEF step
    <2> QED BY <1>1, <1>3, <1>4, BoundedRecursionExists
<1>6. PICK g \in RecursiveUpto(m, V, <<>>, step) : TRUE
    BY <1>5
<1>7. g \in [0 .. m -> V] /\ g[0] = <<>> /\ \A n \in 1 .. m : g[n] = g[n - 1] \o ss[n]
    <2>1. g \in [0 .. m -> V] /\ g[0] = <<>> /\ \A n \in 1 .. m : g[n] = step[n][g[n - 1]]
        BY <1>6 DEF RecursiveUpto
    <2>2. ASSUME NEW n \in 1 .. m PROVE step[n][g[n - 1]] = g[n - 1] \o ss[n]
        <3>1. g[n - 1] \in V
            BY <1>1, <2>1
        <3> QED BY <3>1
    <2> HIDE DEF step
    <2> QED BY <2>1, <2>2
<1>8. CASE m = 0
    <2>1. ss = <<>>
        BY <1>8, EmptySeq DEF m
    <2> QED BY <1>2, <1>7, <1>8, <2>1 DEF m, V
<1>9. CASE m # 0
    <2> DEFINE h == [n \in 1 .. m |-> g[n]]
    <2>1. h = body(h)
        <3>1. ASSUME NEW n \in 1 .. m
              PROVE  g[n] = IF n = 1 THEN ss[n] ELSE h[n - 1] \o ss[n]
            <4>1. n = 1 => g[n - 1] = <<>>
                BY <1>7
            <4>2. n # 1 => h[n - 1] = g[n - 1]
                BY <1>1
            <4> HIDE DEF h
            <4> QED BY <1>1, <1>3, <1>7, <4>1, <4>2
        <3> QED BY <3>1
    <2>2. flat = body(flat)
        <3>1. flat = CHOOSE r : r = body(r)
            OBVIOUS
        <3> HIDE DEF body, flat, h
        <3> QED BY <2>1, <3>1
    <2> HIDE DEF flat
    <2>3. \A n \in 1 .. m : flat[n] = IF n = 1 THEN ss[n] ELSE flat[n - 1] \o ss[n]
        <3>1. \A n \in 1 .. m : body(flat)[n] = IF n = 1 THEN ss[n] ELSE flat[n - 1] \o ss[n]
            OBVIOUS
        <3> HIDE DEF body
        <3> QED BY <2>2, <3>1
    <2> DEFINE T == {n \in 0 .. m : n # 0 => flat[n] = g[n]}
    <2>4. 0 \in T
        BY <1>1
    <2>5. ASSUME NEW n \in 0 .. m - 1, n \in T PROVE n + 1 \in T
        <3>1. n + 1 \in 1 .. m /\ (n + 1) - 1 = n /\ n + 1 \in 0 .. m /\ ss[n + 1] \in V
            BY <1>1
        <3>2. g[n + 1] = g[n] \o ss[n + 1]
            BY <1>7, <3>1
        <3>3. n = 0 => g[n + 1] = ss[n + 1]
            BY <1>3, <1>7, <3>1, <3>2
        <3>4. n # 0 => flat[n] = g[n]
            BY <2>5
        <3>5. flat[n + 1] = IF n + 1 = 1 THEN ss[n + 1] ELSE flat[n] \o ss[n + 1]
            BY <2>3, <3>1
        <3>6. flat[n + 1] = g[n + 1]
            <4>1. n + 1 = 1 <=> n = 0
                BY <1>1
            <4>2. CASE n = 0
                <5>1. flat[n + 1] = ss[n + 1]
                    BY <3>5, <4>1, <4>2, Zenon
                <5> QED BY <3>3, <4>2, <5>1, Zenon
            <4>3. CASE n # 0
                <5>1. flat[n + 1] = flat[n] \o ss[n + 1]
                    BY <3>5, <4>1, <4>3, Zenon
                <5> QED BY <3>2, <3>4, <4>3, <5>1, Zenon
            <4> QED BY <4>2, <4>3
        <3> QED BY <3>1, <3>6
    <2>6. 0 .. m \subseteq T
        <3> HIDE DEF T
        <3> QED BY <1>1, <2>4, <2>5, BoundedInduction
    <2>7. flat[m] = g[m]
        BY <1>1, <1>9, <2>6
    <2> QED BY <1>2, <1>7, <1>9, <2>7 DEF m, V
<1> QED BY <1>8, <1>9

\* What a flattened list has are the members of its lists.
LEMMA FlattenedMembers ==
    ASSUME NEW S, NEW ss \in Seq(Seq(S))
    PROVE  /\ FlattenSeq(ss) \in Seq(S)
           /\ \A x : x \in ToSet(FlattenSeq(ss)) <=> \E i \in DOMAIN ss : x \in ToSet(ss[i])
<1>1. Len(ss) \in Nat /\ DOMAIN ss = 1 .. Len(ss) /\ \A n \in 1 .. Len(ss) : ss[n] \in Seq(S)
    BY LenProperties, ElementOfSeq
<1>2. PICK f \in [0 .. Len(ss) -> Seq(S)] :
         /\ f[0] = <<>>
         /\ \A n \in 1 .. Len(ss) : f[n] = f[n - 1] \o ss[n]
         /\ FlattenSeq(ss) = f[Len(ss)]
    BY Flattened
<1> DEFINE T == {n \in 0 .. Len(ss) :
                    \A x : x \in ToSet(f[n]) <=> \E i \in 1 .. n : x \in ToSet(ss[i])}
<1>3. 0 \in T
    BY <1>1, <1>2, EmptyList
<1>4. ASSUME NEW n \in 0 .. Len(ss) - 1, n \in T PROVE n + 1 \in T
    <2>1. n + 1 \in 1 .. Len(ss) /\ (n + 1) - 1 = n /\ n \in 0 .. Len(ss) /\ n + 1 \in 0 .. Len(ss)
        BY <1>1
    <2>2. f[n + 1] = f[n] \o ss[n + 1] /\ f[n] \in Seq(S) /\ ss[n + 1] \in Seq(S)
        BY <1>1, <1>2, <2>1
    <2>3. ToSet(f[n + 1]) = ToSet(f[n]) \cup ToSet(ss[n + 1])
        BY <2>2, Concatenated
    <2>4. \A i : i \in 1 .. n + 1 <=> i \in 1 .. n \/ i = n + 1
        BY <1>1
    <2>5. \A x : x \in ToSet(f[n]) <=> \E i \in 1 .. n : x \in ToSet(ss[i])
        BY <1>4
    <2> QED BY <2>1, <2>3, <2>4, <2>5
<1>5. 0 .. Len(ss) \subseteq T
    <2> HIDE DEF T
    <2> QED BY <1>1, <1>3, <1>4, BoundedInduction
<1>6. Len(ss) \in T
    <2> HIDE DEF T
    <2> QED BY <1>1, <1>5
<1> QED BY <1>1, <1>2, <1>6

\* Concatenation, as an operator the provers take as a whole: it is associative.
Cat(s, t) == s \o t

LEMMA Associated ==
    ASSUME NEW S, NEW s, NEW t, NEW u, s \in Seq(S), t \in Seq(S), u \in Seq(S)
    PROVE  Cat(Cat(s, t), u) = Cat(s, Cat(t, u))
<1>1. (s \o t) \o u = s \o (t \o u)
    BY ConcatAssociative
<1> QED BY <1>1 DEF Cat

LEMMA CatPlaces ==
    ASSUME NEW S, NEW s, NEW t, s \in Seq(S), t \in Seq(S)
    PROVE  /\ Cat(s, t) \in Seq(S) /\ Len(Cat(s, t)) = Len(s) + Len(t)
           /\ \A i \in 1 .. Len(s) + Len(t) :
                 Cat(s, t)[i] = IF i <= Len(s) THEN s[i] ELSE t[i - Len(s)]
    BY ConcatProperties DEF Cat

\* One more member is in the last place.
LEMMA AddedLast ==
    ASSUME NEW S, NEW s, NEW x, s \in Seq(S), x \in S
    PROVE  /\ Cat(s, <<x>>) \in Seq(S) /\ Len(Cat(s, <<x>>)) = Len(s) + 1
           /\ \A i \in 1 .. Len(s) + 1 :
                 Cat(s, <<x>>)[i] = IF i <= Len(s) THEN s[i] ELSE x
<1>1. PICK t : t = <<x>>
    OBVIOUS
<1>2. t \in Seq(S) /\ Len(t) = 1 /\ t[1] = x
    BY <1>1
<1>3. Len(s) \in Nat
    BY LenProperties
<1>4. /\ Cat(s, t) \in Seq(S) /\ Len(Cat(s, t)) = Len(s) + Len(t)
      /\ \A i \in 1 .. Len(s) + Len(t) :
            Cat(s, t)[i] = IF i <= Len(s) THEN s[i] ELSE t[i - Len(s)]
    <2>1. t \in Seq(S)
        BY <1>2
    <2> QED BY <2>1, CatPlaces, SMTT(30)
<1> QED BY <1>1, <1>2, <1>3, <1>4

\* A list put before the others comes first in the flattened list.
LEMMA FlattenedCons ==
    ASSUME NEW S, NEW n \in Nat, NEW g, \A i \in 1 .. n + 1 : g[i] \in Seq(S)
    PROVE  FlattenSeq([i \in 1 .. n + 1 |-> g[n + 2 - i]])
             = g[n + 1] \o FlattenSeq([i \in 1 .. n |-> g[n + 1 - i]])
<1> DEFINE a == [i \in 1 .. n |-> g[n + 1 - i]]
           b == [i \in 1 .. n + 1 |-> g[n + 2 - i]]
           V == Seq(S)
<1>1. a \in Seq(V) /\ Len(a) = n
    OBVIOUS
<1>2. b \in Seq(V) /\ Len(b) = n + 1
    OBVIOUS
<1>3. b[1] = g[n + 1] /\ \A i \in 1 .. n : b[i + 1] = a[i] /\ a[i] \in V
    OBVIOUS
<1>4. g[n + 1] \in V
    OBVIOUS
<1> HIDE DEF a, b
<1>5. PICK f \in [0 .. n -> V] :
         /\ f[0] = <<>> /\ \A i \in 1 .. n : f[i] = f[i - 1] \o a[i]
         /\ FlattenSeq(a) = f[n]
    BY <1>1, Flattened
<1>6. PICK h \in [0 .. n + 1 -> V] :
         /\ h[0] = <<>> /\ \A i \in 1 .. n + 1 : h[i] = h[i - 1] \o b[i]
         /\ FlattenSeq(b) = h[n + 1]
    <2>1. \E h \in [0 .. Len(b) -> Seq(S)] :
             /\ h[0] = <<>> /\ \A i \in 1 .. Len(b) : h[i] = h[i - 1] \o b[i]
             /\ FlattenSeq(b) = h[Len(b)]
        BY <1>2, Flattened, Zenon
    <2> QED BY <1>2, <2>1, Zenon
<1> DEFINE T == {k \in 0 .. n : h[k + 1] = g[n + 1] \o f[k]}
<1>7. 0 \in T
    <2>1. h[1] = h[0] \o b[1]
        <3>1. 1 \in 1 .. n + 1 /\ 1 - 1 = 0
            OBVIOUS
        <3> QED BY <1>6, <3>1
    <2>2. <<>> \o g[n + 1] = g[n + 1] /\ g[n + 1] \o <<>> = g[n + 1]
        BY <1>4, ConcatEmptySeq
    <2>3. h[1] = g[n + 1] \o f[0]
        BY <1>3, <1>5, <1>6, <2>1, <2>2
    <2> QED BY <2>3
<1>8. ASSUME NEW k \in 0 .. n - 1, k \in T PROVE k + 1 \in T
    <2>0. /\ k \in 0 .. n /\ k + 1 \in 1 .. n /\ (k + 1) - 1 = k
          /\ k + 2 \in 1 .. n + 1 /\ (k + 2) - 1 = k + 1 /\ (k + 1) + 1 = k + 2
        OBVIOUS
    <2>1. h[k + 2] = h[k + 1] \o b[k + 2] /\ b[k + 2] = a[k + 1] /\ a[k + 1] \in V
        <3>1. b[(k + 1) + 1] = a[k + 1] /\ a[k + 1] \in V
            BY <1>3, <2>0
        <3>2. h[k + 2] = h[(k + 2) - 1] \o b[k + 2]
            BY <1>6, <2>0
        <3> QED BY <2>0, <3>1, <3>2
    <2>2. h[k + 1] = g[n + 1] \o f[k] /\ f[k] \in V
        BY <1>5, <1>8, <2>0
    <2>3. f[k + 1] = f[k] \o a[k + 1]
        <3>1. f[k + 1] = f[(k + 1) - 1] \o a[k + 1]
            BY <1>5, <2>0
        <3> QED BY <2>0, <3>1
    <2>4. (g[n + 1] \o f[k]) \o a[k + 1] = g[n + 1] \o (f[k] \o a[k + 1])
        <3>1. g[n + 1] \in Seq(S) /\ f[k] \in Seq(S) /\ a[k + 1] \in Seq(S)
            BY <1>4, <2>1, <2>2
        <3>2. Cat(Cat(g[n + 1], f[k]), a[k + 1]) = Cat(g[n + 1], Cat(f[k], a[k + 1]))
            <4> DEFINE x == g[n + 1]
                       y == f[k]
                       z == a[k + 1]
            <4>1. x \in Seq(S) /\ y \in Seq(S) /\ z \in Seq(S)
                BY <3>1
            <4> HIDE DEF x, y, z
            <4>2. Cat(Cat(x, y), z) = Cat(x, Cat(y, z))
                BY <4>1, Associated
            <4> QED BY <4>2 DEF x, y, z
        <3> QED BY <3>2 DEF Cat
    <2>5. k + 1 \in 0 .. n /\ (k + 1) + 1 = k + 2
        OBVIOUS
    <2>6. h[(k + 1) + 1] = g[n + 1] \o f[k + 1]
        BY <2>1, <2>2, <2>3, <2>4, <2>5
    <2> QED BY <2>5, <2>6
<1>9. n \in T
    <2> HIDE DEF T
    <2>1. 0 .. n \subseteq T
        BY <1>7, <1>8, BoundedInduction
    <2> QED BY <2>1
<1>10. FlattenSeq(b) = g[n + 1] \o FlattenSeq(a)
    BY <1>5, <1>6, <1>9
<1> QED BY <1>10 DEF a, b

-----------------------------------------------------------------------------
(* Sorting, and numbers.                                                   *)

\* R puts the members of S in one order.
StrictOrder(S, R) ==
    /\ \A x \in S : <<x, x>> \notin R
    /\ \A x, y, z \in S : <<x, y>> \in R /\ <<y, z>> \in R => <<x, z>> \in R
    /\ \A x, y \in S : x # y => <<x, y>> \in R \/ <<y, x>> \in R

\* Under a strict total order every place of the sorted list has a member, every
\* member a place, and earlier places have what comes before.
LEMMA Ranked ==
    ASSUME NEW S, IsFiniteSet(S), NEW R, StrictOrder(S, R)
    PROVE  /\ Cardinality(S) \in Nat
           /\ InOrder(S, R) \in [1 .. Cardinality(S) -> S]
           /\ \A m, n \in 1 .. Cardinality(S) :
                 m < n => <<InOrder(S, R)[m], InOrder(S, R)[n]>> \in R
           /\ \A x \in S : \E n \in 1 .. Cardinality(S) : InOrder(S, R)[n] = x
<1> DEFINE N == Cardinality(S)
           Ahead(x) == {y \in S : <<y, x>> \in R}
           place == [x \in S |-> Cardinality(Ahead(x)) + 1]
           O == InOrder(S, R)
<1>1. N \in Nat
    BY FS_CardinalityType
<1>2. ASSUME NEW x \in S
      PROVE  IsFiniteSet(Ahead(x)) /\ Cardinality(Ahead(x)) \in 0 .. N - 1
    <2>1. Ahead(x) \in SUBSET S /\ x \notin Ahead(x)
        BY DEF StrictOrder
    <2>2. IsFiniteSet(Ahead(x)) /\ Cardinality(Ahead(x)) <= N
             /\ Cardinality(Ahead(x)) # N
        <3> HIDE DEF Ahead
        <3> QED BY <2>1, FS_Subset
    <2>3. Cardinality(Ahead(x)) \in Nat
        <3> HIDE DEF Ahead
        <3> QED BY <2>2, FS_CardinalityType
    <2> QED BY <1>1, <2>2, <2>3
<1>3. ASSUME NEW x \in S, NEW y \in S, <<x, y>> \in R
      PROVE  Cardinality(Ahead(x)) < Cardinality(Ahead(y))
    <2>1. Ahead(x) \in SUBSET Ahead(y)
        BY <1>3 DEF StrictOrder
    <2>2. x \in Ahead(y) /\ x \notin Ahead(x)
        BY <1>3 DEF StrictOrder
    <2>3. Cardinality(Ahead(x)) <= Cardinality(Ahead(y))
             /\ Cardinality(Ahead(x)) # Cardinality(Ahead(y))
        <3> HIDE DEF Ahead
        <3> QED BY <1>2, <2>1, <2>2, FS_Subset
    <2> HIDE DEF Ahead
    <2> QED BY <1>1, <1>2, <2>3
<1>4. place \in [S -> 1 .. N]
    <2> HIDE DEF Ahead
    <2> QED BY <1>1, <1>2
<1>5. \A x, y \in S : x # y => place[x] # place[y]
    <2> SUFFICES ASSUME NEW x \in S, NEW y \in S, x # y PROVE place[x] # place[y]
        OBVIOUS
    <2>1. <<x, y>> \in R \/ <<y, x>> \in R
        BY DEF StrictOrder
    <2> HIDE DEF Ahead
    <2> QED BY <1>1, <1>2, <1>3, <2>1
<1>6. place \in Surjection(S, 1 .. N)
    <2>1. IsFiniteSet(1 .. N) /\ Cardinality(1 .. N) = N
        BY <1>1, FS_Interval
    <2>2. place \in Injection(S, 1 .. N)
        <3> HIDE DEF place
        <3> QED BY <1>4, <1>5, Zenon DEF Injection, IsInjective
    <2> HIDE DEF place
    <2> QED BY <2>1, <2>2, FS_Injection
<1>7. ASSUME NEW n \in 1 .. N PROVE O[n] \in S /\ place[O[n]] = n
    <2>1. PICK x \in S : place[x] = n
        <3> HIDE DEF place
        <3> QED BY <1>6 DEF Surjection
    <2>2. Cardinality(Ahead(x)) = n - 1
        <3> HIDE DEF Ahead
        <3> QED BY <1>1, <1>2, <2>1
    <2>3. O[n] = CHOOSE z \in S : Cardinality(Ahead(z)) = n - 1
        BY DEF InOrder
    <2>4. O[n] \in S /\ Cardinality(Ahead(O[n])) = n - 1
        <3> HIDE DEF Ahead, O
        <3> QED BY <2>2, <2>3
    <2> HIDE DEF Ahead, O
    <2> QED BY <1>1, <2>4
<1>8. O \in [1 .. N -> S]
    <2> DEFINE member(n) == CHOOSE x \in S : Cardinality(Ahead(x)) = n - 1
    <2>1. O = [n \in 1 .. N |-> member(n)]
        BY DEF InOrder
    <2> HIDE DEF O, member
    <2>2. \A n \in 1 .. N : O[n] = member(n)
        BY <2>1
    <2>3. \A n \in 1 .. N : member(n) \in S
        BY <1>7, <2>2
    <2> QED BY <2>1, <2>3
<1>9. ASSUME NEW m \in 1 .. N, NEW n \in 1 .. N, m < n PROVE <<O[m], O[n]>> \in R
    <2>1. O[m] \in S /\ O[n] \in S /\ place[O[m]] = m /\ place[O[n]] = n
        BY <1>7
    <2>2. Cardinality(Ahead(O[m])) < Cardinality(Ahead(O[n]))
        <3> HIDE DEF Ahead, O
        <3> QED BY <1>1, <1>2, <1>9, <2>1
    <2>3. O[m] # O[n] /\ ~(<<O[n], O[m]>> \in R)
        <3>1. <<O[n], O[m]>> \in R => Cardinality(Ahead(O[n])) < Cardinality(Ahead(O[m]))
            <4> HIDE DEF Ahead, O
            <4> QED BY <1>3, <2>1
        <3> HIDE DEF O, place
        <3>2. O[m] # O[n]
            BY <1>9, <2>1
        <3> HIDE DEF Ahead
        <3> QED BY <1>2, <2>1, <2>2, <3>1, <3>2
    <2> HIDE DEF O
    <2> QED BY <2>1, <2>3 DEF StrictOrder
<1>10. ASSUME NEW x \in S PROVE \E n \in 1 .. N : O[n] = x
    <2>1. place[x] \in 1 .. N
        <3> HIDE DEF place
        <3> QED BY <1>4
    <2>2. O[place[x]] \in S /\ place[O[place[x]]] = place[x]
        <3> HIDE DEF O, place
        <3> QED BY <1>7, <2>1
    <2> HIDE DEF O, place
    <2> QED BY <1>5, <2>1, <2>2
<1> HIDE DEF O, N
<1>11. /\ N \in Nat /\ O \in [1 .. N -> S]
       /\ \A m, n \in 1 .. N : m < n => <<O[m], O[n]>> \in R
       /\ \A x \in S : \E n \in 1 .. N : O[n] = x
    BY <1>1, <1>8, <1>9, <1>10
<1> QED BY <1>11 DEF N, O

\* A finite set of numbers in ascending order.
LEMMA Ascended ==
    ASSUME NEW m \in Nat, NEW S, S \subseteq 1 .. m
    PROVE  /\ Cardinality(S) \in Nat
           /\ Ascending(S) \in [1 .. Cardinality(S) -> S]
           /\ \A i, j \in 1 .. Cardinality(S) : i < j => Ascending(S)[i] < Ascending(S)[j]
           /\ \A x \in S : \E n \in 1 .. Cardinality(S) : Ascending(S)[n] = x
<1> DEFINE R == {p \in S \X S : p[1] < p[2]}
<1>1. IsFiniteSet(S)
    <2>1. IsFiniteSet(1 .. m)
        BY FS_Interval
    <2> QED BY <2>1, FS_Subset
<1>2. \A x, y \in S : <<x, y>> \in R <=> x < y
    OBVIOUS
<1>3. Ascending(S) = InOrder(S, R)
    BY DEF Ascending
<1>4. S \subseteq Int
    OBVIOUS
<1> HIDE DEF R
<1>5. StrictOrder(S, R)
    BY <1>2, <1>4 DEF StrictOrder
<1>6. /\ Cardinality(S) \in Nat
      /\ InOrder(S, R) \in [1 .. Cardinality(S) -> S]
      /\ \A i, j \in 1 .. Cardinality(S) :
            i < j => <<InOrder(S, R)[i], InOrder(S, R)[j]>> \in R
      /\ \A x \in S : \E n \in 1 .. Cardinality(S) : InOrder(S, R)[n] = x
    <2> HIDE DEF R
    <2>1. IsFiniteSet(S)
        BY <1>1
    <2> QED BY <2>1, <1>5, Ranked, SMTT(30)
<1>7. ASSUME NEW i \in 1 .. Cardinality(S), NEW j \in 1 .. Cardinality(S), i < j
      PROVE  Ascending(S)[i] < Ascending(S)[j]
    <2>1. InOrder(S, R)[i] \in S /\ InOrder(S, R)[j] \in S
        BY <1>6
    <2>2. <<InOrder(S, R)[i], InOrder(S, R)[j]>> \in R
        BY <1>6, <1>7
    <2> QED BY <1>2, <1>3, <2>1, <2>2
<1> QED BY <1>3, <1>6, <1>7


\* How many places there are after one.
LEMMA PlacesAfter ==
    ASSUME NEW a \in Nat, NEW n \in Nat
    PROVE  IsFiniteSet(a + 1 .. a + n) /\ Cardinality(a + 1 .. a + n) = n
<1> DEFINE first == a + 1
           end == a + n
<1>1. first \in Int /\ end \in Int /\ (IF first > end THEN 0 ELSE end - first + 1) = n
    OBVIOUS
<1> HIDE DEF first, end
<1>2. /\ IsFiniteSet(first .. end)
      /\ Cardinality(first .. end) = IF first > end THEN 0 ELSE end - first + 1
    BY <1>1, FS_Interval
<1> QED BY <1>1, <1>2 DEF first, end

\* The remainder of the next number.
LEMMA NextRemainder ==
    ASSUME NEW n \in Nat \ {0}, NEW i \in Nat
    PROVE  /\ i % n \in 0 .. n - 1
           /\ (i + 1) % n = IF i % n = n - 1 THEN 0 ELSE (i % n) + 1
  <1> DEFINE q == i \div n
             r == i % n
  <1>1. q \in Int /\ r \in 0 .. n - 1 /\ i = n * q + r
    BY SMT
  <1>2. CASE r = n - 1
    <2>1. i + 1 = n * (q + 1)
      BY <1>1, <1>2, SMT
    <2>2. (n * (q + 1)) % n = 0
      BY <1>1, SMT
    <2> QED
      BY <1>1, <1>2, <2>1, <2>2
  <1>3. CASE r # n - 1
    <2> HIDE DEF q, r
    <2>1. i + 1 = n * q + (r + 1) /\ r + 1 \in 0 .. n - 1
      BY <1>1, <1>3, SMT
    <2>2. (n * q + (r + 1)) % n = r + 1
      BY <1>1, <2>1, SMT
    <2> QED
      BY <1>1, <1>3, <2>1, <2>2 DEF r
  <1> QED
    BY <1>2, <1>3

\* Of every n-th place from 1 on, the last up to place i.
LastStart(n, i) == i - ((i - 1) % n)

\* It is one of them, and less than n places back.
LEMMA Remainders ==
    ASSUME NEW n \in Nat \ {0}, NEW i \in Nat \ {0}
    PROVE  /\ LastStart(n, i) \in 1 .. i /\ i < LastStart(n, i) + n
           /\ (LastStart(n, i) - 1) % n = 0
<1> DEFINE j == i - 1
           q == j \div n
           r == j % n
<1>1. q \in Nat /\ r \in 0 .. n - 1 /\ j = n * q + r /\ j \in Nat
    BY SMT
<1>2. n * q \in Nat /\ (n * q) % n = 0
    BY <1>1, SMT
<1>3. LastStart(n, i) = i - r
    BY DEF LastStart
<1> HIDE DEF q, r
<1>4. r <= j /\ j - r = n * q /\ i - r - 1 = j - r
    BY <1>1, <1>2
<1>5. (i - r - 1) % n = 0
    BY <1>2, <1>4
<1> QED BY <1>1, <1>3, <1>4, <1>5

\* Lists that start alike and are equal go on alike.
LEMMA SamePrefix ==
    ASSUME NEW M, NEW s \in Seq(M), NEW a \in Seq(M), NEW b \in Seq(M), s \o a = s \o b
    PROVE  a = b
<1>1. Len(s) \in Nat /\ Len(a) \in Nat /\ Len(b) \in Nat
    BY LenProperties
<1>2. /\ Len(s \o a) = Len(s) + Len(a) /\ Len(s \o b) = Len(s) + Len(b)
      /\ \A i \in 1 .. Len(s) + Len(a) : (s \o a)[i] = IF i <= Len(s) THEN s[i] ELSE a[i - Len(s)]
      /\ \A i \in 1 .. Len(s) + Len(b) : (s \o b)[i] = IF i <= Len(s) THEN s[i] ELSE b[i - Len(s)]
    BY ConcatProperties
<1>3. Len(a) = Len(b)
    BY <1>1, <1>2
<1>4. ASSUME NEW i \in 1 .. Len(a) PROVE a[i] = b[i]
    <2>1. /\ i + Len(s) \in 1 .. Len(s) + Len(a) /\ ~(i + Len(s) <= Len(s))
          /\ (i + Len(s)) - Len(s) = i
        BY <1>1
    <2>2. (s \o a)[i + Len(s)] = a[i] /\ (s \o b)[i + Len(s)] = b[i]
        BY <1>2, <1>3, <2>1
    <2> QED BY <2>2
<1> QED BY <1>3, <1>4, SeqEqual

-----------------------------------------------------------------------------
(* Backwards.                                                               *)

\* Induction from the last number down.
LEMMA BackwardInduction ==
    ASSUME NEW m \in Nat, NEW T, m + 1 \in T, \A i \in 1 .. m : i + 1 \in T => i \in T
    PROVE  \A i \in 1 .. m + 1 : i \in T
<1> DEFINE U == {d \in 0 .. m : m + 1 - d \in T}
<1>1. 0 \in U
  OBVIOUS
<1>2. ASSUME NEW d \in 0 .. m - 1, d \in U PROVE d + 1 \in U
  <2>1. m - d \in 1 .. m /\ (m - d) + 1 = m + 1 - d /\ m + 1 - (d + 1) = m - d /\ d + 1 \in 0 .. m
    OBVIOUS
  <2>2. m + 1 - d \in T
    BY <1>2
  <2> QED
    BY <2>1, <2>2
<1>3. 0 .. m \subseteq U
  <2> HIDE DEF U
  <2> QED
    BY <1>1, <1>2, BoundedInduction
<1>4. ASSUME NEW i \in 1 .. m + 1 PROVE i \in T
  <2>1. m + 1 - i \in 0 .. m /\ m + 1 - (m + 1 - i) = i
    OBVIOUS
  <2> QED
    BY <1>3, <2>1
<1> QED
  BY <1>4

\* The functions on 1 .. m + 1 that are v0 at m + 1 and at n what step[n] makes of
\* their value at n + 1.
RecursiveBack(m, V, v0, step) ==
    {g \in [1 .. m + 1 -> V] : g[m + 1] = v0 /\ \A n \in 1 .. m : g[n] = step[n][g[n + 1]]}

\* There is such a function, whatever the step.
LEMMA BackwardRecursionExists ==
    ASSUME NEW V, NEW m \in Nat, NEW v0 \in V, NEW step \in [1 .. m -> [V -> V]]
    PROVE  RecursiveBack(m, V, v0, step) # {}
<1> DEFINE back == [n \in 1 .. m |-> step[m + 1 - n]]
<1>1. back \in [1 .. m -> [V -> V]]
  <2>1. \A n \in 1 .. m : m + 1 - n \in 1 .. m
    OBVIOUS
  <2> QED
    BY <2>1
<1>2. \A n \in 1 .. m : /\ m + 1 - n \in 1 .. m /\ (m + 1 - n) - 1 = m + 1 - (n + 1)
                        /\ back[m + 1 - n] = step[n]
  <2>1. \A n \in 1 .. m : m + 1 - n \in 1 .. m /\ m + 1 - (m + 1 - n) = n
                          /\ (m + 1 - n) - 1 = m + 1 - (n + 1)
    OBVIOUS
  <2> QED
    BY <2>1
<1> HIDE DEF back
<1>3. PICK f : f \in RecursiveUpto(m, V, v0, back)
  <2>1. RecursiveUpto(m, V, v0, back) # {}
    BY <1>1, BoundedRecursionExists
  <2> QED
    BY <2>1
<1>4. f \in [0 .. m -> V] /\ f[0] = v0 /\ \A n \in 1 .. m : f[n] = back[n][f[n - 1]]
  BY <1>3 DEF RecursiveUpto
<1> DEFINE g == [n \in 1 .. m + 1 |-> f[m + 1 - n]]
<1>5. g \in [1 .. m + 1 -> V] /\ g[m + 1] = v0
  <2>1. \A n \in 1 .. m + 1 : m + 1 - n \in 0 .. m
    OBVIOUS
  <2>2. m + 1 \in 1 .. m + 1 /\ m + 1 - (m + 1) = 0
    OBVIOUS
  <2> QED
    BY <1>4, <2>1, <2>2
<1>6. ASSUME NEW n \in 1 .. m PROVE g[n] = step[n][g[n + 1]]
  <2>1. n \in 1 .. m + 1 /\ n + 1 \in 1 .. m + 1
    OBVIOUS
  <2>2. f[m + 1 - n] = back[m + 1 - n][f[(m + 1 - n) - 1]]
    BY <1>2, <1>4
  <2>3. f[m + 1 - n] = step[n][f[m + 1 - (n + 1)]]
    BY <1>2, <2>2
  <2> QED
    BY <2>1, <2>3
<1> HIDE DEF g
<1>7. g \in RecursiveBack(m, V, v0, step)
  BY <1>5, <1>6 DEF RecursiveBack
<1> QED
  BY <1>7

-----------------------------------------------------------------------------
(* Induction over finite sets, and sums over them.                          *)

\* Induction over the subsets of a finite set.
LEMMA SetInduction ==
    ASSUME NEW S, IsFiniteSet(S), NEW T, {} \in T,
           \A s \in SUBSET S : \A x \in S \ s : s \in T => s \cup {x} \in T
    PROVE  \A s \in SUBSET S : s \in T
<1> DEFINE N == {n \in Nat : \A s \in SUBSET S : Cardinality(s) = n => s \in T}
<1>1. \A s \in SUBSET S : IsFiniteSet(s) /\ Cardinality(s) \in Nat
  BY FS_Subset, FS_CardinalityType
<1>2. 0 \in N
  BY <1>1, FS_EmptySet
<1>3. ASSUME NEW n \in N PROVE n + 1 \in N
  <2> SUFFICES ASSUME NEW s \in SUBSET S, Cardinality(s) = n + 1 PROVE s \in T
    OBVIOUS
  <2>1. PICK x \in s : TRUE
    BY <1>1, FS_EmptySet
  <2>2. /\ s \ {x} \in SUBSET S /\ x \in S \ (s \ {x}) /\ s = (s \ {x}) \cup {x}
    BY <2>1
  <2>3. Cardinality(s \ {x}) = n
    BY <1>1, <2>1, FS_RemoveElement
  <2>4. s \ {x} \in T
    BY <1>3, <2>2, <2>3
  <2> QED
    BY <2>2, <2>4
<1>4. N = Nat
  <2> HIDE DEF N
  <2>1. N \subseteq Nat BY DEF N
  <2> QED
    BY <1>2, <1>3, <2>1, NatInductionSet
<1> QED
  BY <1>1, <1>4

\* A sum over a finite set: of nothing 0, and with one more argument more by its value.
SumTables(f, S) ==
    {h \in [SUBSET S -> Int] : /\ h[{}] = 0
                             /\ \A s \in SUBSET S : \A x \in s : h[s] = f[x] + h[s \ {x}]}

\* Every finite sum has such a table.
LEMMA SumTableExists ==
    ASSUME NEW S, IsFiniteSet(S), NEW f, \A x \in S : f[x] \in Int
    PROVE  SumTables(f, S) # {}
<1> DEFINE n == Cardinality(S)
<1>1. PICK e : e \in Bijection(1 .. n, S)
  BY FS_CardinalityType DEF ExistsBijection
<1>2. /\ n \in Nat /\ e \in [1 .. n -> S]
      /\ \A i, j \in 1 .. n : e[i] = e[j] => i = j
      /\ \A x \in S : \E i \in 1 .. n : e[i] = x
  BY <1>1, FS_CardinalityType DEF Bijection, Injection, Surjection, IsInjective
<1> HIDE DEF n
<1> DEFINE step == [s \in SUBSET S |-> [i \in 1 .. n |->
                      [v \in Int |-> IF e[i] \in s THEN f[e[i]] + v ELSE v]]]
           G == [s \in SUBSET S |-> CHOOSE g : g \in RecursiveUpto(n, Int, 0, step[s])]
           h == [s \in SUBSET S |-> G[s][n]]
<1>3. ASSUME NEW s \in SUBSET S
      PROVE  /\ G[s] \in [0 .. n -> Int] /\ G[s][0] = 0
             /\ \A i \in 1 .. n : G[s][i] = IF e[i] \in s THEN f[e[i]] + G[s][i - 1]
                                            ELSE G[s][i - 1]
  <2>1. step[s] \in [1 .. n -> [Int -> Int]]
    BY <1>2
  <2> DEFINE st == step[s]
  <2>2. st \in [1 .. n -> [Int -> Int]] BY <2>1
  <2> HIDE DEF st
  <2>3. RecursiveUpto(n, Int, 0, st) # {}
    <3> HIDE DEF step, G, h
    <3>1. 0 \in Int OBVIOUS
    <3>2. n \in Nat BY <1>2
    <3> QED BY <2>2, <3>1, <3>2, BoundedRecursionExists
  <2>4. G[s] \in RecursiveUpto(n, Int, 0, st)
    BY <2>3 DEF st
  <2> HIDE DEF G
  <2>5. G[s] \in [0 .. n -> Int] /\ G[s][0] = 0
        /\ \A i \in 1 .. n : G[s][i] = st[i][G[s][i - 1]]
    BY <2>4 DEF RecursiveUpto
  <2>6. ASSUME NEW i \in 1 .. n
        PROVE st[i][G[s][i - 1]] = IF e[i] \in s THEN f[e[i]] + G[s][i - 1] ELSE G[s][i - 1]
    <3>1. G[s][i - 1] \in Int
      BY <1>2, <2>5
    <3>2. \A v \in Int : st[i][v] = IF e[i] \in s THEN f[e[i]] + v ELSE v
      BY DEF st
    <3> QED
      BY <3>1, <3>2
  <2> QED
    BY <2>5, <2>6
<1> HIDE DEF G
<1>4. h \in [SUBSET S -> Int]
  BY <1>2, <1>3
<1>5. h[{}] = 0
  <2> DEFINE T == {i \in 0 .. n : G[{}][i] = 0}
  <2>0. {} \in SUBSET S OBVIOUS
  <2>1. 0 \in T BY <1>2, <1>3, <2>0
  <2>2. ASSUME NEW i \in 0 .. n - 1, i \in T PROVE i + 1 \in T
    <3>1. i + 1 \in 1 .. n /\ (i + 1) - 1 = i BY <1>2
    <3> QED BY <1>3, <2>0, <2>2, <3>1
  <2>3. 0 .. n \subseteq T
    <3> HIDE DEF T
    <3> QED BY <1>2, <2>1, <2>2, BoundedInduction
  <2> QED BY <1>2, <2>0, <2>3
<1>6. ASSUME NEW s \in SUBSET S, NEW x \in s PROVE h[s] = f[x] + h[s \ {x}]
  <2> DEFINE t == s \ {x}
  <2>0. t \in SUBSET S /\ x \in S OBVIOUS
  <2>1. PICK k \in 1 .. n : e[k] = x BY <1>2
  <2>2. /\ \A i \in 1 .. n : e[i] \in s <=> e[i] \in t \/ i = k
        /\ e[k] \notin t /\ e[k] \in s
    BY <1>2, <2>1
  <2> HIDE DEF t
  <2>3. /\ G[t] \in [0 .. n -> Int] /\ G[t][0] = 0
        /\ \A i \in 1 .. n : G[t][i] = IF e[i] \in t THEN f[e[i]] + G[t][i - 1]
                                            ELSE G[t][i - 1]
    BY <1>3, <2>0
  <2>4. /\ G[s] \in [0 .. n -> Int] /\ G[s][0] = 0
        /\ \A i \in 1 .. n : G[s][i] = IF e[i] \in s THEN f[e[i]] + G[s][i - 1]
                                            ELSE G[s][i - 1]
    BY <1>3
  <2> DEFINE T == {i \in 0 .. n : G[s][i] = IF i < k THEN G[t][i] ELSE f[x] + G[t][i]}
  <2>5. 0 \in T BY <1>2, <2>3, <2>4
  <2>6. ASSUME NEW i \in 0 .. n - 1, i \in T PROVE i + 1 \in T
    <3>1. i + 1 \in 1 .. n /\ (i + 1) - 1 = i /\ i \in 0 .. n /\ i + 1 \in 0 .. n BY <1>2
    <3> DEFINE a == G[s][i] b == G[t][i] c == G[s][i + 1] d == G[t][i + 1]
    <3>2. a \in Int /\ b \in Int BY <2>3, <2>4, <3>1
    <3>3. /\ c = IF e[i + 1] \in s THEN f[e[i + 1]] + a ELSE a
          /\ d = IF e[i + 1] \in t THEN f[e[i + 1]] + b ELSE b
      BY <2>3, <2>4, <3>1
    <3>4. a = IF i < k THEN b ELSE f[x] + b
      BY <2>6
    <3>5. f[x] \in Int /\ f[e[i + 1]] \in Int BY <1>2, <2>0, <3>1
    <3> HIDE DEF a, b, c, d
    <3>6. c = IF i + 1 < k THEN d ELSE f[x] + d
      <4>1. CASE i + 1 = k
        BY <2>1, <2>2, <3>1, <3>2, <3>3, <3>4, <3>5, <4>1
      <4>2. CASE i + 1 # k
        <5>1. e[i + 1] \in s <=> e[i + 1] \in t BY <2>2, <3>1, <4>2
        <5>2. i < k <=> i + 1 < k BY <3>1, <4>2
        <5> DEFINE y == f[e[i + 1]]
        <5>3. y \in Int BY <3>5
        <5>4. c = (IF e[i + 1] \in s THEN y + a ELSE a) /\ d = (IF e[i + 1] \in s THEN y + b ELSE b)
          BY <3>3, <5>1
        <5> HIDE DEF y
        <5> QED BY <3>2, <3>4, <3>5, <5>2, <5>3, <5>4
      <4> QED BY <4>1, <4>2
    <3> QED BY <3>1, <3>6 DEF c, d
  <2>7. 0 .. n \subseteq T
    <3> HIDE DEF T
    <3> QED BY <1>2, <2>5, <2>6, BoundedInduction
  <2>8. G[s][n] = f[x] + G[t][n]
    BY <1>2, <2>7
  <2> QED BY <2>0, <2>8 DEF t
<1> HIDE DEF h
<1>7. h \in SumTables(f, S) BY <1>4, <1>5, <1>6 DEF SumTables
<1> QED BY <1>7

\* SumFunctionOnSet is what the table says.
LEMMA SumUnfolds ==
    ASSUME NEW S, IsFiniteSet(S), NEW f, \A x \in S : f[x] \in Int
    PROVE  /\ SumFunctionOnSet(f, S) \in Int
           /\ S = {} => SumFunctionOnSet(f, S) = 0
           /\ \A x \in S : SumFunctionOnSet(f, S) = f[x] + SumFunctionOnSet(f, S \ {x})
<1>1. PICK h \in [SUBSET S -> Int] :
         /\ h[{}] = 0
         /\ \A s \in SUBSET S : \A x \in s : h[s] = f[x] + h[s \ {x}]
  <2>1. SumTables(f, S) # {} BY SumTableExists
  <2> QED BY <2>1 DEF SumTables
<1> DEFINE body(U, g) == [s \in SUBSET U |->
                        IF s = {} THEN 0
                        ELSE LET x == CHOOSE y \in s : TRUE IN f[x] + g[s \ {x}]]
           fold(U) == CHOOSE g : g = body(U, g)
<1>2. ASSUME NEW U \in SUBSET S PROVE SumFunctionOnSet(f, U) = fold(U)[U]
  BY DEF SumFunctionOnSet, FoldFunctionOnSet, MapThenFoldSet
<1>3. ASSUME NEW U \in SUBSET S PROVE fold(U)[U] = h[U]
  <2> DEFINE k == [s \in SUBSET U |-> h[s]]
             F == fold(U)
  <2>1. k = body(U, k)
    <3> SUFFICES ASSUME NEW s \in SUBSET U
                 PROVE  k[s] = IF s = {} THEN 0
                        ELSE LET x == CHOOSE y \in s : TRUE IN f[x] + k[s \ {x}]
      OBVIOUS
    <3>1. CASE s = {} BY <1>1, <3>1
    <3>2. CASE s # {}
      <4> DEFINE x == CHOOSE y \in s : TRUE
      <4>1. x \in s BY <3>2
      <4> HIDE DEF x
      <4>2. s \in SUBSET S /\ s \ {x} \in SUBSET U OBVIOUS
      <4>3. h[s] = f[x] + h[s \ {x}] BY <1>1, <4>1, <4>2
      <4>4. k[s] = f[x] + k[s \ {x}] BY <4>2, <4>3
      <4> HIDE DEF k
      <4> QED BY <3>2, <4>4 DEF x
    <3> QED BY <3>1, <3>2
  <2> HIDE DEF k
  <2>2. F = body(U, F)
    <3> HIDE DEF body
    <3> QED BY <2>1
  <2> HIDE DEF F
  <2>3. ASSUME NEW s \in SUBSET U
        PROVE  F[s] = IF s = {} THEN 0
                      ELSE LET x == CHOOSE y \in s : TRUE IN f[x] + F[s \ {x}]
    <3>1. body(U, F)[s] = IF s = {} THEN 0
                      ELSE LET x == CHOOSE y \in s : TRUE IN f[x] + F[s \ {x}]
      OBVIOUS
    <3> HIDE DEF body
    <3> QED BY <2>2, <3>1
  <2> HIDE DEF body
  <2> DEFINE N == {n \in Nat : \A s \in SUBSET U : Cardinality(s) = n => F[s] = h[s]}
  <2>4. \A s \in SUBSET U : IsFiniteSet(s) /\ Cardinality(s) \in Nat
    BY FS_Subset, FS_CardinalityType
  <2>5. 0 \in N
    <3> SUFFICES ASSUME NEW s \in SUBSET U, Cardinality(s) = 0 PROVE F[s] = h[s]
      OBVIOUS
    <3>1. s = {} BY <2>4, FS_EmptySet
    <3> QED BY <1>1, <2>3, <3>1
  <2>6. ASSUME NEW n \in N PROVE n + 1 \in N
    <3> SUFFICES ASSUME NEW s \in SUBSET U, Cardinality(s) = n + 1 PROVE F[s] = h[s]
      OBVIOUS
    <3>1. s # {} BY <2>4, FS_EmptySet
    <3> DEFINE x == CHOOSE y \in s : TRUE
    <3>2. x \in s BY <3>1
    <3>3. F[s] = f[x] + F[s \ {x}] BY <2>3, <3>1
    <3> HIDE DEF x
    <3>4. s \in SUBSET S /\ s \ {x} \in SUBSET U OBVIOUS
    <3>5. Cardinality(s \ {x}) = n
      <4>1. Cardinality(s \ {x}) = Cardinality(s) - 1 BY <2>4, <3>2, FS_RemoveElement
      <4>2. n \in Nat BY <2>6
      <4> QED BY <4>1, <4>2
    <3>6. F[s \ {x}] = h[s \ {x}] BY <2>6, <3>4, <3>5
    <3> QED BY <1>1, <3>2, <3>3, <3>4, <3>6
  <2>7. N = Nat
    <3> HIDE DEF N
    <3>1. N \subseteq Nat BY DEF N
    <3> QED BY <2>5, <2>6, <3>1, NatInductionSet
  <2>8. F[U] = h[U] BY <2>4, <2>7
  <2> QED BY <2>8 DEF F
<1> HIDE DEF fold
<1>4. ASSUME NEW U \in SUBSET S PROVE SumFunctionOnSet(f, U) = h[U] BY <1>2, <1>3
<1> HIDE DEF body
<1>5. S \in SUBSET S /\ \A x \in S : S \ {x} \in SUBSET S OBVIOUS
<1>6. SumFunctionOnSet(f, S) = h[S] /\ \A x \in S : SumFunctionOnSet(f, S \ {x}) = h[S \ {x}] BY <1>4, <1>5
<1>7. h[S] \in Int /\ (S = {} => h[S] = 0) /\ \A x \in S : h[S] = f[x] + h[S \ {x}]
  BY <1>1, <1>5
<1> QED BY <1>6, <1>7

\* With one more argument it is more by the value there.
LEMMA SumAdd ==
    ASSUME NEW S, IsFiniteSet(S), NEW x, x \notin S, NEW f, \A y \in S \cup {x} : f[y] \in Int
    PROVE  /\ SumFunctionOnSet(f, S) \in Int
           /\ SumFunctionOnSet(f, S \cup {x}) = f[x] + SumFunctionOnSet(f, S)
<1> DEFINE T == S \cup {x}
<1>1. IsFiniteSet(T) /\ x \in T /\ T \ {x} = S
  BY FS_AddElement
<1>2. \A y \in T : f[y] \in Int
  OBVIOUS
<1> HIDE DEF T
<1>3. SumFunctionOnSet(f, T) = f[x] + SumFunctionOnSet(f, T \ {x})
  BY <1>1, <1>2, SumUnfolds
<1>4. SumFunctionOnSet(f, S) \in Int
  BY SumUnfolds
<1> QED
  BY <1>1, <1>3, <1>4 DEF T

\* The sum of values that are numbers is one; of nothing it is 0.
LEMMA SumInt ==
    ASSUME NEW S, IsFiniteSet(S), NEW f, \A y \in S : f[y] \in Int
    PROVE  SumFunctionOnSet(f, S) \in Int /\ SumFunctionOnSet(f, {}) = 0
<1>1. IsFiniteSet({}) /\ \A y \in {} : f[y] \in Int
  BY FS_EmptySet
<1>2. SumFunctionOnSet(f, {}) = 0
  BY <1>1, SumUnfolds
<1> QED
  BY <1>2, SumUnfolds

\* A sum of no less is no less.
LEMMA SumLeq ==
    ASSUME NEW S, IsFiniteSet(S), NEW f, NEW g,
           \A y \in S : f[y] \in Int /\ g[y] \in Int /\ f[y] <= g[y]
    PROVE  SumFunctionOnSet(f, S) <= SumFunctionOnSet(g, S)
<1> DEFINE T == {s \in SUBSET S : SumFunctionOnSet(f, s) <= SumFunctionOnSet(g, s)}
<1>1. {} \in T
  <2>1. SumFunctionOnSet(f, {}) = 0 /\ SumFunctionOnSet(g, {}) = 0
    BY SumInt
  <2> QED
    BY <2>1
<1>2. ASSUME NEW s \in SUBSET S, NEW x \in S \ s, s \in T PROVE s \cup {x} \in T
  <2>1. IsFiniteSet(s) /\ x \notin s
    BY FS_Subset
  <2>2. /\ \A y \in s \cup {x} : f[y] \in Int
        /\ \A y \in s \cup {x} : g[y] \in Int
    OBVIOUS
  <2>3. /\ SumFunctionOnSet(f, s) \in Int
        /\ SumFunctionOnSet(f, s \cup {x}) = f[x] + SumFunctionOnSet(f, s)
    BY <2>1, <2>2, SumAdd
  <2>4. /\ SumFunctionOnSet(g, s) \in Int
        /\ SumFunctionOnSet(g, s \cup {x}) = g[x] + SumFunctionOnSet(g, s)
    BY <2>1, <2>2, SumAdd
  <2>5. f[x] \in Int /\ g[x] \in Int /\ f[x] <= g[x]
    OBVIOUS
  <2>6. SumFunctionOnSet(f, s) <= SumFunctionOnSet(g, s)
    BY <1>2
  <2> QED
    BY <2>3, <2>4, <2>5, <2>6
<1>3. \A s \in SUBSET S : s \in T
  <2> HIDE DEF T
  <2> QED
    BY <1>1, <1>2, SetInduction
<1> QED
  BY <1>3

\* It only depends on the values.
LEMMA SumSame ==
    ASSUME NEW S, IsFiniteSet(S), NEW f, NEW g,
           \A y \in S : f[y] \in Int /\ f[y] = g[y]
    PROVE  SumFunctionOnSet(f, S) = SumFunctionOnSet(g, S)
<1>1. SumFunctionOnSet(f, S) <= SumFunctionOnSet(g, S)
  BY SumLeq
<1>2. SumFunctionOnSet(g, S) <= SumFunctionOnSet(f, S)
  BY SumLeq
<1>3. SumFunctionOnSet(f, S) \in Int /\ SumFunctionOnSet(g, S) \in Int
  BY SumInt
<1> QED
  BY <1>1, <1>2, <1>3

\* A sum of sums, and of multiples.
LEMMA SumLinear ==
    ASSUME NEW S, IsFiniteSet(S), NEW c \in Int, NEW f, NEW g, NEW h,
           \A y \in S : f[y] \in Int /\ g[y] \in Int /\ h[y] = c * f[y] + g[y]
    PROVE  /\ SumFunctionOnSet(f, S) \in Int /\ SumFunctionOnSet(g, S) \in Int
           /\ SumFunctionOnSet(h, S) = c * SumFunctionOnSet(f, S) + SumFunctionOnSet(g, S)
<1> DEFINE T == {s \in SUBSET S : SumFunctionOnSet(h, s) =
                    c * SumFunctionOnSet(f, s) + SumFunctionOnSet(g, s)}
<1>0. \A y \in S : f[y] \in Int /\ g[y] \in Int /\ h[y] \in Int
  OBVIOUS
<1>1. {} \in T
  <2>1. SumFunctionOnSet(f, {}) = 0 /\ SumFunctionOnSet(g, {}) = 0 /\ SumFunctionOnSet(h, {}) = 0
    BY <1>0, SumInt
  <2> QED
    BY <2>1
<1>2. ASSUME NEW s \in SUBSET S, NEW x \in S \ s, s \in T PROVE s \cup {x} \in T
  <2>1. IsFiniteSet(s) /\ x \notin s
    BY FS_Subset
  <2>2. /\ \A y \in s \cup {x} : f[y] \in Int
        /\ \A y \in s \cup {x} : g[y] \in Int
        /\ \A y \in s \cup {x} : h[y] \in Int
    BY <1>0
  <2> DEFINE F == SumFunctionOnSet(f, s)
             G == SumFunctionOnSet(g, s)
             H == SumFunctionOnSet(h, s)
  <2>3. F \in Int /\ SumFunctionOnSet(f, s \cup {x}) = f[x] + F
    BY <2>1, <2>2, SumAdd
  <2>4. G \in Int /\ SumFunctionOnSet(g, s \cup {x}) = g[x] + G
    BY <2>1, <2>2, SumAdd
  <2>5. H \in Int /\ SumFunctionOnSet(h, s \cup {x}) = h[x] + H
    BY <2>1, <2>2, SumAdd
  <2>6. PICK a \in Int, b \in Int : a = f[x] /\ b = g[x] /\ h[x] = c * a + b
    OBVIOUS
  <2>7. H = c * F + G
    BY <1>2
  <2> HIDE DEF F, G, H
  <2>8. c * (a + F) = c * a + c * F
    BY <2>3
  <2>9. c * a \in Int /\ c * F \in Int
    BY <2>3
  <2>10. (c * a + b) + (c * F + G) = (c * a + c * F) + (b + G)
    BY <2>4, <2>9
  <2> QED
    BY <2>3, <2>4, <2>5, <2>6, <2>7, <2>8, <2>10
<1>3. \A s \in SUBSET S : s \in T
  <2> HIDE DEF T
  <2> QED
    BY <1>1, <1>2, SetInduction
<1>4. SumFunctionOnSet(f, S) \in Int /\ SumFunctionOnSet(g, S) \in Int
  BY SumInt
<1> QED
  BY <1>3, <1>4

\* The sum of the same value, as often as there are arguments.
LEMMA SumConstant ==
    ASSUME NEW S, IsFiniteSet(S), NEW c \in Int, NEW f, \A y \in S : f[y] = c
    PROVE  SumFunctionOnSet(f, S) = c * Cardinality(S)
<1> DEFINE T == {s \in SUBSET S : SumFunctionOnSet(f, s) = c * Cardinality(s)}
<1>1. {} \in T
  BY SumInt, FS_EmptySet
<1>2. ASSUME NEW s \in SUBSET S, NEW x \in S \ s, s \in T PROVE s \cup {x} \in T
  <2>1. IsFiniteSet(s) /\ x \notin s
    BY FS_Subset
  <2>2. \A y \in s \cup {x} : f[y] \in Int
    OBVIOUS
  <2>3. SumFunctionOnSet(f, s \cup {x}) = f[x] + SumFunctionOnSet(f, s)
    BY <2>1, <2>2, SumAdd
  <2>4. PICK k \in Nat : k = Cardinality(s)
    BY <2>1, FS_CardinalityType
  <2>5. Cardinality(s \cup {x}) = k + 1
    BY <2>1, <2>4, FS_AddElement
  <2>6. SumFunctionOnSet(f, s) = c * k /\ f[x] = c
    BY <1>2, <2>4
  <2>7. c * (k + 1) = c + c * k
    OBVIOUS
  <2> QED
    BY <2>3, <2>5, <2>6, <2>7
<1>3. \A s \in SUBSET S : s \in T
  <2> HIDE DEF T
  <2> QED
    BY <1>1, <1>2, SetInduction
<1> QED
  BY <1>3

\* The sum over two sets that share nothing.
LEMMA SumUnion ==
    ASSUME NEW S, IsFiniteSet(S), NEW U, IsFiniteSet(U), S \cap U = {},
           NEW f, \A y \in S \cup U : f[y] \in Int
    PROVE  /\ SumFunctionOnSet(f, S) \in Int /\ SumFunctionOnSet(f, U) \in Int
           /\ SumFunctionOnSet(f, S \cup U) = SumFunctionOnSet(f, S) + SumFunctionOnSet(f, U)
<1> DEFINE T == {s \in SUBSET U : SumFunctionOnSet(f, S \cup s) =
                    SumFunctionOnSet(f, S) + SumFunctionOnSet(f, s)}
<1>0. SumFunctionOnSet(f, S) \in Int /\ SumFunctionOnSet(f, U) \in Int
      /\ SumFunctionOnSet(f, {}) = 0
  BY SumInt
<1>1. {} \in T
  <2>1. S \cup {} = S
    OBVIOUS
  <2> QED
    BY <1>0, <2>1
<1>2. ASSUME NEW s \in SUBSET U, NEW x \in U \ s, s \in T PROVE s \cup {x} \in T
  <2>1. IsFiniteSet(s) /\ x \notin s /\ x \notin S \cup s
    BY FS_Subset
  <2>2. IsFiniteSet(S \cup s) /\ S \cup (s \cup {x}) = (S \cup s) \cup {x}
    BY <2>1, FS_Union
  <2>3. /\ SumFunctionOnSet(f, s) \in Int
        /\ SumFunctionOnSet(f, s \cup {x}) = f[x] + SumFunctionOnSet(f, s)
    BY <2>1, SumAdd
  <2> DEFINE V == S \cup s
  <2>4. V = S \cup s /\ IsFiniteSet(V) /\ x \notin V /\ \A y \in V \cup {x} : f[y] \in Int
    BY <2>1, <2>2
  <2> HIDE DEF V
  <2>5. /\ SumFunctionOnSet(f, V) \in Int
        /\ SumFunctionOnSet(f, V \cup {x}) = f[x] + SumFunctionOnSet(f, V)
    BY <2>4, SumAdd
  <2>6. f[x] \in Int
    OBVIOUS
  <2>7. SumFunctionOnSet(f, V) = SumFunctionOnSet(f, S) + SumFunctionOnSet(f, s)
    BY <1>2, <2>4
  <2>8. SumFunctionOnSet(f, V \cup {x}) = SumFunctionOnSet(f, S) + SumFunctionOnSet(f, s \cup {x})
    BY <1>0, <2>3, <2>5, <2>6, <2>7
  <2> QED
    BY <2>2, <2>4, <2>8
<1>3. \A s \in SUBSET U : s \in T
  <2> HIDE DEF T
  <2> QED
    BY <1>1, <1>2, SetInduction
<1> QED
  BY <1>0, <1>3

\* A sum of natural numbers is one, and no less than over a part.
LEMMA SumNat ==
    ASSUME NEW S, IsFiniteSet(S), NEW f, \A y \in S : f[y] \in Nat
    PROVE  /\ SumFunctionOnSet(f, S) \in Nat
           /\ \A s \in SUBSET S : /\ SumFunctionOnSet(f, s) \in Nat
                                  /\ SumFunctionOnSet(f, s) <= SumFunctionOnSet(f, S)
<1>1. ASSUME NEW s \in SUBSET S PROVE SumFunctionOnSet(f, s) \in Nat
  <2> DEFINE z == [y \in s |-> 0]
  <2>1. IsFiniteSet(s) /\ \A y \in s : z[y] = 0 /\ z[y] \in Int /\ f[y] \in Int /\ z[y] <= f[y]
    BY FS_Subset
  <2>2. PICK k \in Nat : k = Cardinality(s)
    BY <2>1, FS_CardinalityType
  <2> HIDE DEF z
  <2>3. SumFunctionOnSet(z, s) <= SumFunctionOnSet(f, s)
    BY <2>1, SumLeq
  <2>4. SumFunctionOnSet(z, s) = 0 * k
    <3>1. SumFunctionOnSet(z, s) = 0 * Cardinality(s)
      BY <2>1, SumConstant
    <3> QED
      BY <2>2, <3>1
  <2>5. SumFunctionOnSet(f, s) \in Int
    BY <2>1, SumInt
  <2> QED
    BY <2>3, <2>4, <2>5
<1>2. ASSUME NEW s \in SUBSET S PROVE SumFunctionOnSet(f, s) <= SumFunctionOnSet(f, S)
  <2> DEFINE r == S \ s
  <2>1. IsFiniteSet(s) /\ IsFiniteSet(r) /\ s \cap r = {} /\ s \cup r = S /\ r \in SUBSET S
    BY FS_Subset, FS_Difference
  <2> HIDE DEF r
  <2>2. SumFunctionOnSet(f, s \cup r) = SumFunctionOnSet(f, s) + SumFunctionOnSet(f, r)
    <3>1. \A y \in s \cup r : f[y] \in Int
      BY <2>1
    <3> QED
      BY <2>1, <3>1, SumUnion
  <2>3. SumFunctionOnSet(f, s) \in Nat /\ SumFunctionOnSet(f, r) \in Nat
    BY <1>1, <2>1
  <2>4. SumFunctionOnSet(f, S) = SumFunctionOnSet(f, s) + SumFunctionOnSet(f, r)
    <3>1. SumFunctionOnSet(f, S) = SumFunctionOnSet(f, s \cup r)
      BY <2>1, Zenon
    <3> QED
      BY <2>2, <3>1, Zenon
  <2> DEFINE a == SumFunctionOnSet(f, S)
             b == SumFunctionOnSet(f, s)
             d == SumFunctionOnSet(f, r)
  <2>5. a = b + d /\ b \in Nat /\ d \in Nat
    BY <2>3, <2>4
  <2> HIDE DEF a, b, d
  <2>6. b <= a
    BY <2>5
  <2> QED
    BY <2>6 DEF a, b
<1>3. S \in SUBSET S
  OBVIOUS
<1> QED
  BY <1>1, <1>2, <1>3

\* One after the other.
LEMMA SumUpto ==
    ASSUME NEW n \in Nat, NEW f, \A i \in 1 .. n + 1 : f[i] \in Int
    PROVE  /\ SumFunctionOnSet(f, 1 .. 0) = 0
           /\ SumFunctionOnSet(f, 1 .. n) \in Int
           /\ SumFunctionOnSet(f, 1 .. n + 1) = f[n + 1] + SumFunctionOnSet(f, 1 .. n)
<1> DEFINE S == 1 .. n
           x == n + 1
<1>1. IsFiniteSet(S) /\ x \notin S /\ 1 .. n + 1 = S \cup {x} /\ 1 .. 0 = {}
  BY FS_Interval
<1>2. \A y \in S \cup {x} : f[y] \in Int
  BY <1>1
<1> HIDE DEF S, x
<1>3. /\ SumFunctionOnSet(f, S) \in Int
      /\ SumFunctionOnSet(f, S \cup {x}) = f[x] + SumFunctionOnSet(f, S)
  BY <1>1, <1>2, SumAdd
<1>4. SumFunctionOnSet(f, {}) = 0
  BY <1>1, <1>2, SumInt
<1> QED
  BY <1>1, <1>3, <1>4 DEF S, x

\* The sum over other names of the same arguments.
LEMMA SumMoved ==
    ASSUME NEW S, IsFiniteSet(S), NEW U, NEW e \in [S -> U],
           \A x, y \in S : e[x] = e[y] => x = y,
           \A u \in U : \E x \in S : e[x] = u,
           NEW f, \A u \in U : f[u] \in Int, NEW g, \A x \in S : g[x] = f[e[x]]
    PROVE  SumFunctionOnSet(g, S) = SumFunctionOnSet(f, U)
<1> DEFINE Im(s) == {e[x] : x \in s}
           T == {s \in SUBSET S : /\ IsFiniteSet(Im(s))
                                  /\ SumFunctionOnSet(g, s) = SumFunctionOnSet(f, Im(s))}
<1>0. Im(S) = U /\ Im({}) = {} /\ \A x \in S : g[x] \in Int
  OBVIOUS
<1>1. {} \in T
  <2>1. SumFunctionOnSet(g, {}) = 0
    BY <1>0, SumInt
  <2>2. SumFunctionOnSet(f, {}) = 0
    <3>1. IsFiniteSet({}) /\ \A y \in {} : f[y] \in Int
      BY FS_EmptySet
    <3> QED
      BY <3>1, SumInt
  <2> QED
    BY <1>0, <2>1, <2>2, FS_EmptySet
<1>2. ASSUME NEW s \in SUBSET S, NEW x \in S \ s, s \in T PROVE s \cup {x} \in T
  <2> DEFINE I == Im(s)
             u == e[x]
  <2>1. IsFiniteSet(s) /\ x \notin s
    BY FS_Subset
  <2>2. Im(s \cup {x}) = I \cup {u} /\ u \notin I /\ I \subseteq U /\ u \in U
    OBVIOUS
  <2>3. IsFiniteSet(I) /\ SumFunctionOnSet(g, s) = SumFunctionOnSet(f, I)
    BY <1>2
  <2>4. g[x] = f[u]
    OBVIOUS
  <2>5. \A y \in s \cup {x} : g[y] \in Int
    BY <1>0
  <2> HIDE DEF I, u
  <2>6. SumFunctionOnSet(g, s \cup {x}) = g[x] + SumFunctionOnSet(g, s)
    BY <2>1, <2>5, SumAdd
  <2>7. SumFunctionOnSet(f, I \cup {u}) = f[u] + SumFunctionOnSet(f, I)
    <3>1. \A y \in I \cup {u} : f[y] \in Int
      BY <2>2
    <3> QED
      BY <2>2, <2>3, <3>1, SumAdd
  <2>8. IsFiniteSet(I \cup {u})
    BY <2>3, FS_AddElement
  <2> HIDE DEF Im
  <2>9. /\ IsFiniteSet(Im(s \cup {x}))
        /\ SumFunctionOnSet(g, s \cup {x}) = SumFunctionOnSet(f, Im(s \cup {x}))
    BY <2>2, <2>3, <2>4, <2>6, <2>7, <2>8
  <2> QED
    BY <2>9
<1>3. \A s \in SUBSET S : s \in T
  <2> HIDE DEF T
  <2> QED
    BY <1>1, <1>2, SetInduction
<1>4. S \in T
  <2> HIDE DEF T
  <2> QED
    BY <1>3
<1> HIDE DEF Im
<1> QED
  BY <1>0, <1>4

\* The places of a finite set, counted by what they hold.
LEMMA SumCounts ==
    ASSUME NEW S, IsFiniteSet(S), NEW U, IsFiniteSet(U), NEW p, \A i \in S : p[i] \in U,
           NEW c, \A u \in U : c[u] = Cardinality({i \in S : p[i] = u})
    PROVE  Cardinality(S) = SumFunctionOnSet(c, U)
<1> DEFINE At(s) == {i \in S : p[i] \in s}
           T == {s \in SUBSET U : SumFunctionOnSet(c, s) = Cardinality(At(s))}
<1>0. /\ At(U) = S /\ At({}) = {}
      /\ \A s : IsFiniteSet(At(s)) /\ Cardinality(At(s)) \in Nat
  <2>1. \A s : At(s) \in SUBSET S
    OBVIOUS
  <2> QED
    BY <2>1, FS_Subset, FS_CardinalityType
<1>1. \A u \in U : c[u] = Cardinality(At({u})) /\ c[u] \in Int
  <2> SUFFICES ASSUME NEW u \in U PROVE c[u] = Cardinality(At({u})) /\ c[u] \in Int
    OBVIOUS
  <2>1. At({u}) = {i \in S : p[i] = u}
    OBVIOUS
  <2>2. Cardinality(At({u})) \in Nat
    BY <1>0
  <2> HIDE DEF At
  <2> QED
    BY <2>1, <2>2
<1>2. {} \in T
  <2>1. SumFunctionOnSet(c, {}) = 0
    BY <1>1, SumInt
  <2> QED
    BY <1>0, <2>1, FS_EmptySet
<1>3. ASSUME NEW s \in SUBSET U, NEW x \in U \ s, s \in T PROVE s \cup {x} \in T
  <2>1. IsFiniteSet(s) /\ x \notin s
    BY FS_Subset
  <2>2. \A y \in s \cup {x} : c[y] \in Int
    BY <1>1
  <2>3. SumFunctionOnSet(c, s \cup {x}) = c[x] + SumFunctionOnSet(c, s)
    BY <2>1, <2>2, SumAdd
  <2>4. At(s \cup {x}) = At(s) \cup At({x}) /\ At(s) \cap At({x}) = {}
    BY <2>1
  <2>5. Cardinality(At(s \cup {x})) = Cardinality(At(s)) + Cardinality(At({x}))
    <3> DEFINE A == At(s)
               B == At({x})
               C == At(s \cup {x})
    <3>1. IsFiniteSet(A) /\ IsFiniteSet(B) /\ C = A \cup B /\ A \cap B = {}
      BY <1>0, <2>4
    <3> HIDE DEF A, B, C
    <3>2. Cardinality(C) = Cardinality(A) + Cardinality(B) - Cardinality(A \cap B)
      BY <3>1, FS_Union
    <3>3. Cardinality(A \cap B) = 0
      BY <3>1, FS_EmptySet
    <3>4. Cardinality(A) \in Nat /\ Cardinality(B) \in Nat
      BY <3>1, FS_CardinalityType
    <3>5. Cardinality(C) = Cardinality(A) + Cardinality(B)
      BY <3>2, <3>3, <3>4
    <3> QED
      BY <3>5 DEF A, B, C
  <2>6. SumFunctionOnSet(c, s) = Cardinality(At(s)) /\ c[x] = Cardinality(At({x}))
    BY <1>1, <1>3
  <2> HIDE DEF At
  <2>7. SumFunctionOnSet(c, s \cup {x}) = Cardinality(At(s \cup {x}))
    BY <1>0, <2>3, <2>5, <2>6
  <2> QED
    BY <2>7
<1>4. \A s \in SUBSET U : s \in T
  <2> HIDE DEF T
  <2> QED
    BY <1>2, <1>3, SetInduction
<1>5. U \in T
  <2> HIDE DEF T
  <2> QED
    BY <1>4
<1> HIDE DEF At
<1> QED
  BY <1>0, <1>5

-----------------------------------------------------------------------------
(* The least and the greatest, and what is counted.                         *)

\* The first n places.
LEMMA FirstPlaces ==
    ASSUME NEW n \in Nat
    PROVE  IsFiniteSet(1 .. n) /\ Cardinality(1 .. n) = n
<1>1. IsFiniteSet(1 .. n) /\ Cardinality(1 .. n) = IF 1 > n THEN 0 ELSE n - 1 + 1
  BY FS_Interval
<1> QED
  BY <1>1

\* What is in a set of numbers and no less, or no more, than the others.
LEMMA MaxIs ==
    ASSUME NEW L, NEW m \in L, \A y \in L : y \in Int /\ y <= m
    PROVE  Max(L) = m
<1>1. \A x \in L : (\A y \in L : x >= y) => x = m
  OBVIOUS
<1>2. m \in Int /\ \A y \in L : m >= y
  OBVIOUS
<1> QED
  BY <1>1, <1>2 DEF Max

\* And no more than the others.
LEMMA MinIs ==
    ASSUME NEW L, NEW m \in L, \A y \in L : y \in Int /\ m <= y
    PROVE  Min(L) = m
<1>1. \A x \in L : (\A y \in L : x <= y) => x = m
  OBVIOUS
<1>2. m \in Int /\ \A y \in L : m <= y
  OBVIOUS
<1> QED
  BY <1>1, <1>2 DEF Min

\* A finite set has a part of every size up to its own.
LEMMA PartOfSize ==
    ASSUME NEW S, IsFiniteSet(S), NEW k \in Nat, k <= Cardinality(S)
    PROVE  \E s \in SUBSET S : Cardinality(s) = k
<1> DEFINE T == {s \in SUBSET S : \A n \in 0 .. Cardinality(s) :
                    \E u \in SUBSET s : Cardinality(u) = n}
<1>1. {} \in T
  BY FS_EmptySet
<1>2. ASSUME NEW s \in SUBSET S, NEW x \in S \ s, s \in T PROVE s \cup {x} \in T
  <2> DEFINE t == s \cup {x}
  <2>1. /\ IsFiniteSet(s) /\ Cardinality(s) \in Nat
        /\ t \in SUBSET S /\ s \in SUBSET t
    BY FS_Subset, FS_CardinalityType
  <2>2. Cardinality(t) = Cardinality(s) + 1
    BY <2>1, FS_AddElement
  <2>3. \A n \in 0 .. Cardinality(s) : \E u \in SUBSET s : Cardinality(u) = n
    BY <1>2
  <2> HIDE DEF t
  <2>4. ASSUME NEW n \in 0 .. Cardinality(t) PROVE \E u \in SUBSET t : Cardinality(u) = n
    <3>1. CASE n = Cardinality(s) + 1
      BY <2>2, <3>1
    <3>2. CASE n # Cardinality(s) + 1
      <4>1. n \in 0 .. Cardinality(s)
        BY <2>1, <2>2, <3>2
      <4>2. SUBSET s \subseteq SUBSET t
        BY <2>1
      <4> QED
        BY <2>3, <4>1, <4>2
    <3> QED
      BY <3>1, <3>2
  <2>5. t \in T
    BY <2>1, <2>4
  <2> QED
    BY <2>5 DEF t
<1>3. \A s \in SUBSET S : s \in T
  <2> HIDE DEF T
  <2> QED
    BY <1>1, <1>2, SetInduction
<1>4. S \in T /\ Cardinality(S) \in Nat
  <2> HIDE DEF T
  <2> QED
    BY <1>3, FS_CardinalityType
<1>5. k \in 0 .. Cardinality(S)
  BY <1>4
<1> QED
  BY <1>4, <1>5

\* The lesser and the greater of two numbers.
LEMMA MinMaxOfTwo ==
    ASSUME NEW a \in Int, NEW b \in Int
    PROVE  /\ Min({a, b}) = IF a <= b THEN a ELSE b
           /\ Max({a, b}) = IF a >= b THEN a ELSE b
  <1>1. CASE a <= b
    <2>1. a \in {a, b} /\ \A y \in {a, b} : a <= y
      BY <1>1
    <2>2. b \in {a, b} /\ \A y \in {a, b} : b >= y
      BY <1>1
    <2>3. Min({a, b}) \in {a, b} /\ \A y \in {a, b} : Min({a, b}) <= y
      BY <2>1 DEF Min
    <2>4. Max({a, b}) \in {a, b} /\ \A y \in {a, b} : Max({a, b}) >= y
      BY <2>2 DEF Max
    <2> QED
      BY <1>1, <2>3, <2>4
  <1>2. CASE a > b
    <2>1. b \in {a, b} /\ \A y \in {a, b} : b <= y
      BY <1>2
    <2>2. a \in {a, b} /\ \A y \in {a, b} : a >= y
      BY <1>2
    <2>3. Min({a, b}) \in {a, b} /\ \A y \in {a, b} : Min({a, b}) <= y
      BY <2>1 DEF Min
    <2>4. Max({a, b}) \in {a, b} /\ \A y \in {a, b} : Max({a, b}) >= y
      BY <2>2 DEF Max
    <2> QED
      BY <1>2, <2>3, <2>4
  <1> QED
    BY <1>1, <1>2

\* A finite set of numbers has a greatest and a least.
LEMMA Extremes ==
    ASSUME NEW S, IsFiniteSet(S), S # {}, S \subseteq Int
    PROVE  /\ Max(S) \in S /\ Min(S) \in S
           /\ \A y \in S : Min(S) <= y /\ y <= Max(S)
<1> DEFINE T == {s \in SUBSET S : s # {} => \E a, b \in s : \A y \in s : a <= y /\ y <= b}
<1>1. {} \in T
  OBVIOUS
<1>2. ASSUME NEW s \in SUBSET S, NEW x \in S \ s, s \in T PROVE s \cup {x} \in T
  <2>1. CASE s = {}
    <3>1. \A y \in s \cup {x} : x <= y /\ y <= x
      BY <2>1
    <3>2. x \in s \cup {x} /\ s \cup {x} \in SUBSET S
      OBVIOUS
    <3> QED
      BY <3>1, <3>2
  <2>2. CASE s # {}
    <3>1. PICK a \in s, b \in s : \A y \in s : a <= y /\ y <= b
      BY <1>2, <2>2
    <3> DEFINE c == IF a <= x THEN a ELSE x
               d == IF x <= b THEN b ELSE x
    <3>2. a \in Int /\ b \in Int /\ x \in Int /\ s \subseteq Int
      OBVIOUS
    <3>3. c \in s \cup {x} /\ d \in s \cup {x} /\ \A y \in s \cup {x} : c <= y /\ y <= d
      BY <3>1, <3>2
    <3> HIDE DEF c, d
    <3> QED
      BY <3>3
  <2> QED
    BY <2>1, <2>2
<1>3. \A s \in SUBSET S : s \in T
  <2> HIDE DEF T
  <2> QED
    BY <1>1, <1>2, SetInduction
<1>4. PICK a \in S, b \in S : \A y \in S : a <= y /\ y <= b
  BY <1>3
<1>5. Min(S) = a
  <2>1. \A y \in S : y \in Int /\ a <= y
    BY <1>4
  <2> QED
    BY <2>1, MinIs
<1>6. Max(S) = b
  <2>1. \A y \in S : y \in Int /\ y <= b
    BY <1>4
  <2> QED
    BY <2>1, MaxIs
<1> QED
  BY <1>4, <1>5, <1>6

\* Sets of which each member has a partner are as large.
LEMMA Partners ==
    ASSUME NEW S, IsFiniteSet(S), NEW U, NEW e \in [S -> U],
           \A x, y \in S : e[x] = e[y] => x = y,
           \A u \in U : \E x \in S : e[x] = u
    PROVE  IsFiniteSet(U) /\ Cardinality(U) = Cardinality(S)
<1>1. e \in Bijection(S, U)
  BY Fun_IsInj, Fun_IsSurj, Fun_IsBij
<1>2. ExistsBijection(S, U)
  BY <1>1 DEF ExistsBijection
<1> QED
  BY <1>2, FS_Bijection

\* Of two sets that share nothing.
LEMMA DisjointSize ==
    ASSUME NEW A, IsFiniteSet(A), NEW B, IsFiniteSet(B), A \cap B = {}
    PROVE  /\ IsFiniteSet(A \cup B) /\ Cardinality(A) \in Nat /\ Cardinality(B) \in Nat
           /\ Cardinality(A \cup B) = Cardinality(A) + Cardinality(B)
<1>1. Cardinality(A \cup B) = Cardinality(A) + Cardinality(B) - Cardinality(A \cap B)
  BY FS_Union
<1>2. Cardinality(A) \in Nat /\ Cardinality(B) \in Nat /\ IsFiniteSet(A \cup B)
  BY FS_CardinalityType, FS_Union
<1>3. Cardinality(A \cap B) = 0
  BY FS_EmptySet
<1> QED
  BY <1>1, <1>2, <1>3

\* Every member of a set has one partner in the other.
OneToOne(e, S, U) ==
    /\ e \in [S -> U] /\ \A x, y \in S : e[x] = e[y] => x = y
    /\ \A u \in U : \E x \in S : e[x] = u
Summable(f, S) == \A x \in S : f[x] \in Int
Relabels(g, f, e, S) == \A x \in S : g[x] = f[e[x]]

\* A sum does not depend on the order.
LEMMA SumRelabelled ==
    ASSUME NEW S, IsFiniteSet(S), NEW U, NEW e, OneToOne(e, S, U),
           NEW f, Summable(f, U), NEW g, Relabels(g, f, e, S)
    PROVE  SumFunctionOnSet(g, S) = SumFunctionOnSet(f, U)
<1>1. /\ e \in [S -> U] /\ \A x, y \in S : e[x] = e[y] => x = y
      /\ \A u \in U : \E x \in S : e[x] = u
  BY DEF OneToOne
<1>2. (\A u \in U : f[u] \in Int) /\ \A x \in S : g[x] = f[e[x]]
  BY DEF Summable, Relabels
<1> QED
  BY <1>1, <1>2, SumMoved

-----------------------------------------------------------------------------
(* Orders, and the places that go up under them.                            *)

\* Under a strict order a list that goes up and is as long as the set is the sorted list.
LEMMA OrderedIs ==
    ASSUME NEW S, IsFiniteSet(S), NEW R, StrictOrder(S, R), NEW k \in Nat, k = Cardinality(S),
           NEW f \in [1 .. k -> S], \A i, j \in 1 .. k : i < j => <<f[i], f[j]>> \in R
    PROVE  InOrder(S, R) = f /\ \A x \in S : \E i \in 1 .. k : f[i] = x
<1> DEFINE Ahead(x) == {y \in S : <<y, x>> \in R}
           c(m) == CHOOSE x \in S : Cardinality(Ahead(x)) = m - 1
<1>1. \A i, j \in 1 .. k : <<f[i], f[j]>> \in R <=> i < j
  <2> SUFFICES ASSUME NEW i \in 1 .. k, NEW j \in 1 .. k, <<f[i], f[j]>> \in R PROVE i < j
    OBVIOUS
  <2>1. f[i] \in S /\ f[j] \in S
    OBVIOUS
  <2>2. ~(<<f[j], f[i]>> \in R) /\ i # j
    BY <2>1 DEF StrictOrder
  <2>3. ~(j < i)
    BY <2>2
  <2> QED
    BY <2>2, <2>3
<1>2. \A i, j \in 1 .. k : f[i] = f[j] => i = j
  <2> SUFFICES ASSUME NEW i \in 1 .. k, NEW j \in 1 .. k, f[i] = f[j], i # j PROVE FALSE
    OBVIOUS
  <2>1. i < j \/ j < i
    OBVIOUS
  <2>2. <<f[i], f[i]>> \in R /\ f[i] \in S
    BY <2>1
  <2> QED
    BY <2>2 DEF StrictOrder
<1>3. \A x \in S : \E i \in 1 .. k : f[i] = x
  <2>1. IsFiniteSet(1 .. k) /\ Cardinality(1 .. k) = k
    BY FS_Interval
  <2>2. f \in Injection(1 .. k, S)
    BY <1>2, Fun_IsInj
  <2>3. f \in Surjection(1 .. k, S)
    BY <2>1, <2>2, FS_Injection
  <2> QED
    BY <2>3 DEF Surjection
<1>4. ASSUME NEW m \in 1 .. k PROVE Cardinality(Ahead(f[m])) = m - 1
  <2> DEFINE U == Ahead(f[m])
             g == [i \in 1 .. m - 1 |-> f[i]]
  <2>1. \A i \in 1 .. m - 1 : i \in 1 .. k /\ i < m
    OBVIOUS
  <2>2. \A i \in 1 .. k : i < m => i \in 1 .. m - 1
    OBVIOUS
  <2>3. g \in [1 .. m - 1 -> U]
    BY <1>1, <2>1
  <2>4. \A x, y \in 1 .. m - 1 : g[x] = g[y] => x = y
    BY <1>2, <2>1
  <2>5. \A u \in U : \E i \in 1 .. m - 1 : g[i] = u
    <3> SUFFICES ASSUME NEW u \in U PROVE \E i \in 1 .. m - 1 : f[i] = u
      OBVIOUS
    <3>1. PICK i \in 1 .. k : f[i] = u
      BY <1>3
    <3>2. i < m
      BY <1>1, <3>1
    <3> QED
      BY <2>2, <3>1, <3>2
  <2> DEFINE D == 1 .. m - 1
  <2>6. IsFiniteSet(D) /\ Cardinality(D) = m - 1
    <3>1. m - 1 \in Nat
      OBVIOUS
    <3> QED
      BY <3>1, FirstPlaces
  <2>8. /\ g \in [D -> U] /\ \A x, y \in D : g[x] = g[y] => x = y
        /\ \A u \in U : \E i \in D : g[i] = u
    BY <2>3, <2>4, <2>5
  <2> HIDE DEF U, g, D
  <2>7. Cardinality(U) = m - 1
    BY <2>6, <2>8, Partners
  <2> QED
    BY <2>7 DEF U
<1> HIDE DEF Ahead
<1>5. ASSUME NEW m \in 1 .. k PROVE c(m) = f[m]
  <2>1. f[m] \in S /\ Cardinality(Ahead(f[m])) = m - 1
    BY <1>4
  <2>2. ASSUME NEW x \in S, Cardinality(Ahead(x)) = m - 1 PROVE x = f[m]
    <3>1. PICK i \in 1 .. k : f[i] = x
      BY <1>3
    <3>2. Cardinality(Ahead(x)) = i - 1
      BY <1>4, <3>1
    <3>3. i - 1 = m - 1
      BY <2>2, <3>2
    <3>4. i = m
      BY <3>3
    <3> QED
      BY <3>1, <3>4
  <2> QED
    BY <2>1, <2>2
<1>6. InOrder(S, R) = [m \in 1 .. k |-> c(m)]
  BY DEF InOrder, Ahead
<1> HIDE DEF c
<1>7. [m \in 1 .. k |-> c(m)] = f
  BY <1>5
<1> QED
  BY <1>3, <1>6, <1>7

\* A list of numbers that goes up is that of its set in ascending order.
Mounting(f, k) == \A i, j \in 1 .. k : i < j => f[i] < f[j]
Named(f, k) == {f[i] : i \in 1 .. k}

LEMMA Enumerated ==
    ASSUME NEW n \in Nat, NEW k \in Nat, NEW f \in [1 .. k -> 1 .. n], Mounting(f, k)
    PROVE  /\ Named(f, k) \subseteq 1 .. n /\ Cardinality(Named(f, k)) = k
           /\ Ascending(Named(f, k)) = f
<1> DEFINE S == Named(f, k)
           R == {p \in S \X S : p[1] < p[2]}
<1>0. \A i, j \in 1 .. k : i < j => f[i] < f[j]
  BY DEF Mounting
<1>1. S \subseteq 1 .. n /\ f \in [1 .. k -> S] /\ \A x \in S : \E i \in 1 .. k : f[i] = x
  BY DEF Named
<1>2. \A i, j \in 1 .. k : f[i] = f[j] => i = j
  <2> SUFFICES ASSUME NEW i \in 1 .. k, NEW j \in 1 .. k, i # j PROVE f[i] # f[j]
    OBVIOUS
  <2>1. (i < j \/ j < i) /\ f[i] \in Int /\ f[j] \in Int
    OBVIOUS
  <2> QED
    BY <1>0, <2>1
<1>3. \A x, y \in S : <<x, y>> \in R <=> x < y
  OBVIOUS
<1>4. Ascending(S) = InOrder(S, R)
  BY DEF Ascending
<1> HIDE DEF S, R
<1>5. IsFiniteSet(1 .. k) /\ Cardinality(1 .. k) = k
  BY FS_Interval
<1>6. IsFiniteSet(S) /\ Cardinality(S) = k
  BY <1>1, <1>2, <1>5, Partners
<1>7. StrictOrder(S, R)
  <2>1. S \subseteq Int
    BY <1>1
  <2> QED
    BY <1>3, <2>1 DEF StrictOrder
<1>8. \A i, j \in 1 .. k : i < j => <<f[i], f[j]>> \in R
  BY <1>0, <1>1, <1>3
<1>9. InOrder(S, R) = f
  BY <1>1, <1>6, <1>7, <1>8, OrderedIs
<1> QED
  BY <1>1, <1>4, <1>6, <1>9 DEF S

\* The order of different numbers is strict.
LEMMA OrderedBy ==
    ASSUME NEW S, NEW R, NEW v \in [S -> Int], \A x, y \in S : v[x] = v[y] => x = y,
           \A x, y \in S : <<x, y>> \in R <=> v[x] < v[y]
    PROVE  StrictOrder(S, R)
<1>1. \A x \in S : v[x] \in Int
  OBVIOUS
<1>2. \A x \in S : ~(v[x] < v[x])
  BY <1>1
<1>3. \A x, y, z \in S : v[x] < v[y] /\ v[y] < v[z] => v[x] < v[z]
  BY <1>1
<1>4. \A x, y \in S : x # y => v[x] < v[y] \/ v[y] < v[x]
  BY <1>1
<1> QED
  BY <1>2, <1>3, <1>4 DEF StrictOrder

\* Places that go up under an order.
Climbs(n, e, R) == e \in [1 .. n -> 1 .. n] /\ \A i, j \in 1 .. n : i < j => <<e[i], e[j]>> \in R

\* Places that go up under a strict order are the sorted ones, and all of them.
LEMMA Rearranged ==
    ASSUME NEW n \in Nat, NEW R, StrictOrder(1 .. n, R), NEW e, Climbs(n, e, R)
    PROVE  InOrder(1 .. n, R) = e /\ \A x \in 1 .. n : \E i \in 1 .. n : e[i] = x
<1> DEFINE D == 1 .. n
<1>1. IsFiniteSet(D) /\ n = Cardinality(D)
  BY FirstPlaces
<1>2. e \in [1 .. n -> D] /\ StrictOrder(D, R) /\ \A i, j \in 1 .. n : i < j => <<e[i], e[j]>> \in R
  BY DEF Climbs
<1> HIDE DEF D
<1>3. InOrder(D, R) = e /\ \A x \in D : \E i \in 1 .. n : e[i] = x
  BY <1>1, <1>2, OrderedIs
<1> QED
  BY <1>3 DEF D

\* The places in ascending order are all of them, each once.
LEMMA AscendingOnce ==
    ASSUME NEW n \in Nat, NEW S \in SUBSET (1 .. n)
    PROVE  /\ Cardinality(S) \in Nat /\ IsFiniteSet(S)
           /\ Ascending(S) \in [1 .. Cardinality(S) -> S]
           /\ \A i, j \in 1 .. Cardinality(S) : Ascending(S)[i] = Ascending(S)[j] => i = j
           /\ \A x \in S : \E j \in 1 .. Cardinality(S) : Ascending(S)[j] = x
<1> DEFINE k == Cardinality(S)
           a == Ascending(S)
<1>1. /\ k \in Nat /\ a \in [1 .. k -> S] /\ \A i, j \in 1 .. k : i < j => a[i] < a[j]
      /\ \A x \in S : \E j \in 1 .. k : a[j] = x
  BY Ascended
<1>2. IsFiniteSet(1 .. n)
  BY FirstPlaces
<1>3. IsFiniteSet(S)
  BY <1>2, FS_Subset
<1>4. \A x \in S : x \in Int
  OBVIOUS
<1> HIDE DEF a, k
<1>5. \A i, j \in 1 .. k : a[i] = a[j] => i = j
  <2> SUFFICES ASSUME NEW i \in 1 .. k, NEW j \in 1 .. k, i # j PROVE a[i] # a[j]
    OBVIOUS
  <2>1. i < j \/ j < i
    BY <1>1
  <2>2. a[i] < a[j] \/ a[j] < a[i]
    BY <1>1, <2>1
  <2>3. a[i] \in S /\ a[j] \in S
    BY <1>1
  <2>4. a[i] \in Int /\ a[j] \in Int
    BY <1>4, <2>3
  <2> QED
    BY <2>2, <2>4
<1> QED
  BY <1>1, <1>3, <1>5 DEF a, k

-----------------------------------------------------------------------------
(* The ways to draw.                                                        *)

\* The ways to draw k of n.
Ways(k, n) == Cardinality(kSubset(k, 1 .. n))

\* They are finitely many.
LEMMA WaysFinite ==
    ASSUME NEW S, IsFiniteSet(S), NEW k
    PROVE  /\ IsFiniteSet(kSubset(k, S)) /\ Cardinality(kSubset(k, S)) \in Nat
           /\ \A s \in kSubset(k, S) : IsFiniteSet(s)
<1>1. kSubset(k, S) \in SUBSET (SUBSET S)
  BY DEF kSubset
<1>2. IsFiniteSet(SUBSET S)
  BY FS_SUBSET
<1>3. IsFiniteSet(kSubset(k, S))
  BY <1>1, <1>2, FS_Subset
<1> QED
  BY <1>1, <1>3, FS_CardinalityType, FS_Subset

\* Pascal's rule: the last is not drawn, or it is and one less of the others.
LEMMA WaysStep ==
    ASSUME NEW n \in Nat, NEW k \in Nat
    PROVE  /\ Ways(0, n) = 1 /\ Ways(k + 1, 0) = 0
           /\ Ways(k + 1, n + 1) = Ways(k, n) + Ways(k + 1, n)
<1>0. \A m \in Nat : IsFiniteSet(1 .. m) /\ \A s \in SUBSET (1 .. m) : IsFiniteSet(s)
  <2> SUFFICES ASSUME NEW m \in Nat
               PROVE  IsFiniteSet(1 .. m) /\ \A s \in SUBSET (1 .. m) : IsFiniteSet(s)
    OBVIOUS
  <2>1. IsFiniteSet(1 .. m)
    BY FS_Interval
  <2> QED
    BY <2>1, FS_Subset
<1>1. Ways(0, n) = 1
  <2>1. kSubset(0, 1 .. n) = {{}}
    BY <1>0, FS_EmptySet DEF kSubset
  <2> QED
    BY <2>1, FS_Singleton DEF Ways
<1>2. Ways(k + 1, 0) = 0
  <2>1. \A s \in SUBSET (1 .. 0) : Cardinality(s) = 0
    <3>1. 1 .. 0 = {}
      OBVIOUS
    <3> QED
      BY <3>1, FS_EmptySet
  <2>2. kSubset(k + 1, 1 .. 0) = {}
    BY <2>1 DEF kSubset
  <2> QED
    BY <2>2, FS_EmptySet DEF Ways
<1>3. Ways(k + 1, n + 1) = Ways(k, n) + Ways(k + 1, n)
  <2> DEFINE x == n + 1
             A == kSubset(k, 1 .. n)
             B == kSubset(k + 1, 1 .. n)
             C == kSubset(k + 1, 1 .. n + 1)
             e == [s \in A |-> s \cup {x}]
             U == {s \in C : x \in s}
  <2>1. x \notin 1 .. n /\ 1 .. n + 1 = (1 .. n) \cup {x}
    OBVIOUS
  <2>2. /\ \A s : s \in A <=> s \in SUBSET (1 .. n) /\ Cardinality(s) = k
        /\ \A s : s \in B <=> s \in SUBSET (1 .. n) /\ Cardinality(s) = k + 1
        /\ \A s : s \in C <=> s \in SUBSET (1 .. n + 1) /\ Cardinality(s) = k + 1
    BY DEF kSubset
  <2> HIDE DEF x, A, B, C
  <2>3. C = B \cup U /\ B \cap U = {}
    <3>1. \A s : s \in SUBSET (1 .. n) <=> s \in SUBSET (1 .. n + 1) /\ x \notin s
      BY <2>1
    <3> QED
      BY <2>1, <2>2, <3>1
  <2>4. ASSUME NEW s \in A PROVE e[s] \in U
    <3>1. s \in SUBSET (1 .. n) /\ IsFiniteSet(s) /\ x \notin s /\ Cardinality(s) = k
      BY <1>0, <2>1, <2>2
    <3>2. Cardinality(s \cup {x}) = k + 1
      BY <3>1, FS_AddElement
    <3> QED
      BY <2>1, <2>2, <3>1, <3>2
  <2>5. \A s, t \in A : e[s] = e[t] => s = t
    <3> SUFFICES ASSUME NEW s \in A, NEW t \in A, s \cup {x} = t \cup {x} PROVE s = t
      OBVIOUS
    <3>1. x \notin s /\ x \notin t
      BY <2>1, <2>2
    <3> QED
      BY <3>1
  <2>6. ASSUME NEW u \in U PROVE \E s \in A : e[s] = u
    <3>1. u \in SUBSET (1 .. n + 1) /\ Cardinality(u) = k + 1 /\ x \in u /\ IsFiniteSet(u)
      BY <1>0, <2>2
    <3>2. u \ {x} \in SUBSET (1 .. n) /\ (u \ {x}) \cup {x} = u
      BY <2>1, <3>1
    <3>3. Cardinality(u \ {x}) = k
      <4>1. Cardinality(u \ {x}) = (k + 1) - 1
        BY <3>1, FS_RemoveElement
      <4> QED
        BY <4>1
    <3>4. u \ {x} \in A
      BY <2>2, <3>2, <3>3
    <3> QED
      BY <3>2, <3>4
  <2>7. IsFiniteSet(A) /\ IsFiniteSet(B)
    BY <1>0, WaysFinite DEF A, B
  <2> HIDE DEF U
  <2>8. e \in [A -> U]
    BY <2>4
  <2> HIDE DEF e
  <2>9. IsFiniteSet(U) /\ Cardinality(U) = Cardinality(A)
    BY <2>5, <2>6, <2>7, <2>8, Partners
  <2>10. Cardinality(C) = Cardinality(B) + Cardinality(U) /\ Cardinality(B) \in Nat
         /\ Cardinality(U) \in Nat
    BY <2>3, <2>7, <2>9, DisjointSize
  <2>11. Cardinality(C) = Cardinality(A) + Cardinality(B)
    BY <2>9, <2>10
  <2> QED
    BY <2>11 DEF A, B, C, Ways
<1> QED
  BY <1>1, <1>2, <1>3

\* There are as many ways wherever the numbers begin.
LEMMA WaysMoved ==
    ASSUME NEW n \in Nat, NEW c \in Nat, NEW k \in Nat
    PROVE  Cardinality(kSubset(k, c + 1 .. c + n)) = Ways(k, n)
<1> DEFINE A == kSubset(k, 1 .. n)
           U == kSubset(k, c + 1 .. c + n)
           e == [s \in A |-> {x + c : x \in s}]
<1>0. IsFiniteSet(1 .. n) /\ IsFiniteSet(c + 1 .. c + n)
  BY FS_Interval, PlacesAfter
<1>1. /\ \A s : s \in A <=> s \in SUBSET (1 .. n) /\ Cardinality(s) = k
      /\ \A s : s \in U <=> s \in SUBSET (c + 1 .. c + n) /\ Cardinality(s) = k
  BY DEF kSubset
<1>2. /\ \A x \in 1 .. n : x + c \in c + 1 .. c + n /\ (x + c) - c = x
      /\ \A x \in c + 1 .. c + n : x - c \in 1 .. n /\ (x - c) + c = x
  OBVIOUS
<1>3. ASSUME NEW s \in SUBSET (1 .. n)
      PROVE  Cardinality({x + c : x \in s}) = Cardinality(s)
  <2> DEFINE t == {x + c : x \in s}
             f == [x \in s |-> x + c]
  <2>1. IsFiniteSet(s)
    BY <1>0, FS_Subset
  <2>2. f \in [s -> t] /\ (\A x, y \in s : f[x] = f[y] => x = y) /\ \A u \in t : \E x \in s : f[x] = u
    BY <1>2
  <2> HIDE DEF t, f
  <2>3. Cardinality(t) = Cardinality(s)
    BY <2>1, <2>2, Partners
  <2> QED
    BY <2>3 DEF t
<1> HIDE DEF A, U
<1>4. ASSUME NEW s \in A PROVE e[s] \in U
  <2>1. s \in SUBSET (1 .. n) /\ Cardinality(s) = k
    BY <1>1
  <2>2. e[s] \in SUBSET (c + 1 .. c + n)
    BY <1>2, <2>1
  <2> QED
    BY <1>1, <1>3, <2>1, <2>2
<1>5. \A s, t \in A : e[s] = e[t] => s = t
  <2> SUFFICES ASSUME NEW s \in A, NEW t \in A, {x + c : x \in s} = {x + c : x \in t} PROVE s = t
    OBVIOUS
  <2>1. s \in SUBSET (1 .. n) /\ t \in SUBSET (1 .. n)
    BY <1>1
  <2>2. \A x \in 1 .. n : /\ x \in s <=> x + c \in {y + c : y \in s}
                          /\ x \in t <=> x + c \in {y + c : y \in t}
    BY <1>2, <2>1
  <2> QED
    BY <2>1, <2>2
<1>6. ASSUME NEW u \in U PROVE \E s \in A : e[s] = u
  <2> DEFINE s == {y - c : y \in u}
  <2>1. u \in SUBSET (c + 1 .. c + n) /\ Cardinality(u) = k
    BY <1>1
  <2>2. s \in SUBSET (1 .. n) /\ {x + c : x \in s} = u
    BY <1>2, <2>1
  <2> HIDE DEF s
  <2>3. Cardinality(s) = k
    BY <1>3, <2>1, <2>2
  <2>4. s \in A
    BY <1>1, <2>2, <2>3
  <2> QED
    BY <2>2, <2>4
<1>7. IsFiniteSet(A)
  BY <1>0, WaysFinite DEF A
<1>8. e \in [A -> U]
  BY <1>4
<1> HIDE DEF e
<1>9. Cardinality(U) = Cardinality(A)
  BY <1>5, <1>6, <1>7, <1>8, Partners
<1> QED
  BY <1>9 DEF A, U, Ways
=============================================================================
