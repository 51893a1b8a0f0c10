----------------------------- MODULE Induction -----------------------------
(***************************************************************************)
(* Induction over the natural numbers, stated for sets and functions, so   *)
(* that no operator has to be instantiated where it is used.               *)
(*                                                                         *)
(* That a set which has 0 and with every number the next one has them all  *)
(* follows from the pigeonhole principle: the numbers up to n that the set *)
(* leaves out could be moved down by one, each to another one left out,    *)
(* and n itself would be free.                                             *)
(***************************************************************************)
EXTENDS Integers, FiniteSetTheorems, TLAPS

\* A set that has 0, and the successor of every number it has, has them all.
LEMMA SetInduction ==
  ASSUME NEW S, 0 \in S, \A n \in Nat : n \in S => n + 1 \in S
  PROVE  \A n \in Nat : n \in S
<1> SUFFICES ASSUME NEW n \in Nat, n \notin S PROVE FALSE
  OBVIOUS
<1> DEFINE T == {m \in 0 .. n : m \notin S}
           U == T \ {n}
           f == [m \in T |-> m - 1]
<1>1. IsFiniteSet(0 .. n)
  BY FS_Interval
<1>2. IsFiniteSet(T) /\ n \in T
  BY <1>1, FS_Subset
<1>3. IsFiniteSet(U) /\ Cardinality(U) < Cardinality(T)
  <2> HIDE DEF T
  <2>1. IsFiniteSet(U) /\ Cardinality(U) = Cardinality(T) - 1
    BY <1>2, FS_RemoveElement
  <2>2. Cardinality(T) \in Nat
    BY <1>2, FS_CardinalityType
  <2> QED
    BY <2>1, <2>2
<1>4. \A m \in T : m \in Nat /\ m - 1 \in U
  <2> SUFFICES ASSUME NEW m \in T PROVE m \in Nat /\ m - 1 \in U
    OBVIOUS
  <2>1. m \in Nat /\ m # 0 /\ m <= n /\ m \notin S
    OBVIOUS
  <2>2. m - 1 \in Nat /\ (m - 1) + 1 = m /\ m - 1 \in 0 .. n /\ m - 1 # n
    BY <2>1
  <2>3. m - 1 \notin S
    BY <2>1, <2>2
  <2> QED
    BY <2>1, <2>2, <2>3
<1>5. f \in [T -> U]
  BY <1>4
<1>6. \A x, y \in T : f[x] = f[y] => x = y
  <2> SUFFICES ASSUME NEW x \in T, NEW y \in T, f[x] = f[y] PROVE x = y
    OBVIOUS
  <2>1. x - 1 = y - 1 /\ x \in Nat /\ y \in Nat
    BY <1>4
  <2> QED
    BY <2>1
<1> HIDE DEF T, U, f
<1>7. \E x, y \in T : x # y /\ f[x] = f[y]
  BY <1>2, <1>3, <1>5, FS_PigeonHole
<1> QED
  BY <1>6, <1>7

\* A set with a number has a least one.
LEMMA LeastNumber ==
  ASSUME NEW S, NEW n \in Nat, n \in S
  PROVE  \E m \in Nat : m \in S /\ m <= n /\ \A j \in Nat : j < m => j \notin S
<1> SUFFICES ASSUME \A m \in Nat : m \in S /\ m <= n => \E j \in Nat : j < m /\ j \in S
             PROVE  FALSE
  OBVIOUS
<1> DEFINE U == {k \in Nat : \A j \in Nat : j <= k /\ j <= n => j \notin S}
<1>1. 0 \in U
  <2> SUFFICES ASSUME NEW j \in Nat, j <= 0, j <= n, j \in S PROVE FALSE
    OBVIOUS
  <2>1. PICK i \in Nat : i < j
    OBVIOUS
  <2> QED
    BY <2>1
<1>2. \A k \in Nat : k \in U => k + 1 \in U
  <2> SUFFICES ASSUME NEW k \in Nat, k \in U, NEW j \in Nat, j <= k + 1, j <= n, j \in S PROVE FALSE
    OBVIOUS
  <2>1. PICK i \in Nat : i < j /\ i \in S
    OBVIOUS
  <2>2. i <= k /\ i <= n
    BY <2>1
  <2> QED
    BY <2>1, <2>2
<1> HIDE DEF U
<1>3. n \in U
  BY <1>1, <1>2, SetInduction, Zenon
<1> QED
  BY <1>3 DEF U

-----------------------------------------------------------------------------
\* The first n steps of the iteration of F from x.
Begins(n, x, F, X) ==
  {g \in [0 .. n -> X] : g[0] = x /\ \A k \in 0 .. n - 1 : g[k + 1] = F[k][g[k]]}

LEMMA BeginsExists ==
  ASSUME NEW X, NEW x \in X, NEW F \in [Nat -> [X -> X]]
  PROVE  \A n \in Nat : Begins(n, x, F, X) # {}
<1> DEFINE S == {n \in Nat : Begins(n, x, F, X) # {}}
<1>1. 0 \in S
  <2> DEFINE g == [k \in 0 .. 0 |-> x]
  <2>1. g \in [0 .. 0 -> X] /\ g[0] = x /\ \A k \in 0 .. 0 - 1 : FALSE
    OBVIOUS
  <2>2. g \in Begins(0, x, F, X)
    BY <2>1 DEF Begins
  <2> QED
    BY <2>2
<1>2. \A n \in Nat : n \in S => n + 1 \in S
  <2> SUFFICES ASSUME NEW n \in Nat, Begins(n, x, F, X) # {} PROVE Begins(n + 1, x, F, X) # {}
    OBVIOUS
  <2>1. PICK g \in [0 .. n -> X] : g[0] = x /\ \A k \in 0 .. n - 1 : g[k + 1] = F[k][g[k]]
    BY DEF Begins
  <2> DEFINE h == [k \in 0 .. n + 1 |-> IF k = n + 1 THEN F[n][g[n]] ELSE g[k]]
  <2>2. g[n] \in X /\ F[n][g[n]] \in X
    BY <2>1
  <2>3. h \in [0 .. n + 1 -> X]
    BY <2>1, <2>2
  <2>4. h[0] = x
    BY <2>1
  <2>5. ASSUME NEW k \in 0 .. n PROVE h[k + 1] = F[k][h[k]]
    <3>1. h[k] = g[k]
      OBVIOUS
    <3>2. CASE k = n
      BY <3>1, <3>2
    <3>3. CASE k # n
      <4>1. k \in 0 .. n - 1 /\ k + 1 \in 0 .. n + 1 /\ k + 1 # n + 1
        BY <3>3
      <4>2. h[k + 1] = g[k + 1]
        BY <4>1
      <4> QED
        BY <2>1, <3>1, <4>1, <4>2
    <3> QED
      BY <3>2, <3>3
  <2>6. (n + 1) - 1 = n
    OBVIOUS
  <2> HIDE DEF h
  <2>7. h \in Begins(n + 1, x, F, X)
    BY <2>3, <2>4, <2>5, <2>6 DEF Begins
  <2> QED
    BY <2>7
<1> HIDE DEF S
<1>3. \A n \in Nat : n \in S
  BY <1>1, <1>2, SetInduction, Zenon
<1> QED
  BY <1>3 DEF S

LEMMA BeginsAgree ==
  ASSUME NEW X, NEW x \in X, NEW F \in [Nat -> [X -> X]],
         NEW n \in Nat, NEW g \in Begins(n, x, F, X), NEW h \in Begins(n + 1, x, F, X)
  PROVE  g[n] = h[n]
<1> DEFINE S == {k \in Nat : k <= n => g[k] = h[k]}
<1>1. 0 \in S
  BY DEF Begins
<1>2. \A k \in Nat : k \in S => k + 1 \in S
  <2> SUFFICES ASSUME NEW k \in Nat, k \in S, k + 1 <= n PROVE g[k + 1] = h[k + 1]
    OBVIOUS
  <2>1. k \in 0 .. n - 1 /\ k \in 0 .. (n + 1) - 1 /\ g[k] = h[k]
    OBVIOUS
  <2>2. g[k + 1] = F[k][g[k]]
    BY <2>1, Zenon DEF Begins
  <2>3. h[k + 1] = F[k][h[k]]
    BY <2>1, Zenon DEF Begins
  <2> QED
    BY <2>1, <2>2, <2>3
<1> HIDE DEF S
<1>3. n \in S
  BY <1>1, <1>2, SetInduction, Zenon
<1> QED
  BY <1>3 DEF S

\* f starts at x and goes on from step n by F[n].
Iterates(f, x, F, X) ==
  /\ f \in [Nat -> X]
  /\ f[0] = x
  /\ \A n \in Nat : f[n + 1] = F[n][f[n]]

\* A function may be defined by recursion.
LEMMA Recursion ==
  ASSUME NEW X, NEW x \in X, NEW F \in [Nat -> [X -> X]]
  PROVE  \E f : Iterates(f, x, F, X)
<1> DEFINE B(n) == CHOOSE g : g \in Begins(n, x, F, X)
           f == [n \in Nat |-> B(n)[n]]
<1>1. \A n \in Nat : B(n) \in Begins(n, x, F, X)
  <2> SUFFICES ASSUME NEW n \in Nat PROVE B(n) \in Begins(n, x, F, X)
    OBVIOUS
  <2>1. \E g : g \in Begins(n, x, F, X)
    BY BeginsExists
  <2> QED
    BY <2>1, Zenon
<1> HIDE DEF B
<1>2. f \in [Nat -> X]
  <2> SUFFICES ASSUME NEW n \in Nat PROVE B(n)[n] \in X
    OBVIOUS
  <2> QED
    BY <1>1 DEF Begins
<1>3. f[0] = x
  BY <1>1 DEF Begins
<1>4. ASSUME NEW n \in Nat PROVE f[n + 1] = F[n][f[n]]
  <2>1. n + 1 \in Nat /\ n \in 0 .. (n + 1) - 1
    OBVIOUS
  <2>2. PICK g, h : g = B(n) /\ h = B(n + 1)
    OBVIOUS
  <2>3. g \in Begins(n, x, F, X) /\ h \in Begins(n + 1, x, F, X)
    BY <1>1, <2>1, <2>2, Zenon
  <2>4. h[n + 1] = F[n][h[n]]
    BY <2>1, <2>3, Zenon DEF Begins
  <2>5. g[n] = h[n]
    BY <2>3, BeginsAgree
  <2>6. f[n] = g[n] /\ f[n + 1] = h[n + 1]
    BY <2>1, <2>2
  <2> HIDE DEF f
  <2> QED
    BY <2>4, <2>5, <2>6, Zenon
<1> HIDE DEF f
<1>5. Iterates(f, x, F, X)
  BY <1>2, <1>3, <1>4 DEF Iterates
<1> QED
  BY <1>5
=============================================================================
