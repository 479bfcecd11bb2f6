-------------------------- MODULE NumberInduction --------------------------
(***************************************************************************)
(* Smallest and largest numbers, induction and recursion over the natural  *)
(* numbers, with sets and functions where the theorems of the library have *)
(* operators.                                                              *)
(***************************************************************************)
EXTENDS Integers, FiniteSetsExt, WellFoundedInduction, TLAPS

LEMMA Smallest ==
  ASSUME NEW T, T \subseteq Nat, T # {}
  PROVE  \E m \in T : \A y \in T : m <= y
<1>1. PICK x \in T : \A y \in T : ~(<<y, x>> \in OpToRel(<, Nat))
  BY WFMin, NatLessThanWellFounded
<1>2. ASSUME NEW y \in T PROVE x <= y
  <2>1. OpToRel(<, Nat) = {ss \in Nat \X Nat : ss[1] < ss[2]}
    BY Zenon DEF OpToRel
  <2>2. <<y, x>> \in Nat \X Nat
    OBVIOUS
  <2>3. ~(y < x)
    BY <1>1, <2>1, <2>2
  <2> QED
    BY <2>3
<1> QED
  BY <1>2

LEMMA Least ==
  ASSUME NEW T, T \subseteq Nat, T # {}
  PROVE  Min(T) \in T /\ \A y \in T : Min(T) <= y
  BY Smallest DEF Min

LEMMA Largest ==
  ASSUME NEW n \in Nat, NEW S, S \subseteq 0..n, S # {}
  PROVE  Max(S) \in S /\ \A y \in S : Max(S) >= y
<1> DEFINE T == {m \in Nat : \A y \in S : y <= m}
<1>1. n \in T
  OBVIOUS
<1>2. PICK m \in T : \A k \in T : m <= k
  BY <1>1, Smallest
<1>3. m \in S
  <2> SUFFICES ASSUME m \notin S PROVE FALSE
    OBVIOUS
  <2>1. \A y \in S : y <= m - 1 /\ m - 1 \in Nat
    OBVIOUS
  <2>2. m - 1 \in T
    BY <2>1
  <2> QED
    BY <1>2, <2>2
<1>4. \A y \in S : m >= y
  OBVIOUS
<1>5. \E x \in S : \A y \in S : x >= y
  BY <1>3, <1>4
<1> QED
  BY <1>5 DEF Max

(***************************************************************************)
(* Induction and recursion over the numbers, with sets and functions for   *)
(* what is proved and defined.                                             *)
(***************************************************************************)
LEMMA Induction ==
  ASSUME NEW T, 0 \in T, \A n \in Nat : n \in T => n + 1 \in T
  PROVE  \A n \in Nat : n \in T
<1> DEFINE U == {n \in Nat : n \notin T}
<1> SUFFICES ASSUME U # {} PROVE FALSE
  OBVIOUS
<1>1. PICK m \in U : \A y \in U : m <= y
  BY Smallest
<1>2. m # 0 /\ m - 1 \in Nat /\ m - 1 \notin U
  BY <1>1
<1>3. (m - 1) + 1 \in T
  BY <1>2
<1> QED
  BY <1>2, <1>3

\* What starts with c and is made by step n from what it was at n.
Steps(f, n, c, step) == f[0] = c /\ \A i \in 0..(n - 1) : f[i + 1] = step[i][f[i]]

LEMMA StepsExist ==
  ASSUME NEW S, NEW c \in S, NEW step \in [Nat -> [S -> S]]
  PROVE  \A n \in Nat : \E f \in [0..n -> S] : Steps(f, n, c, step)
<1> DEFINE T == {n \in Nat : \E f \in [0..n -> S] : Steps(f, n, c, step)}
<1>1. 0 \in T
  <2>1. [i \in 0..0 |-> c] \in [0..0 -> S] /\ Steps([i \in 0..0 |-> c], 0, c, step)
    BY DEF Steps
  <2> QED
    BY <2>1
<1>2. ASSUME NEW n \in Nat, n \in T PROVE n + 1 \in T
  <2>1. PICK f \in [0..n -> S] : Steps(f, n, c, step)
    BY <1>2
  <2> DEFINE g == [i \in 0..(n + 1) |-> IF i = n + 1 THEN step[n][f[n]] ELSE f[i]]
  <2>2. f[n] \in S /\ step[n][f[n]] \in S
    OBVIOUS
  <2>3. g \in [0..(n + 1) -> S]
    <3>1. ASSUME NEW i \in 0..(n + 1), i # n + 1 PROVE f[i] \in S
      BY <3>1
    <3> QED
      BY <2>2, <3>1
  <2>4. g[0] = c
    BY <2>1 DEF Steps
  <2>5. ASSUME NEW i \in 0..n PROVE g[i + 1] = step[i][g[i]]
    <3>1. g[i] = f[i] /\ i + 1 \in 0..(n + 1)
      OBVIOUS
    <3>2. CASE i = n
      BY <3>1, <3>2
    <3>3. CASE i # n
      <4>1. i \in 0..(n - 1) /\ i + 1 # n + 1
        BY <3>3
      <4>2. f[i + 1] = step[i][f[i]]
        BY <2>1, <4>1 DEF Steps
      <4> QED
        BY <3>1, <4>1, <4>2
    <3> QED
      BY <3>2, <3>3
  <2>6. (n + 1) - 1 = n
    OBVIOUS
  <2> HIDE DEF g
  <2>7. Steps(g, n + 1, c, step)
    BY <2>4, <2>5, <2>6 DEF Steps
  <2> QED
    BY <2>3, <2>7
<1> HIDE DEF T
<1>3. \A n \in Nat : n \in T
  BY <1>1, <1>2, Induction
<1> QED
  BY <1>3 DEF T

Recurses(f, S, c, step) ==
  f \in [Nat -> S] /\ f[0] = c /\ \A n \in Nat : f[n + 1] = step[n][f[n]]

LEMMA Recursion ==
  ASSUME NEW S, NEW c \in S, NEW step \in [Nat -> [S -> S]]
  PROVE  \E f : Recurses(f, S, c, step)
<1> DEFINE g(n) == CHOOSE f \in [0..n -> S] : Steps(f, n, c, step)
<1>1. \A n \in Nat : g(n) \in [0..n -> S] /\ Steps(g(n), n, c, step)
  BY StepsExist
<1> HIDE DEF g
<1>2. ASSUME NEW n \in Nat, NEW m \in Nat
      PROVE  \A i \in Nat : i <= n /\ i <= m => g(n)[i] = g(m)[i]
  <2> DEFINE T == {i \in Nat : i <= n /\ i <= m => g(n)[i] = g(m)[i]}
  <2>1. 0 \in T
    BY <1>1 DEF Steps
  <2>2. ASSUME NEW i \in Nat, i \in T PROVE i + 1 \in T
    <3> SUFFICES ASSUME i + 1 <= n, i + 1 <= m PROVE g(n)[i + 1] = g(m)[i + 1]
      OBVIOUS
    <3>1. i \in 0..(n - 1) /\ i \in 0..(m - 1) /\ g(n)[i] = g(m)[i]
      BY <2>2
    <3>2. g(n)[i + 1] = step[i][g(n)[i]] /\ g(m)[i + 1] = step[i][g(m)[i]]
      BY <1>1, <3>1 DEF Steps
    <3> QED
      BY <3>1, <3>2
  <2> HIDE DEF T
  <2>3. \A i \in Nat : i \in T
    BY <2>1, <2>2, Induction
  <2> QED
    BY <2>3 DEF T
<1> DEFINE h == [n \in Nat |-> g(n)[n]]
<1>3. h \in [Nat -> S]
  <2>1. \A n \in Nat : g(n)[n] \in S
    BY <1>1
  <2> QED
    BY <2>1
<1>4. h[0] = c
  BY <1>1 DEF Steps
<1>5. ASSUME NEW n \in Nat PROVE h[n + 1] = step[n][h[n]]
  <2>1. h[n + 1] = g(n + 1)[n + 1] /\ h[n] = g(n)[n] /\ n \in 0..((n + 1) - 1)
    OBVIOUS
  <2>2. g(n + 1)[n + 1] = step[n][g(n + 1)[n]]
    BY <1>1, <2>1 DEF Steps
  <2>3. g(n + 1)[n] = g(n)[n]
    BY <1>2
  <2> QED
    BY <2>1, <2>2, <2>3
<1> HIDE DEF h
<1>6. Recurses(h, S, c, step)
  BY <1>3, <1>4, <1>5 DEF Recurses
<1> QED
  BY <1>6

(***************************************************************************)
(* Division with remainder.                                                *)
(***************************************************************************)
LEMMA Division ==
  ASSUME NEW k \in Nat \ {0}, NEW n \in Nat
  PROVE  /\ n \div k \in Nat /\ n % k \in 0..(k - 1)
         /\ n = k * (n \div k) + (n % k)
  OBVIOUS

LEMMA QuotientUnique ==
  ASSUME NEW k \in Nat \ {0}, NEW q \in Nat, NEW r \in 0..(k - 1), NEW p \in Nat, NEW s \in 0..(k - 1),
         k * q + r = k * p + s
  PROVE  q = p /\ r = s
<1>1. ASSUME NEW a \in Nat, NEW b \in Nat, a < b PROVE k * a + k <= k * b
  <2>1. b - (a + 1) \in Nat
    BY <1>1
  <2>2. k * (b - (a + 1)) \in Nat
    BY <2>1
  <2>3. k * (b - (a + 1)) = k * b - (k * a + k)
    OBVIOUS
  <2>4. k * a \in Nat /\ k * b \in Nat
    OBVIOUS
  <2> QED
    BY <2>2, <2>3, <2>4
<1>2. k * q \in Nat /\ k * p \in Nat
  OBVIOUS
<1>3. ~(q < p) /\ ~(p < q)
  BY <1>1, <1>2
<1> QED
  BY <1>2, <1>3

LEMMA OwnRemainder ==
  ASSUME NEW k \in Nat \ {0}, NEW z \in 0..(k - 1)
  PROVE  z % k = z
<1> DEFINE a == z \div k
           b == z % k
<1>1. z \in Nat
  OBVIOUS
<1>2. a \in Nat /\ b \in 0..(k - 1) /\ z = k * a + b
  BY <1>1, Division
<1> HIDE DEF a, b
<1>3. 0 \in Nat /\ k * a + b = k * 0 + z
  BY <1>1, <1>2
<1> QED
  BY <1>2, <1>3, QuotientUnique DEF b

=============================================================================
