------------------------------ MODULE Recursion ------------------------------
(***************************************************************************)
(* Induction and recursion over the natural numbers, stated of sets and of *)
(* functions, so that both can be cited without an operator as parameter.  *)
(***************************************************************************)
EXTENDS Integers, SequenceTheorems, WellFoundedInduction, TLAPS

\* A set of natural numbers that is not empty has a least element.
LEMMA LeastNumber ==
  ASSUME NEW T, T \subseteq Nat, T # {}
  PROVE  \E m \in T : \A k \in T : m <= k
PROOF
<1> DEFINE Less == OpToRel(<, Nat)
<1>1. IsWellFoundedOn(Less, Nat)
  BY NatLessThanWellFounded, Zenon
<1>2. \A k \in T, m \in T : k < m => <<k, m>> \in Less
  <2> SUFFICES ASSUME NEW k \in T, NEW m \in T, k < m PROVE <<k, m>> \in Less
    OBVIOUS
  <2> HIDE DEF Less
  <2>1. <<k, m>> \in Nat \X Nat /\ <<k, m>>[1] < <<k, m>>[2]
    OBVIOUS
  <2> QED BY <2>1, Zenon DEF Less, OpToRel
<1> HIDE DEF Less
<1>3. PICK m \in T : \A k \in T : ~(<<k, m>> \in Less)
  BY <1>1, WFMin
<1>4. \A k \in T : ~(k < m)
  BY <1>2, <1>3, Zenon
<1> QED BY <1>4

\* Induction: a set that has 0, and the successor of what it has, has every number.
LEMMA Induction ==
  ASSUME NEW S, 0 \in S, \A n \in Nat : n \in S => n + 1 \in S
  PROVE  Nat \subseteq S
PROOF
<1> SUFFICES ASSUME Nat \ S # {} PROVE FALSE
  OBVIOUS
<1>1. PICK m \in Nat \ S : \A k \in Nat \ S : m <= k
  BY LeastNumber
<1>2. m # 0 /\ m - 1 \in Nat /\ m - 1 \in S
  BY <1>1
<1> QED BY <1>1, <1>2

\* Induction up to a number.
LEMMA BoundedInduction ==
  ASSUME NEW n \in Nat, NEW S, 0 \in S, \A k \in 1..n : k - 1 \in S => k \in S
  PROVE  0..n \subseteq S
PROOF
<1> DEFINE T == {k \in Nat : k <= n => k \in S}
<1>1. 0 \in T
  OBVIOUS
<1>2. ASSUME NEW k \in Nat, k \in T PROVE k + 1 \in T
  <2> SUFFICES ASSUME k + 1 <= n PROVE k + 1 \in S
    OBVIOUS
  <2>1. k + 1 \in 1..n /\ (k + 1) - 1 = k /\ k \in S
    BY <1>2
  <2> QED BY <2>1
<1> HIDE DEF T
<1>3. Nat \subseteq T
  BY <1>1, <1>2, Induction
<1> QED BY <1>3 DEF T

\* The functions of 0..n that start with b and go on by a step, which is a function
\* of a number and the value before.
Recursions(V, b, n, step) ==
  {f \in [0..n -> V] : f[0] = b /\ \A k \in 1..n : f[k] = step[<<k, f[k - 1]>>]}

\* There is one.
LEMMA RecursionExists ==
  ASSUME NEW V, NEW b \in V, NEW n \in Nat, NEW step \in [(1..n) \X V -> V]
  PROVE  Recursions(V, b, n, step) # {}
PROOF
<1> DEFINE Is(f, m) == f[0] = b /\ \A k \in 1..m : f[k] = step[<<k, f[k - 1]>>]
           S == {m \in Nat : m <= n => \E f \in [0..m -> V] : Is(f, m)}
<1>1. 0 \in S
  <2>1. Is([k \in 0..0 |-> b], 0) /\ [k \in 0..0 |-> b] \in [0..0 -> V]
    OBVIOUS
  <2> QED BY <2>1
<1>2. ASSUME NEW m \in Nat, m \in S PROVE m + 1 \in S
  <2> SUFFICES ASSUME m + 1 <= n PROVE \E f \in [0..(m + 1) -> V] : Is(f, m + 1)
    OBVIOUS
  <2>1. PICK f \in [0..m -> V] : Is(f, m)
    BY <1>2
  <2> DEFINE g == [k \in 0..(m + 1) |-> IF k = m + 1 THEN step[<<m + 1, f[m]>>] ELSE f[k]]
  <2>2. <<m + 1, f[m]>> \in (1..n) \X V
    OBVIOUS
  <2>3. g \in [0..(m + 1) -> V]
    BY <2>2
  <2>4. g[0] = b
    BY <2>1
  <2>5. ASSUME NEW k \in 1..(m + 1) PROVE g[k] = step[<<k, g[k - 1]>>]
    <3>1. CASE k = m + 1
      <4>1. g[m + 1] = step[<<m + 1, f[m]>>] /\ g[m] = f[m] /\ k - 1 = m
        BY <3>1
      <4> HIDE DEF g
      <4> QED BY <3>1, <4>1
    <3>2. CASE k \in 1..m
      BY <2>1, <3>2
    <3> QED BY <3>1, <3>2
  <2> QED BY <2>3, <2>4, <2>5
<1> HIDE DEF S
<1>3. n \in S
  BY <1>1, <1>2, Induction
<1> QED BY <1>3 DEF S, Recursions

\* Induction downwards: a set that has each number when it has all that are larger.
LEMMA DownwardInduction ==
  ASSUME NEW m \in Nat, NEW S,
         \A i \in 1..m : (\A j \in (i + 1)..m : j \in S) => i \in S
  PROVE  1..m \subseteq S
PROOF
<1> DEFINE T == {k \in 0..m : \A j \in (m - k + 1)..m : j \in S}
<1>1. 0 \in T
  OBVIOUS
<1>2. \A k \in 1..m : k - 1 \in T => k \in T
  <2> SUFFICES ASSUME NEW k \in 1..m, k - 1 \in T PROVE k \in T
    OBVIOUS
  <2>1. m - k + 1 \in 1..m /\ m - (k - 1) + 1 = (m - k + 1) + 1
    OBVIOUS
  <2>2. \A j \in ((m - k + 1) + 1)..m : j \in S
    BY <2>1
  <2>3. m - k + 1 \in S
    BY <2>1, <2>2
  <2>4. \A j \in (m - k + 1)..m : j = m - k + 1 \/ j \in ((m - k + 1) + 1)..m
    BY <2>1
  <2>5. k \in 0..m
    OBVIOUS
  <2> QED BY <2>2, <2>3, <2>4, <2>5
<1> HIDE DEF T
<1>3. m \in T
  BY <1>1, <1>2, BoundedInduction
<1> QED BY <1>3 DEF T

\* The functions of 1..m that are b behind n and go on, at each position of 1..n, by a
\* step, from what they are at a later position.
Descents(V, b, n, m, jump, step) ==
  {f \in [1..m -> V] :
     \A i \in 1..m : f[i] = IF i > n THEN b ELSE step[<<i, f[jump[i]]>>]}

\* There is one.
LEMMA DescentExists ==
  ASSUME NEW V, NEW b \in V, NEW n \in Nat, NEW m \in Nat, n <= m,
         NEW jump \in [1..n -> 1..m], \A i \in 1..n : jump[i] > i,
         NEW step \in [(1..n) \X V -> V]
  PROVE  Descents(V, b, n, m, jump, step) # {}
PROOF
<1> DEFINE Right(f, i) == f[i] = IF i > n THEN b ELSE step[<<i, f[jump[i]]>>]
           S == {k \in 0..m : \E f \in [1..m -> V] : \A i \in (m - k + 1)..m : Right(f, i)}
<1>1. 0 \in S
  <2>1. [i \in 1..m |-> b] \in [1..m -> V]
    OBVIOUS
  <2>2. (m - 0 + 1)..m = {} /\ 0 \in 0..m
    OBVIOUS
  <2> QED BY <2>1, <2>2, Zenon
<1>2. \A k \in 1..m : k - 1 \in S => k \in S
  <2> SUFFICES ASSUME NEW k \in 1..m, k - 1 \in S PROVE k \in S
    OBVIOUS
  <2> DEFINE p == m - k + 1
  <2>1. p \in 1..m /\ m - (k - 1) + 1 = p + 1 /\ k \in 0..m
    OBVIOUS
  <2>2. PICK f \in [1..m -> V] : \A i \in (p + 1)..m : Right(f, i)
    BY <2>1
  <2> DEFINE v == IF p > n THEN b ELSE step[<<p, f[jump[p]]>>]
             g == [f EXCEPT ![p] = v]
  <2>3. v \in V
    <3>1. CASE p > n
      BY <3>1
    <3>2. CASE p <= n
      <4>1. p \in 1..n /\ f[jump[p]] \in V
        BY <2>1, <3>2
      <4>2. <<p, f[jump[p]]>> \in (1..n) \X V
        BY <4>1
      <4> QED BY <2>1, <3>2, <4>2
    <3> QED BY <2>1, <3>1, <3>2
  <2>4. g \in [1..m -> V] /\ g[p] = v /\ \A i \in (p + 1)..m : g[i] = f[i]
    <3> HIDE DEF v
    <3> QED BY <2>1, <2>3
  <2>5. \A i \in p..m : i <= n => g[jump[i]] = f[jump[i]]
    <3> SUFFICES ASSUME NEW i \in p..m, i <= n PROVE g[jump[i]] = f[jump[i]]
      OBVIOUS
    <3>1. i \in 1..n /\ jump[i] \in (p + 1)..m
      BY <2>1
    <3> QED BY <2>4, <3>1
  <2>6. \A i \in p..m : Right(g, i)
    <3> SUFFICES ASSUME NEW i \in p..m PROVE Right(g, i)
      OBVIOUS
    <3>1. CASE i = p
      <4>1. p <= n => g[jump[p]] = f[jump[p]]
        BY <2>1, <2>5
      <4>2. g[p] = IF p > n THEN b ELSE step[<<p, f[jump[p]]>>]
        BY <2>4
      <4>3. p > n \/ p <= n
        BY <2>1
      <4> HIDE DEF g, p
      <4>4. Right(g, p)
        BY <4>1, <4>2, <4>3
      <4> QED BY <3>1, <4>4, Zenon
    <3>2. CASE i \in (p + 1)..m
      <4>1. Right(f, i) /\ g[i] = f[i]
        BY <2>2, <2>4, <3>2
      <4>2. i <= n => g[jump[i]] = f[jump[i]]
        BY <2>5
      <4>3. i > n \/ i <= n
        BY <2>1, <3>2
      <4> HIDE DEF g
      <4> QED BY <4>1, <4>2, <4>3
    <3> QED BY <2>1, <3>1, <3>2
  <2> HIDE DEF g
  <2> QED BY <2>1, <2>4, <2>6
<1> HIDE DEF S
<1>3. m \in S
  <2>1. 0..m \subseteq S
    BY <1>1, <1>2, BoundedInduction
  <2> QED BY <2>1
<1>4. PICK f \in [1..m -> V] : \A i \in (m - m + 1)..m : Right(f, i)
  BY <1>3 DEF S
<1>5. m - m + 1 = 1
  OBVIOUS
<1> QED BY <1>4, <1>5 DEF Descents

\* Three sequences one behind the other.
LEMMA Associates ==
  ASSUME NEW S, NEW a \in Seq(S), NEW b \in Seq(S), NEW c \in Seq(S)
  PROVE  (a \o b) \o c = a \o (b \o c)
BY ConcatAssociative

=============================================================================
