------------------------------ MODULE Recursion ------------------------------
(* What the proofs need to know of numbers and of functions defined by       *)
(* recursion on them: the theorems on induction take an operator, which the  *)
(* provers cannot be given, so induction is by a least counterexample here.  *)
EXTENDS Naturals, Sequences, TLAPS, WellFoundedInduction

\* A set of numbers has a least one.
LEMMA LeastNumber ==
  ASSUME NEW S, S \subseteq Nat, S # {}
  PROVE  \E m \in S : \A k \in S : m <= k
<1>1. PICK m \in S : \A k \in S : ~ (<<k, m>> \in OpToRel(<, Nat))
  BY NatLessThanWellFounded, WFMin
<1>2. ASSUME NEW k \in S PROVE m <= k
  <2>1. m \in Nat /\ k \in Nat
    BY <1>1
  <2>2. <<k, m>> \notin OpToRel(<, Nat)
    BY <1>1
  <2>3. ~ (k < m)
    BY <2>1, <2>2, Zenon DEF OpToRel
  <2> QED BY <2>1, <2>3
<1> QED BY <1>1, <1>2

\* A bounded set of numbers has a greatest one.
LEMMA GreatestNumber ==
  ASSUME NEW S, NEW n \in Nat, S \subseteq 0..n, S # {}
  PROVE  \E m \in S : \A k \in S : k <= m
<1> DEFINE T == {k \in Nat : n - k \in S}
<1>1. PICK s \in S : TRUE
  OBVIOUS
<1>2. n - s \in T
  BY <1>1, n - s \in Nat, n - (n - s) = s
<1>3. PICK t \in T : \A u \in T : t <= u
  <2> HIDE DEF T
  <2>1. T \subseteq Nat
    BY DEF T
  <2> QED BY <1>2, <2>1, LeastNumber
<1>4. ASSUME NEW k \in S PROVE k <= n - t
  <2>1. k \in 0..n
    OBVIOUS
  <2>2. n - k \in T
    BY <2>1, n - k \in Nat, n - (n - k) = k
  <2> QED BY <1>3, <2>1, <2>2
<1> QED BY <1>3, <1>4

\* A set with 0, and with the successor of each of its members up to n, has
\* all the numbers up to n.
LEMMA UpTo ==
  ASSUME NEW n \in Nat, NEW T, 0 \in T, \A i \in 1..n : i - 1 \in T => i \in T
  PROVE  0..n \subseteq T
<1> DEFINE missing == (0..n) \ T
<1>1. CASE missing = {}
  BY <1>1
<1>2. CASE missing # {}
  <2>1. PICK m \in missing : \A k \in missing : m <= k
    <3> missing \subseteq Nat
      OBVIOUS
    <3> HIDE DEF missing
    <3> QED BY <1>2, LeastNumber
  <2>2. m \in 1..n /\ m - 1 \in 0..n
    BY <2>1
  <2>3. m - 1 \notin missing
    BY <2>1, <2>2
  <2> QED BY <2>1, <2>2, <2>3
<1> QED BY <1>1, <1>2

\* Steps that are functions on S, one for each of 1..n, define a function on 0..n.
LEMMA RecursiveFunction ==
  ASSUME NEW S, NEW start \in S, NEW n \in Nat, NEW step \in [1..n -> [S -> S]]
  PROVE  \E f \in [0..n -> S] :
           f[0] = start /\ \A i \in 1..n : f[i] = step[i][f[i - 1]]
<1> DEFINE Defines(f, k) ==
      \A i \in 0..k : f[i] = IF i = 0 THEN start ELSE step[i][f[i - 1]]
    P == {k \in 0..n : \E f \in [0..k -> S] : Defines(f, k)}
<1>1. 0 \in P
  <2> DEFINE f == [i \in 0..0 |-> start]
  <2>1. f \in [0..0 -> S] /\ Defines(f, 0)
    OBVIOUS
  <2>2. 0 \in 0..n
    OBVIOUS
  <2> HIDE DEF f, Defines
  <2> QED BY <2>1, <2>2
<1>2. ASSUME NEW k \in 1..n, k - 1 \in P PROVE k \in P
  <2>1. PICK f \in [0..k - 1 -> S] : Defines(f, k - 1)
    BY <1>2
  <2> DEFINE g == [i \in 0..k |-> IF i = k THEN step[k][f[k - 1]] ELSE f[i]]
  <2>2. g \in [0..k -> S]
    <3>1. f[k - 1] \in S
      OBVIOUS
    <3> QED BY <3>1
  <2>3. ASSUME NEW i \in 0..k PROVE g[i] = IF i = 0 THEN start ELSE step[i][g[i - 1]]
    <3>1. CASE i = k
      BY <3>1
    <3>2. CASE i # k
      BY <2>1, <3>2
    <3> QED BY <3>1, <3>2
  <2>4. Defines(g, k)
    BY <2>3
  <2> HIDE DEF g, Defines
  <2> QED BY <2>2, <2>4
<1>3. n \in P
  <2>1. 0..n \subseteq P
    <3> HIDE DEF P
    <3> QED BY <1>1, <1>2, UpTo
  <2> QED BY <2>1
<1> QED BY <1>3

\* The same from 1 on.
LEMMA RecursiveFromOne ==
  ASSUME NEW S, NEW start \in S, NEW n \in Nat, n > 0, NEW step \in [2..n -> [S -> S]]
  PROVE  \E f \in [1..n -> S] :
           f[1] = start /\ \A i \in 2..n : f[i] = step[i][f[i - 1]]
<1> DEFINE m == n - 1
           shifted == [i \in 1..m |-> step[i + 1]]
<1>1. m \in Nat /\ \A i \in 1..m : i + 1 \in 2..n
  OBVIOUS
<1>2. shifted \in [1..m -> [S -> S]]
  BY <1>1
<1>3. PICK g \in [0..m -> S] :
        g[0] = start /\ \A i \in 1..m : g[i] = shifted[i][g[i - 1]]
  <2>1. m \in Nat /\ start \in S /\ shifted \in [1..m -> [S -> S]]
    BY <1>1, <1>2
  <2>2. \E g \in [0..m -> S] : g[0] = start /\ \A i \in 1..m : g[i] = shifted[i][g[i - 1]]
    <3> HIDE DEF m, shifted
    <3> QED BY <2>1, RecursiveFunction, SMTT(30)
  <2> QED BY <2>2
<1> DEFINE f == [i \in 1..n |-> g[i - 1]]
<1>4. f \in [1..n -> S] /\ f[1] = start
  BY <1>3
<1>5. ASSUME NEW i \in 2..n PROVE f[i] = step[i][f[i - 1]]
  <2>1. i - 1 \in 1..m /\ (i - 1) + 1 = i /\ i - 1 \in 1..n /\ i \in 1..n
    OBVIOUS
  <2>2. g[i - 1] = shifted[i - 1][g[(i - 1) - 1]]
    BY <1>3, <2>1
  <2>3. shifted[i - 1] = step[i]
    BY <2>1
  <2>4. f[i] = g[i - 1] /\ f[i - 1] = g[(i - 1) - 1]
    BY <2>1
  <2> HIDE DEF f, shifted, m
  <2> QED BY <2>2, <2>3, <2>4
<1> QED BY <1>4, <1>5

=============================================================================
