-------------------------- MODULE PrefixSumsProofs --------------------------
(***************************************************************************)
(* What SumTo computes, for every function from 1..n to the integers.  The *)
(* induction over n is by the least element of the set of counterexamples: *)
(* LeastNat comes from the well-foundedness of < on the naturals.          *)
(***************************************************************************)
EXTENDS PrefixSums, WellFoundedInduction, TLAPS

\* Every nonempty set of naturals has a least element.
LEMMA LeastNat ==
  ASSUME NEW T, T \subseteq Nat, T # {}
  PROVE  \E x \in T : \A y \in T : x <= y
<1> DEFINE R == OpToRel(<, Nat)
<1>1. IsWellFoundedOn(R, Nat)
  BY NatLessThanWellFounded
<1>2. \E x \in T : \A y \in T : ~ (<<y, x>> \in R)
  <2> HIDE DEF R
  <2> QED BY <1>1, WFMin
<1>3. \A x, y \in Nat : y < x => <<y, x>> \in R
  BY DEF OpToRel
<1>4. QED
  <2> HIDE DEF R
  <2>1. PICK x \in T : \A y \in T : ~ (<<y, x>> \in R)
    BY <1>2
  <2>2. ASSUME NEW y \in T PROVE x <= y
    <3>1. x \in Nat /\ y \in Nat
      OBVIOUS
    <3>2. ~(y < x)
      <4>1. ~(<<y, x>> \in R)
        BY <2>1
      <4>2. y < x => <<y, x>> \in R
        BY <3>1, <1>3
      <4> QED BY <4>1, <4>2
    <3> QED BY <3>1, <3>2
  <2> QED BY <2>1, <2>2

\* Functions that satisfy the recursion of PrefixSum exist up to every k.
LEMMA PrefixExists ==
  ASSUME NEW n \in Nat, NEW f \in [1..n -> Int]
  PROVE  \A k \in 0..n : \E s \in [0..k -> Int] : s[0] = 0 /\ \A i \in 1..k : s[i] = s[i-1] + f[i]
<1> DEFINE P(k) == \E s \in [0..k -> Int] : s[0] = 0 /\ \A i \in 1..k : s[i] = s[i-1] + f[i]
<1> DEFINE T == {k \in 0..n : ~P(k)}
<1>1. P(0)
  <2> DEFINE s == [i \in 0..0 |-> 0]
  <2>1. s \in [0..0 -> Int] /\ s[0] = 0 /\ \A i \in 1..0 : s[i] = s[i-1] + f[i]
    OBVIOUS
  <2> QED BY <2>1
<1>2. ASSUME NEW k \in 0..n, k # 0, P(k-1) PROVE P(k)
  <2>1. PICK s \in [0..(k-1) -> Int] : s[0] = 0 /\ \A i \in 1..(k-1) : s[i] = s[i-1] + f[i]
    BY <1>2
  <2> DEFINE t == [i \in 0..k |-> IF i = k THEN s[k-1] + f[k] ELSE s[i]]
  <2>2. t \in [0..k -> Int]
    BY <1>2
  <2>3. t[0] = 0
    BY <1>2, <2>1
  <2>4. ASSUME NEW i \in 1..k PROVE t[i] = t[i-1] + f[i]
    <3>1. CASE i = k
      <4>1. t[i] = s[k-1] + f[k]
        BY <3>1, <1>2
      <4>2. t[i-1] = s[k-1]
        BY <3>1, <1>2
      <4> QED BY <3>1, <4>1, <4>2
    <3>2. CASE i # k
      <4>1. i \in 1..(k-1) /\ i - 1 \in 0..k /\ i - 1 # k /\ i \in 0..k
        BY <3>2
      <4>2. t[i] = s[i] /\ t[i-1] = s[i-1]
        BY <3>2, <4>1
      <4> QED BY <4>1, <4>2, <2>1
    <3> QED BY <3>1, <3>2
  <2> HIDE DEF t
  <2> QED BY <2>2, <2>3, <2>4
<1>3. T = {}
  <2> SUFFICES ASSUME T # {} PROVE FALSE
    OBVIOUS
  <2>1. T \subseteq Nat
    OBVIOUS
  <2>2. PICK k \in T : \A y \in T : k <= y
    BY <2>1, LeastNat
  <2> HIDE DEF P
  <2>3. k # 0
    BY <1>1
  <2>4. k - 1 \in 0..n /\ k-1 \notin T
    BY <2>2, <2>3
  <2>5. P(k-1)
    BY <2>4
  <2> QED BY <2>5, <1>2, <2>3
<1> HIDE DEF P
<1>4. \A k \in 0..n : P(k)
  BY <1>3
<1> QED BY <1>4 DEF P

\* PrefixSum satisfies the recursive equation it is written with.
LEMMA PrefixSumDef ==
  ASSUME NEW n \in Nat, NEW f \in [1..n -> Int]
  PROVE  /\ PrefixSum(f, n) \in [0..n -> Int]
         /\ PrefixSum(f, n)[0] = 0
         /\ \A i \in 1..n : PrefixSum(f, n)[i] = PrefixSum(f, n)[i-1] + f[i]
<1> DEFINE D(s) == [i \in 0..n |-> IF i = 0 THEN 0 ELSE s[i-1] + f[i]]
           p == PrefixSum(f, n)
<1> DEFINE IsPrefix(k, s) == s[0] = 0 /\ \A i \in 1..k : s[i] = s[i-1] + f[i]
<1>0. \E s \in [0..n -> Int] : IsPrefix(n, s)
  <2>1. \A k \in 0..n : \E s \in [0..k -> Int] : IsPrefix(k, s)
    BY PrefixExists
  <2>2. n \in 0..n
    OBVIOUS
  <2> HIDE DEF IsPrefix
  <2> QED BY <2>1, <2>2
<1>1. PICK s \in [0..n -> Int] : IsPrefix(n, s)
  BY <1>0
<1>2. s = D(s)
  <2>1. ASSUME NEW i \in 0..n PROVE s[i] = D(s)[i]
    <3>1. CASE i = 0
      BY <3>1, <1>1
    <3>2. CASE i # 0
      BY <3>2, <1>1
    <3> QED BY <3>1, <3>2
  <2>2. s = [i \in 0..n |-> s[i]]
    OBVIOUS
  <2> QED BY <2>1, <2>2
<1>3. p = CHOOSE g : g = D(g)
  BY DEF PrefixSum
<1> HIDE DEF p
<1>4. p = D(p)
  <2> HIDE DEF D
  <2>1. \E g : g = D(g)
    BY <1>2
  <2> QED BY <1>3, <2>1
<1>5. p[0] = 0
  BY <1>4
<1>6. \A i \in 1..n : p[i] = p[i-1] + f[i]
  BY <1>4
<1>7. p \in [0..n -> Int]
  <2> DEFINE T == {i \in 0..n : p[i] \notin Int}
  <2>1. T = {}
    <3> SUFFICES ASSUME T # {} PROVE FALSE
      OBVIOUS
    <3>1. T \subseteq Nat
      OBVIOUS
    <3>2. PICK k \in T : \A y \in T : k <= y
      BY <3>1, LeastNat
    <3>3. k # 0
      BY <1>5
    <3>4. k - 1 \in 0..n /\ k - 1 \notin T /\ k \in 1..n
      BY <3>2, <3>3
    <3>5. p[k-1] \in Int /\ f[k] \in Int
      BY <3>4
    <3> QED BY <3>4, <3>5, <1>6
  <2>2. p = [i \in 0..n |-> p[i]]
    BY <1>4
  <2> QED BY <2>1, <2>2
<1> QED BY <1>5, <1>6, <1>7 DEF p

\* Functions that agree up to n have the same prefix sums up to n.
LEMMA PrefixAgree ==
  ASSUME NEW n \in Nat, NEW m \in Nat, n <= m, NEW f \in [1..n -> Int], NEW g \in [1..m -> Int],
         \A i \in 1..n : g[i] = f[i]
  PROVE  \A i \in 0..n : PrefixSum(g, m)[i] = PrefixSum(f, n)[i]
<1> DEFINE p == PrefixSum(f, n)
           q == PrefixSum(g, m)
           T == {i \in 0..n : q[i] # p[i]}
<1>1. /\ p \in [0..n -> Int] /\ p[0] = 0
      /\ \A i \in 1..n : p[i] = p[i-1] + f[i]
  BY PrefixSumDef
<1>2. /\ q \in [0..m -> Int] /\ q[0] = 0
      /\ \A i \in 1..m : q[i] = q[i-1] + g[i]
  BY PrefixSumDef
<1> HIDE DEF p, q
<1>3. T = {}
  <2> SUFFICES ASSUME T # {} PROVE FALSE
    OBVIOUS
  <2>1. T \subseteq Nat
    OBVIOUS
  <2>2. PICK j \in T : \A y \in T : j <= y
    BY <2>1, LeastNat
  <2>3. j # 0
    BY <1>1, <1>2
  <2>4. j - 1 \in 0..n /\ j - 1 \notin T /\ j \in 1..n /\ j \in 1..m
    BY <2>2, <2>3
  <2>5. q[j-1] = p[j-1] /\ f[j] = g[j]
    BY <2>4
  <2>6. p[j] = p[j-1] + f[j] /\ q[j] = q[j-1] + g[j]
    BY <2>4, <1>1, <1>2
  <2> QED BY <2>5, <2>6
<1> QED BY <1>3 DEF p, q

\* Changing f at k alone leaves the prefix sums before k as they were and moves
\* the others by the difference.
LEMMA PrefixUpdate ==
  ASSUME NEW n \in Nat, NEW f \in [1..n -> Int], NEW g \in [1..n -> Int],
         NEW k \in 1..n, \A i \in 1..n : i # k => g[i] = f[i]
  PROVE  \A i \in 0..n :
            /\ i < k => PrefixSum(g, n)[i] = PrefixSum(f, n)[i]
            /\ i >= k => PrefixSum(g, n)[i] = PrefixSum(f, n)[i] + (g[k] - f[k])
<1> DEFINE p == PrefixSum(f, n)
           q == PrefixSum(g, n)
           d == g[k] - f[k]
           Good(i) == /\ i < k => q[i] = p[i]
                      /\ i >= k => q[i] = p[i] + d
           T == {i \in 0..n : ~Good(i)}
<1>1. /\ p \in [0..n -> Int] /\ p[0] = 0
      /\ \A i \in 1..n : p[i] = p[i-1] + f[i]
  BY PrefixSumDef
<1>2. /\ q \in [0..n -> Int] /\ q[0] = 0
      /\ \A i \in 1..n : q[i] = q[i-1] + g[i]
  BY PrefixSumDef
<1>0. d \in Int /\ f[k] \in Int /\ g[k] \in Int /\ g[k] = f[k] + d
  OBVIOUS
<1> HIDE DEF p, q, d
<1>3. T = {}
  <2> SUFFICES ASSUME T # {} PROVE FALSE
    OBVIOUS
  <2>1. T \subseteq Nat
    OBVIOUS
  <2>2. PICK j \in T : \A y \in T : j <= y
    BY <2>1, LeastNat
  <2>3. j # 0
    <3>1. Good(0)
      BY <1>1, <1>2
    <3> QED BY <3>1
  <2>4. j - 1 \in 0..n /\ j - 1 \notin T /\ j \in 1..n
    BY <2>2, <2>3
  <2>5. Good(j - 1)
    BY <2>4
  <2>6. p[j] = p[j-1] + f[j] /\ q[j] = q[j-1] + g[j]
    BY <2>4, <1>1, <1>2
  <2>7. p[j-1] \in Int /\ q[j-1] \in Int /\ f[j] \in Int /\ g[j] \in Int
    BY <2>4, <1>1, <1>2
  <2>8. Good(j)
    <3>1. CASE j = k
      <4>1. j - 1 < k /\ ~(j < k)
        BY <3>1, <2>4
      <4>2. q[j-1] = p[j-1]
        BY <4>1, <2>5
      <4>3. q[j] = p[j] + d
        BY <3>1, <4>2, <2>6, <2>7, <1>0
      <4> QED BY <4>1, <4>3
    <3>2. CASE j < k
      <4>1. j - 1 < k /\ ~(j >= k) /\ g[j] = f[j]
        BY <3>2, <2>4
      <4> QED BY <4>1, <2>5, <2>6
    <3>3. CASE j > k
      <4>1. j - 1 >= k /\ ~(j < k) /\ g[j] = f[j]
        BY <3>3, <2>4
      <4>2. q[j-1] = p[j-1] + d
        BY <4>1, <2>5
      <4>3. \A a, b \in Int : (a + d) + b = (a + b) + d
        BY <1>0
      <4>4. q[j] = p[j] + d
        BY <4>1, <4>2, <4>3, <2>6, <2>7
      <4> QED BY <4>1, <4>4
    <3> QED BY <3>1, <3>2, <3>3, <2>4
  <2> QED BY <2>8
<1> QED BY <1>3 DEF p, q, d

\* The sum the ledger properties are stated with is an integer.
THEOREM SumToInt ==
  ASSUME NEW n \in Nat, NEW f \in [1..n -> Int]
  PROVE  SumTo(f, n) \in Int
BY PrefixSumDef DEF SumTo

\* An empty ledger sums to zero.
THEOREM SumToZero ==
  ASSUME NEW f \in [1..0 -> Int]
  PROVE  SumTo(f, 0) = 0
BY PrefixSumDef DEF SumTo

\* An UPDATE of one ledger row moves the sum by what it changes in that row.
THEOREM SumUpdate ==
  ASSUME NEW n \in Nat, NEW f \in [1..n -> Int], NEW g \in [1..n -> Int],
         NEW k \in 1..n, \A i \in 1..n : i # k => g[i] = f[i]
  PROVE  SumTo(g, n) = SumTo(f, n) + (g[k] - f[k])
<1>1. n \in 0..n /\ n >= k
  OBVIOUS
<1> QED BY <1>1, PrefixUpdate DEF SumTo

\* Steps that change no term leave the sum alone.
THEOREM SumSame ==
  ASSUME NEW n \in Nat, NEW f \in [1..n -> Int], NEW g \in [1..n -> Int],
         \A i \in 1..n : g[i] = f[i]
  PROVE  SumTo(g, n) = SumTo(f, n)
<1>1. f = g
  OBVIOUS
<1> QED BY <1>1

\* An INSERT into the ledger adds the new row's term to the sum.
THEOREM SumExtend ==
  ASSUME NEW n \in Nat, NEW f \in [1..n -> Int], NEW g \in [1..(n+1) -> Int],
         \A i \in 1..n : g[i] = f[i]
  PROVE  SumTo(g, n + 1) = SumTo(f, n) + g[n + 1]
<1>1. n + 1 \in Nat /\ n <= n + 1 /\ n \in 0..n
  OBVIOUS
<1>2. PrefixSum(g, n+1)[n] = PrefixSum(f, n)[n]
  BY <1>1, PrefixAgree
<1>4. PrefixSum(g, n+1)[n+1] = PrefixSum(g, n+1)[n] + g[n+1]
  <2>1. \A i \in 1..(n+1) : PrefixSum(g, n+1)[i] = PrefixSum(g, n+1)[i-1] + g[i]
    BY PrefixSumDef, n + 1 \in Nat
  <2>2. n + 1 \in 1..(n+1) /\ (n + 1) - 1 = n
    OBVIOUS
  <2> QED BY <2>1, <2>2
<1> QED BY <1>2, <1>4 DEF SumTo

\* A ledger without internal rows moves nothing between users.
THEOREM SumOfZeros ==
  ASSUME NEW n \in Nat, NEW f \in [1..n -> Int], \A i \in 1..n : f[i] = 0
  PROVE  SumTo(f, n) = 0
<1> DEFINE p == PrefixSum(f, n)
           T == {i \in 0..n : p[i] # 0}
<1>1. p \in [0..n -> Int] /\ p[0] = 0 /\ \A i \in 1..n : p[i] = p[i-1] + f[i]
  BY PrefixSumDef
<1> HIDE DEF p
<1>2. T = {}
  <2> SUFFICES ASSUME T # {} PROVE FALSE
    OBVIOUS
  <2>1. T \subseteq Nat
    OBVIOUS
  <2>2. PICK j \in T : \A y \in T : j <= y
    BY <2>1, LeastNat
  <2>3. j # 0
    BY <1>1
  <2>4. j - 1 \in 0..n /\ j - 1 \notin T /\ j \in 1..n
    BY <2>2, <2>3
  <2>5. p[j-1] = 0 /\ f[j] = 0
    BY <2>4
  <2>6. p[j] = p[j-1] + f[j]
    BY <2>4, <1>1
  <2> QED BY <2>5, <2>6
<1> QED BY <1>2 DEF SumTo, p
=============================================================================
