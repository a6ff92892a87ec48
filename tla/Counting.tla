------------------------------ MODULE Counting ------------------------------
(***************************************************************************)
(* Facts about numbers and finite sets of numbers that the proofs of       *)
(* several components use.                                                 *)
(***************************************************************************)
EXTENDS Integers, Sequences, FiniteSets, FiniteSetTheorems, WellFoundedInduction, TLAPS

\* Every non-empty set of naturals has a least element.  An induction over n is
\* done with it: the least n for which the claim fails has a predecessor.
LEMMA Least ==
    ASSUME NEW S \in SUBSET Nat, S # {}
    PROVE  \E x \in S : \A y \in S : x <= y
<1> DEFINE LT == {ss \in Nat \X Nat : ss[1] < ss[2]}
<1>1. IsWellFoundedOn(LT, Nat)
  <2>1. IsWellFoundedOn(OpToRel(<, Nat), Nat)
    BY NatLessThanWellFounded
  <2>2. OpToRel(<, Nat) = LT
    BY DEF OpToRel
  <2> QED
    BY <2>1, <2>2, Zenon
<1>2. PICK x \in S : \A y \in S : ~ (<<y, x>> \in LT)
  BY <1>1, WFMin
<1>3. ASSUME NEW y \in S
      PROVE  x <= y
  <2>1. <<y, x>> \notin LT
    BY <1>2
  <2>2. y \in Nat /\ x \in Nat
    OBVIOUS
  <2> QED
    BY <2>1, <2>2
<1> QED
  BY <1>3

\* The elements of S, each once, in increasing order.
Listed(s, S) ==
    /\ s \in [1..Cardinality(S) -> S]
    /\ \A i, j \in DOMAIN s : i < j => s[i] < s[j]

\* A set of numbers between 1 and n can be listed in increasing order.
LEMMA Listing ==
    ASSUME NEW n \in Nat, NEW S, \A a \in S : a \in 1..n
    PROVE  /\ Cardinality(S) \in 0..n
           /\ \E s : Listed(s, S)
<1> DEFINE Upto(k) == {a \in S : a <= k}
           Good(k) == \E s : Listed(s, Upto(k))
           Bad == {k \in Nat : ~Good(k)}
<1>1. ASSUME NEW k \in Nat
      PROVE  /\ IsFiniteSet(Upto(k)) /\ Cardinality(Upto(k)) \in Nat
             /\ Cardinality(Upto(k)) <= k
  <2>1. Upto(k) \in SUBSET (1..k)
    OBVIOUS
  <2>2. IsFiniteSet(1..k) /\ Cardinality(1..k) = k
    BY FS_Interval
  <2>3. IsFiniteSet(Upto(k)) /\ Cardinality(Upto(k)) <= k
    BY <2>1, <2>2, FS_Subset
  <2> QED
    BY <2>3, FS_CardinalityType
<1>2. Bad = {}
  <2>1. SUFFICES ASSUME Bad # {}
                 PROVE  FALSE
    OBVIOUS
  <2> HIDE DEF Good
  <2>2. PICK x \in Nat : ~Good(x) /\ \A y \in Nat : ~Good(y) => x <= y
    BY <2>1, Least
  <2> HIDE DEF Bad
  <2>4. x # 0
    <3>1. SUFFICES ASSUME x = 0
                   PROVE  FALSE
      OBVIOUS
    <3>2. Upto(x) = {}
      BY <3>1
    <3>3. Cardinality(Upto(x)) = 0
      BY <3>2, FS_EmptySet
    <3>4. Listed([i \in 1..0 |-> i], Upto(x))
      <4>1. 1..Cardinality(Upto(x)) = {} /\ 1..0 = {}
        BY <3>3
      <4> HIDE DEF Upto
      <4>2. [i \in 1..0 |-> i] \in [1..Cardinality(Upto(x)) -> Upto(x)]
        BY <4>1
      <4> QED
        BY <4>2, <4>1 DEF Listed
    <3> QED
      BY <3>4, <2>2 DEF Good
  <2>5. x - 1 \in Nat /\ Good(x - 1)
    BY <2>2, <2>4
  <2>6. PICK s : Listed(s, Upto(x - 1))
    BY <2>5 DEF Good
  <2>7. CASE x \notin S
    <3>1. Upto(x) = Upto(x - 1)
      BY <2>7
    <3> QED
      BY <3>1, <2>6, <2>2, Zenon DEF Good
  <2>8. CASE x \in S
    <3> DEFINE m == Cardinality(Upto(x - 1))
               t == [i \in 1..m + 1 |-> IF i <= m THEN s[i] ELSE x]
    <3>1. Upto(x) = Upto(x - 1) \cup {x} /\ x \notin Upto(x - 1)
      <4>1. \A a \in S : a <= x <=> (a <= x - 1 \/ a = x)
        OBVIOUS
      <4>2. ~(x <= x - 1) /\ x <= x
        OBVIOUS
      <4> QED
        BY <2>8, <4>1, <4>2, Zenon
    <3>2. m \in Nat /\ IsFiniteSet(Upto(x - 1))
      BY <1>1, <2>5
    <3>3. Cardinality(Upto(x)) = m + 1
      BY <3>1, <3>2, FS_AddElement
    <3>4. s \in [1..m -> Upto(x - 1)] /\ \A i, j \in 1..m : i < j => s[i] < s[j]
      BY <2>6 DEF Listed
    <3>5. t \in [1..m + 1 -> Upto(x)]
      BY <3>1, <3>2, <3>4
    <3>6. ASSUME NEW i \in 1..m + 1, NEW j \in 1..m + 1, i < j
          PROVE  t[i] < t[j]
      <4>1. i <= m /\ t[i] = s[i] /\ s[i] \in Upto(x - 1)
        BY <3>2, <3>4, <3>6
      <4>2. CASE j <= m
        BY <4>1, <4>2, <3>4, <3>6, <3>2
      <4>3. CASE ~(j <= m)
        <5>1. t[j] = x
          BY <4>3
        <5>2. s[i] \in Nat /\ s[i] <= x - 1
          BY <4>1
        <5> QED
          BY <5>1, <5>2, <4>1
      <4> QED
        BY <4>2, <4>3
    <3>7. Listed(t, Upto(x))
      BY <3>3, <3>5, <3>6 DEF Listed
    <3> QED
      BY <3>7, <2>2 DEF Good
  <2> QED
    BY <2>7, <2>8
<1>3. Upto(n) = S
  OBVIOUS
<1> QED
  BY <1>1, <1>2, <1>3 DEF Good

-----------------------------------------------------------------------------
(* Numbers by their digits, and functions by recursion. *)

LEMMA Quotient ==
    ASSUME NEW n \in Nat, NEW p \in Nat \ {0}
    PROVE  /\ n \div p \in Nat
           /\ n < p => n \div p = 0
           /\ n < p + p => n \div p \in {0, 1}
OBVIOUS

LEMMA Modulo ==
    ASSUME NEW a \in Nat, NEW b \in Nat, a < b
    PROVE  a % b = a /\ (a + b) % b = a
OBVIOUS

\* Dividing twice is dividing once.
LEMMA DivDiv ==
    ASSUME NEW n \in Nat, NEW p \in Nat \ {0}, NEW r \in Nat \ {0}
    PROVE  (n \div p) \div r = n \div (p * r)
OBVIOUS

\* A digit of a number, at its place.
LEMMA Digit ==
    ASSUME NEW n \in Nat, NEW p \in Nat \ {0}, NEW r \in Nat \ {0}
    PROVE  /\ (n \div p) % r \in 0..r - 1
           /\ ((n \div p) % r) * p = (n \div p) * p - (n \div (p * r)) * (p * r)
<1> DEFINE q == n \div p
           t == q \div r
           d == q % r
<1>1. q \in Nat
  OBVIOUS
<1>2. t \in Nat /\ d \in 0..r - 1 /\ d = q - r * t
  <2> HIDE DEF q
  <2> QED
    BY <1>1
<1>3. t = n \div (p * r)
  BY DivDiv
<1> HIDE DEF q, t, d
<1>4. d * p = q * p - t * (p * r)
  <2>1. d * p = (q - r * t) * p
    BY <1>2
  <2>2. (q - r * t) * p = q * p - (r * t) * p
    BY <1>1, <1>2
  <2>3. (r * t) * p = t * (p * r)
    BY <1>1, <1>2
  <2> QED
    BY <2>1, <2>2, <2>3
<1> QED
  BY <1>2, <1>3, <1>4 DEF q, d

\* What is left below a place, together with the digit at it.
LEMMA Remainders ==
    ASSUME NEW n \in Nat, NEW p \in Nat \ {0}, NEW r \in Nat \ {0}
    PROVE  (n % p) + ((n \div p) % r) * p = n % (p * r)
<1>1. ((n \div p) % r) * p = (n \div p) * p - (n \div (p * r)) * (p * r)
  BY Digit
<1>2. \A q \in Nat \ {0} : n % q = n - (n \div q) * q
  OBVIOUS
<1>3. p * r \in Nat \ {0}
  OBVIOUS
<1>4. PICK q \in Nat \ {0} : q = p * r
  BY <1>3
<1>5. n % p = n - (n \div p) * p /\ n % q = n - (n \div q) * q
  BY <1>2
<1>6. (n \div p) * p \in Int /\ (n \div q) * q \in Int
  <2>1. n \div p \in Nat /\ n \div q \in Nat
    BY Quotient
  <2>2. \A u, w \in Nat : u * w \in Int
    OBVIOUS
  <2> QED
    BY <2>1, <2>2
<1> QED
  BY <1>1, <1>4, <1>5, <1>6

\* A larger factor makes no smaller product.
LEMMA Products ==
    ASSUME NEW a \in Nat, NEW b \in Nat, NEW p \in Nat, a <= b
    PROVE  a * p \in Nat /\ a * p <= b * p
<1>1. PICK d \in Nat : b = a + d
  <2>1. b - a \in Nat /\ b = a + (b - a)
    OBVIOUS
  <2> QED
    BY <2>1
<1>2. b * p = a * p + d * p
  BY <1>1
<1>3. \A x, y \in Nat : x * y \in Nat
  OBVIOUS
<1>4. a * p \in Nat /\ d * p \in Nat
  BY <1>3
<1> QED
  BY <1>2, <1>4

\* A definition by recursion up to n has a function that satisfies it.
LEMMA Recursion ==
    ASSUME NEW S, NEW a \in S, NEW n \in Nat, NEW h \in [1..n -> [S -> S]]
    PROVE  \E g \in [0..n -> S] : g[0] = a /\ \A k \in 1..n : g[k] = h[k][g[k - 1]]
<1> DEFINE Good(m, g) == g \in [0..m -> S] /\ g[0] = a /\ \A k \in 1..m : g[k] = h[k][g[k - 1]]
           Bad == {m \in 0..n : ~ \E g : Good(m, g)}
<1>1. SUFFICES ASSUME Bad # {}
               PROVE  FALSE
  <2>1. n \in 0..n
    OBVIOUS
  <2> QED
    BY <2>1
<1>2. PICK m \in Bad : \A y \in Bad : m <= y
  <2>1. Bad \in SUBSET Nat
    OBVIOUS
  <2> HIDE DEF Bad
  <2> QED
    BY <1>1, <2>1, Least
<1>3. m # 0
  <2>1. PICK g : g = [k \in 0..0 |-> a]
    OBVIOUS
  <2>2. 0..0 = {0} /\ 1..0 = {}
    OBVIOUS
  <2>3. Good(0, g)
    BY <2>1, <2>2
  <2>4. 0 \notin Bad
    BY <2>3
  <2> HIDE DEF Bad, Good
  <2> QED
    BY <1>2, <2>4
<1>4. m - 1 \in 0..n /\ m - 1 \notin Bad /\ m \in 1..n
  BY <1>2, <1>3
<1>5. PICK g : Good(m - 1, g)
  BY <1>4
<1>6. PICK z \in S : z = h[m][g[m - 1]]
  <2>1. g[m - 1] \in S
    BY <1>4, <1>5
  <2> QED
    BY <2>1, <1>4
<1> DEFINE f == [k \in 0..m |-> IF k = m THEN z ELSE g[k]]
<1>7. \A k \in 0..m - 1 : f[k] = g[k] /\ g[k] \in S
  BY <1>4, <1>5
<1>8. f[m] = z
  BY <1>4
<1>9. f \in [0..m -> S] /\ f[0] = a
  BY <1>4, <1>5, <1>7, <1>8
<1>10. ASSUME NEW k \in 1..m PROVE f[k] = h[k][f[k - 1]]
  <2>1. k - 1 \in 0..m - 1
    BY <1>4
  <2>2. f[k - 1] = g[k - 1]
    BY <2>1, <1>7
  <2> HIDE DEF f
  <2>3. CASE k = m
    BY <2>2, <2>3, <1>6, <1>8
  <2>4. CASE k # m
    <3>1. k \in 1..m - 1 /\ k \in 0..m - 1
      BY <2>4, <1>4
    <3>2. f[k] = g[k] /\ g[k] = h[k][g[k - 1]]
      BY <3>1, <1>5, <1>7
    <3> QED
      BY <3>2, <2>2
  <2> QED
    BY <2>3, <2>4
<1> HIDE DEF f
<1>11. Good(m, f)
  BY <1>9, <1>10
<1> QED
  BY <1>11, <1>2

-----------------------------------------------------------------------------
(* Powers of a base, and numbers in that base. *)

Powers(P, b, n) ==
    /\ P \in [0..n -> Nat \ {0}]
    /\ P[0] = 1
    /\ \A k \in 1..n : P[k] = b * P[k - 1]

\* The powers as they are defined by recursion.
LEMMA PowersExist ==
    ASSUME NEW b \in Nat \ {0}, NEW n \in Nat,
           NEW P, P = CHOOSE f : f = [k \in 0..n |-> IF k = 0 THEN 1 ELSE b * f[k - 1]]
    PROVE  Powers(P, b, n)
<1> DEFINE N == Nat \ {0}
           F(f) == [k \in 0..n |-> IF k = 0 THEN 1 ELSE b * f[k - 1]]
<1>1. \A u, v \in N : u * v \in N
  OBVIOUS
<1>2. PICK h : h = [k \in 1..n |-> [v \in N |-> b * v]]
  OBVIOUS
<1>3. h \in [1..n -> [N -> N]] /\ \A k \in 1..n, v \in N : h[k][v] = b * v
  BY <1>1, <1>2
<1>4. 1 \in N
  OBVIOUS
<1> HIDE DEF N
<1>5. PICK g \in [0..n -> N] : g[0] = 1 /\ \A k \in 1..n : g[k] = h[k][g[k - 1]]
  <2>1. PICK S, a : S = N /\ a = 1
    OBVIOUS
  <2>2. n \in Nat /\ a \in S /\ h \in [1..n -> [S -> S]]
    BY <1>3, <1>4, <2>1
  <2>3. \E g \in [0..n -> S] : g[0] = a /\ \A k \in 1..n : g[k] = h[k][g[k - 1]]
    BY ONLY <2>2, Recursion
  <2> QED
    BY <2>1, <2>3
<1>6. \A k \in 1..n : g[k] = b * g[k - 1]
  <2>1. \A k \in 1..n : k - 1 \in 0..n
    OBVIOUS
  <2> QED
    BY <2>1, <1>3, <1>5
<1>7. g = F(g)
  <2>1. \A k \in 0..n : k = 0 \/ k \in 1..n
    OBVIOUS
  <2>2. \A k \in 0..n : g[k] = IF k = 0 THEN 1 ELSE b * g[k - 1]
    BY <2>1, <1>5, <1>6
  <2> QED
    BY <2>2, <1>5
<1> HIDE DEF F
<1>8. P = F(P)
  BY <1>7 DEF F
<1>9. \A k \in 0..n : P[k] = IF k = 0 THEN 1 ELSE b * P[k - 1]
  BY <1>8 DEF F
<1>10. DOMAIN P = 0..n /\ P = [k \in 0..n |-> P[k]]
  BY <1>8 DEF F
<1>11. P[0] = 1 /\ \A k \in 1..n : P[k] = b * P[k - 1]
  BY <1>9
<1>12. \A k \in 0..n : P[k] \in N
  <2> DEFINE Bad == {k \in 0..n : P[k] \notin N}
  <2>1. SUFFICES ASSUME Bad # {} PROVE FALSE
    OBVIOUS
  <2>2. Bad \in SUBSET Nat
    OBVIOUS
  <2> HIDE DEF Bad
  <2>3. PICK k \in Bad : \A y \in Bad : k <= y
    BY <2>1, <2>2, Least
  <2>4. k \in 0..n /\ P[k] \notin N
    BY <2>3 DEF Bad
  <2>5. k # 0
    BY <2>4, <1>4, <1>11
  <2>6. k \in 1..n /\ k - 1 \in 0..n /\ k - 1 < k
    BY <2>4, <2>5
  <2>7. P[k - 1] \in N
    BY <2>3, <2>6 DEF Bad
  <2>8. P[k] \in N
    <3>1. b \in N
      BY DEF N
    <3> QED
      BY <3>1, <2>6, <2>7, <1>1, <1>11
  <2> QED
    BY <2>4, <2>8
<1> QED
  BY <1>10, <1>11, <1>12 DEF Powers, N

\* A power is a product of two whose exponents add up.
LEMMA PowersAdd ==
    ASSUME NEW b \in Nat \ {0}, NEW n \in Nat, NEW P, Powers(P, b, n),
           NEW i \in 0..n, NEW j \in 0..n, i + j <= n
    PROVE  P[i + j] = P[i] * P[j]
<1> DEFINE Bad == {k \in 0..n : i + k <= n /\ P[i + k] # P[i] * P[k]}
<1>1. SUFFICES ASSUME Bad # {} PROVE FALSE
  OBVIOUS
<1>2. Bad \in SUBSET Nat
  OBVIOUS
<1> HIDE DEF Bad
<1>3. PICK k \in Bad : \A y \in Bad : k <= y
  BY <1>1, <1>2, Least
<1>4. k \in 0..n /\ i + k <= n /\ P[i + k] # P[i] * P[k]
  BY <1>3 DEF Bad
<1>5. P[i] \in Nat /\ P[0] = 1
  BY DEF Powers
<1>6. k # 0
  BY <1>4, <1>5
<1>7. k - 1 \in 0..n /\ k \in 1..n /\ i + k \in 1..n /\ i + k - 1 = i + (k - 1) /\ i + (k - 1) <= n
      /\ ~(k <= k - 1) /\ i + (k - 1) \in 0..n
  BY <1>4, <1>6
<1>8. P[i + (k - 1)] = P[i] * P[k - 1]
  BY <1>3, <1>7 DEF Bad
<1>9. PICK u \in Nat, v \in Nat : u = P[i] /\ v = P[k - 1]
  BY <1>7 DEF Powers
<1>10. P[k] = b * v /\ P[i + k] = b * P[i + (k - 1)]
  BY <1>7, <1>9 DEF Powers
<1>11. u * (b * v) = b * (u * v)
  OBVIOUS
<1> QED
  BY <1>4, <1>8, <1>9, <1>10, <1>11

\* One more digit makes room for at least twice as many numbers.
LEMMA PowersGrow ==
    ASSUME NEW b \in Nat, 2 <= b, NEW n \in Nat, NEW P, Powers(P, b, n)
    PROVE  /\ \A k \in 1..n : 2 * P[k - 1] <= P[k] /\ P[k - 1] < P[k]
           /\ \A i, j \in 0..n : i <= j => P[i] <= P[j]
<1>1. ASSUME NEW k \in 1..n
      PROVE  2 * P[k - 1] <= P[k] /\ P[k - 1] < P[k]
  <2>1. k - 1 \in 0..n
    OBVIOUS
  <2>2. PICK p \in Nat \ {0} : p = P[k - 1]
    BY <2>1 DEF Powers
  <2>3. P[k] = b * p
    BY <2>2 DEF Powers
  <2>4. 2 * p <= b * p
    BY Products
  <2>5. b * p \in Nat
    OBVIOUS
  <2> QED
    BY <2>2, <2>3, <2>4, <2>5
<1>2. ASSUME NEW i \in 0..n, NEW j \in 0..n, i <= j
      PROVE  P[i] <= P[j]
  <2> DEFINE Bad == {k \in 0..n : i <= k /\ ~(P[i] <= P[k])}
  <2>1. SUFFICES ASSUME Bad # {} PROVE FALSE
    BY <1>2
  <2>2. Bad \in SUBSET Nat
    OBVIOUS
  <2> HIDE DEF Bad
  <2>3. PICK k \in Bad : \A y \in Bad : k <= y
    BY <2>1, <2>2, Least
  <2>4. k \in 0..n /\ i <= k /\ ~(P[i] <= P[k])
    BY <2>3 DEF Bad
  <2>5. PICK u \in Nat, v \in Nat : u = P[i] /\ v = P[k]
    BY <2>4 DEF Powers
  <2>6. k # i
    BY <2>4, <2>5
  <2>7. k \in 1..n /\ k - 1 \in 0..n /\ i <= k - 1 /\ ~(k <= k - 1)
    BY <2>4, <2>6
  <2>8. P[i] <= P[k - 1]
    BY <2>3, <2>7 DEF Bad
  <2>9. PICK w \in Nat : w = P[k - 1]
    BY <2>7 DEF Powers
  <2> QED
    BY <2>4, <2>5, <2>7, <2>8, <2>9, <1>1
<1> QED
  BY <1>1, <1>2

\* The sums of the first digits d, each at its place.
SumsTo(x, d, P, m) ==
    /\ x \in [0..m -> Nat]
    /\ x[0] = 0
    /\ \A k \in 1..m : x[k] = x[k - 1] + d[k] * P[k - 1]

\* Their definition by recursion, and what it needs.
SumsDefine(x, d, P, m) ==
    x = [k \in 0..m |-> IF k = 0 THEN 0 ELSE x[k - 1] + d[k] * P[k - 1]]
Terms(d, P, m) == \A k \in 1..m : d[k] \in Nat /\ P[k - 1] \in Nat

\* The sums can be defined by recursion.
LEMMA SumsExist ==
    ASSUME NEW m \in Nat, NEW d, NEW P, Terms(d, P, m)
    PROVE  \E x : SumsDefine(x, d, P, m)
<1> USE DEF Terms
<1> DEFINE F(f) == [k \in 0..m |-> IF k = 0 THEN 0 ELSE f[k - 1] + d[k] * P[k - 1]]
<1>1. \A a, u, v \in Nat : a + u * v \in Nat
  <2>1. \A u, v \in Nat : u * v \in Nat
    OBVIOUS
  <2>2. \A u, v \in Nat : u + v \in Nat
    OBVIOUS
  <2> QED
    BY <2>1, <2>2, Zenon
<1>2. PICK h : h = [k \in 1..m |-> [v \in Nat |-> v + d[k] * P[k - 1]]]
  OBVIOUS
<1>3. \A k \in 1..m, v \in Nat : h[k][v] = v + d[k] * P[k - 1]
  BY <1>2
<1>4. h \in [1..m -> [Nat -> Nat]]
  <2>1. \A k \in 1..m : [v \in Nat |-> v + d[k] * P[k - 1]] \in [Nat -> Nat]
    BY <1>1
  <2> QED
    BY <2>1, <1>2
<1>5. PICK g \in [0..m -> Nat] : g[0] = 0 /\ \A k \in 1..m : g[k] = h[k][g[k - 1]]
  <2>1. PICK S, a : S = Nat /\ a = 0
    OBVIOUS
  <2>2. m \in Nat /\ a \in S /\ h \in [1..m -> [S -> S]]
    BY <1>4, <2>1
  <2>3. \E g \in [0..m -> S] : g[0] = a /\ \A k \in 1..m : g[k] = h[k][g[k - 1]]
    BY ONLY <2>2, Recursion
  <2> QED
    BY <2>1, <2>3
<1>6. \A k \in 1..m : k - 1 \in 0..m
  OBVIOUS
<1>7. \A k \in 0..m : k = 0 \/ k \in 1..m
  OBVIOUS
<1>8. \A k \in 1..m : g[k] = g[k - 1] + d[k] * P[k - 1]
  BY <1>3, <1>5, <1>6
<1>9. g = F(g)
  <2>1. \A k \in 0..m : g[k] = IF k = 0 THEN 0 ELSE g[k - 1] + d[k] * P[k - 1]
    BY <1>5, <1>7, <1>8, Zenon
  <2> QED
    BY <2>1, <1>5
<1> QED
  BY <1>9 DEF SumsDefine

\* What is defined so are the sums.
LEMMA SumsDefined ==
    ASSUME NEW m \in Nat, NEW d, NEW P, Terms(d, P, m), NEW x, SumsDefine(x, d, P, m)
    PROVE  SumsTo(x, d, P, m)
<1> USE DEF Terms
<1> DEFINE F(f) == [k \in 0..m |-> IF k = 0 THEN 0 ELSE f[k - 1] + d[k] * P[k - 1]]
<1>1. \A a, u, v \in Nat : a + u * v \in Nat
  <2>1. \A u, v \in Nat : u * v \in Nat
    OBVIOUS
  <2>2. \A u, v \in Nat : u + v \in Nat
    OBVIOUS
  <2> QED
    BY <2>1, <2>2, Zenon
<1> HIDE DEF F
<1>10. x = F(x)
  BY DEF F, SumsDefine
<1>11. \A k \in 0..m : x[k] = IF k = 0 THEN 0 ELSE x[k - 1] + d[k] * P[k - 1]
  BY <1>10 DEF F
<1>12. DOMAIN x = 0..m /\ x = [k \in 0..m |-> x[k]]
  BY <1>10 DEF F
<1>13. x[0] = 0 /\ \A k \in 1..m : x[k] = x[k - 1] + d[k] * P[k - 1]
  <2>1. 0 \in 0..m /\ \A k \in 1..m : k \in 0..m /\ k # 0
    OBVIOUS
  <2> QED
    BY ONLY <2>1, <1>11
<1>14. \A k \in 0..m : x[k] \in Nat
  <2> DEFINE Bad == {k \in 0..m : x[k] \notin Nat}
  <2>1. SUFFICES ASSUME Bad # {} PROVE FALSE
    OBVIOUS
  <2>2. Bad \in SUBSET Nat
    OBVIOUS
  <2> HIDE DEF Bad
  <2>3. PICK k \in Bad : \A y \in Bad : k <= y
    BY <2>1, <2>2, Least
  <2>4. k \in 0..m /\ x[k] \notin Nat
    BY <2>3 DEF Bad
  <2>5. k # 0
    BY <2>4, <1>13
  <2>6. k \in 1..m /\ k - 1 \in 0..m /\ ~(k <= k - 1)
    BY <2>4, <2>5
  <2>7. x[k - 1] \in Nat
    BY <2>3, <2>6 DEF Bad
  <2>8. x[k] \in Nat
    BY <2>6, <2>7, <1>1, <1>13
  <2> QED
    BY <2>4, <2>8
<1>15. x \in [0..m -> Nat]
  BY <1>12, <1>14
<1> QED
  BY <1>13, <1>15 DEF SumsTo

\* The sums stay below the value of a one in the next place.
LEMMA SumsBelow ==
    ASSUME NEW b \in Nat \ {0}, NEW n \in Nat, NEW P, Powers(P, b, n),
           NEW m \in 0..n, NEW x, NEW d, SumsTo(x, d, P, m),
           \A k \in 1..m : d[k] \in 0..b - 1
    PROVE  \A k \in 0..m : x[k] < P[k]
<1> DEFINE Bad == {k \in 0..m : ~(x[k] < P[k])}
<1>1. SUFFICES ASSUME Bad # {} PROVE FALSE
  OBVIOUS
<1>2. Bad \in SUBSET Nat
  OBVIOUS
<1> HIDE DEF Bad
<1>3. PICK k \in Bad : \A y \in Bad : k <= y
  BY <1>1, <1>2, Least
<1>4. k \in 0..m /\ ~(x[k] < P[k])
  BY <1>3 DEF Bad
<1>5. k # 0
  BY <1>4 DEF Powers, SumsTo
<1>6. k \in 1..m /\ k - 1 \in 0..m /\ ~(k <= k - 1) /\ k \in 1..n /\ k - 1 \in 0..n
  BY <1>4, <1>5
<1>7. x[k - 1] < P[k - 1]
  BY <1>3, <1>6 DEF Bad
<1>8. PICK p \in Nat \ {0} : p = P[k - 1] /\ P[k] = b * p
  BY <1>6 DEF Powers
<1>9. PICK y \in Nat, c \in 0..b - 1 : y = x[k - 1] /\ c = d[k] /\ x[k] = y + c * p
  BY <1>6, <1>8 DEF SumsTo
<1>10. c * p <= (b - 1) * p /\ c * p \in Nat
  <2>1. b - 1 \in Nat /\ c \in Nat /\ c <= b - 1
    OBVIOUS
  <2> QED
    BY <2>1, Products
<1>11. (b - 1) * p = b * p - p /\ b * p \in Nat
  OBVIOUS
<1> QED
  BY <1>4, <1>7, <1>8, <1>9, <1>10, <1>11

\* Of the digits of a number, the sums are its remainders.
LEMMA SumsOfNumber ==
    ASSUME NEW b \in Nat \ {0}, NEW n \in Nat, NEW P, Powers(P, b, n),
           NEW m \in 0..n, NEW x, NEW d, SumsTo(x, d, P, m), NEW v \in Nat,
           \A k \in 1..m : d[k] = (v \div P[k - 1]) % b
    PROVE  \A k \in 0..m : x[k] = v % P[k]
<1> DEFINE Bad == {k \in 0..m : x[k] # v % P[k]}
<1>1. SUFFICES ASSUME Bad # {} PROVE FALSE
  OBVIOUS
<1>2. Bad \in SUBSET Nat
  OBVIOUS
<1> HIDE DEF Bad
<1>3. PICK k \in Bad : \A y \in Bad : k <= y
  BY <1>1, <1>2, Least
<1>4. k \in 0..m /\ x[k] # v % P[k]
  BY <1>3 DEF Bad
<1>5. k # 0
  <2>1. v % 1 = 0
    OBVIOUS
  <2> QED
    BY <2>1, <1>4 DEF Powers, SumsTo
<1>6. k \in 1..m /\ k - 1 \in 0..m /\ ~(k <= k - 1) /\ k \in 1..n /\ k - 1 \in 0..n
  BY <1>4, <1>5
<1>7. x[k - 1] = v % P[k - 1]
  BY <1>3, <1>6 DEF Bad
<1>8. PICK p \in Nat \ {0} : p = P[k - 1] /\ P[k] = b * p
  BY <1>6 DEF Powers
<1>9. x[k] = (v % p) + ((v \div p) % b) * p
  BY <1>6, <1>7, <1>8 DEF SumsTo
<1>10. (v % p) + ((v \div p) % b) * p = v % (p * b)
  BY Remainders
<1>11. b * p = p * b
  OBVIOUS
<1> QED
  BY <1>4, <1>8, <1>9, <1>10, <1>11

=============================================================================
