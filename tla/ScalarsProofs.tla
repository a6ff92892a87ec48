--------------------------- MODULE ScalarsProofs ----------------------------
(***************************************************************************)
(* Proofs about WideInts and Scalars, for words of any number of bytes, any *)
(* even radix, any widths of the narrow types and any base of the decimals. *)
(***************************************************************************)
EXTENDS Scalars, Counting, SequenceTheorems

-----------------------------------------------------------------------------
(* Arithmetic. *)

\* The quotient of a number of either sign, rounded down, and the remainder.
LEMMA Floor ==
    ASSUME NEW v \in Int, NEW u \in Nat \ {0}
    PROVE  /\ v \div u \in Int /\ v % u \in 0..u - 1
           /\ v = (v \div u) * u + (v % u)
OBVIOUS

LEMMA FloorIs ==
    ASSUME NEW q \in Int, NEW u \in Nat \ {0}, NEW r \in 0..u - 1
    PROVE  (q * u + r) \div u = q /\ (q * u + r) % u = r
OBVIOUS

LEMMA FloorTwice ==
    ASSUME NEW v \in Int, NEW s \in Nat \ {0}, NEW d \in Nat \ {0}
    PROVE  (v \div s) \div d = v \div (s * d)
OBVIOUS

LEMMA FloorGrows ==
    ASSUME NEW v \in Int, NEW w \in Int, v <= w, NEW u \in Nat \ {0}
    PROVE  v \div u <= w \div u
OBVIOUS

\* A number is positive or not, and so is its quotient.
LEMMA FloorSign ==
    ASSUME NEW v \in Int, NEW u \in Nat \ {0}
    PROVE  /\ v >= 0 => v \div u \in Nat /\ v \div u <= v
           /\ v < 0 => v \div u < 0
OBVIOUS

LEMMA FloorOfOne == ASSUME NEW v \in Int PROVE v \div 1 = v
OBVIOUS

\* Division of both by the same factor.
LEMMA FloorCancels ==
    ASSUME NEW v \in Int, NEW a \in Nat \ {0}, NEW b \in Nat \ {0}
    PROVE  (v * a) \div (b * a) = v \div b
<1>1. v * a \in Int /\ b * a = a * b
  OBVIOUS
<1>2. (v * a) \div (a * b) = ((v * a) \div a) \div b
  BY <1>1, FloorTwice
<1>3. (v * a) \div a = v
  <2>1. v * a + 0 = v * a /\ 0 \in 0..a - 1
    BY <1>1
  <2> QED
    BY <2>1, FloorIs
<1> QED
  BY <1>1, <1>2, <1>3

\* What is left below u, together with what is left of the quotient.
LEMMA FloorParts ==
    ASSUME NEW n \in Int, NEW u \in Nat \ {0}
    PROVE  (n % u) + ((n \div u) % u) * u = n % (u * u)
<1>1. PICK q \in Int, r \in 0..u - 1 : q = n \div u /\ r = n % u /\ n = q * u + r
  BY Floor
<1>2. PICK c \in Int, d \in 0..u - 1 : c = q \div u /\ d = q % u /\ q = c * u + d
  BY Floor
<1>3. d * u \in Nat /\ d * u <= (u - 1) * u
  <2>1. d \in Nat /\ u - 1 \in Nat /\ d <= u - 1
    OBVIOUS
  <2> QED
    BY <2>1, Products
<1>4. PICK t \in Nat \ {0} : t = u * u
  OBVIOUS
<1>5. (u - 1) * u = t - u
  BY <1>4
<1>6. r + d * u \in 0..t - 1
  BY <1>3, <1>5
<1>7. n = c * t + (r + d * u)
  <2>1. (c * u + d) * u = c * (u * u) + d * u
    OBVIOUS
  <2>2. q * u = c * t + d * u
    BY <1>2, <1>4, <2>1, Zenon
  <2>3. c * t \in Int /\ d * u \in Int
    BY <1>3
  <2> QED
    BY ONLY <1>1, <2>2, <2>3
<1>8. (c * t + (r + d * u)) % t = r + d * u
  BY <1>6, FloorIs
<1> QED
  BY <1>1, <1>2, <1>4, <1>7, <1>8

\* The powers up to n are those that Power defines.
PowersUpTo(b, n) == [k \in 0..n |-> Power(b, k)]

LEMMA PowerIs ==
    ASSUME NEW b \in Nat \ {0}
    PROVE  /\ Power(b, 0) = 1
           /\ \A n \in Nat : Power(b, n) \in Nat \ {0} /\ Power(b, n + 1) = b * Power(b, n)
<1>1. ASSUME NEW n \in Nat
      PROVE  \E P : Powers(P, b, n) /\ Power(b, n) = P[n]
  <2>1. PICK P : P = CHOOSE f : f = [k \in 0..n |-> IF k = 0 THEN 1 ELSE b * f[k - 1]]
    OBVIOUS
  <2>2. Power(b, n) = P[n]
    BY <2>1 DEF Power
  <2>3. Powers(P, b, n)
    BY <2>1, PowersExist
  <2> QED
    BY <2>2, <2>3
<1>2. Power(b, 0) = 1
  <2>1. PICK P : Powers(P, b, 0) /\ Power(b, 0) = P[0]
    BY <1>1
  <2> QED
    BY <2>1 DEF Powers
<1>3. ASSUME NEW n \in Nat
      PROVE  Power(b, n) \in Nat \ {0} /\ Power(b, n + 1) = b * Power(b, n)
  <2>1. PICK P : Powers(P, b, n) /\ Power(b, n) = P[n]
    BY <1>1
  <2>2. PICK Q : Powers(Q, b, n + 1) /\ Power(b, n + 1) = Q[n + 1]
    <3>1. n + 1 \in Nat
      OBVIOUS
    <3> QED
      BY <3>1, <1>1
  <2>3. \A k \in 0..n : P[k] = Q[k]
    <3> DEFINE Wrong == {k \in 0..n : P[k] # Q[k]}
    <3>1. SUFFICES ASSUME Wrong # {} PROVE FALSE
      OBVIOUS
    <3>2. Wrong \in SUBSET Nat
      OBVIOUS
    <3> HIDE DEF Wrong
    <3>3. PICK k \in Wrong : \A y \in Wrong : k <= y
      BY <3>1, <3>2, Least
    <3>4. k \in 0..n /\ P[k] # Q[k]
      BY <3>3 DEF Wrong
    <3>5. k # 0
      BY <3>4, <2>1, <2>2 DEF Powers
    <3>6. k \in 1..n /\ k \in 1..n + 1 /\ k - 1 \in 0..n /\ ~(k <= k - 1)
      BY <3>4, <3>5
    <3>7. P[k - 1] = Q[k - 1]
      BY <3>3, <3>6 DEF Wrong
    <3>8. P[k] = b * P[k - 1] /\ Q[k] = b * Q[k - 1]
      BY <3>6, <2>1, <2>2 DEF Powers
    <3> QED
      BY <3>4, <3>7, <3>8
  <2>4. n \in 0..n /\ n + 1 \in 1..n + 1 /\ n + 1 - 1 = n
    OBVIOUS
  <2>5. P[n] \in Nat \ {0} /\ Q[n + 1] = b * Q[n]
    BY <2>1, <2>2, <2>4 DEF Powers
  <2> QED
    BY <2>1, <2>2, <2>3, <2>4, <2>5
<1> QED
  BY <1>2, <1>3

LEMMA PowersAre ==
    ASSUME NEW b \in Nat \ {0}, NEW n \in Nat
    PROVE  /\ Powers(PowersUpTo(b, n), b, n)
           /\ \A k \in 0..n : PowersUpTo(b, n)[k] = Power(b, k)
<1> DEFINE P == PowersUpTo(b, n)
<1>1. \A k \in 0..n : P[k] = Power(b, k) /\ k \in Nat
  BY DEF PowersUpTo
<1>2. P \in [0..n -> Nat \ {0}]
  BY PowerIs DEF PowersUpTo
<1>3. ASSUME NEW k \in 1..n PROVE P[k] = b * P[k - 1]
  <2>1. k - 1 \in Nat /\ k = (k - 1) + 1 /\ k - 1 \in 0..n /\ k \in 0..n
    OBVIOUS
  <2>2. Power(b, (k - 1) + 1) = b * Power(b, k - 1)
    BY <2>1, PowerIs
  <2> HIDE DEF P
  <2> QED
    BY <2>1, <2>2, <1>1
<1>4. P[0] = 1
  <2>1. 0 \in 0..n
    OBVIOUS
  <2> HIDE DEF P
  <2> QED
    BY <2>1, <1>1, PowerIs
<1> HIDE DEF P
<1>5. Powers(P, b, n)
  BY <1>2, <1>3, <1>4 DEF Powers
<1> QED
  BY <1>1, <1>5 DEF P

\* A power is a product of two whose exponents add up.
LEMMA PowerSum ==
    ASSUME NEW b \in Nat \ {0}, NEW i \in Nat, NEW j \in Nat
    PROVE  Power(b, i + j) = Power(b, i) * Power(b, j)
<1>1. PICK n \in Nat : n = i + j
  OBVIOUS
<1>2. PICK P : P = PowersUpTo(b, n)
  OBVIOUS
<1>3. Powers(P, b, n) /\ \A k \in 0..n : P[k] = Power(b, k)
  BY <1>2, PowersAre
<1>4. i \in 0..n /\ j \in 0..n /\ i + j \in 0..n /\ i + j <= n
  BY <1>1
<1>5. P[i + j] = P[i] * P[j]
  BY <1>3, <1>4, PowersAdd
<1> QED
  BY <1>3, <1>4, <1>5

\* Larger exponents make larger powers.
LEMMA PowerGrows ==
    ASSUME NEW b \in Nat, 2 <= b, NEW i \in Nat, NEW j \in Nat, i <= j
    PROVE  Power(b, i) <= Power(b, j)
<1>1. PICK P : P = PowersUpTo(b, j)
  OBVIOUS
<1>2. Powers(P, b, j) /\ \A k \in 0..j : P[k] = Power(b, k)
  BY <1>1, PowersAre
<1>3. i \in 0..j /\ j \in 0..j
  OBVIOUS
<1>4. P[i] <= P[j]
  BY <1>2, <1>3, PowersGrow
<1> QED
  BY <1>2, <1>3, <1>4


\* A multiple of the divisor adds to the quotient and leaves the remainder.
LEMMA FloorAdds ==
    ASSUME NEW v \in Int, NEW m \in Int, NEW u \in Nat \ {0}
    PROVE  (v + m * u) \div u = v \div u + m /\ (v + m * u) % u = v % u
<1>1. PICK q \in Int, r \in 0..u - 1 : q = v \div u /\ r = v % u /\ v = q * u + r
  BY Floor
<1>2. v + m * u = (q + m) * u + r /\ q + m \in Int
  BY <1>1
<1>3. ((q + m) * u + r) \div u = q + m /\ ((q + m) * u + r) % u = r
  BY <1>2, FloorIs
<1> QED
  BY <1>1, <1>2, <1>3

-----------------------------------------------------------------------------
(* Bytes. *)

P(k) == Power(Radix, k)
ByteOf(n, k) == (n \div P(k - 1)) % Radix

\* buf holds the lowest s bytes of n, the first one first; n may be negative.
IsLE(buf, n, s) == buf = [i \in 1..s |-> ByteOf(n, i)]

LEMMA RadixIs == Radix \in Nat \ {0} /\ 2 <= Radix
BY WideAssumption

LEMMA PIs ==
    /\ P(0) = 1
    /\ \A k \in Nat : P(k) \in Nat \ {0} /\ P(k + 1) = Radix * P(k)
    /\ \A i, j \in Nat : P(i + j) = P(i) * P(j)
BY RadixIs, PowerIs, PowerSum DEF P

LEMMA ByteIs ==
    ASSUME NEW n \in Int, NEW k \in Nat, k > 0
    PROVE  ByteOf(n, k) \in 0..Radix - 1
<1>1. k - 1 \in Nat
  OBVIOUS
<1>2. PICK p \in Nat \ {0} : p = P(k - 1)
  BY <1>1, PIs
<1>3. PICK q \in Int : q = n \div p
  BY Floor
<1>4. q % Radix \in 0..Radix - 1
  BY RadixIs, Floor
<1> QED
  BY <1>2, <1>3, <1>4 DEF ByteOf

\* The bytes above do not show in those below.
LEMMA BytesBelow ==
    ASSUME NEW r \in Int, NEW q \in Int, NEW s \in Nat, NEW k \in 1..s
    PROVE  ByteOf(r + q * P(s), k) = ByteOf(r, k)
<1>1. k - 1 \in Nat /\ s - k \in Nat /\ s = (k - 1) + ((s - k) + 1) /\ (s - k) + 1 \in Nat
  OBVIOUS
<1>2. PICK p \in Nat \ {0}, e \in Nat \ {0} : p = P(k - 1) /\ e = P(s - k)
  BY <1>1, PIs
<1>3. PICK R \in Nat \ {0} : R = Radix
  BY RadixIs
<1>4. P(s) = p * (R * e)
  <2>1. P(s) = P(k - 1) * P((s - k) + 1)
    BY <1>1, PIs
  <2>2. P((s - k) + 1) = R * e
    BY <1>1, <1>2, <1>3, PIs
  <2> QED
    BY <2>1, <2>2, <1>2
<1>5. q * (p * (R * e)) = ((q * e) * R) * p /\ (q * e) * R \in Int /\ q * e \in Int
  <2>1. PICK c \in Int : c = q * e
    OBVIOUS
  <2>2. q * (p * (R * e)) = (p * R) * (q * e)
    OBVIOUS
  <2>3. (p * R) * c = (c * R) * p /\ c * R \in Int
    OBVIOUS
  <2> QED
    BY <2>1, <2>2, <2>3
<1>6. PICK m \in Int, c \in Int : m = (q * e) * R /\ c = q * e /\ m = c * R
  BY <1>5
<1>7. (r + m * p) \div p = r \div p + m
  BY FloorAdds
<1>8. PICK d \in Int : d = r \div p
  BY Floor
<1>9. (d + c * R) % R = d % R
  BY FloorAdds
<1>10. r + q * P(s) = r + m * p
  BY <1>4, <1>5, <1>6
<1> QED
  BY <1>2, <1>3, <1>6, <1>7, <1>8, <1>9, <1>10 DEF ByteOf

\* The bytes from a place on are those of the quotient.
LEMMA BytesAbove ==
    ASSUME NEW n \in Int, NEW a \in Nat, NEW k \in Nat, k > 0
    PROVE  ByteOf(n \div P(a), k) = ByteOf(n, a + k)
<1>1. k - 1 \in Nat /\ a + k - 1 = a + (k - 1)
  OBVIOUS
<1>2. PICK u \in Nat \ {0}, p \in Nat \ {0} : u = P(a) /\ p = P(k - 1)
  BY <1>1, PIs
<1>3. P(a + (k - 1)) = u * p
  BY <1>1, <1>2, PIs
<1>4. (n \div u) \div p = n \div (u * p)
  BY FloorTwice
<1> QED
  BY <1>1, <1>2, <1>3, <1>4 DEF ByteOf

\* A part of the bytes.
LEMMA Pieces ==
    ASSUME NEW n \in Int, NEW s \in Nat, NEW buf, IsLE(buf, n, s),
           NEW a \in Nat, NEW l \in Nat, a + l <= s
    PROVE  IsLE(SubSeq(buf, a + 1, a + l), n \div P(a), l)
<1>1. \A k \in 1..l : k \in Nat /\ k > 0 /\ a + k \in 1..s
  OBVIOUS
<1>2. \A k \in 1..s : buf[k] = ByteOf(n, k)
  BY DEF IsLE
<1>3. SubSeq(buf, a + 1, a + l) = [k \in 1..l |-> buf[a + k]]
  <2>1. SubSeq(buf, a + 1, a + l) = [k \in 1..(a + l) - (a + 1) + 1 |-> buf[k + (a + 1) - 1]]
    OBVIOUS
  <2>2. (a + l) - (a + 1) + 1 = l /\ \A k \in 1..l : k + (a + 1) - 1 = a + k
    OBVIOUS
  <2> QED
    BY <2>1, <2>2
<1>4. \A k \in 1..l : buf[a + k] = ByteOf(n \div P(a), k)
  BY <1>1, <1>2, BytesAbove
<1> QED
  BY <1>3, <1>4 DEF IsLE

\* Only the remainder shows.
LEMMA BytesOfRest ==
    ASSUME NEW n \in Int, NEW s \in Nat, NEW buf, IsLE(buf, n, s)
    PROVE  IsLE(buf, n % P(s), s)
<1>1. PICK u \in Nat \ {0} : u = P(s)
  BY PIs
<1>2. PICK q \in Int, r \in Int : q = n \div u /\ r = n % u /\ n = r + q * u
  <2>1. n \div u \in Int /\ n % u \in Int /\ n = (n \div u) * u + (n % u)
    BY Floor
  <2> QED
    BY <2>1
<1>3. \A k \in 1..s : ByteOf(n, k) = ByteOf(r, k)
  BY <1>1, <1>2, BytesBelow
<1> QED
  BY <1>1, <1>2, <1>3 DEF IsLE

\* Bytes after bytes.
LEMMA Joined ==
    ASSUME NEW s \in Nat, NEW t \in Nat, NEW x \in Nat, NEW y \in Int, x < P(s),
           NEW a, IsLE(a, x, s), NEW b, IsLE(b, y, t)
    PROVE  IsLE(a \o b, x + y * P(s), s + t)
<1>1. PICK u \in Nat \ {0}, n \in Int : u = P(s) /\ n = x + y * u
  <2>1. PICK u \in Nat \ {0} : u = P(s)
    BY PIs
  <2>2. x + y * u \in Int
    OBVIOUS
  <2> QED
    BY <2>1, <2>2
<1>2. n \div u = y
  <2>1. n = y * u + x /\ x \in 0..u - 1
    BY <1>1
  <2> QED
    BY <2>1, FloorIs
<1>3. \A k \in 1..s : ByteOf(x, k) = ByteOf(n, k)
  BY <1>1, BytesBelow
<1>4. \A k \in 1..t : ByteOf(y, k) = ByteOf(n, s + k)
  BY <1>1, <1>2, BytesAbove
<1>5. /\ a \in Seq(Int) /\ Len(a) = s
      /\ b \in Seq(Int) /\ Len(b) = t
  <2>1. /\ \A k \in 1..s : ByteOf(x, k) \in Int
        /\ \A k \in 1..t : ByteOf(y, k) \in Int
    <3>1. \A k \in 1..s : k \in Nat /\ k > 0
      OBVIOUS
    <3>2. \A k \in 1..t : k \in Nat /\ k > 0
      OBVIOUS
    <3>3. x \in Int
      OBVIOUS
    <3> QED
      BY <3>1, <3>2, <3>3, ByteIs, RadixIs
  <2>2. /\ a \in [1..s -> Int] /\ DOMAIN a = 1..s
        /\ b \in [1..t -> Int] /\ DOMAIN b = 1..t
    BY <2>1 DEF IsLE
  <2> QED
    BY ONLY <2>2, s \in Nat, t \in Nat
<1>6. a \o b = [k \in 1..s + t |-> IF k <= s THEN a[k] ELSE b[k - s]]
  <2>1. PICK c : c = a \o b
    OBVIOUS
  <2>2. c \in Seq(Int) /\ Len(c) = s + t
        /\ \A k \in 1..s + t : c[k] = IF k <= s THEN a[k] ELSE b[k - s]
    BY ONLY <1>5, <2>1, ConcatProperties
  <2>3. c = [k \in 1..s + t |-> c[k]]
    BY ONLY <2>2
  <2> QED
    BY <2>1, <2>2, <2>3
<1>7. ASSUME NEW k \in 1..s + t
      PROVE  (IF k <= s THEN a[k] ELSE b[k - s]) = ByteOf(n, k)
  <2>1. CASE k <= s
    <3>1. k \in 1..s
      BY <2>1
    <3> QED
      BY <3>1, <2>1, <1>3 DEF IsLE
  <2>2. CASE ~(k <= s)
    <3>1. k - s \in 1..t /\ s + (k - s) = k
      BY <2>2
    <3> QED
      BY <3>1, <2>2, <1>4 DEF IsLE
  <2> QED
    BY <2>1, <2>2
<1> QED
  BY <1>1, <1>6, <1>7 DEF IsLE


-----------------------------------------------------------------------------
(* Words and halves. *)

LEMMA WordIs ==
    /\ Word \in Nat \ {0} /\ 2 <= Word /\ Word % 2 = 0
    /\ P(WordBytes) = Word /\ WordBytes \in Nat \ {0}
<1>1. WordBytes \in Nat \ {0} /\ WordBytes - 1 \in Nat /\ (WordBytes - 1) + 1 = WordBytes
  BY WideAssumption
<1>2. PICK p \in Nat \ {0} : p = P(WordBytes - 1)
  BY <1>1, PIs
<1>3. PICK w : w = P(WordBytes)
  OBVIOUS
<1>4. w = Radix * p
  BY <1>1, <1>2, <1>3, PIs
<1>5. PICK h \in Nat \ {0} : Radix = 2 * h
  <2>1. PICK h \in Int : h = Radix \div 2
    BY RadixIs, Floor
  <2>2. Radix = 2 * h /\ h > 0
    BY <2>1, WideAssumption
  <2> QED
    BY <2>2
<1>6. PICK c \in Nat \ {0} : c = h * p
  OBVIOUS
<1>7. w = 2 * c
  <2>1. (2 * h) * p = 2 * (h * p)
    OBVIOUS
  <2> QED
    BY <1>4, <1>5, <1>6, <2>1
<1>8. w \in Nat \ {0} /\ 2 <= w /\ w % 2 = 0
  BY <1>7
<1> QED
  BY <1>1, <1>3, <1>8 DEF P, Word

\* A word is read from its bytes ...
LEMMA ReadsWord ==
    ASSUME NEW n \in Int, NEW buf, IsLE(buf, n, WordBytes)
    PROVE  readLE64(buf) = n % Word /\ readLE64(buf) \in Words
<1>1. PICK m \in Nat : m = WordBytes
  BY WordIs
<1>2. PICK u \in Nat \ {0} : u = Word /\ u = P(m)
  BY <1>1, WordIs
<1>3. PICK v \in Nat : v = n % u /\ v \in 0..u - 1
  <2>1. n % u \in 0..u - 1
    BY Floor
  <2>2. \A v \in 0..u - 1 : v \in Nat
    OBVIOUS
  <2> QED
    BY ONLY <2>1, <2>2
<1>4. IsLE(buf, v, m)
  BY <1>1, <1>2, <1>3, BytesOfRest
<1>5. PICK Q : Q = PowersUpTo(Radix, m)
  OBVIOUS
<1>6. Powers(Q, Radix, m) /\ \A k \in 0..m : Q[k] = Power(Radix, k)
  BY <1>5, RadixIs, PowersAre
<1>7. \A k \in 1..m : k - 1 \in 0..m /\ k \in Nat /\ k > 0 /\ v \in Int
  OBVIOUS
<1>8. \A k \in 1..m : buf[k] = (v \div Q[k - 1]) % Radix /\ buf[k] \in Nat /\ Q[k - 1] \in Nat
  <2>1. \A k \in 1..m : buf[k] = ByteOf(v, k) /\ buf[k] \in 0..Radix - 1
    BY <1>4, <1>7, ByteIs DEF IsLE
  <2>2. \A k \in 1..m : ByteOf(v, k) = (v \div Q[k - 1]) % Radix
    BY <1>6, <1>7 DEF ByteOf, P
  <2>3. \A k \in 0..m : Q[k] \in Nat
    BY <1>6 DEF Powers
  <2> QED
    BY <2>1, <2>2, <2>3, <1>7, RadixIs
<1> DEFINE F(f) == [k \in 0..m |-> IF k = 0 THEN 0 ELSE f[k - 1] + buf[k] * Power(Radix, k - 1)]
           G(f) == [k \in 0..m |-> IF k = 0 THEN 0 ELSE f[k - 1] + buf[k] * Q[k - 1]]
<1>9. \A f : F(f) = G(f)
  <2>1. \A k \in 0..m : k # 0 => k - 1 \in 0..m
    OBVIOUS
  <2> QED
    BY <2>1, <1>6
<1>10. PICK x : x = CHOOSE f : f = F(f)
  OBVIOUS
<1>11. readLE64(buf) = x[m]
  BY <1>1, <1>10 DEF readLE64
<1>12. Terms(buf, Q, m)
  BY <1>8 DEF Terms
<1>13. PICK y : SumsDefine(y, buf, Q, m)
  BY <1>12, SumsExist
<1>14. y = F(y)
  BY <1>9, <1>13 DEF SumsDefine
<1> HIDE DEF F
<1>15. SumsTo(x, buf, Q, m)
  <2>1. x = F(x)
    BY <1>10, <1>14
  <2>2. SumsDefine(x, buf, Q, m)
    BY <2>1, <1>9 DEF SumsDefine
  <2> QED
    BY <2>2, <1>12, SumsDefined
<1>16. x[m] = v % Q[m]
  <2>1. m \in 0..m
    OBVIOUS
  <2>2. \A k \in 1..m : buf[k] = (v \div Q[k - 1]) % Radix
    BY <1>8
  <2> QED
    BY ONLY <2>1, <2>2, <1>6, <1>15, RadixIs, v \in Nat, m \in Nat, SumsOfNumber
<1>17. Q[m] = u
  <2>1. m \in 0..m
    OBVIOUS
  <2> QED
    BY <2>1, <1>2, <1>6 DEF P
<1>18. v % u = v
  <2>1. v < u
    BY <1>3
  <2> QED
    BY <2>1, Modulo
<1> QED
  BY <1>2, <1>3, <1>11, <1>16, <1>17, <1>18 DEF Words

\* ... and written to them.
LEMMA PutsWord ==
    ASSUME NEW w
    PROVE  IsLE(PutLE64(w), w, WordBytes)
BY DEF PutLE64, IsLE, ByteOf, P

\* The numbers that two and four words stand for, without a sign.
Twice == Word * Word
Val128(v) == v.Lo + v.Hi * Word
Val256(v) == Val128(v.Lo) + Val128(v.Hi) * Twice

\* What two parts below b make.
LEMMA Parts ==
    ASSUME NEW b \in Nat \ {0}, NEW lo \in 0..b - 1, NEW hi \in 0..b - 1
    PROVE  lo + hi * b \in 0..b * b - 1 /\ (lo + hi * b) \div b = hi /\ (lo + hi * b) % b = lo
<1>1. hi * b \in Nat /\ hi * b <= (b - 1) * b
  <2>1. hi \in Nat /\ b - 1 \in Nat /\ hi <= b - 1
    OBVIOUS
  <2> QED
    BY <2>1, Products
<1>2. (b - 1) * b = b * b - b /\ b * b \in Nat
  OBVIOUS
<1>3. hi * b + lo = lo + hi * b /\ hi \in Int
  BY <1>1
<1>4. (hi * b + lo) \div b = hi /\ (hi * b + lo) % b = lo
  BY <1>3, FloorIs
<1>5. lo + hi * b \in 0..b * b - 1
  BY <1>1, <1>2
<1> QED
  BY <1>3, <1>4, <1>5

LEMMA Halves ==
    /\ Word \in Nat \ {0} /\ Twice \in Nat \ {0} /\ Twice * Twice \in Nat \ {0}
    /\ P(2 * WordBytes) = Twice /\ P(4 * WordBytes) = Twice * Twice
    /\ Power(Word, 2) = Twice /\ Power(Word, 4) = Twice * Twice
    /\ 2 * WordBytes \in Nat /\ 4 * WordBytes \in Nat
<1>1. PICK m \in Nat \ {0}, w \in Nat \ {0} : m = WordBytes /\ w = Word /\ P(m) = w
  BY WordIs
<1>2. w * w \in Nat \ {0}
  OBVIOUS
<1>3. PICK t \in Nat \ {0} : t = w * w
  BY <1>2
<1>4. t * t \in Nat \ {0}
  OBVIOUS
<1>5. P(2 * m) = t /\ P(4 * m) = t * t
  <2>1. P(m + m) = t
    BY <1>1, <1>3, PIs
  <2>2. m + m = 2 * m /\ 2 * m + 2 * m = 4 * m /\ 2 * m \in Nat
    OBVIOUS
  <2>3. P(2 * m + 2 * m) = P(2 * m) * P(2 * m)
    BY <2>2, PIs
  <2> QED
    BY <2>1, <2>2, <2>3
<1>6. Power(w, 2) = t /\ Power(w, 4) = t * t
  <2>1. Power(w, 0) = 1 /\ \A n \in Nat : Power(w, n + 1) = w * Power(w, n)
    BY PowerIs
  <2>2. Power(w, 0 + 1) = w * 1
    BY <2>1
  <2>3. Power(w, 1 + 1) = w * Power(w, 1)
    BY <2>1
  <2>4. Power(w, 2) = t
    BY <2>2, <2>3, <1>3
  <2>5. Power(w, 2 + 2) = Power(w, 2) * Power(w, 2)
    BY PowerSum
  <2> QED
    BY <2>4, <2>5
<1>7. 2 * m \in Nat /\ 4 * m \in Nat
  OBVIOUS
<1> QED
  BY <1>1, <1>3, <1>4, <1>5, <1>6, <1>7 DEF Twice

LEMMA ValIs ==
    /\ \A v \in Wide : Val128(v) \in 0..Twice - 1
    /\ \A v \in Wider : Val256(v) \in 0..Twice * Twice - 1
<1>1. ASSUME NEW v \in Wide PROVE Val128(v) \in 0..Twice - 1
  <2>1. v.Lo \in 0..Word - 1 /\ v.Hi \in 0..Word - 1
    BY DEF Wide, Words
  <2> QED
    BY <2>1, WordIs, Parts DEF Val128, Twice
<1>2. ASSUME NEW v \in Wider PROVE Val256(v) \in 0..Twice * Twice - 1
  <2>1. v.Lo \in Wide /\ v.Hi \in Wide
    BY DEF Wider
  <2>2. Val128(v.Lo) \in 0..Twice - 1 /\ Val128(v.Hi) \in 0..Twice - 1
    BY <2>1, <1>1
  <2> QED
    BY <2>2, Halves, Parts DEF Val256
<1> QED
  BY <1>1, <1>2


-----------------------------------------------------------------------------
(* To and from big.Int. *)

\* The bytes of the numbers of two and four words.
LEMMA Puts ==
    /\ \A v \in Wide : IsLE(putLE128(v), Val128(v), 2 * WordBytes)
    /\ \A v \in Wider : IsLE(PutLE256(v), Val256(v), 4 * WordBytes)
<1>1. PICK m \in Nat : m = WordBytes /\ P(m) = Word /\ 2 * m \in Nat
  BY WordIs
<1>2. m + m = 2 * m /\ 2 * m + 2 * m = 4 * m
  OBVIOUS
<1>3. ASSUME NEW v \in Wide PROVE IsLE(putLE128(v), Val128(v), 2 * m)
  <2>1. v.Lo \in Nat /\ v.Hi \in Int /\ v.Lo < P(m)
    BY <1>1, WordIs DEF Wide, Words
  <2>2. IsLE(PutLE64(v.Lo), v.Lo, m) /\ IsLE(PutLE64(v.Hi), v.Hi, m)
    BY <1>1, PutsWord
  <2>3. IsLE(PutLE64(v.Lo) \o PutLE64(v.Hi), v.Lo + v.Hi * P(m), m + m)
    BY <2>1, <2>2, Joined
  <2> QED
    BY <2>3, <1>1, <1>2 DEF putLE128, Val128
<1>4. ASSUME NEW v \in Wider PROVE IsLE(PutLE256(v), Val256(v), 4 * m)
  <2>1. v.Lo \in Wide /\ v.Hi \in Wide /\ P(2 * m) = Twice
    BY <1>1, Halves DEF Wider
  <2>2. PICK x \in Nat, y \in Nat : x = Val128(v.Lo) /\ y = Val128(v.Hi) /\ x < P(2 * m)
    BY <2>1, ValIs, Halves
  <2>3. IsLE(putLE128(v.Lo), x, 2 * m) /\ IsLE(putLE128(v.Hi), y, 2 * m)
    BY <2>1, <2>2, <1>3
  <2>4. IsLE(putLE128(v.Lo) \o putLE128(v.Hi), x + y * P(2 * m), 2 * m + 2 * m)
    BY <1>1, <2>2, <2>3, Joined
  <2> QED
    BY <2>1, <2>2, <2>4, <1>2 DEF PutLE256, Val256
<1> QED
  BY <1>1, <1>3, <1>4

\* The numbers that are read.
LEMMA Reads128 ==
    ASSUME NEW n \in Int, NEW buf, IsLE(buf, n, 2 * WordBytes)
    PROVE  ReadLE128(buf) \in Wide /\ Val128(ReadLE128(buf)) = n % Twice
<1>1. PICK m \in Nat, w \in Nat \ {0} : m = WordBytes /\ w = Word /\ P(m) = w /\ 2 * m \in Nat
  BY WordIs
<1>2. 0 + m = m /\ 0 + m <= 2 * m /\ m + m = 2 * m /\ m + m <= 2 * m /\ 0 + 1 = 1
  OBVIOUS
<1>3. IsLE(SubSeq(buf, 1, m), n \div P(0), m) /\ n \div P(0) = n
  <2>1. IsLE(SubSeq(buf, 0 + 1, 0 + m), n \div P(0), m)
    BY ONLY <1>1, <1>2, Pieces, n \in Int, IsLE(buf, n, 2 * WordBytes), 0 \in Nat
  <2> QED
    BY <2>1, <1>2, PIs, FloorOfOne
<1>4. IsLE(SubSeq(buf, m + 1, 2 * m), n \div P(m), m)
  <2>1. IsLE(SubSeq(buf, m + 1, m + m), n \div P(m), m)
    BY ONLY <1>1, <1>2, Pieces, n \in Int, IsLE(buf, n, 2 * WordBytes)
  <2> QED
    BY <2>1, <1>2
<1>5. PICK q \in Int : q = n \div w
  BY Floor
<1>6. PICK lo, hi : lo = readLE64(SubSeq(buf, 1, m)) /\ hi = readLE64(SubSeq(buf, m + 1, 2 * m))
  OBVIOUS
<1>7. lo = n % w /\ lo \in Words
  BY <1>1, <1>3, <1>6, ReadsWord
<1>8. hi = q % w /\ hi \in Words
  BY <1>1, <1>4, <1>5, <1>6, ReadsWord
<1>9. ReadLE128(buf) = [Lo |-> lo, Hi |-> hi]
  BY <1>1, <1>6 DEF ReadLE128
<1>10. ReadLE128(buf) \in Wide
  BY <1>7, <1>8, <1>9 DEF Wide
<1>11. Val128(ReadLE128(buf)) = lo + hi * w
  BY <1>9, <1>1 DEF Val128
<1>12. (n % w) + (q % w) * w = n % (w * w)
  BY <1>5, FloorParts
<1> QED
  BY <1>1, <1>7, <1>8, <1>10, <1>11, <1>12 DEF Twice

LEMMA Reads256 ==
    ASSUME NEW n \in Int, NEW buf, IsLE(buf, n, 4 * WordBytes)
    PROVE  ReadLE256(buf) \in Wider /\ Val256(ReadLE256(buf)) = n % (Twice * Twice)
<1>1. PICK m \in Nat, w \in Nat \ {0} : m = 2 * WordBytes /\ w = Twice /\ P(m) = w /\ 4 * WordBytes = 2 * m /\ 2 * m \in Nat
  BY Halves, WordIs
<1>2. 0 + m = m /\ 0 + m <= 2 * m /\ m + m = 2 * m /\ m + m <= 2 * m /\ 0 + 1 = 1
  OBVIOUS
<1>3. IsLE(SubSeq(buf, 1, m), n \div P(0), m) /\ n \div P(0) = n
  <2>1. IsLE(SubSeq(buf, 0 + 1, 0 + m), n \div P(0), m)
    BY ONLY <1>1, <1>2, Pieces, n \in Int, IsLE(buf, n, 4 * WordBytes), 0 \in Nat
  <2> QED
    BY <2>1, <1>2, PIs, FloorOfOne
<1>4. IsLE(SubSeq(buf, m + 1, 2 * m), n \div P(m), m)
  <2>1. IsLE(SubSeq(buf, m + 1, m + m), n \div P(m), m)
    BY ONLY <1>1, <1>2, Pieces, n \in Int, IsLE(buf, n, 4 * WordBytes)
  <2> QED
    BY <2>1, <1>2
<1>5. PICK q \in Int : q = n \div w
  BY Floor
<1>6. PICK lo, hi : lo = ReadLE128(SubSeq(buf, 1, m)) /\ hi = ReadLE128(SubSeq(buf, m + 1, 2 * m))
  OBVIOUS
<1>7. lo \in Wide /\ Val128(lo) = n % w
  BY <1>1, <1>3, <1>6, Reads128
<1>8. hi \in Wide /\ Val128(hi) = q % w
  BY <1>1, <1>4, <1>5, <1>6, Reads128
<1>9. ReadLE256(buf) = [Lo |-> lo, Hi |-> hi]
  BY <1>1, <1>6 DEF ReadLE256
<1>10. ReadLE256(buf) \in Wider
  BY <1>7, <1>8, <1>9 DEF Wider
<1>11. Val256(ReadLE256(buf)) = (n % w) + (q % w) * w
  BY <1>9, <1>1, <1>7, <1>8 DEF Val256
<1>12. (n % w) + (q % w) * w = n % (w * w)
  BY <1>5, FloorParts
<1> QED
  BY <1>1, <1>10, <1>11, <1>12


\* big.Int.SetBytes undoes the bytes.
LEMMA SetReverse ==
    ASSUME NEW n \in Nat, NEW s \in Nat, n < P(s), NEW buf, IsLE(buf, n, s)
    PROVE  SetBytes(Reverse(buf)) = n
<1>1. PICK be : be = Reverse(buf)
  OBVIOUS
<1>2. Len(buf) = s /\ \A k \in 1..s : buf[k] = ByteOf(n, k)
  BY DEF IsLE
<1>3. be = [k \in 1..s |-> buf[(s - k) + 1]]
  BY <1>1, <1>2 DEF Reverse
<1>4. Len(be) = s
  BY <1>3
<1>5. \A k \in 1..s : /\ (s - k) + 1 \in 1..s /\ s - k \in Nat /\ (s - k) + 1 - 1 = s - k
                      /\ s - (k - 1) = (s - k) + 1 /\ k - 1 \in 0..s /\ k \in 0..s
  OBVIOUS
<1>6. \A k \in 1..s : be[k] = (n \div P(s - k)) % Radix
  <2>1. \A k \in 1..s : be[k] = ByteOf(n, (s - k) + 1)
    BY <1>2, <1>3, <1>5
  <2> QED
    BY <2>1, <1>5 DEF ByteOf
<1> DEFINE F(f) == [k \in 0..s |-> IF k = 0 THEN 0 ELSE f[k - 1] * Radix + be[k]]
<1>7. PICK g : g = [k \in 0..s |-> n \div P(s - k)]
  OBVIOUS
<1>8. g[0] = 0 /\ \A k \in 0..s : g[k] = n \div P(s - k)
  <2>1. s - 0 = s /\ 0 \in 0..s
    OBVIOUS
  <2>2. PICK u \in Nat \ {0} : u = P(s)
    BY PIs
  <2>3. n \div u = 0
    BY <2>2, Quotient
  <2> QED
    BY <2>1, <2>2, <2>3, <1>7
<1>9. \A k \in 1..s : g[k] = g[k - 1] * Radix + be[k]
  <2>1. ASSUME NEW k \in 1..s PROVE g[k] = g[k - 1] * Radix + be[k]
    <3>1. PICK u \in Nat \ {0}, R \in Nat \ {0} : u = P(s - k) /\ R = Radix
      BY <1>5, PIs, RadixIs
    <3>2. P(s - (k - 1)) = R * u
      BY <1>5, <3>1, PIs
    <3>3. PICK q \in Nat : q = n \div u
      BY Quotient
    <3>4. n \div (R * u) = q \div R
      <4>1. R * u = u * R
        OBVIOUS
      <4> QED
        BY <4>1, <3>3, FloorTwice
    <3>5. q = (q \div R) * R + (q % R)
      BY Floor
    <3>6. g[k] = q /\ g[k - 1] = q \div R /\ be[k] = q % R
      BY <1>5, <1>6, <1>8, <3>1, <3>2, <3>3, <3>4
    <3> QED
      BY <3>1, <3>5, <3>6
  <2> QED
    BY <2>1
<1>10. g = F(g)
  <2>1. \A k \in 0..s : k = 0 \/ k \in 1..s
    OBVIOUS
  <2>2. \A k \in 0..s : g[k] = IF k = 0 THEN 0 ELSE g[k - 1] * Radix + be[k]
    BY <2>1, <1>8, <1>9
  <2> QED
    BY <2>2, <1>7
<1>11. PICK x : x = CHOOSE f : f = F(f)
  OBVIOUS
<1>12. SetBytes(be) = x[s]
  BY <1>4, <1>11 DEF SetBytes
<1> HIDE DEF F
<1>13. x = F(x)
  BY <1>10, <1>11
<1>14. \A k \in 0..s : x[k] = IF k = 0 THEN 0 ELSE x[k - 1] * Radix + be[k]
  BY <1>13 DEF F
<1>15. \A k \in 0..s : x[k] = g[k]
  <2> DEFINE Off == {k \in 0..s : x[k] # g[k]}
  <2>1. SUFFICES ASSUME Off # {} PROVE FALSE
    OBVIOUS
  <2>2. Off \in SUBSET Nat
    OBVIOUS
  <2> HIDE DEF Off
  <2>3. PICK k \in Off : \A y \in Off : k <= y
    BY <2>1, <2>2, Least
  <2>4. k \in 0..s /\ x[k] # g[k]
    BY <2>3 DEF Off
  <2>5. k # 0
    BY <2>4, <1>8, <1>14
  <2>6. k \in 1..s /\ k - 1 \in 0..s /\ ~(k <= k - 1)
    BY <2>4, <2>5
  <2>7. x[k - 1] = g[k - 1]
    BY <2>3, <2>6 DEF Off
  <2>8. x[k] = x[k - 1] * Radix + be[k]
    BY <2>4, <2>5, <1>14
  <2> QED
    BY <2>4, <2>6, <2>7, <2>8, <1>9
<1>16. g[s] = n
  <2>1. s - s = 0 /\ s \in 0..s /\ n \in Int
    OBVIOUS
  <2>2. n \div 1 = n
    BY <2>1, FloorOfOne
  <2> QED
    BY <2>1, <2>2, <1>8, PIs
<1>17. s \in 0..s
  OBVIOUS
<1> QED
  BY <1>1, <1>12, <1>15, <1>16, <1>17

\* A number is smaller than the power of it.
LEMMA PowerExceeds == \A k \in Nat : k < P(k)
<1> DEFINE Off == {k \in Nat : ~(k < P(k))}
<1>1. SUFFICES ASSUME Off # {} PROVE FALSE
  OBVIOUS
<1>2. Off \in SUBSET Nat
  OBVIOUS
<1> HIDE DEF Off
<1>3. PICK k \in Off : \A y \in Off : k <= y
  BY <1>1, <1>2, Least
<1>4. k \in Nat /\ ~(k < P(k))
  BY <1>3 DEF Off
<1>5. k # 0
  BY <1>4, PIs
<1>6. k - 1 \in Nat /\ (k - 1) + 1 = k /\ ~(k <= k - 1)
  BY <1>4, <1>5
<1>7. k - 1 < P(k - 1)
  BY <1>3, <1>6 DEF Off
<1>8. PICK p \in Nat \ {0} : p = P(k - 1)
  BY <1>6, PIs
<1>9. P(k) = Radix * p
  BY <1>6, <1>8, PIs
<1>10. 2 * p <= Radix * p /\ Radix * p \in Nat
  BY RadixIs, Products
<1> QED
  BY <1>4, <1>7, <1>8, <1>9, <1>10

\* big.Int.Bytes writes as few bytes as it can.
LEMMA ByteLenIs ==
    ASSUME NEW a \in Nat
    PROVE  /\ ByteLen(a) \in Nat /\ a < P(ByteLen(a))
           /\ \A s \in Nat : ByteLen(a) <= s <=> a < P(s)
<1> DEFINE Ends(k) == P(k) > a /\ (k = 0 \/ P(k - 1) <= a)
<1>1. \E k \in 0..a : Ends(k)
  <2> DEFINE Above == {k \in Nat : P(k) > a}
  <2>1. Above \in SUBSET Nat
    OBVIOUS
  <2>2. a \in Above
    <3>1. PICK p \in Nat : p = P(a) /\ a < p
      BY PIs, PowerExceeds
    <3> QED
      BY <3>1
  <2> HIDE DEF Above
  <2>3. PICK k \in Above : \A y \in Above : k <= y
    BY <2>1, <2>2, Least
  <2>4. k \in Nat /\ P(k) > a /\ k <= a
    BY <2>2, <2>3 DEF Above
  <2>5. ASSUME k # 0 PROVE P(k - 1) <= a
    <3>1. k - 1 \in Nat /\ ~(k <= k - 1)
      BY <2>4, <2>5
    <3>2. ~(P(k - 1) > a)
      BY <2>3, <3>1 DEF Above
    <3>3. P(k - 1) \in Nat
      BY <3>1, PIs
    <3> QED
      BY <3>2, <3>3
  <2>6. k \in 0..a
    BY <2>4
  <2> QED
    BY <2>4, <2>5, <2>6
<1>2. PICK l : l = ByteLen(a)
  OBVIOUS
<1>3. l \in 0..a /\ Ends(l)
  <2>1. l = CHOOSE k \in 0..a : Ends(k)
    BY <1>2 DEF ByteLen, P
  <2> HIDE DEF Ends
  <2> QED
    BY <2>1, <1>1
<1>4. l \in Nat /\ a < P(l)
  BY <1>3, PIs
<1>5. ASSUME NEW s \in Nat PROVE l <= s <=> a < P(s)
  <2>1. PICK p \in Nat, q \in Nat : p = P(l) /\ q = P(s)
    BY <1>4, PIs
  <2>2. ASSUME l <= s PROVE a < P(s)
    <3>1. P(l) <= P(s)
      BY <1>4, <2>2, RadixIs, PowerGrows DEF P
    <3> QED
      BY <3>1, <2>1, <1>4
  <2>3. ASSUME ~(l <= s) PROVE ~(a < P(s))
    <3>1. l - 1 \in Nat /\ s <= l - 1 /\ l # 0
      BY <2>3, <1>4
    <3>2. P(s) <= P(l - 1)
      BY <3>1, RadixIs, PowerGrows DEF P
    <3>3. P(l - 1) <= a
      BY <3>1, <1>3
    <3>4. P(l - 1) \in Nat
      BY <3>1, PIs
    <3> QED
      BY <3>2, <3>3, <3>4, <2>1
  <2> QED
    BY <2>2, <2>3
<1> QED
  BY <1>2, <1>4, <1>5

\* The magnitude in as many bytes as the type has.
LEMMA MagnitudeIs ==
    ASSUME NEW n \in Int, NEW s \in Nat, ByteLen(Abs(n)) <= s
    PROVE  IsLE(Magnitude(n, s), Abs(n), s)
<1>1. PICK a \in Nat : a = Abs(n)
  BY DEF Abs
<1>2. PICK l \in Nat : l = ByteLen(a) /\ a < P(l) /\ l <= s
  BY <1>1, ByteLenIs
<1>3. PICK e \in Nat : e = s - l /\ e + l = s
  BY <1>2
<1>4. PICK b : b = BigBytes(a)
  OBVIOUS
<1>5. b = [i \in 1..l |-> (a \div P(l - i)) % Radix]
  BY <1>2, <1>4 DEF BigBytes, P
<1>6. b \in Seq(Int) /\ Len(b) = l /\ \A i \in 1..l : b[i] = (a \div P(l - i)) % Radix
  <2>1. ASSUME NEW i \in 1..l PROVE (a \div P(l - i)) % Radix \in Int
    <3>1. PICK u \in Nat \ {0} : u = P(l - i)
      <4>1. l - i \in Nat
        OBVIOUS
      <4> QED
        BY <4>1, PIs
    <3>2. PICK q \in Nat : q = a \div u
      BY Quotient
    <3>3. q % Radix \in 0..Radix - 1
      BY RadixIs, Floor
    <3> QED
      BY <3>1, <3>2, <3>3, RadixIs
  <2>2. b \in [1..l -> Int]
    BY <2>1, <1>5
  <2>3. b \in Seq(Int) /\ Len(b) = l
    BY ONLY <2>2, l \in Nat
  <2> QED
    BY <2>3, <1>5
<1>7. PICK z : z = [i \in 1..e |-> 0]
  OBVIOUS
<1>8. z \in Seq(Int) /\ Len(z) = e /\ \A i \in 1..e : z[i] = 0
  BY ONLY <1>7, e \in Nat
<1>9. PICK c : c = z \o b
  OBVIOUS
<1>10. c \in Seq(Int) /\ Len(c) = s /\ \A i \in 1..s : c[i] = IF i <= e THEN z[i] ELSE b[i - e]
  <2>1. b \in Seq(Int) /\ z \in Seq(Int) /\ Len(b) = l /\ Len(z) = e
    BY <1>6, <1>8
  <2>2. c \in Seq(Int) /\ Len(c) = e + l
        /\ \A i \in 1..e + l : c[i] = IF i <= e THEN z[i] ELSE b[i - e]
    BY ONLY <2>1, <1>9, ConcatProperties
  <2> QED
    BY ONLY <2>2, <1>3
<1>11. Magnitude(n, s) = Reverse(c)
  BY <1>1, <1>3, <1>4, <1>6, <1>7, <1>9 DEF Magnitude
<1>12. Reverse(c) = [i \in 1..s |-> c[(s - i) + 1]]
  BY <1>10 DEF Reverse
<1>13. ASSUME NEW i \in 1..s PROVE c[(s - i) + 1] = ByteOf(a, i)
  <2>1. (s - i) + 1 \in 1..s /\ i - 1 \in Nat /\ i \in Nat
    OBVIOUS
  <2>2. CASE (s - i) + 1 <= e
    <3>1. l <= i - 1 /\ (s - i) + 1 \in 1..e
      BY <2>2, <1>3
    <3>2. a < P(i - 1)
      BY <3>1, <2>1, <1>2, ByteLenIs
    <3>3. PICK u \in Nat \ {0} : u = P(i - 1)
      BY <2>1, PIs
    <3>4. a \div u = 0 /\ 0 % Radix = 0
      <4>1. a \div u = 0
        BY <3>2, <3>3, Quotient
      <4>2. 0 < Radix /\ 0 \in Nat
        BY RadixIs
      <4> QED
        BY <4>1, <4>2, RadixIs, Modulo
    <3>5. ByteOf(a, i) = 0
      BY <3>3, <3>4 DEF ByteOf
    <3> QED
      BY <3>1, <3>5, <2>1, <2>2, <1>8, <1>10
  <2>3. CASE ~((s - i) + 1 <= e)
    <3>1. PICK j \in 1..l : j = (s - i) + 1 - e /\ l - j = i - 1
      BY <2>1, <2>3, <1>3
    <3>2. c[(s - i) + 1] = b[j]
      BY <2>1, <2>3, <3>1, <1>10
    <3> QED
      BY <3>1, <3>2, <1>6 DEF ByteOf
  <2> QED
    BY <2>2, <2>3
<1> QED
  BY <1>1, <1>11, <1>12, <1>13 DEF IsLE


-----------------------------------------------------------------------------
(* Two's complement, on two parts below b: of words and of halves. *)

\* The complement of a number below b.
Neg(x, b) == IF x = 0 THEN 0 ELSE b - x

LEMMA NegParts ==
    ASSUME NEW b \in Nat \ {0}, NEW lo \in 0..b - 1, NEW hi \in 0..b - 1,
           NEW h, h = IF lo = 0 THEN Neg(hi, b) ELSE b - 1 - hi
    PROVE  /\ Neg(lo, b) \in 0..b - 1 /\ h \in 0..b - 1
           /\ Neg(lo, b) + h * b = Neg(lo + hi * b, b * b)
<1>1. PICK c \in Nat, t \in Nat : c = hi * b /\ t = b * b
  <2>1. hi * b \in Nat /\ b * b \in Nat
    OBVIOUS
  <2> QED
    BY <2>1
<1>2. /\ (b - hi) * b = t - c
      /\ (b - 1 - hi) * b = t - b - c
      /\ 0 * b = 0
  BY <1>1
<1>3. c = 0 <=> hi = 0
  <2>1. ASSUME hi # 0 PROVE hi * b > 0
    BY <2>1
  <2> QED
    BY <2>1, <1>1, <1>2
<1>4. CASE lo = 0
  <2>1. CASE hi = 0
    BY <1>1, <1>2, <1>4, <2>1 DEF Neg
  <2>2. CASE hi # 0
    <3>1. h = b - hi /\ h * b = t - c /\ Neg(lo, b) = 0 /\ h \in 0..b - 1
      BY <1>2, <1>4, <2>2 DEF Neg
    <3>2. lo + hi * b = c /\ c # 0
      BY <1>1, <1>3, <1>4, <2>2
    <3>3. Neg(c, t) = t - c
      BY <3>2 DEF Neg
    <3>4. 0 + (t - c) = t - c /\ 0 \in 0..b - 1
      BY <1>1
    <3> QED
      BY <1>1, <3>1, <3>2, <3>3, <3>4
  <2> QED
    BY <2>1, <2>2
<1>5. CASE lo # 0
  <2>1. h = b - 1 - hi /\ h * b = t - b - c /\ Neg(lo, b) = b - lo /\ h \in 0..b - 1
    BY <1>2, <1>5 DEF Neg
  <2>2. lo + c # 0
    BY <1>5, <1>1
  <2>3. Neg(lo + c, t) = t - (lo + c)
    BY <2>2 DEF Neg
  <2>4. (b - lo) + (t - b - c) = t - (lo + c) /\ b - lo \in 0..b - 1
    BY <1>1, <1>5
  <2> QED
    BY <1>1, <2>1, <2>3, <2>4
<1> QED
  BY <1>4, <1>5

LEMMA TopParts ==
    ASSUME NEW b \in Nat \ {0}, b % 2 = 0, NEW lo \in 0..b - 1, NEW hi \in 0..b - 1
    PROVE  /\ hi >= b \div 2 <=> lo + hi * b >= (b * b) \div 2
           /\ (b * b) % 2 = 0
<1>1. PICK h \in Nat : b = 2 * h /\ h = b \div 2
  <2>1. PICK h \in Nat : h = b \div 2
    OBVIOUS
  <2>2. b = h * 2 + (b % 2)
    BY <2>1
  <2> QED
    BY <2>1, <2>2
<1>2. PICK t \in Nat : t = h * b
  OBVIOUS
<1>3. b * b = 2 * t
  BY <1>1, <1>2
<1>4. (b * b) \div 2 = t /\ (b * b) % 2 = 0
  BY <1>3
<1>5. PICK c \in Nat : c = hi * b
  OBVIOUS
<1>6. CASE hi >= h
  <2>1. h * b <= hi * b
    BY <1>6, Products
  <2> QED
    BY <2>1, <1>1, <1>2, <1>4, <1>5, <1>6
<1>7. CASE ~(hi >= h)
  <2>1. hi + 1 <= h /\ hi + 1 \in Nat
    BY <1>7
  <2>2. (hi + 1) * b <= h * b
    BY <2>1, Products
  <2>3. (hi + 1) * b = c + b
    BY <1>5
  <2>4. ~(lo + c >= t)
    BY <2>2, <2>3, <1>2
  <2> QED
    BY <2>4, <1>1, <1>4, <1>5, <1>7
<1> QED
  BY <1>6, <1>7

Made(n, lo, hi, b) == lo \in 0..b - 1 /\ hi \in 0..b - 1 /\ n = lo + hi * b

\* The higher parts decide.
LEMMA OrderOfParts ==
    ASSUME NEW b \in Nat \ {0}, NEW n, NEW lo, NEW hi, Made(n, lo, hi, b),
           NEW m, NEW l, NEW h, Made(m, l, h, b)
    PROVE  Sign(n - m) = IF hi # h THEN Sign(hi - h) ELSE Sign(lo - l)
<1>0. /\ lo \in 0..b - 1 /\ hi \in 0..b - 1 /\ l \in 0..b - 1 /\ h \in 0..b - 1
      /\ n = lo + hi * b /\ m = l + h * b
  BY DEF Made
<1>1. PICK c \in Nat, d \in Nat : c = hi * b /\ d = h * b
  <2>1. hi * b \in Nat /\ h * b \in Nat
    BY <1>0
  <2> QED
    BY <2>1
<1>2. CASE hi = h
  <2>1. (lo + c) - (l + c) = lo - l
    BY <1>0, <1>1
  <2> QED
    BY <2>1, <1>0, <1>1, <1>2
<1>3. CASE hi < h
  <2>1. (hi + 1) * b <= h * b
    BY <1>0, <1>3, Products
  <2>2. (hi + 1) * b = c + b
    BY <1>0, <1>1
  <2>3. (lo + c) - (l + d) < 0 /\ hi - h < 0
    BY <2>1, <2>2, <1>0, <1>1, <1>3
  <2> QED
    BY <2>3, <1>0, <1>1, <1>3 DEF Sign
<1>4. CASE hi > h
  <2>1. (h + 1) * b <= hi * b
    BY <1>0, <1>4, Products
  <2>2. (h + 1) * b = d + b
    BY <1>0, <1>1
  <2>3. (lo + c) - (l + d) > 0 /\ hi - h > 0
    BY <2>1, <2>2, <1>0, <1>1, <1>4
  <2> QED
    BY <2>3, <1>0, <1>1, <1>4 DEF Sign
<1>5. hi = h \/ hi < h \/ hi > h
  BY <1>0
<1> QED
  BY <1>2, <1>3, <1>4, <1>5

\* A number n as u, out of all numbers below 2 * h.
LEMMA Complement ==
    ASSUME NEW h \in Nat \ {0}, NEW n \in Int, Abs(n) < 2 * h,
           NEW u, u = IF n < 0 THEN Neg(Abs(n), 2 * h) ELSE Abs(n)
    PROVE  /\ u \in 0..2 * h - 1
           /\ ((u >= h) # (n < 0)) <=> n \notin -h..h - 1
           /\ n \in -h..h - 1 => (IF u >= h THEN u - 2 * h ELSE u) = n
BY DEF Neg, Abs

LEMMA ComplementOfRest ==
    ASSUME NEW h \in Nat \ {0}, NEW n \in -h..h - 1
    PROVE  LET u == n % (2 * h) IN (IF u >= h THEN u - 2 * h ELSE u) = n
<1>1. CASE n >= 0
  <2>1. n % (2 * h) = n
    BY <1>1, Modulo
  <2> QED
    BY <2>1, <1>1
<1>2. CASE n < 0
  <2>1. n = (-1) * (2 * h) + (n + 2 * h) /\ n + 2 * h \in 0..2 * h - 1 /\ 2 * h \in Nat \ {0} /\ -1 \in Int
    BY <1>2
  <2>2. n % (2 * h) = n + 2 * h
    BY <2>1, FloorIs
  <2> QED
    BY <2>2, <1>2
<1> QED
  BY <1>1, <1>2

\* The complement of a word is its bits turned over, and one more.
LEMMA NegWord ==
    ASSUME NEW w \in Words
    PROVE  Inc(Not(w)) = Neg(w, Word) /\ Not(w) = Word - 1 - w /\ Not(w) \in Words
<1>1. Word \in Nat \ {0} /\ w \in 0..Word - 1
  BY WordIs DEF Words
<1>2. PICK b \in Nat \ {0} : b = Word
  BY <1>1
<1>3. (b - 1 - w) + 1 = b - w /\ b - 1 - w \in 0..b - 1
  BY <1>1, <1>2
<1>4. CASE w = 0
  <2>1. b = 1 * b + 0 /\ 0 \in 0..b - 1 /\ 1 \in Int
    OBVIOUS
  <2>2. b % b = 0
    BY <2>1, FloorIs
  <2> QED
    BY <2>2, <1>2, <1>3, <1>4 DEF Inc, Not, Neg, Words
<1>5. CASE w # 0
  <2>1. b - w \in Nat /\ b - w < b
    BY <1>1, <1>2, <1>5
  <2>2. (b - w) % b = b - w
    BY <2>1, Modulo
  <2> QED
    BY <2>2, <1>2, <1>3, <1>5 DEF Inc, Not, Neg, Words
<1> QED
  BY <1>4, <1>5

LEMMA Negates128 ==
    ASSUME NEW v \in Wide
    PROVE  neg128(v) \in Wide /\ Val128(neg128(v)) = Neg(Val128(v), Twice)
<1>1. v.Lo \in Words /\ v.Hi \in Words
  BY DEF Wide
<1>0. PICK b \in Nat \ {0} : b = Word
  BY WordIs
<1>2. PICK lo \in 0..b - 1, hi \in 0..b - 1 : b = Word /\ lo = v.Lo /\ hi = v.Hi
  BY <1>0, <1>1 DEF Words
<1>3. PICK h : h = IF lo = 0 THEN Neg(hi, b) ELSE b - 1 - hi
  OBVIOUS
<1>4. /\ Neg(lo, b) \in 0..b - 1 /\ h \in 0..b - 1
      /\ Neg(lo, b) + h * b = Neg(lo + hi * b, b * b)
  BY ONLY b \in Nat \ {0}, lo \in 0..b - 1, hi \in 0..b - 1, <1>3, NegParts
<1>5. Neg(lo, b) = 0 <=> lo = 0
  BY DEF Neg
<1>6. neg128(v) = [Lo |-> Neg(lo, b), Hi |-> h]
  BY <1>1, <1>2, <1>3, <1>5, NegWord DEF neg128
<1> QED
  BY <1>2, <1>4, <1>6 DEF Wide, Words, Val128, Twice

LEMMA Negates256 ==
    ASSUME NEW v \in Wider
    PROVE  neg256(v) \in Wider /\ Val256(neg256(v)) = Neg(Val256(v), Twice * Twice)
<1>1. v.Lo \in Wide /\ v.Hi \in Wide
  BY DEF Wider
<1>2. v.Lo.Lo \in Words /\ v.Lo.Hi \in Words /\ v.Hi.Lo \in Words /\ v.Hi.Hi \in Words
  BY <1>1 DEF Wide
<1>0. PICK b \in Nat \ {0} : b = Twice
  BY Halves
<1>3. PICK lo \in 0..b - 1, hi \in 0..b - 1 : b = Twice /\ lo = Val128(v.Lo) /\ hi = Val128(v.Hi)
  BY <1>0, <1>1, ValIs
<1>4. PICK l \in Wide : l = neg128(v.Lo) /\ Val128(l) = Neg(lo, b)
  BY <1>1, <1>3, Negates128
<1>5. PICK n \in Wide : n = [Lo |-> Not(v.Hi.Lo), Hi |-> Not(v.Hi.Hi)]
  BY <1>2, NegWord DEF Wide
<1>6. Val128(n) = b - 1 - hi
  <2>1. PICK w \in Nat, x \in Nat, y \in Nat : w = Word /\ x = v.Hi.Lo /\ y = v.Hi.Hi
    BY <1>2, WordIs DEF Words
  <2>2. n.Lo = w - 1 - x /\ n.Hi = w - 1 - y
    BY <1>2, <1>5, <2>1, NegWord
  <2>3. PICK p \in Nat, q \in Nat : p = w * w /\ q = y * w
    OBVIOUS
  <2>4. (w - 1 - y) * w = p - w - q
    BY <2>3
  <2>5. (w - 1 - x) + (p - w - q) = p - 1 - (x + q)
    OBVIOUS
  <2> QED
    BY <1>3, <2>1, <2>2, <2>3, <2>4, <2>5 DEF Val128, Twice
<1>7. PICK m \in Wide : m = IF lo = 0 THEN neg128(v.Hi) ELSE n
  BY <1>1, <1>5, Negates128
<1>8. Val128(m) = IF lo = 0 THEN Neg(hi, b) ELSE b - 1 - hi
  BY <1>1, <1>3, <1>6, <1>7, Negates128
<1>9. /\ Neg(lo, b) \in 0..b - 1 /\ Val128(m) \in 0..b - 1
      /\ Neg(lo, b) + Val128(m) * b = Neg(lo + hi * b, b * b)
  BY ONLY b \in Nat \ {0}, lo \in 0..b - 1, hi \in 0..b - 1, <1>8, NegParts
<1>10. lo = 0 <=> l.Lo = 0 /\ l.Hi = 0
  <2>1. PICK w \in Nat \ {0}, x \in Nat, y \in Nat : w = Word /\ x = l.Lo /\ y = l.Hi
    BY <1>4, WordIs DEF Wide, Words
  <2>2. x + y * w = Neg(lo, b)
    BY <2>1, <1>4 DEF Val128
  <2>3. Neg(lo, b) = 0 <=> lo = 0
    BY DEF Neg
  <2>4. y # 0 => y * w > 0
    OBVIOUS
  <2>5. y * w \in Nat /\ 0 * w = 0
    OBVIOUS
  <2> QED
    BY <2>1, <2>2, <2>3, <2>4, <2>5
<1>11. neg256(v) = [Lo |-> l, Hi |-> m]
  <2>1. l = [Lo |-> Inc(Not(v.Lo.Lo)),
             Hi |-> IF Inc(Not(v.Lo.Lo)) = 0 THEN Inc(Not(v.Lo.Hi)) ELSE Not(v.Lo.Hi)]
    BY <1>4 DEF neg128
  <2>2. neg128(v.Hi) = [Lo |-> Inc(Not(v.Hi.Lo)),
             Hi |-> IF Inc(Not(v.Hi.Lo)) = 0 THEN Inc(Not(v.Hi.Hi)) ELSE Not(v.Hi.Hi)]
    BY DEF neg128
  <2>3. CASE lo = 0
    BY ONLY <2>1, <2>2, <2>3, <1>7, <1>10 DEF neg256
  <2>4. CASE lo # 0
    BY ONLY <2>1, <2>4, <1>5, <1>7, <1>10 DEF neg256
  <2> QED
    BY <2>3, <2>4
<1> QED
  BY <1>3, <1>4, <1>9, <1>11 DEF Wider, Val256

\* Half of the numbers of 128 and of 256 bits.
Half128 == Twice \div 2
Half256 == (Twice * Twice) \div 2

\* The top bit of the top word tells the upper half.
LEMMA TopBits ==
    /\ Half128 \in Nat \ {0} /\ Twice = 2 * Half128
    /\ Half256 \in Nat \ {0} /\ Twice * Twice = 2 * Half256
    /\ \A v \in Wide : TopBit(v.Hi) <=> Val128(v) >= Half128
    /\ \A v \in Wider : TopBit(v.Hi.Hi) <=> Val256(v) >= Half256
<1>1. PICK b \in Nat \ {0} : b = Word /\ b % 2 = 0 /\ 2 <= b
  BY WordIs
<1>2. 0 \in 0..b - 1
  BY <1>1
<1>3. (b * b) % 2 = 0
  BY <1>1, <1>2, TopParts
<1>4. PICK t \in Nat \ {0} : t = Twice /\ t % 2 = 0
  BY <1>1, <1>3, Halves DEF Twice
<1>5. 0 \in 0..t - 1
  BY <1>4
<1>6. (t * t) % 2 = 0
  BY <1>4, <1>5, TopParts
<1>7. PICK f \in Nat \ {0} : f = t * t
  BY <1>4, Halves
<1>8. ASSUME NEW n \in Nat \ {0}, n % 2 = 0 PROVE n \div 2 \in Nat \ {0} /\ n = 2 * (n \div 2)
  <2>1. PICK q \in Int : q = n \div 2
    BY Floor
  <2>2. n = q * 2 + (n % 2)
    BY <2>1, Floor
  <2> QED
    BY <2>1, <2>2, <1>8
<1>9. ASSUME NEW v \in Wide PROVE TopBit(v.Hi) <=> Val128(v) >= Half128
  <2>1. PICK lo \in 0..b - 1, hi \in 0..b - 1 : lo = v.Lo /\ hi = v.Hi
    BY <1>1 DEF Wide, Words
  <2>2. hi >= b \div 2 <=> lo + hi * b >= (b * b) \div 2
    BY <1>1, TopParts
  <2> QED
    BY <2>1, <2>2, <1>1 DEF TopBit, Val128, Half128, Twice
<1>10. ASSUME NEW v \in Wider PROVE TopBit(v.Hi.Hi) <=> Val256(v) >= Half256
  <2>1. PICK lo \in 0..t - 1, hi \in 0..t - 1 : lo = Val128(v.Lo) /\ hi = Val128(v.Hi)
    BY <1>4, ValIs DEF Wider
  <2>2. hi >= t \div 2 <=> lo + hi * t >= (t * t) \div 2
    BY <1>4, TopParts
  <2>3. TopBit(v.Hi.Hi) <=> hi >= t \div 2
    BY <1>4, <1>9, <2>1 DEF Wider, Half128
  <2> QED
    BY <2>1, <2>2, <2>3, <1>4 DEF Val256, Half256
<1>11. Half128 \in Nat \ {0} /\ Twice = 2 * Half128
  BY <1>4, <1>8 DEF Half128
<1>12. Half256 \in Nat \ {0} /\ Twice * Twice = 2 * Half256
  BY <1>4, <1>6, <1>7, <1>8 DEF Half256
<1> QED
  BY <1>9, <1>10, <1>11, <1>12

-----------------------------------------------------------------------------
(* To and from big.Int. *)

\* The number that u means as two's complement, h being half of all numbers.
IntOf(u, h) == IF u >= h THEN u - 2 * h ELSE u

LEMMA IntsOf ==
    ASSUME NEW h \in Nat \ {0}, NEW n \in -h..h - 1
    PROVE  n % (2 * h) \in 0..2 * h - 1 /\ IntOf(n % (2 * h), h) = n
<1>1. 2 * h \in Nat \ {0} /\ n \in Int
  OBVIOUS
<1> QED
  BY <1>1, ComplementOfRest, Floor DEF IntOf

LEMMA To128 ==
    ASSUME NEW v \in Wide
    PROVE  /\ UInt128ToBigInt(v) = Val128(v)
           /\ Int128ToBigInt(v) = IntOf(Val128(v), Half128)
<1>1. PICK h \in Nat \ {0} : h = Half128 /\ Twice = 2 * h
  BY TopBits
<1>2. PICK u \in 0..2 * h - 1 : u = Val128(v)
  BY <1>1, ValIs
<1>3. PICK s \in Nat : s = 2 * WordBytes /\ P(s) = 2 * h
  BY <1>1, Halves
<1>4. PICK buf : buf = putLE128(v) /\ IsLE(buf, u, s)
  BY <1>2, <1>3, Puts
<1>5. u \in Nat /\ u < P(s)
  BY <1>2, <1>3
<1>6. SetBytes(Reverse(buf)) = u
  BY <1>4, <1>5, SetReverse
<1>7. TopBit(v.Hi) <=> u >= h
  BY <1>1, <1>2, TopBits
<1> QED
  BY <1>1, <1>2, <1>3, <1>4, <1>6, <1>7 DEF UInt128ToBigInt, Int128ToBigInt, Signed, IntOf, P

LEMMA Magnitude128 ==
    ASSUME NEW n \in Int
    PROVE  /\ ByteLen(Abs(n)) > 2 * WordBytes <=> Abs(n) >= Twice
           /\ Abs(n) < Twice => /\ ReadLE128(Magnitude(n, 2 * WordBytes)) \in Wide
                               /\ Val128(ReadLE128(Magnitude(n, 2 * WordBytes))) = Abs(n)
<1>1. PICK s \in Nat, t \in Nat \ {0} : s = 2 * WordBytes /\ t = Twice /\ P(s) = t
  BY Halves
<1>2. PICK a \in Nat : a = Abs(n)
  BY DEF Abs
<1>3. ByteLen(a) \in Nat /\ (ByteLen(a) <= s <=> a < t)
  BY <1>1, ByteLenIs
<1>4. ASSUME a < t
      PROVE  ReadLE128(Magnitude(n, s)) \in Wide /\ Val128(ReadLE128(Magnitude(n, s))) = a
  <2>1. IsLE(Magnitude(n, s), a, s)
    BY <1>2, <1>3, <1>4, MagnitudeIs
  <2>2. a % t = a
    BY <1>4, Modulo
  <2>3. a \in Int
    OBVIOUS
  <2> QED
    BY <2>1, <2>2, <2>3, <1>1, Reads128
<1> QED
  BY <1>1, <1>2, <1>3, <1>4

\* ...FromBigInt fails outside of the type's range, and only there; a value it
\* yields reads back as the number.
LEMMA From128 ==
    ASSUME NEW n \in Int, NEW r, r = Int128FromBigInt(n)
    PROVE  /\ r.err \in BOOLEAN
           /\ r.err <=> n \notin -Half128..Half128 - 1
           /\ ~r.err => r.v \in Wide /\ Int128ToBigInt(r.v) = n
<1>1. PICK h \in Nat \ {0} : h = Half128 /\ Twice = 2 * h
  BY TopBits
<1>2. PICK m : m = ReadLE128(Magnitude(n, 2 * WordBytes))
  OBVIOUS
<1>3. PICK v : v = IF n < 0 THEN neg128(m) ELSE m
  OBVIOUS
<1>4. r = IF ByteLen(Abs(n)) > 2 * WordBytes \/ TopBit(v.Hi) # (n < 0) THEN Bad(Zero128) ELSE Good(v)
  BY <1>2, <1>3 DEF Int128FromBigInt
<1>5. CASE Abs(n) >= Twice
  <2>1. r = Bad(Zero128)
    BY <1>4, <1>5, Magnitude128
  <2>2. n \notin -h..h - 1
    BY <1>1, <1>5 DEF Abs
  <2> QED
    BY <2>1, <2>2, <1>1 DEF Bad
<1>6. CASE ~(Abs(n) >= Twice)
  <2>1. Abs(n) \in Nat /\ Abs(n) < 2 * h /\ ~(Abs(n) >= Twice) /\ Abs(n) < Twice
    BY <1>1, <1>6 DEF Abs
  <2>2. m \in Wide /\ Val128(m) = Abs(n) /\ ~(ByteLen(Abs(n)) > 2 * WordBytes)
    BY <2>1, <1>2, Magnitude128
  <2>3. neg128(m) \in Wide /\ Val128(neg128(m)) = Neg(Abs(n), 2 * h)
    BY <2>2, <1>1, Negates128
  <2>4. PICK u : u = Val128(v) /\ v \in Wide
                 /\ u = IF n < 0 THEN Neg(Abs(n), 2 * h) ELSE Abs(n)
    BY <2>2, <2>3, <1>3
  <2>5. /\ ((u >= h) # (n < 0)) <=> n \notin -h..h - 1
        /\ n \in -h..h - 1 => (IF u >= h THEN u - 2 * h ELSE u) = n
    BY <2>1, <2>4, Complement
  <2>6. TopBit(v.Hi) <=> u >= h
    BY <2>4, <1>1, TopBits
  <2>7. r = IF n \notin -h..h - 1 THEN Bad(Zero128) ELSE Good(v)
    <3>1. (TopBit(v.Hi) # (n < 0)) <=> n \notin -h..h - 1
      <4>1. TopBit(v.Hi) \in BOOLEAN /\ (u >= h) \in BOOLEAN /\ (n < 0) \in BOOLEAN
        <5>1. TopBit(v.Hi) \in BOOLEAN
          BY DEF TopBit
        <5>2. (u >= h) \in BOOLEAN /\ (n < 0) \in BOOLEAN
          OBVIOUS
        <5> QED
          BY <5>1, <5>2
      <4> QED
        BY <4>1, <2>5, <2>6
    <3> QED
      BY <3>1, <2>2, <1>4
  <2>8. Int128ToBigInt(v) = IntOf(u, h)
    BY <2>4, <1>1, To128
  <2> QED
    BY <2>4, <2>5, <2>7, <2>8, <1>1 DEF Good, Bad, IntOf
<1> QED
  BY <1>5, <1>6

LEMMA FromU128 ==
    ASSUME NEW n \in Int, NEW r, r = UInt128FromBigInt(n)
    PROVE  /\ r.err \in BOOLEAN
           /\ r.err <=> n \notin 0..Twice - 1
           /\ ~r.err => r.v \in Wide /\ UInt128ToBigInt(r.v) = n
<1>1. PICK t \in Nat \ {0} : t = Twice
  BY Halves
<1>2. PICK m : m = ReadLE128(Magnitude(n, 2 * WordBytes))
  OBVIOUS
<1>3. r = IF n < 0 \/ ByteLen(Abs(n)) > 2 * WordBytes THEN Bad(Zero128) ELSE Good(m)
  BY <1>2 DEF UInt128FromBigInt
<1>4. CASE n < 0 \/ Abs(n) >= t
  <2>1. r = Bad(Zero128)
    BY <1>1, <1>3, <1>4, Magnitude128
  <2>2. n \notin 0..t - 1
    BY <1>4 DEF Abs
  <2> QED
    BY <2>1, <2>2, <1>1 DEF Bad
<1>5. CASE ~(n < 0 \/ Abs(n) >= t)
  <2>1. Abs(n) = n /\ n \in 0..t - 1 /\ Abs(n) < Twice /\ ~(Abs(n) >= Twice)
    BY <1>1, <1>5 DEF Abs
  <2>2. m \in Wide /\ Val128(m) = n /\ r = Good(m)
    BY <2>1, <1>2, <1>3, <1>5, Magnitude128
  <2>3. UInt128ToBigInt(m) = n
    BY <2>2, To128
  <2> QED
    BY <2>1, <2>2, <2>3, <1>1 DEF Good
<1> QED
  BY <1>4, <1>5

LEMMA To256 ==
    ASSUME NEW v \in Wider
    PROVE  /\ UInt256ToBigInt(v) = Val256(v)
           /\ Int256ToBigInt(v) = IntOf(Val256(v), Half256)
<1>1. PICK h \in Nat \ {0} : h = Half256 /\ Twice * Twice = 2 * h
  BY TopBits
<1>2. PICK u \in 0..2 * h - 1 : u = Val256(v)
  BY <1>1, ValIs
<1>3. PICK s \in Nat : s = 4 * WordBytes /\ P(s) = 2 * h
  BY <1>1, Halves
<1>4. PICK buf : buf = PutLE256(v) /\ IsLE(buf, u, s)
  BY <1>2, <1>3, Puts
<1>5. u \in Nat /\ u < P(s)
  BY <1>2, <1>3
<1>6. SetBytes(Reverse(buf)) = u
  BY <1>4, <1>5, SetReverse
<1>7. TopBit(v.Hi.Hi) <=> u >= h
  BY <1>1, <1>2, TopBits
<1> QED
  BY <1>1, <1>2, <1>3, <1>4, <1>6, <1>7 DEF UInt256ToBigInt, Int256ToBigInt, Signed, IntOf, P

LEMMA Magnitude256 ==
    ASSUME NEW n \in Int
    PROVE  /\ ByteLen(Abs(n)) > 4 * WordBytes <=> Abs(n) >= Twice * Twice
           /\ Abs(n) < Twice * Twice => /\ ReadLE256(Magnitude(n, 4 * WordBytes)) \in Wider
                               /\ Val256(ReadLE256(Magnitude(n, 4 * WordBytes))) = Abs(n)
<1>1. PICK s \in Nat, t \in Nat \ {0} : s = 4 * WordBytes /\ t = Twice * Twice /\ P(s) = t
  BY Halves
<1>2. PICK a \in Nat : a = Abs(n)
  BY DEF Abs
<1>3. ByteLen(a) \in Nat /\ (ByteLen(a) <= s <=> a < t)
  BY <1>1, ByteLenIs
<1>4. ASSUME a < t
      PROVE  ReadLE256(Magnitude(n, s)) \in Wider /\ Val256(ReadLE256(Magnitude(n, s))) = a
  <2>1. IsLE(Magnitude(n, s), a, s)
    BY <1>2, <1>3, <1>4, MagnitudeIs
  <2>2. a % t = a
    BY <1>4, Modulo
  <2>3. a \in Int
    OBVIOUS
  <2> QED
    BY <2>1, <2>2, <2>3, <1>1, Reads256
<1> QED
  BY <1>1, <1>2, <1>3, <1>4

\* ...FromBigInt fails outside of the type's range, and only there; a value it
\* yields reads back as the number.
LEMMA From256 ==
    ASSUME NEW n \in Int, NEW r, r = Int256FromBigInt(n)
    PROVE  /\ r.err \in BOOLEAN
           /\ r.err <=> n \notin -Half256..Half256 - 1
           /\ ~r.err => r.v \in Wider /\ Int256ToBigInt(r.v) = n
<1>1. PICK h \in Nat \ {0} : h = Half256 /\ Twice * Twice = 2 * h
  BY TopBits
<1>2. PICK m : m = ReadLE256(Magnitude(n, 4 * WordBytes))
  OBVIOUS
<1>3. PICK v : v = IF n < 0 THEN neg256(m) ELSE m
  OBVIOUS
<1>4. r = IF ByteLen(Abs(n)) > 4 * WordBytes \/ TopBit(v.Hi.Hi) # (n < 0) THEN Bad(Zero256) ELSE Good(v)
  BY <1>2, <1>3 DEF Int256FromBigInt
<1>5. CASE Abs(n) >= Twice * Twice
  <2>1. r = Bad(Zero256)
    BY <1>4, <1>5, Magnitude256
  <2>2. n \notin -h..h - 1
    BY <1>1, <1>5 DEF Abs
  <2> QED
    BY <2>1, <2>2, <1>1 DEF Bad
<1>6. CASE ~(Abs(n) >= Twice * Twice)
  <2>1. Abs(n) \in Nat /\ Abs(n) < 2 * h /\ ~(Abs(n) >= Twice * Twice) /\ Abs(n) < Twice * Twice
    BY <1>1, <1>6 DEF Abs
  <2>2. m \in Wider /\ Val256(m) = Abs(n) /\ ~(ByteLen(Abs(n)) > 4 * WordBytes)
    BY <2>1, <1>2, Magnitude256
  <2>3. neg256(m) \in Wider /\ Val256(neg256(m)) = Neg(Abs(n), 2 * h)
    BY <2>2, <1>1, Negates256
  <2>4. PICK u : u = Val256(v) /\ v \in Wider
                 /\ u = IF n < 0 THEN Neg(Abs(n), 2 * h) ELSE Abs(n)
    BY <2>2, <2>3, <1>3
  <2>5. /\ ((u >= h) # (n < 0)) <=> n \notin -h..h - 1
        /\ n \in -h..h - 1 => (IF u >= h THEN u - 2 * h ELSE u) = n
    BY <2>1, <2>4, Complement
  <2>6. TopBit(v.Hi.Hi) <=> u >= h
    BY <2>4, <1>1, TopBits
  <2>7. r = IF n \notin -h..h - 1 THEN Bad(Zero256) ELSE Good(v)
    <3>1. (TopBit(v.Hi.Hi) # (n < 0)) <=> n \notin -h..h - 1
      <4>1. TopBit(v.Hi.Hi) \in BOOLEAN /\ (u >= h) \in BOOLEAN /\ (n < 0) \in BOOLEAN
        <5>1. TopBit(v.Hi.Hi) \in BOOLEAN
          BY DEF TopBit
        <5>2. (u >= h) \in BOOLEAN /\ (n < 0) \in BOOLEAN
          OBVIOUS
        <5> QED
          BY <5>1, <5>2
      <4> QED
        BY <4>1, <2>5, <2>6
    <3> QED
      BY <3>1, <2>2, <1>4
  <2>8. Int256ToBigInt(v) = IntOf(u, h)
    BY <2>4, <1>1, To256
  <2> QED
    BY <2>4, <2>5, <2>7, <2>8, <1>1 DEF Good, Bad, IntOf
<1> QED
  BY <1>5, <1>6

LEMMA FromU256 ==
    ASSUME NEW n \in Int, NEW r, r = UInt256FromBigInt(n)
    PROVE  /\ r.err \in BOOLEAN
           /\ r.err <=> n \notin 0..Twice * Twice - 1
           /\ ~r.err => r.v \in Wider /\ UInt256ToBigInt(r.v) = n
<1>1. PICK t \in Nat \ {0} : t = Twice * Twice
  BY Halves
<1>2. PICK m : m = ReadLE256(Magnitude(n, 4 * WordBytes))
  OBVIOUS
<1>3. r = IF n < 0 \/ ByteLen(Abs(n)) > 4 * WordBytes THEN Bad(Zero256) ELSE Good(m)
  BY <1>2 DEF UInt256FromBigInt
<1>4. CASE n < 0 \/ Abs(n) >= t
  <2>1. r = Bad(Zero256)
    BY <1>1, <1>3, <1>4, Magnitude256
  <2>2. n \notin 0..t - 1
    BY <1>4 DEF Abs
  <2> QED
    BY <2>1, <2>2, <1>1 DEF Bad
<1>5. CASE ~(n < 0 \/ Abs(n) >= t)
  <2>1. Abs(n) = n /\ n \in 0..t - 1 /\ Abs(n) < Twice * Twice /\ ~(Abs(n) >= Twice * Twice)
    BY <1>1, <1>5 DEF Abs
  <2>2. m \in Wider /\ Val256(m) = n /\ r = Good(m)
    BY <2>1, <1>2, <1>3, <1>5, Magnitude256
  <2>3. UInt256ToBigInt(m) = n
    BY <2>2, To256
  <2> QED
    BY <2>1, <2>2, <2>3, <1>1 DEF Good
<1> QED
  BY <1>4, <1>5

-----------------------------------------------------------------------------
(* What a decode lays over the stored values, and their order. *)

LEMMA Wire128 ==
    ASSUME NEW n \in Int, NEW v, v = ReadLE128(LE(n, 2 * WordBytes))
    PROVE  /\ v \in Wide
           /\ n \in 0..Twice - 1 => UInt128ToBigInt(v) = n
           /\ n \in -Half128..Half128 - 1 => Int128ToBigInt(v) = n
<1>1. PICK h \in Nat \ {0}, t \in Nat \ {0} : h = Half128 /\ t = Twice /\ t = 2 * h
  BY TopBits
<1>2. IsLE(LE(n, 2 * WordBytes), n, 2 * WordBytes)
  BY DEF IsLE, LE, ByteOf, P
<1>3. v \in Wide /\ Val128(v) = n % t
  BY <1>1, <1>2, Reads128
<1>4. ASSUME n \in 0..t - 1 PROVE n % t = n
  BY <1>4, Modulo
<1>5. ASSUME n \in -h..h - 1 PROVE IntOf(n % t, h) = n
  BY <1>1, <1>5, IntsOf
<1> QED
  BY <1>1, <1>3, <1>4, <1>5, To128

LEMMA Wire256 ==
    ASSUME NEW n \in Int, NEW v, v = ReadLE256(LE(n, 4 * WordBytes))
    PROVE  /\ v \in Wider
           /\ n \in 0..Twice * Twice - 1 => UInt256ToBigInt(v) = n
           /\ n \in -Half256..Half256 - 1 => Int256ToBigInt(v) = n
<1>1. PICK h \in Nat \ {0}, t \in Nat \ {0} : h = Half256 /\ t = Twice * Twice /\ t = 2 * h
  BY TopBits
<1>2. IsLE(LE(n, 4 * WordBytes), n, 4 * WordBytes)
  BY DEF IsLE, LE, ByteOf, P
<1>3. v \in Wider /\ Val256(v) = n % t
  BY <1>1, <1>2, Reads256
<1>4. ASSUME n \in 0..t - 1 PROVE n % t = n
  BY <1>4, Modulo
<1>5. ASSUME n \in -h..h - 1 PROVE IntOf(n % t, h) = n
  BY <1>1, <1>5, IntsOf
<1> QED
  BY <1>1, <1>3, <1>4, <1>5, To256

LEMMA SignIs ==
    /\ \A n \in Int : Sign(n) = 0 <=> n = 0
    /\ \A n \in Int : Sign(n) \in {-1, 0, 1}
BY DEF Sign

LEMMA CmpU128 ==
    ASSUME NEW v \in Wide, NEW x \in Wide
    PROVE  UInt128Cmp(v, x) = Sign(Val128(v) - Val128(x))
<1>1. PICK b \in Nat \ {0} : b = Word
  BY WordIs
<1>2. PICK lo \in 0..b - 1, hi \in 0..b - 1 : lo = v.Lo /\ hi = v.Hi
  BY <1>1 DEF Wide, Words
<1>3. PICK l \in 0..b - 1, h \in 0..b - 1 : l = x.Lo /\ h = x.Hi
  BY <1>1 DEF Wide, Words
<1>4. Sign(Val128(v) - Val128(x)) = IF hi # h THEN Sign(hi - h) ELSE Sign(lo - l)
  <2>1. Made(Val128(v), lo, hi, b) /\ Made(Val128(x), l, h, b)
    BY <1>1, <1>2, <1>3 DEF Made, Val128
  <2> QED
    BY <2>1, OrderOfParts
<1> QED
  BY <1>2, <1>3, <1>4 DEF UInt128Cmp

LEMMA CmpU256 ==
    ASSUME NEW v \in Wider, NEW x \in Wider
    PROVE  UInt256Cmp(v, x) = Sign(Val256(v) - Val256(x))
<1>1. PICK b \in Nat \ {0} : b = Twice
  BY Halves
<1>2. PICK lo \in 0..b - 1, hi \in 0..b - 1 : lo = Val128(v.Lo) /\ hi = Val128(v.Hi)
  BY <1>1, ValIs DEF Wider
<1>3. PICK l \in 0..b - 1, h \in 0..b - 1 : l = Val128(x.Lo) /\ h = Val128(x.Hi)
  BY <1>1, ValIs DEF Wider
<1>4. Sign(Val256(v) - Val256(x)) = IF hi # h THEN Sign(hi - h) ELSE Sign(lo - l)
  <2>1. Made(Val256(v), lo, hi, b) /\ Made(Val256(x), l, h, b)
    BY <1>1, <1>2, <1>3 DEF Made, Val256
  <2> QED
    BY <2>1, OrderOfParts
<1>5. UInt128Cmp(v.Hi, x.Hi) = Sign(hi - h) /\ UInt128Cmp(v.Lo, x.Lo) = Sign(lo - l)
  BY <1>2, <1>3, CmpU128 DEF Wider
<1>6. Sign(hi - h) # 0 <=> hi # h
  <2>1. hi - h \in Int /\ (hi - h = 0 <=> hi = h)
    OBVIOUS
  <2> QED
    BY <2>1, SignIs
<1> QED
  BY <1>4, <1>5, <1>6 DEF UInt256Cmp

LEMMA Cmp128 ==
    ASSUME NEW v \in Wide, NEW x \in Wide
    PROVE  Int128Cmp(v, x) = Sign(Int128ToBigInt(v) - Int128ToBigInt(x))
<1>1. PICK h \in Nat \ {0} : h = Half128 /\ Twice = 2 * h
  BY TopBits
<1>2. PICK a \in 0..2 * h - 1, c \in 0..2 * h - 1 : a = Val128(v) /\ c = Val128(x)
  BY <1>1, ValIs
<1>3. Int128ToBigInt(v) = IntOf(a, h) /\ Int128ToBigInt(x) = IntOf(c, h)
  BY <1>1, <1>2, To128
<1>4. TopBit(v.Hi) = (a >= h) /\ TopBit(x.Hi) = (c >= h)
  <2>1. TopBit(v.Hi) \in BOOLEAN /\ TopBit(x.Hi) \in BOOLEAN
    BY DEF TopBit
  <2>2. (TopBit(v.Hi) <=> a >= h) /\ (TopBit(x.Hi) <=> c >= h)
    BY <1>1, <1>2, TopBits
  <2> QED
    BY <2>1, <2>2
<1>5. UInt128Cmp(v, x) = Sign(a - c)
  BY <1>2, CmpU128
<1>6. Int128Cmp(v, x) = IF (a >= h) # (c >= h) THEN IF a >= h THEN -1 ELSE 1 ELSE Sign(a - c)
  BY ONLY <1>4, <1>5 DEF Int128Cmp
<1>7. (IF (a >= h) # (c >= h) THEN IF a >= h THEN -1 ELSE 1 ELSE Sign(a - c))
      = Sign(IntOf(a, h) - IntOf(c, h))
  <2>1. CASE a >= h /\ c >= h
    BY <2>1 DEF Sign, IntOf
  <2>2. CASE a >= h /\ ~(c >= h)
    BY <2>2 DEF Sign, IntOf
  <2>3. CASE ~(a >= h) /\ c >= h
    BY <2>3 DEF Sign, IntOf
  <2>4. CASE ~(a >= h) /\ ~(c >= h)
    BY <2>4 DEF Sign, IntOf
  <2> QED
    BY <2>1, <2>2, <2>3, <2>4
<1> QED
  BY <1>3, <1>6, <1>7

-----------------------------------------------------------------------------
(* Rounding: down to coarse units, then towards zero to d of them. *)

LEMMA QuoIs ==
    ASSUME NEW a \in Int, NEW d \in Nat \ {0}
    PROVE  /\ Quo(a, d) \in Int
           /\ a >= 0 => Quo(a, d) = a \div d /\ 0 <= Quo(a, d) /\ Quo(a, d) <= a
                        /\ Quo(a, d) * d <= a /\ a - Quo(a, d) * d < d
           /\ a < 0 => /\ Quo(a, d) <= 0 /\ a <= Quo(a, d) /\ a \div d <= Quo(a, d)
                       /\ a <= Quo(a, d) * d /\ Quo(a, d) * d - a < d
<1>1. CASE a >= 0
  <2>1. PICK q \in Nat : q = a \div d /\ q <= a
    BY <1>1, FloorSign
  <2>2. PICK r \in 0..d - 1 : a = q * d + r
    BY <2>1, Floor
  <2>3. PICK c \in Int : c = q * d
    BY <2>1
  <2> QED
    BY <2>1, <2>2, <2>3, <1>1 DEF Quo
<1>2. CASE a < 0
  <2>0. PICK b \in Nat : b = -a
    BY <1>2
  <2>1. PICK q \in Nat : q = b \div d /\ q <= b
    BY <2>0, FloorSign
  <2>2. PICK r \in 0..d - 1 : b = q * d + r
    <3>1. b \in Int /\ b % d \in 0..d - 1 /\ b = (b \div d) * d + (b % d)
      BY Floor
    <3> QED
      BY <3>1, <2>1
  <2>3. PICK c \in Int : c = q * d
    BY <2>1
  <2>4. Quo(a, d) = -q /\ (-q) * d = -c
    BY <2>0, <2>1, <2>3, <1>2 DEF Quo
  <2>5. a \div d <= -q
    <3>1. CASE r = 0
      <4>1. a = (-q) * d + 0 /\ 0 \in 0..d - 1 /\ -q \in Int
        BY <2>0, <2>2, <2>3, <2>4, <3>1
      <4>2. a \div d = -q
        BY <4>1, FloorIs
      <4> QED
        BY <4>2, <2>1
    <3>2. CASE r # 0
      <4>1. (-q - 1) * d = -c - d
        BY <2>3
      <4>2. a = (-q - 1) * d + (d - r) /\ d - r \in 0..d - 1 /\ -q - 1 \in Int
        BY <4>1, <2>0, <2>2, <2>3, <3>2
      <4>3. a \div d = -q - 1
        BY <4>2, FloorIs
      <4> QED
        BY <4>3, <2>1
    <3> QED
      BY <3>1, <3>2
  <2> QED
    BY <2>0, <2>1, <2>2, <2>3, <2>4, <2>5, <1>2
<1> QED
  BY <1>1, <1>2

LEMMA QuoGrows ==
    ASSUME NEW a \in Int, NEW b \in Int, a <= b, NEW d \in Nat \ {0}
    PROVE  Quo(a, d) <= Quo(b, d)
<1>1. CASE a >= 0
  <2>1. a \div d <= b \div d /\ b >= 0
    BY <1>1, FloorGrows
  <2> QED
    BY <2>1, <1>1 DEF Quo
<1>2. CASE a < 0 /\ b >= 0
  <2>1. Quo(a, d) \in Int /\ Quo(b, d) \in Int /\ Quo(a, d) <= 0 /\ 0 <= Quo(b, d)
    BY <1>2, QuoIs
  <2> QED
    BY <2>1
<1>3. CASE b < 0
  <2>1. -a \in Int /\ -b \in Int /\ -b <= -a /\ a < 0
    BY <1>3
  <2>2. PICK p \in Int, q \in Int : p = (-b) \div d /\ q = (-a) \div d
    BY <2>1, Floor
  <2>3. p <= q
    BY <2>1, <2>2, FloorGrows
  <2>4. Quo(a, d) = -q /\ Quo(b, d) = -p
    BY <2>1, <2>2, <1>3 DEF Quo
  <2> QED
    BY <2>3, <2>4
<1> QED
  BY <1>1, <1>2, <1>3

\* v as so many times d coarse units of s.
Rounding(v, s, d) == Quo(v \div s, d)

LEMMA Rounds ==
    ASSUME NEW v \in Int, NEW s \in Nat \ {0}, NEW d \in Nat \ {0},
           NEW u, u = s * d, NEW q, q = Rounding(v, s, d)
    PROVE  /\ u \in Nat \ {0} /\ q \in Int /\ v \div u \in Int
           /\ v >= 0 => q = v \div u
           /\ v < 0 => v \div u <= q /\ q <= 0
           /\ Abs(q * u - v) < u
<1>1. u \in Nat \ {0}
  <2>1. s * d \in Nat /\ d <= s * d
    BY Products
  <2> QED
    BY <2>1
<1>2. PICK w \in Int, r \in 0..s - 1 : w = v \div s /\ v = w * s + r
  BY Floor
<1>3. v \div u = w \div d
  BY <1>2, FloorTwice
<1>4. q = Quo(w, d) /\ q \in Int
  BY <1>2, QuoIs DEF Rounding
<1>5. v >= 0 <=> w >= 0
  BY <1>2, FloorSign
<1>6. PICK c \in Int : c = q * d
  BY <1>4
<1>7. q * u = c * s
  BY <1>4, <1>6
<1>8. CASE w >= 0
  <2>1. q = w \div d
    BY <1>4, <1>8, QuoIs
  <2>2. c <= w /\ w - c < d
    BY <1>4, <1>6, <1>8, QuoIs
  <2>3. PICK e \in 0..d - 1 : w = c + e
    BY <2>2, <1>6
  <2>4. v - c * s = e * s + r
    <3>0. PICK x \in Int, y \in Int : x = c * s /\ y = e * s
      OBVIOUS
    <3>1. w * s = x + y
      BY <3>0, <2>3
    <3> QED
      BY <3>0, <3>1, <1>2
  <2>5. (e + 1) * s <= d * s /\ d * s = u
    <3>1. e + 1 \in Nat /\ e + 1 <= d
      OBVIOUS
    <3> QED
      BY <3>1, Products
  <2>6. PICK f \in Nat : f = e * s /\ (e + 1) * s = f + s
    OBVIOUS
  <2>7. PICK x \in Int : x = c * s
    OBVIOUS
  <2>8. Abs(x - v) < u
    BY <1>1, <2>4, <2>5, <2>6, <2>7 DEF Abs
  <2> QED
    BY <1>1, <1>3, <1>4, <1>5, <1>7, <1>8, <2>1, <2>7, <2>8
<1>9. CASE w < 0
  <2>1. q <= 0 /\ w \div d <= q /\ w <= c /\ c - w < d
    BY <1>4, <1>6, <1>9, QuoIs
  <2>2. PICK e \in 0..d - 1 : w = c - e
    <3>1. c - w \in 0..d - 1 /\ w = c - (c - w)
      BY <2>1, <1>6
    <3> QED
      BY <3>1
  <2>3. c * s - v = e * s - r
    <3>0. PICK x \in Int, y \in Int : x = c * s /\ y = e * s
      OBVIOUS
    <3>1. w * s = x - y
      BY <3>0, <2>2
    <3> QED
      BY <3>0, <3>1, <1>2
  <2>4. (e + 1) * s <= d * s /\ d * s = u
    <3>1. e + 1 \in Nat /\ e + 1 <= d
      OBVIOUS
    <3> QED
      BY <3>1, Products
  <2>5. PICK f \in Nat : f = e * s /\ (e + 1) * s = f + s
    OBVIOUS
  <2>6. PICK x \in Int : x = c * s
    OBVIOUS
  <2>7. x - v = f - r /\ f + s <= u
    BY <2>3, <2>4, <2>5, <2>6
  <2>8. Abs(x - v) < u
    BY <1>1, <2>7 DEF Abs
  <2>9. ~(v >= 0) /\ v < 0
    BY <1>5, <1>9
  <2>10. w \div d \in Int
    BY Floor
  <2> QED
    BY <1>1, <1>3, <1>4, <1>7, <2>1, <2>6, <2>8, <2>9, <2>10
<1> QED
  <2>1. w \div d \in Int
    BY Floor
  <2> QED
    BY <1>2, <1>8, <1>9

LEMMA RoundsGrow ==
    ASSUME NEW v \in Int, NEW w \in Int, v <= w, NEW s \in Nat \ {0}, NEW d \in Nat \ {0}
    PROVE  Rounding(v, s, d) <= Rounding(w, s, d)
<1>1. v \div s \in Int /\ w \div s \in Int /\ v \div s <= w \div s
  BY Floor, FloorGrows
<1> QED
  BY <1>1, QuoGrows DEF Rounding

LEMMA RoundsBack ==
    ASSUME NEW n \in Int, NEW s \in Nat \ {0}, NEW d \in Nat \ {0}
    PROVE  Rounding(n * (s * d), s, d) = n
<1>1. PICK m \in Int : m = n * d
  OBVIOUS
<1>2. n * (s * d) = m * s + 0 /\ 0 \in 0..s - 1
  BY <1>1
<1>3. (n * (s * d)) \div s = m
  BY <1>2, FloorIs
<1>4. m = n * d + 0 /\ 0 \in 0..d - 1
  BY <1>1
<1>5. Quo(m, d) = n
  <2>1. CASE m >= 0
    <3>1. m \div d = n
      BY <1>4, FloorIs
    <3> QED
      BY <3>1, <2>1 DEF Quo
  <2>2. CASE m < 0
    <3>1. -m = (-n) * d + 0 /\ -n \in Int
      BY <1>1
    <3>2. (-m) \div d = -n
      BY <3>1, <1>4, FloorIs
    <3> QED
      BY <3>2, <2>2 DEF Quo
  <2> QED
    BY <2>1, <2>2
<1> QED
  BY <1>3, <1>5 DEF Rounding

\* Common factors do not show.
LEMMA QuoCancels ==
    ASSUME NEW v \in Int, NEW a \in Nat \ {0}, NEW b \in Nat \ {0}
    PROVE  Quo(v * a, b * a) = Quo(v, b)
<1>1. (v * a) \div (b * a) = v \div b
  BY FloorCancels
<1>2. ((-v) * a) \div (b * a) = (-v) \div b /\ -(v * a) = (-v) * a
  BY FloorCancels
<1>3. v >= 0 <=> v * a >= 0
  <2>1. CASE v >= 0
    BY <2>1
  <2>2. CASE v < 0
    <3>1. PICK w \in Nat \ {0} : v = -w
      <4>1. -v \in Nat \ {0} /\ v = -(-v)
        BY <2>2
      <4> QED
        BY <4>1
    <3>2. PICK x \in Nat : x = w * a /\ w <= x
      BY Products
    <3>3. v * a = -x
      BY <3>1, <3>2
    <3> QED
      BY <3>1, <3>2, <3>3
  <2> QED
    BY <2>1, <2>2
<1> QED
  BY <1>1, <1>2, <1>3 DEF Quo

\* A conversion to a signed type of m values.
LEMMA WrapIs ==
    ASSUME NEW n \in Int, NEW m \in Nat \ {0}, m % 2 = 0
    PROVE  /\ m \div 2 \in Nat \ {0} /\ m = 2 * (m \div 2)
           /\ Wrap(n, m) \in -(m \div 2)..m \div 2 - 1
           /\ n \in -(m \div 2)..m \div 2 - 1 => Wrap(n, m) = n
<1>1. PICK h \in Int : h = m \div 2 /\ m = h * 2 + 0
  BY Floor
<1>2. h \in Nat \ {0} /\ m = 2 * h
  BY <1>1
<1>3. (n + h) % m \in 0..m - 1
  BY <1>2, Floor
<1>4. ASSUME n \in -h..h - 1 PROVE (n + h) % m = n + h
  <2>1. n + h \in Nat /\ n + h < m
    BY <1>2, <1>4
  <2> QED
    BY <2>1, Modulo
<1> QED
  BY <1>1, <1>2, <1>3, <1>4 DEF Wrap

-----------------------------------------------------------------------------
(* The columns of numbers: each rounds to its unit and stores the result. *)

Numbers == Wides \cup Decimals \cup Times

Coarse(k) == IF k \in {"Date", "Date32", "DateTime"} THEN Second ELSE 1
Fine(k) ==
    CASE k \in {"Date", "Date32"} -> DaySeconds
      [] k \in Decimals \cup {"DateTime64"} -> Scale(scale)
      [] OTHER -> 1
Rounded(k, v) == Rounding(v, Coarse(k), Fine(k))

\* The number a stored value stands for.
Number(k, raw) ==
    CASE k \in {"Int128", "Decimal128"} -> Int128ToBigInt(raw)
      [] k \in {"Int256", "Decimal256"} -> Int256ToBigInt(raw)
      [] k = "UInt128" -> UInt128ToBigInt(raw)
      [] k = "UInt256" -> UInt256ToBigInt(raw)
      [] OTHER -> raw

\* The type of the stored values.
Stored(k) ==
    CASE k \in Enums -> EnumRange(k)
      [] k \in {"Int128", "UInt128", "Decimal128"} -> Wide
      [] k \in {"Int256", "UInt256", "Decimal256"} -> Wider
      [] OTHER -> Span(k)

LEMMA ScaleIs ==
    ASSUME scale \in 0..Digits
    PROVE  /\ Scale(scale) \in Nat \ {0} /\ Power(Ten, scale) \in Nat \ {0}
           /\ Power(Ten, Digits - scale) = Scale(scale)
           /\ Power(Ten, Digits) = Scale(scale) * Power(Ten, scale)
           /\ Second \in Nat \ {0}
<1>0. Ten \in Nat \ {0} /\ Digits \in Nat
  BY ScalarsAssumption
<1>1. Ten \in Nat \ {0} /\ scale \in Nat /\ Digits - scale \in Nat /\ Digits \in Nat
  BY <1>0
<1>2. Power(Ten, scale) \in Nat \ {0} /\ Power(Ten, Digits - scale) \in Nat \ {0} /\ Power(Ten, Digits) \in Nat \ {0}
  BY <1>1, PowerIs
<1>3. Power(Ten, (Digits - scale) + scale) = Power(Ten, Digits - scale) * Power(Ten, scale)
  BY <1>1, PowerSum
<1>4. (Digits - scale) + scale = Digits
  BY <1>1
<1> QED
  BY <1>2, <1>3, <1>4 DEF Scale, Second

LEMMA UnitIs ==
    ASSUME NEW k \in Numbers, scale \in 0..Digits
    PROVE  Coarse(k) \in Nat \ {0} /\ Fine(k) \in Nat \ {0} /\ Unit(k) = Coarse(k) * Fine(k)
<1>1. PICK s \in Nat \ {0}, d \in Nat \ {0}, f \in Nat \ {0} :
        s = Second /\ d = DaySeconds /\ f = Scale(scale)
  BY ScaleIs, ScalarsAssumption
<1>2. d * s = s * d /\ s * 1 = s /\ 1 * f = f /\ 1 * 1 = 1 /\ 1 \in Nat \ {0}
  OBVIOUS
<1>3. CASE k \in {"Date", "Date32"}
  <2>1. Coarse(k) = s /\ Fine(k) = d /\ Unit(k) = d * s
    BY <1>1, <1>3 DEF Coarse, Fine, Unit, Decimals
  <2> QED
    BY <2>1, <1>2
<1>4. CASE k = "DateTime"
  <2>1. Coarse(k) = s /\ Fine(k) = 1 /\ Unit(k) = s
    BY <1>1, <1>4 DEF Coarse, Fine, Unit, Decimals
  <2> QED
    BY <2>1, <1>2
<1>5. CASE k \in Decimals \cup {"DateTime64"}
  <2>1. Coarse(k) = 1 /\ Fine(k) = f /\ Unit(k) = f
    BY <1>1, <1>5 DEF Coarse, Fine, Unit, Decimals
  <2> QED
    BY <2>1, <1>2
<1>6. CASE k \in Wides
  <2>1. Coarse(k) = 1 /\ Fine(k) = 1 /\ Unit(k) = 1
    BY <1>6 DEF Coarse, Fine, Unit, Decimals, Wides
  <2> QED
    BY <2>1, <1>2
<1> QED
  BY <1>3, <1>4, <1>5, <1>6 DEF Numbers, Times

\* Half of an even number of values.
LEMMA HalfOf ==
    ASSUME NEW m \in Nat \ {0}, m % 2 = 0
    PROVE  m \div 2 \in Nat \ {0} /\ m = 2 * (m \div 2)
BY WrapIs, 0 \in Int

LEMMA Bits ==
    /\ N8 \in Nat \ {0} /\ N16 \in Nat \ {0} /\ N32 \in Nat \ {0} /\ N64 \in Nat \ {0}
    /\ N8 % 2 = 0 /\ N16 % 2 = 0 /\ N32 % 2 = 0 /\ N64 % 2 = 0
    /\ N8 < N16 /\ N16 < N32 /\ N32 < N64
BY ScalarsAssumption

LEMMA SpanIs ==
    ASSUME NEW k \in Numbers
    PROVE  \E lo, hi \in Int : Span(k) = lo..hi /\ lo <= 0 /\ 0 <= hi
<1>1. ASSUME NEW m \in Nat \ {0} PROVE 0 \in Int /\ m - 1 \in Int /\ 0 <= 0 /\ 0 <= m - 1
  OBVIOUS
<1>2. ASSUME NEW h \in Nat \ {0} PROVE -h \in Int /\ h - 1 \in Int /\ -h <= 0 /\ 0 <= h - 1
  OBVIOUS
<1>3. CASE k = "Date"
  <2>1. Span(k) = 0..N16 - 1
    BY <1>3 DEF Span
  <2> QED
    BY <2>1, <1>1, Bits
<1>4. CASE k = "DateTime"
  <2>1. Span(k) = 0..N32 - 1
    BY <1>4 DEF Span
  <2> QED
    BY <2>1, <1>1, Bits
<1>5. CASE k \in {"Date32", "Decimal32"}
  <2>1. Span(k) = -(N32 \div 2)..N32 \div 2 - 1
    BY <1>5 DEF Span
  <2> QED
    BY <2>1, <1>2, Bits, HalfOf
<1>6. CASE k \in {"DateTime64", "Decimal64"}
  <2>1. Span(k) = -(N64 \div 2)..N64 \div 2 - 1
    BY <1>6 DEF Span
  <2> QED
    BY <2>1, <1>2, Bits, HalfOf
<1>7. CASE k \in {"Int128", "Decimal128"}
  <2>1. Span(k) = -Half128..Half128 - 1
    BY <1>7, Halves DEF Span, Half128
  <2> QED
    BY <2>1, <1>2, TopBits
<1>8. CASE k \in {"Int256", "Decimal256"}
  <2>1. Span(k) = -Half256..Half256 - 1
    BY <1>8, Halves DEF Span, Half256
  <2> QED
    BY <2>1, <1>2, TopBits
<1>9. CASE k = "UInt128"
  <2>1. Span(k) = 0..Twice - 1
    BY <1>9, Halves DEF Span
  <2> QED
    BY <2>1, <1>1, Halves
<1>10. CASE k = "UInt256"
  <2>1. Span(k) = 0..(Twice * Twice) - 1
    BY <1>10, Halves DEF Span
  <2> QED
    BY <2>1, <1>1, Halves
<1> QED
  BY <1>3, <1>4, <1>5, <1>6, <1>7, <1>8, <1>9, <1>10 DEF Numbers, Wides, Decimals, Times

\* Rounding is within a unit; what fits still fits then.
LEMMA RoundedIs ==
    ASSUME NEW k \in Numbers, scale \in 0..Digits, NEW v \in Int
    PROVE  /\ Unit(k) \in Nat \ {0} /\ Rounded(k, v) \in Int
           /\ Abs(Rounded(k, v) * Unit(k) - v) < Unit(k)
           /\ Fits(k, v) => Rounded(k, v) \in Span(k)
<1>1. PICK s \in Nat \ {0}, d \in Nat \ {0} : s = Coarse(k) /\ d = Fine(k) /\ Unit(k) = s * d
  BY UnitIs
<1>2. PICK u, q : u = s * d /\ q = Rounding(v, s, d)
  OBVIOUS
<1>3. /\ u \in Nat \ {0} /\ q \in Int /\ v \div u \in Int
      /\ v >= 0 => q = v \div u
      /\ v < 0 => v \div u <= q /\ q <= 0
      /\ Abs(q * u - v) < u
  BY <1>2, Rounds
<1>4. PICK lo \in Int, hi \in Int : Span(k) = lo..hi /\ lo <= 0 /\ 0 <= hi
  BY SpanIs
<1>5. ASSUME v \div u \in lo..hi PROVE q \in lo..hi
  BY <1>3, <1>4, <1>5
<1> QED
  BY <1>1, <1>2, <1>3, <1>4, <1>5 DEF Rounded, Fits

LEMMA RoundedGrows ==
    ASSUME NEW k \in Numbers, scale \in 0..Digits, NEW v \in Int, NEW w \in Int, v <= w
    PROVE  Rounded(k, v) <= Rounded(k, w)
BY UnitIs, RoundsGrow DEF Rounded

LEMMA RoundedBack ==
    ASSUME NEW k \in Numbers, scale \in 0..Digits, NEW n \in Int
    PROVE  Rounded(k, n * Unit(k)) = n
BY UnitIs, RoundsBack DEF Rounded

LEMMA QuoOfOne == ASSUME NEW v \in Int PROVE Quo(v, 1) = v
<1>1. v \div 1 = v /\ (-v) \div 1 = -v
  BY FloorOfOne
<1> QED
  BY <1>1 DEF Quo

-----------------------------------------------------------------------------
(* Append stores what it rounds to, as far as the type goes. *)

Keeps(k, v, s) ==
    ~s.err => /\ s.v \in Stored(k)
              /\ Fits(k, v) => Number(k, s.v) = Rounded(k, v)
Refuses(k, v, s) == s.err \in BOOLEAN /\ (s.err <=> Rounded(k, v) \notin Span(k))

\* A decimal drops the digits it has not got.
LEMMA ShiftedIs ==
    ASSUME NEW k \in Decimals, scale \in 0..Digits, NEW v \in Int
    PROVE  Shifted(v) = Rounded(k, v) /\ Shifted(v) \in Int
<1>1. PICK f \in Nat \ {0}, p \in Nat \ {0} :
        f = Scale(scale) /\ p = Power(Ten, scale) /\ Power(Ten, Digits) = f * p
  BY ScaleIs
<1>2. Shifted(v) = Quo(v, f)
  <2>1. Quo(v * p, f * p) = Quo(v, f)
    BY QuoCancels
  <2> QED
    BY <2>1, <1>1 DEF Shifted
<1>3. Coarse(k) = 1 /\ Fine(k) = f
  BY <1>1 DEF Coarse, Fine, Decimals
<1>4. v \div 1 = v
  BY FloorOfOne
<1> QED
  BY <1>2, <1>3, <1>4, QuoIs DEF Rounded, Rounding

\* Wides store what they are given.
LEMMA WideRounds ==
    ASSUME NEW k \in Wides, NEW v \in Int
    PROVE  Rounded(k, v) = v
<1>1. Coarse(k) = 1 /\ Fine(k) = 1
  BY DEF Coarse, Fine, Wides, Decimals
<1>2. v \div 1 = v
  BY FloorOfOne
<1> QED
  BY <1>1, <1>2, QuoOfOne DEF Rounded, Rounding

LEMMA RestKept ==
    ASSUME NEW n \in Int, NEW m \in Nat \ {0}
    PROVE  n % m \in 0..m - 1 /\ (n \in 0..m - 1 => n % m = n)
<1>1. n \in 0..m - 1 => n % m = n
  BY Modulo
<1> QED
  BY <1>1, Floor

LEMMA DateKeeps ==
    ASSUME scale \in 0..Digits, NEW v \in Int
    PROVE  Keeps("Date", v, Store("Date", v))
<1> DEFINE k == "Date"
<1>1. k \in Numbers /\ Span(k) = 0..N16 - 1 /\ Stored(k) = Span(k)
  BY DEF Numbers, Times, Span, Stored, Enums
<1>2. Store(k, v) = Good(Rounded(k, v) % N16)
  BY DEF Store, DateAppend, Unix, Rounded, Rounding, Coarse, Fine, Decimals
<1>3. \A raw : Number(k, raw) = raw
  BY DEF Number
<1>4. Rounded(k, v) \in Int /\ (Fits(k, v) => Rounded(k, v) \in Span(k))
  BY <1>1, RoundedIs
<1> HIDE DEF k
<1>5. PICK q \in Int : q = Rounded(k, v)
  BY <1>4
<1>6. q % N16 \in 0..N16 - 1 /\ (q \in 0..N16 - 1 => q % N16 = q)
  BY Bits, RestKept
<1>7. Keeps(k, v, Store(k, v))
  BY <1>1, <1>2, <1>3, <1>4, <1>5, <1>6 DEF Keeps, Good
<1> QED
  BY <1>7 DEF k

LEMMA DateTimeKeeps ==
    ASSUME scale \in 0..Digits, NEW v \in Int
    PROVE  Keeps("DateTime", v, Store("DateTime", v))
<1> DEFINE k == "DateTime"
<1>1. k \in Numbers /\ Span(k) = 0..N32 - 1 /\ Stored(k) = Span(k)
  BY DEF Numbers, Times, Span, Stored, Enums
<1>0. v \div Second \in Int
  BY ScaleIs, Floor
<1>2. Store(k, v) = Good(Rounded(k, v) % N32)
  <2>1. Quo(v \div Second, 1) = v \div Second
    BY <1>0, QuoOfOne
  <2> QED
    BY <2>1 DEF Store, DateTimeAppend, Unix, Rounded, Rounding, Coarse, Fine, Decimals
<1>3. \A raw : Number(k, raw) = raw
  BY DEF Number
<1>4. Rounded(k, v) \in Int /\ (Fits(k, v) => Rounded(k, v) \in Span(k))
  BY <1>1, RoundedIs
<1> HIDE DEF k
<1>5. PICK q \in Int : q = Rounded(k, v)
  BY <1>4
<1>6. q % N32 \in 0..N32 - 1 /\ (q \in 0..N32 - 1 => q % N32 = q)
  BY Bits, RestKept
<1>7. Keeps(k, v, Store(k, v))
  BY <1>1, <1>2, <1>3, <1>4, <1>5, <1>6 DEF Keeps, Good
<1> QED
  BY <1>7 DEF k

LEMMA Date32Keeps ==
    ASSUME scale \in 0..Digits, NEW v \in Int
    PROVE  Keeps("Date32", v, Store("Date32", v))
<1> DEFINE k == "Date32"
<1>1. k \in Numbers /\ Span(k) = -(N32 \div 2)..N32 \div 2 - 1 /\ Stored(k) = Span(k)
  BY DEF Numbers, Times, Span, Stored, Enums
<1>2. Store(k, v) = Good(Wrap(Rounded(k, v), N32))
  BY DEF Store, Date32Append, Unix, Rounded, Rounding, Coarse, Fine, Decimals
<1>3. \A raw : Number(k, raw) = raw
  BY DEF Number
<1>4. Rounded(k, v) \in Int /\ (Fits(k, v) => Rounded(k, v) \in Span(k))
  BY <1>1, RoundedIs
<1> HIDE DEF k
<1>5. PICK q \in Int : q = Rounded(k, v)
  BY <1>4
<1>6. /\ Wrap(q, N32) \in -(N32 \div 2)..N32 \div 2 - 1
      /\ q \in -(N32 \div 2)..N32 \div 2 - 1 => Wrap(q, N32) = q
  BY Bits, WrapIs
<1>7. Keeps(k, v, Store(k, v))
  BY <1>1, <1>2, <1>3, <1>4, <1>5, <1>6 DEF Keeps, Good
<1> QED
  BY <1>7 DEF k

LEMMA DateTime64Keeps ==
    ASSUME scale \in 0..Digits, NEW v \in Int
    PROVE  Keeps("DateTime64", v, Store("DateTime64", v))
<1> DEFINE k == "DateTime64"
<1>1. k \in Numbers /\ Span(k) = -(N64 \div 2)..N64 \div 2 - 1 /\ Stored(k) = Span(k)
  BY DEF Numbers, Times, Span, Stored, Enums
<1>2. Store(k, v) = Good(Quo(Wrap(v, N64), Scale(scale)))
  BY DEF Store, DateTime64Append
<1>3. \A raw : Number(k, raw) = raw
  BY DEF Number
<1>4. Rounded(k, v) = Quo(v, Scale(scale))
  <2>1. v \div 1 = v
    BY FloorOfOne
  <2> QED
    BY <2>1 DEF Rounded, Rounding, Coarse, Fine
<1>5. Fits(k, v) => v \in Span(k)
  BY DEF Fits
<1> HIDE DEF k
<1>6. PICK h \in Nat \ {0} : h = N64 \div 2
  BY Bits, HalfOf
<1>7. /\ Wrap(v, N64) \in -h..h - 1
      /\ v \in -h..h - 1 => Wrap(v, N64) = v
  BY <1>6, Bits, WrapIs
<1>8. PICK w \in -h..h - 1 : w = Wrap(v, N64)
  BY <1>7
<1>9. Quo(w, Scale(scale)) \in -h..h - 1
  <2>1. PICK d \in Nat \ {0} : d = Scale(scale)
    BY ScaleIs
  <2>2. PICK q \in Int : q = Quo(w, d)
    BY QuoIs
  <2>3. w >= 0 => 0 <= q /\ q <= w
    BY <2>2, QuoIs
  <2>4. w < 0 => q <= 0 /\ w <= q
    BY <2>2, QuoIs
  <2> QED
    BY <2>1, <2>2, <2>3, <2>4
<1>10. Keeps(k, v, Store(k, v))
  BY <1>1, <1>2, <1>3, <1>4, <1>5, <1>6, <1>7, <1>8, <1>9 DEF Keeps, Good
<1> QED
  BY <1>10 DEF k

LEMMA Decimal32Keeps ==
    ASSUME scale \in 0..Digits, NEW v \in Int
    PROVE  Keeps("Decimal32", v, Store("Decimal32", v))
<1> DEFINE k == "Decimal32"
<1>1. k \in Numbers /\ k \in Decimals /\ Span(k) = -(N32 \div 2)..N32 \div 2 - 1 /\ Stored(k) = Span(k)
  BY DEF Numbers, Decimals, Span, Stored, Enums
<1>2. Store(k, v) = Good(Wrap(Wrap(Rounded(k, v), N64), N32))
  BY <1>1, ShiftedIs DEF Store, Decimal32Append
<1>3. \A raw : Number(k, raw) = raw
  BY DEF Number
<1>4. Rounded(k, v) \in Int /\ (Fits(k, v) => Rounded(k, v) \in Span(k))
  BY <1>1, RoundedIs
<1> HIDE DEF k
<1>5. PICK q \in Int : q = Rounded(k, v)
  BY <1>4
<1>6. PICK g \in Nat \ {0}, h \in Nat \ {0} : g = N32 \div 2 /\ h = N64 \div 2 /\ g < h
  <2>1. /\ N32 \div 2 \in Nat \ {0} /\ N32 = 2 * (N32 \div 2)
        /\ N64 \div 2 \in Nat \ {0} /\ N64 = 2 * (N64 \div 2)
    BY Bits, HalfOf
  <2> QED
    BY <2>1, Bits
<1>7. Wrap(q, N64) \in -h..h - 1 /\ (q \in -h..h - 1 => Wrap(q, N64) = q)
  BY <1>6, Bits, WrapIs
<1>8. PICK w \in -h..h - 1 : w = Wrap(q, N64)
  BY <1>7
<1>9. Wrap(w, N32) \in -g..g - 1 /\ (w \in -g..g - 1 => Wrap(w, N32) = w)
  BY <1>6, Bits, WrapIs
<1>10. q \in -g..g - 1 => Wrap(Wrap(q, N64), N32) = q
  BY <1>6, <1>7, <1>8, <1>9
<1>11. Keeps(k, v, Store(k, v))
  BY <1>1, <1>2, <1>3, <1>4, <1>5, <1>6, <1>8, <1>9, <1>10 DEF Keeps, Good
<1> QED
  BY <1>11 DEF k

LEMMA Decimal64Keeps ==
    ASSUME scale \in 0..Digits, NEW v \in Int
    PROVE  Keeps("Decimal64", v, Store("Decimal64", v))
<1> DEFINE k == "Decimal64"
<1>1. k \in Numbers /\ k \in Decimals /\ Span(k) = -(N64 \div 2)..N64 \div 2 - 1 /\ Stored(k) = Span(k)
  BY DEF Numbers, Decimals, Span, Stored, Enums
<1>2. Store(k, v) = Good(Wrap(Rounded(k, v), N64))
  BY <1>1, ShiftedIs DEF Store, Decimal64Append
<1>3. \A raw : Number(k, raw) = raw
  BY DEF Number
<1>4. Rounded(k, v) \in Int /\ (Fits(k, v) => Rounded(k, v) \in Span(k))
  BY <1>1, RoundedIs
<1> HIDE DEF k
<1>5. PICK q \in Int : q = Rounded(k, v)
  BY <1>4
<1>6. /\ Wrap(q, N64) \in -(N64 \div 2)..N64 \div 2 - 1
      /\ q \in -(N64 \div 2)..N64 \div 2 - 1 => Wrap(q, N64) = q
  BY Bits, WrapIs
<1>7. Keeps(k, v, Store(k, v))
  BY <1>1, <1>2, <1>3, <1>4, <1>5, <1>6 DEF Keeps, Good
<1> QED
  BY <1>7 DEF k

LEMMA Int128Keeps ==
    ASSUME scale \in 0..Digits, NEW v \in Int
    PROVE  /\ Keeps("Int128", v, Store("Int128", v))
           /\ Refuses("Int128", v, Store("Int128", v))
<1> DEFINE k == "Int128"
<1>1. k \in Numbers /\ k \in Wides /\ Span(k) = -Half128..Half128 - 1 /\ Stored(k) = Wide
  BY Halves DEF Numbers, Wides, Times, Span, Stored, Enums, Half128
<1>2. Store(k, v) = Int128FromBigInt(Rounded(k, v))
  BY <1>1, WideRounds DEF Store
<1>3. \A raw : Number(k, raw) = Int128ToBigInt(raw)
  BY DEF Number
<1>4. Rounded(k, v) \in Int
  BY <1>1, RoundedIs
<1> HIDE DEF k
<1>5. PICK q \in Int : q = Rounded(k, v)
  BY <1>4
<1>6. PICK r : r = Int128FromBigInt(q)
  OBVIOUS
<1>7. /\ r.err \in BOOLEAN
      /\ r.err <=> q \notin -Half128..Half128 - 1
      /\ ~r.err => r.v \in Wide /\ Int128ToBigInt(r.v) = q
  BY <1>6, From128
<1>8. Keeps(k, v, Store(k, v)) /\ Refuses(k, v, Store(k, v))
  BY <1>1, <1>2, <1>3, <1>5, <1>6, <1>7 DEF Keeps, Refuses
<1> QED
  BY <1>8 DEF k

LEMMA Decimal128Keeps ==
    ASSUME scale \in 0..Digits, NEW v \in Int
    PROVE  /\ Keeps("Decimal128", v, Store("Decimal128", v))
           /\ Refuses("Decimal128", v, Store("Decimal128", v))
<1> DEFINE k == "Decimal128"
<1>1. k \in Numbers /\ k \in Decimals /\ Span(k) = -Half128..Half128 - 1 /\ Stored(k) = Wide
  BY Halves DEF Numbers, Decimals, Times, Span, Stored, Enums, Half128
<1>2. Store(k, v) = Int128FromBigInt(Rounded(k, v))
  BY <1>1, ShiftedIs DEF Store, Decimal128Append
<1>3. \A raw : Number(k, raw) = Int128ToBigInt(raw)
  BY DEF Number
<1>4. Rounded(k, v) \in Int
  BY <1>1, RoundedIs
<1> HIDE DEF k
<1>5. PICK q \in Int : q = Rounded(k, v)
  BY <1>4
<1>6. PICK r : r = Int128FromBigInt(q)
  OBVIOUS
<1>7. /\ r.err \in BOOLEAN
      /\ r.err <=> q \notin -Half128..Half128 - 1
      /\ ~r.err => r.v \in Wide /\ Int128ToBigInt(r.v) = q
  BY <1>6, From128
<1>8. Keeps(k, v, Store(k, v)) /\ Refuses(k, v, Store(k, v))
  BY <1>1, <1>2, <1>3, <1>5, <1>6, <1>7 DEF Keeps, Refuses
<1> QED
  BY <1>8 DEF k

LEMMA UInt128Keeps ==
    ASSUME scale \in 0..Digits, NEW v \in Int
    PROVE  /\ Keeps("UInt128", v, Store("UInt128", v))
           /\ Refuses("UInt128", v, Store("UInt128", v))
<1> DEFINE k == "UInt128"
<1>1. k \in Numbers /\ k \in Wides /\ Span(k) = 0..Twice - 1 /\ Stored(k) = Wide
  BY Halves DEF Numbers, Wides, Times, Span, Stored, Enums
<1>2. Store(k, v) = UInt128FromBigInt(Rounded(k, v))
  BY <1>1, WideRounds DEF Store
<1>3. \A raw : Number(k, raw) = UInt128ToBigInt(raw)
  BY DEF Number
<1>4. Rounded(k, v) \in Int
  BY <1>1, RoundedIs
<1> HIDE DEF k
<1>5. PICK q \in Int : q = Rounded(k, v)
  BY <1>4
<1>6. PICK r : r = UInt128FromBigInt(q)
  OBVIOUS
<1>7. /\ r.err \in BOOLEAN
      /\ r.err <=> q \notin 0..Twice - 1
      /\ ~r.err => r.v \in Wide /\ UInt128ToBigInt(r.v) = q
  BY <1>6, FromU128
<1>8. Keeps(k, v, Store(k, v)) /\ Refuses(k, v, Store(k, v))
  BY <1>1, <1>2, <1>3, <1>5, <1>6, <1>7 DEF Keeps, Refuses
<1> QED
  BY <1>8 DEF k

LEMMA Int256Keeps ==
    ASSUME scale \in 0..Digits, NEW v \in Int
    PROVE  /\ Keeps("Int256", v, Store("Int256", v))
           /\ Refuses("Int256", v, Store("Int256", v))
<1> DEFINE k == "Int256"
<1>1. k \in Numbers /\ k \in Wides /\ Span(k) = -Half256..Half256 - 1 /\ Stored(k) = Wider
  BY Halves DEF Numbers, Wides, Times, Span, Stored, Enums, Half256
<1>2. Store(k, v) = Int256FromBigInt(Rounded(k, v))
  BY <1>1, WideRounds DEF Store
<1>3. \A raw : Number(k, raw) = Int256ToBigInt(raw)
  BY DEF Number
<1>4. Rounded(k, v) \in Int
  BY <1>1, RoundedIs
<1> HIDE DEF k
<1>5. PICK q \in Int : q = Rounded(k, v)
  BY <1>4
<1>6. PICK r : r = Int256FromBigInt(q)
  OBVIOUS
<1>7. /\ r.err \in BOOLEAN
      /\ r.err <=> q \notin -Half256..Half256 - 1
      /\ ~r.err => r.v \in Wider /\ Int256ToBigInt(r.v) = q
  BY <1>6, From256
<1>8. Keeps(k, v, Store(k, v)) /\ Refuses(k, v, Store(k, v))
  BY <1>1, <1>2, <1>3, <1>5, <1>6, <1>7 DEF Keeps, Refuses
<1> QED
  BY <1>8 DEF k

LEMMA Decimal256Keeps ==
    ASSUME scale \in 0..Digits, NEW v \in Int
    PROVE  /\ Keeps("Decimal256", v, Store("Decimal256", v))
           /\ Refuses("Decimal256", v, Store("Decimal256", v))
<1> DEFINE k == "Decimal256"
<1>1. k \in Numbers /\ k \in Decimals /\ Span(k) = -Half256..Half256 - 1 /\ Stored(k) = Wider
  BY Halves DEF Numbers, Decimals, Times, Span, Stored, Enums, Half256
<1>2. Store(k, v) = Int256FromBigInt(Rounded(k, v))
  BY <1>1, ShiftedIs DEF Store, Decimal256Append
<1>3. \A raw : Number(k, raw) = Int256ToBigInt(raw)
  BY DEF Number
<1>4. Rounded(k, v) \in Int
  BY <1>1, RoundedIs
<1> HIDE DEF k
<1>5. PICK q \in Int : q = Rounded(k, v)
  BY <1>4
<1>6. PICK r : r = Int256FromBigInt(q)
  OBVIOUS
<1>7. /\ r.err \in BOOLEAN
      /\ r.err <=> q \notin -Half256..Half256 - 1
      /\ ~r.err => r.v \in Wider /\ Int256ToBigInt(r.v) = q
  BY <1>6, From256
<1>8. Keeps(k, v, Store(k, v)) /\ Refuses(k, v, Store(k, v))
  BY <1>1, <1>2, <1>3, <1>5, <1>6, <1>7 DEF Keeps, Refuses
<1> QED
  BY <1>8 DEF k

LEMMA UInt256Keeps ==
    ASSUME scale \in 0..Digits, NEW v \in Int
    PROVE  /\ Keeps("UInt256", v, Store("UInt256", v))
           /\ Refuses("UInt256", v, Store("UInt256", v))
<1> DEFINE k == "UInt256"
<1>1. k \in Numbers /\ k \in Wides /\ Span(k) = 0..Twice * Twice - 1 /\ Stored(k) = Wider
  BY Halves DEF Numbers, Wides, Times, Span, Stored, Enums
<1>2. Store(k, v) = UInt256FromBigInt(Rounded(k, v))
  BY <1>1, WideRounds DEF Store
<1>3. \A raw : Number(k, raw) = UInt256ToBigInt(raw)
  BY DEF Number
<1>4. Rounded(k, v) \in Int
  BY <1>1, RoundedIs
<1> HIDE DEF k
<1>5. PICK q \in Int : q = Rounded(k, v)
  BY <1>4
<1>6. PICK r : r = UInt256FromBigInt(q)
  OBVIOUS
<1>7. /\ r.err \in BOOLEAN
      /\ r.err <=> q \notin 0..Twice * Twice - 1
      /\ ~r.err => r.v \in Wider /\ UInt256ToBigInt(r.v) = q
  BY <1>6, FromU256
<1>8. Keeps(k, v, Store(k, v)) /\ Refuses(k, v, Store(k, v))
  BY <1>1, <1>2, <1>3, <1>5, <1>6, <1>7 DEF Keeps, Refuses
<1> QED
  BY <1>8 DEF k

LEMMA StoreKeeps ==
    ASSUME NEW k \in Numbers, scale \in 0..Digits, NEW v \in Int
    PROVE  /\ Keeps(k, v, Store(k, v))
           /\ k \in Wides \cup {"Decimal128", "Decimal256"} => Refuses(k, v, Store(k, v))
<1>1. CASE k \in {"Date", "Date32", "DateTime", "DateTime64"}
  BY <1>1, DateKeeps, Date32Keeps, DateTimeKeeps, DateTime64Keeps DEF Wides
<1>2. CASE k \in {"Decimal32", "Decimal64"}
  BY <1>2, Decimal32Keeps, Decimal64Keeps DEF Wides
<1>3. CASE k \in {"Int128", "UInt128", "Decimal128"}
  BY <1>3, Int128Keeps, UInt128Keeps, Decimal128Keeps
<1>4. CASE k \in {"Int256", "UInt256", "Decimal256"}
  BY <1>4, Int256Keeps, UInt256Keeps, Decimal256Keeps
<1> QED
  BY <1>1, <1>2, <1>3, <1>4 DEF Numbers, Wides, Decimals, Times

\* So does a decode, of what the server means.
LEMMA WireKeeps ==
    ASSUME NEW k \in Numbers, scale \in 0..Digits, NEW n \in Span(k)
    PROVE  /\ n \in Int /\ n * Unit(k) \in Int
           /\ FromWire(k, n) \in Stored(k)
           /\ Number(k, FromWire(k, n)) = Rounded(k, n * Unit(k))
<1>1. n \in Int
  BY SpanIs
<1>2. Rounded(k, n * Unit(k)) = n /\ n * Unit(k) \in Int
  <2>1. PICK u \in Nat \ {0} : u = Unit(k)
    BY RoundedIs, 0 \in Int
  <2> QED
    BY <1>1, <2>1, RoundedBack
<1>3. ASSUME k \in {"Int128", "UInt128", "Decimal128"}
      PROVE  FromWire(k, n) \in Stored(k) /\ Number(k, FromWire(k, n)) = n
  <2>1. PICK v : v = ReadLE128(LE(n, 2 * WordBytes)) /\ v = FromWire(k, n)
    BY <1>3 DEF FromWire
  <2>2. /\ v \in Wide
        /\ n \in 0..Twice - 1 => UInt128ToBigInt(v) = n
        /\ n \in -Half128..Half128 - 1 => Int128ToBigInt(v) = n
    BY <1>1, <2>1, Wire128
  <2>3. Stored(k) = Wide
    BY <1>3 DEF Stored, Enums
  <2>4. CASE k = "UInt128"
    <3>1. n \in 0..Twice - 1 /\ Number(k, v) = UInt128ToBigInt(v)
      BY <2>4, Halves DEF Span, Number
    <3> QED
      BY <3>1, <2>1, <2>2, <2>3
  <2>5. CASE k # "UInt128"
    <3>1. n \in -Half128..Half128 - 1 /\ Number(k, v) = Int128ToBigInt(v)
      BY <2>5, <1>3, Halves DEF Span, Number, Half128
    <3> QED
      BY <3>1, <2>1, <2>2, <2>3
  <2> QED
    BY <2>4, <2>5
<1>4. ASSUME k \in {"Int256", "UInt256", "Decimal256"}
      PROVE  FromWire(k, n) \in Stored(k) /\ Number(k, FromWire(k, n)) = n
  <2>1. PICK v : v = ReadLE256(LE(n, 4 * WordBytes)) /\ v = FromWire(k, n)
    BY <1>4 DEF FromWire
  <2>2. /\ v \in Wider
        /\ n \in 0..Twice * Twice - 1 => UInt256ToBigInt(v) = n
        /\ n \in -Half256..Half256 - 1 => Int256ToBigInt(v) = n
    BY <1>1, <2>1, Wire256
  <2>3. Stored(k) = Wider
    BY <1>4 DEF Stored, Enums
  <2>4. CASE k = "UInt256"
    <3>1. n \in 0..Twice * Twice - 1 /\ Number(k, v) = UInt256ToBigInt(v)
      BY <2>4, Halves DEF Span, Number
    <3> QED
      BY <3>1, <2>1, <2>2, <2>3
  <2>5. CASE k # "UInt256"
    <3>1. n \in -Half256..Half256 - 1 /\ Number(k, v) = Int256ToBigInt(v)
      BY <2>5, <1>4, Halves DEF Span, Number, Half256
    <3> QED
      BY <3>1, <2>1, <2>2, <2>3
  <2> QED
    BY <2>4, <2>5
<1>5. ASSUME k \in Times \cup {"Decimal32", "Decimal64"}
      PROVE  FromWire(k, n) \in Stored(k) /\ Number(k, FromWire(k, n)) = n
  <2>1. FromWire(k, n) = n /\ Stored(k) = Span(k) /\ \A raw : Number(k, raw) = raw
    BY <1>5 DEF FromWire, Stored, Number, Times, Enums
  <2> QED
    BY <2>1
<1> QED
  BY <1>1, <1>2, <1>3, <1>4, <1>5 DEF Numbers, Wides, Decimals

-----------------------------------------------------------------------------
(* Row reads what was rounded, in order. *)

LEMMA Scaled ==
    ASSUME NEW a \in Int, NEW b \in Int, a <= b, NEW u \in Nat
    PROVE  a * u \in Int /\ b * u \in Int /\ a * u <= b * u
<1>1. PICK d \in Nat : b = a + d
  <2>1. b - a \in Nat /\ b = a + (b - a)
    OBVIOUS
  <2> QED
    BY <2>1
<1>2. PICK x \in Int, y \in Nat : x = a * u /\ y = d * u
  OBVIOUS
<1>3. b * u = x + y
  BY <1>1, <1>2
<1> QED
  BY <1>2, <1>3

LEMMA RowIs ==
    ASSUME NEW k \in Numbers, scale \in 0..Digits, NEW v \in Int, Fits(k, v),
           NEW raw, Number(k, raw) = Rounded(k, v)
    PROVE  Row(k, raw) = Rounded(k, v) * Unit(k)
<1>1. PICK q \in Int, s \in Nat \ {0}, d \in Nat \ {0}, f \in Nat \ {0} :
        q = Rounded(k, v) /\ s = Second /\ d = DaySeconds /\ f = Scale(scale)
        /\ Power(Ten, Digits - scale) = f
  BY RoundedIs, ScaleIs, ScalarsAssumption
<1>2. CASE k \in {"Date", "Date32"}
  <2>1. Row(k, raw) = q * d * s /\ Unit(k) = d * s
    BY <1>1, <1>2 DEF Row, DateRow, Unit, Number, Decimals
  <2>2. q * d * s = q * (d * s)
    OBVIOUS
  <2> QED
    BY <2>1, <2>2, <1>1
<1>3. CASE k = "DateTime"
  <2>1. Row(k, raw) = q * s /\ Unit(k) = s
    BY <1>1, <1>3 DEF Row, DateTimeRow, Unit, Number, Decimals
  <2> QED
    BY <2>1, <1>1
<1>4. CASE k = "DateTime64"
  <2>1. Row(k, raw) = Wrap(q * f, N64) /\ Unit(k) = f
    BY <1>1, <1>4 DEF Row, DateTime64Row, Unit, Number, Decimals
  <2>2. PICK h \in Nat \ {0} : h = N64 \div 2
    BY Bits, HalfOf
  <2>3. v \in -h..h - 1
    BY <2>2, <1>4 DEF Fits, Span
  <2>4. q = Quo(v, f)
    <3>1. v \div 1 = v
      BY FloorOfOne
    <3> QED
      BY <3>1, <1>1, <1>4 DEF Rounded, Rounding, Coarse, Fine
  <2>5. PICK c \in Int : c = q * f
    BY <1>1
  <2>6. v >= 0 => 0 <= c /\ c <= v
    <3>1. v >= 0 => 0 <= q /\ q * f <= v
      BY <2>4, QuoIs
    <3>2. 0 <= q => 0 * f <= q * f /\ 0 * f = 0
      BY Scaled, 0 \in Int
    <3> QED
      BY <3>1, <3>2, <2>5
  <2>7. v < 0 => c <= 0 /\ v <= c
    <3>1. v < 0 => q <= 0 /\ v <= q * f
      BY <2>4, QuoIs
    <3>2. q <= 0 => q * f <= 0 * f /\ 0 * f = 0
      BY Scaled, 0 \in Int
    <3> QED
      BY <3>1, <3>2, <2>5
  <2>8. c \in -h..h - 1
    BY <2>3, <2>6, <2>7
  <2>9. Wrap(c, N64) = c
    BY <2>2, <2>8, Bits, WrapIs
  <2> QED
    BY <2>1, <2>5, <2>9, <1>1
<1>5. CASE k \in Decimals
  <2>1. Row(k, raw) = Number(k, raw) * f /\ Unit(k) = f
    <3>1. Unit(k) = f
      BY <1>1, <1>5 DEF Unit, Decimals
    <3>2. CASE k \in {"Decimal32", "Decimal64"}
      BY <3>1, <3>2, <1>1 DEF Row, DecimalRow, Number
    <3>3. CASE k = "Decimal128"
      BY <3>1, <3>3, <1>1 DEF Row, DecimalRow, Number
    <3>4. CASE k = "Decimal256"
      BY <3>1, <3>4, <1>1 DEF Row, DecimalRow, Number
    <3> QED
      BY <3>2, <3>3, <3>4, <1>5 DEF Decimals
  <2> QED
    BY <2>1, <1>1
<1>6. CASE k \in Wides
  <2>1. Row(k, raw) = Number(k, raw)
    <3>1. k = "Int128" => Row(k, raw) = Number(k, raw)
      BY DEF Row, Number
    <3>2. k = "Int256" => Row(k, raw) = Number(k, raw)
      BY DEF Row, Number
    <3>3. k = "UInt128" => Row(k, raw) = Number(k, raw)
      BY DEF Row, Number
    <3>4. k = "UInt256" => Row(k, raw) = Number(k, raw)
      BY DEF Row, Number
    <3> QED
      BY <3>1, <3>2, <3>3, <3>4, <1>6 DEF Wides
  <2>2. Unit(k) = 1
    BY <1>6 DEF Unit, Wides, Decimals
  <2>3. q * 1 = q
    OBVIOUS
  <2> QED
    BY <2>1, <2>2, <2>3, <1>1
<1> QED
  BY <1>2, <1>3, <1>4, <1>5, <1>6 DEF Numbers, Times

\* What no value is near to is out of range.
LEMMA Nearest ==
    ASSUME NEW k \in Wides \cup Decimals, scale \in 0..Digits, NEW v \in Int
    PROVE  Rounded(k, v) \notin Span(k) <=>
             \A n \in Span(k) : v <= (n - 1) * Unit(k) \/ v >= (n + 1) * Unit(k)
<1>0. k \in Numbers
  BY DEF Numbers
<1>1. PICK u \in Nat \ {0}, q \in Int : u = Unit(k) /\ q = Rounded(k, v) /\ Abs(q * u - v) < u
  BY <1>0, RoundedIs
<1>2. PICK c \in Int : c = q * u
  OBVIOUS
<1>3. (q - 1) * u = c - u /\ (q + 1) * u = c + u
  BY <1>2
<1>4. ~(v <= (q - 1) * u \/ v >= (q + 1) * u)
  BY <1>1, <1>2, <1>3 DEF Abs
<1>5. ASSUME NEW n \in Span(k), ~(v <= (n - 1) * u \/ v >= (n + 1) * u)
      PROVE  q \in Span(k)
  <2>1. PICK lo \in Int, hi \in Int : Span(k) = lo..hi /\ lo <= 0 /\ 0 <= hi
    BY <1>0, SpanIs
  <2>2. n \in Int
    BY <2>1
  <2>3. PICK d \in Nat \ {0} : 1 = Coarse(k) /\ d = Fine(k) /\ u = 1 * d /\ u = d /\ q = Quo(v, d)
    <3>1. Coarse(k) = 1
      BY DEF Coarse, Wides, Decimals
    <3>2. v \div 1 = v
      BY FloorOfOne
    <3>3. PICK d \in Nat \ {0} : d = Fine(k) /\ u = 1 * d
      BY <1>0, <1>1, <3>1, UnitIs
    <3> QED
      BY <1>1, <3>1, <3>2, <3>3 DEF Rounded, Rounding
  <2>4. /\ v \div u \in Int
        /\ v >= 0 => q = v \div u
        /\ v < 0 => v \div u <= q /\ q <= 0
    <3>1. 1 \in Nat \ {0} /\ q = Rounding(v, 1, d)
      BY <2>3, FloorOfOne DEF Rounding
    <3> QED
      BY <2>3, <3>1, Rounds
  <2>5. PICK x \in Int : x = n * u
    BY <2>2
  <2>6. (n - 1) * u = x - u /\ (n + 1) * u = x + u
    BY <2>2, <2>5
  <2>7. x - u < v /\ v < x + u
    BY <1>5, <2>6
  <2>8. c < x + u + u /\ x - u - u < c
    BY <2>7, <1>1, <1>2 DEF Abs
  <2>9. v >= 0 => q <= n /\ 0 <= q
    <3>1. ASSUME v >= 0, q > n PROVE FALSE
      <4>1. (n + 1) * u <= q * u
        BY <2>2, <3>1, Scaled
      <4>2. c <= v
        <5>1. PICK f \in Nat : f = v \div u /\ q = f
          BY <2>4, <3>1, FloorSign
        <5>2. v = f * u + (v % u) /\ v % u \in 0..u - 1
          BY <5>1, Floor
        <5> QED
          BY <5>1, <5>2, <1>2
      <4> QED
        BY <4>1, <4>2, <2>5, <2>6, <2>7, <1>2
    <3>2. v >= 0 => 0 <= q
      BY <2>4, FloorSign
    <3> QED
      BY <3>1, <3>2, <2>2
  <2>10. v < 0 => n <= q /\ q <= 0
    <3>1. ASSUME v < 0, q < n PROVE FALSE
      <4>1. (q + 1) * u <= n * u
        BY <2>2, <3>1, Scaled
      <4>2. v <= c
        BY <2>3, <3>1, <1>2, QuoIs
      <4> QED
        BY <4>1, <4>2, <2>5, <2>6, <2>7, <1>2, <1>3
    <3> QED
      BY <3>1, <2>2, <2>4
  <2> QED
    BY <2>1, <2>9, <2>10
<1> QED
  BY <1>1, <1>4, <1>5

\* Cmp is the order of the numbers, but for Int256.
LEMMA CmpIs ==
    ASSUME NEW k \in Wides \ {"Int256"}, NEW v \in Stored(k), NEW x \in Stored(k)
    PROVE  Cmp(k, v, x) = Sign(Number(k, v) - Number(k, x))
<1>1. CASE k = "Int128"
  <2>1. Stored(k) = Wide /\ Cmp(k, v, x) = Int128Cmp(v, x) /\ \A raw : Number(k, raw) = Int128ToBigInt(raw)
    BY <1>1 DEF Stored, Enums, Cmp, Number
  <2> QED
    BY <2>1, Cmp128
<1>2. CASE k = "UInt128"
  <2>1. Stored(k) = Wide /\ Cmp(k, v, x) = UInt128Cmp(v, x) /\ \A raw : Number(k, raw) = UInt128ToBigInt(raw)
    BY <1>2 DEF Stored, Enums, Cmp, Number
  <2> QED
    BY <2>1, CmpU128, To128
<1>3. CASE k = "UInt256"
  <2>1. Stored(k) = Wider /\ Cmp(k, v, x) = UInt256Cmp(v, x) /\ \A raw : Number(k, raw) = UInt256ToBigInt(raw)
    BY <1>3 DEF Stored, Enums, Cmp, Number
  <2> QED
    BY <2>1, CmpU256, To256
<1> QED
  BY <1>1, <1>2, <1>3 DEF Wides

LEMMA InputsAre ==
    ASSUME NEW k \in Numbers
    PROVE  Inputs(k) \subseteq Int /\ NextInputs(k) \subseteq Int
<1>1. Inputs(k) \subseteq Int
  <2>1. Reach \in Nat /\ WideReach \in Nat
    BY ScalarsAssumption
  <2> QED
    BY <2>1 DEF Inputs
<1>2. Landmarks \subseteq Int
  <2>1. PICK t \in Nat \ {0}, h \in Nat : t = Power(Word, 2) /\ h = t \div 2
    <3>1. Power(Word, 2) \in Nat \ {0} /\ Power(Word, 2) \div 2 \in Nat
      BY Halves, TopBits DEF Half128
    <3> QED
      BY <3>1
  <2>2. Edges \subseteq Int
    BY <2>1 DEF Edges
  <2>3. ASSUME NEW s \in {-1, 1}, NEW a \in Edges, NEW b \in Edges PROVE s * a * t + b \in Int
    <3>1. s \in Int /\ a \in Int /\ b \in Int
      BY <2>2, <2>3
    <3>2. s * a \in Int
      BY <3>1
    <3> QED
      BY <3>1, <3>2
  <2> QED
    BY <2>1, <2>3 DEF Landmarks
<1> QED
  BY <1>1, <1>2 DEF NextInputs

-----------------------------------------------------------------------------
(* Enums: the maps of the latest Infer. *)

\* A run of members in range, names and values distinct.
Prefix(ps, k) ==
    /\ DOMAIN ps \subseteq {1, 2}
    /\ \A i \in DOMAIN ps : ps[i].name \in Names /\ ps[i].value \in EnumRange(k)
    /\ \A i, j \in DOMAIN ps : i # j => ps[i].name # ps[j].name /\ ps[i].value # ps[j].value

LEMMA PrefixIs ==
    ASSUME NEW k, NEW t \in ProperTypes, NEW ps, ps = InRangePrefix(k, t)
    PROVE  Prefix(ps, k)
<1>1. PICK a \in Names, b \in Names, i \in -(N16 \div 2)..N16 \div 2, j \in {-1, 0, N8 \div 2} :
        t = <<[name |-> a, value |-> i], [name |-> b, value |-> j]>>
  BY DEF ProperTypes, EnumTypes
<1>2. PICK p, q : p = [name |-> a, value |-> i] /\ q = [name |-> b, value |-> j] /\ t = <<p, q>>
  BY <1>1
<1>3. t[1] = p /\ t[2] = q
  BY <1>2
<1>4. p.name # q.name /\ p.value # q.value /\ p.name \in Names /\ q.name \in Names
  BY <1>2, <1>3 DEF ProperTypes
<1>5. CASE t[1].value \notin EnumRange(k)
  <2>1. ps = << >>
    BY <1>5 DEF InRangePrefix
  <2>2. DOMAIN ps = {}
    BY <2>1
  <2> QED
    BY <2>2 DEF Prefix
<1>6. CASE t[1].value \in EnumRange(k) /\ t[2].value \notin EnumRange(k)
  <2>1. ps = <<p>>
    BY <1>3, <1>6 DEF InRangePrefix
  <2>2. DOMAIN ps = {1} /\ ps[1] = p
    BY <2>1
  <2> QED
    BY <2>2, <1>3, <1>4, <1>6 DEF Prefix
<1>7. CASE t[1].value \in EnumRange(k) /\ t[2].value \in EnumRange(k)
  <2>1. ps = <<p, q>>
    BY <1>2, <1>7 DEF InRangePrefix
  <2>2. DOMAIN ps = {1, 2} /\ ps[1] = p /\ ps[2] = q
    BY <2>1
  <2> QED
    BY <2>2, <1>3, <1>4, <1>7 DEF Prefix
<1> QED
  BY <1>5, <1>6, <1>7

\* The two maps are each other's inverse, and read ps.
LEMMA MapsOf ==
    ASSUME NEW k, NEW ps, Prefix(ps, k)
    PROVE  /\ ValuesOf(ps) \subseteq EnumRange(k) /\ NamesOf(ps) \subseteq Names
           /\ \A s \in NamesOf(ps) : ValueOf(ps, s) \in ValuesOf(ps) /\ NameOf(ps, ValueOf(ps, s)) = s
<1>1. ValuesOf(ps) \subseteq EnumRange(k) /\ NamesOf(ps) \subseteq Names
  BY DEF Prefix, ValuesOf, NamesOf
<1>2. ASSUME NEW s \in NamesOf(ps)
      PROVE  ValueOf(ps, s) \in ValuesOf(ps) /\ NameOf(ps, ValueOf(ps, s)) = s
  <2>1. \E i \in DOMAIN ps : ps[i].name = s
    BY DEF NamesOf
  <2>2. PICK i : i = CHOOSE x \in DOMAIN ps : ps[x].name = s
    OBVIOUS
  <2>3. i \in DOMAIN ps /\ ps[i].name = s
    BY <2>1, <2>2
  <2>4. PICK v : v = ps[i].value /\ ValueOf(ps, s) = v
    BY <2>2 DEF ValueOf
  <2>5. PICK j : j = CHOOSE x \in DOMAIN ps : ps[x].value = v
    OBVIOUS
  <2>6. j \in DOMAIN ps /\ ps[j].value = v
    BY <2>3, <2>4, <2>5
  <2>7. j = i
    BY <2>3, <2>4, <2>6 DEF Prefix
  <2>8. NameOf(ps, v) = ps[j].name
    BY <2>5 DEF NameOf
  <2> QED
    BY <2>3, <2>4, <2>7, <2>8 DEF ValuesOf
<1> QED
  BY <1>1, <1>2

-----------------------------------------------------------------------------
(* The inductive invariant. *)

\* As Rounded and Fits, of any scale.
FineAt(k, sc) ==
    CASE k \in {"Date", "Date32"} -> DaySeconds
      [] k \in Decimals \cup {"DateTime64"} -> Power(Ten, Digits - sc)
      [] OTHER -> 1
RoundedAt(k, sc, v) == Rounding(v, Coarse(k), FineAt(k, sc))
FitsAt(k, sc, v) ==
    /\ v \div (Coarse(k) * FineAt(k, sc)) \in Span(k)
    /\ k = "DateTime64" => v \in Span(k)

\* raw is what v was rounded to, if v fits.
Kept(k, sc, raw, v) == FitsAt(k, sc, v) => Number(k, raw) = RoundedAt(k, sc, v)

LEMMA KeptIs ==
    ASSUME NEW k \in Numbers, scale \in 0..Digits, NEW v, NEW raw
    PROVE  Kept(k, scale, raw, v) <=> (Fits(k, v) => Number(k, raw) = Rounded(k, v))
<1>1. FineAt(k, scale) = Fine(k)
  BY DEF FineAt, Fine, Scale
<1>2. Unit(k) = Coarse(k) * Fine(k)
  BY UnitIs
<1> QED
  BY <1>1, <1>2 DEF Kept, FitsAt, Fits, RoundedAt, Rounded

EnumGiven == [name : Names \cup {"", "sent"}, value : Int]
Given(k) == IF k \in Enums THEN EnumGiven ELSE Int

\* The maps of an enum: names map to values that map back, and unless the
\* latest Infer failed values read as the type says.
EnumInv ==
    /\ ValuesOf(enum.t) \subseteq EnumRange(kind)
    /\ DOMAIN enum.strToRaw \subseteq Names
    /\ \A s \in DOMAIN enum.strToRaw :
          /\ enum.strToRaw[s] \in EnumRange(kind)
          /\ enum.strToRaw[s] \in DOMAIN enum.rawToStr
          /\ enum.rawToStr[enum.strToRaw[s]] = s
    /\ ~enum.failed =>
          /\ DOMAIN enum.rawToStr = ValuesOf(enum.t)
          /\ \A v \in ValuesOf(enum.t) : enum.rawToStr[v] = NameOf(enum.t, v)

TypeInv ==
    /\ kind \in Kinds
    /\ scale \in 0..Digits
    /\ EnumInv
    /\ Data \in Seq(Stored(kind)) /\ given \in Seq(Given(kind))
    /\ Len(Data) = Len(given) /\ Len(Data) <= MaxRows

\* Every row is what was rounded, or the name or number that was given.
RowsInv ==
    /\ kind \notin Enums => \A i \in DOMAIN Data : Kept(kind, scale, Data[i], given[i])
    /\ EnumReads

LEMMA KindsAre ==
    /\ Kinds \subseteq Numbers \cup Enums
    /\ Numbers \cap Enums = {}
BY ScalarsAssumption DEF Numbers, Enums, Wides, Decimals, Times

LEMMA EnumRangeIs ==
    ASSUME NEW k
    PROVE  EnumRange(k) \subseteq Int /\ 0 \in EnumRange(k)
<1>1. PICK g \in Nat \ {0}, h \in Nat \ {0} : g = N8 \div 2 /\ h = N16 \div 2
  BY Bits, HalfOf
<1> QED
  BY <1>1 DEF EnumRange

\* Append to a sequence, and a sequence of one.
LEMMA Appended ==
    ASSUME NEW S, NEW q \in Seq(S), NEW x \in S
    PROVE  /\ Append(q, x) \in Seq(S) /\ Len(Append(q, x)) = Len(q) + 1 /\ Len(q) \in Nat
           /\ DOMAIN Append(q, x) = 1..Len(q) + 1 /\ DOMAIN q = 1..Len(q)
           /\ \A i \in 1..Len(q) : Append(q, x)[i] = q[i]
           /\ Append(q, x)[Len(q) + 1] = x
OBVIOUS

LEMMA OneRow ==
    ASSUME NEW S, NEW x \in S
    PROVE  <<x>> \in Seq(S) /\ Len(<<x>>) = 1 /\ DOMAIN <<x>> = {1} /\ <<x>>[1] = x
OBVIOUS

LEMMA NoRows ==
    ASSUME NEW S
    PROVE  << >> \in Seq(S) /\ Len(<< >>) = 0 /\ DOMAIN << >> = {}
OBVIOUS

LEMMA InitInv == Init => TypeInv /\ RowsInv
<1> SUFFICES ASSUME Init PROVE TypeInv /\ RowsInv
  OBVIOUS
<1>1. /\ kind \in Kinds /\ scale = 0 /\ Data = << >> /\ given = << >>
      /\ enum = [t |-> << >>, rawToStr |-> << >>, strToRaw |-> << >>, failed |-> FALSE]
  BY DEF Init, NoEnum
<1>2. DOMAIN << >> = {}
  BY NoRows
<1>3. EnumInv
  BY <1>1, <1>2 DEF EnumInv, ValuesOf
<1>4. scale \in 0..Digits /\ MaxRows \in Nat
  <2>1. Digits \in Nat /\ MaxRows \in Nat
    BY ScalarsAssumption
  <2> QED
    BY <2>1, <1>1
<1>5. TypeInv
  BY <1>1, <1>3, <1>4, NoRows DEF TypeInv
<1>6. RowsInv
  BY <1>1, <1>2 DEF RowsInv, EnumReads
<1> QED
  BY <1>5, <1>6

LEMMA InferStep ==
    ASSUME TypeInv, Infer
    PROVE  TypeInv'
<1>1. CASE DecimalInfer \/ DateTime64Infer
  <2>1. scale' \in 0..Digits /\ UNCHANGED <<kind, enum, Data, given>>
    BY <1>1 DEF DecimalInfer, DateTime64Infer
  <2> QED
    BY <2>1 DEF TypeInv, EnumInv
<1>2. ASSUME NEW t \in ProperTypes, EnumInfer(t)
      PROVE  TypeInv'
  <2>1. PICK ps : ps = InRangePrefix(kind, t)
    OBVIOUS
  <2>2. Prefix(ps, kind)
    BY <2>1, PrefixIs
  <2>3. UNCHANGED <<kind, scale, Data, given>>
    BY <1>2 DEF EnumInfer
  <2>4. enum' = [t |-> IF ps = t THEN t ELSE enum.t,
                 rawToStr |-> [v \in ValuesOf(ps) |-> NameOf(ps, v)],
                 strToRaw |-> [s \in NamesOf(ps) |-> ValueOf(ps, s)],
                 failed |-> ps # t]
    BY <1>2, <2>1 DEF EnumInfer
  <2>5. /\ enum'.t = IF ps = t THEN ps ELSE enum.t
        /\ enum'.rawToStr = [v \in ValuesOf(ps) |-> NameOf(ps, v)]
        /\ enum'.strToRaw = [s \in NamesOf(ps) |-> ValueOf(ps, s)]
        /\ enum'.failed = (ps # t)
    BY <2>4
  <2>6. /\ ValuesOf(ps) \subseteq EnumRange(kind) /\ NamesOf(ps) \subseteq Names
        /\ \A s \in NamesOf(ps) : ValueOf(ps, s) \in ValuesOf(ps) /\ NameOf(ps, ValueOf(ps, s)) = s
    BY <2>2, MapsOf
  <2>7. ValuesOf(enum'.t) \subseteq EnumRange(kind)
    BY <2>5, <2>6 DEF TypeInv, EnumInv
  <2>8. EnumInv'
    <3>1. PICK e : e = enum'
      OBVIOUS
    <3>2. /\ DOMAIN e.strToRaw = NamesOf(ps) /\ DOMAIN e.rawToStr = ValuesOf(ps)
          /\ \A s \in NamesOf(ps) : e.strToRaw[s] = ValueOf(ps, s)
          /\ \A v \in ValuesOf(ps) : e.rawToStr[v] = NameOf(ps, v)
      BY <2>5, <3>1
    <3>3. /\ DOMAIN e.strToRaw \subseteq Names
          /\ \A s \in DOMAIN e.strToRaw :
                /\ e.strToRaw[s] \in EnumRange(kind)
                /\ e.strToRaw[s] \in DOMAIN e.rawToStr
                /\ e.rawToStr[e.strToRaw[s]] = s
      BY <2>6, <3>2
    <3>4. ASSUME ~e.failed
          PROVE  /\ DOMAIN e.rawToStr = ValuesOf(e.t)
                 /\ \A v \in ValuesOf(e.t) : e.rawToStr[v] = NameOf(e.t, v)
      <4>1. e.t = ps
        BY <2>5, <3>1, <3>4
      <4> QED
        BY <3>2, <4>1
    <3>5. kind' = kind
      BY <2>3
    <3> QED
      BY <2>7, <3>1, <3>3, <3>4, <3>5 DEF EnumInv
  <2> QED
    BY <2>3, <2>8 DEF TypeInv
<1> QED
  BY <1>1, <1>2 DEF Infer

\* A row more: the others stay.
LEMMA RowAdded ==
    ASSUME TypeInv, NEW raw \in Stored(kind), NEW g \in Given(kind), Len(Data) < MaxRows,
           Data' = Append(Data, raw), given' = Append(given, g)
    PROVE  /\ Data' \in Seq(Stored(kind)) /\ given' \in Seq(Given(kind))
           /\ Len(Data') = Len(given') /\ Len(Data') <= MaxRows
           /\ \A i \in DOMAIN Data' :
                 \/ Data'[i] = raw /\ given'[i] = g
                 \/ i \in DOMAIN Data /\ Data'[i] = Data[i] /\ given'[i] = given[i]
<1>1. Data \in Seq(Stored(kind)) /\ given \in Seq(Given(kind)) /\ Len(Data) = Len(given)
  BY DEF TypeInv
<1>2. PICK n \in Nat : n = Len(Data) /\ n + 1 <= MaxRows
  <2>1. MaxRows \in Nat
    BY ScalarsAssumption
  <2> QED
    BY <2>1, <1>1
<1>3. /\ Data' \in Seq(Stored(kind)) /\ Len(Data') = n + 1
      /\ DOMAIN Data' = 1..n + 1 /\ DOMAIN Data = 1..n
      /\ \A i \in 1..n : Data'[i] = Data[i]
      /\ Data'[n + 1] = raw
  BY <1>1, <1>2, Appended
<1>4. /\ given' \in Seq(Given(kind)) /\ Len(given') = n + 1
      /\ \A i \in 1..n : given'[i] = given[i]
      /\ given'[n + 1] = g
  BY <1>1, <1>2, Appended
<1>5. \A i \in 1..n + 1 : i = n + 1 \/ i \in 1..n
  OBVIOUS
<1> QED
  BY <1>2, <1>3, <1>4, <1>5

LEMMA AppendNumberStep ==
    ASSUME TypeInv, AppendNumber
    PROVE  /\ TypeInv'
           /\ RowsInv => RowsInv'
<1>1. PICK v, s :
        /\ v \in NextInputs(kind) /\ s = Store(kind, v) /\ ~s.err
        /\ Data' = Append(Data, s.v) /\ given' = Append(given, v)
  BY DEF AppendNumber
<1>2. kind \in Numbers /\ kind \notin Enums /\ UNCHANGED <<kind, scale, enum>> /\ scale \in 0..Digits
      /\ Len(Data) < MaxRows
  BY KindsAre DEF AppendNumber, TypeInv
<1>3. v \in Int
  BY <1>1, <1>2, InputsAre
<1>4. s.v \in Stored(kind) /\ Kept(kind, scale, s.v, v)
  BY <1>1, <1>2, <1>3, StoreKeeps, KeptIs DEF Keeps
<1>5. v \in Given(kind)
  BY <1>2, <1>3 DEF Given
<1>6. /\ Data' \in Seq(Stored(kind)) /\ given' \in Seq(Given(kind))
      /\ Len(Data') = Len(given') /\ Len(Data') <= MaxRows
      /\ \A i \in DOMAIN Data' :
            \/ Data'[i] = s.v /\ given'[i] = v
            \/ i \in DOMAIN Data /\ Data'[i] = Data[i] /\ given'[i] = given[i]
  BY <1>1, <1>2, <1>4, <1>5, RowAdded
<1>7. TypeInv'
  BY <1>2, <1>6 DEF TypeInv, EnumInv
<1>8. ASSUME RowsInv PROVE RowsInv'
  <2>1. ASSUME NEW i \in DOMAIN Data' PROVE Kept(kind, scale, Data'[i], given'[i])
    BY <1>2, <1>4, <1>6, <1>8 DEF RowsInv
  <2> QED
    BY <2>1, <1>2 DEF RowsInv, EnumReads
<1> QED
  BY <1>7, <1>8

\* What EnumReads says of one row.
Reads(raw, g) ==
    /\ g.name \in Names \ {""} => EnumRow(raw) = g
    /\ g.name = "sent" /\ ~enum.failed =>
         EnumRow(raw) = IF g.value \in ValuesOf(enum.t)
                        THEN [name |-> NameOf(enum.t, g.value), value |-> 0]
                        ELSE [name |-> "itoa", value |-> g.value]

LEMMA ReadsNext ==
    ASSUME UNCHANGED <<kind, enum>>, \A i \in DOMAIN Data' : Reads(Data'[i], given'[i])
    PROVE  EnumReads'
<1>1. ASSUME NEW i \in DOMAIN Data'
      PROVE  /\ given'[i].name \in Names \ {""} => EnumRow(Data[i])' = given'[i]
             /\ given'[i].name = "sent" /\ ~enum'.failed =>
                  EnumRow(Data[i])' = IF given'[i].value \in ValuesOf(enum'.t)
                                     THEN [name |-> NameOf(enum'.t, given'[i].value), value |-> 0]
                                     ELSE [name |-> "itoa", value |-> given'[i].value]
  <2>1. EnumRow(Data[i])' = EnumRow(Data'[i]) /\ enum' = enum
    BY DEF EnumRow
  <2> QED
    BY <2>1 DEF Reads
<1> QED
  BY <1>1 DEF EnumReads

LEMMA AppendNameStep ==
    ASSUME TypeInv, AppendName
    PROVE  /\ TypeInv'
           /\ RowsInv => RowsInv'
<1>0. 0 \in Int
  OBVIOUS
<1>1. PICK s, raw, g :
        /\ s \in DOMAIN enum.strToRaw \cup {""}
        /\ raw = EnumAppend(s) /\ g = [name |-> s, value |-> 0]
        /\ Data' = Append(Data, raw) /\ given' = Append(given, g)
  BY DEF AppendName
<1>2. kind \in Enums /\ UNCHANGED <<kind, scale, enum>> /\ Len(Data) < MaxRows
  BY DEF AppendName
<1>3. EnumInv
  BY DEF TypeInv
<1>4. raw \in Stored(kind)
  <2>1. Stored(kind) = EnumRange(kind)
    BY <1>2 DEF Stored, Enums
  <2>2. CASE s = ""
    BY <2>1, <2>2, <1>1, EnumRangeIs DEF EnumAppend
  <2>3. CASE s # ""
    BY <2>1, <2>3, <1>1, <1>3 DEF EnumAppend, EnumInv
  <2> QED
    BY <2>2, <2>3
<1>5. g \in Given(kind)
  <2>0. DOMAIN enum.strToRaw \subseteq Names
    BY <1>3 DEF EnumInv
  <2>1. s \in Names \cup {"", "sent"}
    BY <2>0, <1>1, Zenon
  <2>2. g \in EnumGiven
    <3>1. g = [name |-> s, value |-> 0]
      BY <1>1
    <3> QED
      BY ONLY <2>1, <3>1, <1>0 DEF EnumGiven
  <2> QED
    BY <2>2, <1>2 DEF Given
<1>6. /\ Data' \in Seq(Stored(kind)) /\ given' \in Seq(Given(kind))
      /\ Len(Data') = Len(given') /\ Len(Data') <= MaxRows
      /\ \A i \in DOMAIN Data' :
            \/ Data'[i] = raw /\ given'[i] = g
            \/ i \in DOMAIN Data /\ Data'[i] = Data[i] /\ given'[i] = given[i]
  <2>1. Data' = Append(Data, raw) /\ given' = Append(given, g) /\ Len(Data) < MaxRows
    BY <1>1, <1>2
  <2> QED
    BY ONLY <2>1, <1>4, <1>5, TypeInv, RowAdded
<1>7. TypeInv'
  BY <1>2, <1>6 DEF TypeInv, EnumInv
<1>8. g.name = s /\ s # "sent" /\ (s \in Names \ {""} => EnumRow(raw) = g)
  <2>1. g.name = s
    BY <1>1
  <2>2. "sent" \notin Names
    BY ScalarsAssumption
  <2>3. s # "sent"
    BY <2>2, <1>1, <1>3 DEF EnumInv
  <2>4. ASSUME s \in Names \ {""} PROVE EnumRow(raw) = g
    <3>1. s \in DOMAIN enum.strToRaw /\ s # ""
      BY <1>1, <2>2, <2>4
    <3>2. raw = enum.strToRaw[s]
      BY <3>1, <1>1 DEF EnumAppend
    <3>3. raw \in DOMAIN enum.rawToStr /\ enum.rawToStr[raw] = s
      BY <3>1, <3>2, <1>3 DEF EnumInv
    <3> QED
      BY <3>3, <1>1 DEF EnumRow
  <2> QED
    BY <2>1, <2>3, <2>4
<1>9. Reads(raw, g)
  BY <1>8 DEF Reads
<1>10. ASSUME RowsInv PROVE RowsInv'
  <2>1. \A i \in DOMAIN Data : Reads(Data[i], given[i])
    BY <1>2, <1>10 DEF RowsInv, EnumReads, Reads
  <2>2. \A i \in DOMAIN Data' : Reads(Data'[i], given'[i])
    BY ONLY <2>1, <1>6, <1>9
  <2>4. EnumReads'
    BY <2>2, <1>2, ReadsNext
  <2> QED
    BY <2>4, <1>2 DEF RowsInv
<1> QED
  BY <1>7, <1>10

LEMMA DecodeNumberStep ==
    ASSUME TypeInv, DecodeNumber
    PROVE  TypeInv' /\ (RowsInv => RowsInv')
<1>1. PICK n, raw, v :
        /\ n \in Span(kind) /\ raw = FromWire(kind, n) /\ v = n * Unit(kind)
        /\ Data' = <<raw>> /\ given' = <<v>>
  BY DEF DecodeNumber
<1>2. kind \in Numbers /\ kind \notin Enums /\ UNCHANGED <<kind, scale, enum>> /\ scale \in 0..Digits
  BY KindsAre DEF DecodeNumber, TypeInv
<1>3. raw \in Stored(kind) /\ v \in Int /\ Kept(kind, scale, raw, v)
  BY <1>1, <1>2, WireKeeps, KeptIs
<1>4. v \in Given(kind)
  BY <1>2, <1>3 DEF Given
<1>5. Data' \in Seq(Stored(kind)) /\ Len(Data') = 1 /\ DOMAIN Data' = {1} /\ Data'[1] = raw
  BY <1>1, <1>3, OneRow
<1>6. given' \in Seq(Given(kind)) /\ Len(given') = 1 /\ given'[1] = v
  BY <1>1, <1>4, OneRow
<1>7. 1 <= MaxRows
  <2>1. MaxRows \in Nat \ {0}
    BY ScalarsAssumption
  <2> QED
    BY <2>1
<1>8. TypeInv'
  BY <1>2, <1>5, <1>6, <1>7 DEF TypeInv, EnumInv
<1>9. RowsInv'
  <2>1. \A i \in DOMAIN Data' : Kept(kind, scale, Data'[i], given'[i])
    BY <1>3, <1>5, <1>6
  <2> QED
    BY <2>1, <1>2 DEF RowsInv, EnumReads
<1> QED
  BY <1>8, <1>9

LEMMA DecodeEnumStep ==
    ASSUME TypeInv, DecodeEnum
    PROVE  TypeInv' /\ (RowsInv => RowsInv')
<1>1. PICK n, g :
        /\ n \in EnumRange(kind) /\ g = [name |-> "sent", value |-> n]
        /\ Data' = <<n>> /\ given' = <<g>>
  BY DEF DecodeEnum
<1>2. kind \in Enums /\ UNCHANGED <<kind, scale, enum>>
  BY DEF DecodeEnum
<1>3. n \in Int /\ n \in Stored(kind)
  BY <1>1, <1>2, EnumRangeIs DEF Stored, Enums
<1>4. g \in Given(kind)
  <2>1. g = [name |-> "sent", value |-> n] /\ n \in Int
    BY <1>1, <1>3
  <2>2. g \in EnumGiven
    BY ONLY <2>1 DEF EnumGiven
  <2> QED
    BY <2>2, <1>2 DEF Given
<1>5. Data' \in Seq(Stored(kind)) /\ Len(Data') = 1 /\ DOMAIN Data' = {1} /\ Data'[1] = n
  BY <1>1, <1>3, OneRow
<1>6. given' \in Seq(Given(kind)) /\ Len(given') = 1 /\ given'[1] = g
  BY <1>1, <1>4, OneRow
<1>7. 1 <= MaxRows
  <2>1. MaxRows \in Nat \ {0}
    BY ScalarsAssumption
  <2> QED
    BY <2>1
<1>8. TypeInv'
  BY <1>2, <1>5, <1>6, <1>7 DEF TypeInv, EnumInv
<1>9. g.name = "sent" /\ g.value = n /\ "sent" \notin Names
  BY <1>1, ScalarsAssumption
<1>10. ASSUME ~enum.failed
       PROVE  EnumRow(n) = IF n \in ValuesOf(enum.t)
                           THEN [name |-> NameOf(enum.t, n), value |-> 0]
                           ELSE [name |-> "itoa", value |-> n]
  <2>1. /\ DOMAIN enum.rawToStr = ValuesOf(enum.t)
        /\ \A v \in ValuesOf(enum.t) : enum.rawToStr[v] = NameOf(enum.t, v)
    BY <1>10 DEF TypeInv, EnumInv
  <2> QED
    BY <2>1 DEF EnumRow
<1>11. Reads(n, g)
  BY <1>9, <1>10 DEF Reads
<1>12. EnumReads'
  <2>1. \A i \in DOMAIN Data' : Reads(Data'[i], given'[i])
    BY <1>5, <1>6, <1>11
  <2> QED
    BY <2>1, <1>2, ReadsNext
<1> QED
  BY <1>2, <1>8, <1>12 DEF RowsInv

LEMMA ResetStep ==
    ASSUME TypeInv, Reset
    PROVE  TypeInv' /\ (RowsInv => RowsInv')
<1>1. Data' = << >> /\ given' = << >> /\ UNCHANGED <<kind, scale, enum>>
  BY DEF Reset
<1>2. /\ Data' \in Seq(Stored(kind)) /\ given' \in Seq(Given(kind))
      /\ Len(Data') = 0 /\ Len(given') = 0 /\ DOMAIN Data' = {}
  BY <1>1, NoRows
<1>3. 0 <= MaxRows
  <2>1. MaxRows \in Nat
    BY ScalarsAssumption
  <2> QED
    BY <2>1
<1>4. TypeInv'
  BY <1>1, <1>2, <1>3 DEF TypeInv, EnumInv
<1>5. RowsInv'
  BY <1>1, <1>2 DEF RowsInv, EnumReads
<1> QED
  BY <1>4, <1>5

\* Rows stay when Infer comes first.
LEMMA InferRows ==
    ASSUME TypeInv, Infer, ~Reinfer
    PROVE  RowsInv'
<1>1. Data = << >> /\ UNCHANGED Data
  BY DEF Infer, DecimalInfer, DateTime64Infer, EnumInfer
<1>2. DOMAIN Data' = {}
  BY <1>1, NoRows
<1> QED
  BY <1>2 DEF RowsInv, EnumReads

LEMMA TypeStep == TypeInv /\ [Next]_vars => TypeInv'
<1> SUFFICES ASSUME TypeInv, [Next]_vars PROVE TypeInv'
  OBVIOUS
<1>1. CASE UNCHANGED vars
  BY <1>1 DEF vars, TypeInv, EnumInv
<1> QED
  BY <1>1, InferStep, AppendNumberStep, AppendNameStep, DecodeNumberStep, DecodeEnumStep, ResetStep
  DEF Next

LEMMA RowsStep == ~Reinfer /\ TypeInv /\ RowsInv /\ [Next]_vars => RowsInv'
<1> SUFFICES ASSUME ~Reinfer, TypeInv, RowsInv, [Next]_vars PROVE RowsInv'
  OBVIOUS
<1>1. CASE UNCHANGED vars
  BY <1>1 DEF vars, RowsInv, EnumReads, EnumRow
<1> QED
  BY <1>1, InferRows, AppendNumberStep, AppendNameStep, DecodeNumberStep, DecodeEnumStep, ResetStep
  DEF Next

-----------------------------------------------------------------------------
(* The properties. *)

\* The types of all variables, whatever is appended, sent or inferred.
THEOREM TypeCorrect == Spec => []TypeOK
<1>1. Spec => []TypeInv
  <2>1. Init => TypeInv
    BY InitInv
  <2> QED
    BY <2>1, TypeStep, PTL DEF Spec
<1>2. TypeInv => TypeOK
  <2> SUFFICES ASSUME TypeInv PROVE TypeOK
    OBVIOUS
  <2>1. \A i \in DOMAIN Data : Data[i] \in Stored(kind)
    BY DEF TypeInv
  <2>2. Stored(kind) = CASE kind \in Enums -> EnumRange(kind)
                         [] kind \in {"Int128", "UInt128", "Decimal128"} -> Wide
                         [] kind \in {"Int256", "UInt256", "Decimal256"} -> Wider
                         [] OTHER -> Span(kind)
    BY DEF Stored
  <2>3. ASSUME NEW i \in DOMAIN Data
        PROVE  CASE kind \in Enums -> Data[i] \in EnumRange(kind)
                 [] kind \in {"Int128", "UInt128", "Decimal128"} -> Data[i] \in Wide
                 [] kind \in {"Int256", "UInt256", "Decimal256"} -> Data[i] \in Wider
                 [] OTHER -> Data[i] \in Span(kind)
    BY <2>1, <2>2 DEF Enums
  <2> QED
    BY <2>3 DEF TypeOK, TypeInv, EnumInv
<1> QED
  BY <1>1, <1>2, PTL

LEMMA RowsAlways == ~Reinfer => (Spec => [](TypeInv /\ RowsInv))
<1> SUFFICES ASSUME ~Reinfer PROVE Spec => [](TypeInv /\ RowsInv)
  OBVIOUS
<1>1. TypeInv /\ RowsInv /\ [Next]_vars => (TypeInv /\ RowsInv)'
  BY TypeStep, RowsStep
<1> QED
  BY <1>1, InitInv, PTL DEF Spec

\* A row of numbers that fit, as the invariant has it.
LEMMA RowKept ==
    ASSUME TypeInv, RowsInv, kind \notin Enums, NEW i \in DOMAIN Data
    PROVE  /\ kind \in Numbers /\ scale \in 0..Digits /\ given[i] \in Int
           /\ Data[i] \in Stored(kind)
           /\ Fits(kind, given[i]) =>
                /\ Number(kind, Data[i]) = Rounded(kind, given[i])
                /\ Row(kind, Data[i]) = Rounded(kind, given[i]) * Unit(kind)
<1>1. kind \in Numbers /\ scale \in 0..Digits
  BY KindsAre DEF TypeInv
<1>2. given \in Seq(Int) /\ Data \in Seq(Stored(kind)) /\ Len(Data) = Len(given)
  BY DEF TypeInv, Given
<1>3. given[i] \in Int /\ Data[i] \in Stored(kind)
  BY <1>2
<1>4. Fits(kind, given[i]) => Number(kind, Data[i]) = Rounded(kind, given[i])
  BY <1>1, KeptIs DEF RowsInv
<1> QED
  BY <1>1, <1>3, <1>4, RowIs

\* A row reads as it was appended or sent, to within the unit of the column:
\* Append, Row and the decode fit together, if Infer is not called between.
THEOREM RowIsGivenHolds == ~Reinfer => (Spec => []RowIsGiven)
<1>1. TypeInv /\ RowsInv => RowIsGiven
  <2> SUFFICES ASSUME TypeInv, RowsInv, kind \notin Enums,
                      NEW i \in DOMAIN Data, Fits(kind, given[i])
               PROVE  Abs(Row(kind, Data[i]) - given[i]) < Unit(kind)
    BY DEF RowIsGiven
  <2> QED
    BY RowKept, RoundedIs
<1> QED
  BY <1>1, RowsAlways, PTL

\* Rows are in the order of what was appended, and Cmp of the wide integers,
\* Int256 aside, is the order of the numbers.
THEOREM OrderKeptHolds == ~Reinfer => (Spec => []OrderKept)
<1>1. TypeInv /\ RowsInv => OrderKept
  <2> SUFFICES ASSUME TypeInv, RowsInv, kind \notin Enums, NEW i \in DOMAIN Data, NEW j \in DOMAIN Data,
                      Fits(kind, given[i]), Fits(kind, given[j])
               PROVE  /\ given[i] <= given[j] => Row(kind, Data[i]) <= Row(kind, Data[j])
                      /\ kind \in Wides \ {"Int256"} =>
                           Cmp(kind, Data[i], Data[j]) = Sign(given[i] - given[j])
    BY DEF OrderKept
  <2>1. /\ kind \in Numbers /\ scale \in 0..Digits /\ given[i] \in Int /\ given[j] \in Int
        /\ Data[i] \in Stored(kind) /\ Data[j] \in Stored(kind)
        /\ Number(kind, Data[i]) = Rounded(kind, given[i])
        /\ Number(kind, Data[j]) = Rounded(kind, given[j])
        /\ Row(kind, Data[i]) = Rounded(kind, given[i]) * Unit(kind)
        /\ Row(kind, Data[j]) = Rounded(kind, given[j]) * Unit(kind)
    BY RowKept
  <2>2. PICK p \in Int, q \in Int, u \in Nat :
          p = Rounded(kind, given[i]) /\ q = Rounded(kind, given[j]) /\ u = Unit(kind)
    BY <2>1, RoundedIs
  <2>3. ASSUME given[i] <= given[j] PROVE Row(kind, Data[i]) <= Row(kind, Data[j])
    <3>1. p <= q
      BY <2>1, <2>2, <2>3, RoundedGrows
    <3>2. p * u <= q * u
      BY <3>1, Scaled
    <3> QED
      BY <3>2, <2>1, <2>2
  <2>4. ASSUME kind \in Wides \ {"Int256"}
        PROVE  Cmp(kind, Data[i], Data[j]) = Sign(given[i] - given[j])
    BY <2>1, <2>4, WideRounds, CmpIs
  <2> QED
    BY <2>3, <2>4
<1> QED
  BY <1>1, RowsAlways, PTL

\* "returns error if out of range", and only then.
THEOREM OutOfRangeRefusedHolds == Spec => []OutOfRangeRefused
<1>1. Spec => []TypeInv
  BY InitInv, TypeStep, PTL DEF Spec
<1>2. TypeInv => OutOfRangeRefused
  <2> SUFFICES ASSUME TypeInv, kind \in Wides \cup {"Decimal128", "Decimal256"},
                      NEW v \in Inputs(kind)
               PROVE  Store(kind, v).err <=>
                        \A n \in Span(kind) : v <= (n - 1) * Unit(kind) \/ v >= (n + 1) * Unit(kind)
    BY DEF OutOfRangeRefused
  <2>1. kind \in Wides \cup Decimals /\ kind \in Numbers /\ scale \in 0..Digits
    BY DEF TypeInv, Decimals, Numbers
  <2>2. v \in Int
    BY <2>1, InputsAre
  <2>3. Store(kind, v).err <=> Rounded(kind, v) \notin Span(kind)
    BY <2>1, <2>2, StoreKeeps DEF Refuses
  <2> QED
    BY <2>1, <2>2, <2>3, Nearest
<1> QED
  BY <1>1, <1>2, PTL

\* Enum rows read as the name they were appended by, also after an Infer that
\* failed, and rows that were sent as the type says.
THEOREM EnumReadsHolds == ~Reinfer => (Spec => []EnumReads)
<1>1. TypeInv /\ RowsInv => EnumReads
  BY DEF RowsInv
<1> QED
  BY <1>1, RowsAlways, PTL

=============================================================================
