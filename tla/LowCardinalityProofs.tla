------------------------ MODULE LowCardinalityProofs ------------------------
(***************************************************************************)
(* Proofs about LowCardinality, for any values, any base of the key bytes  *)
(* and dictionaries and blocks of any size.                                *)
(***************************************************************************)
EXTENDS LowCardinality, Counting, SequenceTheorems

-----------------------------------------------------------------------------
(* Place values. *)

\* The place values are the powers of Radix: Place is well defined.
LEMMA PlaceIs ==
    /\ Place[0] = 1
    /\ \A j \in 1..8 : Place[j] = Radix * Place[j - 1]
<1> DEFINE R == Radix
           F(g) == [j \in 0..8 |-> IF j = 0 THEN 1 ELSE R * g[j - 1]]
           p0 == 1
           p1 == R * p0
           p2 == R * p1
           p3 == R * p2
           p4 == R * p3
           p5 == R * p4
           p6 == R * p5
           p7 == R * p6
           p8 == R * p7
           g == [j \in 0..8 |-> CASE j = 0 -> p0 [] j = 1 -> p1 [] j = 2 -> p2 [] j = 3 -> p3
                                  [] j = 4 -> p4 [] j = 5 -> p5 [] j = 6 -> p6 [] j = 7 -> p7
                                  [] OTHER -> p8]
<1>1. /\ g[0] = p0 /\ g[1] = p1 /\ g[2] = p2 /\ g[3] = p3 /\ g[4] = p4
      /\ g[5] = p5 /\ g[6] = p6 /\ g[7] = p7 /\ g[8] = p8
  <2> HIDE DEF p0, p1, p2, p3, p4, p5, p6, p7, p8
  <2> QED
    OBVIOUS
<1>2. ASSUME NEW j \in 0..8
      PROVE  g[j] = IF j = 0 THEN 1 ELSE R * g[j - 1]
  <2>1. j \in {0, 1, 2, 3, 4, 5, 6, 7, 8}
    OBVIOUS
  <2> HIDE DEF g, R
  <2> QED
    BY <2>1, <1>1
<1>3. g = F(g)
  <2>1. g = [j \in 0..8 |-> g[j]]
    OBVIOUS
  <2> HIDE DEF g
  <2> QED
    BY <2>1, <1>2
<1>4. Place = CHOOSE f : f = F(f)
  BY DEF Place
<1> HIDE DEF g
<1>5. Place = F(Place)
  BY <1>3, <1>4
<1> QED
  BY <1>5
LEMMA PlaceType ==
    /\ Radix \in Nat \ {0, 1}
    /\ \A j \in 0..8 : Place[j] \in Nat \ {0}
    /\ \A j \in 1..8 : Place[j] = Place[j - 1] * Radix
<1>1. Radix \in Nat \ {0, 1}
  BY LowCardinalityAssumption
<1>2. \A a, b \in Nat \ {0} : a * b \in Nat \ {0} /\ a * b = b * a
  OBVIOUS
<1>3. \A j \in 1..8 : Place[j - 1] \in Nat \ {0} => Place[j] \in Nat \ {0} /\ Place[j] = Place[j - 1] * Radix
  BY <1>1, <1>2, PlaceIs
<1>4. Place[0] \in Nat \ {0}
  BY PlaceIs
<1>5. \A j \in 0..8 : Place[j] \in Nat \ {0}
  BY <1>3, <1>4
<1> QED
  BY <1>1, <1>3, <1>5

-----------------------------------------------------------------------------
(* Keys as bytes. *)

Widths == {1, 2, 4, 8}

LEMMA WidthType ==
    \A kt \in KeyTypes : Width(kt) \in Widths
BY DEF KeyTypes, Width, Widths

\* Where the bytes of a key lie among the others.
LEMMA BytePlace ==
    ASSUME NEW w \in Widths, NEW n \in Nat, NEW i \in 1..n, NEW j \in 1..w,
           NEW x, x = (i - 1) * w + j
    PROVE  x \in 1..n * w /\ ((x - 1) \div w) + 1 = i /\ (x - 1) % w = j - 1
<1>1. CASE w = 1
  BY <1>1
<1>2. CASE w = 2
  BY <1>2
<1>3. CASE w = 4
  BY <1>3
<1>4. CASE w = 8
  BY <1>4
<1> QED
  BY <1>1, <1>2, <1>3, <1>4 DEF Widths

\* The number of keys is that of the bytes over the width.
LEMMA ByteCount ==
    ASSUME NEW w \in Widths, NEW n \in Nat
    PROVE  n * w \in Nat /\ (n * w) \div w = n /\ (n * w) % w = 0
BY DEF Widths

LEMMA PutKeysType ==
    ASSUME NEW w \in Widths, NEW ks \in Seq(Nat)
    PROVE  /\ PutKeys(ks, w) \in Seq(Byte)
           /\ Len(PutKeys(ks, w)) = Len(ks) * w
           /\ \A i \in 1..Len(ks), j \in 1..w :
                 PutKeys(ks, w)[(i - 1) * w + j] = (ks[i] \div Place[j - 1]) % Radix
<1> DEFINE bs == PutKeys(ks, w)
           n == Len(ks)
<1>1. n \in Nat /\ n * w \in Nat /\ w \in 1..8
  BY ByteCount DEF Widths
<1>2. bs = [x \in 1..n * w |-> (ks[((x - 1) \div w) + 1] \div Place[(x - 1) % w]) % Radix]
  BY DEF PutKeys
<1>3. ASSUME NEW x \in 1..n * w
      PROVE  (ks[((x - 1) \div w) + 1] \div Place[(x - 1) % w]) % Radix \in Byte
  <2>1. ((x - 1) \div w) + 1 \in 1..n /\ (x - 1) % w \in 0..8
    BY <1>1 DEF Widths
  <2>2. PICK i \in 1..n : i = ((x - 1) \div w) + 1
    BY <2>1
  <2>3. PICK j \in 0..8 : j = (x - 1) % w
    BY <2>1
  <2>4. ks[i] \in Nat /\ Place[j] \in Nat \ {0} /\ Radix \in Nat \ {0}
    <3>1. ks[i] \in Nat
      OBVIOUS
    <3> QED
      BY <3>1, PlaceType
  <2>5. (ks[i] \div Place[j]) % Radix \in Byte
    BY <2>4, Digit DEF Byte
  <2> QED
    BY <2>2, <2>3, <2>5
<1>4. bs \in [1..n * w -> Byte]
  BY <1>2, <1>3
<1>5. bs \in Seq(Byte) /\ Len(bs) = n * w
  BY <1>1, <1>4
<1>6. ASSUME NEW i \in 1..n, NEW j \in 1..w
      PROVE  bs[(i - 1) * w + j] = (ks[i] \div Place[j - 1]) % Radix
  <2>1. PICK x : x = (i - 1) * w + j
    OBVIOUS
  <2>2. x \in 1..n * w /\ ((x - 1) \div w) + 1 = i /\ (x - 1) % w = j - 1
    <3>1. PICK m \in Nat : m = n
      BY <1>1
    <3>2. m \in Nat /\ i \in 1..m /\ j \in 1..w /\ w \in Widths /\ x = (i - 1) * w + j
      BY <2>1, <3>1
    <3>3. x \in 1..m * w /\ ((x - 1) \div w) + 1 = i /\ (x - 1) % w = j - 1
      BY ONLY <3>2, BytePlace
    <3> HIDE DEF n
    <3> QED
      BY <3>1, <3>3, Zenon
  <2>4. bs[x] = (ks[((x - 1) \div w) + 1] \div Place[(x - 1) % w]) % Radix
    BY <1>2, <2>2
  <2> HIDE DEF bs
  <2> QED
    BY <2>1, <2>2, <2>4
<1> QED
  BY <1>5, <1>6

\* key reads what PutKeys has put, if it fits the width.
LEMMA KeyOfBytes ==
    ASSUME NEW w \in Widths, NEW ks \in Seq(Nat), NEW i \in 1..Len(ks), ks[i] < Place[w]
    PROVE  key(PutKeys(ks, w), w, i) = ks[i]
<1> DEFINE n == ks[i]
           b(j) == PutKeys(ks, w)[(i - 1) * w + j] * Place[j - 1]
           T(j) == (n \div Place[j]) * Place[j]
<1>1. n \in Nat /\ n = ks[i] /\ n < Place[w]
  OBVIOUS
<1>2. ASSUME NEW j \in 0..8
      PROVE  T(j) \in Nat
  <2>1. Place[j] \in Nat \ {0}
    BY PlaceType
  <2>2. n \div Place[j] \in Nat
    <3>1. \A x \in Nat, p \in Nat \ {0} : x \div p \in Nat
      OBVIOUS
    <3> QED
      BY <1>1, <2>1, <3>1, Zenon
  <2>3. \A x, y \in Nat : x * y \in Nat
    OBVIOUS
  <2> QED
    BY <2>1, <2>2, <2>3
<1>3. T(0) = n
  BY <1>1, PlaceIs
<1>4. T(w) = 0
  <2>0. w \in 0..8
    BY DEF Widths
  <2>1. Place[w] \in Nat \ {0}
    BY <2>0, PlaceType
  <2>2. \A x \in Nat, y \in Nat \ {0} : x < y => x \div y = 0
    OBVIOUS
  <2>3. n \div Place[w] = 0
    BY <1>1, <2>1, <2>2
  <2> QED
    BY <2>1, <2>3
<1>5. ASSUME NEW j \in 1..w
      PROVE  b(j) = T(j - 1) - T(j)
  <2>1. j \in 1..8 /\ j - 1 \in 0..8
    BY DEF Widths
  <2>2. PutKeys(ks, w)[(i - 1) * w + j] = (n \div Place[j - 1]) % Radix
    BY PutKeysType
  <2>3. /\ Place[j - 1] \in Nat \ {0} /\ Radix \in Nat \ {0}
        /\ Place[j] = Place[j - 1] * Radix
    BY <2>1, PlaceType
  <2>4. ((n \div Place[j - 1]) % Radix) * Place[j - 1] =
            (n \div Place[j - 1]) * Place[j - 1]
            - (n \div (Place[j - 1] * Radix)) * (Place[j - 1] * Radix)
    BY <1>1, <2>3, Digit
  <2> QED
    BY <2>2, <2>3, <2>4
<1>6. key(PutKeys(ks, w), w, i) =
          CASE w = 1 -> b(1)
            [] w = 2 -> b(1) + b(2)
            [] w = 4 -> b(1) + b(2) + b(3) + b(4)
            [] w = 8 -> b(1) + b(2) + b(3) + b(4) + b(5) + b(6) + b(7) + b(8)
            [] OTHER -> 0
  BY DEF key
<1> HIDE DEF b, T
<1>a. ASSUME NEW j \in 1..w, NEW l \in 0..8, l + 1 = j
      PROVE  b(j) = T(l) - T(j) /\ T(l) \in Nat /\ T(j) \in Nat
  <2>1. l = j - 1 /\ j \in 0..8
    BY <1>a DEF Widths
  <2> QED
    BY <2>1, <1>2, <1>5
<1>b. w >= 1 => b(1) = T(0) - T(1) /\ T(0) \in Nat /\ T(1) \in Nat
  BY <1>a
<1>c. w >= 2 => b(2) = T(1) - T(2) /\ T(2) \in Nat
  BY <1>a
<1>d. w >= 4 => b(3) = T(2) - T(3) /\ T(3) \in Nat
  <2>1. w >= 4 => 3 \in 1..w /\ 2 \in 0..8 /\ 2 + 1 = 3
    BY DEF Widths
  <2> QED
    BY <2>1, <1>a, Zenon
<1>e. w >= 4 => b(4) = T(3) - T(4) /\ T(4) \in Nat
  BY <1>a
<1>f. w >= 8 => b(5) = T(4) - T(5) /\ T(5) \in Nat
  <2>1. w >= 8 => 5 \in 1..w /\ 4 \in 0..8 /\ 4 + 1 = 5
    BY DEF Widths
  <2> QED
    BY <2>1, <1>a, Zenon
<1>g. w >= 8 => b(6) = T(5) - T(6) /\ T(6) \in Nat
  <2>1. w >= 8 => 6 \in 1..w /\ 5 \in 0..8 /\ 5 + 1 = 6
    BY DEF Widths
  <2> QED
    BY <2>1, <1>a, Zenon
<1>h. w >= 8 => b(7) = T(6) - T(7) /\ T(7) \in Nat
  <2>1. w >= 8 => 7 \in 1..w /\ 6 \in 0..8 /\ 6 + 1 = 7
    BY DEF Widths
  <2> QED
    BY <2>1, <1>a, Zenon
<1>i. w >= 8 => b(8) = T(7) - T(8) /\ T(8) \in Nat
  BY <1>a
<1>j. w >= 4 => b(1) + b(2) + b(3) + b(4) = T(0) - T(4) /\ T(0) \in Nat /\ T(4) \in Nat
  <2> SUFFICES ASSUME w >= 4
               PROVE  b(1) + b(2) + b(3) + b(4) = T(0) - T(4) /\ T(0) \in Nat /\ T(4) \in Nat
    OBVIOUS
  <2>1. w >= 1 /\ w >= 2
    BY DEF Widths
  <2>2. b(1) = T(0) - T(1) /\ b(2) = T(1) - T(2) /\ T(0) \in Nat /\ T(1) \in Nat /\ T(2) \in Nat
    BY <2>1, <1>b, <1>c, Zenon
  <2>3. b(3) = T(2) - T(3) /\ b(4) = T(3) - T(4) /\ T(3) \in Nat /\ T(4) \in Nat
    BY <1>d, <1>e, Zenon
  <2>4. PICK s \in Int : s = b(1) + b(2)
    BY ONLY <2>2
  <2>5. s = T(0) - T(2)
    BY ONLY <2>2, <2>4
  <2>6. PICK t \in Int : t = s + b(3)
    <3>1. b(3) \in Int
      BY ONLY <2>2, <2>3
    <3> QED
      BY ONLY s \in Int, <3>1
  <2>7. t = T(0) - T(3)
    BY ONLY <2>2, <2>3, <2>5, <2>6
  <2>8. t + b(4) = T(0) - T(4)
    BY ONLY <2>2, <2>3, <2>7
  <2> QED
    BY <2>2, <2>3, <2>4, <2>6, <2>8, Zenon
<1> HIDE DEF n
<1>7. CASE w = 1
  <2>1. key(PutKeys(ks, w), w, i) = b(1)
    BY <1>6, <1>7
  <2>2. b(1) = T(0) - T(1)
    BY <1>7, <1>b
  <2> QED
    BY <2>1, <2>2, <1>1, <1>3, <1>4, <1>7
<1>8. CASE w = 2
  <2>1. key(PutKeys(ks, w), w, i) = b(1) + b(2)
    BY <1>6, <1>8
  <2>2. b(1) + b(2) = T(0) - T(2)
    BY <1>8, <1>b, <1>c
  <2> QED
    BY <2>1, <2>2, <1>1, <1>3, <1>4, <1>8
<1>9. CASE w = 4
  <2>1. key(PutKeys(ks, w), w, i) = b(1) + b(2) + b(3) + b(4)
    BY <1>6, <1>9
  <2>2. b(1) + b(2) + b(3) + b(4) = T(0) - T(4)
    BY <1>9, <1>j
  <2> QED
    BY <2>1, <2>2, <1>1, <1>3, <1>4, <1>9
<1>10. CASE w = 8
  <2>1. key(PutKeys(ks, w), w, i) = b(1) + b(2) + b(3) + b(4) + b(5) + b(6) + b(7) + b(8)
    BY <1>6, <1>10
  <2>2. b(1) + b(2) + b(3) + b(4) + b(5) + b(6) + b(7) + b(8) = T(0) - T(8)
    <3>1. b(1) + b(2) + b(3) + b(4) = T(0) - T(4) /\ T(0) \in Nat /\ T(4) \in Nat
      BY <1>10, <1>j
    <3>2. b(5) = T(4) - T(5) /\ b(6) = T(5) - T(6) /\ T(5) \in Nat /\ T(6) \in Nat
      BY <1>10, <1>f, <1>g
    <3>3. b(7) = T(6) - T(7) /\ b(8) = T(7) - T(8) /\ T(7) \in Nat /\ T(8) \in Nat
      BY <1>10, <1>h, <1>i
    <3>4. PICK s \in Int : s = b(1) + b(2) + b(3) + b(4)
      BY <3>1
    <3>5. s + b(5) + b(6) = T(0) - T(6)
      <4>1. s = T(0) - T(4) /\ T(0) \in Nat /\ T(4) \in Nat
        BY <3>1, <3>4
      <4> QED
        BY ONLY <4>1, <3>2
    <3>6. PICK t \in Int : t = s + b(5) + b(6)
      BY ONLY <3>1, <3>2, <3>5
    <3>7. t + b(7) + b(8) = T(0) - T(8)
      <4>1. t = T(0) - T(6) /\ T(0) \in Nat /\ T(6) \in Nat
        BY <3>1, <3>2, <3>5, <3>6
      <4> QED
        BY ONLY <4>1, <3>3
    <3> QED
      BY <3>4, <3>6, <3>7, Zenon
  <2> QED
    BY <2>1, <2>2, <1>1, <1>3, <1>4, <1>10
<1> QED
  BY <1>7, <1>8, <1>9, <1>10 DEF Widths

\* Key bytes of whole keys stand for numbers.
LEMMA KeyType ==
    ASSUME NEW w \in Widths, NEW bs \in Seq(Byte), NEW i \in 1..Len(bs) \div w
    PROVE  key(bs, w, i) \in Nat
<1> DEFINE b(j) == bs[(i - 1) * w + j] * Place[j - 1]
<1>1. ASSUME NEW j \in 1..w
      PROVE  b(j) \in Nat
  <2>1. (i - 1) * w + j \in 1..Len(bs)
    BY DEF Widths
  <2>2. \A x \in 1..Len(bs) : bs[x] \in Nat
    <3>1. \A y \in Byte : y \in Nat
      BY PlaceType DEF Byte
    <3> QED
      BY <3>1
  <2>3. PICK x \in 1..Len(bs) : x = (i - 1) * w + j
    BY <2>1
  <2>4. PICK y \in 0..8 : y = j - 1
    BY DEF Widths
  <2>5. bs[x] * Place[y] \in Nat
    <3>1. bs[x] \in Nat /\ Place[y] \in Nat
      BY <2>2, PlaceType
    <3> QED
      BY <3>1
  <2> QED
    BY <2>3, <2>4, <2>5
<1>2. key(bs, w, i) =
          CASE w = 1 -> b(1)
            [] w = 2 -> b(1) + b(2)
            [] w = 4 -> b(1) + b(2) + b(3) + b(4)
            [] w = 8 -> b(1) + b(2) + b(3) + b(4) + b(5) + b(6) + b(7) + b(8)
            [] OTHER -> 0
  BY DEF key
<1> HIDE DEF b
<1>0. \A x, y \in Nat : x + y \in Nat
  OBVIOUS
<1>3. CASE w = 1
  <2>1. b(1) \in Nat
    BY <1>1, <1>3
  <2> QED
    BY <2>1, <1>2, <1>3
<1>4. CASE w = 2
  <2>1. b(1) \in Nat /\ b(2) \in Nat
    BY <1>1, <1>4
  <2> QED
    BY <2>1, <1>2, <1>4
<1>5. CASE w = 4
  <2>1. b(1) \in Nat /\ b(2) \in Nat /\ b(3) \in Nat /\ b(4) \in Nat
    BY <1>1, <1>5
  <2>2. key(bs, w, i) = b(1) + b(2) + b(3) + b(4)
    BY <1>2, <1>5
  <2> QED
    BY <2>1, <2>2
<1>6. CASE w = 8
  <2>1. /\ b(1) \in Nat /\ b(2) \in Nat /\ b(3) \in Nat /\ b(4) \in Nat
        /\ b(5) \in Nat /\ b(6) \in Nat /\ b(7) \in Nat /\ b(8) \in Nat
    BY <1>1, <1>6
  <2>2. key(bs, w, i) = b(1) + b(2) + b(3) + b(4) + b(5) + b(6) + b(7) + b(8)
    BY <1>2, <1>6
  <2>3. b(1) + b(2) + b(3) + b(4) \in Nat
    BY <2>1, <1>0, Zenon
  <2>4. b(1) + b(2) + b(3) + b(4) + b(5) + b(6) + b(7) + b(8) \in Nat
    BY <2>1, <2>3, <1>0, Zenon
  <2> QED
    BY <2>2, <2>4, Zenon
<1> QED
  BY <1>3, <1>4, <1>5, <1>6 DEF Widths

\* Keys that fit their width are checked against the dictionary, and resolved in
\* it, as the numbers they are.
LEMMA KeysInRange ==
    ASSUME NEW w \in Widths, NEW ks \in Seq(Nat), NEW d,
           \A i \in 1..Len(ks) : ks[i] < Place[w]
    PROVE  /\ InRange(d, PutKeys(ks, w), w) <=> \A i \in 1..Len(ks) : ks[i] < Len(d)
           /\ Resolve(d, PutKeys(ks, w), w) = [i \in 1..Len(ks) |-> d[ks[i] + 1]]
<1>1. Len(PutKeys(ks, w)) = Len(ks) * w
  BY PutKeysType
<1>2. Len(PutKeys(ks, w)) \div w = Len(ks)
  BY <1>1, ByteCount
<1>3. \A i \in 1..Len(ks) : key(PutKeys(ks, w), w, i) = ks[i]
  BY KeyOfBytes
<1>4. InRange(d, PutKeys(ks, w), w) <=> \A i \in 1..Len(ks) : ks[i] < Len(d)
  BY <1>2, <1>3 DEF InRange
<1>5. Resolve(d, PutKeys(ks, w), w) = [i \in 1..Len(ks) |-> d[ks[i] + 1]]
  BY <1>2, <1>3 DEF Resolve
<1> QED
  BY <1>4, <1>5

\* Rows that can be read are values.
LEMMA ResolveType ==
    ASSUME NEW w \in Widths, NEW bs \in Seq(Byte), NEW d \in Seq(Vals), InRange(d, bs, w)
    PROVE  Resolve(d, bs, w) \in Seq(Vals) /\ Len(Resolve(d, bs, w)) = Len(bs) \div w
<1>1. Len(bs) \div w \in Nat
  BY DEF Widths
<1>2. ASSUME NEW i \in 1..Len(bs) \div w
      PROVE  d[key(bs, w, i) + 1] \in Vals
  <2>1. PICK n \in Nat : n = key(bs, w, i)
    BY KeyType
  <2>2. n < Len(d)
    BY <2>1 DEF InRange
  <2>3. n + 1 \in 1..Len(d)
    BY <2>2
  <2> QED
    BY <2>1, <2>3
<1>3. Resolve(d, bs, w) \in [1..Len(bs) \div w -> Vals]
  BY <1>2 DEF Resolve
<1> QED
  BY <1>1, <1>3

-----------------------------------------------------------------------------
(* The dictionary of a block that is written. *)

\* An increasing list of a finite set, as long as the set is large, has all of it.
LEMMA ListsAll ==
    ASSUME NEW S \in SUBSET Nat, IsFiniteSet(S), NEW f, Listed(f, S), NEW a \in S
    PROVE  \E k \in 1..Cardinality(S) : f[k] = a
<1> DEFINE m == Cardinality(S)
<1> SUFFICES ASSUME \A k \in 1..m : f[k] # a
             PROVE  FALSE
  OBVIOUS
<1>2. IsFiniteSet(S) /\ m \in Nat
  BY FS_CardinalityType
<1>3. IsFiniteSet(S \ {a}) /\ Cardinality(S \ {a}) = m - 1
  BY <1>2, FS_RemoveElement
<1>4. IsFiniteSet(1..m) /\ Cardinality(1..m) = m
  BY <1>2, FS_Interval
<1>5. f \in [1..m -> S \ {a}] /\ \A i, j \in 1..m : i < j => f[i] < f[j]
  BY DEF Listed
<1> HIDE DEF m
<1>6. \E i, j \in 1..m : i # j /\ f[i] = f[j]
  <2>1. PICK D, T : D = 1..m /\ T = S \ {a}
    OBVIOUS
  <2>2. IsFiniteSet(D) /\ IsFiniteSet(T) /\ Cardinality(T) < Cardinality(D) /\ f \in [D -> T]
    BY <1>2, <1>3, <1>4, <1>5, <2>1
  <2>3. \E i, j \in D : i # j /\ f[i] = f[j]
    BY ONLY <2>2, FS_PigeonHole
  <2> QED
    BY <2>1, <2>3, Zenon
<1>7. PICK i \in 1..m, j \in 1..m : i # j /\ f[i] = f[j]
  BY <1>6
<1>8. f[i] \in Nat /\ f[j] \in Nat
  <2>1. f[i] \in S /\ f[j] \in S
    BY <1>5
  <2>2. \A x \in S : x \in Nat
    OBVIOUS
  <2> QED
    BY <2>1, <2>2, Zenon
<1> QED
  BY <1>5, <1>7, <1>8

\* The dictionary has every value of the rows, and no more entries than there
\* are rows.
LEMMA OrderedType ==
    ASSUME NEW V, NEW vs \in Seq(V)
    PROVE  /\ Ordered(vs) \in Seq(V) /\ Len(Ordered(vs)) <= Len(vs)
           /\ \A i \in 1..Len(vs) : \E k \in 1..Len(Ordered(vs)) : Ordered(vs)[k] = vs[i]
<1> DEFINE firsts == {i \in 1..Len(vs) : vs[i] \in NaNs \/ \A j \in 1..i - 1 : vs[j] # vs[i]}
           n == Cardinality(firsts)
           Up(f) == \A i, j \in 1..n : i < j => f[i] < f[j]
           at == CHOOSE f \in [1..n -> firsts] : Up(f)
<1>1. Len(vs) \in Nat /\ \A a \in firsts : a \in 1..Len(vs)
  OBVIOUS
<1>2. n \in 0..Len(vs) /\ \E f : Listed(f, firsts)
  <2> HIDE DEF firsts
  <2> QED
    BY <1>1, Listing
<1>3. \E f \in [1..n -> firsts] : Up(f)
  BY <1>2 DEF Listed
<1>4. at \in [1..n -> firsts] /\ Up(at)
  BY <1>3
<1>5. Ordered(vs) = [k \in 1..n |-> vs[at[k]]]
  BY DEF Ordered
<1> HIDE DEF at
<1>6. \A k \in 1..n : at[k] \in 1..Len(vs)
  BY <1>4
<1>7. Ordered(vs) \in [1..n -> V]
  BY <1>5, <1>6
<1>8. n \in Nat /\ n <= Len(vs)
  BY <1>2, <1>1
<1>9. Ordered(vs) \in Seq(V) /\ Len(Ordered(vs)) = n
  <2> HIDE DEF n
  <2> QED
    BY <1>7, <1>8
<1>10. ASSUME NEW i \in 1..Len(vs)
       PROVE  \E k \in 1..n : Ordered(vs)[k] = vs[i]
  <2> DEFINE same == {j \in 1..Len(vs) : vs[j] = vs[i]}
  <2>1. same \in SUBSET Nat /\ same # {}
    OBVIOUS
  <2>2. PICK j \in same : \A l \in same : j <= l
    BY <2>1, Least
  <2>3. j \in firsts
    BY <2>2
  <2>4. PICK k \in 1..n : at[k] = j
    <3>1. PICK S : S = firsts
      OBVIOUS
    <3>2. PICK f : f = at
      OBVIOUS
    <3> HIDE DEF firsts
    <3>3. Listed(f, S) /\ j \in S
      BY <1>4, <2>3, <3>1, <3>2 DEF Listed
    <3>4. S \in SUBSET (1..Len(vs)) /\ Len(vs) \in Nat
      BY <1>1, <3>1
    <3>5. S \in SUBSET Nat /\ IsFiniteSet(S)
      <4>1. PICK D : D = 1..Len(vs)
        OBVIOUS
      <4>2. S \in SUBSET D /\ S \in SUBSET Nat
        BY <3>4, <4>1
      <4>3. IsFiniteSet(1..Len(vs))
        BY ONLY <3>4, FS_Interval
      <4>4. IsFiniteSet(D)
        BY <4>1, <4>3, Zenon
      <4> QED
        BY ONLY <4>2, <4>4, FS_Subset
    <3>6. \E k \in 1..Cardinality(S) : f[k] = j
      BY ONLY <3>3, <3>5, ListsAll
    <3> QED
      BY <3>1, <3>2, <3>6, Zenon
  <2> QED
    BY <1>5, <2>2, <2>4
<1> QED
  BY <1>8, <1>9, <1>10

\* The key type has room for the keys of a dictionary of that size.
LEMMA KeyTypeFits ==
    ASSUME NEW n \in Nat
    PROVE  /\ KeyTypeFor(n) \in KeyTypes
           /\ n <= Place[8] => n <= Place[Width(KeyTypeFor(n))]
<1>1. Place[1] = Radix /\ Radix \in Nat
  BY PlaceIs, PlaceType
<1>2. Place[2] \in Nat /\ Place[4] \in Nat /\ Place[8] \in Nat
  BY PlaceType
<1>3. CASE n <= Radix
  <2>0. Radix <= Place[2]
    <3>1. Place[2] = Radix * Radix /\ Radix \in Nat \ {0}
      BY <1>1, PlaceIs, PlaceType
    <3>2. \A r \in Nat \ {0} : r <= r * r
      OBVIOUS
    <3> QED
      BY <3>1, <3>2
  <2>1. KeyTypeFor(n) = 0
    BY <1>1, <1>2, <1>3, <2>0 DEF KeyTypeFor
  <2> QED
    BY <2>1, <1>1, <1>3 DEF KeyTypes, Width
<1>4. CASE n > Radix /\ n <= Place[2]
  <2>1. KeyTypeFor(n) = 1
    BY <1>1, <1>2, <1>4 DEF KeyTypeFor
  <2> QED
    BY <2>1, <1>1, <1>4 DEF KeyTypes, Width
<1>5. CASE n > Radix /\ n > Place[2] /\ n <= Place[4] - 1
  <2>1. KeyTypeFor(n) = 2
    BY <1>1, <1>2, <1>5 DEF KeyTypeFor
  <2> QED
    BY <2>1, <1>1, <1>2, <1>5 DEF KeyTypes, Width
<1>6. CASE n > Radix /\ n > Place[2] /\ n > Place[4] - 1
  <2>1. KeyTypeFor(n) = 3
    BY <1>1, <1>2, <1>6 DEF KeyTypeFor
  <2> QED
    BY <2>1, <1>1, <1>6 DEF KeyTypes, Width
<1> QED
  BY <1>1, <1>2, <1>3, <1>4, <1>5, <1>6

\* A block that is written can be read: its dictionary is no longer than the
\* rows, and if it is written, fits the widest key and has no NaN its keys lead
\* back to the rows.
LEMMA BlockReads ==
    ASSUME NEW vs \in Seq(Vals), NEW b, b = BlockOf(vs)
    PROVE  /\ b \in Wire(Vals)
           /\ /\ Len(vs) <= Place[8] /\ type # "other"
              /\ \A i \in 1..Len(vs) : vs[i] \notin NaNs
              => Resolve(b.dict, PutKeys(b.keys, Width(b.kt)), Width(b.kt)) = vs
<1>1. PICK d : d = Ordered(vs)
  OBVIOUS
<1>2. /\ d \in Seq(Vals) /\ Len(d) <= Len(vs)
      /\ \A i \in 1..Len(vs) : \E k \in 1..Len(d) : d[k] = vs[i]
  BY <1>1, OrderedType
<1>3. Len(vs) \in Nat /\ Len(d) \in Nat
  BY <1>2
<1>4. PICK kt : kt = KeyTypeFor(Len(d))
  OBVIOUS
<1>5. /\ kt \in KeyTypes /\ Width(kt) \in Widths
      /\ Len(d) <= Place[8] => Len(d) <= Place[Width(kt)]
  BY <1>3, <1>4, KeyTypeFits, WidthType
<1>6. PICK w : w = Width(kt)
  OBVIOUS
<1>7. w \in Widths /\ Place[w] \in Nat \ {0}
  <2>1. w \in Widths /\ w \in 0..8
    BY <1>5, <1>6 DEF Widths
  <2> QED
    BY <2>1, PlaceType
<1>8. PICK ks : ks = EncodedKeys(vs, d, w)
  OBVIOUS
<1>9. b = [end |-> "none", kt |-> kt, dict |-> encodeDictKeys(d), keys |-> ks]
  BY <1>1, <1>4, <1>6, <1>8 DEF BlockOf
<1>d. encodeDictKeys(d) \in Seq(Vals) /\ (type # "other" => encodeDictKeys(d) = d)
  <2>1. << >> \in Seq(Vals)
    OBVIOUS
  <2> QED
    BY <1>2, <2>1 DEF encodeDictKeys
<1>10. ASSUME NEW i \in 1..Len(vs)
       PROVE  /\ ks[i] \in Nat
              /\ vs[i] \notin NaNs =>
                    \E k \in 1..Len(d) : d[k] = vs[i] /\ ks[i] = (k - 1) % Place[w]
  <2>1. PICK k \in 1..Len(d) : k = CHOOSE x \in 1..Len(d) : d[x] = vs[i]
    BY <1>2
  <2>2. d[k] = vs[i]
    BY <1>2, <2>1
  <2>3. ks[i] = IF vs[i] \in NaNs THEN 0 ELSE (k - 1) % Place[w]
    BY <1>8, <2>1 DEF EncodedKeys
  <2>4. (k - 1) % Place[w] \in Nat
    BY <1>3, <1>7
  <2> QED
    BY <2>2, <2>3, <2>4
<1>11. ks \in Seq(Nat) /\ Len(ks) = Len(vs)
  <2>1. ks \in [1..Len(vs) -> Nat]
    BY <1>8, <1>10 DEF EncodedKeys
  <2> QED
    BY <2>1, <1>3
<1>12. b \in Wire(Vals)
  BY <1>5, <1>9, <1>11, <1>d DEF Wire
<1>13. ASSUME Len(vs) <= Place[8], \A i \in 1..Len(vs) : vs[i] \notin NaNs
       PROVE  Resolve(d, PutKeys(ks, w), w) = vs
  <2>1. Len(d) <= Place[w]
    <3>1. Place[8] \in Nat
      BY PlaceType
    <3> QED
      BY <3>1, <1>2, <1>3, <1>5, <1>6, <1>13
  <2>2. ASSUME NEW i \in 1..Len(vs)
        PROVE  ks[i] < Place[w] /\ d[ks[i] + 1] = vs[i]
    <3>1. PICK k \in 1..Len(d) : d[k] = vs[i] /\ ks[i] = (k - 1) % Place[w]
      BY <1>10, <1>13
    <3>2. k - 1 \in 0..Place[w] - 1
      BY <2>1, <1>3, <1>7
    <3>3. \A p \in Nat \ {0} : \A x \in 0..p - 1 : x % p = x
      OBVIOUS
    <3>4. ks[i] = k - 1
      BY <3>1, <3>2, <3>3, <1>7
    <3> QED
      BY <3>1, <3>2, <3>4, <1>7
  <2>3. Resolve(d, PutKeys(ks, w), w) = [i \in 1..Len(ks) |-> d[ks[i] + 1]]
    BY <1>7, <1>11, <2>2, KeysInRange
  <2>4. vs = [i \in 1..Len(vs) |-> vs[i]]
    OBVIOUS
  <2> QED
    BY <2>2, <2>3, <2>4, <1>11
<1> QED
  BY <1>6, <1>9, <1>12, <1>13, <1>d

-----------------------------------------------------------------------------
(* The invariants. *)

\* A column that can be read shows values.
LEMMA RowsType ==
    ASSUME TypeOK, Accessible
    PROVE  Rows \in Seq(Vals)
<1>1. CASE Plain
  BY <1>1 DEF Rows, TypeOK
<1>2. CASE ~Plain
  <2>1. keyWidth \in Widths /\ InRange(dict, keys, keyWidth)
    BY <1>2 DEF Accessible, TypeOK, Widths
  <2> QED
    BY <2>1, <1>2, ResolveType DEF Rows, TypeOK
<1> QED
  BY <1>1, <1>2

LEMMA NoBlockType == NoBlock \in Wire(Vals)
BY DEF NoBlock, Wire, KeyTypes

LEMMA InitTyped ==
    ASSUME Init
    PROVE  /\ TypeOK /\ ViewIsContent /\ RoundTrip /\ DamageReported
           /\ content = << >>
<1>1. /\ type \in Types /\ values = << >> /\ dict = << >> /\ keys = << >> /\ keyWidth = 0
      /\ expanded = FALSE /\ err = FALSE /\ panic = FALSE /\ damaged = FALSE
      /\ sent = NoBlock /\ content = << >>
  BY DEF Init
<1>2. TypeOK
  <2>1. << >> \in Seq(Vals) /\ << >> \in Seq(Byte) /\ FALSE \in BOOLEAN
    OBVIOUS
  <2>2. IF keyWidth = 0 THEN keys = << >> ELSE Len(keys) % keyWidth = 0
    BY <1>1
  <2> QED
    BY <1>1, <2>1, <2>2, NoBlockType DEF TypeOK
<1>3. Plain
  BY <1>1 DEF Plain
<1>4. ViewIsContent
  BY <1>1, <1>3 DEF ViewIsContent, Accessible, Rows
<1> QED
  BY <1>1, <1>2, <1>4 DEF RoundTrip, DamageReported

\* EncodeColumn.
LEMMA EncodeKeeps ==
    ASSUME TypeOK, EncodeColumn
    PROVE  /\ TypeOK'
           /\ ViewIsContent => ViewIsContent'
           /\ ViewIsContent /\ RoundTrip /\ Len(content) <= Place[8] => RoundTrip'
           /\ UNCHANGED <<type, err, damaged, content>> /\ (panic => panic')
<1>1. UNCHANGED <<type, dict, keys, keyWidth, err, content, damaged>>
  BY DEF EncodeColumn
<1>2. CASE ~Accessible /\ panic' = TRUE /\ UNCHANGED <<values, expanded, sent>>
  <2>1. TypeOK'
    BY <1>1, <1>2 DEF TypeOK
  <2>2. ViewIsContent => ViewIsContent'
    BY <1>1, <1>2 DEF ViewIsContent, Accessible
  <2>3. RoundTrip => RoundTrip'
    BY <1>1, <1>2 DEF RoundTrip, Resolved
  <2> QED
    BY <1>1, <1>2, <2>1, <2>2, <2>3
<1>3. CASE Accessible /\ ensureExpanded /\ sent' = BlockOf(Rows) /\ UNCHANGED panic
  <2>1. /\ Rows \in Seq(Vals) /\ values' = Rows
        /\ expanded' = (expanded \/ dict # << >>)
    BY <1>3, RowsType DEF ensureExpanded
  <2>2. PICK vs : vs = Rows
    OBVIOUS
  <2>3. /\ sent' \in Wire(Vals)
        /\ /\ Len(vs) <= Place[8] /\ type # "other"
           /\ \A i \in 1..Len(vs) : vs[i] \notin NaNs
           => Resolve(sent'.dict, PutKeys(sent'.keys, Width(sent'.kt)), Width(sent'.kt)) = vs
    <3>1. sent' = BlockOf(vs) /\ vs \in Seq(Vals)
      BY <1>3, <2>1, <2>2
    <3> QED
      BY ONLY <3>1, BlockReads
  <2>4. expanded' \in BOOLEAN
    BY <2>1
  <2>5. TypeOK'
    BY <1>1, <1>3, <2>1, <2>3, <2>4 DEF TypeOK
  <2>6. Plain'
    BY <1>1, <2>1 DEF Plain
  <2>7. Accessible' /\ Rows' = Rows
    BY <2>1, <2>6 DEF Accessible, Rows
  <2>8. ViewIsContent => ViewIsContent'
    BY <1>1, <2>7 DEF ViewIsContent
  <2>9. ViewIsContent /\ Len(content) <= Place[8] => RoundTrip'
    BY <1>1, <2>2, <2>3 DEF ViewIsContent, RoundTrip, Resolved
  <2> QED
    BY <1>1, <1>3, <2>5, <2>8, <2>9
<1> QED
  BY <1>2, <1>3 DEF EncodeColumn

\* The caller fills or clears Values.
LEMMA ValuesKeep ==
    ASSUME TypeOK, ResetValues \/ (\E v \in Vals : AppendValue(v))
    PROVE  /\ TypeOK' /\ RoundTrip'
           /\ ~Mixed /\ ViewIsContent => ViewIsContent'
           /\ UNCHANGED <<type, err, panic, damaged>>
           /\ Len(content') <= MaxRows
<1>1. UNCHANGED <<type, dict, keys, keyWidth, expanded, err, panic, damaged>> /\ sent' = NoBlock
  BY DEF ResetValues, AppendValue
<1>2. /\ values' \in Seq(Vals) /\ content' \in Seq(Vals) /\ Len(content') <= MaxRows
      /\ values = content => values' = content'
  <2>1. CASE ResetValues
    BY <2>1, LowCardinalityAssumption DEF ResetValues
  <2>2. ASSUME NEW v \in Vals, AppendValue(v)
        PROVE  /\ values' \in Seq(Vals) /\ content' \in Seq(Vals) /\ Len(content') <= MaxRows
               /\ values = content => values' = content'
    <3>1. /\ values \in Seq(Vals) /\ content \in Seq(Vals) /\ Len(content) < MaxRows
          /\ values' = Append(values, v) /\ content' = Append(content, v) /\ MaxRows \in Nat
      BY <2>2, LowCardinalityAssumption DEF AppendValue, TypeOK
    <3> QED
      BY <3>1
  <2> QED
    BY <2>1, <2>2
<1>3. TypeOK'
  BY <1>1, <1>2, NoBlockType DEF TypeOK
<1>4. RoundTrip'
  BY <1>1 DEF RoundTrip
<1>5. ASSUME ~Mixed, ViewIsContent
      PROVE  ViewIsContent'
  <2>1. Plain /\ Plain'
    BY <1>1, <1>5 DEF ResetValues, AppendValue, Plain
  <2> QED
    BY <1>1, <1>2, <1>5, <2>1 DEF ViewIsContent, Accessible, Rows
<1> QED
  BY <1>1, <1>2, <1>3, <1>4, <1>5

-----------------------------------------------------------------------------
(* DecodeColumn. *)

\* A block that the server may send.
Sendable(w) ==
    /\ w \in Wire(Vals) /\ ServerBlock(w)
    /\ w.end = "none" => w.keys # << >> /\ Len(w.keys) <= MaxKeys

\* A decode of a block is a step with such a block.
LEMMA DecodeOf ==
    ASSUME Decode
    PROVE  \E w : /\ Sendable(w) /\ DecodeColumn(w) /\ damaged' = ~Good(w)
                  /\ content' = IF Good(w) THEN [i \in 1..Len(w.keys) |-> w.dict[w.keys[i] + 1]]
                                ELSE << >>
<1>0. MaxDict \in Nat /\ MaxKeys \in Nat /\ Damage \subseteq {"meta", "dict", "keys", "index", "width"}
  BY LowCardinalityAssumption
<1>1. PICK end \in {"none"} \cup (Damage \cap {"meta", "dict", "keys"}), d \in SeqsUpTo(Vals, MaxDict) :
       \E kt \in IF end = "none" THEN KeyTypes \cup {4} ELSE {0},
          ks \in IF end = "none" THEN SeqsUpTo(0..MaxDict, MaxKeys) \ {<< >>} ELSE {<<0>>} :
          LET w == [end |-> end, kt |-> kt, dict |-> d, keys |-> ks]
          IN  /\ ServerBlock(w)
              /\ DecodeColumn(w)
              /\ damaged' = ~Good(w)
              /\ content' = IF Good(w) THEN [i \in 1..Len(ks) |-> d[ks[i] + 1]] ELSE << >>
  BY DEF Decode
<1>2. PICK kt \in IF end = "none" THEN KeyTypes \cup {4} ELSE {0} :
       \E ks \in IF end = "none" THEN SeqsUpTo(0..MaxDict, MaxKeys) \ {<< >>} ELSE {<<0>>} :
          LET w == [end |-> end, kt |-> kt, dict |-> d, keys |-> ks]
          IN  /\ ServerBlock(w) /\ DecodeColumn(w) /\ damaged' = ~Good(w)
              /\ content' = IF Good(w) THEN [i \in 1..Len(ks) |-> d[ks[i] + 1]] ELSE << >>
  BY <1>1, Zenon
<1>3. PICK ks \in IF end = "none" THEN SeqsUpTo(0..MaxDict, MaxKeys) \ {<< >>} ELSE {<<0>>} :
          LET w == [end |-> end, kt |-> kt, dict |-> d, keys |-> ks]
          IN  /\ ServerBlock(w) /\ DecodeColumn(w) /\ damaged' = ~Good(w)
              /\ content' = IF Good(w) THEN [i \in 1..Len(ks) |-> d[ks[i] + 1]] ELSE << >>
  BY <1>2, Zenon
<1>4. PICK w : w = [end |-> end, kt |-> kt, dict |-> d, keys |-> ks]
  OBVIOUS
<1>5. w.end = end /\ w.kt = kt /\ w.dict = d /\ w.keys = ks
  BY <1>4
<1>6. /\ ServerBlock(w) /\ DecodeColumn(w) /\ damaged' = ~Good(w)
      /\ content' = IF Good(w) THEN [i \in 1..Len(w.keys) |-> w.dict[w.keys[i] + 1]] ELSE << >>
  BY <1>3, <1>4, <1>5, Zenon
<1>7. d \in Seq(Vals)
  <2>1. PICK j \in 0..MaxDict : d \in [1..j -> Vals]
    BY <1>1 DEF SeqsUpTo
  <2> QED
    BY <2>1, <1>0
<1>8. ks \in Seq(Nat) /\ (end = "none" => ks # << >> /\ Len(ks) <= MaxKeys)
  <2>1. CASE end = "none"
    <3>1. PICK j \in 0..MaxKeys : ks \in [1..j -> 0..MaxDict] /\ ks # << >>
      BY <2>1, <1>3 DEF SeqsUpTo
    <3>2. ks \in [1..j -> Nat] /\ j \in Nat
      BY <3>1, <1>0
    <3>3. ks \in Seq(Nat) /\ Len(ks) = j
      BY <3>2
    <3> QED
      BY <3>1, <3>3, <1>0
  <2>2. CASE end # "none"
    <3>1. ks = <<0>>
      BY <2>2, <1>3
    <3> QED
      BY <3>1, <2>2
  <2> QED
    BY <2>1, <2>2
<1>9. end \in {"none", "meta", "dict", "keys"} /\ kt \in KeyTypes \cup {4}
  <2>1. end \in {"none", "meta", "dict", "keys"}
    BY <1>1
  <2>2. kt \in KeyTypes \cup {4}
    BY <1>2 DEF KeyTypes
  <2> QED
    BY <2>1, <2>2
<1>10. w \in Wire(Vals)
  BY <1>4, <1>7, <1>8, <1>9 DEF Wire
<1> QED
  BY <1>5, <1>6, <1>8, <1>10 DEF Sendable

\* Refuse and Accept leave values of the right types.
LEMMA RefuseTypes ==
    ASSUME TypeOK, NEW d \in Seq(Vals), Refuse(d), values' \in Seq(Vals), sent' = NoBlock,
           type' = type, content' \in Seq(Vals), damaged' \in BOOLEAN
    PROVE  TypeOK'
BY NoBlockType DEF Refuse, TypeOK

LEMMA AcceptTypes ==
    ASSUME TypeOK, NEW d \in Seq(Vals), NEW bs \in Seq(Byte), NEW kw \in {0, 1, 2, 4, 8},
           IF kw = 0 THEN bs = << >> ELSE Len(bs) % kw = 0,
           Accept(d, bs, kw), values' \in Seq(Vals), sent' = NoBlock,
           type' = type, content' \in Seq(Vals), damaged' \in BOOLEAN
    PROVE  TypeOK'
<1>1. err' \in BOOLEAN /\ panic' \in BOOLEAN
  BY DEF Accept
<1>2. expanded' \in BOOLEAN
  BY DEF Accept
<1> QED
  BY <1>1, <1>2, NoBlockType DEF Accept, TypeOK

\* Key bytes that are read, of w or of whatever is in its place.
LEMMA KeyBytesType ==
    ASSUME NEW n \in Nat, NEW kt \in KeyTypes, NEW bs \in [1..n * Width(kt) -> Byte]
    PROVE  /\ bs \in Seq(Byte) /\ Width(kt) \in {0, 1, 2, 4, 8} /\ Width(kt) # 0
           /\ Len(bs) % Width(kt) = 0
<1>1. PICK w : w = Width(kt)
  OBVIOUS
<1>2. w \in Widths /\ w \in Nat /\ w # 0
  BY <1>1, WidthType DEF Widths
<1>3. n * w \in Nat /\ bs \in [1..n * w -> Byte]
  BY <1>1, <1>2
<1>4. bs \in Seq(Byte) /\ Len(bs) = n * w
  BY ONLY <1>3
<1>5. Len(bs) % w = 0
  BY <1>2, <1>4, ByteCount
<1> QED
  BY <1>1, <1>2, <1>4, <1>5 DEF Widths

\* What is decoded has the types of the fields, whatever is wrong with it.
LEMMA DecodeTypes ==
    ASSUME TypeOK, NEW w, Sendable(w), DecodeColumn(w), values' \in Seq(Vals), sent' = NoBlock,
           type' = type, content' \in Seq(Vals), damaged' \in BOOLEAN
    PROVE  TypeOK'
<1>1. /\ w.dict \in Seq(Vals) /\ w.keys \in Seq(Nat) /\ w.kt \in KeyTypes \cup {4}
      /\ dict \in Seq(Vals) /\ Len(w.keys) \in Nat /\ Zero \in Vals
  BY LowCardinalityAssumption DEF Sendable, Wire, TypeOK
<1>2. \A d \in Seq(Vals) : Refuse(d) => TypeOK'
  BY RefuseTypes
<1>3. ASSUME NEW d \in Seq(Vals), w.kt = 4, Accept(d, keys, keyWidth)
      PROVE  TypeOK'
  <2>1. /\ keys \in Seq(Byte) /\ keyWidth \in {0, 1, 2, 4, 8}
        /\ IF keyWidth = 0 THEN keys = << >> ELSE Len(keys) % keyWidth = 0
    BY DEF TypeOK
  <2> QED
    BY <1>3, <2>1, AcceptTypes
<1>4. ASSUME NEW d \in Seq(Vals), w.kt # 4, NEW bs \in [1..Len(w.keys) * Width(w.kt) -> Byte],
             Accept(d, bs, Width(w.kt))
      PROVE  TypeOK'
  <2>1. w.kt \in KeyTypes
    BY <1>1, <1>4
  <2>2. /\ bs \in Seq(Byte) /\ Width(w.kt) \in {0, 1, 2, 4, 8} /\ Width(w.kt) # 0
        /\ Len(bs) % Width(w.kt) = 0
    BY <1>1, <1>4, <2>1, KeyBytesType
  <2> QED
    BY <1>4, <2>2, AcceptTypes
<1>5. \A d \in decodeDictKeys(w.dict) : d \in Seq(Vals)
  <2>1. PICK e : e = w.dict
    OBVIOUS
  <2>2. PICK n \in Nat : n = Len(e) /\ \A i \in 1..n : e[i] \in Vals
    BY <1>1, <2>1
  <2>3. ASSUME NEW d \in decodeDictKeys(e)
        PROVE  d \in Seq(Vals)
    <3>1. PICK k \in 0..n - 1 : d = [i \in 1..n |-> IF i <= k THEN e[i] ELSE Zero]
      BY <2>2, <2>3 DEF decodeDictKeys
    <3>2. d \in [1..n -> Vals]
      BY <1>1, <2>2, <3>1
    <3>3. \A f \in [1..n -> Vals] : f \in Seq(Vals)
      OBVIOUS
    <3> QED
      BY <3>2, <3>3, Zenon
  <2> QED
    BY <2>1, <2>3
<1>6. [i \in 1..Len(w.dict) |-> Zero] \in Seq(Vals)
  BY <1>1
<1>7. CASE DecodeListed(w)
  <2>1. CASE w.end = "none" /\ Accept(w.dict, decodeKeyIndices(w), KeyWidthOf(w))
    <3>1. CASE w.kt = 4
      BY <1>1, <1>3, <2>1, <3>1 DEF decodeKeyIndices, KeyWidthOf
    <3>2. CASE w.kt # 4
      <4>1. w.kt \in KeyTypes /\ Width(w.kt) \in Widths
        BY <1>1, <3>2, WidthType
      <4>2. PICK bs, n, kw : bs = PutKeys(w.keys, kw) /\ n = Len(w.keys) /\ kw = Width(w.kt)
        OBVIOUS
      <4>3. bs \in Seq(Byte) /\ Len(bs) = n * kw /\ n * kw \in Nat
        <5>1. bs \in Seq(Byte) /\ Len(bs) = Len(w.keys) * kw
          BY <1>1, <4>1, <4>2, PutKeysType
        <5> QED
          BY <5>1, <4>2
      <4>4. bs \in [1..n * kw -> Byte]
        BY ONLY <4>3
      <4>5. Accept(w.dict, bs, Width(w.kt))
        BY <2>1, <3>2, <4>2 DEF decodeKeyIndices, KeyWidthOf
      <4> QED
        BY <1>1, <1>4, <3>2, <4>2, <4>4, <4>5
    <3> QED
      BY <3>1, <3>2
  <2> QED
    BY <1>1, <1>2, <1>5, <1>7, <2>1 DEF DecodeListed
<1>8. CASE DecodeEmpty
  <2>1. << >> \in Seq(Vals)
    OBVIOUS
  <2> QED
    BY <1>8, <2>1, NoBlockType DEF DecodeEmpty, TypeOK
<1>9. CASE DecodeUnread(w)
  BY <1>2, <1>3, <1>4, <1>6, <1>9 DEF DecodeUnread
<1> QED
  BY <1>7, <1>8, <1>9 DEF DecodeColumn

\* A block that is not damaged replaces what the column shows.
LEMMA DecodeShows ==
    ASSUME NEW w, Sendable(w), Good(w), DecodeColumn(w), type # "other"
    PROVE  Accessible' /\ Rows' = [i \in 1..Len(w.keys) |-> w.dict[w.keys[i] + 1]]
<1>1. /\ w.dict \in Seq(Vals) /\ w.keys \in Seq(Nat) /\ w.keys # << >> /\ w.kt \in KeyTypes
      /\ w.end = "none" /\ \A i \in 1..Len(w.keys) : w.keys[i] < Len(w.dict)
      /\ \A i \in 1..Len(w.keys) : w.keys[i] < Place[Width(w.kt)]
  BY DEF Sendable, Wire, Good, ServerBlock
<1>2. w.dict # << >>
  <2>1. 1 \in 1..Len(w.keys) /\ w.keys[1] \in Nat
    BY <1>1
  <2> QED
    BY <1>1, <2>1
<1>3. PICK kw : kw = Width(w.kt)
  OBVIOUS
<1>4. kw \in Widths /\ kw # 0
  BY <1>1, <1>3, WidthType DEF Widths
<1>5. PICK bs : bs = PutKeys(w.keys, kw)
  OBVIOUS
<1>6. /\ InRange(w.dict, bs, kw)
      /\ Resolve(w.dict, bs, kw) = [i \in 1..Len(w.keys) |-> w.dict[w.keys[i] + 1]]
  <2>1. PICK ks, d : ks = w.keys /\ d = w.dict
    OBVIOUS
  <2>2. /\ kw \in Widths /\ ks \in Seq(Nat) /\ \A i \in 1..Len(ks) : ks[i] < Place[kw]
        /\ \A i \in 1..Len(ks) : ks[i] < Len(d)
    BY <1>1, <1>3, <1>4, <2>1
  <2>3. /\ InRange(d, PutKeys(ks, kw), kw)
        /\ Resolve(d, PutKeys(ks, kw), kw) = [i \in 1..Len(ks) |-> d[ks[i] + 1]]
    BY ONLY <2>2, KeysInRange
  <2> QED
    BY <1>5, <2>1, <2>3
<1>7. /\ dict' = w.dict /\ keys' = bs /\ keyWidth' = kw
      /\ err' = (kw = 0 \/ ~InRange(w.dict, bs, kw)) /\ expanded' = (err' /\ expanded)
  BY <1>1, <1>2, <1>3, <1>5
  DEF DecodeColumn, DecodeListed, Accept, KeyWidthOf, decodeKeyIndices, KeyTypes
<1>8. ~expanded'
  BY <1>4, <1>6, <1>7
<1>9. ~Plain'
  BY <1>2, <1>7, <1>8 DEF Plain
<1> QED
  BY <1>4, <1>6, <1>7, <1>9 DEF Accessible, Rows

\* A block that is damaged is not taken, unless it has a key type that does not
\* exist.
LEMMA DecodeReports ==
    ASSUME "width" \notin Damage, NEW w, Sendable(w), ~Good(w), DecodeColumn(w), type # "other"
    PROVE  err' \/ panic'
<1>0. DecodeEmpty \/ DecodeListed(w)
  BY DEF DecodeColumn
<1>1. /\ w.dict \in Seq(Vals) /\ w.keys \in Seq(Nat) /\ w.kt \in KeyTypes /\ w.kt # 4
      /\ \A i \in 1..Len(w.keys) : w.keys[i] < Place[Width(w.kt)]
  BY DEF Sendable, Wire, ServerBlock, KeyTypes
<1>2. CASE w.end # "none" \/ DecodeEmpty
  BY <1>0, <1>2 DEF DecodeEmpty, DecodeListed, Refuse
<1>3. CASE w.end = "none" /\ DecodeListed(w)
  <2>1. ~ \A i \in 1..Len(w.keys) : w.keys[i] < Len(w.dict)
    BY <1>1, <1>3 DEF Good
  <2>2. PICK kw : kw = Width(w.kt)
    OBVIOUS
  <2>3. kw \in Widths
    BY <1>1, <2>2, WidthType
  <2>4. ~InRange(w.dict, PutKeys(w.keys, kw), kw)
    BY <1>1, <2>1, <2>2, <2>3, KeysInRange
  <2>5. err' = (kw = 0 \/ ~InRange(w.dict, PutKeys(w.keys, kw), kw))
    BY <1>1, <1>3, <2>2 DEF DecodeListed, Accept, KeyWidthOf, decodeKeyIndices
  <2> QED
    BY <2>4, <2>5
<1> QED
  BY <1>0, <1>2, <1>3

\* Decode.
LEMMA DecodeKeeps ==
    ASSUME TypeOK, Decode
    PROVE  /\ TypeOK' /\ ViewIsContent' /\ RoundTrip'
           /\ "width" \notin Damage => DamageReported'
           /\ Len(content') <= MaxKeys
<1>1. PICK w : /\ Sendable(w) /\ DecodeColumn(w) /\ damaged' = ~Good(w)
               /\ content' = IF Good(w) THEN [i \in 1..Len(w.keys) |-> w.dict[w.keys[i] + 1]]
                             ELSE << >>
  BY DecodeOf
<1>2. /\ w.dict \in Seq(Vals) /\ w.keys \in Seq(Nat) /\ Len(w.keys) \in Nat
      /\ Good(w) => Len(w.keys) <= MaxKeys
      /\ MaxKeys \in Nat
  BY <1>1, LowCardinalityAssumption DEF Sendable, Wire, Good
<1>3. content' \in Seq(Vals) /\ Len(content') <= MaxKeys
  <2>1. CASE Good(w)
    <3>1. \A i \in 1..Len(w.keys) : w.keys[i] < Len(w.dict)
      BY <2>1 DEF Good
    <3>2. \A i \in 1..Len(w.keys) : w.keys[i] + 1 \in 1..Len(w.dict)
      BY <1>2, <3>1
    <3>3. PICK n \in Nat : n = Len(w.keys)
      BY <1>2
    <3>4. content' \in [1..n -> Vals]
      BY <1>1, <1>2, <2>1, <3>2, <3>3
    <3>5. content' \in Seq(Vals) /\ Len(content') = n
      BY ONLY <3>3, <3>4
    <3> QED
      BY <1>2, <2>1, <3>3, <3>5
  <2>2. CASE ~Good(w)
    <3>1. content' = << >>
      BY <1>1, <2>2
    <3> QED
      BY <1>2, <3>1
  <2> QED
    BY <2>1, <2>2
<1>4. sent' = NoBlock /\ values' = values /\ type' = type
  BY DEF Decode
<1>5. TypeOK'
  <2>1. damaged' \in BOOLEAN /\ values' \in Seq(Vals)
    BY <1>1, <1>4 DEF TypeOK
  <2> QED
    BY <1>1, <1>3, <1>4, <2>1, DecodeTypes
<1>6. ViewIsContent'
  BY <1>1, <1>4, DecodeShows DEF ViewIsContent
<1>7. RoundTrip'
  BY <1>4 DEF RoundTrip
<1>8. "width" \notin Damage => DamageReported'
  BY <1>1, <1>4, DecodeReports DEF DamageReported
<1> QED
  BY <1>3, <1>5, <1>6, <1>7, <1>8

-----------------------------------------------------------------------------
(* The theorems. *)

\* Every step keeps the types and, where its hypothesis holds, each property.
LEMMA StepKeeps ==
    ASSUME TypeOK, [Next]_vars
    PROVE  /\ TypeOK'
           /\ ~Mixed /\ ViewIsContent => ViewIsContent'
           /\ ~Mixed /\ ViewIsContent /\ RoundTrip /\ Len(content) <= Place[8] => RoundTrip'
           /\ "width" \notin Damage /\ DamageReported => DamageReported'
           /\ content' = content \/ Len(content') <= MaxRows \/ Len(content') <= MaxKeys
<1>1. CASE EncodeColumn
  <2>1. DamageReported => DamageReported'
    BY <1>1, EncodeKeeps DEF DamageReported
  <2> QED
    BY <1>1, <2>1, EncodeKeeps
<1>2. CASE Decode
  BY <1>2, DecodeKeeps
<1>3. CASE ResetValues \/ \E v \in Vals : AppendValue(v)
  <2>1. DamageReported => DamageReported'
    BY <1>3, ValuesKeep DEF DamageReported
  <2> QED
    BY <1>3, <2>1, ValuesKeep
<1>4. CASE UNCHANGED vars
  <2>1. UNCHANGED <<type, values, dict, keys, keyWidth, expanded, err, panic, sent, content, damaged>>
    BY <1>4 DEF vars, store, history
  <2>2. TypeOK'
    BY <2>1 DEF TypeOK
  <2>3. ViewIsContent => ViewIsContent'
    BY <2>1 DEF ViewIsContent, Accessible, Plain, Rows
  <2>4. RoundTrip => RoundTrip'
    BY <2>1 DEF RoundTrip, Resolved
  <2>5. DamageReported => DamageReported'
    BY <2>1 DEF DamageReported
  <2> QED
    BY <2>1, <2>2, <2>3, <2>4, <2>5
<1> QED
  BY <1>1, <1>2, <1>3, <1>4 DEF Next

\* The fields keep their types: the dictionary and Values hold values, keys a
\* whole number of keys, whatever blocks are decoded, whole or damaged.
THEOREM TypeCorrect == Spec => []TypeOK
<1>1. Init => TypeOK
  BY InitTyped
<1>2. TypeOK /\ [Next]_vars => TypeOK'
  BY StepKeeps
<1> QED
  BY <1>1, <1>2, PTL DEF Spec

\* Len and Row show the rows last decoded or appended, whatever was decoded or
\* encoded before and whatever the size of the dictionary, of every type with a
\* case, unless callers append to a column that holds decoded rows.
THEOREM ViewIsContentHolds ==
    ASSUME ~Mixed
    PROVE  Spec => []ViewIsContent
<1>1. Init => TypeOK /\ ViewIsContent
  BY InitTyped
<1>2. TypeOK /\ ViewIsContent /\ [Next]_vars => (TypeOK /\ ViewIsContent)'
  BY StepKeeps
<1> QED
  BY <1>1, <1>2, PTL DEF Spec

\* What EncodeColumn writes is read back as the rows of the column: the width
\* chosen for the keys has room for each, and their bytes put together give the
\* key again.  Eight bytes number all the rows there can be.  The type has a case,
\* and the rows have no NaN.
THEOREM RoundTripHolds ==
    ASSUME ~Mixed, MaxRows <= Place[8], MaxKeys <= Place[8]
    PROVE  Spec => []RoundTrip
<1> DEFINE Inv == TypeOK /\ ViewIsContent /\ RoundTrip /\ Len(content) <= Place[8]
<1>0. Place[8] \in Nat /\ MaxRows \in Nat /\ MaxKeys \in Nat
  BY PlaceType, LowCardinalityAssumption
<1>1. Init => Inv
  BY <1>0, InitTyped
<1>2. Inv /\ [Next]_vars => Inv'
  <2> SUFFICES ASSUME Inv, [Next]_vars
               PROVE  Inv'
    OBVIOUS
  <2>1. TypeOK' /\ ViewIsContent' /\ RoundTrip'
    BY StepKeeps
  <2>2. content' = content \/ Len(content') <= MaxRows \/ Len(content') <= MaxKeys
    BY StepKeeps
  <2>3. Len(content') \in Nat /\ Len(content) \in Nat
    BY <2>1 DEF TypeOK
  <2>4. Len(content') <= Place[8]
    BY <1>0, <2>2, <2>3
  <2> QED
    BY <2>1, <2>4, PlaceIs
<1>3. Inv => RoundTrip
  OBVIOUS
<1> HIDE DEF Inv
<1> QED
  BY <1>1, <1>2, <1>3, PTL DEF Spec

\* DecodeColumn takes no damaged block for a whole one, unless the key type is one
\* that does not exist or T has no case: it returns an error, or panics at an empty
\* dictionary of uint8.
THEOREM DamageReportedHolds ==
    ASSUME "width" \notin Damage
    PROVE  Spec => []DamageReported
<1>1. Init => TypeOK /\ DamageReported
  BY InitTyped
<1>2. TypeOK /\ DamageReported /\ [Next]_vars => (TypeOK /\ DamageReported)'
  BY StepKeeps
<1> QED
  BY <1>1, <1>2, PTL DEF Spec

=============================================================================
