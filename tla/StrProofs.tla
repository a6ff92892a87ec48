----------------------------- MODULE StrProofs ------------------------------
(***************************************************************************)
(* Proofs about Str, for blocks of any size, strings of any length and     *)
(* varints of any number of groups.                                        *)
(***************************************************************************)
EXTENDS Str, Counting, SequenceTheorems

-----------------------------------------------------------------------------
(* Varints. *)

LEMMA PowerIs ==
    /\ Power[0] = 1
    /\ \A k \in 1..Groups : Power[k] = Group * Power[k - 1]
    /\ \A k \in 0..Groups : Power[k] \in Nat \ {0}
<1> DEFINE N == Nat \ {0}
           F(f) == [k \in 0..Groups |-> IF k = 0 THEN 1 ELSE Group * f[k - 1]]
<1>1. Group \in N /\ Groups \in Nat
  BY StrAssumption
<1>2. \A a, b \in N : a * b \in N
  OBVIOUS
<1>3. PICK h : h = [k \in 1..Groups |-> [v \in N |-> Group * v]]
  OBVIOUS
<1>4. h \in [1..Groups -> [N -> N]] /\ \A k \in 1..Groups, v \in N : h[k][v] = Group * v
  BY <1>1, <1>2, <1>3
<1>5. 1 \in N
  OBVIOUS
<1> HIDE DEF N
<1>6. PICK g \in [0..Groups -> N] : g[0] = 1 /\ \A k \in 1..Groups : g[k] = h[k][g[k - 1]]
  <2>1. PICK S : S = N
    OBVIOUS
  <2>2. PICK n : n = Groups
    OBVIOUS
  <2>3. PICK a : a = 1
    OBVIOUS
  <2>4. n \in Nat /\ a \in S /\ h \in [1..n -> [S -> S]]
    BY <1>1, <1>4, <1>5, <2>1, <2>2, <2>3
  <2>5. \E g \in [0..n -> S] : g[0] = a /\ \A k \in 1..n : g[k] = h[k][g[k - 1]]
    BY ONLY <2>4, Recursion
  <2> QED
    BY <2>1, <2>2, <2>3, <2>5
<1>7. \A k \in 1..Groups : g[k] = Group * g[k - 1]
  <2>1. \A k \in 1..Groups : k - 1 \in 0..Groups
    BY <1>1
  <2> QED
    BY <2>1, <1>6, <1>4
<1>8. g = F(g)
  <2>1. \A k \in 0..Groups : g[k] = IF k = 0 THEN 1 ELSE Group * g[k - 1]
    BY <1>6, <1>7, <1>1
  <2> QED
    BY <2>1, <1>6
<1>9. Power = CHOOSE f : f = F(f)
  BY DEF Power
<1> HIDE DEF F
<1>10. Power = F(Power)
  BY <1>8, <1>9
<1>11. \A k \in 0..Groups : Power[k] = IF k = 0 THEN 1 ELSE Group * Power[k - 1]
  BY <1>10 DEF F
<1>12. Power[0] = 1 /\ \A k \in 1..Groups : Power[k] = Group * Power[k - 1]
  BY <1>11, <1>1
<1>13. ASSUME NEW m \in 0..Groups, Power[m] \notin N
       PROVE  FALSE
  <2> DEFINE Bad == {k \in 0..Groups : Power[k] \notin N}
  <2>1. Bad \in SUBSET Nat /\ Bad # {}
    BY <1>13
  <2>2. PICK k \in Bad : \A y \in Bad : k <= y
    <3> HIDE DEF Bad
    <3> QED
      BY <2>1, Least
  <2>3. k # 0
    BY <1>12, <1>5, <2>2
  <2>4. k \in 1..Groups /\ k - 1 \in 0..Groups
    BY <2>2, <2>3, <1>1
  <2>5. Power[k - 1] \in N
    BY <2>4, <2>2
  <2>6. Power[k] \in N
    BY <2>4, <2>5, <1>12, <1>1, <1>2
  <2> QED
    BY <2>6, <2>2
<1> QED
  BY <1>12, <1>13 DEF N

\* One more group makes room for at least twice as many values.
LEMMA PowerGrows ==
    /\ \A k \in 1..Groups : 2 * Power[k - 1] <= Power[k] /\ Power[k - 1] < Power[k]
    /\ \A i, j \in 0..Groups : i <= j => Power[i] <= Power[j]
<1>1. Group \in Nat /\ 2 <= Group /\ Groups \in Nat
  BY StrAssumption
<1>2. ASSUME NEW k \in 1..Groups
      PROVE  2 * Power[k - 1] <= Power[k] /\ Power[k - 1] < Power[k]
  <2>1. k - 1 \in 0..Groups /\ k \in 0..Groups
    BY <1>1
  <2>2. PICK p \in Nat \ {0} : p = Power[k - 1]
    BY <2>1, PowerIs
  <2>3. PICK q \in Nat \ {0} : q = Power[k]
    BY <2>1, PowerIs
  <2>4. q = Group * p
    BY <2>2, <2>3, PowerIs
  <2>5. 2 * p <= Group * p
    BY <1>1, Products
  <2> QED
    BY <2>2, <2>3, <2>4, <2>5
<1>3. ASSUME NEW i \in 0..Groups, NEW j \in 0..Groups, i <= j, ~(Power[i] <= Power[j])
      PROVE  FALSE
  <2> DEFINE Bad == {k \in 0..Groups : i <= k /\ ~(Power[i] <= Power[k])}
  <2>1. Bad \in SUBSET Nat /\ Bad # {}
    BY <1>3
  <2>2. PICK k \in Bad : \A y \in Bad : k <= y
    <3> HIDE DEF Bad
    <3> QED
      BY <2>1, Least
  <2>3. k \in 0..Groups /\ i <= k /\ ~(Power[i] <= Power[k])
    BY <2>2
  <2>4. Power[i] \in Nat /\ Power[k] \in Nat
    BY <2>3, PowerIs
  <2>5. k # i
    BY <2>3, <2>4
  <2>6. k \in 1..Groups /\ k - 1 \in 0..Groups /\ i <= k - 1 /\ k - 1 < k
    BY <2>3, <2>5, <1>1
  <2>7. k - 1 \notin Bad
    BY <2>2, <2>6
  <2>8. Power[i] <= Power[k - 1] /\ Power[k - 1] \in Nat
    BY <2>6, <2>7, PowerIs
  <2>9. Power[k - 1] < Power[k]
    BY <2>6, <1>2
  <2> QED
    BY <2>3, <2>4, <2>8, <2>9
<1> QED
  BY <1>2, <1>3

GroupOf == [more : BOOLEAN, bits : 0..Group - 1]

\* The sums of the first groups, of which the last is the value.
LEMMA Sums ==
    ASSUME NEW m \in 0..Groups, NEW gs, Len(gs) = m,
           \A k \in 1..m : gs[k].bits \in 0..Group - 1
    PROVE  \E x \in [0..m -> Nat] :
              /\ x[0] = 0
              /\ \A k \in 1..m : x[k] = x[k - 1] + gs[k].bits * Power[k - 1]
              /\ Value(gs) = x[m]
<1> DEFINE F(f) == [k \in 0..Len(gs) |-> IF k = 0 THEN 0 ELSE f[k - 1] + gs[k].bits * Power[k - 1]]
<1>1. m \in Nat /\ Groups \in Nat /\ Group \in Nat
  BY StrAssumption
<1>2. \A a, b, c \in Nat : a + b * c \in Nat
  <2>1. \A b, c \in Nat : b * c \in Nat
    OBVIOUS
  <2>2. \A a, b \in Nat : a + b \in Nat
    OBVIOUS
  <2> QED
    BY <2>1, <2>2, Zenon
<1>3. \A k \in 1..m : gs[k].bits \in Nat /\ Power[k - 1] \in Nat /\ k - 1 \in 0..m
  <2>1. \A k \in 1..m : k - 1 \in 0..Groups /\ k - 1 \in 0..m
    BY <1>1
  <2> QED
    BY <2>1, PowerIs, <1>1
<1>4. PICK h : h = [k \in 1..m |-> [v \in Nat |-> v + gs[k].bits * Power[k - 1]]]
  OBVIOUS
<1>5. \A k \in 1..m, v \in Nat : h[k][v] = v + gs[k].bits * Power[k - 1]
  BY <1>4
<1>6. h \in [1..m -> [Nat -> Nat]]
  <2>1. \A k \in 1..m : [v \in Nat |-> v + gs[k].bits * Power[k - 1]] \in [Nat -> Nat]
    BY <1>2, <1>3
  <2> QED
    BY <2>1, <1>4
<1>7. PICK g \in [0..m -> Nat] : g[0] = 0 /\ \A k \in 1..m : g[k] = h[k][g[k - 1]]
  <2>1. PICK S : S = Nat
    OBVIOUS
  <2>2. PICK a : a = 0
    OBVIOUS
  <2>3. a \in S /\ h \in [1..m -> [S -> S]]
    BY <1>6, <2>1, <2>2
  <2>4. \E g \in [0..m -> S] : g[0] = a /\ \A k \in 1..m : g[k] = h[k][g[k - 1]]
    BY ONLY <1>1, <2>3, Recursion
  <2> QED
    BY <2>1, <2>2, <2>4
<1>8. \A k \in 1..m : g[k] = g[k - 1] + gs[k].bits * Power[k - 1]
  <2>1. \A k \in 1..m : g[k - 1] \in Nat
    BY <1>3, <1>7
  <2> QED
    BY <2>1, <1>5, <1>7
<1>9. g = F(g)
  <2>1. \A k \in 0..m : g[k] = IF k = 0 THEN 0 ELSE g[k - 1] + gs[k].bits * Power[k - 1]
    <3>1. \A k \in 0..m : k # 0 => k \in 1..m
      BY <1>1
    <3> QED
      BY <3>1, <1>7, <1>8, Zenon
  <2> QED
    BY <2>1, <1>7
<1>10. PICK x : x = CHOOSE f : f = F(f)
  OBVIOUS
<1>11. Value(gs) = x[m]
  BY <1>10 DEF Value
<1> HIDE DEF F
<1>12. x = F(x)
  BY <1>9, <1>10
<1>13. \A k \in 0..m : x[k] = IF k = 0 THEN 0 ELSE x[k - 1] + gs[k].bits * Power[k - 1]
  BY <1>12 DEF F
<1>14. DOMAIN x = 0..m /\ x = [k \in 0..m |-> x[k]]
  BY <1>12 DEF F
<1>15. x[0] = 0 /\ \A k \in 1..m : x[k] = x[k - 1] + gs[k].bits * Power[k - 1]
  BY <1>13, <1>1
<1>16. ASSUME NEW j \in 0..m, x[j] \notin Nat
       PROVE  FALSE
  <2> DEFINE Bad == {k \in 0..m : x[k] \notin Nat}
  <2>1. Bad \in SUBSET Nat /\ Bad # {}
    <3>1. 0..m \in SUBSET Nat
      BY <1>1
    <3>2. j \in Bad
      BY <1>16
    <3> QED
      BY <3>1, <3>2, Zenon
  <2>2. PICK k \in Bad : \A y \in Bad : k <= y
    <3> HIDE DEF Bad
    <3> QED
      BY <2>1, Least
  <2>3. k # 0
    BY <1>15, <2>2
  <2>4. k \in 1..m /\ k - 1 \in 0..m
    BY <2>2, <2>3, <1>1
  <2>5. x[k - 1] \in Nat
    BY <2>4, <2>2
  <2>6. x[k] \in Nat
    <3>1. PICK b \in Nat : b = gs[k].bits
      BY <2>4, <1>3
    <3>2. PICK p \in Nat : p = Power[k - 1]
      BY <2>4, <1>3
    <3>3. PICK y \in Nat : y = x[k - 1]
      BY <2>5
    <3>4. x[k] = y + b * p
      BY <2>4, <3>1, <3>2, <3>3, <1>15
    <3>5. b * p \in Nat
      BY ONLY b \in Nat, p \in Nat
    <3>6. y + b * p \in Nat
      BY ONLY y \in Nat, <3>5
    <3> QED
      BY <3>4, <3>6
  <2> QED
    BY <2>6, <2>2
<1>17. x \in [0..m -> Nat]
  BY <1>14, <1>16
<1> QED
  BY <1>11, <1>15, <1>17
\* The sums stay below the value of a one in the next group.
LEMMA SumsAreBelow ==
    ASSUME NEW m \in 0..Groups, NEW gs, NEW x \in [0..m -> Nat],
           \A k \in 1..m : gs[k].bits \in 0..Group - 1,
           x[0] = 0, \A k \in 1..m : x[k] = x[k - 1] + gs[k].bits * Power[k - 1]
    PROVE  \A k \in 0..m : x[k] < Power[k]
<1>1. m \in Nat /\ Groups \in Nat /\ Group \in Nat /\ Group - 1 \in Nat
  BY StrAssumption
<1> DEFINE Bad == {k \in 0..m : ~(x[k] < Power[k])}
<1>2. SUFFICES ASSUME Bad # {}
               PROVE  FALSE
  OBVIOUS
<1>3. Bad \in SUBSET Nat
  OBVIOUS
<1>4. PICK k \in Bad : \A y \in Bad : k <= y
  <2> HIDE DEF Bad
  <2> QED
    BY <1>2, <1>3, Least
<1>5. k # 0
  BY <1>4, PowerIs
<1>6. k \in 1..m /\ k - 1 \in 0..m /\ k - 1 < k /\ k \in 1..Groups /\ k - 1 \in 0..Groups
  BY <1>4, <1>5, <1>1
<1>7. k - 1 \notin Bad
  BY <1>4, <1>6
<1>8. PICK p \in Nat \ {0} : p = Power[k - 1]
  BY <1>6, PowerIs
<1>9. PICK q \in Nat \ {0} : q = Power[k]
  BY <1>6, PowerIs
<1>10. PICK b \in 0..Group - 1 : b = gs[k].bits
  BY <1>6
<1>11. PICK y \in Nat : y = x[k - 1]
  BY <1>6
<1>12. x[k] = y + b * p /\ y < p /\ q = Group * p
  BY <1>6, <1>7, <1>8, <1>9, <1>10, <1>11, PowerIs
<1>13. b * p <= (Group - 1) * p /\ b * p \in Nat
  BY <1>1, Products
<1>14. (Group - 1) * p = q - p
  BY <1>1, <1>12
<1>15. x[k] < q
  BY <1>12, <1>13, <1>14
<1> QED
  BY <1>15, <1>9, <1>4

\* The groups of n, the sums of m groups, and the remainders of n.
GroupsOf(gs, m, n) == \A k \in 1..m : gs[k].bits = (n \div Power[k - 1]) % Group
SumsOf(gs, m, x) ==
    x[0] = 0 /\ \A k \in 1..m : x[k] = x[k - 1] + gs[k].bits * Power[k - 1]

\* Of the groups of a number, the sums are its remainders.
LEMMA SumsOfDigits ==
    ASSUME NEW m \in 0..Groups, NEW gs, NEW x \in [0..m -> Nat], NEW n \in Nat,
           GroupsOf(gs, m, n), SumsOf(gs, m, x)
    PROVE  \A k \in 0..m : x[k] = n - (n \div Power[k]) * Power[k]
<1> USE DEF GroupsOf, SumsOf
<1>1. m \in Nat /\ Groups \in Nat /\ Group \in Nat \ {0}
  BY StrAssumption
<1> DEFINE Rest(k) == n - (n \div Power[k]) * Power[k]
           Bad == {k \in 0..m : x[k] # Rest(k)}
<1>2. SUFFICES ASSUME Bad # {}
               PROVE  FALSE
  OBVIOUS
<1>3. Bad \in SUBSET Nat
  OBVIOUS
<1>4. PICK k \in Bad : \A y \in Bad : k <= y
  <2> HIDE DEF Bad
  <2> QED
    BY <1>2, <1>3, Least
<1>5. k # 0
  <2>1. Rest(0) = 0
    BY PowerIs
  <2> QED
    BY <1>4, <2>1
<1>6. k \in 1..m /\ k - 1 \in 0..m /\ k - 1 < k /\ k \in 1..Groups /\ k - 1 \in 0..Groups
  BY <1>4, <1>5, <1>1
<1>7. x[k - 1] = Rest(k - 1)
  BY <1>4, <1>6
<1>8. PICK p \in Nat \ {0} : p = Power[k - 1]
  BY <1>6, PowerIs
<1>9. PICK q \in Nat \ {0} : q = Power[k]
  BY <1>6, PowerIs
<1>10. q = p * Group
  <2>1. q = Group * p
    BY <1>6, <1>8, <1>9, PowerIs
  <2> QED
    BY ONLY <2>1, <1>1, p \in Nat
<1>11. ((n \div p) % Group) * p = (n \div p) * p - (n \div (p * Group)) * (p * Group)
  BY <1>1, Digit
<1>12. x[k] = x[k - 1] + ((n \div p) % Group) * p
  BY <1>6, <1>8
<1>13. (n \div p) * p \in Int /\ (n \div q) * q \in Int
  <2>1. n \div p \in Nat /\ n \div q \in Nat
    BY Quotient
  <2>2. \A a, b \in Nat : a * b \in Int
    OBVIOUS
  <2> QED
    BY <2>1, <2>2
<1>14. x[k] = n - (n \div q) * q
  BY <1>7, <1>8, <1>10, <1>11, <1>12, <1>13
<1> QED
  BY <1>14, <1>9, <1>4

\* Where readUVarint stops.
LEMMA ReadIs ==
    ASSUME NEW gs, NEW l \in Nat, Len(gs) = l, NEW m \in 1..l, m <= Groups,
           ~gs[m].more, \A k \in 1..m - 1 : gs[k].more
    PROVE  readUVarint(gs) =
              IF m = Groups /\ gs[Groups].bits > 1 THEN Overflow ELSE Value(SubSeq(gs, 1, m))
<1> DEFINE ends == {k \in 1..Len(gs) : k <= Groups /\ ~gs[k].more}
<1>1. ends # {} /\ m \in ends
  OBVIOUS
<1>2. \A k \in ends : m <= k
  OBVIOUS
<1>3. ends \subseteq Nat
  OBVIOUS
<1>4. readUVarint(gs) =
        IF ends = {} THEN IF Len(gs) < Groups THEN EOF ELSE Overflow
        ELSE IF Min(ends) = Groups /\ gs[Groups].bits > 1 THEN Overflow
        ELSE Value(SubSeq(gs, 1, Min(ends)))
  BY DEF readUVarint
<1> HIDE DEF ends
<1>5. Min(ends) = m
  <2>1. PICK u : u = CHOOSE x \in ends : \A y \in ends : x <= y
    OBVIOUS
  <2>2. u \in ends /\ \A y \in ends : u <= y
    BY <1>1, <1>2, <2>1
  <2>3. u = m
    BY <1>1, <1>2, <1>3, <2>2
  <2> QED
    BY <2>1, <2>3 DEF Min
<1> QED
  BY <1>1, <1>4, <1>5, Zenon

\* The first groups of a sequence of groups.
LEMMA FirstGroups ==
    ASSUME NEW gs, NEW l \in Nat, gs \in [1..l -> GroupOf], NEW m \in 0..l, m <= Groups
    PROVE  /\ Value(SubSeq(gs, 1, m)) \in Nat
           /\ Value(SubSeq(gs, 1, m)) < Power[m]
           /\ m > 0 => \E y \in Nat : /\ y < Power[m - 1]
                                      /\ Value(SubSeq(gs, 1, m)) = y + gs[m].bits * Power[m - 1]
<1>1. m \in 0..Groups /\ m \in Nat /\ Groups \in Nat
  BY StrAssumption
<1>2. PICK hs : hs = SubSeq(gs, 1, m)
  OBVIOUS
<1>3. hs = [k \in 1..m |-> gs[k]] /\ Len(hs) = m
  BY <1>2
<1>4. \A k \in 1..m : hs[k] = gs[k] /\ hs[k].bits \in 0..Group - 1
  BY <1>3 DEF GroupOf
<1>5. PICK x \in [0..m -> Nat] :
              /\ x[0] = 0
              /\ \A k \in 1..m : x[k] = x[k - 1] + hs[k].bits * Power[k - 1]
              /\ Value(hs) = x[m]
  BY <1>1, <1>3, <1>4, Sums
<1>6. \A k \in 0..m : x[k] < Power[k]
  BY <1>1, <1>4, <1>5, SumsAreBelow
<1>7. ASSUME m > 0
      PROVE  \E y \in Nat : y < Power[m - 1] /\ Value(hs) = y + gs[m].bits * Power[m - 1]
  <2>1. m - 1 \in 0..m /\ m \in 1..m
    BY <1>1, <1>7
  <2>2. x[m - 1] \in Nat /\ x[m - 1] < Power[m - 1] /\ Value(hs) = x[m - 1] + gs[m].bits * Power[m - 1]
    BY <2>1, <1>4, <1>5, <1>6
  <2> QED
    BY <2>2
<1> QED
  BY <1>1, <1>2, <1>5, <1>6, <1>7

\* A number is read as what was written.
LEMMA RoundTrip ==
    ASSUME NEW n \in Nat, n < 2 * Power[Groups - 1]
    PROVE  readUVarint(PutUVarint(n)) = n
<1>1. Group \in Nat \ {0, 1} /\ Groups \in Nat \ {0} /\ Groups - 1 \in 0..Groups /\ Groups \in 0..Groups
  BY StrAssumption
<1> DEFINE Fits(k) == Power[k + 1] > n
           Ends(k) == Fits(k) /\ (k = 0 \/ Power[k] <= n)
           Fit == {k \in 0..Groups - 1 : Fits(k)}
<1>2. \A k \in 0..Groups - 1 : k \in 0..Groups /\ k + 1 \in 0..Groups
  BY <1>1
<1>3. Groups - 1 \in Fit
  <2>1. PICK p \in Nat : p = Power[Groups - 1]
    BY <1>1, PowerIs
  <2>2. PICK q \in Nat : q = Power[Groups]
    BY <1>1, PowerIs
  <2>3. 2 * p <= q
    BY <2>1, <2>2, <1>1, PowerGrows
  <2>4. n < q
    BY <2>1, <2>3
  <2>5. (Groups - 1) + 1 = Groups /\ Groups - 1 \in 0..Groups - 1
    BY <1>1
  <2> QED
    BY <2>2, <2>4, <2>5
<1>4. \E k \in 0..Groups - 1 : Ends(k)
  <2>1. Fit \in SUBSET Nat
    OBVIOUS
  <2>2. PICK k \in Fit : \A y \in Fit : k <= y
    <3> HIDE DEF Fit
    <3> QED
      BY <1>3, <2>1, Least
  <2>3. CASE k = 0
    BY <2>2, <2>3
  <2>4. CASE k # 0
    <3>0. k \in 0..Groups - 1
      BY <2>2
    <3>1. k - 1 \in 0..Groups - 1 /\ ~(k <= k - 1) /\ (k - 1) + 1 = k
      BY ONLY <3>0, <2>4, <1>1
    <3>2. ~(Power[k] > n)
      BY <3>1, <2>2
    <3>3. Power[k] \in Nat
      BY <2>2, <1>2, PowerIs
    <3> QED
      BY <3>2, <3>3, <2>2
  <2> QED
    BY <2>3, <2>4
<1> HIDE DEF Fits, Ends, Fit
<1>5. PICK last : last = CHOOSE k \in 0..Groups - 1 : Ends(k)
  OBVIOUS
<1>6. last \in 0..Groups - 1 /\ Ends(last)
  BY <1>4, <1>5
<1>7. PICK gs : gs = PutUVarint(n)
  OBVIOUS
<1>8. gs = [k \in 1..last + 1 |-> [more |-> k <= last, bits |-> (n \div Power[k - 1]) % Group]]
  BY <1>5, <1>7 DEF PutUVarint, Ends, Fits
<1>9. PICK m \in 1..Groups : m = last + 1
  BY <1>6, <1>1
<1>10. gs = [k \in 1..m |-> [more |-> k <= last, bits |-> (n \div Power[k - 1]) % Group]]
  BY <1>8, <1>9
<1>11. \A k \in 1..m : gs[k] = [more |-> k <= last, bits |-> (n \div Power[k - 1]) % Group]
  BY <1>10
<1>12. \A k \in 1..m : (gs[k].more <=> k <= last) /\ gs[k].bits = (n \div Power[k - 1]) % Group
  <2>1. ASSUME NEW k \in 1..m
        PROVE  (gs[k].more <=> k <= last) /\ gs[k].bits = (n \div Power[k - 1]) % Group
    <3>1. PICK g : g = gs[k]
      OBVIOUS
    <3>2. PICK d : d = (n \div Power[k - 1]) % Group
      OBVIOUS
    <3>3. g = [more |-> k <= last, bits |-> d]
      BY <1>11, <3>1, <3>2, Zenon
    <3>4. (g.more <=> k <= last) /\ g.bits = d
      BY <3>3, Zenon
    <3> QED
      BY <3>1, <3>2, <3>4, Zenon
  <2> QED
    BY <2>1
<1>13. DOMAIN gs = 1..m /\ Len(gs) = m /\ m \in Nat /\ m \in 1..m /\ m <= Groups /\ m \in 0..Groups
  BY <1>10, <1>9, <1>1
<1>14. ~gs[m].more /\ \A k \in 1..m - 1 : gs[k].more
  <2>1. ~(m <= last) /\ m \in 1..m
    BY <1>6, <1>9
  <2>2. \A k \in 1..m - 1 : k <= last /\ k \in 1..m
    BY <1>6, <1>9
  <2> QED
    BY <2>1, <2>2, <1>12, Zenon
<1>15. readUVarint(gs) = IF m = Groups /\ gs[Groups].bits > 1 THEN Overflow ELSE Value(SubSeq(gs, 1, m))
  BY <1>13, <1>14, ReadIs
<1>16. SubSeq(gs, 1, m) = gs
  <2>1. SubSeq(gs, 1, m) = [k \in 1..m |-> gs[k]]
    BY <1>13
  <2> QED
    BY <2>1, <1>10
<1>17. \A k \in 1..m : gs[k].bits \in 0..Group - 1
  <2>1. ASSUME NEW k \in 1..m PROVE (n \div Power[k - 1]) % Group \in 0..Group - 1
    <3>1. k - 1 \in 0..Groups
      BY <1>1, <1>9
    <3>2. PICK p \in Nat \ {0} : p = Power[k - 1]
      BY <3>1, PowerIs
    <3>3. (n \div p) % Group \in 0..Group - 1
      BY <1>1, Digit
    <3> QED
      BY <3>2, <3>3
  <2> QED
    BY <2>1, <1>12
<1>18. PICK x \in [0..m -> Nat] :
              /\ x[0] = 0
              /\ \A k \in 1..m : x[k] = x[k - 1] + gs[k].bits * Power[k - 1]
              /\ Value(gs) = x[m]
  BY <1>13, <1>17, Sums
<1>19. x[m] = n - (n \div Power[m]) * Power[m]
  <2>1. \A k \in 0..m : x[k] = n - (n \div Power[k]) * Power[k]
    <3>1. GroupsOf(gs, m, n)
      BY <1>12 DEF GroupsOf
    <3>2. m \in 0..Groups /\ n \in Nat
      BY <1>13
    <3>3. x \in [0..m -> Nat]
      BY <1>18
    <3>4. SumsOf(gs, m, x)
      BY <1>18 DEF SumsOf
    <3> QED
      BY ONLY <3>1, <3>2, <3>3, <3>4, SumsOfDigits
  <2> QED
    BY <2>1, <1>13
<1>20. PICK q \in Nat \ {0} : q = Power[m]
  BY <1>13, PowerIs
<1>21. n < q
  BY <1>6, <1>9, <1>20 DEF Ends, Fits
<1>22. Value(gs) = n
  <2>1. n \div q = 0
    BY <1>21
  <2> QED
    BY <2>1, <1>18, <1>19, <1>20
<1>23. ~(m = Groups /\ gs[Groups].bits > 1)
  <2>1. SUFFICES ASSUME m = Groups, gs[Groups].bits > 1
                 PROVE  FALSE
    OBVIOUS
  <2>2. PICK p \in Nat \ {0} : p = Power[Groups - 1]
    BY <1>1, PowerIs
  <2>3. gs[Groups].bits = (n \div p) % Group
    BY <2>1, <2>2, <1>12, <1>13
  <2>4. n \div p \in {0, 1}
    <3>1. n < p + p
      BY <2>2
    <3> QED
      BY <3>1
  <2>5. (n \div p) % Group = n \div p
    <3>1. PICK d \in {0, 1} : d = n \div p
      BY <2>4
    <3>2. d \in Nat /\ d < Group /\ Group \in Nat
      BY <1>1
    <3> QED
      BY <3>1, <3>2, Modulo
  <2> QED
    BY <2>1, <2>3, <2>4, <2>5
<1> QED
  BY <1>7, <1>15, <1>16, <1>22, <1>23

\* Whatever groups arrive are read as their value, an overflow or an end.
LEMMA ReadsGroups ==
    ASSUME NEW gs \in SeqOf(GroupOf, Groups)
    PROVE  LET n == readUVarint(gs)
               end == {k \in DOMAIN gs : ~gs[k].more}
           IN  CASE end # {} /\ Value(SubSeq(gs, 1, Min(end))) < 2 * Power[Groups - 1]
                        -> n = Value(SubSeq(gs, 1, Min(end)))
                 [] end = {} /\ Len(gs) < Groups -> n = EOF
                 [] OTHER -> n = Overflow
<1>1. Group \in Nat \ {0, 1} /\ Groups \in Nat \ {0} /\ Groups - 1 \in 0..Groups
  BY StrAssumption
<1>2. PICK l \in 0..Groups : gs \in [1..l -> GroupOf]
  BY DEF SeqOf
<1>3. Len(gs) = l /\ DOMAIN gs = 1..l /\ l \in Nat
  BY <1>2, <1>1
<1> DEFINE end == {k \in DOMAIN gs : ~gs[k].more}
           ends == {k \in 1..Len(gs) : k <= Groups /\ ~gs[k].more}
           n == readUVarint(gs)
           V(m) == Value(SubSeq(gs, 1, m))
<1>4. ends = end
  BY <1>2, <1>3, <1>1
<1>5. CASE end = {}
  <2>1. n = IF l < Groups THEN EOF ELSE Overflow
    BY <1>3, <1>4, <1>5 DEF readUVarint
  <2> HIDE DEF end, n
  <2> QED
    BY <2>1, <1>3, <1>5 DEF end, n
<1>6. CASE end # {}
  <2>1. end \in SUBSET Nat /\ end \subseteq 1..l
    BY <1>3
  <2>2. PICK m \in end : \A y \in end : m <= y
    <3> HIDE DEF end
    <3> QED
      BY <1>6, <2>1, Least
  <2>3. Min(end) = m
    <3>1. PICK u : u = CHOOSE x \in end : \A y \in end : x <= y
      OBVIOUS
    <3>2. u \in end /\ \A y \in end : u <= y
      BY <2>2, <3>1
    <3>3. u = m
      BY <2>1, <2>2, <3>2
    <3> QED
      BY <3>1, <3>3 DEF Min
  <2>4. m \in 1..l /\ m <= Groups /\ m \in 0..l /\ ~gs[m].more
    BY <2>1, <2>2, <1>2, <1>3, <1>1
  <2>5. ASSUME NEW k \in 1..m - 1 PROVE gs[k].more
    <3>1. k \in 1..l /\ ~(m <= k)
      BY <2>4, <1>1, <1>2
    <3>2. k \notin end
      BY <3>1, <2>2
    <3> QED
      BY <3>1, <3>2, <1>3
  <2>6. n = IF m = Groups /\ gs[Groups].bits > 1 THEN Overflow ELSE V(m)
    BY <1>3, <2>4, <2>5, ReadIs
  <2>7. PICK b \in 0..Group - 1 : b = gs[m].bits
    BY <1>2, <2>4 DEF GroupOf
  <2>8. PICK v \in Nat : v = V(m) /\ v < Power[m] /\
                         \E y \in Nat : y < Power[m - 1] /\ v = y + gs[m].bits * Power[m - 1]
    BY <1>2, <1>3, <2>4, FirstGroups
  <2>9. PICK p \in Nat \ {0} : p = Power[Groups - 1]
    BY <1>1, PowerIs
  <2>10. v < 2 * p <=> ~(m = Groups /\ gs[Groups].bits > 1)
    <3>1. CASE m # Groups
      <4>1. m \in 0..Groups /\ m <= Groups - 1
        BY <3>1, <2>4, <1>1, <1>2
      <4>2. Power[m] <= p /\ Power[m] \in Nat
        BY <4>1, <2>9, <1>1, PowerGrows, PowerIs
      <4> QED
        BY <4>2, <2>8, <3>1
    <3>2. CASE m = Groups
      <4>1. PICK y \in Nat : y < p /\ v = y + b * p
        BY <3>2, <2>7, <2>8, <2>9
      <4>2. CASE b = 0 \/ b = 1
        BY <4>1, <4>2, <3>2, <2>7
      <4>3. CASE ~(b = 0 \/ b = 1)
        <5>1. 2 <= b /\ b \in Nat
          BY <4>3, <1>1
        <5>2. 2 * p <= b * p /\ b * p \in Nat
          BY <5>1, Products
        <5> QED
          BY <4>1, <5>1, <5>2, <3>2, <2>7
      <4> QED
        BY <4>2, <4>3
    <3> QED
      BY <3>1, <3>2
  <2>11. V(Min(end)) = v
    BY <2>3, <2>8
  <2>12. n = IF v < 2 * Power[Groups - 1] THEN v ELSE Overflow
    BY <2>6, <2>8, <2>9, <2>10
  <2> HIDE DEF end, n, V
  <2> QED
    BY <2>11, <2>12, <1>6 DEF end, n, V
<1> QED
  BY <1>5, <1>6

\* A length is read as what was written, a longer number is an overflow and an
\* incomplete one an unexpected end, for groups of any size and any number of
\* them: readUVarint never takes one length for another.
THEOREM VarintExactHolds == Spec => []VarintExact
<1>1. \A n \in 0..2 * Power[Groups - 1] - 1 : readUVarint(PutUVarint(n)) = n
  <2>1. PICK p \in Nat \ {0} : p = Power[Groups - 1]
    <3>1. Groups - 1 \in 0..Groups
      BY StrAssumption
    <3> QED
      BY <3>1, PowerIs
  <2>2. \A n \in 0..2 * p - 1 : n \in Nat /\ n < 2 * p
    OBVIOUS
  <2> QED
    BY <2>1, <2>2, RoundTrip
<1>2. VarintExact
  BY <1>1, ReadsGroups DEF VarintExact, GroupOf
<1> QED
  BY <1>2, PTL

-----------------------------------------------------------------------------
(* Memory, the buffer and the rows. *)

Cell == Nat \X Nat \X Nat
Ref == [a : Nat, from : Nat, n : Nat]

\* A string that lies in the memory m.
InArena(m, ref) ==
    ref.n = 0 \/ (ref.a \in 1..Len(m) /\ ref.from + ref.n <= Len(m[ref.a]))

\* Where the row i of the block begins, or the next one will.
Bound(i) == IF i <= Len(pos) THEN pos[i] ELSE buf.len

Buffer ==
    /\ mem \in Seq(Seq(Cell))
    /\ buf \in [a : Nat, len : Nat]
    /\ buf.a <= Len(mem) /\ buf.len <= Cap(buf.a)
    /\ peak \in Nat /\ peak <= Cap(buf.a)

Block ==
    /\ pc \in {"idle", "rows"} /\ sent \in 0..MaxStrings
    /\ lens \in Seq(0..MaxLen) /\ Len(lens) <= MaxRows
    /\ pos \in Seq(Nat) /\ Len(pos) <= Len(lens)
    /\ pc = "idle" => lens = << >> /\ pos = << >>

\* The rows read so far lie one after the other at the start of the buffer.
ReadSoFar ==
    \A i \in 1..Len(pos) :
        /\ Bound(i + 1) = pos[i] + lens[i] /\ pos[i] + lens[i] <= buf.len
        /\ \A k \in 1..lens[i] : mem[buf.a][pos[i] + k] = <<sent, i, k>>

References ==
    /\ Data \in Seq(Ref) /\ Len(Data) <= MaxRows
    /\ \A i \in DOMAIN Data : InArena(mem, Data[i])
    /\ \A k \in kept : k.ref \in Ref /\ InArena(mem, k.ref)

Whole ==
    /\ whole \in BOOLEAN
    /\ whole /\ pc = "idle" =>
          DOMAIN given = DOMAIN Data /\ given = [i \in DOMAIN Data |-> Read(mem, Data[i])]

IInv == Buffer /\ Block /\ ReadSoFar /\ References /\ Whole

\* The memory m with got bytes of a string written after from in the arena a.
With(m, a, id, row, from, n, got) ==
    IF got = 0 THEN m
    ELSE [m EXCEPT ![a] = [k \in DOMAIN @ |->
             IF k > from /\ k <= from + got THEN Text(id, row, n)[k - from] ELSE @[k]]]

\* That w is that memory, cell by cell.
IsWith(w, m, a, id, row, from, got) ==
    /\ w \in Seq(Seq(Cell)) /\ Len(w) = Len(m)
    /\ \A b \in 1..Len(m) : Len(w[b]) = Len(m[b]) /\ (b # a => w[b] = m[b])
    /\ a > 0 => \A k \in 1..Len(m[a]) :
          w[a][k] = IF k > from /\ k <= from + got THEN <<id, row, k - from>> ELSE m[a][k]

\* Bytes of a string are written over those of an arena.
LEMMA Written ==
    ASSUME NEW m \in Seq(Seq(Cell)), NEW a \in 0..Len(m), NEW id \in Nat, NEW row \in Nat,
           NEW from \in Nat, NEW n \in Nat, NEW got \in 0..n,
           a = 0 => n = 0, a > 0 => from + n <= Len(m[a]),
           NEW w, w = With(m, a, id, row, from, n, got)
    PROVE  IsWith(w, m, a, id, row, from, got)
<1>1. CASE got = 0
  BY <1>1 DEF With, IsWith
<1>2. CASE got # 0
  <2>1. a \in 1..Len(m) /\ got \in 1..n
    BY <1>2
  <2>2. PICK l \in Nat : l = Len(m[a]) /\ m[a] \in [1..l -> Cell] /\ DOMAIN m[a] = 1..l
    <3>1. PICK s \in Seq(Cell) : s = m[a]
      BY <2>1
    <3>2. Len(s) \in Nat /\ s \in [1..Len(s) -> Cell] /\ DOMAIN s = 1..Len(s)
      OBVIOUS
    <3> QED
      BY <3>1, <3>2
  <2> DEFINE v == [k \in 1..l |-> IF k > from /\ k <= from + got THEN <<id, row, k - from>> ELSE m[a][k]]
  <2>3. \A k \in 1..l : k > from /\ k <= from + got => Text(id, row, n)[k - from] = <<id, row, k - from>>
    <3>1. ASSUME NEW k \in 1..l, k > from, k <= from + got
          PROVE  k - from \in 1..n
      BY ONLY <3>1, l \in Nat, from \in Nat, n \in Nat, got \in 0..n
    <3> QED
      BY <3>1 DEF Text
  <2>4. w = [m EXCEPT ![a] = v]
    <3>1. [k \in DOMAIN m[a] |-> IF k > from /\ k <= from + got THEN Text(id, row, n)[k - from] ELSE m[a][k]] = v
      BY <2>2, <2>3
    <3> HIDE DEF v
    <3> QED
      BY <3>1, <1>2 DEF With
  <2>5. v \in [1..l -> Cell]
    <3>1. ASSUME NEW k \in 1..l
          PROVE  (IF k > from /\ k <= from + got THEN <<id, row, k - from>> ELSE m[a][k]) \in Cell
      <4>1. CASE k > from /\ k <= from + got
        <5>1. k - from \in Nat
          BY <4>1
        <5> QED
          BY <4>1, <5>1 DEF Cell
      <4>2. CASE ~(k > from /\ k <= from + got)
        BY <4>2, <2>2
      <4> QED
        BY <4>1, <4>2
    <3> QED
      BY <3>1
  <2>6. \A k \in 1..l : v[k] = IF k > from /\ k <= from + got THEN <<id, row, k - from>> ELSE m[a][k]
    OBVIOUS
  <2> HIDE DEF v
  <2>7. v \in Seq(Cell) /\ Len(v) = l
    BY <2>5
  <2>8. DOMAIN w = 1..Len(m) /\ \A b \in 1..Len(m) : w[b] = IF b = a THEN v ELSE m[b]
    <3>1. DOMAIN m = 1..Len(m)
      OBVIOUS
    <3> QED
      BY ONLY <3>1, <2>4
  <2>9. w \in Seq(Seq(Cell)) /\ Len(w) = Len(m)
    <3>1. PICK T : T = Seq(Cell)
      OBVIOUS
    <3>2. m \in Seq(T) /\ v \in T
      BY <2>7, <3>1
    <3>3. PICK M \in Nat : M = Len(m) /\ \A b \in 1..M : m[b] \in T
      BY ONLY <3>2
    <3>6. \A b \in 1..M : w[b] \in T
      BY ONLY <3>2, <3>3, <2>8
    <3>4. w = [b \in 1..M |-> w[b]]
      BY <2>4, <2>8, <3>3
    <3>5. w \in Seq(T) /\ Len(w) = M
      BY ONLY <3>6, <3>4, M \in Nat
    <3> QED
      BY <3>1, <3>3, <3>5
  <2> QED
    BY <2>1, <2>2, <2>6, <2>7, <2>8, <2>9 DEF IsWith
<1> QED
  BY <1>1, <1>2

\* A larger arena, with the bytes of the buffer at its start.
IsLarger(m, end) ==
    \E new \in Seq(Cell) :
        /\ m = Append(mem, new) /\ m \in Seq(Seq(Cell))
        /\ end <= Len(new)
        /\ \A k \in 1..buf.len : new[k] = mem[buf.a][k]

LEMMA Enlarges ==
    ASSUME Buffer, NEW n \in Nat, NEW left \in Nat \ {0}, NEW end \in Nat, end = buf.len + n,
           NEW m, m = Enlarged(end, n, left)
    PROVE  IsLarger(m, end)
<1> DEFINE size == IF n >= Long THEN end ELSE end + n * left
           new == [k \in 1..size |-> IF k <= buf.len THEN mem[buf.a][k] ELSE Zero]
<1>1. m = Append(mem, new)
  BY DEF Enlarged
<1>2. buf.len \in Nat /\ buf.a \in Nat /\ mem \in Seq(Seq(Cell)) /\ Len(mem) \in Nat /\ buf.a <= Len(mem)
  BY DEF Buffer
<1>3. size \in Nat /\ end <= size
  <2>1. n * left \in Nat
    OBVIOUS
  <2> QED
    BY <2>1
<1>4. \A k \in 1..buf.len : mem[buf.a][k] \in Cell
  <2>1. CASE buf.a = 0
    BY <2>1 DEF Buffer, Cap
  <2>2. CASE buf.a # 0
    <3>1. buf.a \in 1..Len(mem)
      BY <2>2, <1>2
    <3>2. PICK s \in Seq(Cell) : s = mem[buf.a]
      BY <3>1, <1>2
    <3>3. buf.len <= Len(s)
      BY <2>2, <3>2 DEF Buffer, Cap
    <3> QED
      BY <3>2, <3>3, <1>2
  <2> QED
    BY <2>1, <2>2
<1>5. PICK S \in Nat : S = size /\ end <= S
  BY <1>3
<1>6. new = [k \in 1..S |-> IF k <= buf.len THEN mem[buf.a][k] ELSE Zero]
  BY <1>5
<1> HIDE DEF new, size
<1>7. Zero \in Cell
  BY DEF Zero, Cell
<1>8. new \in [1..S -> Cell] /\ \A k \in 1..buf.len : new[k] = mem[buf.a][k]
  BY <1>2, <1>4, <1>5, <1>6, <1>7
<1>9. new \in Seq(Cell) /\ Len(new) = S
  BY <1>8
<1>10. m \in Seq(Seq(Cell))
  <2>1. PICK T : T = Seq(Cell)
    OBVIOUS
  <2>2. PICK s : s = new
    OBVIOUS
  <2>3. mem \in Seq(T) /\ s \in T /\ m = Append(mem, s)
    BY <1>1, <1>2, <1>9, <2>1, <2>2
  <2>4. m \in Seq(T)
    BY ONLY <2>3
  <2> QED
    BY <2>1, <2>4
<1> QED
  BY <1>1, <1>5, <1>8, <1>9, <1>10 DEF IsLarger

\* What reading n bytes, of which got arrive, does to the memory.
Reads(n, got) ==
    /\ buf' \in [a : Nat, len : Nat] /\ buf'.len = buf.len + n
    /\ mem' \in Seq(Seq(Cell)) /\ Len(mem) <= Len(mem') /\ buf'.a <= Len(mem')
    /\ buf'.len <= Cap(buf.a)' /\ Cap(buf.a) <= Cap(buf.a)'
    /\ \A b \in 1..Len(mem) : Len(mem'[b]) = Len(mem[b]) /\ (b # buf'.a => mem'[b] = mem[b])
    /\ \A k \in 1..buf.len : mem'[buf'.a][k] = mem[buf.a][k]
    /\ \A k \in 1..got : mem'[buf'.a][buf.len + k] = <<sent, Len(pos) + 1, k>>
    /\ buf'.a = buf.a =>
          \A k \in 1..Cap(buf.a) : k > buf.len + got => mem'[buf.a][k] = mem[buf.a][k]
    /\ buf'.a # buf.a => buf'.a > Len(mem) /\ buf'.len > Cap(buf.a)
    /\ peak' = IF buf'.len > peak THEN buf'.len ELSE peak

LEMMA ReadIntoDoes ==
    ASSUME Buffer, Block, Len(pos) < Len(lens), NEW n \in Nat, NEW got \in 0..n, ReadInto(n, got)
    PROVE  Reads(n, got)
<1> DEFINE from == buf.len
           end == from + n
           left == Len(lens) - Len(pos)
           grows == Cap(buf.a) < end
           m == IF grows THEN Enlarged(end, n, left) ELSE mem
           a == IF grows THEN Len(m) ELSE buf.a
           row == Len(pos) + 1
<1>1. /\ buf' = [a |-> a, len |-> end]
      /\ mem' = IF got = 0 THEN m
                ELSE [m EXCEPT ![a] = [k \in DOMAIN @ |->
                         IF k > from /\ k <= from + got THEN Text(sent, row, n)[k - from] ELSE @[k]]]
      /\ peak' = IF end > peak THEN end ELSE peak
  BY DEF ReadInto
<1>2. /\ mem \in Seq(Seq(Cell)) /\ Len(mem) \in Nat /\ from \in Nat /\ end \in Nat
      /\ buf.a \in Nat /\ buf.a <= Len(mem) /\ peak \in Nat
  BY DEF Buffer
<1>3. left \in Nat \ {0} /\ row \in Nat /\ sent \in Nat
  <2>1. PICK p \in Nat, l \in Nat : p = Len(pos) /\ l = Len(lens)
    BY DEF Block
  <2> QED
    BY <2>1 DEF Block
<1>4. /\ buf.a = 0 => Cap(buf.a) = 0
      /\ buf.a # 0 => Cap(buf.a) = Len(mem[buf.a]) /\ buf.a \in 1..Len(mem)
      /\ Cap(buf.a) \in Nat /\ from <= Cap(buf.a)
  <2>1. CASE buf.a = 0
    BY <2>1 DEF Cap, Buffer
  <2>2. CASE buf.a # 0
    <3>1. buf.a \in 1..Len(mem)
      BY <2>2, <1>2
    <3>2. PICK s \in Seq(Cell) : s = mem[buf.a]
      BY <3>1, <1>2
    <3>3. Len(s) \in Nat
      OBVIOUS
    <3> QED
      BY <2>2, <3>1, <3>2, <3>3 DEF Cap, Buffer
  <2> QED
    BY <2>1, <2>2
\* The memory before the bytes arrive.
<1>5. /\ m \in Seq(Seq(Cell)) /\ a \in 0..Len(m) /\ Len(mem) <= Len(m)
      /\ a = 0 => n = 0 /\ from = 0
      /\ a > 0 => end <= Len(m[a]) /\ Cap(buf.a) <= Len(m[a])
      /\ \A b \in 1..Len(mem) : m[b] = mem[b]
      /\ \A k \in 1..from : m[a][k] = mem[buf.a][k]
      /\ a # buf.a => grows /\ a > Len(mem)
      /\ a = buf.a => m = mem
  <2>1. ASSUME grows
        PROVE  /\ m \in Seq(Seq(Cell)) /\ a \in 1..Len(m) /\ a > Len(mem) /\ a > buf.a
               /\ end <= Len(m[a]) /\ Cap(buf.a) <= Len(m[a])
               /\ \A b \in 1..Len(mem) : m[b] = mem[b]
               /\ \A k \in 1..from : m[a][k] = mem[buf.a][k]
    <3>1. PICK new \in Seq(Cell) :
              /\ m = Append(mem, new) /\ m \in Seq(Seq(Cell))
              /\ end <= Len(new)
              /\ \A k \in 1..buf.len : new[k] = mem[buf.a][k]
      <4>1. PICK mm : mm = Enlarged(end, n, left)
        OBVIOUS
      <4>2. PICK e \in Nat, lf \in Nat \ {0} : e = end /\ lf = left
        BY <1>2, <1>3
      <4>3. mm = Enlarged(e, n, lf) /\ e = buf.len + n
        BY <4>1, <4>2
      <4>4. m = mm
        BY <2>1, <4>1
      <4> HIDE DEF m, end, left
      <4>5. IsLarger(mm, e)
        BY ONLY <4>3, Buffer, n \in Nat, e \in Nat, lf \in Nat \ {0}, Enlarges
      <4> QED
        BY <4>2, <4>4, <4>5 DEF IsLarger
    <3>2. a = Len(m)
      BY <2>1
    <3>3. Cap(buf.a) < end
      BY <2>1
    <3>4. PICK T : T = Seq(Cell)
      OBVIOUS
    <3>5. mem \in Seq(T) /\ new \in T /\ Len(new) \in Nat
      BY <3>4, <1>2
    <3> HIDE DEF m, a, grows, end
    <3>6. /\ Len(m) = Len(mem) + 1 /\ m[Len(mem) + 1] = new
          /\ \A b \in 1..Len(mem) : m[b] = mem[b]
      BY ONLY <3>1, <3>5
    <3>7. Len(mem) \in Nat /\ a = Len(mem) + 1 /\ m[a] = new
      BY <3>2, <3>6, <1>2
    <3>8. a \in 1..Len(m) /\ a > Len(mem) /\ a > buf.a
      BY ONLY <3>7, <3>6, <1>2
    <3>9. end <= Len(m[a]) /\ Cap(buf.a) <= Len(m[a])
      BY ONLY <3>1, <3>3, <3>5, <3>7, <1>2, <1>4
    <3>10. \A k \in 1..from : m[a][k] = mem[buf.a][k]
      BY <3>1, <3>7 DEF from
    <3> QED
      BY <3>1, <3>6, <3>8, <3>9, <3>10
  <2>2. ASSUME ~grows
        PROVE  m = mem /\ a = buf.a /\ end <= Cap(buf.a)
    BY <2>2, <1>2, <1>4
  <2> HIDE DEF m, a
  <2>3. CASE grows
    <3>1. a # buf.a /\ a # 0 /\ a \in 0..Len(m) /\ Len(mem) <= Len(m)
      <4>1. a \in 1..Len(m) /\ a > Len(mem) /\ a > buf.a /\ m \in Seq(Seq(Cell))
        BY <2>1, <2>3
      <4>2. PICK l \in Nat : l = Len(m)
        BY <4>1
      <4>3. PICK lm \in Nat, ba \in Nat : lm = Len(mem) /\ ba = buf.a
        BY <1>2
      <4> HIDE DEF a, m
      <4> QED
        BY ONLY <4>1, <4>2, <4>3
    <3> QED
      BY <2>1, <2>3, <3>1
  <2>4. CASE ~grows
    <3>1. a = 0 => n = 0 /\ from = 0
      BY <2>2, <2>4, <1>2, <1>4
    <3>2. a > 0 => end <= Len(m[a]) /\ Cap(buf.a) <= Len(m[a])
      BY <2>2, <2>4, <1>2, <1>4
    <3>3. /\ m \in Seq(Seq(Cell)) /\ Len(mem) <= Len(m) /\ a \in 0..Len(m)
      <4>1. m = mem /\ a = buf.a
        BY <2>2, <2>4
      <4>2. a \in 0..Len(mem) /\ Len(mem) <= Len(mem)
        BY ONLY <4>1, <1>2
      <4> QED
        BY ONLY <4>1, <4>2, <1>2
    <3>4. /\ \A b \in 1..Len(mem) : m[b] = mem[b]
          /\ \A k \in 1..from : m[a][k] = mem[buf.a][k]
      BY <2>2, <2>4, Zenon
    <3> HIDE DEF from, end, grows
    <3> QED
      BY ONLY <2>2, <2>4, <3>1, <3>2, <3>3, <3>4
  <2> QED
    BY <2>3, <2>4
<1> HIDE DEF m, a, from, end, left, grows, row
\* The bytes arrive.
<1>6. /\ mem' \in Seq(Seq(Cell)) /\ Len(mem') = Len(m)
      /\ \A b \in 1..Len(m) : Len(mem'[b]) = Len(m[b]) /\ (b # a => mem'[b] = m[b])
      /\ a > 0 => \A k \in 1..Len(m[a]) :
            mem'[a][k] = IF k > from /\ k <= from + got THEN <<sent, row, k - from>> ELSE m[a][k]
  <2>1. a > 0 => from + n <= Len(m[a])
    BY <1>5 DEF end
  <2>2. PICK w, mm, aa, ff, rr, id :
            w = mem' /\ mm = m /\ aa = a /\ ff = from /\ rr = row /\ id = sent
    OBVIOUS
  <2>3. /\ mm \in Seq(Seq(Cell)) /\ aa \in 0..Len(mm) /\ id \in Nat /\ rr \in Nat /\ ff \in Nat
        /\ aa = 0 => n = 0
        /\ aa > 0 => ff + n <= Len(mm[aa])
    BY <2>1, <2>2, <1>2, <1>3, <1>5
  <2>4. w = With(mm, aa, id, rr, ff, n, got)
    BY ONLY <2>2, <1>1 DEF With
  <2>5. IsWith(w, mm, aa, id, rr, ff, got)
    BY ONLY <2>3, <2>4, n \in Nat, got \in 0..n, Written
  <2> QED
    BY <2>2, <2>5 DEF IsWith
<1>7. PICK aa \in Nat, e \in Nat, f \in Nat :
          aa = a /\ e = end /\ f = from /\ e = f + n /\ buf.len = f
  <2>1. a \in Nat
    BY ONLY <1>2, <1>5
  <2> QED
    BY <2>1, <1>2 DEF end, from
<1>8. buf' = [a |-> aa, len |-> e] /\ buf'.a = aa /\ buf'.len = e
  BY <1>1, <1>7
<1>9. buf' \in [a : Nat, len : Nat]
  BY <1>7, <1>8
<1>10. Len(mem) <= Len(mem') /\ aa <= Len(mem')
  BY <1>2, <1>5, <1>6, <1>7
<1>11. /\ aa = 0 => Cap(buf.a)' = 0
       /\ aa # 0 => Cap(buf.a)' = Len(m[aa]) /\ Len(m[aa]) \in Nat /\ aa \in 1..Len(m)
  <2>1. CASE aa = 0
    BY <2>1, <1>8 DEF Cap
  <2>2. CASE aa # 0
    <3>1. aa \in 1..Len(m)
      BY <2>2, <1>5, <1>7
    <3>2. PICK s \in Seq(Cell) : s = m[aa]
      BY <3>1, <1>5
    <3>3. Len(s) \in Nat
      OBVIOUS
    <3> QED
      BY <2>2, <3>1, <3>2, <3>3, <1>6, <1>8 DEF Cap
  <2> QED
    BY <2>1, <2>2
<1>12. e <= Cap(buf.a)' /\ Cap(buf.a) <= Cap(buf.a)'
  <2>1. CASE aa = 0
    <3>1. e = 0 /\ buf.a = 0
      BY <2>1, <1>2, <1>5, <1>7
    <3> QED
      BY <2>1, <3>1, <1>4, <1>11
  <2>2. CASE aa # 0
    BY <2>2, <1>5, <1>7, <1>11
  <2> QED
    BY <2>1, <2>2
<1>13. \A b \in 1..Len(mem) : Len(mem'[b]) = Len(mem[b]) /\ (b # aa => mem'[b] = mem[b])
  <2>1. \A b \in 1..Len(mem) : b \in 1..Len(m)
    BY <1>2, <1>5
  <2> QED
    BY <2>1, <1>5, <1>6, <1>7
<1>14. \A k \in 1..f : mem'[aa][k] = mem[buf.a][k]
  <2>1. SUFFICES ASSUME NEW k \in 1..f PROVE mem'[aa][k] = mem[buf.a][k]
    OBVIOUS
  <2>2. aa > 0
    BY <1>5, <1>7
  <2>3. k \in 1..Len(m[aa]) /\ ~(k > f)
    BY <2>2, <1>5, <1>7, <1>11
  <2> QED
    BY <2>2, <2>3, <1>5, <1>6, <1>7
<1>15. \A k \in 1..got : mem'[aa][f + k] = <<sent, row, k>>
  <2>1. SUFFICES ASSUME NEW k \in 1..got PROVE mem'[aa][f + k] = <<sent, row, k>>
    OBVIOUS
  <2>2. aa > 0
    BY <1>5, <1>7
  <2>3. f + k \in 1..Len(m[aa]) /\ f + k > f /\ f + k <= f + got /\ (f + k) - f = k
    BY <2>2, <1>5, <1>7, <1>11
  <2> QED
    BY <2>2, <2>3, <1>6, <1>7
<1>16. ASSUME aa = buf.a
       PROVE  \A k \in 1..Cap(buf.a) : k > f + got => mem'[buf.a][k] = mem[buf.a][k]
  <2>1. SUFFICES ASSUME NEW k \in 1..Cap(buf.a), k > f + got
                 PROVE  mem'[buf.a][k] = mem[buf.a][k]
    OBVIOUS
  <2>2. m = mem /\ aa > 0
    BY <1>2, <1>4, <1>5, <1>7, <1>16
  <2>3. k \in 1..Len(m[aa])
    BY <2>2, <1>4, <1>16
  <2>4. ~(k <= f + got)
    BY <2>1
  <2>5. mem'[aa][k] = m[aa][k]
    BY <2>2, <2>3, <2>4, <1>6, <1>7
  <2> QED
    BY <2>2, <2>5, <1>16
<1>17. aa # buf.a => aa > Len(mem) /\ e > Cap(buf.a)
  BY <1>2, <1>4, <1>5, <1>7 DEF grows
<1>18. peak' = IF e > peak THEN e ELSE peak
  BY <1>1, <1>7
<1> QED
  BY <1>6, <1>5, <1>7, <1>8, <1>9, <1>10, <1>12, <1>13, <1>14, <1>15, <1>16, <1>17, <1>18
     DEF Reads, row

\* The length of the next row is read as it is.
LEMMA LengthIsRead ==
    ASSUME Block, Len(pos) < Len(lens)
    PROVE  /\ lens[Len(pos) + 1] \in 0..MaxLen /\ lens[Len(pos) + 1] \in Nat
           /\ readUVarint(PutUVarint(lens[Len(pos) + 1])) = lens[Len(pos) + 1]
<1>1. PICK p \in Nat, l \in Nat : p = Len(pos) /\ l = Len(lens) /\ p < l /\ lens \in [1..l -> 0..MaxLen]
  <2>1. PICK T : T = 0..MaxLen
    OBVIOUS
  <2>2. lens \in Seq(T) /\ pos \in Seq(Nat)
    BY <2>1 DEF Block
  <2>3. Len(lens) \in Nat /\ lens \in [1..Len(lens) -> T] /\ Len(pos) \in Nat
    BY ONLY <2>2
  <2> QED
    BY <2>1, <2>3
<1>2. PICK n \in 0..MaxLen : n = lens[Len(pos) + 1]
  BY <1>1
<1>3. MaxLen \in Nat /\ Groups - 1 \in 0..Groups /\ MaxLen < Power[Groups - 1]
  BY StrAssumption
<1>4. n \in Nat /\ n < 2 * Power[Groups - 1]
  <2>1. PICK q \in Nat \ {0} : q = Power[Groups - 1]
    BY <1>3, PowerIs
  <2> QED
    BY <2>1, <1>3
<1>5. readUVarint(PutUVarint(n)) = n
  BY ONLY <1>4, RoundTrip
<1> QED
  BY <1>2, <1>4, <1>5

\* A string stays in its arena, arenas being never freed or shortened.
LEMMA InArenaStays ==
    ASSUME NEW m \in Seq(Seq(Cell)), NEW w \in Seq(Seq(Cell)), Len(m) <= Len(w),
           \A b \in 1..Len(m) : Len(w[b]) = Len(m[b]),
           NEW ref \in Ref, InArena(m, ref)
    PROVE  InArena(w, ref)
<1>1. Len(m) \in Nat /\ Len(w) \in Nat
  OBVIOUS
<1> QED
  BY <1>1 DEF InArena

\* A string reads the same when its bytes are the same.
LEMMA ReadsTheSame ==
    ASSUME NEW m \in Seq(Seq(Cell)), NEW w \in Seq(Seq(Cell)), Len(m) <= Len(w),
           NEW ref \in Ref, InArena(m, ref),
           ref.n # 0 => Len(w[ref.a]) = Len(m[ref.a]),
           \A k \in 1..ref.n : w[ref.a][ref.from + k] = m[ref.a][ref.from + k]
    PROVE  Read(w, ref) = Read(m, ref)
<1>1. CASE ref.n = 0
  BY <1>1 DEF Read
<1>2. CASE ref.n # 0
  <2>1. PICK f \in Nat, n \in Nat, a \in 1..Len(m) : f = ref.from /\ n = ref.n /\ a = ref.a
    BY <1>2 DEF Ref, InArena
  <2>2. PICK s \in Seq(Cell), t \in Seq(Cell) : s = m[a] /\ t = w[a]
    <3>1. a \in 1..Len(w)
      BY <2>1
    <3> QED
      BY <3>1
  <2>3. f + n <= Len(s) /\ Len(s) \in Nat
    BY <2>1, <2>2, <1>2 DEF InArena
  <2>4. \A k \in 1..n : t[f + k] = s[f + k]
    BY <2>1, <2>2
  <2>5. SubSeq(t, f + 1, f + n) = SubSeq(s, f + 1, f + n)
    <3>1. ASSUME NEW i \in 1..n
          PROVE  t[f + 1 + i - 1] = s[f + 1 + i - 1]
      <4>1. f + 1 + i - 1 = f + i
        BY ONLY f \in Nat, n \in Nat, i \in 1..n
      <4> QED
        BY <4>1, <2>4
    <3>2. /\ SubSeq(t, f + 1, f + n) = [i \in 1..n |-> t[f + 1 + i - 1]]
          /\ SubSeq(s, f + 1, f + n) = [i \in 1..n |-> s[f + 1 + i - 1]]
      <4>1. f + n - (f + 1) + 1 = n
        BY ONLY f \in Nat, n \in Nat
      <4> QED
        BY ONLY <4>1
    <3> QED
      BY <3>1, <3>2
  <2> QED
    BY <2>1, <2>2, <2>5, <1>2 DEF Read
<1> QED
  BY <1>1, <1>2

\* A string whose bytes are those of the text n bytes long reads as that text.
LEMMA ReadsText ==
    ASSUME NEW m \in Seq(Seq(Cell)), NEW ref \in Ref, InArena(m, ref),
           NEW id, NEW row,
           \A k \in 1..ref.n : m[ref.a][ref.from + k] = <<id, row, k>>
    PROVE  Read(m, ref) = Text(id, row, ref.n)
<1>1. CASE ref.n = 0
  BY <1>1 DEF Read, Text
<1>2. CASE ref.n # 0
  <2>1. PICK f \in Nat, n \in Nat, a \in 1..Len(m) : f = ref.from /\ n = ref.n /\ a = ref.a
    BY <1>2 DEF Ref, InArena
  <2>2. PICK s \in Seq(Cell) : s = m[a]
    BY <2>1
  <2>3. \A k \in 1..n : s[f + k] = <<id, row, k>>
    BY <2>1, <2>2
  <2>4. SubSeq(s, f + 1, f + n) = [k \in 1..n |-> <<id, row, k>>]
    <3>1. ASSUME NEW i \in 1..n
          PROVE  s[f + 1 + i - 1] = <<id, row, i>>
      <4>1. f + 1 + i - 1 = f + i
        BY ONLY f \in Nat, n \in Nat, i \in 1..n
      <4> QED
        BY <4>1, <2>3
    <3>2. SubSeq(s, f + 1, f + n) = [i \in 1..n |-> s[f + 1 + i - 1]]
      <4>1. f + n - (f + 1) + 1 = n
        BY ONLY f \in Nat, n \in Nat
      <4> QED
        BY <4>1
    <3> QED
      BY <3>1, <3>2
  <2> QED
    BY <2>1, <2>2, <2>4, <1>2 DEF Read, Text
<1> QED
  BY <1>1, <1>2

-----------------------------------------------------------------------------
(* The invariant is inductive. *)

LEMMA InitIInv == Init => IInv
<1> SUFFICES ASSUME Init
             PROVE  IInv
  OBVIOUS
<1>1. MaxStrings \in Nat /\ MaxRows \in Nat
  BY StrAssumption
<1>2. Buffer
  BY DEF Init, Buffer, Cap
<1>3. Block
  BY <1>1 DEF Init, Block
<1>4. ReadSoFar
  BY DEF Init, ReadSoFar
<1>5. References
  BY <1>1 DEF Init, References
<1>6. Whole
  BY DEF Init, Whole
<1> QED
  BY <1>2, <1>3, <1>4, <1>5, <1>6 DEF IInv

LEMMA DecodeEmptyStep == IInv /\ DecodeEmpty => IInv'
<1> SUFFICES ASSUME IInv, DecodeEmpty
             PROVE  IInv'
  OBVIOUS
<1>1. Buffer /\ Block /\ References
  BY DEF IInv
<1>2. Buffer'
  <2>1. buf' = [buf EXCEPT !.len = 0] /\ UNCHANGED <<mem, peak>>
    BY DEF DecodeEmpty
  <2>2. buf' \in [a : Nat, len : Nat] /\ buf'.a = buf.a /\ buf'.len = 0
    BY <1>1, <2>1 DEF Buffer
  <2>3. Cap(buf.a)' = Cap(buf.a)
    BY <2>1, <2>2 DEF Cap
  <2>4. 0 <= Cap(buf.a)
    BY <1>1 DEF Buffer, Cap
  <2> QED
    BY <1>1, <2>1, <2>2, <2>3, <2>4 DEF Buffer
<1>3. Block'
  BY <1>1, StrAssumption DEF DecodeEmpty, decodeVars, Block
<1>4. ReadSoFar'
  BY <1>1 DEF DecodeEmpty, decodeVars, Block, ReadSoFar
<1>5. References'
  BY <1>1, StrAssumption DEF DecodeEmpty, References
<1>6. Whole'
  BY DEF DecodeEmpty, Whole
<1> QED
  BY <1>2, <1>3, <1>4, <1>5, <1>6 DEF IInv

LEMMA DecodeStartStep == IInv /\ DecodeStart => IInv'
<1> SUFFICES ASSUME IInv, DecodeStart
             PROVE  IInv'
  OBVIOUS
<1>1. Buffer /\ Block /\ References /\ Whole
  BY DEF IInv
<1>2. Buffer'
  <2>1. buf' = [buf EXCEPT !.len = 0] /\ UNCHANGED <<mem, peak>>
    BY DEF DecodeStart
  <2>2. buf' \in [a : Nat, len : Nat] /\ buf'.a = buf.a /\ buf'.len = 0
    BY <1>1, <2>1 DEF Buffer
  <2>3. Cap(buf.a)' = Cap(buf.a)
    BY <2>1, <2>2 DEF Cap
  <2>4. 0 <= Cap(buf.a)
    BY <1>1 DEF Buffer, Cap
  <2> QED
    BY <1>1, <2>1, <2>2, <2>3, <2>4 DEF Buffer
<1>3. Block'
  <2>1. PICK rows \in 1..MaxRows : lens' \in [1..rows -> 0..MaxLen]
    BY DEF DecodeStart
  <2>2. lens' \in Seq(0..MaxLen) /\ Len(lens') = rows /\ rows <= MaxRows /\ rows \in Nat
    BY <2>1, StrAssumption
  <2>3. pos' = << >> /\ pc' = "rows" /\ sent' \in 0..MaxStrings
    BY <1>1, StrAssumption DEF DecodeStart, Block
  <2> QED
    BY <2>2, <2>3 DEF Block
<1>4. ReadSoFar'
  BY DEF DecodeStart, ReadSoFar
<1>5. References'
  BY <1>1 DEF DecodeStart, References
<1>6. Whole'
  BY <1>1 DEF DecodeStart, Whole
<1> QED
  BY <1>2, <1>3, <1>4, <1>5, <1>6 DEF IInv

\* The buffer stays well-formed when bytes are read into it.
LEMMA BufferAfterReads ==
    ASSUME Buffer, NEW n \in Nat, NEW got \in 0..n, Reads(n, got)
    PROVE  Buffer'
<1>1. buf' \in [a : Nat, len : Nat] /\ mem' \in Seq(Seq(Cell))
  BY DEF Reads
<1>2. buf'.a <= Len(mem') /\ buf'.len <= Cap(buf.a)'
  BY DEF Reads
<1>3. PICK p \in Nat, l \in Nat : p = peak /\ l = buf'.len /\ p <= Cap(buf.a)
  BY <1>1 DEF Buffer
<1>4. Cap(buf.a) \in Nat /\ Cap(buf.a)' \in Nat
  <2>1. CASE buf.a = 0
    <3>1. Cap(buf.a) = 0
      BY <2>1 DEF Cap
    <3>2. Cap(buf.a)' \in Nat
      <4>1. CASE buf'.a = 0
        BY <4>1 DEF Cap
      <4>2. CASE buf'.a # 0
        <5>1. buf'.a \in 1..Len(mem')
          BY <4>2, <1>1, <1>2
        <5>2. PICK s \in Seq(Cell) : s = mem'[buf'.a]
          BY <5>1, <1>1
        <5>3. Len(s) \in Nat
          OBVIOUS
        <5> QED
          BY <4>2, <5>2, <5>3 DEF Cap
      <4> QED
        BY <4>1, <4>2
    <3> QED
      BY <3>1, <3>2
  <2>2. CASE buf.a # 0
    <3>1. PICK i \in Nat : i = Len(mem)
      BY DEF Buffer
    <3>2. buf.a \in 1..Len(mem) /\ mem \in Seq(Seq(Cell))
      BY <2>2, <3>1 DEF Buffer
    <3>3. PICK s \in Seq(Cell) : s = mem[buf.a]
      BY <3>2
    <3>4. Len(s) \in Nat
      OBVIOUS
    <3>5. Cap(buf.a) \in Nat
      BY <2>2, <3>3, <3>4 DEF Cap
    <3>6. buf'.a # 0
      <4>1. CASE buf'.a = buf.a
        BY <4>1, <2>2
      <4>2. CASE buf'.a # buf.a
        BY <4>2, <3>1 DEF Reads
      <4> QED
        BY <4>1, <4>2
    <3>7. buf'.a \in 1..Len(mem')
      BY <3>6, <1>1, <1>2
    <3>8. PICK t \in Seq(Cell) : t = mem'[buf'.a]
      BY <3>7, <1>1
    <3>9. Len(t) \in Nat
      OBVIOUS
    <3>10. Cap(buf.a)' \in Nat
      BY <3>6, <3>8, <3>9 DEF Cap
    <3> QED
      BY <3>5, <3>10
  <2> QED
    BY <2>1, <2>2
<1>5. peak' \in Nat /\ peak' <= Cap(buf.a)'
  <2>1. peak' = IF l > p THEN l ELSE p
    BY <1>3 DEF Reads
  <2>2. l <= Cap(buf.a)' /\ Cap(buf.a) <= Cap(buf.a)'
    BY <1>3 DEF Reads
  <2> QED
    BY <2>1, <2>2, <1>3, <1>4
<1> QED
  BY <1>1, <1>2, <1>5 DEF Buffer

\* ... and the strings within their arenas.
LEMMA ReferencesAfterReads ==
    ASSUME Buffer, References, NEW n \in Nat, NEW got \in 0..n, Reads(n, got),
           Data' = Data, kept' = kept
    PROVE  References'
<1>1. PICK m \in Seq(Seq(Cell)), w \in Seq(Seq(Cell)) : m = mem /\ w = mem'
  BY DEF Buffer, Reads
<1>2. Len(m) <= Len(w) /\ \A b \in 1..Len(m) : Len(w[b]) = Len(m[b])
  BY <1>1 DEF Reads
<1>3. \A ref \in Ref : InArena(m, ref) => InArena(w, ref)
  BY <1>2, InArenaStays
<1>4. \A i \in DOMAIN Data : Data[i] \in Ref /\ InArena(w, Data[i])
  <2>1. Data \in Seq(Ref) /\ \A i \in DOMAIN Data : InArena(m, Data[i])
    BY <1>1 DEF References
  <2>2. \A i \in DOMAIN Data : Data[i] \in Ref
    BY ONLY <2>1
  <2> QED
    BY <2>1, <2>2, <1>3
<1>5. \A k \in kept : k.ref \in Ref /\ InArena(w, k.ref)
  BY <1>1, <1>3 DEF References
<1> QED
  BY <1>1, <1>4, <1>5 DEF References

LEMMA ReadRowStep == IInv /\ ReadRow => IInv'
<1> SUFFICES ASSUME IInv, ReadRow
             PROVE  IInv'
  OBVIOUS
<1>1. Buffer /\ Block /\ ReadSoFar /\ References /\ Whole
  BY DEF IInv
<1>2. Len(pos) < Len(lens) /\ pc = "rows"
  BY DEF ReadRow
<1>3. PICK n \in Nat :
          /\ n = lens[Len(pos) + 1] /\ readUVarint(PutUVarint(lens[Len(pos) + 1])) = n
  BY <1>1, <1>2, LengthIsRead
<1>4. /\ ReadInto(n, n) /\ pos' = Append(pos, buf.len)
      /\ UNCHANGED <<Data, pc, lens, sent, given, whole, kept>>
  BY <1>3 DEF ReadRow
<1>5. Reads(n, n)
  <2>1. n \in 0..n
    OBVIOUS
  <2> QED
    BY <2>1, <1>1, <1>2, <1>4, ReadIntoDoes
<1>6. n \in 0..n
  OBVIOUS
<1>7. Buffer' /\ References'
  BY <1>1, <1>4, <1>5, <1>6, BufferAfterReads, ReferencesAfterReads
<1>8. PICK p \in Nat, l \in Nat, h \in Nat :
          p = Len(pos) /\ l = Len(lens) /\ h = buf.len /\ p < l /\ pos \in [1..p -> Nat]
  <2>1. pos \in Seq(Nat) /\ lens \in Seq(0..MaxLen)
    BY <1>1 DEF Block
  <2>2. buf.len \in Nat
    BY <1>1 DEF Buffer
  <2>3. PICK T : T = 0..MaxLen
    OBVIOUS
  <2>4. Len(pos) \in Nat /\ Len(lens) \in Nat /\ pos \in [1..Len(pos) -> Nat]
    BY ONLY <2>1, <2>3
  <2> QED
    BY <2>2, <2>4, <1>2
<1>9. /\ pos' \in Seq(Nat) /\ Len(pos') = p + 1
      /\ \A i \in 1..p : pos'[i] = pos[i]
      /\ pos'[p + 1] = h
  <2>1. pos \in Seq(Nat) /\ pos' = Append(pos, h)
    BY <1>1, <1>4, <1>8 DEF Block
  <2> QED
    BY ONLY <2>1, <1>8
<1>10. Block'
  BY <1>1, <1>2, <1>4, <1>8, <1>9 DEF Block
<1>11. ReadSoFar'
  <2>1. buf'.len = h + n /\ lens' = lens /\ sent' = sent /\ n = lens[p + 1]
    BY <1>3, <1>4, <1>5, <1>8 DEF Reads
  <2>2. lens \in [1..l -> Nat]
    <3>1. PICK T : T = 0..MaxLen
      OBVIOUS
    <3>2. lens \in Seq(T) /\ T \subseteq Nat
      BY <1>1, <3>1, StrAssumption DEF Block
    <3>3. lens \in [1..l -> T]
      BY ONLY <3>2, <1>8
    <3> QED
      BY <3>2, <3>3
  <2>3. ASSUME NEW i \in 1..p
        PROVE  /\ Bound(i + 1)' = pos[i] + lens[i] /\ pos[i] + lens[i] <= h
               /\ \A k \in 1..lens[i] : mem'[buf'.a][pos[i] + k] = <<sent, i, k>>
    <3>1. /\ Bound(i + 1) = pos[i] + lens[i] /\ pos[i] + lens[i] <= h
          /\ \A k \in 1..lens[i] : mem[buf.a][pos[i] + k] = <<sent, i, k>>
      BY <1>1, <1>8 DEF ReadSoFar
    <3>2. Bound(i + 1)' = Bound(i + 1)
      <4>1. CASE i = p
        BY <4>1, <1>8, <1>9 DEF Bound
      <4>2. CASE i # p
        <5>1. i + 1 \in 1..p
          BY ONLY <4>2, p \in Nat, i \in 1..p
        <5>2. i + 1 <= p /\ i + 1 <= p + 1
          BY <5>1, <1>8
        <5> QED
          BY <5>1, <5>2, <1>8, <1>9 DEF Bound
      <4> QED
        BY <4>1, <4>2
    <3>3. pos[i] \in Nat /\ lens[i] \in Nat
      BY <2>2, <1>8
    <3>4. \A k \in 1..lens[i] : pos[i] + k \in 1..h
      BY <3>1, <3>3, <1>8
    <3>5. \A k \in 1..h : mem'[buf'.a][k] = mem[buf.a][k]
      BY <1>5, <1>8 DEF Reads
    <3> QED
      BY <3>1, <3>2, <3>4, <3>5
  <2>4. /\ Bound(p + 2)' = h + n
        /\ \A k \in 1..n : mem'[buf'.a][h + k] = <<sent, p + 1, k>>
    <3>1. \A k \in 1..n : mem'[buf'.a][h + k] = <<sent, p + 1, k>>
      BY <1>5, <1>8 DEF Reads
    <3>2. ~(p + 2 <= Len(pos'))
      BY <1>8, <1>9
    <3> QED
      BY <3>1, <3>2, <2>1 DEF Bound
  <2>5. ASSUME NEW i \in 1..p + 1
        PROVE  /\ Bound(i + 1)' = pos'[i] + lens[i] /\ pos'[i] + lens[i] <= h + n
               /\ \A k \in 1..lens[i] : mem'[buf'.a][pos'[i] + k] = <<sent, i, k>>
    <3>1. CASE i \in 1..p
      <4>1. pos[i] + lens[i] <= h /\ pos[i] + lens[i] \in Nat
        BY <3>1, <2>2, <2>3, <1>8
      <4>2. pos[i] + lens[i] <= h + n
        BY <4>1, <1>8
      <4> QED
        BY <3>1, <4>2, <2>3, <1>9
    <3>2. CASE i = p + 1
      <4>1. i + 1 = p + 2 /\ h + n <= h + n
        BY <3>2, <1>8
      <4> QED
        BY <3>2, <4>1, <2>1, <2>4, <1>9
    <3>3. i \in 1..p \/ i = p + 1
      BY <1>8
    <3> QED
      BY <3>1, <3>2, <3>3
  <2> QED
    BY <2>1, <2>5, <1>9 DEF ReadSoFar
<1>12. Whole'
  BY <1>1, <1>2, <1>4 DEF Whole
<1> QED
  BY <1>7, <1>10, <1>11, <1>12 DEF IInv

LEMMA ReadLengthFailsStep == IInv /\ ReadLengthFails => IInv'
<1> SUFFICES ASSUME IInv, ReadLengthFails
             PROVE  IInv'
  OBVIOUS
<1>1. Buffer /\ Block /\ References /\ Whole
  BY DEF IInv
<1>2. /\ pc' = "idle" /\ lens' = << >> /\ pos' = << >> /\ whole' = FALSE
      /\ UNCHANGED <<Data, sent, given, kept, mem, buf, peak>>
  BY DEF ReadLengthFails, Fail
<1>3. Buffer'
  BY <1>1, <1>2 DEF Buffer, Cap
<1>4. Block'
  BY <1>1, <1>2, StrAssumption DEF Block
<1>5. ReadSoFar'
  BY <1>2 DEF ReadSoFar
<1>6. References'
  BY <1>1, <1>2 DEF References
<1>7. Whole'
  BY <1>2 DEF Whole
<1> QED
  BY <1>3, <1>4, <1>5, <1>6, <1>7 DEF IInv

LEMMA ReadBytesFailStep == IInv /\ ReadBytesFail => IInv'
<1> SUFFICES ASSUME IInv, ReadBytesFail
             PROVE  IInv'
  OBVIOUS
<1>1. Buffer /\ Block /\ References /\ Whole
  BY DEF IInv
<1>2. /\ pc' = "idle" /\ lens' = << >> /\ pos' = << >> /\ whole' = FALSE
      /\ UNCHANGED <<Data, sent, given, kept>> /\ Len(pos) < Len(lens)
  BY DEF ReadBytesFail, Fail
<1>3. PICK n \in Nat : readUVarint(PutUVarint(lens[Len(pos) + 1])) = n
  BY <1>1, <1>2, LengthIsRead
<1>4. PICK got \in 0..n - 1 : ReadInto(n, got)
  BY <1>3 DEF ReadBytesFail
<1>5. got \in 0..n
  OBVIOUS
<1>6. Reads(n, got)
  BY <1>1, <1>2, <1>4, <1>5, ReadIntoDoes
<1>7. Buffer' /\ References'
  BY <1>1, <1>2, <1>5, <1>6, BufferAfterReads, ReferencesAfterReads
<1>8. Block'
  BY <1>1, <1>2, StrAssumption DEF Block
<1>9. ReadSoFar'
  BY <1>2 DEF ReadSoFar
<1>10. Whole'
  BY <1>2 DEF Whole
<1> QED
  BY <1>7, <1>8, <1>9, <1>10 DEF IInv

LEMMA DecodeEndStep == IInv /\ DecodeEnd => IInv'
<1> SUFFICES ASSUME IInv, DecodeEnd
             PROVE  IInv'
  OBVIOUS
<1>1. Buffer /\ Block /\ ReadSoFar /\ References
  BY DEF IInv
<1> DEFINE bounds == Append(pos, buf.len)
<1>2. /\ pc = "rows" /\ Len(pos) = Len(lens)
      /\ Data' = [i \in DOMAIN lens |->
                     [a |-> buf.a, from |-> bounds[i], n |-> bounds[i + 1] - bounds[i]]]
      /\ given' = [i \in DOMAIN lens |-> Text(sent, i, lens[i])]
      /\ whole' = TRUE /\ pc' = "idle" /\ lens' = << >> /\ pos' = << >>
      /\ UNCHANGED <<mem, buf, sent, kept, peak>>
  BY DEF DecodeEnd
<1>3. PICK l \in Nat, h \in Nat, a \in Nat :
          /\ l = Len(pos) /\ l = Len(lens) /\ h = buf.len /\ a = buf.a
          /\ pos \in [1..l -> Nat]
  <2>1. pos \in Seq(Nat)
    BY <1>1 DEF Block
  <2>2. Len(pos) \in Nat /\ pos \in [1..Len(pos) -> Nat]
    BY ONLY <2>1
  <2>3. buf.len \in Nat /\ buf.a \in Nat
    BY <1>1 DEF Buffer
  <2> QED
    BY <2>2, <2>3, <1>2
<1>4. lens \in [1..l -> Nat]
  <2>1. PICK T : T = 0..MaxLen
    OBVIOUS
  <2>2. lens \in Seq(T) /\ T \subseteq Nat
    BY <1>1, <2>1, StrAssumption DEF Block
  <2>3. lens \in [1..l -> T]
    BY ONLY <2>2, <1>3
  <2> QED
    BY <2>2, <2>3
<1>5. \A i \in 1..l : bounds[i] = pos[i] /\ bounds[i + 1] = Bound(i + 1)
  <2>1. pos \in Seq(Nat)
    BY <1>1 DEF Block
  <2>2. PICK b : b = Append(pos, h)
    OBVIOUS
  <2>3. b[l + 1] = h /\ \A i \in 1..l : b[i] = pos[i]
    BY ONLY <2>1, <2>2, <1>3
  <2>4. bounds = b
    BY <2>2, <1>3
  <2> HIDE DEF bounds
  <2>5. SUFFICES ASSUME NEW i \in 1..l PROVE b[i + 1] = Bound(i + 1)
    BY <2>3, <2>4
  <2>6. CASE i = l
    BY <2>3, <2>6, <1>3 DEF Bound
  <2>7. CASE i # l
    <3>1. i + 1 \in 1..l /\ i + 1 <= l
      BY ONLY <2>7, l \in Nat, i \in 1..l
    <3> QED
      BY <3>1, <2>3, <1>3 DEF Bound
  <2> QED
    BY <2>6, <2>7
<1> HIDE DEF bounds
<1>6. ASSUME NEW i \in 1..l
      PROVE  /\ bounds[i] = pos[i] /\ pos[i] \in Nat /\ lens[i] \in Nat
             /\ bounds[i + 1] - bounds[i] = lens[i]
             /\ pos[i] + lens[i] <= h
             /\ \A k \in 1..lens[i] : mem[a][pos[i] + k] = <<sent, i, k>>
  <2>1. /\ Bound(i + 1) = pos[i] + lens[i] /\ pos[i] + lens[i] <= h
        /\ \A k \in 1..lens[i] : mem[a][pos[i] + k] = <<sent, i, k>>
    BY <1>1, <1>3 DEF ReadSoFar
  <2>2. pos[i] \in Nat /\ lens[i] \in Nat
    BY <1>3, <1>4
  <2>3. bounds[i + 1] - bounds[i] = lens[i]
    BY <2>1, <2>2, <1>5
  <2> QED
    BY <2>1, <2>2, <2>3, <1>5
<1>7. DOMAIN lens = 1..l
  BY <1>4
<1>8. ASSUME NEW i \in 1..l
      PROVE  /\ Data'[i] \in Ref
             /\ Data'[i].a = a /\ Data'[i].from = pos[i] /\ Data'[i].n = lens[i]
  <2>1. PICK f \in Nat, n \in Nat : f = pos[i] /\ n = lens[i]
    BY <1>6
  <2>2. Data'[i] = [a |-> a, from |-> f, n |-> n]
    BY <2>1, <1>2, <1>3, <1>6, <1>7
  <2> QED
    BY <2>1, <2>2 DEF Ref
<1>9. DOMAIN Data' = 1..l /\ Data' \in Seq(Ref) /\ Len(Data') = l
  <2>1. \A i \in 1..l : Data'[i] \in Ref
    BY <1>8
  <2>2. Data' = [i \in 1..l |-> Data'[i]]
    BY <1>2, <1>7
  <2>3. Data' \in [1..l -> Ref]
    BY ONLY <2>1, <2>2
  <2> QED
    BY ONLY <2>3, l \in Nat
<1>10. mem \in Seq(Seq(Cell)) /\ mem' = mem
  BY <1>1, <1>2 DEF Buffer
<1>11. \A i \in 1..l : InArena(mem, Data'[i])
  <2>1. SUFFICES ASSUME NEW i \in 1..l, lens[i] # 0
                 PROVE  a \in 1..Len(mem) /\ pos[i] + lens[i] <= Len(mem[a])
    <3>1. SUFFICES ASSUME NEW i \in 1..l PROVE InArena(mem, Data'[i])
      OBVIOUS
    <3>2. lens[i] = 0 \/ (a \in 1..Len(mem) /\ pos[i] + lens[i] <= Len(mem[a]))
      OBVIOUS
    <3>3. Data'[i].a = a /\ Data'[i].from = pos[i] /\ Data'[i].n = lens[i]
      BY <1>8
    <3> QED
      BY ONLY <3>2, <3>3 DEF InArena
  <2>2. h > 0
    BY <2>1, <1>3, <1>6
  <2>3. a # 0
    BY <2>2, <1>1, <1>3 DEF Buffer, Cap
  <2>4. PICK c \in Nat : c = Len(mem) /\ a <= c
    BY <1>1, <1>3 DEF Buffer
  <2>5. a \in 1..Len(mem)
    BY <2>3, <2>4
  <2>6. PICK s \in Seq(Cell) : s = mem[a]
    BY <2>5, <1>10
  <2>7. h <= Len(s) /\ Len(s) \in Nat
    BY <2>3, <2>6, <1>1, <1>3 DEF Buffer, Cap
  <2> QED
    BY <2>5, <2>6, <2>7, <1>6
<1>12. \A i \in 1..l : Read(mem, Data'[i]) = given'[i]
  <2>1. SUFFICES ASSUME NEW i \in 1..l
                 PROVE  Read(mem, Data'[i]) = Text(sent, i, lens[i])
    BY <1>2, <1>7
  <2>2. PICK ref \in Ref : ref = Data'[i]
    BY <1>9
  <2>3. ref.a = a /\ ref.from = pos[i] /\ ref.n = lens[i] /\ InArena(mem, ref)
    BY <2>2, <1>8, <1>11
  <2>4. \A k \in 1..ref.n : mem[ref.a][ref.from + k] = <<sent, i, k>>
    BY <2>3, <1>6
  <2>5. Read(mem, ref) = Text(sent, i, ref.n)
    BY <2>3, <2>4, <1>10, ReadsText
  <2> QED
    BY <2>2, <2>3, <2>5
<1>13. Buffer'
  BY <1>1, <1>2 DEF Buffer, Cap
<1>14. Block'
  BY <1>1, <1>2, StrAssumption DEF Block
<1>15. ReadSoFar'
  BY <1>2 DEF ReadSoFar
<1>16. References'
  <2>1. Len(Data') <= MaxRows
    BY <1>1, <1>3, <1>9 DEF Block
  <2> QED
    BY <2>1, <1>1, <1>2, <1>9, <1>11 DEF References
<1>17. Whole'
  <2>1. DOMAIN given' = 1..l /\ given' = [i \in 1..l |-> given'[i]]
    BY <1>2, <1>7
  <2>2. given' = [i \in DOMAIN Data' |-> Read(mem', Data'[i])]
    BY <2>1, <1>9, <1>10, <1>12
  <2> QED
    BY <2>1, <2>2, <1>2, <1>9 DEF Whole
<1> QED
  BY <1>13, <1>14, <1>15, <1>16, <1>17 DEF IInv

LEMMA AppendStringStep == IInv /\ AppendString => IInv'
<1> SUFFICES ASSUME IInv, AppendString
             PROVE  IInv'
  OBVIOUS
<1>1. Buffer /\ Block /\ References /\ Whole
  BY DEF IInv
<1> DEFINE text == Text(sent + 1, 1, 1)
           ref == [a |-> Len(mem) + 1, from |-> 0, n |-> 1]
<1>2. /\ pc = "idle" /\ sent < MaxStrings /\ Len(Data) < MaxRows
      /\ mem' = Append(mem, text) /\ Data' = Append(Data, ref)
      /\ given' = Append(given, text) /\ sent' = sent + 1
      /\ UNCHANGED <<buf, pc, lens, pos, whole, kept, peak>>
  BY DEF AppendString, decodeVars
<1>3. text \in Seq(Cell) /\ Len(text) = 1 /\ text[1] = <<sent + 1, 1, 1>>
  <2>1. sent + 1 \in Nat
    BY <1>1, StrAssumption DEF Block
  <2>2. <<sent + 1, 1, 1>> \in Cell
    BY <2>1 DEF Cell
  <2>3. text = [k \in 1..1 |-> <<sent + 1, 1, k>>]
    BY DEF Text
  <2>4. PICK s \in [1..1 -> Cell] : s = text /\ s[1] = <<sent + 1, 1, 1>>
    BY <2>2, <2>3
  <2>5. s \in Seq(Cell) /\ Len(s) = 1
    BY ONLY s \in [1..1 -> Cell]
  <2> QED
    BY <2>4, <2>5
<1>4. PICK c \in Nat : c = Len(mem) /\ ref = [a |-> c + 1, from |-> 0, n |-> 1] /\ ref \in Ref
  BY <1>1 DEF Buffer, Ref
<1> HIDE DEF text, ref
<1>5. PICK m, w : m = mem /\ w = mem'
  OBVIOUS
<1>6. /\ w \in Seq(Seq(Cell)) /\ Len(w) = c + 1 /\ Len(m) = c /\ m \in Seq(Seq(Cell))
      /\ \A b \in 1..c : w[b] = m[b]
      /\ w[c + 1] = text
  <2>1. PICK T : T = Seq(Cell)
    OBVIOUS
  <2>2. m \in Seq(T) /\ text \in T /\ w = Append(m, text) /\ c = Len(m)
    BY <2>1, <1>1, <1>2, <1>3, <1>4, <1>5 DEF Buffer
  <2>3. /\ w \in Seq(T) /\ Len(w) = c + 1
        /\ \A b \in 1..c : w[b] = m[b]
        /\ w[c + 1] = text
    BY ONLY <2>2, c \in Nat
  <2> QED
    BY <2>1, <2>2, <2>3
<1>7. Len(m) <= Len(w) /\ \A b \in 1..Len(m) : Len(w[b]) = Len(m[b])
  BY <1>6
<1>8. Buffer'
  <2>1. buf.a \in Nat /\ buf.a <= c
    BY <1>1, <1>4 DEF Buffer
  <2>2. Cap(buf.a)' = Cap(buf.a)
    BY <2>1, <1>2, <1>5, <1>6 DEF Cap
  <2> QED
    BY <2>1, <2>2, <1>1, <1>2, <1>5, <1>6 DEF Buffer
<1>9. Block'
  BY <1>1, <1>2, StrAssumption DEF Block
<1>10. ReadSoFar'
  BY <1>1, <1>2 DEF Block, ReadSoFar
<1>11. \A r \in Ref : InArena(m, r) => InArena(w, r) /\ Read(w, r) = Read(m, r)
  <2>1. SUFFICES ASSUME NEW r \in Ref, InArena(m, r)
                 PROVE  InArena(w, r) /\ Read(w, r) = Read(m, r)
    OBVIOUS
  <2>2. InArena(w, r)
    BY <2>1, <1>6, <1>7, InArenaStays
  <2>3. r.n # 0 => w[r.a] = m[r.a]
    BY <2>1, <1>6 DEF InArena
  <2>4. Read(w, r) = Read(m, r)
    BY <2>3 DEF Read
  <2> QED
    BY <2>2, <2>4
<1>12. InArena(w, ref) /\ Read(w, ref) = text
  <2>1. InArena(w, ref)
    <3>1. ref.a = c + 1 /\ ref.from = 0 /\ ref.n = 1
      BY <1>4
    <3>2. c + 1 \in 1..Len(w) /\ Len(w[c + 1]) = 1
      BY <1>3, <1>6
    <3> QED
      BY ONLY <3>1, <3>2 DEF InArena
  <2>2. Read(w, ref) = SubSeq(text, 1, 1)
    BY <1>4, <1>6 DEF Read
  <2>3. SubSeq(text, 1, 1) = text
    <3>1. PICK s \in Seq(Cell) : s = text /\ Len(s) = 1
      BY <1>3
    <3>2. SubSeq(s, 1, 1) = [i \in 1..1 |-> s[i]]
      OBVIOUS
    <3>3. s = [i \in 1..1 |-> s[i]]
      BY <3>1
    <3> QED
      BY <3>1, <3>2, <3>3
  <2> QED
    BY <2>1, <2>2, <2>3
<1>13. PICK d \in Nat :
          /\ d = Len(Data) /\ Data \in Seq(Ref) /\ DOMAIN Data = 1..d
          /\ \A i \in 1..d : Data[i] \in Ref /\ InArena(m, Data[i])
  <2>1. Data \in Seq(Ref)
    BY <1>1 DEF References
  <2>2. Len(Data) \in Nat /\ DOMAIN Data = 1..Len(Data) /\ \A i \in 1..Len(Data) : Data[i] \in Ref
    BY ONLY <2>1
  <2> QED
    BY <2>1, <2>2, <1>1, <1>5 DEF References
<1>14. /\ Data' \in Seq(Ref) /\ Len(Data') = d + 1 /\ DOMAIN Data' = 1..d + 1
       /\ \A i \in 1..d : Data'[i] = Data[i]
       /\ Data'[d + 1] = ref
  <2>1. PICK r \in Ref : r = ref
    BY <1>4
  <2>2. Data' = Append(Data, r)
    BY <2>1, <1>2
  <2>3. /\ Data' \in Seq(Ref) /\ Len(Data') = d + 1 /\ DOMAIN Data' = 1..d + 1
        /\ \A i \in 1..d : Data'[i] = Data[i]
        /\ Data'[d + 1] = r
    BY ONLY <2>2, <1>13, r \in Ref, d \in Nat
  <2> QED
    BY <2>1, <2>3
<1>15. References'
  <2>1. \A i \in 1..d + 1 : InArena(w, Data'[i])
    <3>1. SUFFICES ASSUME NEW i \in 1..d + 1 PROVE InArena(w, Data'[i])
      OBVIOUS
    <3>2. CASE i = d + 1
      BY <3>2, <1>12, <1>14
    <3>3. CASE i # d + 1
      <4>1. i \in 1..d
        BY ONLY <3>3, d \in Nat, i \in 1..d + 1
      <4> QED
        BY <4>1, <1>11, <1>13, <1>14
    <3> QED
      BY <3>2, <3>3
  <2>2. Len(Data') <= MaxRows
    BY <1>2, <1>13, <1>14, StrAssumption
  <2>3. \A k \in kept' : k.ref \in Ref /\ InArena(w, k.ref)
    BY <1>1, <1>2, <1>5, <1>11 DEF References
  <2> QED
    BY <2>1, <2>2, <2>3, <1>5, <1>14 DEF References
<1>16. Whole'
  <2>1. SUFFICES ASSUME whole
                 PROVE  /\ DOMAIN given' = DOMAIN Data'
                        /\ given' = [i \in DOMAIN Data' |-> Read(mem', Data'[i])]
    BY <1>1, <1>2 DEF Whole
  <2>2. given = [i \in 1..d |-> Read(m, Data[i])]
    BY <2>1, <1>1, <1>2, <1>5, <1>13 DEF Whole
  <2>3. Len(given) = d
    BY <2>2
  <2>4. given' = [i \in 1..d + 1 |-> IF i = d + 1 THEN text ELSE given[i]]
    <3>1. PICK g, t : g = given /\ t = text /\ given' = Append(g, t)
      BY <1>2
    <3>2. PICK S : S = {g[i] : i \in 1..d} \cup {t}
      OBVIOUS
    <3>4. g \in [1..d -> S] /\ t \in S /\ d \in Nat
      BY <2>2, <3>1, <3>2
    <3>5. g \in Seq(S) /\ Len(g) = d
      BY ONLY <3>4
    <3>3. Append(g, t) = [i \in 1..d + 1 |-> IF i = d + 1 THEN t ELSE g[i]]
      <4>1. PICK h : h = Append(g, t)
        OBVIOUS
      <4>2. /\ h \in Seq(S) /\ Len(h) = d + 1 /\ h[d + 1] = t
            /\ \A i \in 1..d : h[i] = g[i]
        BY ONLY <3>4, <3>5, <4>1
      <4>3. h \in [1..d + 1 -> S]
        BY ONLY <4>2, d \in Nat
      <4>4. \A i \in 1..d + 1 : h[i] = IF i = d + 1 THEN t ELSE g[i]
        BY ONLY <4>2, d \in Nat
      <4> QED
        BY <4>1, <4>3, <4>4
    <3> QED
      BY <3>1, <3>3
  <2>5. ASSUME NEW i \in 1..d + 1
        PROVE  (IF i = d + 1 THEN text ELSE given[i]) = Read(w, Data'[i])
    <3>1. CASE i = d + 1
      BY <3>1, <1>12, <1>14
    <3>2. CASE i # d + 1
      <4>1. i \in 1..d
        BY ONLY <3>2, d \in Nat, i \in 1..d + 1
      <4>2. given[i] = Read(m, Data[i])
        BY <4>1, <2>2
      <4> QED
        BY <3>2, <4>1, <4>2, <1>11, <1>13, <1>14
    <3> QED
      BY <3>1, <3>2
  <2>6. given' = [i \in 1..d + 1 |-> Read(w, Data'[i])]
    BY <2>4, <2>5
  <2> QED
    BY <2>6, <1>5, <1>14
<1> QED
  BY <1>8, <1>9, <1>10, <1>15, <1>16 DEF IInv

LEMMA ResetStep == IInv /\ Reset => IInv'
<1> SUFFICES ASSUME IInv, Reset
             PROVE  IInv'
  OBVIOUS
<1>1. Buffer /\ Block /\ References
  BY DEF IInv
<1>2. Buffer'
  BY <1>1 DEF Reset, Buffer, Cap
<1>3. Block'
  BY <1>1 DEF Reset, decodeVars, Block
<1>4. ReadSoFar'
  BY <1>1 DEF Reset, decodeVars, Block, ReadSoFar
<1>5. References'
  BY <1>1, StrAssumption DEF Reset, References
<1>6. Whole'
  BY DEF Reset, Whole
<1> QED
  BY <1>2, <1>3, <1>4, <1>5, <1>6 DEF IInv

LEMMA KeepStep == IInv /\ Keep => IInv'
<1> SUFFICES ASSUME IInv, Keep
             PROVE  IInv'
  OBVIOUS
<1>1. Buffer /\ Block /\ ReadSoFar /\ References /\ Whole
  BY DEF IInv
<1>2. UNCHANGED <<mem, buf, Data, pc, lens, pos, sent, given, whole, peak>>
  BY DEF Keep, decodeVars
<1>3. PICK i \in DOMAIN Data : kept' = kept \cup {[ref |-> Data[i], was |-> Rows[i]]}
  BY DEF Keep
<1>4. Buffer'
  BY <1>1, <1>2 DEF Buffer, Cap
<1>5. Block'
  BY <1>1, <1>2 DEF Block
<1>6. ReadSoFar'
  BY <1>1, <1>2 DEF ReadSoFar, Bound
<1>7. References'
  <2>1. Data \in Seq(Ref)
    BY <1>1 DEF References
  <2>2. Data[i] \in Ref
    BY ONLY <2>1, i \in DOMAIN Data
  <2>3. InArena(mem, Data[i])
    BY <1>1 DEF References
  <2>4. \A k \in kept' : k.ref \in Ref /\ InArena(mem, k.ref)
    BY <2>2, <2>3, <1>1, <1>3 DEF References
  <2> QED
    BY <2>4, <1>1, <1>2 DEF References
<1>8. Whole'
  BY <1>1, <1>2 DEF Whole
<1> QED
  BY <1>4, <1>5, <1>6, <1>7, <1>8 DEF IInv

LEMMA NextIInv == IInv /\ [Next]_vars => IInv'
<1> SUFFICES ASSUME IInv, [Next]_vars
             PROVE  IInv'
  OBVIOUS
<1>1. CASE DecodeEmpty
  BY <1>1, DecodeEmptyStep
<1>2. CASE DecodeStart
  BY <1>2, DecodeStartStep
<1>3. CASE ReadRow
  BY <1>3, ReadRowStep
<1>4. CASE DecodeEnd
  BY <1>4, DecodeEndStep
<1>5. CASE ReadLengthFails
  BY <1>5, ReadLengthFailsStep
<1>6. CASE ReadBytesFail
  BY <1>6, ReadBytesFailStep
<1>7. CASE AppendString
  BY <1>7, AppendStringStep
<1>8. CASE Reset
  BY <1>8, ResetStep
<1>9. CASE Keep
  BY <1>9, KeepStep
<1>10. CASE UNCHANGED vars
  BY <1>10 DEF vars, IInv, Buffer, Block, ReadSoFar, References, Whole, Bound, Cap
<1> QED
  BY <1>1, <1>2, <1>3, <1>4, <1>5, <1>6, <1>7, <1>8, <1>9, <1>10 DEF Next

LEMMA IInvHolds == Spec => []IInv
<1> QED
  BY InitIInv, NextIInv, PTL DEF Spec

-----------------------------------------------------------------------------
(* What the code promises. *)

\* A state in which the invariant holds is well typed.
LEMMA IInvTypes == IInv => TypeOK
<1> SUFFICES ASSUME IInv
             PROVE  TypeOK
  OBVIOUS
<1>1. Buffer /\ Block /\ References
  BY DEF IInv
<1>2. buf.a \in 0..Len(mem) /\ buf.len \in 0..Cap(buf.a)
  <2>1. PICK c \in Nat, a \in Nat, h \in Nat :
            c = Len(mem) /\ a = buf.a /\ h = buf.len /\ a <= c /\ h <= Cap(a)
    BY <1>1 DEF Buffer
  <2>2. Cap(a) \in Nat
    <3>1. CASE a = 0
      BY <3>1 DEF Cap
    <3>2. CASE a # 0
      <4>1. a \in 1..Len(mem) /\ mem \in Seq(Seq(Cell))
        BY <3>2, <2>1, <1>1 DEF Buffer
      <4>2. PICK s \in Seq(Cell) : s = mem[a]
        BY <4>1
      <4>3. Len(s) \in Nat
        OBVIOUS
      <4> QED
        BY <3>2, <4>2, <4>3 DEF Cap
    <3> QED
      BY <3>1, <3>2
  <2> QED
    BY <2>1, <2>2
<1>3. /\ pc \in {"idle", "rows"} /\ sent \in 0..MaxStrings
      /\ Len(pos) <= Len(lens) /\ Len(Data) <= MaxRows
  BY <1>1 DEF Block, References
<1>4. \A ref \in Ref : InArena(mem, ref) =>
          ref.n = 0 \/ (ref.from >= 0 /\ ref.from + ref.n <= Cap(ref.a))
  <2>1. SUFFICES ASSUME NEW ref \in Ref, ref.a \in 1..Len(mem), ref.from + ref.n <= Len(mem[ref.a])
                 PROVE  ref.from >= 0 /\ ref.from + ref.n <= Cap(ref.a)
    BY DEF InArena
  <2>2. ref.a # 0 /\ ref.from \in Nat
    <3>1. PICK c \in Nat : c = Len(mem)
      BY <1>1 DEF Buffer
    <3> QED
      BY <2>1, <3>1 DEF Ref
  <2> QED
    BY <2>1, <2>2 DEF Cap
<1>5. \A ref \in ToSet(Data) \cup {k.ref : k \in kept} : ref \in Ref /\ InArena(mem, ref)
  <2>1. Data \in Seq(Ref) /\ \A i \in DOMAIN Data : InArena(mem, Data[i])
    BY <1>1 DEF References
  <2>2. \A i \in DOMAIN Data : Data[i] \in Ref
    BY ONLY <2>1
  <2>3. \A ref \in ToSet(Data) : ref \in Ref /\ InArena(mem, ref)
    BY <2>1, <2>2 DEF ToSet
  <2>4. \A ref \in {k.ref : k \in kept} : ref \in Ref /\ InArena(mem, ref)
    BY <1>1 DEF References
  <2> QED
    BY <2>3, <2>4
<1> QED
  BY <1>2, <1>3, <1>4, <1>5 DEF TypeOK

\* Every string lies within its arena: unsafe.String never reaches past the
\* buffer, also when a decode has failed or the buffer has moved.
THEOREM TypeCorrect == Spec => []TypeOK
<1> QED
  BY IInvHolds, IInvTypes, PTL

\* Unless the latest decode failed, the rows are those of the latest block and
\* the strings appended since, for blocks and strings of any size and whatever
\* the buffer held before.
THEOREM RowsAreGivenHolds == Spec => []RowsAreGiven
<1>1. IInv => RowsAreGiven
  BY DEF IInv, Whole, RowsAreGiven, Rows
<1> QED
  BY <1>1, IInvHolds, PTL

\* The capacity of the buffer is that of its arena.
LEMMA CapIsNat == Buffer => Cap(buf.a) \in Nat
<1> SUFFICES ASSUME Buffer
             PROVE  Cap(buf.a) \in Nat
  OBVIOUS
<1>1. CASE buf.a = 0
  BY <1>1 DEF Cap
<1>2. CASE buf.a # 0
  <2>1. PICK c \in Nat, a \in Nat : c = Len(mem) /\ a = buf.a /\ a <= c
    BY DEF Buffer
  <2>2. a \in 1..Len(mem) /\ mem \in Seq(Seq(Cell))
    BY <2>1, <1>2 DEF Buffer
  <2>3. PICK s \in Seq(Cell) : s = mem[a]
    BY <2>2
  <2>4. Len(s) \in Nat
    OBVIOUS
  <2> QED
    BY <2>1, <2>3, <2>4, <1>2 DEF Cap
<1> QED
  BY <1>1, <1>2

\* Only the bytes of a string that arrive move the buffer or change a byte.
LEMMA OnlyReadsWrite ==
    ASSUME IInv, Next
    PROVE  \/ pc = "rows" /\ \E n \in Nat : \E got \in 0..n : Reads(n, got)
           \/ AppendString
           \/ buf'.a = buf.a /\ mem' = mem
<1>1. Buffer /\ Block
  BY DEF IInv
<1>2. buf \in [a : Nat, len : Nat]
  BY <1>1 DEF Buffer
<1>3. CASE ReadRow
  <2>1. Len(pos) < Len(lens) /\ pc = "rows"
    BY <1>3 DEF ReadRow
  <2>2. PICK n \in Nat : readUVarint(PutUVarint(lens[Len(pos) + 1])) = n
    BY <2>1, <1>1, LengthIsRead
  <2>3. ReadInto(n, n) /\ n \in 0..n
    BY <1>3, <2>2 DEF ReadRow
  <2>4. Reads(n, n)
    BY <2>1, <2>3, <1>1, ReadIntoDoes
  <2> QED
    BY <2>1, <2>3, <2>4
<1>4. CASE ReadBytesFail
  <2>1. Len(pos) < Len(lens) /\ pc = "rows"
    BY <1>4 DEF ReadBytesFail
  <2>2. PICK n \in Nat : readUVarint(PutUVarint(lens[Len(pos) + 1])) = n
    BY <2>1, <1>1, LengthIsRead
  <2>3. PICK got \in 0..n - 1 : ReadInto(n, got)
    BY <1>4, <2>2 DEF ReadBytesFail
  <2>4. got \in 0..n
    OBVIOUS
  <2>5. Reads(n, got)
    BY <2>1, <2>3, <2>4, <1>1, ReadIntoDoes
  <2> QED
    BY <2>1, <2>4, <2>5
<1>5. CASE DecodeEmpty \/ DecodeStart
  BY <1>2, <1>5 DEF DecodeEmpty, DecodeStart
<1>6. CASE DecodeEnd \/ ReadLengthFails \/ Reset \/ Keep
  BY <1>6 DEF DecodeEnd, ReadLengthFails, Reset, Keep
<1> QED
  BY <1>3, <1>4, <1>5, <1>6 DEF Next

\* The buffer is replaced only for a block with more bytes than any block before it,
\* also after empty and failed blocks.
THEOREM GrowsBeyondPeakHolds == Spec => GrowsBeyondPeak
<1>1. IInv /\ [Next]_vars => [buf'.a # buf.a => buf'.len > peak]_vars
  <2> SUFFICES ASSUME IInv, Next, buf'.a # buf.a
               PROVE  buf'.len > peak
    OBVIOUS
  <2>1. Buffer
    BY DEF IInv
  <2>2. PICK n \in Nat : \E got \in 0..n : Reads(n, got)
    <3>1. ~AppendString
      BY DEF AppendString
    <3> QED
      BY <3>1, OnlyReadsWrite
  <2>3. PICK c \in Nat, p \in Nat : c = Cap(buf.a) /\ p = peak /\ p <= c
    BY <2>1, CapIsNat DEF Buffer
  <2>4. PICK h \in Nat : h = buf'.len /\ h > c
    BY <2>2, <2>3 DEF Reads
  <2> QED
    BY <2>3, <2>4
<1> QED
  BY <1>1, IInvHolds, PTL DEF Spec, GrowsBeyondPeak

\* What a caller took from Row changes only when a later block is read into the
\* buffer it points into, over the bytes read so far; never by Append, Reset or
\* a buffer that moved away.
THEOREM KeptUntilRereadHolds == Spec => KeptUntilReread
<1>1. IInv /\ [Next]_vars =>
         [\A k \in kept :
             Read(mem', k.ref) # Read(mem, k.ref) =>
                 pc = "rows" /\ k.ref.a = buf.a /\ k.ref.from < buf'.len]_vars
  <2> SUFFICES ASSUME IInv, Next, NEW k \in kept,
                      ~(pc = "rows" /\ k.ref.a = buf.a /\ k.ref.from < buf'.len)
               PROVE  Read(mem', k.ref) = Read(mem, k.ref)
    OBVIOUS
  <2>1. Buffer /\ References /\ Block
    BY DEF IInv
  <2>2. PICK ref \in Ref : ref = k.ref /\ InArena(mem, ref)
    BY <2>1 DEF References
  <2>3. PICK m \in Seq(Seq(Cell)) : m = mem /\ InArena(m, ref)
    BY <2>1, <2>2 DEF Buffer
  <2>4. PICK a \in Nat, f \in Nat, n \in Nat :
            a = ref.a /\ f = ref.from /\ n = ref.n /\ (n # 0 => a \in 1..Len(m) /\ f + n <= Len(m[a]))
    BY <2>2, <2>3 DEF Ref, InArena
  <2>5. ASSUME NEW w \in Seq(Seq(Cell)), Len(m) <= Len(w),
               n # 0 => Len(w[a]) = Len(m[a]),
               \A j \in 1..n : w[a][f + j] = m[a][f + j]
        PROVE  Read(w, ref) = Read(m, ref)
    <3>1. ref.n # 0 => Len(w[ref.a]) = Len(m[ref.a])
      BY <2>4, <2>5
    <3>2. \A j \in 1..ref.n : w[ref.a][ref.from + j] = m[ref.a][ref.from + j]
      BY <2>4, <2>5
    <3> QED
      BY <3>1, <3>2, <2>3, <2>5, ReadsTheSame
  <2>6. CASE pc = "rows" /\ \E r \in Nat : \E got \in 0..r : Reads(r, got)
    <3>1. PICK r \in Nat, got \in Nat : got \in 0..r /\ Reads(r, got)
      BY <2>6
    <3>2. PICK w \in Seq(Seq(Cell)) : w = mem' /\ Len(m) <= Len(w)
      BY <3>1, <2>3 DEF Reads
    <3>3. n # 0 => Len(w[a]) = Len(m[a])
      BY <3>1, <3>2, <2>3, <2>4 DEF Reads
    <3>4. \A j \in 1..n : w[a][f + j] = m[a][f + j]
      <4>1. SUFFICES ASSUME NEW j \in 1..n PROVE w[a][f + j] = m[a][f + j]
        OBVIOUS
      <4>2. a \in 1..Len(m) /\ n # 0
        BY <2>4
      <4>3. CASE a # buf'.a
        BY <4>2, <4>3, <3>1, <3>2, <2>3 DEF Reads
      <4>4. CASE a = buf'.a
        <5>1. a = buf.a
          <6>1. PICK c \in Nat : c = Len(m)
            OBVIOUS
          <6>2. a <= c
            BY <4>2, <6>1
          <6>3. ~(buf'.a > Len(mem))
            BY <4>4, <6>1, <6>2, <2>3
          <6> QED
            BY <6>3, <4>4, <3>1 DEF Reads
        <5>2. PICK h \in Nat, b \in Nat : h = buf'.len /\ b = buf.len /\ h = b + r
          BY <3>1, <2>1 DEF Reads, Buffer
        <5>3. ~(f < h)
          BY <5>1, <5>2, <2>2, <2>4, <2>6
        <5>4. PICK c \in Nat : c = Len(m[a]) /\ c = Cap(buf.a)
          <6>1. a # 0
            BY ONLY <4>2, Len(m) \in Nat, m \in Seq(Seq(Cell))
          <6>2. Cap(buf.a) = Len(m[a])
            BY <6>1, <5>1, <2>3 DEF Cap
          <6> QED
            BY <6>2, <2>1, CapIsNat
        <5>5. f + j \in 1..c /\ f + j > b + got
          <6>1. f + n <= c
            BY <5>4, <4>2, <2>4
          <6> QED
            BY ONLY <6>1, <5>2, <5>3, <3>1, j \in 1..n, n \in Nat, f \in Nat, h \in Nat,
                    b \in Nat, r \in Nat, c \in Nat, got \in Nat
        <5> QED
          BY <5>1, <5>2, <5>4, <5>5, <4>4, <3>1, <3>2, <2>3 DEF Reads
      <4> QED
        BY <4>3, <4>4
    <3>5. Read(w, ref) = Read(m, ref)
      BY <3>2, <3>3, <3>4, <2>5
    <3> QED
      BY <3>2, <3>5, <2>2, <2>3
  <2>7. CASE AppendString
    <3>1. PICK t, T : t = Text(sent + 1, 1, 1) /\ T = Seq(Cell)
      OBVIOUS
    <3>2. PICK w : w = mem'
      OBVIOUS
    <3>3. w = Append(m, t)
      BY <3>1, <3>2, <2>3, <2>7 DEF AppendString
    <3>4. n # 0 => w[a] = m[a]
      <4>1. \A b \in 1..Len(m) : Append(m, t)[b] = m[b]
        BY ONLY m \in Seq(Seq(Cell))
      <4> QED
        BY <4>1, <3>3, <2>4
    <3> QED
      BY <3>2, <3>4, <2>2, <2>3, <2>4 DEF Read
  <2>8. CASE buf'.a = buf.a /\ mem' = mem
    BY <2>8
  <2> QED
    BY <2>6, <2>7, <2>8, OnlyReadsWrite
<1> QED
  BY <1>1, IInvHolds, PTL DEF Spec, KeptUntilReread

=============================================================================
