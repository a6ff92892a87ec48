-------------------------- MODULE CompositeProofs ---------------------------
(***************************************************************************)
(* Proofs about Composite, for any values, any number of rows and elements *)
(* and blocks of any size.                                                 *)
(***************************************************************************)
EXTENDS Composite, Counting, SequenceTheorems

-----------------------------------------------------------------------------
(* The operators of Composite, of a column of kind k. *)

FlatOf(k) == k \in {"tuple", "nullable"}
Parts(k) == 1..Arity(k)
DomainOf(k, c) == IF k = "nullable" /\ c = 1 THEN BOOLEAN ELSE Vals
EndOf(k, o, i) == CASE FlatOf(k) -> i [] i = 0 /\ ~FlatOf(k) -> 0 [] OTHER -> o[i]
LengthOf(k, o, ch) == IF FlatOf(k) THEN Len(ch[1]) ELSE Len(o)
AccessibleOf(k, o, ch) ==
    \A i \in 1..LengthOf(k, o, ch) :
        EndOf(k, o, i - 1) <= EndOf(k, o, i) /\ \A c \in Parts(k) : EndOf(k, o, i) <= Len(ch[c])
RowOf(k, o, ch, i) ==
    [j \in 1..EndOf(k, o, i) - EndOf(k, o, i - 1) |->
        [c \in Parts(k) |-> ch[c][EndOf(k, o, i - 1) + j]]]
RowsOf(k, o, ch) == [i \in 1..LengthOf(k, o, ch) |-> RowOf(k, o, ch, i)]

\* What an inner column may hold, and what a row is made of.
Elem == Vals \cup BOOLEAN
Rec(k) == [Parts(k) -> Elem]

AnyKind == {"array", "map", "tuple", "nullable"}

\* Composite's operators are these, of the column's kind.
LEMMA OfKind ==
    /\ Flat = FlatOf(kind) /\ Children = Parts(kind)
    /\ \A c : Domain(c) = DomainOf(kind, c)
    /\ \A o, i : End(o, i) = EndOf(kind, o, i)
    /\ \A o, ch : Length(o, ch) = LengthOf(kind, o, ch)
    /\ \A o, ch : Accessible(o, ch) = AccessibleOf(kind, o, ch)
    /\ \A o, ch, i : Row(o, ch, i) = RowOf(kind, o, ch, i)
    /\ \A o, ch : Rows(o, ch) = RowsOf(kind, o, ch)
BY DEF Flat, FlatOf, Children, Parts, Domain, DomainOf, End, EndOf, Length, LengthOf,
       Accessible, AccessibleOf, Row, RowOf, Rows, RowsOf

\* Offsets that never decrease from one to the next never decrease.
LEMMA OrderedPairs ==
    ASSUME NEW n \in Nat, NEW o \in [1..n -> Nat], Len(o) = n, Ordered(o)
    PROVE  \A i, j \in 1..n : i <= j => o[i] <= o[j]
<1> SUFFICES ASSUME NEW i \in 1..n, NEW j \in 1..n, i <= j, ~(o[i] <= o[j])
             PROVE  FALSE
  OBVIOUS
<1> DEFINE S == {k \in 1..n : i <= k /\ o[k] < o[i]}
<1>1. S \in SUBSET Nat /\ S # {}
  OBVIOUS
<1>2. PICK k \in S : \A l \in S : k <= l
  BY <1>1, Least
<1>3. k # i /\ k - 1 \in 1..n /\ i <= k - 1 /\ k \in 2..Len(o)
  BY <1>2
<1>4. o[k - 1] <= o[k]
  BY <1>3 DEF Ordered
<1>5. k - 1 \in S
  BY <1>3, <1>4, <1>2
<1> QED
  BY <1>2, <1>5

-----------------------------------------------------------------------------
(* What the column shows. *)

\* The parts hold the given rows one after the other, and nothing else.
Shows(k, o, ch, rows) ==
    /\ Len(rows) = LengthOf(k, o, ch)
    /\ \A c \in Parts(k) : Len(ch[c]) = EndOf(k, o, Len(rows))
    /\ \A i \in 1..Len(rows) :
          /\ EndOf(k, o, i - 1) <= EndOf(k, o, i)
          /\ EndOf(k, o, i) <= EndOf(k, o, Len(rows))
          /\ Len(rows[i]) = EndOf(k, o, i) - EndOf(k, o, i - 1)
          /\ \A j \in 1..Len(rows[i]), c \in Parts(k) :
                rows[i][j][c] = ch[c][EndOf(k, o, i - 1) + j]

\* The entries that a row of a column of kind k may have.
EntryOf(k) == {e \in Rec(k) : \A c \in Parts(k) : e[c] \in DomainOf(k, c)}

\* The types of what a column of kind k keeps.
ShapeOK(k, o, ch) ==
    /\ o \in Seq(Nat)
    /\ \A c \in Parts(k) : ch[c] \in Seq(DomainOf(k, c))

RowsOK(k, rows) == rows \in Seq(Seq(EntryOf(k)))

\* The rows end at natural numbers.
LEMMA EndType ==
    ASSUME NEW k, NEW o, NEW ch, NEW i \in 0..LengthOf(k, o, ch),
           ShapeOK(k, o, ch), 1 \in Parts(k)
    PROVE  EndOf(k, o, i) \in Nat
<1>1. LengthOf(k, o, ch) \in Nat
  BY DEF ShapeOK, LengthOf
<1> QED
  BY <1>1 DEF EndOf, ShapeOK, LengthOf

\* What the parts hold is what Row reads.
LEMMA Readable ==
    ASSUME NEW k \in AnyKind, NEW o, NEW ch, NEW rows,
           ShapeOK(k, o, ch), RowsOK(k, rows), Shows(k, o, ch, rows)
    PROVE  AccessibleOf(k, o, ch) /\ RowsOf(k, o, ch) = rows
<1> DEFINE N == LengthOf(k, o, ch)
           E(i) == EndOf(k, o, i)
<1>0. N \in Nat /\ N = Len(rows) /\ 1 \in Parts(k)
  BY DEF RowsOK, Shows, Parts, Arity
<1>1. \A i \in 0..N : E(i) \in Nat
  BY <1>0, EndType
<1> HIDE DEF N, E
<1>2. \A i \in 1..N : /\ E(i - 1) <= E(i) /\ E(i) <= E(N)
                      /\ Len(rows[i]) = E(i) - E(i - 1)
                      /\ \A j \in 1..Len(rows[i]), c \in Parts(k) :
                            rows[i][j][c] = ch[c][E(i - 1) + j]
  BY <1>0 DEF Shows, N, E
<1>3. AccessibleOf(k, o, ch)
  BY <1>0, <1>1, <1>2 DEF AccessibleOf, Shows, N, E
<1>4. ASSUME NEW i \in 1..N
      PROVE  RowOf(k, o, ch, i) = rows[i]
  <2>0. \A e \in EntryOf(k) : e \in Rec(k)
    BY DEF EntryOf
  <2>1. rows[i] \in Seq(EntryOf(k))
    BY <1>0 DEF RowsOK
  <2>2. rows[i] \in [1..Len(rows[i]) -> EntryOf(k)]
    BY <2>1
  <2>3. rows[i] = [j \in 1..E(i) - E(i - 1) |-> rows[i][j]]
    BY <2>2, <1>2
  <2>4. ASSUME NEW j \in 1..E(i) - E(i - 1)
        PROVE  rows[i][j] = [c \in Parts(k) |-> ch[c][E(i - 1) + j]]
    <3>1. rows[i][j] \in Rec(k) /\ j \in 1..Len(rows[i])
      BY <2>0, <2>2, <1>2
    <3> QED
      BY <3>1, <1>2 DEF Rec
  <2> QED
    BY <2>3, <2>4 DEF RowOf, E
<1>5. rows = [i \in 1..N |-> rows[i]]
  BY <1>0 DEF RowsOK
<1>6. RowsOf(k, o, ch) = rows
  BY <1>4, <1>5 DEF RowsOf, N
<1> QED
  BY <1>3, <1>6

\* What a row adds to an inner column is a sequence of its length.
LEMMA FieldType ==
    ASSUME NEW k, NEW row \in Seq(EntryOf(k)), NEW c \in Parts(k)
    PROVE  /\ Field(row, c) \in Seq(DomainOf(k, c)) /\ Len(Field(row, c)) = Len(row)
           /\ \A j \in 1..Len(row) : Field(row, c)[j] = row[j][c]
<1>1. Field(row, c) \in [1..Len(row) -> DomainOf(k, c)]
  BY DEF Field, EntryOf
<1> QED
  BY <1>1 DEF Field

\* What a sequence is after another was put behind it.
LEMMA Joined ==
    ASSUME NEW T, NEW s \in Seq(T), NEW f \in Seq(T)
    PROVE  /\ s \o f \in Seq(T) /\ Len(s \o f) = Len(s) + Len(f)
           /\ \A j \in 1..Len(s) : (s \o f)[j] = s[j]
           /\ \A j \in 1..Len(f) : (s \o f)[Len(s) + j] = f[j]
<1>1. s \o f \in Seq(T) /\ Len(s \o f) = Len(s) + Len(f) /\ Len(s) \in Nat /\ Len(f) \in Nat
  OBVIOUS
<1>2. \A j \in 1..Len(s) : (s \o f)[j] = s[j]
  BY <1>1
<1>3. ASSUME NEW j \in 1..Len(f)
      PROVE  (s \o f)[Len(s) + j] = f[j]
  BY <1>1
<1> QED
  BY <1>1, <1>2, <1>3

\* The parts o2 and ch2 are o and ch with one more row.
Longer(k, o, ch, row, o2, ch2) ==
    /\ ch2 = [c \in Parts(k) |-> ch[c] \o Field(row, c)]
    /\ o2 = IF FlatOf(k) THEN o ELSE Append(o, Len(ch2[1]))

\* An Append keeps the parts' types.
LEMMA AppendShape ==
    ASSUME NEW k \in AnyKind, NEW o, NEW ch, NEW row \in Seq(EntryOf(k)), ShapeOK(k, o, ch),
           NEW o2, NEW ch2,
           Longer(k, o, ch, row, o2, ch2)
    PROVE  /\ ShapeOK(k, o2, ch2)
           /\ \A c \in Parts(k) : /\ Len(ch2[c]) = Len(ch[c]) + Len(row)
                                  /\ \A j \in 1..Len(ch[c]) : ch2[c][j] = ch[c][j]
                                  /\ \A j \in 1..Len(row) : ch2[c][Len(ch[c]) + j] = row[j][c]
<1>1. ASSUME NEW c \in Parts(k)
      PROVE  /\ ch2[c] \in Seq(DomainOf(k, c))
             /\ Len(ch2[c]) = Len(ch[c]) + Len(row)
             /\ \A j \in 1..Len(ch[c]) : ch2[c][j] = ch[c][j]
             /\ \A j \in 1..Len(row) : ch2[c][Len(ch[c]) + j] = row[j][c]
  <2>1. /\ Field(row, c) \in Seq(DomainOf(k, c)) /\ Len(Field(row, c)) = Len(row)
        /\ \A j \in 1..Len(row) : Field(row, c)[j] = row[j][c]
    BY FieldType, Zenon
  <2>2. ch[c] \in Seq(DomainOf(k, c)) /\ ch2[c] = ch[c] \o Field(row, c)
    BY DEF ShapeOK, Longer
  <2>3. PICK f : f = Field(row, c)
    OBVIOUS
  <2>4. PICK s : s = ch[c]
    OBVIOUS
  <2>5. s \in Seq(DomainOf(k, c)) /\ f \in Seq(DomainOf(k, c))
    BY <2>1, <2>2, <2>3, <2>4
  <2>6. /\ s \o f \in Seq(DomainOf(k, c)) /\ Len(s \o f) = Len(s) + Len(f)
        /\ \A j \in 1..Len(s) : (s \o f)[j] = s[j]
        /\ \A j \in 1..Len(f) : (s \o f)[Len(s) + j] = f[j]
    BY ONLY <2>5, Joined
  <2> QED
    BY <2>1, <2>2, <2>3, <2>4, <2>6
<1>2. 1 \in Parts(k)
  BY DEF Parts, Arity
<1>3. Len(ch2[1]) \in Nat
  BY <1>1, <1>2
<1>4. o2 \in Seq(Nat)
  BY <1>3 DEF ShapeOK, Longer
<1> QED
  BY <1>1, <1>4 DEF ShapeOK

\* An Append adds its row to what the column shows.
LEMMA AppendShows ==
    ASSUME NEW k \in AnyKind, NEW o, NEW ch, NEW row \in Seq(EntryOf(k)), ShapeOK(k, o, ch),
           NEW o2, NEW ch2, NEW rows,
           Longer(k, o, ch, row, o2, ch2),
           RowsOK(k, rows), Shows(k, o, ch, rows),
           FlatOf(k) => Len(row) = 1
    PROVE  Shows(k, o2, ch2, Append(rows, row))
<1> DEFINE N == Len(rows)
           E(i) == EndOf(k, o, i)
           F(i) == EndOf(k, o2, i)
           more == Append(rows, row)
<1>0. 1 \in Parts(k) /\ N \in Nat /\ N = LengthOf(k, o, ch)
  BY DEF Parts, Arity, RowsOK, Shows
<1>1. /\ ShapeOK(k, o2, ch2)
      /\ \A c \in Parts(k) : /\ Len(ch2[c]) = Len(ch[c]) + Len(row)
                             /\ \A j \in 1..Len(ch[c]) : ch2[c][j] = ch[c][j]
                             /\ \A j \in 1..Len(row) : ch2[c][Len(ch[c]) + j] = row[j][c]
  BY AppendShape
<1>2. Len(row) \in Nat /\ Len(more) = N + 1 /\ more[N + 1] = row
      /\ \A i \in 1..N : more[i] = rows[i]
  BY DEF RowsOK
<1>3. \A i \in 0..N : E(i) \in Nat
  BY <1>0, EndType
<1>4. \A c \in Parts(k) : Len(ch[c]) = E(N)
  BY DEF Shows
<1>a. N + 1 # 0 /\ Len(ch2[1]) = Len(ch[1]) + Len(row) /\ Len(ch[1]) \in Nat
  BY <1>0, <1>1 DEF ShapeOK
<1>5. LengthOf(k, o2, ch2) = N + 1
  <2>1. CASE FlatOf(k)
    BY <2>1, <1>0, <1>a DEF LengthOf, Longer
  <2>2. CASE ~FlatOf(k)
    <3>1. o2 = Append(o, Len(ch2[1])) /\ Len(o) = N /\ o \in Seq(Nat) /\ Len(ch2[1]) \in Nat
      BY <2>2, <1>0, <1>a, <1>2 DEF LengthOf, ShapeOK, Longer
    <3> QED
      BY <3>1, <2>2 DEF LengthOf
  <2> QED
    BY <2>1, <2>2
<1>6. \A i \in 0..N : F(i) = E(i)
  BY <1>0 DEF EndOf, ShapeOK, LengthOf, Longer
<1>7. F(N + 1) = E(N) + Len(row)
  <2>1. CASE FlatOf(k)
    BY <2>1, <1>0 DEF EndOf, Longer
  <2>2. CASE ~FlatOf(k)
    <3>1. o2 = Append(o, Len(ch2[1])) /\ Len(o) = N /\ o \in Seq(Nat) /\ Len(ch2[1]) \in Nat
      BY <2>2, <1>0, <1>1, <1>3, <1>4, <1>2 DEF LengthOf, ShapeOK, Longer
    <3>2. o2[N + 1] = Len(ch2[1])
      BY <3>1
    <3>3. F(N + 1) = o2[N + 1]
      BY <2>2, <1>a DEF EndOf
    <3> QED
      BY <3>2, <3>3, <1>0, <1>1, <1>4
  <2> QED
    BY <2>1, <2>2
<1>8. \A i \in 1..N : /\ E(i - 1) <= E(i) /\ E(i) <= E(N)
                      /\ Len(rows[i]) = E(i) - E(i - 1)
                      /\ \A j \in 1..Len(rows[i]), c \in Parts(k) :
                            rows[i][j][c] = ch[c][E(i - 1) + j]
  BY DEF Shows
<1> HIDE DEF N, E, F, more
<1>9. \A c \in Parts(k) : Len(ch2[c]) = F(N + 1)
  BY <1>1, <1>4, <1>7
<1>10. ASSUME NEW i \in 1..N
       PROVE  /\ F(i - 1) <= F(i) /\ F(i) <= F(N + 1)
              /\ Len(more[i]) = F(i) - F(i - 1)
              /\ \A j \in 1..Len(more[i]), c \in Parts(k) :
                    more[i][j][c] = ch2[c][F(i - 1) + j]
  <2>1. i \in 0..N /\ i - 1 \in 0..N /\ N \in 0..N
    BY <1>0
  <2>2. E(i - 1) \in Nat /\ E(i) \in Nat /\ E(N) \in Nat /\ F(i) = E(i) /\ F(i - 1) = E(i - 1)
    BY <2>1, <1>3, <1>6
  <2>3. F(i - 1) <= F(i) /\ F(i) <= F(N + 1) /\ Len(more[i]) = F(i) - F(i - 1)
    <3>1. more[i] = rows[i] /\ Len(rows[i]) = E(i) - E(i - 1) /\ E(i - 1) <= E(i) /\ E(i) <= E(N)
      BY <1>2, <1>8
    <3> QED
      BY <3>1, <2>2, <1>7, <1>2
  <2>4. ASSUME NEW j \in 1..Len(more[i]), NEW c \in Parts(k)
        PROVE  more[i][j][c] = ch2[c][F(i - 1) + j]
    <3>1. E(i - 1) + j \in 1..Len(ch[c])
      BY <2>2, <2>3, <1>8, <1>4
    <3>2. more[i][j][c] = ch[c][E(i - 1) + j]
      BY <1>2, <1>8
    <3>3. ch2[c][E(i - 1) + j] = ch[c][E(i - 1) + j]
      BY <3>1, <1>1
    <3> QED
      BY <3>2, <3>3, <2>2
  <2> QED
    BY <2>3, <2>4
<1>11. /\ F(N) <= F(N + 1) /\ Len(more[N + 1]) = F(N + 1) - F(N)
       /\ \A j \in 1..Len(more[N + 1]), c \in Parts(k) :
             more[N + 1][j][c] = ch2[c][F(N) + j]
  <2>1. F(N) = E(N) /\ E(N) \in Nat
    BY <1>0, <1>3, <1>6
  <2>2. F(N) <= F(N + 1) /\ Len(row) = F(N + 1) - F(N)
    BY <2>1, <1>2, <1>7
  <2>3. ASSUME NEW j \in 1..Len(row), NEW c \in Parts(k)
        PROVE  row[j][c] = ch2[c][F(N) + j]
    <3>1. ch2[c][Len(ch[c]) + j] = row[j][c] /\ Len(ch[c]) = F(N)
      BY <2>1, <1>1, <1>4
    <3> QED
      BY <3>1
  <2> QED
    BY <2>2, <2>3, <1>2
<1>12. F(N + 1) \in Nat
  BY <1>0, <1>2, <1>3, <1>7
<1>13. \A i \in 1..N + 1 : i \in 1..N \/ (i = N + 1 /\ i - 1 = N)
  BY <1>0
<1>14. ASSUME NEW i \in 1..Len(more)
       PROVE  /\ F(i - 1) <= F(i) /\ F(i) <= F(Len(more))
              /\ Len(more[i]) = F(i) - F(i - 1)
              /\ \A j \in 1..Len(more[i]), c \in Parts(k) :
                    more[i][j][c] = ch2[c][F(i - 1) + j]
  <2>1. CASE i \in 1..N
    BY <2>1, <1>10, <1>2
  <2>2. CASE i = N + 1 /\ i - 1 = N
    <3>1. Len(more) = i /\ F(i) <= F(i) /\ F(i) = F(N + 1) /\ F(i - 1) = F(N)
      BY <2>2, <1>2, <1>12
    <3> QED
      BY <3>1, <2>2, <1>11, Zenon
  <2> QED
    BY <2>1, <2>2, <1>2, <1>13
<1>15. Len(more) = LengthOf(k, o2, ch2) /\ \A c \in Parts(k) : Len(ch2[c]) = F(Len(more))
  BY <1>2, <1>5, <1>9
<1> QED
  BY <1>14, <1>15, Zenon DEF Shows, F, more

\* The rows of a block whose offsets are in order end within it.
LEMMA BlockEnds ==
    ASSUME NEW k \in AnyKind, NEW m \in Nat \ {0}, NEW offs, Ordered(offs),
           offs \in IF FlatOf(k) THEN {<< >>} ELSE [1..m -> Nat]
    PROVE  /\ offs \in Seq(Nat)
           /\ ~FlatOf(k) => Len(offs) = m
           /\ \A i \in 0..m : EndOf(k, offs, i) \in Nat /\ EndOf(k, offs, i) <= EndOf(k, offs, m)
           /\ \A i \in 1..m : EndOf(k, offs, i - 1) <= EndOf(k, offs, i)
<1>1. CASE FlatOf(k)
  BY <1>1 DEF EndOf
<1>2. CASE ~FlatOf(k)
  <2>1. offs \in [1..m -> Nat] /\ offs \in Seq(Nat) /\ Len(offs) = m
    BY <1>2
  <2>2. \A i, j \in 1..m : i <= j => offs[i] <= offs[j]
    BY <2>1, OrderedPairs
  <2>3. EndOf(k, offs, 0) = 0 /\ \A i \in 1..m : EndOf(k, offs, i) = offs[i] /\ offs[i] \in Nat
    BY <1>2, <2>1 DEF EndOf
  <2>4. ASSUME NEW i \in 1..m
        PROVE  EndOf(k, offs, i - 1) <= EndOf(k, offs, i)
    <3>1. CASE i = 1
      BY <3>1, <2>3
    <3>2. CASE i # 1
      <4>1. i - 1 \in 1..m /\ i - 1 <= i
        BY <3>2
      <4> QED
        BY <4>1, <2>2, <2>3
    <3> QED
      BY <3>1, <3>2
  <2>5. ASSUME NEW i \in 0..m
        PROVE  EndOf(k, offs, i) \in Nat /\ EndOf(k, offs, i) <= EndOf(k, offs, m)
    <3>1. CASE i = 0
      BY <3>1, <2>3
    <3>2. CASE i # 0
      <4>1. i \in 1..m /\ m \in 1..m /\ i <= m
        BY <3>2
      <4> QED
        BY <4>1, <2>2, <2>3
    <3> QED
      BY <3>1, <3>2
  <2> QED
    BY <1>2, <2>1, <2>4, <2>5
<1> QED
  BY <1>1, <1>2

\* A block that is whole shows the rows it was made of.
LEMMA BlockShows ==
    ASSUME NEW k \in AnyKind, NEW m \in Nat \ {0}, NEW offs, NEW elems, Ordered(offs),
           offs \in IF FlatOf(k) THEN {<< >>} ELSE [1..m -> Nat],
           \A c \in Parts(k) : elems[c] \in [1..EndOf(k, offs, m) -> DomainOf(k, c)],
           NEW rows, rows = [i \in 1..m |-> RowOf(k, offs, elems, i)]
    PROVE  RowsOK(k, rows) /\ Shows(k, offs, elems, rows)
<1> DEFINE E(i) == EndOf(k, offs, i)
<1>1. /\ offs \in Seq(Nat) /\ ~FlatOf(k) => Len(offs) = m
      /\ \A i \in 0..m : E(i) \in Nat /\ E(i) <= E(m)
      /\ \A i \in 1..m : E(i - 1) <= E(i)
  BY BlockEnds
<1>2. E(m) \in Nat /\ 1 \in Parts(k) /\ m \in Nat
  BY <1>1 DEF Parts, Arity
<1>3. \A c \in Parts(k) : Len(elems[c]) = E(m)
  BY <1>2
<1>4. FlatOf(k) => E(m) = m
  BY DEF EndOf
<1>5. LengthOf(k, offs, elems) = m
  BY <1>1, <1>2, <1>3, <1>4 DEF LengthOf
<1> HIDE DEF E
<1>6. ASSUME NEW i \in 1..m
      PROVE  /\ rows[i] \in Seq(EntryOf(k)) /\ Len(rows[i]) = E(i) - E(i - 1)
             /\ \A j \in 1..E(i) - E(i - 1), c \in Parts(k) :
                   rows[i][j][c] = elems[c][E(i - 1) + j]
  <2>1. i \in 0..m /\ i - 1 \in 0..m
    OBVIOUS
  <2>2. E(i) \in Nat /\ E(i - 1) \in Nat /\ E(i - 1) <= E(i) /\ E(i) <= E(m)
    BY <2>1, <1>1
  <2>3. E(i) - E(i - 1) \in Nat
    BY <2>2
  <2>4. rows[i] = [j \in 1..E(i) - E(i - 1) |-> [c \in Parts(k) |-> elems[c][E(i - 1) + j]]]
    BY DEF RowOf, E
  <2>5. ASSUME NEW j \in 1..E(i) - E(i - 1)
        PROVE  [c \in Parts(k) |-> elems[c][E(i - 1) + j]] \in EntryOf(k)
    <3>1. E(i - 1) + j \in 1..E(m)
      BY <2>2, <1>2
    <3>2. \A c \in Parts(k) : elems[c][E(i - 1) + j] \in DomainOf(k, c)
      BY <3>1 DEF E
    <3>3. \A c \in Parts(k) : elems[c][E(i - 1) + j] \in Elem
      BY <3>2 DEF Elem, DomainOf
    <3> QED
      BY <3>2, <3>3 DEF EntryOf, Rec
  <2>6. rows[i] \in [1..E(i) - E(i - 1) -> EntryOf(k)]
    BY <2>4, <2>5
  <2>7. rows[i] \in Seq(EntryOf(k)) /\ Len(rows[i]) = E(i) - E(i - 1)
    BY <2>6, <2>3
  <2>8. \A j \in 1..E(i) - E(i - 1) : \A c \in Parts(k) : rows[i][j][c] = elems[c][E(i - 1) + j]
    BY <2>4
  <2> QED
    BY <2>7, <2>8
<1>7. rows \in [1..m -> Seq(EntryOf(k))]
  BY <1>6
<1>8. rows \in Seq(Seq(EntryOf(k))) /\ Len(rows) = m
  BY <1>7, <1>2
<1>9. ASSUME NEW i \in 1..m
      PROVE  /\ E(i - 1) <= E(i) /\ E(i) <= E(m) /\ Len(rows[i]) = E(i) - E(i - 1)
             /\ \A j \in 1..Len(rows[i]), c \in Parts(k) : rows[i][j][c] = elems[c][E(i - 1) + j]
  <2>1. i \in 0..m /\ i - 1 \in 0..m
    OBVIOUS
  <2>2. E(i - 1) <= E(i) /\ E(i) <= E(m)
    BY <2>1, <1>1
  <2> QED
    BY <2>2, <1>6, Zenon
<1>10. RowsOK(k, rows)
  BY <1>8 DEF RowsOK
<1> QED
  BY <1>3, <1>5, <1>8, <1>9, <1>10, Zenon DEF Shows, E

-----------------------------------------------------------------------------
(* The invariant. *)

\* The types, and that a block that was written is still what the column holds.
Shaped ==
    /\ kind \in Kinds /\ form \in FormsOf(kind)
    /\ child \in [Parts(kind) -> Seq(Elem)]
    /\ ShapeOK(kind, offsets, child)
    /\ RowsOK(kind, content)
    /\ outcome \in {"ok", "error", "panic"} /\ damaged \in BOOLEAN /\ onto \in BOOLEAN
    /\ sent # NoBlock => sent.offsets = offsets /\ sent.child = child

\* Unless the last block was damaged, or was decoded onto rows of a fixedstring
\* column, the parts hold the rows that were put in.
Sound == ~damaged /\ ~onto => Shows(kind, offsets, child, content)

LEMMA KindType ==
    ASSUME NEW k \in Kinds
    PROVE  k \in AnyKind /\ Arity(k) \in {1, 2} /\ 1 \in Parts(k)
BY CompositeAssumption DEF AnyKind, Arity, Parts

\* The invariant implies the types.
LEMMA ShapedTypes ==
    ASSUME Shaped
    PROVE  TypeOK
<1>1. Arity(kind) \in Nat
  BY KindType DEF Shaped
<1>2. Len(child) = Arity(kind)
  BY <1>1 DEF Shaped, Parts
<1>3. \A c \in Children : child[c] \in Seq(Domain(c))
  BY OfKind DEF Shaped, ShapeOK
<1>4. ASSUME NEW e \in EntryOf(kind)
      PROVE  Entry(e)
  <2>1. e \in [1..Arity(kind) -> UNION {Domain(c) : c \in Children}]
    <3>1. e \in [1..Arity(kind) -> Elem] /\ \A c \in 1..Arity(kind) : e[c] \in DomainOf(kind, c)
      BY DEF EntryOf, Rec, Parts
    <3>2. \A c \in 1..Arity(kind) : e[c] \in UNION {Domain(d) : d \in Children}
      BY <3>1, OfKind DEF Parts
    <3> QED
      BY <3>1, <3>2
  <2> QED
    BY <2>1, <1>1 DEF Entry
<1>5. \A i \in 1..Len(content) : \A j \in 1..Len(content[i]) : content[i][j] \in EntryOf(kind)
  BY DEF Shaped, RowsOK
<1> QED
  BY <1>2, <1>3, <1>4, <1>5 DEF Shaped, ShapeOK, TypeOK

\* No rows, no elements.
LEMMA EmptyShows ==
    ASSUME NEW k \in AnyKind, NEW ch, ch = [c \in Parts(k) |-> << >>]
    PROVE  /\ ch \in [Parts(k) -> Seq(Elem)] /\ ShapeOK(k, << >>, ch)
           /\ RowsOK(k, << >>) /\ Shows(k, << >>, ch, << >>)
<1>1. 1 \in Parts(k)
  BY DEF Parts, Arity
<1>2. \A T : << >> \in Seq(T) /\ Len(<< >>) = 0
  OBVIOUS
<1>3. \A c \in Parts(k) : ch[c] = << >>
  OBVIOUS
<1>4. LengthOf(k, << >>, ch) = 0 /\ EndOf(k, << >>, 0) = 0
  BY <1>1, <1>3 DEF LengthOf, EndOf
<1>5. Shows(k, << >>, ch, << >>)
  BY <1>2, <1>3, <1>4 DEF Shows
<1> QED
  BY <1>2, <1>3, <1>5 DEF ShapeOK, RowsOK

LEMMA InitShaped ==
    ASSUME Init
    PROVE  Shaped /\ Sound /\ ~damaged
<1>1. kind \in AnyKind /\ child = [c \in Parts(kind) |-> << >>]
  BY KindType DEF Init, Children, Parts
<1> QED
  BY <1>1, EmptyShows DEF Init, Shaped, Sound

\* Reset.
LEMMA ResetShaped ==
    ASSUME Shaped, Reset
    PROVE  Shaped' /\ Sound' /\ ~damaged'
<1>1. kind' = kind /\ form' = form /\ kind \in AnyKind
  BY KindType DEF Reset, Shaped
<1>2. child' = [c \in Parts(kind) |-> << >>]
  BY DEF Reset, Children, Parts
<1> QED
  BY <1>1, <1>2, EmptyShows DEF Reset, Shaped, Sound

\* EncodeColumn, and steps that change nothing.
LEMMA EncodeShaped ==
    ASSUME Shaped, EncodeColumn \/ UNCHANGED vars
    PROVE  Shaped' /\ (Sound => Sound') /\ UNCHANGED <<damaged, onto>>
<1>1. CASE EncodeColumn
  BY <1>1 DEF EncodeColumn, Shaped, Sound
<1>2. CASE UNCHANGED vars
  BY <1>2 DEF vars, Shaped, Sound
<1> QED
  BY <1>1, <1>2

\* What a caller appends is an entry of the column's kind.
LEMMA EntriesType ==
    ASSUME kind \in Kinds, NEW e \in Entries
    PROVE  e \in EntryOf(kind)
<1>1. kind \in AnyKind /\ Zero \in Vals
  BY KindType, CompositeAssumption
<1>2. CASE kind = "array"
  <2>1. PICK v \in Vals : e = <<v>>
    BY <1>2 DEF Entries
  <2>2. Parts(kind) = {1} /\ Parts(kind) = 1..1
    BY <1>2 DEF Parts, Arity
  <2>3. e \in [1..1 -> Vals] /\ e[1] = v
    BY <2>1
  <2>4. e \in Rec(kind)
    BY <2>2, <2>3 DEF Rec, Elem
  <2> QED
    BY <1>2, <2>2, <2>3, <2>4 DEF EntryOf, DomainOf
<1>3. CASE kind # "array"
  <2>1. PICK a \in Elem, b \in Elem :
           e = <<a, b>> /\ a \in DomainOf(kind, 1) /\ b \in DomainOf(kind, 2)
    <3>1. CASE kind = "nullable"
      <4>1. e \in {FALSE} \X Vals \/ e = <<TRUE, Zero>>
        BY <3>1 DEF Entries
      <4>2. PICK a \in BOOLEAN, b \in Vals : e = <<a, b>>
        <5>1. CASE e \in {FALSE} \X Vals
          <6>1. PICK S : S = {FALSE}
            OBVIOUS
          <6>2. e \in S \X Vals
            BY <5>1, <6>1, Zenon
          <6>3. PICK a \in S, b \in Vals : e = <<a, b>>
            BY ONLY <6>2
          <6>4. a \in BOOLEAN
            BY <6>1, Zenon
          <6> QED
            BY <6>3, <6>4, Zenon
        <5>2. CASE e = <<TRUE, Zero>>
          <6>1. TRUE \in BOOLEAN
            BY Zenon
          <6> QED
            BY <5>2, <6>1, <1>1, Zenon
        <5> QED
          BY <4>1, <5>1, <5>2
      <4> QED
        BY <4>2, <3>1 DEF Elem, DomainOf
    <3>2. CASE kind # "nullable"
      <4>1. e \in Vals \X Vals
        BY <3>2, <1>3 DEF Entries
      <4>2. PICK a \in Vals, b \in Vals : e = <<a, b>>
        BY <4>1
      <4> QED
        BY <4>2, <3>2 DEF Elem, DomainOf
    <3> QED
      BY <3>1, <3>2
  <2>2. Parts(kind) = {1, 2} /\ Parts(kind) = 1..2
    BY <1>3 DEF Parts, Arity
  <2>3. e \in [1..2 -> Elem] /\ e[1] = a /\ e[2] = b
    BY <2>1
  <2> QED
    BY <2>1, <2>2, <2>3 DEF EntryOf, Rec
<1> QED
  BY <1>2, <1>3

\* Append.
LEMMA AppendShaped ==
    ASSUME Shaped, AppendRow
    PROVE  Shaped' /\ (Sound => Sound') /\ UNCHANGED <<damaged, onto>>
<1>0. /\ kind' = kind /\ form' = form /\ UNCHANGED <<outcome, damaged, onto>> /\ sent' = NoBlock
      /\ kind \in Kinds /\ kind \in AnyKind /\ ShapeOK(kind, offsets, child)
      /\ RowsOK(kind, content) /\ MaxElems \in Nat
  BY KindType, CompositeAssumption DEF AppendRow, Shaped
<1>1. PICK row \in IF Flat THEN [1..1 -> Entries] ELSE SeqsUpTo(Entries, MaxElems) :
         /\ child' = [c \in Children |-> child[c] \o Field(row, c)]
         /\ offsets' = IF Flat THEN offsets ELSE Append(offsets, Len(child'[1]))
         /\ content' = Append(content, row)
  BY DEF AppendRow
<1>2. \A e \in Entries : e \in EntryOf(kind)
  BY <1>0, EntriesType
<1>3. row \in Seq(EntryOf(kind)) /\ (FlatOf(kind) => Len(row) = 1)
  <2>1. CASE FlatOf(kind)
    <3>1. row \in [1..1 -> EntryOf(kind)]
      BY <2>1, <1>1, <1>2, OfKind
    <3>2. \A m \in Nat : \A S : \A f \in [1..m -> S] : f \in Seq(S) /\ Len(f) = m
      OBVIOUS
    <3> QED
      BY <3>1, <3>2
  <2>2. CASE ~FlatOf(kind)
    <3>1. PICK j \in 0..MaxElems : row \in [1..j -> Entries]
      BY <2>2, <1>1, OfKind DEF SeqsUpTo
    <3>2. row \in [1..j -> EntryOf(kind)] /\ j \in Nat
      BY <3>1, <1>0, <1>2
    <3> QED
      BY <3>2, <2>2
  <2> QED
    BY <2>1, <2>2
<1>4. Longer(kind, offsets, child, row, offsets', child')
  BY <1>1, OfKind DEF Longer
<1>5. ShapeOK(kind, offsets', child')
  BY <1>0, <1>3, <1>4, AppendShape, Zenon
<1>6. child' \in [Parts(kind) -> Seq(Elem)]
  <2>1. \A c \in Parts(kind) : child'[c] \in Seq(Elem)
    BY <1>5 DEF ShapeOK, DomainOf, Elem
  <2> QED
    BY <2>1, <1>4 DEF Longer
<1>7. RowsOK(kind, content')
  BY <1>0, <1>1, <1>3, AppendProperties DEF RowsOK
<1>8. Sound => Sound'
  <2>1. Shows(kind, offsets, child, content) => Shows(kind, offsets', child', content')
    BY <1>0, <1>1, <1>3, <1>4, AppendShows, Zenon
  <2> QED
    BY <2>1, <1>0 DEF Sound
<1> QED
  BY <1>0, <1>5, <1>6, <1>7, <1>8 DEF Shaped

-----------------------------------------------------------------------------
(* DecodeColumn. *)

\* The elements of a block fit their columns.
LEMMA ElementsType ==
    ASSUME kind \in Kinds, NEW n \in Nat, NEW at, NEW elems \in Elements(n, at)
    PROVE  \A c \in Parts(kind) : elems[c] \in [1..n -> DomainOf(kind, c)]
<1> DEFINE Of(c) == IF c < at \/ (c = at /\ form[c] = "fixedstring")
                    THEN [1..n -> Domain(c)]
                    ELSE {[i \in 1..n |-> CHOOSE v \in Domain(c) : TRUE]}
<1>1. \A c : Domain(c) = DomainOf(kind, c) /\ \E v : v \in Domain(c)
  BY OfKind, CompositeAssumption DEF DomainOf
<1>2. \A c : \A s \in Of(c) : s \in [1..n -> DomainOf(kind, c)]
  BY <1>1
<1>3. kind \in AnyKind
  BY KindType
<1>4. CASE kind = "array"
  <2>1. PICK s \in Of(1) : elems = <<s>>
    BY <1>4 DEF Elements
  <2>2. elems[1] = s /\ s \in [1..n -> DomainOf(kind, 1)]
    BY <2>1, <1>2
  <2>3. \A c \in Parts(kind) : c = 1
    BY <1>4 DEF Parts, Arity
  <2> QED
    BY <2>2, <2>3, Zenon
<1>5. CASE kind # "array"
  <2>1. elems \in Of(1) \X Of(2)
    BY <1>5 DEF Elements
  <2>2. elems[1] \in Of(1) /\ elems[2] \in Of(2)
    BY <2>1
  <2>3. /\ elems[1] \in [1..n -> DomainOf(kind, 1)]
        /\ elems[2] \in [1..n -> DomainOf(kind, 2)]
    <3> HIDE DEF Of
    <3> QED
      BY <2>2, <1>2, Zenon
  <2>4. \A c \in Parts(kind) : c = 1 \/ c = 2
    BY <1>5 DEF Parts, Arity
  <2> QED
    BY <2>3, <2>4, Zenon
<1> QED
  BY <1>4, <1>5

LEMMA FormType ==
    ASSUME Shaped, NEW c \in Parts(kind)
    PROVE  form[c] \in {"fixed", "str", "fixedstring"}
BY KindType DEF Shaped, FormsOf, Parts, Arity, AnyKind

\* An inner column, whatever happened to it, holds values of its type.
LEMMA InnerType ==
    ASSUME Shaped, NEW c \in Parts(kind), NEW n \in Nat,
           NEW e \in [1..n -> DomainOf(kind, c)]
    PROVE  /\ child[c] \in Seq(DomainOf(kind, c))
           /\ DecodeInner(c, e) \in Seq(DomainOf(kind, c))
           /\ \A t \in Torn(c, e) : t \in Seq(DomainOf(kind, c))
<1>1. /\ child[c] \in Seq(DomainOf(kind, c)) /\ e \in Seq(DomainOf(kind, c)) /\ Len(e) = n
      /\ Domain(c) = DomainOf(kind, c)
  BY OfKind DEF Shaped, ShapeOK
<1>2. Len(child[c]) \in Nat
  BY <1>1
<1>3. DecodeInner(c, e) \in Seq(DomainOf(kind, c))
  BY <1>1 DEF DecodeInner
<1>4. ASSUME NEW t \in Torn(c, e)
      PROVE  t \in Seq(DomainOf(kind, c))
  <2>1. CASE form[c] = "fixed"
    <3>1. t \in [1..n -> DomainOf(kind, c)]
      BY <2>1, <1>1 DEF Torn
    <3> QED
      BY <3>1
  <2>2. CASE form[c] = "str"
    <3>1. t \in [1..Len(child[c]) -> DomainOf(kind, c)]
      BY <2>2, <1>1 DEF Torn
    <3> QED
      BY <3>1, <1>2
  <2>3. CASE form[c] = "fixedstring"
    <3>1. PICK j \in 0..Len(e) - 1 : t = child[c] \o SubSeq(e, 1, j)
      BY <2>3 DEF Torn
    <3>2. SubSeq(e, 1, j) \in Seq(DomainOf(kind, c))
      BY <1>1, <3>1
    <3> QED
      BY <3>1, <3>2, <1>1
  <2> QED
    BY <2>1, <2>2, <2>3, FormType
<1> QED
  BY <1>1, <1>3, <1>4

\* A decode leaves parts of the right types, whether the block was whole or not.
LEMMA DecodeParts ==
    ASSUME Shaped, kind' = kind, NEW n \in Nat, NEW at \in 0..Arity(kind) + 1,
           NEW offs \in Seq(Nat), NEW elems, DecodeColumn(offs, elems, at),
           \A c \in Parts(kind) : elems[c] \in [1..n -> DomainOf(kind, c)]
    PROVE  child' \in [Parts(kind) -> Seq(Elem)] /\ ShapeOK(kind, offsets', child')
<1>1. \A c \in Parts(kind) : \A t \in Seq(DomainOf(kind, c)) : t \in Seq(Elem)
  BY DEF DomainOf, Elem
<1>2. offsets' \in Seq(Nat)
  <2>1. CASE at = 0
    <3>1. PICK j \in 0..Len(offs) - 1 : offsets' = SubSeq(offs, 1, j)
      BY <2>1 DEF DecodeColumn
    <3>2. Len(offs) \in Nat /\ j \in 0..Len(offs)
      BY <3>1
    <3>3. \A l \in 1..j : offs[l] \in Nat
      BY <3>2
    <3> QED
      BY <3>1, <3>2, <3>3
  <2>2. CASE at # 0
    BY <2>2 DEF DecodeColumn
  <2> QED
    BY <2>1, <2>2
<1>3. CASE at = 0
  BY <1>2, <1>3 DEF DecodeColumn, Shaped, ShapeOK
<1>4. CASE at # 0
  <2>1. PICK torn \in IF at \in Children THEN Torn(at, elems[at]) ELSE {<< >>} :
           child' = [c \in Children |->
                       CASE c < at -> DecodeInner(c, elems[c])
                         [] c = at -> torn
                         [] c > at -> child[c]]
    BY <1>4 DEF DecodeColumn
  <2>2. ASSUME NEW c \in Parts(kind)
        PROVE  child'[c] \in Seq(DomainOf(kind, c))
    <3>1. /\ child[c] \in Seq(DomainOf(kind, c))
          /\ DecodeInner(c, elems[c]) \in Seq(DomainOf(kind, c))
          /\ \A t \in Torn(c, elems[c]) : t \in Seq(DomainOf(kind, c))
      BY InnerType
    <3>2. c \in Nat /\ at \in Nat
      BY KindType DEF Parts, Shaped
    <3>3. c \in Children
      BY OfKind
    <3>4. CASE c < at
      BY <2>1, <3>1, <3>2, <3>3, <3>4
    <3>5. CASE c = at
      <4>1. torn \in Torn(c, elems[c])
        BY <2>1, <3>3, <3>5
      <4> QED
        BY <4>1, <2>1, <3>1, <3>2, <3>3, <3>5
    <3>6. CASE c > at
      BY <2>1, <3>1, <3>2, <3>3, <3>6
    <3> QED
      BY <3>2, <3>4, <3>5, <3>6
  <2>3. child' \in [Parts(kind) -> Seq(Elem)]
    BY <1>1, <2>1, <2>2, OfKind
  <2> QED
    BY <1>2, <2>2, <2>3 DEF ShapeOK
<1> QED
  BY <1>3, <1>4

\* DecodeColumn: a block that is whole replaces what the parts held, if a
\* FixedString among them held nothing.
LEMMA DecodeShaped ==
    ASSUME Shaped, Decode
    PROVE  Shaped' /\ Sound'
<1>0. /\ kind' = kind /\ form' = form /\ sent' = NoBlock
      /\ kind \in Kinds /\ kind \in AnyKind /\ MaxElems \in Nat /\ MaxBlock \in Nat
      /\ Arity(kind) \in Nat
  BY KindType, CompositeAssumption DEF Decode, Shaped
<1>1. PICK m \in 1..MaxBlock :
      \E offs \in IF Flat THEN {<< >>} ELSE [1..m -> 0..MaxElems] :
      \E at \in 0..Arity(kind) + 1 : \E elems \in Elements(End(offs, m), at) :
         /\ Ordered(offs) \/ "order" \in Damage
         /\ DecodeColumn(offs, elems, at)
         /\ damaged' = (at <= Arity(kind) \/ ~Ordered(offs))
         /\ content' = IF damaged' THEN << >> ELSE [i \in 1..m |-> Row(offs, elems, i)]
  BY DEF Decode
<1>2. PICK offs \in IF Flat THEN {<< >>} ELSE [1..m -> 0..MaxElems] :
      \E at \in 0..Arity(kind) + 1 : \E elems \in Elements(End(offs, m), at) :
         /\ Ordered(offs) \/ "order" \in Damage
         /\ DecodeColumn(offs, elems, at)
         /\ damaged' = (at <= Arity(kind) \/ ~Ordered(offs))
         /\ content' = IF damaged' THEN << >> ELSE [i \in 1..m |-> Row(offs, elems, i)]
  BY <1>1
<1>a. PICK at \in 0..Arity(kind) + 1 : \E elems \in Elements(End(offs, m), at) :
         /\ Ordered(offs) \/ "order" \in Damage
         /\ DecodeColumn(offs, elems, at)
         /\ damaged' = (at <= Arity(kind) \/ ~Ordered(offs))
         /\ content' = IF damaged' THEN << >> ELSE [i \in 1..m |-> Row(offs, elems, i)]
  BY <1>2
<1>3. PICK elems \in Elements(End(offs, m), at) :
         /\ Ordered(offs) \/ "order" \in Damage
         /\ DecodeColumn(offs, elems, at)
         /\ damaged' = (at <= Arity(kind) \/ ~Ordered(offs))
         /\ content' = IF damaged' THEN << >> ELSE [i \in 1..m |-> Row(offs, elems, i)]
  BY <1>a
<1> DEFINE n == EndOf(kind, offs, m)
<1>4. /\ m \in Nat \ {0} /\ offs \in Seq(Nat) /\ n \in Nat
      /\ offs \in IF FlatOf(kind) THEN {<< >>} ELSE [1..m -> Nat]
  <2>1. CASE FlatOf(kind)
    BY <2>1, <1>0, <1>2, OfKind DEF EndOf
  <2>2. CASE ~FlatOf(kind)
    <3>1. offs \in [1..m -> Nat] /\ m \in Nat \ {0} /\ m \in 1..m
      BY <2>2, <1>0, <1>2, OfKind
    <3> QED
      BY <3>1, <2>2 DEF EndOf
  <2> QED
    BY <2>1, <2>2
<1>5. \A c \in Parts(kind) : elems[c] \in [1..n -> DomainOf(kind, c)]
  <2>1. elems \in Elements(n, at)
    BY <1>3, OfKind
  <2> QED
    BY <2>1, <1>0, <1>4, ElementsType
<1>6. child' \in [Parts(kind) -> Seq(Elem)] /\ ShapeOK(kind, offsets', child')
  BY <1>0, <1>3, <1>4, <1>5, DecodeParts
<1>7. /\ outcome' \in {"ok", "error", "panic"} /\ damaged' \in BOOLEAN
      /\ onto' = HoldsRows /\ onto' \in BOOLEAN
  BY <1>3 DEF DecodeColumn, HoldsRows, Decode
<1>9. ASSUME ~damaged'
      PROVE  RowsOK(kind, content') /\ Shows(kind, offs, elems, content')
  <2>1. Ordered(offs) /\ content' = [i \in 1..m |-> RowOf(kind, offs, elems, i)]
    BY <1>3, <1>9, OfKind
  <2> QED
    BY <2>1, <1>0, <1>4, <1>5, BlockShows
<1>10. RowsOK(kind, content')
  <2>1. damaged' => content' = << >>
    BY <1>3
  <2>2. RowsOK(kind, << >>)
    BY DEF RowsOK
  <2> QED
    BY <2>1, <2>2, <1>9
<1>11. ASSUME ~onto', ~damaged'
       PROVE  Shows(kind, offsets', child', content')
  <2>1. at = Arity(kind) + 1 /\ at # 0
    <3>1. ~(at <= Arity(kind))
      BY <1>3, <1>11, Zenon
    <3> QED
      BY <3>1, <1>0
  <2>2. /\ offsets' = offs
        /\ \A c \in Parts(kind) : child'[c] = DecodeInner(c, elems[c])
    <3>1. \A c \in Parts(kind) : c < at /\ c \in Children
      BY <2>1, <1>0, OfKind DEF Parts
    <3> QED
      BY <2>1, <1>3, <3>1 DEF DecodeColumn
  <2>3. ASSUME NEW c \in Parts(kind)
        PROVE  child'[c] = elems[c]
    <3>1. form[c] = "fixedstring" => child[c] = << >>
      BY <1>7, <1>11, OfKind DEF HoldsRows
    <3>2. elems[c] \in Seq(DomainOf(kind, c))
      BY <1>4, <1>5
    <3>3. << >> \o elems[c] = elems[c]
      BY <3>2
    <3> QED
      BY <2>2, <3>1, <3>3 DEF DecodeInner
  <2>4. 1 \in Parts(kind)
    BY <1>0, KindType
  <2>5. Shows(kind, offs, elems, content')
    BY <1>9, <1>11
  <2> QED
    BY <2>2, <2>3, <2>4, <2>5 DEF Shows, LengthOf
<1>12. Shaped'
  BY <1>0, <1>6, <1>7, <1>10 DEF Shaped
<1> QED
  BY <1>0, <1>11, <1>12 DEF Sound

\* DecodeColumn of a block with an offset that int() makes negative.
LEMMA DecodeWideShaped ==
    ASSUME Shaped, DecodeWide
    PROVE  Shaped' /\ Sound'
<1>1. /\ kind' = kind /\ form' = form /\ sent' = NoBlock /\ child' = child
      /\ content' = << >> /\ damaged' = TRUE /\ onto' \in BOOLEAN
      /\ kind \in AnyKind /\ ~FlatOf(kind) /\ MaxElems \in Nat /\ MaxBlock \in Nat
  BY KindType, OfKind, CompositeAssumption DEF DecodeWide, HoldsRows, Shaped
<1>2. outcome' \in {"ok", "error", "panic"}
  <2>1. form[1] \in {"fixed", "str", "fixedstring"}
    BY KindType, FormType DEF Shaped
  <2> QED
    BY <2>1 DEF DecodeWide, Negative
<1>3. offsets' \in Seq(Nat)
  <2>1. Wide \in Nat
    BY <1>1 DEF Wide
  <2>2. PICK rows \in 1..MaxBlock : offsets' \in [1..rows -> 0..MaxElems \cup {Wide}]
    BY DEF DecodeWide
  <2>3. offsets' \in [1..rows -> Nat] /\ rows \in Nat
    BY <2>1, <2>2, <1>1
  <2> QED
    BY <2>3
<1>4. ShapeOK(kind, offsets', child')
  BY <1>1, <1>3 DEF Shaped, ShapeOK
<1>5. RowsOK(kind, content')
  BY <1>1 DEF RowsOK
<1> QED
  BY <1>1, <1>2, <1>4, <1>5 DEF Shaped, Sound

-----------------------------------------------------------------------------
(* The theorems. *)

\* Every step keeps the parts well formed, and what they show right.
LEMMA StepShaped ==
    ASSUME Shaped, [Next]_vars
    PROVE  Shaped' /\ (Sound => Sound')
<1>1. CASE AppendRow
  BY <1>1, AppendShaped
<1>2. CASE Reset
  BY <1>2, ResetShaped
<1>3. CASE EncodeColumn \/ UNCHANGED vars
  BY <1>3, EncodeShaped
<1>4. CASE Decode
  BY <1>4, DecodeShaped
<1>5. CASE DecodeWide
  BY <1>5, DecodeWideShaped
<1> QED
  BY <1>1, <1>2, <1>3, <1>4, <1>5 DEF Next

LEMMA ShapedHolds == Spec => []Shaped
<1>1. Init => Shaped
  BY InitShaped
<1>2. Shaped /\ [Next]_vars => Shaped'
  BY StepShaped
<1> QED
  BY <1>1, <1>2, PTL DEF Spec

\* Appends, resets and decodes of blocks, whole or not, leave every column with
\* offsets that are numbers and parts that hold values of their own types.
THEOREM TypeCorrect == Spec => []TypeOK
<1>1. Shaped => TypeOK
  BY ShapedTypes
<1> QED
  BY <1>1, ShapedHolds, PTL

LEMMA SoundHolds == Spec => [](Shaped /\ Sound)
<1>1. Init => Shaped /\ Sound
  BY InitShaped
<1>2. Shaped /\ Sound /\ [Next]_vars => (Shaped /\ Sound)'
  BY StepShaped
<1> QED
  BY <1>1, <1>2, PTL DEF Spec

\* Len and Row show exactly the rows that were put in since the last Reset or
\* decode, whatever decodes failed before.  Blocks may be decoded one after the
\* other without a Reset; only while the last of them was decoded onto the rows of
\* a FixedString part nothing is promised.
THEOREM ViewIsContentHolds == Spec => []ViewIsContent
<1>1. Shaped /\ Sound => ViewIsContent
  <2> SUFFICES ASSUME Shaped, Sound, ~damaged, ~onto
               PROVE  Accessible(offsets, child) /\ Rows(offsets, child) = content
    BY DEF ViewIsContent
  <2>1. kind \in AnyKind
    BY KindType DEF Shaped
  <2>2. AccessibleOf(kind, offsets, child) /\ RowsOf(kind, offsets, child) = content
    BY <2>1, Readable DEF Shaped, Sound
  <2> QED
    BY <2>2, OfKind
<1> QED
  BY <1>1, SoundHolds, PTL

\* What EncodeColumn and WriteColumn write can be read back: the last offset is
\* the length of every part and the rows are the column's, under the same
\* condition.
THEOREM WrittenIsContentHolds == Spec => []WrittenIsContent
<1>1. Shaped /\ Sound => WrittenIsContent
  <2> SUFFICES ASSUME Shaped, Sound, sent # NoBlock, ~damaged, ~onto
               PROVE  /\ \A c \in Children : Len(child[c]) = End(offsets, Length(offsets, child))
                      /\ Accessible(offsets, child)
                      /\ Rows(offsets, child) = content
    BY DEF WrittenIsContent, Shaped
  <2>1. kind \in AnyKind
    BY KindType DEF Shaped
  <2>2. AccessibleOf(kind, offsets, child) /\ RowsOf(kind, offsets, child) = content
    BY <2>1, Readable DEF Shaped, Sound
  <2>3. \A c \in Parts(kind) : Len(child[c]) = EndOf(kind, offsets, LengthOf(kind, offsets, child))
    BY DEF Sound, Shows
  <2> QED
    BY <2>2, <2>3, OfKind
<1> QED
  BY <1>1, SoundHolds, PTL

=============================================================================
