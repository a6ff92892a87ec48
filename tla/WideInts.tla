------------------------------ MODULE WideInts ------------------------------
(***************************************************************************)
(* Int128, Int256, UInt128 and UInt256 of column/: two's complement words, *)
(* their comparison, and the way to and from big.Int, which goes through   *)
(* bytes.  Radix stands for the 256 values of a byte and WordBytes for the *)
(* 8 bytes of a uint64.  A 256-bit value has two 128-bit halves.           *)
(***************************************************************************)
EXTENDS Integers, Sequences, SequencesExt

CONSTANTS Radix, WordBytes

ASSUME WideAssumption ==
    /\ Radix \in Nat \ {0} /\ Radix % 2 = 0
    /\ WordBytes \in Nat \ {0}

\* b to the power of n.
Power(b, n) == LET p[k \in 0..n] == IF k = 0 THEN 1 ELSE b * p[k - 1] IN p[n]

Word == Power(Radix, WordBytes)
Words == 0..Word - 1
Wide == [Lo : Words, Hi : Words]
Wider == [Lo : Wide, Hi : Wide]

\* w & 0x8000000000000000 != 0
TopBit(w) == w >= Word \div 2
\* ^w, and ++ with its wrap
Not(w) == Word - 1 - w
Inc(w) == (w + 1) % Word

neg128(v) ==
    LET lo == Inc(Not(v.Lo))
    IN  [Lo |-> lo, Hi |-> IF lo = 0 THEN Inc(Not(v.Hi)) ELSE Not(v.Hi)]

\* neg256 carries from word to word, while they become 0.
neg256(v) ==
    LET l0 == Inc(Not(v.Lo.Lo))
        l1 == IF l0 = 0 THEN Inc(Not(v.Lo.Hi)) ELSE Not(v.Lo.Hi)
        h0 == IF l0 = 0 /\ l1 = 0 THEN Inc(Not(v.Hi.Lo)) ELSE Not(v.Hi.Lo)
        h1 == IF l0 = 0 /\ l1 = 0 /\ h0 = 0 THEN Inc(Not(v.Hi.Hi)) ELSE Not(v.Hi.Hi)
    IN  [Lo |-> [Lo |-> l0, Hi |-> l1], Hi |-> [Lo |-> h0, Hi |-> h1]]

-----------------------------------------------------------------------------
(* Cmp: -1, 0 or 1. *)

Sign(n) == IF n < 0 THEN -1 ELSE IF n > 0 THEN 1 ELSE 0

UInt128Cmp(v, x) == IF v.Hi # x.Hi THEN Sign(v.Hi - x.Hi) ELSE Sign(v.Lo - x.Lo)

\* Fault: the signs are not looked at.
Int128CmpUnsigned(v, x) == UInt128Cmp(v, x)

Int128Cmp(v, x) ==
    IF TopBit(v.Hi) # TopBit(x.Hi)
    THEN IF TopBit(v.Hi) THEN -1 ELSE 1
    ELSE UInt128Cmp(v, x)

UInt256Cmp(v, x) ==
    IF UInt128Cmp(v.Hi, x.Hi) # 0 THEN UInt128Cmp(v.Hi, x.Hi) ELSE UInt128Cmp(v.Lo, x.Lo)

\* The lower halves are compared as signed numbers too.
Int256Cmp(v, x) ==
    IF TopBit(v.Hi.Hi) # TopBit(x.Hi.Hi)
    THEN IF TopBit(v.Hi.Hi) THEN -1 ELSE 1
    ELSE IF Int128Cmp(v.Hi, x.Hi) # 0 THEN Int128Cmp(v.Hi, x.Hi) ELSE Int128Cmp(v.Lo, x.Lo)

-----------------------------------------------------------------------------
(* Bytes. *)

\* byte(w), byte(w >> 8), ...
PutLE64(w) == [i \in 1..WordBytes |-> (w \div Power(Radix, i - 1)) % Radix]
readLE64(buf) ==
    LET x[k \in 0..WordBytes] == IF k = 0 THEN 0 ELSE x[k - 1] + buf[k] * Power(Radix, k - 1)
    IN  x[WordBytes]

putLE128(v) == PutLE64(v.Lo) \o PutLE64(v.Hi)
PutLE256(v) == putLE128(v.Lo) \o putLE128(v.Hi)

ReadLE128(buf) ==
    [Lo |-> readLE64(SubSeq(buf, 1, WordBytes)),
     Hi |-> readLE64(SubSeq(buf, WordBytes + 1, 2 * WordBytes))]
ReadLE256(buf) ==
    [Lo |-> ReadLE128(SubSeq(buf, 1, 2 * WordBytes)),
     Hi |-> ReadLE128(SubSeq(buf, 2 * WordBytes + 1, 4 * WordBytes))]

\* big.Int: SetBytes reads big-endian bytes, Bytes writes as few as it can.
SetBytes(be) ==
    LET x[k \in 0..Len(be)] == IF k = 0 THEN 0 ELSE x[k - 1] * Radix + be[k]
    IN  x[Len(be)]
ByteLen(n) == CHOOSE k \in 0..n : Power(Radix, k) > n /\ (k = 0 \/ Power(Radix, k - 1) <= n)
BigBytes(n) == [i \in 1..ByteLen(n) |-> (n \div Power(Radix, ByteLen(n) - i)) % Radix]

-----------------------------------------------------------------------------
(* To and from big.Int.  A conversion that fails is [err |-> TRUE]. *)

Signed(bi, top, size) == IF top THEN bi - Power(Radix, size) ELSE bi

Int128ToBigInt(v) == Signed(SetBytes(Reverse(putLE128(v))), TopBit(v.Hi), 2 * WordBytes)
Int256ToBigInt(v) == Signed(SetBytes(Reverse(PutLE256(v))), TopBit(v.Hi.Hi), 4 * WordBytes)
UInt128ToBigInt(v) == SetBytes(Reverse(putLE128(v)))
UInt256ToBigInt(v) == SetBytes(Reverse(PutLE256(v)))

Zero128 == [Lo |-> 0, Hi |-> 0]
Zero256 == [Lo |-> Zero128, Hi |-> Zero128]
Good(v) == [err |-> FALSE, v |-> v]
Bad(zero) == [err |-> TRUE, v |-> zero]

Abs(n) == IF n < 0 THEN -n ELSE n

\* The magnitude, padded to size bytes and turned little-endian.
Magnitude(n, size) ==
    LET b == BigBytes(Abs(n))
    IN  Reverse([i \in 1..size - Len(b) |-> 0] \o b)

\* Fault: the top bit of a negative result is not looked at.
Int128FromUnchecked(n) ==
    LET m == ReadLE128(Magnitude(n, 2 * WordBytes))
    IN  IF ByteLen(Abs(n)) > 2 * WordBytes \/ (n >= 0 /\ TopBit(m.Hi)) THEN Bad(Zero128)
        ELSE Good(IF n < 0 THEN neg128(m) ELSE m)

\* The sign bit must come out as the sign.
Int128FromBigInt(n) ==
    LET m == ReadLE128(Magnitude(n, 2 * WordBytes))
        v == IF n < 0 THEN neg128(m) ELSE m
    IN  IF ByteLen(Abs(n)) > 2 * WordBytes \/ TopBit(v.Hi) # (n < 0) THEN Bad(Zero128)
        ELSE Good(v)

Int256FromBigInt(n) ==
    LET m == ReadLE256(Magnitude(n, 4 * WordBytes))
        v == IF n < 0 THEN neg256(m) ELSE m
    IN  IF ByteLen(Abs(n)) > 4 * WordBytes \/ TopBit(v.Hi.Hi) # (n < 0) THEN Bad(Zero256)
        ELSE Good(v)

UInt128FromBigInt(n) ==
    IF n < 0 \/ ByteLen(Abs(n)) > 2 * WordBytes THEN Bad(Zero128)
    ELSE Good(ReadLE128(Magnitude(n, 2 * WordBytes)))

UInt256FromBigInt(n) ==
    IF n < 0 \/ ByteLen(Abs(n)) > 4 * WordBytes THEN Bad(Zero256)
    ELSE Good(ReadLE256(Magnitude(n, 4 * WordBytes)))

=============================================================================
