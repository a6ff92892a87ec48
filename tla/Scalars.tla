------------------------------ MODULE Scalars ------------------------------
(***************************************************************************)
(* The columns that convert what a caller appends into what is stored, and *)
(* back: wide integers, decimals, dates and times, enums.                  *)
(*                                                                         *)
(* Sizes are scaled down: N8..N64 are the numbers of values of 8 to 64     *)
(* bits, Ten is the base of decimals and of time precisions, Digits the    *)
(* nine digits of a nanosecond and the digits of a decimal a caller has.   *)
(* A time is a number of nanoseconds, a decimal a number of its last       *)
(* digit; both may lie outside what the column can store.  Names of an     *)
(* enum are unique, and so are their values.                               *)
(***************************************************************************)
EXTENDS WideInts, FiniteSets, TLC

CONSTANTS
    Kinds,              \* the columns of this instance
    N8, N16, N32, N64,  \* values of so many bits
    Ten, Digits, DaySeconds,
    Reach, WideReach,   \* bounds: the numbers callers append
    MaxRows,            \* bound: rows of a column
    Names,              \* names in enum types
    Reinfer             \* Infer is also called on a column that holds rows

Wides == {"Int128", "Int256", "UInt128", "UInt256"}
Decimals == {"Decimal32", "Decimal64", "Decimal128", "Decimal256"}
Times == {"Date", "Date32", "DateTime", "DateTime64"}
Enums == {"Enum8", "Enum16"}

ASSUME ScalarsAssumption ==
    /\ Kinds \subseteq Wides \cup Decimals \cup Times \cup Enums
    /\ \A n \in {N8, N16, N32, N64} : n \in Nat \ {0} /\ n % 2 = 0
    /\ N8 < N16 /\ N16 < N32 /\ N32 < N64
    /\ Ten \in Nat \ {0, 1} /\ Digits \in Nat /\ DaySeconds \in Nat \ {0}
    /\ Reach \in Nat /\ WideReach \in Nat /\ MaxRows \in Nat \ {0}
    /\ "sent" \notin Names
    /\ Reinfer \in BOOLEAN

VARIABLES
    kind,     \* which column this is
    scale,    \* Scale of a decimal, Precision of a DateTime64
    enum,     \* of an enum: t, rawToStr, strToRaw; failed: so the latest Infer
    Data,     \* the stored values
    given     \* history: what each row was when it was appended or sent

vars == <<kind, scale, enum, Data, given>>

-----------------------------------------------------------------------------
(* Arithmetic of Go: division towards zero, conversions that wrap. *)

Quo(a, b) == IF a >= 0 THEN a \div b ELSE -((-a) \div b)
Wrap(n, m) == ((n + m \div 2) % m) - m \div 2

Second == Power(Ten, Digits)
\* Time.Unix rounds down.
Unix(t) == t \div Second
Scale(p) == Power(Ten, Digits - p)

-----------------------------------------------------------------------------
(* Append: what is stored. *)

DateAppend(t) == Quo(Unix(t), DaySeconds) % N16
Date32Append(t) == Wrap(Quo(Unix(t), DaySeconds), N32)
DateTimeAppend(t) == Unix(t) % N32
\* Fault: the fraction of the second is lost.
DateTime64OfUnix(t) == Quo(Wrap(Unix(t) * Second, N64), Scale(scale))
DateTime64Append(t) == Quo(Wrap(t, N64), Scale(scale))

\* v.Shift(Scale) without its fraction.
Shifted(v) == Quo(v * Power(Ten, scale), Power(Ten, Digits))
Decimal32Append(v) == Wrap(Wrap(Shifted(v), N64), N32)
Decimal64Append(v) == Wrap(Shifted(v), N64)
\* A panic when the value is out of range.
Decimal128Append(v) == Int128FromBigInt(Shifted(v))
Decimal256Append(v) == Int256FromBigInt(Shifted(v))

Store(k, v) ==
    CASE k = "Date" -> Good(DateAppend(v))
      [] k = "Date32" -> Good(Date32Append(v))
      [] k = "DateTime" -> Good(DateTimeAppend(v))
      [] k = "DateTime64" -> Good(DateTime64Append(v))
      [] k = "Decimal32" -> Good(Decimal32Append(v))
      [] k = "Decimal64" -> Good(Decimal64Append(v))
      [] k = "Decimal128" -> Decimal128Append(v)
      [] k = "Decimal256" -> Decimal256Append(v)
      [] k = "Int128" -> Int128FromBigInt(v)
      [] k = "Int256" -> Int256FromBigInt(v)
      [] k = "UInt128" -> UInt128FromBigInt(v)
      [] k = "UInt256" -> UInt256FromBigInt(v)

(* Row: what is read. *)

DateRow(raw) == raw * DaySeconds * Second
DateTimeRow(raw) == raw * Second
DateTime64Row(raw) == Wrap(raw * Scale(scale), N64)
DecimalRow(n) == n * Power(Ten, Digits - scale)

Row(k, raw) ==
    CASE k \in {"Date", "Date32"} -> DateRow(raw)
      [] k = "DateTime" -> DateTimeRow(raw)
      [] k = "DateTime64" -> DateTime64Row(raw)
      [] k \in {"Decimal32", "Decimal64"} -> DecimalRow(raw)
      [] k = "Decimal128" -> DecimalRow(Int128ToBigInt(raw))
      [] k = "Decimal256" -> DecimalRow(Int256ToBigInt(raw))
      [] k = "Int128" -> Int128ToBigInt(raw)
      [] k = "Int256" -> Int256ToBigInt(raw)
      [] k = "UInt128" -> UInt128ToBigInt(raw)
      [] k = "UInt256" -> UInt256ToBigInt(raw)

(* The wire holds the little-endian bytes of the stored value; a decode lays
   the struct over them.  n is the number the server means. *)

LE(n, size) == [i \in 1..size |-> (n \div Power(Radix, i - 1)) % Radix]

FromWire(k, n) ==
    CASE k \in {"Int128", "UInt128", "Decimal128"} -> ReadLE128(LE(n, 2 * WordBytes))
      [] k \in {"Int256", "UInt256", "Decimal256"} -> ReadLE256(LE(n, 4 * WordBytes))
      [] OTHER -> n

-----------------------------------------------------------------------------
(* What the columns can hold, independent of how they convert. *)

Span(k) ==
    CASE k = "Date" -> 0..N16 - 1
      [] k = "DateTime" -> 0..N32 - 1
      [] k \in {"Date32", "Decimal32"} -> -(N32 \div 2)..N32 \div 2 - 1
      [] k \in {"DateTime64", "Decimal64"} -> -(N64 \div 2)..N64 \div 2 - 1
      [] k \in {"Int128", "Decimal128"} -> -(Power(Word, 2) \div 2)..Power(Word, 2) \div 2 - 1
      [] k \in {"Int256", "Decimal256"} -> -(Power(Word, 4) \div 2)..Power(Word, 4) \div 2 - 1
      [] k = "UInt128" -> 0..Power(Word, 2) - 1
      [] k = "UInt256" -> 0..Power(Word, 4) - 1

\* The distance of two neighbouring values.
Unit(k) ==
    CASE k \in {"Date", "Date32"} -> DaySeconds * Second
      [] k = "DateTime" -> Second
      [] k \in Decimals \cup {"DateTime64"} -> Scale(scale)
      [] OTHER -> 1

Fits(k, v) ==
    /\ v \div Unit(k) \in Span(k)
    /\ k = "DateTime64" => v \in Span(k)

Inputs(k) == IF k \in Wides THEN -WideReach..WideReach ELSE -Reach..Reach

\* The numbers at which a word of a wide integer is at one of its edges.
Edges == {0, 1, Power(Word, 2) \div 2 - 1, Power(Word, 2) \div 2, Power(Word, 2) - 1}
Landmarks == {s * a * Power(Word, 2) + b : s \in {-1, 1}, a \in Edges, b \in Edges}

\* The first row may be any input; a second row of a 256-bit integer is a landmark.
NextInputs(k) ==
    IF k \in {"Int256", "UInt256"} /\ Data # << >> THEN Landmarks ELSE Inputs(k)

-----------------------------------------------------------------------------
(* Enums. *)

EnumRange(k) == IF k = "Enum8" THEN -(N8 \div 2)..N8 \div 2 - 1 ELSE -(N16 \div 2)..N16 \div 2 - 1
NoEnum == [t |-> << >>, rawToStr |-> << >>, strToRaw |-> << >>, failed |-> FALSE]

\* Types of two members, the values possibly out of range.
EnumTypes ==
    {<<[name |-> a, value |-> i], [name |-> b, value |-> j]>> :
        a \in Names, b \in Names, i \in -(N16 \div 2)..N16 \div 2, j \in {-1, 0, N8 \div 2}}
ProperTypes == {t \in EnumTypes : t[1].name # t[2].name /\ t[1].value # t[2].value}

\* Fault: the values are not checked.
AnyRange(k, t) == t

\* The members up to the first whose value is out of range.
InRangePrefix(k, t) ==
    IF t[1].value \notin EnumRange(k) THEN << >>
    ELSE IF t[2].value \notin EnumRange(k) THEN <<t[1]>> ELSE t

NamesOf(ps) == {ps[i].name : i \in DOMAIN ps}
ValuesOf(ps) == {ps[i].value : i \in DOMAIN ps}
NameOf(ps, v) == ps[CHOOSE i \in DOMAIN ps : ps[i].value = v].name
ValueOf(ps, s) == ps[CHOOSE i \in DOMAIN ps : ps[i].name = s].value

\* Fault: the maps are not emptied first.
EnumInferMerges(t) ==
    LET ps == InRangePrefix(kind, t)
        toStr == [v \in ValuesOf(ps) |-> NameOf(ps, v)]
        toRaw == [s \in NamesOf(ps) |-> ValueOf(ps, s)]
    IN
    /\ enum' = [t |-> IF ps = t THEN t ELSE enum.t,
                rawToStr |-> toStr @@ enum.rawToStr,
                strToRaw |-> toRaw @@ enum.strToRaw,
                failed |-> ps # t]
    /\ UNCHANGED <<kind, scale, Data, given>>

\* Infer replaces the maps member by member and the type at the end: an Infer
\* that fails leaves the old type with part of the new maps.
EnumInfer(t) ==
    LET ps == InRangePrefix(kind, t) IN
    /\ enum' = [t |-> IF ps = t THEN t ELSE enum.t,
                rawToStr |-> [v \in ValuesOf(ps) |-> NameOf(ps, v)],
                strToRaw |-> [s \in NamesOf(ps) |-> ValueOf(ps, s)],
                failed |-> ps # t]
    /\ UNCHANGED <<kind, scale, Data, given>>

\* The empty name stores 0, even if it is a member of another value; any other
\* unknown name panics.
EnumAppend(s) == IF s = "" THEN 0 ELSE enum.strToRaw[s]

\* A value without a name reads as its number.
EnumRow(raw) ==
    IF raw \in DOMAIN enum.rawToStr THEN [name |-> enum.rawToStr[raw], value |-> 0]
    ELSE [name |-> "itoa", value |-> raw]

-----------------------------------------------------------------------------
(* The column. *)

Init ==
    /\ kind \in Kinds
    /\ scale = 0 /\ enum = NoEnum
    /\ Data = << >> /\ given = << >>

\* Only an Infer that succeeds changes a decimal: a wrong base and parameters
\* that do not parse are errors, too large a precision panics.  The precision
\* itself shows only in Type.
DecimalInfer ==
    /\ kind \in Decimals
    /\ scale' \in 0..Digits
    /\ UNCHANGED <<kind, enum, Data, given>>

\* The precision is set before the location is looked up, which may fail.
DateTime64Infer ==
    /\ kind = "DateTime64"
    /\ scale' \in 0..Digits
    /\ UNCHANGED <<kind, enum, Data, given>>

Infer ==
    /\ Data = << >> \/ Reinfer
    /\ \/ DecimalInfer
       \/ DateTime64Infer
       \/ kind \in Enums /\ \E t \in ProperTypes : EnumInfer(t)

\* A value that is refused leaves the column as it is.  AppendArr appends one
\* after the other.
AppendNumber ==
    /\ kind \notin Enums /\ Len(Data) < MaxRows
    /\ \E v \in NextInputs(kind) :
          LET s == Store(kind, v) IN
          /\ ~s.err
          /\ Data' = Append(Data, s.v)
          /\ given' = Append(given, v)
    /\ UNCHANGED <<kind, scale, enum>>

AppendName ==
    /\ kind \in Enums /\ Len(Data) < MaxRows
    /\ \E s \in DOMAIN enum.strToRaw \cup {""} :
          /\ Data' = Append(Data, EnumAppend(s))
          /\ given' = Append(given, [name |-> s, value |-> 0])
    /\ UNCHANGED <<kind, scale, enum>>

\* A decode replaces the rows, however many there are; MaxRows bounds it too.
DecodeNumber ==
    /\ kind \notin Enums /\ Len(Data) < MaxRows
    /\ \E n \in Span(kind) :
          /\ Data' = <<FromWire(kind, n)>>
          /\ given' = <<n * Unit(kind)>>
    /\ UNCHANGED <<kind, scale, enum>>

DecodeEnum ==
    /\ kind \in Enums
    /\ \E n \in EnumRange(kind) :
          /\ Data' = <<n>>
          /\ given' = <<[name |-> "sent", value |-> n]>>
    /\ UNCHANGED <<kind, scale, enum>>

Reset ==
    /\ Data # << >>
    /\ Data' = << >> /\ given' = << >>
    /\ UNCHANGED <<kind, scale, enum>>

Next == Infer \/ AppendNumber \/ AppendName \/ DecodeNumber \/ DecodeEnum \/ Reset

Spec == Init /\ [][Next]_vars

-----------------------------------------------------------------------------
(* Properties. *)

\* The types of the variables; stored numbers stay within their width.
TypeOK ==
    /\ kind \in Kinds
    /\ scale \in 0..Digits
    /\ ValuesOf(enum.t) \subseteq EnumRange(kind)
    /\ Len(Data) = Len(given) /\ Len(Data) <= MaxRows
    /\ \A i \in DOMAIN Data :
          CASE kind \in Enums -> Data[i] \in EnumRange(kind)
            [] kind \in {"Int128", "UInt128", "Decimal128"} -> Data[i] \in Wide
            [] kind \in {"Int256", "UInt256", "Decimal256"} -> Data[i] \in Wider
            [] OTHER -> Data[i] \in Span(kind)

\* A row reads as it was appended or sent, to within the column's unit and
\* exactly where that is 1: the conversions there and back fit together for
\* every value the type can hold, at both ends of its range and around zero.
RowIsGiven ==
    kind \notin Enums =>
        \A i \in DOMAIN Data : Fits(kind, given[i]) =>
            Abs(Row(kind, Data[i]) - given[i]) < Unit(kind)

Cmp(k, v, x) ==
    CASE k = "Int128" -> Int128Cmp(v, x)
      [] k = "UInt128" -> UInt128Cmp(v, x)
      [] k = "UInt256" -> UInt256Cmp(v, x)
      [] k = "Int256" -> Int256Cmp(v, x)

\* Conversions keep the order of the values they can hold, and Cmp of the wide
\* integers is the order of the numbers (Int256.Cmp: see Int256Ordered).
OrderKept ==
    kind \notin Enums =>
        \A i, j \in DOMAIN Data : Fits(kind, given[i]) /\ Fits(kind, given[j]) =>
            /\ given[i] <= given[j] => Row(kind, Data[i]) <= Row(kind, Data[j])
            /\ kind \in Wides \ {"Int256"} => Cmp(kind, Data[i], Data[j]) = Sign(given[i] - given[j])

\* ...FromBigInt, and with it Append of Decimal128 and Decimal256, "returns
\* error if out of range", and only then.
OutOfRangeRefused ==
    kind \in Wides \cup {"Decimal128", "Decimal256"} /\ Data = << >> =>
        \A v \in Inputs(kind) :
            Store(kind, v).err <=>
                \A n \in Span(kind) : v <= (n - 1) * Unit(kind) \/ v >= (n + 1) * Unit(kind)

\* An enum row that was appended by name reads as that name, also after an
\* Infer that failed half way.  One that was sent reads as the reported type
\* says, unless the latest Infer failed.  The empty name is not promised: see
\* EnumAppend.
EnumReads ==
    kind \in Enums =>
        \A i \in DOMAIN Data :
            /\ given[i].name \in Names \ {""} => EnumRow(Data[i]) = given[i]
            /\ given[i].name = "sent" /\ ~enum.failed =>
                 EnumRow(Data[i]) = IF given[i].value \in ValuesOf(enum.t)
                                    THEN [name |-> NameOf(enum.t, given[i].value), value |-> 0]
                                    ELSE [name |-> "itoa", value |-> given[i].value]

\* "Cmp compares v and x, returning -1/0/1.": the order of the numbers.
Int256Ordered ==
    kind = "Int256" =>
        \A i, j \in DOMAIN Data : Cmp(kind, Data[i], Data[j]) = Sign(given[i] - given[j])

\* What a caller appends is stored or refused, never changed by more than the
\* unit of the column.
NothingWraps ==
    kind \notin Enums =>
        \A i \in DOMAIN Data : Abs(Row(kind, Data[i]) - given[i]) < Unit(kind)

\* "stored as days since epoch": the day a time lies in.
DayOfTime ==
    kind \in {"Date", "Date32"} =>
        \A i \in DOMAIN Data : Fits(kind, given[i]) =>
            Data[i] = given[i] \div Unit(kind)

=============================================================================
