----------------------------- MODULE Composite ------------------------------
(***************************************************************************)
(* The columns made of other columns: ArrayColumn and MapColumn (offsets   *)
(* beside one or two inner columns), TupleN and Nullable (inner columns    *)
(* side by side; the Nulls of a Nullable count as its first).  Nothing in  *)
(* them ties the parts together but the order of the calls: a decode that  *)
(* fails half way leaves parts of two blocks.                              *)
(*                                                                         *)
(* The inner columns are of three forms, by what their DecodeColumn does:  *)
(*   fixed        BaseColumn and the other fixed-width ones: the slice gets *)
(*                its new length, then the bytes are read over it          *)
(*   str          StrColumn: Data changes at the end, but its strings lie  *)
(*                in a buffer that is read over from the start             *)
(*   fixedstring  FixedStringColumn: the rows are appended                 *)
(* A tuple is modelled with two fields.                                    *)
(***************************************************************************)
EXTENDS Integers, Sequences

CONSTANTS
    Vals,      \* the values of an inner column
    Zero,      \* its zero value
    Kinds,     \* the columns there are
    MaxRows,   \* bound: rows appended to the column
    MaxBlock,  \* bound: rows of a block the server sends
    MaxElems,  \* bound: elements the caller puts in, elements of such a block
    Damage     \* what such a block may have wrong: "cut", "order", "wide"

ASSUME CompositeAssumption ==
    /\ Zero \in Vals
    /\ Kinds \subseteq {"array", "map", "tuple", "nullable"}
    /\ MaxRows \in Nat /\ MaxBlock \in Nat /\ MaxElems \in Nat
    /\ Damage \subseteq {"cut", "order", "wide"}

VARIABLES
    kind,     \* which column it is
    form,     \* the forms of its inner columns
    offsets,  \* Offsets; empty in a tuple and a nullable
    child,    \* the inner columns: Elem; Keys, Values; Field1, Field2; Nulls, Values
    outcome,  \* of the last DecodeColumn: "ok", "error" or "panic"
    sent,     \* the block encoded, until the column is touched again
    content,  \* history: the rows the caller or the server put in
    damaged,  \* history: the last block decoded was damaged
    onto      \* history: it was decoded onto rows of a fixedstring column

vars == <<kind, form, offsets, child, outcome, sent, content, damaged, onto>>

Arity(k) == IF k = "array" THEN 1 ELSE 2
Children == 1..Arity(kind)
\* One entry per row and no offsets.
Flat == kind \in {"tuple", "nullable"}

Domain(c) == IF kind = "nullable" /\ c = 1 THEN BOOLEAN ELSE Vals

\* Inner columns that Go accepts: Nulls is a slice of bools, and Map's Infer
\* makes no column of byte slices.
FormsOf(k) ==
    CASE k = "array" -> {<<f>> : f \in {"fixed", "str", "fixedstring"}}
      [] k = "map" -> {"fixed", "str"} \X {"fixed", "str"}
      [] k = "tuple" -> {"fixed", "str", "fixedstring"} \X {"fixed", "str", "fixedstring"}
      [] k = "nullable" -> {"fixed"} \X {"fixed", "str", "fixedstring"}

\* The elements of a row: a value, a key with its value, the fields, or a null
\* flag with a value.
Entry(e) == e \in Seq(UNION {Domain(c) : c \in Children}) /\ Len(e) = Arity(kind)

NoBlock == [offsets |-> << >>, child |-> << >>]

\* The types of the fields; each inner column holds values of its own type.
TypeOK ==
    /\ kind \in Kinds /\ form \in FormsOf(kind)
    /\ offsets \in Seq(Nat)
    /\ Len(child) = Arity(kind) /\ \A c \in Children : child[c] \in Seq(Domain(c))
    /\ outcome \in {"ok", "error", "panic"} /\ damaged \in BOOLEAN /\ onto \in BOOLEAN
    /\ \A i \in 1..Len(content) : \A j \in 1..Len(content[i]) : Entry(content[i][j])

\* NewArrayColumn, NewMapColumn with Infer, NewTuple2, NewNullable.
Init ==
    /\ kind \in Kinds
    /\ form \in FormsOf(kind)
    /\ offsets = << >>
    /\ child = [c \in Children |-> << >>]
    /\ outcome = "ok" /\ damaged = FALSE /\ onto = FALSE
    /\ sent = NoBlock
    /\ content = << >>

-----------------------------------------------------------------------------
(* Len and Row, of offsets o and inner columns ch. *)

\* Row i ends at this element.
End(o, i) == CASE Flat -> i [] i = 0 /\ ~Flat -> 0 [] OTHER -> o[i]

Length(o, ch) == IF Flat THEN Len(ch[1]) ELSE Len(o)

\* Row slices and indexes the inner columns by the offsets, and looks at neither.
Accessible(o, ch) ==
    \A i \in 1..Length(o, ch) :
        End(o, i - 1) <= End(o, i) /\ \A c \in Children : End(o, i) <= Len(ch[c])

Row(o, ch, i) ==
    [j \in 1..End(o, i) - End(o, i - 1) |-> [c \in Children |-> ch[c][End(o, i - 1) + j]]]

Rows(o, ch) == [i \in 1..Length(o, ch) |-> Row(o, ch, i)]

-----------------------------------------------------------------------------
(* Append and Reset. *)

\* What a row adds to inner column c.
Field(row, c) == [j \in 1..Len(row) |-> row[j][c]]

SeqsUpTo(S, k) == UNION {[1..j -> S] : j \in 0..k}

\* Fault: flag and value of a null are the wrong way round.
EntriesSwapped ==
    CASE kind = "array" -> {<<v>> : v \in Vals}
      [] kind = "nullable" -> ({FALSE} \X Vals) \cup {<<Zero, TRUE>>}
      [] OTHER -> Vals \X Vals

\* What a caller may append as one entry; a null comes with the zero value.
Entries ==
    CASE kind = "array" -> {<<v>> : v \in Vals}
      [] kind = "nullable" -> ({FALSE} \X Vals) \cup {<<TRUE, Zero>>}
      [] OTHER -> Vals \X Vals

\* Append; to a flat column a row is one entry.
AppendRow ==
    /\ Len(content) < MaxRows /\ Length(offsets, child) < MaxRows
    /\ \E row \in IF Flat THEN [1..1 -> Entries] ELSE SeqsUpTo(Entries, MaxElems) :
          /\ \A c \in Children : Len(child[c]) + Len(row) <= MaxElems
          /\ child' = [c \in Children |-> child[c] \o Field(row, c)]
          /\ offsets' = IF Flat THEN offsets ELSE Append(offsets, Len(child'[1]))
          /\ content' = Append(content, row)
    /\ sent' = NoBlock
    /\ UNCHANGED <<kind, form, outcome, damaged, onto>>

\* Fault: the inner columns are not reset.
ResetOffsets ==
    /\ offsets' = << >>
    /\ child' = IF Flat THEN [c \in Children |-> << >>] ELSE child
    /\ content' = << >>
    /\ damaged' = FALSE /\ onto' = FALSE
    /\ sent' = NoBlock
    /\ UNCHANGED <<kind, form, outcome>>

\* Reset; of a tuple or a nullable the caller resets every part.
Reset ==
    /\ offsets' = << >>
    /\ child' = [c \in Children |-> << >>]
    /\ content' = << >>
    /\ damaged' = FALSE /\ onto' = FALSE
    /\ sent' = NoBlock
    /\ UNCHANGED <<kind, form, outcome>>

-----------------------------------------------------------------------------
(* EncodeColumn, WriteColumn. *)

\* Fault: the length of every row is written in place of its end.
EncodeLengths ==
    /\ Accessible(offsets, child)
    /\ sent' = [offsets |-> [i \in 1..Len(offsets) |-> End(offsets, i) - End(offsets, i - 1)],
                child |-> child]
    /\ UNCHANGED <<kind, form, offsets, child, outcome, content, damaged, onto>>

EncodeColumn ==
    /\ sent' = [offsets |-> offsets, child |-> child]
    /\ UNCHANGED <<kind, form, offsets, child, outcome, content, damaged, onto>>

-----------------------------------------------------------------------------
(* DecodeColumn of a block with at least one row. *)

\* The inner column after it has read the elements e.
DecodeInner(c, e) == IF form[c] = "fixedstring" THEN child[c] \o e ELSE e

\* What may be left of it when the block ends within the elements e.  Of a fixed
\* one, which has its new length by then, only some were read, the last perhaps
\* in part, and the backing array held anything; the strings of a str one may
\* have been read over.
Torn(c, e) ==
    CASE form[c] = "fixed" -> [1..Len(e) -> Domain(c)]
      [] form[c] = "str" -> [1..Len(child[c]) -> Domain(c)]
      [] form[c] = "fixedstring" -> {child[c] \o SubSeq(e, 1, k) : k \in 0..Len(e) - 1}

\* The block ends before it should: in the offsets, or in inner column at.
BreaksOff(at) == at <= Arity(kind)

\* The parts are decoded in order, up to the one where the block ends.
DecodeColumn(offs, elems, at) ==
    /\ IF at = 0
       THEN /\ \E k \in 0..Len(offs) - 1 : offsets' = SubSeq(offs, 1, k)
            /\ UNCHANGED child
       ELSE /\ offsets' = offs
            /\ \E torn \in IF at \in Children THEN Torn(at, elems[at]) ELSE {<< >>} :
                  child' = [c \in Children |->
                              CASE c < at -> DecodeInner(c, elems[c])
                                [] c = at -> torn
                                [] c > at -> child[c]]
    /\ outcome' = IF BreaksOff(at) THEN "error" ELSE "ok"

\* The n elements of each inner column; those that are not read do not matter.
Elements(n, at) ==
    LET Read(c) == c < at \/ (c = at /\ form[c] = "fixedstring")
        Of(c) == IF Read(c) THEN [1..n -> Domain(c)]
                            ELSE {[i \in 1..n |-> CHOOSE v \in Domain(c) : TRUE]}
    IN  IF kind = "array" THEN {<<s>> : s \in Of(1)} ELSE Of(1) \X Of(2)

Ordered(offs) == \A i \in 2..Len(offs) : offs[i - 1] <= offs[i]

\* A fixedstring column keeps the rows it holds when a block is decoded.
HoldsRows == \E c \in Children : form[c] = "fixedstring" /\ child[c] # << >>

\* at says where the block ends; behind the last inner column it is whole.  Only
\* parts that have something to read can end early.  (Bound: one block is decoded
\* onto at most MaxElems elements.)
Decode ==
    /\ \A c \in Children : form[c] = "fixedstring" => Len(child[c]) <= MaxElems
    /\ \E rows \in 1..MaxBlock :
       \E offs \in IF Flat THEN {<< >>} ELSE [1..rows -> 0..MaxElems] :
          LET n == End(offs, rows) IN
          \E at \in 0..Arity(kind) + 1 : \E elems \in Elements(n, at) :
             /\ Ordered(offs) \/ "order" \in Damage
             /\ at <= Arity(kind) => "cut" \in Damage
             /\ at = 0 => ~Flat
             /\ at \in Children => n > 0
             /\ DecodeColumn(offs, elems, at)
             /\ damaged' = (at <= Arity(kind) \/ ~Ordered(offs))
             /\ content' = IF damaged' THEN << >>
                           ELSE [i \in 1..rows |-> Row(offs, elems, i)]
    /\ onto' = HoldsRows
    /\ sent' = NoBlock
    /\ UNCHANGED <<kind, form>>

\* An offset that int() makes negative, 2^63 or more; above every length there is.
Wide == 2 * MaxElems + 1

\* What the first inner column makes of a negative number of elements: the product
\* of the sizes is refused or, in a column of dates or UUIDs, make panics; str
\* indexes its positions with it; the loop of fixedstring reads nothing.
Negative ==
    CASE form[1] = "fixed" -> {"error", "panic"}
      [] form[1] = "str" -> {"panic"}
      [] form[1] = "fixedstring" -> {"ok"}

\* DecodeColumn of a block whose last offset int() makes negative.
DecodeWide ==
    /\ "wide" \in Damage /\ ~Flat
    /\ \E rows \in 1..MaxBlock : \E offs \in [1..rows -> 0..MaxElems \cup {Wide}] :
          offs[rows] = Wide /\ offsets' = offs
    /\ outcome' \in Negative
    /\ damaged' = TRUE /\ onto' = HoldsRows
    /\ content' = << >>
    /\ sent' = NoBlock
    /\ UNCHANGED <<kind, form, child>>

Next == AppendRow \/ Reset \/ EncodeColumn \/ Decode \/ DecodeWide

Spec == Init /\ [][Next]_vars

-----------------------------------------------------------------------------
(* Properties. *)

\* Len and Row show the rows that were put in since the last Reset or decode,
\* whatever a failed decode had left in the parts before.  (A block decoded onto
\* rows of a fixedstring column is left to BlockIsShown.)
ViewIsContent ==
    ~damaged /\ ~onto => Accessible(offsets, child) /\ Rows(offsets, child) = content

\* The block that EncodeColumn or WriteColumn writes can be read back: the last
\* offset is the number of elements of every inner column, so that the reader
\* finds the next column where it should, and the rows are the column's.
WrittenIsContent ==
    sent # NoBlock /\ ~damaged /\ ~onto =>
        /\ \A c \in Children : Len(sent.child[c]) = End(sent.offsets, Length(sent.offsets, sent.child))
        /\ Accessible(sent.offsets, sent.child)
        /\ Rows(sent.offsets, sent.child) = content

\* A block that was decoded whole can be read from the column, alone or behind the
\* rows the column had.
BlockIsShown ==
    ~damaged =>
        LET more == Length(offsets, child) - Len(content) IN
        /\ Accessible(offsets, child) /\ more >= 0
        /\ \A i \in 1..Len(content) : Row(offsets, child, more + i) = content[i]

\* No block of the server, whole or not, makes the columns panic: DecodeColumn
\* returns, and if it returns without an error so do Len and Row.
NoPanic == outcome # "panic" /\ (outcome = "ok" => Accessible(offsets, child))

=============================================================================
