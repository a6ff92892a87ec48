--------------------------- MODULE LowCardinality ---------------------------
(***************************************************************************)
(* column.LowCardinality: a column that keeps the dictionary and the key   *)
(* bytes of the last decoded block beside the inner column Values, and     *)
(* expands them into Values only when it is encoded.                       *)
(*                                                                         *)
(* Key indices are kept as the bytes of the wire, little endian, in 1, 2,  *)
(* 4 or 8 bytes; Radix stands for 256, so that small dictionaries reach    *)
(* the thresholds between the widths.  The inner column is abstract: it    *)
(* is the sequence of its values.  The dictionary is written and read by a *)
(* switch over the Go type T, which is one of                              *)
(*   listed   a type with a case: strings, numbers up to 64 bits           *)
(*   uint8    whose case takes the address of the first value it reads     *)
(*   other    any other comparable type: nothing is written or read        *)
(***************************************************************************)
EXTENDS Naturals, Sequences, FiniteSets

CONSTANTS
    Vals,      \* the values of the inner column
    Zero,      \* its zero value
    NaNs,      \* those that differ from themselves: the NaN of a float
    Types,     \* the types T there are
    Radix,     \* values of a byte
    MaxRows,   \* bound: rows appended to the column
    MaxDict,   \* bound: dictionary of a block the server sends
    MaxKeys,   \* bound: rows of such a block
    MaxUnread, \* bound: width of keys that are read from other bytes
    Damage,    \* what such a block may have wrong, see ServerBlock
    Mixed      \* callers append to a column that holds decoded rows

ASSUME LowCardinalityAssumption ==
    /\ Zero \in Vals /\ NaNs \subseteq Vals
    /\ Types \subseteq {"listed", "uint8", "other"}
    /\ Radix \in Nat \ {0, 1}
    /\ MaxRows \in Nat /\ MaxDict \in Nat /\ MaxKeys \in Nat /\ MaxUnread \in Nat
    /\ Damage \subseteq {"meta", "dict", "keys", "index", "width"}
    /\ Mixed \in BOOLEAN

VARIABLES
    type,      \* T
    values,    \* Values.Data
    dict,      \* dict
    keys,      \* keys, a sequence of bytes
    keyWidth,  \* keyWidth, 0 before the first decode
    expanded,  \* expanded
    err,       \* the last DecodeColumn returned an error
    panic,     \* an operation has panicked
    sent,      \* the block encoded, until the column is touched again
    content,   \* history: the rows the callers and the server put in
    damaged    \* history: the last block decoded was damaged

store == <<values, dict, keys, keyWidth, expanded>>
history == <<content, damaged>>
vars == <<type, store, err, panic, sent, history>>

Byte == 0..Radix - 1
KeyTypes == 0..3

\* end: where the block breaks off or is found wrong.  kt: the key type; 4 is
\* none that exists.
Wire(V) == [end : {"none", "meta", "dict", "keys"}, kt : KeyTypes \cup {4},
            dict : Seq(V), keys : Seq(Nat)]
NoBlock == [end |-> "none", kt |-> 0, dict |-> << >>, keys |-> << >>]

\* The types of the fields; the key bytes are a whole number of keys.
TypeOK ==
    /\ type \in Types
    /\ values \in Seq(Vals) /\ dict \in Seq(Vals) /\ keys \in Seq(Byte)
    /\ keyWidth \in {0, 1, 2, 4, 8}
    /\ IF keyWidth = 0 THEN keys = << >> ELSE Len(keys) % keyWidth = 0
    /\ expanded \in BOOLEAN /\ err \in BOOLEAN /\ panic \in BOOLEAN /\ damaged \in BOOLEAN
    /\ sent \in Wire(Vals)
    /\ content \in Seq(Vals)

\* NewLowCardinality around an empty column.
Init ==
    /\ type \in Types
    /\ values = << >> /\ dict = << >> /\ keys = << >>
    /\ keyWidth = 0
    /\ expanded = FALSE
    /\ err = FALSE /\ panic = FALSE /\ damaged = FALSE
    /\ sent = NoBlock
    /\ content = << >>

-----------------------------------------------------------------------------
(* Keys as bytes. *)

Width(kt) == <<1, 2, 4, 8>>[kt + 1]

\* What a byte stands for by its place: the powers of Radix.
Place[j \in 0..8] == IF j = 0 THEN 1 ELSE Radix * Place[j - 1]

\* The bytes of the keys ks, w of them for each key.
PutKeys(ks, w) ==
    [i \in 1..Len(ks) * w |-> (ks[((i - 1) \div w) + 1] \div Place[(i - 1) % w]) % Radix]

\* key(i), i from 1, of the key bytes bs of width w.
key(bs, w, i) ==
    LET b(j) == bs[(i - 1) * w + j] * Place[j - 1]
    IN  CASE w = 1 -> b(1)
          [] w = 2 -> b(1) + b(2)
          [] w = 4 -> b(1) + b(2) + b(3) + b(4)
          [] w = 8 -> b(1) + b(2) + b(3) + b(4) + b(5) + b(6) + b(7) + b(8)
          [] OTHER -> 0

\* Fault: the check of a key is off by one.
InRangeOrNext(d, bs, w) == \A i \in 1..Len(bs) \div w : key(bs, w, i) <= Len(d)

\* The validation of the keys against a dictionary d.
InRange(d, bs, w) == \A i \in 1..Len(bs) \div w : key(bs, w, i) < Len(d)

\* The rows that a dictionary and key bytes stand for.
Resolve(d, bs, w) == [i \in 1..Len(bs) \div w |-> d[key(bs, w, i) + 1]]

-----------------------------------------------------------------------------
(* Len, Row and ensureExpanded. *)

\* The column is read from Values, not through the dictionary.
Plain == expanded \/ dict = << >>

\* Len divides by keyWidth, Row indexes dict: neither looks first.
Accessible == Plain \/ (keyWidth # 0 /\ InRange(dict, keys, keyWidth))

Rows == IF Plain THEN values ELSE Resolve(dict, keys, keyWidth)

\* Fault: Values is not reset before it is filled.
expandOnto ==
    /\ values' = IF Plain THEN values ELSE values \o Rows
    /\ expanded' = (expanded \/ dict # << >>)

ensureExpanded == values' = Rows /\ expanded' = (expanded \/ dict # << >>)

-----------------------------------------------------------------------------
(* EncodeColumn. *)

\* dictMap: the distinct values in the order of their first occurrence; a NaN is a
\* new key every time.
Ordered(vs) ==
    LET firsts == {i \in 1..Len(vs) : vs[i] \in NaNs \/ \A j \in 1..i - 1 : vs[j] # vs[i]}
        n == Cardinality(firsts)
        at == CHOOSE f \in [1..n -> firsts] : \A i, j \in 1..n : i < j => f[i] < f[j]
    IN  [k \in 1..n |-> vs[at[k]]]

\* Fault: the first threshold is off by one.
KeyTypeForNext(dictSize) ==
    CASE dictSize <= Radix + 1 -> 0
      [] dictSize > Radix + 1 /\ dictSize <= Place[2] -> 1
      [] dictSize > Place[2] /\ dictSize <= Place[4] - 1 -> 2
      [] OTHER -> 3

KeyTypeFor(dictSize) ==
    CASE dictSize <= Radix -> 0
      [] dictSize > Radix /\ dictSize <= Place[2] -> 1
      [] dictSize > Place[2] /\ dictSize <= Place[4] - 1 -> 2
      [] OTHER -> 3

\* The key as it is written: truncated to its width.  The map does not find a NaN,
\* which yields 0.
EncodedKeys(vs, d, w) ==
    [i \in 1..Len(vs) |-> IF vs[i] \in NaNs THEN 0
                           ELSE ((CHOOSE k \in 1..Len(d) : d[k] = vs[i]) - 1) % Place[w]]

\* encodeDictKeys: the values that are written of a dictionary.
encodeDictKeys(d) == IF type = "other" THEN << >> ELSE d

BlockOf(vs) ==
    LET d == Ordered(vs)
        kt == KeyTypeFor(Len(d))
    IN  [end |-> "none", kt |-> kt, dict |-> encodeDictKeys(d),
         keys |-> EncodedKeys(vs, d, Width(kt))]

\* An empty column writes nothing.
EncodeColumn ==
    /\ ~panic
    /\ \/ /\ ~Accessible
          /\ panic' = TRUE
          /\ UNCHANGED <<values, expanded, sent>>
       \/ /\ Accessible
          /\ ensureExpanded
          /\ sent' = BlockOf(Rows)
          /\ UNCHANGED panic
    /\ UNCHANGED <<type, dict, keys, keyWidth, err, content, damaged>>

-----------------------------------------------------------------------------
(* DecodeColumn of a block of at least one row; none leaves the column. *)

\* Fault: the keys are added to those of the block before.
appendKeyIndices(w) == IF w.kt = 4 THEN keys ELSE keys \o PutKeys(w.keys, Width(w.kt))

\* The key bytes after decodeKeyIndices.  A key type that does not exist is no
\* error: the keys stay as they were.
decodeKeyIndices(w) == IF w.kt = 4 THEN keys ELSE PutKeys(w.keys, Width(w.kt))

\* What decodeDictKeys may leave when the block ends within the dictionary: dict
\* has its new length at once and is then filled value by value.
decodeDictKeys(d) ==
    {[i \in 1..Len(d) |-> IF i <= k THEN d[i] ELSE Zero] : k \in 0..Len(d) - 1}

\* DecodeColumn stops with an error when the dictionary is d.
Refuse(d) ==
    /\ dict' = d
    /\ err' = TRUE
    /\ UNCHANGED <<keys, keyWidth, expanded, panic>>

\* The key bytes bs, new or old, of width kw are held against the dictionary d.
Accept(d, bs, kw) ==
    /\ dict' = d /\ keys' = bs /\ keyWidth' = kw
    /\ panic' = (kw = 0)
    /\ err' = (kw = 0 \/ ~InRange(d, bs, kw))
    /\ expanded' = (err' /\ expanded)

KeyWidthOf(w) == IF w.kt = 4 THEN keyWidth ELSE Width(w.kt)

\* The dictionary is read.
DecodeListed(w) ==
    \/ w.end = "meta" /\ Refuse(dict)
    \/ w.end = "dict" /\ \E d \in decodeDictKeys(w.dict) : Refuse(d)
    \/ w.end = "keys" /\ Refuse(w.dict)
    \/ w.end = "none" /\ Accept(w.dict, decodeKeyIndices(w), KeyWidthOf(w))

\* An empty slice has no first value.
DecodeEmpty ==
    /\ dict' = << >>
    /\ panic' = TRUE
    /\ UNCHANGED <<keys, keyWidth, expanded, err>>

\* The dictionary is left in the stream.  The number of keys is read from its
\* bytes: some other number or, as it happens, that of the rows, and then the keys
\* are what bytes follow.
DecodeUnread(w) ==
    LET d == [i \in 1..Len(w.dict) |-> Zero]
    IN  \/ Refuse(d)
        \/ w.kt = 4 /\ Accept(d, keys, keyWidth)
        \/ /\ w.kt # 4 /\ Width(w.kt) <= MaxUnread
           /\ \E bs \in [1..Len(w.keys) * Width(w.kt) -> Byte] : Accept(d, bs, Width(w.kt))

DecodeColumn(w) ==
    CASE type = "uint8" /\ w.end \in {"keys", "none"} /\ w.dict = << >> -> DecodeEmpty
      [] type = "other" /\ w.end # "meta" /\ w.dict # << >> -> DecodeUnread(w)
      [] OTHER -> DecodeListed(w)

SeqsUpTo(S, k) == UNION {[1..j -> S] : j \in 0..k}

\* A block the server may send: one of at least one row, damaged or not.
\*   meta   a flag that is not supported, or the block ends before the dictionary
\*   dict   it ends within the dictionary
\*   keys   it ends within the keys, or their number is not that of the rows
\*   index  a key lies outside the dictionary
\*   width  a key type that does not exist
ServerBlock(w) ==
    /\ w.end = "none" \/ w.end \in Damage
    /\ w.kt # 4 \/ "width" \in Damage
    /\ w.kt # 4 => \A i \in 1..Len(w.keys) : w.keys[i] < Place[Width(w.kt)]
    /\ w.end = "none" /\ "index" \notin Damage
       => \A i \in 1..Len(w.keys) : w.keys[i] < Len(w.dict)

Good(w) ==
    w.end = "none" /\ w.kt # 4 /\ \A i \in 1..Len(w.keys) : w.keys[i] < Len(w.dict)

\* What lies behind the place where a block breaks off is not read.
Decode ==
    /\ ~panic
    /\ \E end \in {"none"} \cup (Damage \cap {"meta", "dict", "keys"}), d \in SeqsUpTo(Vals, MaxDict) :
       \E kt \in IF end = "none" THEN KeyTypes \cup {4} ELSE {0},
          ks \in IF end = "none" THEN SeqsUpTo(0..MaxDict, MaxKeys) \ {<< >>} ELSE {<<0>>} :
          LET w == [end |-> end, kt |-> kt, dict |-> d, keys |-> ks]
          IN  /\ ServerBlock(w)
              /\ DecodeColumn(w)
              /\ damaged' = ~Good(w)
              /\ content' = IF Good(w) THEN [i \in 1..Len(ks) |-> d[ks[i] + 1]] ELSE << >>
    /\ sent' = NoBlock
    /\ UNCHANGED <<type, values>>

-----------------------------------------------------------------------------
(* The caller's side: the inner column is filled and cleared directly. *)

AppendValue(v) ==
    /\ ~panic /\ (Plain \/ Mixed)
    /\ Len(content) < MaxRows /\ Len(values) < MaxRows
    /\ values' = Append(values, v)
    /\ content' = Append(content, v)
    /\ sent' = NoBlock
    /\ UNCHANGED <<type, dict, keys, keyWidth, expanded, err, panic, damaged>>

ResetValues ==
    /\ ~panic /\ Plain /\ values # << >>
    /\ values' = << >>
    /\ content' = << >>
    /\ sent' = NoBlock
    /\ UNCHANGED <<type, dict, keys, keyWidth, expanded, err, panic, damaged>>

Next == EncodeColumn \/ Decode \/ ResetValues \/ \E v \in Vals : AppendValue(v)

Spec == Init /\ [][Next]_vars

-----------------------------------------------------------------------------
(* Properties. *)

\* What the block sent stands for, read back.
Resolved == Resolve(sent.dict, PutKeys(sent.keys, Width(sent.kt)), Width(sent.kt))

\* What EncodeColumn writes stands for the rows of the column: read back, every
\* key of the width chosen for the dictionary yields the row it was written for.
\* (NaNs and types without a case are left to DictStandsForRows.)
RoundTrip ==
    /\ sent # NoBlock /\ ~damaged /\ type # "other"
    /\ \A i \in 1..Len(content) : content[i] \notin NaNs
    => Resolved = content

\* Len and Row show the rows last decoded, or those appended: whatever was
\* decoded before, a block that arrives whole replaces all of it.
ViewIsContent == ~damaged /\ type # "other" => Accessible /\ Rows = content

\* DecodeColumn does not take a damaged block for a whole one.
DamageReported == damaged /\ type # "other" => err \/ panic

\* The same of what is written, for every type and every value.
DictStandsForRows ==
    sent # NoBlock /\ ~damaged =>
        /\ InRange(sent.dict, PutKeys(sent.keys, Width(sent.kt)), Width(sent.kt))
        /\ Resolved = content

\* The same of what is read: a whole block is taken, and shown.
BlockIsTaken == ~damaged => ~err /\ Accessible /\ Rows = content

\* After a decode Values holds the rows.
Materialized == ~damaged => values = content

\* "No panics.  All errors returned."
NoPanic == ~panic

=============================================================================
