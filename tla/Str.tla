-------------------------------- MODULE Str --------------------------------
(***************************************************************************)
(* StrColumn: a decode reads all strings of a block into one buffer, which *)
(* it keeps for the next block and replaces by a larger one when it must,  *)
(* and makes the rows point into it.  Strings a caller appends stay in the *)
(* caller's memory.                                                        *)
(*                                                                         *)
(* Memory is a sequence of arenas that are never freed; a cell is a byte,  *)
(* named for the string it belongs to, so that no two strings are equal by *)
(* chance.  What a caller took from Row points into an arena as well.      *)
(***************************************************************************)
EXTENDS Integers, Sequences, SequencesExt, FiniteSetsExt

CONSTANTS
    MaxLen,      \* bound: the longest string
    MaxRows,     \* bound: rows of a block or column
    MaxStrings,  \* bound: blocks sent and strings appended
    MaxKept,     \* bound: strings a caller holds on to
    Long,        \* 128, from which the buffer grows by no more than it must
    Group,       \* 2^7, the values of a group of a varint
    Groups       \* 10, the groups of a varint; the last one has 2 values

\* The value of a one in the group after k others.
Power[k \in 0..Groups] == IF k = 0 THEN 1 ELSE Group * Power[k - 1]

ASSUME StrAssumption ==
    /\ {MaxLen, MaxRows, MaxStrings, MaxKept, Long} \subseteq Nat
    /\ Group \in Nat \ {0, 1} /\ Groups \in Nat \ {0}
    /\ MaxLen < Power[Groups - 1]

VARIABLES
    mem,    \* the arenas
    buf,    \* StrColumn.buf: its arena a and length; the capacity is the arena's
    Data,   \* StrColumn.Data: [a, from, n]
    pc,     \* "idle", or "rows" within DecodeColumn
    lens,   \* the lengths of the strings of the block
    pos,    \* StrColumn.pos: where the strings read so far begin
    sent,   \* counts blocks and appended strings
    given,  \* history: what the rows are, unless the latest decode failed
    whole,  \* ... which it did not
    kept,   \* what a caller took from Row: [ref, was]
    peak    \* history: the most bytes of one block so far

vars == <<mem, buf, Data, pc, lens, pos, sent, given, whole, kept, peak>>
decodeVars == <<pc, lens, pos>>

-----------------------------------------------------------------------------
(* Varints: groups with a flag that more follow. *)

Overflow == -1
EOF == -2

PutUVarint(n) ==
    LET last == CHOOSE k \in 0..Groups - 1 :
                    Power[k + 1] > n /\ (k = 0 \/ Power[k] <= n)
    IN  [k \in 1..last + 1 |-> [more |-> k <= last, bits |-> (n \div Power[k - 1]) % Group]]

\* Each group is added above those before it.
Value(gs) ==
    LET x[k \in 0..Len(gs)] == IF k = 0 THEN 0 ELSE x[k - 1] + gs[k].bits * Power[k - 1]
    IN  x[Len(gs)]

\* Fault: the last group is not checked.
readUVarintUnchecked(gs) ==
    LET ends == {k \in 1..Len(gs) : k <= Groups /\ ~gs[k].more}
    IN  IF ends = {} THEN IF Len(gs) < Groups THEN EOF ELSE Overflow
        ELSE Value(SubSeq(gs, 1, Min(ends))) % (2 * Power[Groups - 1])

\* The groups up to the first without the flag.  (Conversion to int makes the
\* upper half of the values negative; the strings of a block are not that long.)
readUVarint(gs) ==
    LET ends == {k \in 1..Len(gs) : k <= Groups /\ ~gs[k].more}
    IN  IF ends = {} THEN IF Len(gs) < Groups THEN EOF ELSE Overflow
        ELSE IF Min(ends) = Groups /\ gs[Groups].bits > 1 THEN Overflow
        ELSE Value(SubSeq(gs, 1, Min(ends)))

-----------------------------------------------------------------------------
(* Memory. *)

Zero == <<0, 0, 0>>
Text(id, row, n) == [k \in 1..n |-> <<id, row, k>>]

Cap(a) == IF a = 0 THEN 0 ELSE Len(mem[a])
\* What a string header points to; no arena is needed for an empty one.
Read(m, ref) == IF ref.n = 0 THEN << >> ELSE SubSeq(m[ref.a], ref.from + 1, ref.from + ref.n)
Rows == [i \in DOMAIN Data |-> Read(mem, Data[i])]

\* Fault: what is in the buffer stays behind.
EnlargedEmpty(end, n, left) ==
    Append(mem, [k \in 1..(IF n >= Long THEN end ELSE end + n * left) |-> Zero])

\* Fault: no room for what is in the buffer.
EnlargedShort(end, n, left) ==
    Append(mem, [k \in 1..(IF n >= Long THEN end ELSE n * left) |->
                    IF k <= buf.len THEN mem[buf.a][k] ELSE Zero])

\* make and copy: room for the strings that are left if they are as short.
Enlarged(end, n, left) ==
    Append(mem, [k \in 1..(IF n >= Long THEN end ELSE end + n * left) |->
                    IF k <= buf.len THEN mem[buf.a][k] ELSE Zero])

-----------------------------------------------------------------------------

Init ==
    /\ mem = << >> /\ buf = [a |-> 0, len |-> 0] /\ Data = << >>
    /\ pc = "idle" /\ lens = << >> /\ pos = << >>
    /\ sent = 0 /\ given = << >> /\ whole = TRUE /\ kept = {} /\ peak = 0

\* Fault: the buffer is let go.
DecodeEmptyFrees ==
    /\ pc = "idle" /\ sent < MaxStrings
    /\ Data' = << >> /\ given' = << >> /\ whole' = TRUE
    /\ buf' = [a |-> 0, len |-> 0]
    /\ sent' = sent + 1
    /\ UNCHANGED <<mem, decodeVars, kept, peak>>

\* DecodeColumn of no rows.
DecodeEmpty ==
    /\ pc = "idle" /\ sent < MaxStrings
    /\ Data' = << >> /\ given' = << >> /\ whole' = TRUE
    /\ buf' = [buf EXCEPT !.len = 0]
    /\ sent' = sent + 1
    /\ UNCHANGED <<mem, decodeVars, kept, peak>>

DecodeStart ==
    /\ pc = "idle" /\ sent < MaxStrings
    /\ \E rows \in 1..MaxRows : lens' \in [1..rows -> 0..MaxLen]
    /\ pc' = "rows" /\ pos' = << >>
    /\ buf' = [buf EXCEPT !.len = 0]
    /\ sent' = sent + 1
    /\ UNCHANGED <<mem, Data, given, whole, kept, peak>>

\* The next row, of which got bytes arrive.
ReadInto(n, got) ==
    LET from == buf.len
        end == from + n
        grows == Cap(buf.a) < end
        m == IF grows THEN Enlarged(end, n, Len(lens) - Len(pos)) ELSE mem
        a == IF grows THEN Len(m) ELSE buf.a
    IN
    /\ buf' = [a |-> a, len |-> end]
    /\ mem' = IF got = 0 THEN m
              ELSE [m EXCEPT ![a] = [k \in DOMAIN @ |->
                       IF k > from /\ k <= from + got
                       THEN Text(sent, Len(pos) + 1, n)[k - from] ELSE @[k]]]
    /\ peak' = IF end > peak THEN end ELSE peak

ReadRow ==
    LET n == readUVarint(PutUVarint(lens[Len(pos) + 1])) IN
    /\ pc = "rows" /\ Len(pos) < Len(lens)
    /\ n >= 0
    /\ ReadInto(n, n)
    /\ pos' = Append(pos, buf.len)
    /\ UNCHANGED <<Data, pc, lens, sent, given, whole, kept>>

Fail ==
    /\ pc' = "idle" /\ lens' = << >> /\ pos' = << >>
    /\ whole' = FALSE
    /\ UNCHANGED <<Data, sent, given, kept>>

\* The connection breaks off before a length or among the bytes of a string.
\* The rows stay, over a buffer that is partly overwritten.
ReadLengthFails ==
    /\ pc = "rows" /\ Len(pos) < Len(lens)
    /\ Fail
    /\ UNCHANGED <<mem, buf, peak>>

ReadBytesFail ==
    LET n == readUVarint(PutUVarint(lens[Len(pos) + 1])) IN
    /\ pc = "rows" /\ Len(pos) < Len(lens)
    /\ \E got \in 0..n - 1 : ReadInto(n, got)
    /\ Fail

\* The rows are made once the buffer moves no more.
DecodeEnd ==
    LET bounds == Append(pos, buf.len) IN
    /\ pc = "rows" /\ Len(pos) = Len(lens)
    /\ Data' = [i \in DOMAIN lens |->
                   [a |-> buf.a, from |-> bounds[i], n |-> bounds[i + 1] - bounds[i]]]
    /\ given' = [i \in DOMAIN lens |-> Text(sent, i, lens[i])]
    /\ whole' = TRUE
    /\ pc' = "idle" /\ lens' = << >> /\ pos' = << >>
    /\ UNCHANGED <<mem, buf, sent, kept, peak>>

\* Fault: the string is copied to the end of the buffer.
AppendToBuf ==
    /\ pc = "idle" /\ sent < MaxStrings /\ Len(Data) < MaxRows
    /\ buf.a # 0 /\ buf.len < Cap(buf.a)
    /\ mem' = [mem EXCEPT ![buf.a][buf.len + 1] = <<sent + 1, 1, 1>>]
    /\ buf' = [buf EXCEPT !.len = @ + 1]
    /\ Data' = Append(Data, [a |-> buf.a, from |-> buf.len, n |-> 1])
    /\ given' = Append(given, Text(sent + 1, 1, 1))
    /\ sent' = sent + 1
    /\ UNCHANGED <<decodeVars, whole, kept, peak>>

\* Append and AppendArr keep the caller's string.
AppendString ==
    /\ pc = "idle" /\ sent < MaxStrings /\ Len(Data) < MaxRows
    /\ mem' = Append(mem, Text(sent + 1, 1, 1))
    /\ Data' = Append(Data, [a |-> Len(mem) + 1, from |-> 0, n |-> 1])
    /\ given' = Append(given, Text(sent + 1, 1, 1))
    /\ sent' = sent + 1
    /\ UNCHANGED <<buf, decodeVars, whole, kept, peak>>

Reset ==
    /\ pc = "idle" /\ Data # << >>
    /\ Data' = << >> /\ given' = << >> /\ whole' = TRUE
    /\ UNCHANGED <<mem, buf, decodeVars, sent, kept, peak>>

\* A caller holds on to what Row returned.
Keep ==
    /\ pc = "idle" /\ Cardinality(kept) < MaxKept
    /\ \E i \in DOMAIN Data : kept' = kept \cup {[ref |-> Data[i], was |-> Rows[i]]}
    /\ UNCHANGED <<mem, buf, Data, decodeVars, sent, given, whole, peak>>

Next ==
    \/ DecodeEmpty \/ DecodeStart \/ ReadRow \/ DecodeEnd
    \/ ReadLengthFails \/ ReadBytesFail
    \/ AppendString \/ Reset \/ Keep

Spec == Init /\ [][Next]_vars

-----------------------------------------------------------------------------
(* Properties. *)

\* Types, and every string lies within its arena: unsafe.String never reaches
\* past the buffer, also when a decode has failed or the buffer has moved.
TypeOK ==
    /\ buf.a \in 0..Len(mem) /\ buf.len \in 0..Cap(buf.a)
    /\ pc \in {"idle", "rows"} /\ sent \in 0..MaxStrings
    /\ Len(pos) <= Len(lens) /\ Len(Data) <= MaxRows
    /\ \A ref \in ToSet(Data) \cup {k.ref : k \in kept} :
          ref.n = 0 \/ (ref.from >= 0 /\ ref.from + ref.n <= Cap(ref.a))

\* Unless the latest decode failed, the rows are those of the latest block and
\* the strings appended since, byte by byte: growth in the middle of a block,
\* a buffer reused after a longer or a failed block and empty strings included.
RowsAreGiven == whole /\ pc = "idle" => Rows = given

\* A length is read as what was written, a longer number is an overflow and an
\* incomplete one an unexpected end: no length comes out as another.
VarintExact ==
    sent = 0 =>
        /\ \A n \in 0..2 * Power[Groups - 1] - 1 : readUVarint(PutUVarint(n)) = n
        /\ \A gs \in SeqOf([more : BOOLEAN, bits : 0..Group - 1], Groups) :
              LET n == readUVarint(gs)
                  end == {k \in DOMAIN gs : ~gs[k].more}
              IN  CASE end # {} /\ Value(SubSeq(gs, 1, Min(end))) < 2 * Power[Groups - 1]
                           -> n = Value(SubSeq(gs, 1, Min(end)))
                    [] end = {} /\ Len(gs) < Groups -> n = EOF
                    [] OTHER -> n = Overflow

\* What a caller took from Row changes only when a later block is read into the
\* buffer it points into, over the bytes read so far; never by Append, Reset or
\* a buffer that moved away, and strings the caller appended never at all.
KeptUntilReread ==
    [][\A k \in kept :
          Read(mem', k.ref) # Read(mem, k.ref) =>
              pc = "rows" /\ k.ref.a = buf.a /\ k.ref.from < buf'.len]_vars

\* The buffer is replaced only for a block with more bytes than any block before it:
\* neither an empty block nor a failed one gives up room that there was.
GrowsBeyondPeak ==
    [][buf'.a # buf.a => buf'.len > peak]_vars

\* "Data is always valid": between the calls the rows are those of the last block
\* that came whole and the strings appended since.
DataIsValid == pc = "idle" => Rows = given

\* "no reader-buffer expiry, no corruption": what a caller took from Row stays.
KeptStays == \A k \in kept : Read(mem, k.ref) = k.was

=============================================================================
