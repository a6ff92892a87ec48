# TLA+ models of scorch (ddukki/chu-go)

scorch is a ClickHouse client for the native protocol: single connections
(`conn/`), a pool over several replicas (`pool/`), and typed columns (`column/`).
This directory holds specifications of the parts that keep state, the TLC
configurations that check them on small instances, and TLAPS proofs. Line
references in this file are to `src/`; `PROJECT.json` maps every definition to
the lines it models.

## 1. Inventory

| Part | State | Operations | What is hard |
|---|---|---|---|
| `conn.Conn` (conn.go, exec.go, select.go, insert.go) | lifecycle `state`, socket, `skipResults` cache | Connect, Close, lock/unlock, Exec, Select, Insert, Ping, sendCancel, skipBlock | callers racing; Close during an operation; cancellation that leaves a response unread; packets left half read; a cache that outlives a query |
| streams (stream.go) | bound columns, `done`, `closed`, `release` | SelectStream: Bind, Next, Cancel, Close, Release; InsertStream: Bind, Append, Close; Conn.Unlock | the connection is kept across calls; draining; exceptions while blocks are being sent; double release |
| ClickHouse and TCP (external) | session, packets in flight | answers, exceptions, reset, hang | packets cut off, arriving after the caller has gone |
| `pool.Pool` (pool.go, poolconn.go) | `closed`, `rrIdx`, per replica `dead` and a puddle pool | Acquire, Exec/Select/Insert with a retry, streams, health loop, Close | `mu` held while a puddle pool drains; `addrPool.p` read without `mu`; Close against a health check; broken connections given back |
| `column.LowCardinality` | inner `Values`, `dict`, `keys`, `keyWidth`, `expanded` | DecodeColumn, EncodeColumn/WriteColumn, ensureExpanded, Len, Row | three copies of one content; a decode that fails half way; key width thresholds; a switch over the type that leaves types out |
| Array, Map, Tuple, Nullable | `Offsets` or `Nulls`, inner columns | Append, Reset, DecodeColumn, EncodeColumn/WriteColumn, Len, Row | parts of two blocks after a decode that fails half way; inner columns that append where others replace; offsets that are neither validated nor kept within an int |
| String | `Data`, `buf`, `pos` | Append, Reset, DecodeColumn, Row | one buffer for all strings, reused by the next block and replaced in the middle of one; rows point into it |
| wide integers, decimals, dates, times, enums | `Data` of stored values; `Scale`, `Precision`, maps of names | Append, Row, Cmp, to and from big.Int, Infer, DecodeColumn | carries and signs over several words; both ends of a range; conversions that wrap; an Infer that fails half way |
| IP, UUID, FixedString | slices | decode, encode, append | copies of bytes |
| DSN and configuration | the fields set so far | Parse, ParseDSN, ParsePoolDSN, the defaults of Connect and New | parameters visited in the random order of a map; forms of hosts; a size narrowed to 32 bits |

How they interact: an operation of a caller takes the connection with `lock()`,
writes to the socket and reads packets in a loop; columns are decoded from those
packets. The pool hands connections to its users, decides from the kind of an
error whether a connection is destroyed or released, and replaces the puddle
pool of a replica. Streams of the pool carry a release function which unlocks
the connection and gives it back.

What makes each part correct:

* connection: one operation at a time; an operation meets only its own response;
  a connection that is offered as Ready has nothing left on the wire unless it is
  suspect (section 2); an operation that reports success has transferred
  everything; operations end; a failed handshake leaves no socket;
* pool: a connection is in one pair of hands; replicas that count as live have
  an open sub-pool; the sub-pools of dead replicas and replaced ones are closed
  and empty; Close closes everything;
  Acquire ends; a connection that is out of step is not handed out again;
* LowCardinality: encode and decode are inverse; a damaged block is reported; a
  whole block replaces everything that was there;
* String: rows read as they were sent, wherever the buffer has gone; what a caller
  keeps changes only when a later block is read over it;
* scalar columns: a value that fits reads back as it was given and keeps its
  order, one that does not fit a wide type is refused;
* DSN: the outcome is that of the DSN and not of the order in which its
  parameters are visited; connections and pools use what it says;
* Array, Map, Tuple, Nullable: offsets and inner columns fit together again after
  a Reset or a whole block, whatever had failed before; what is written reads back.

## 2. Modules

| Module | Models | Notes |
|---|---|---|
| `Server` | TCP socket and ClickHouse session (external) | written from how `conn/` uses them |
| `Conn` | conn.go, exec.go, select.go, insert.go, errors.go, blockinfo.go | EXTENDS Server |
| `Stream` | stream.go | EXTENDS Conn |
| `Client` | the composition: Init, Next, fairness, properties | EXTENDS Stream |
| `ClientProofs` | theorems about Client: types, mutual exclusion, sockets, whose packets a caller reads, that it implements Session, and what an operation counts | EXTENDS Client |
| `Session` | abstract specification: what a connection promises its callers | no lines of code; Client implements it (`Client!Abstract`) |
| `Pool` | pool.go, poolconn.go; puddle is external | self-contained; abstracts a connection to one bit, in step or not |
| `Counting` | lemmas: least numbers, lists of finite sets, quotients and digits, functions defined by recursion | for the proof modules, no lines of code |
| `PoolProofs` | theorems about Pool | EXTENDS Pool, Counting |
| `LowCardinality` | column/lowcardinality.go | bytes of keys are explicit, inner values abstract |
| `LowCardinalityProofs` | theorems about LowCardinality | EXTENDS LowCardinality, Counting |
| `Composite` | column/array.go, map.go, nullable.go, tuple_gen.go; of str.go and fixedstring.go what a decode leaves | inner columns abstracted to three forms |
| `CompositeProofs` | theorems about Composite | EXTENDS Composite, Counting |
| `Str` | column/str.go | memory as arenas, strings as pieces of them |
| `StrProofs` | theorems about Str | EXTENDS Str, Counting |
| `WideInts` | int128.go, int256.go, uint128.go, uint256.go: negation, order, conversions | operators only |
| `Scalars` | the columns of wide integers, decimals, dates, times and enums | EXTENDS WideInts |
| `ScalarsProofs` | theorems about Scalars and WideInts | EXTENDS Scalars, Counting |
| `Dsn` | dsn/dsn.go, conn/dsn.go, pool/dsn.go, config.go, and what Connect and New take from a Config | net/url, net and strconv are external |
| `DsnProofs` | theorems about Dsn | EXTENDS Dsn, Counting |
| `MCClient`, `MCPool`, `MCLowCardinality`, `MCComposite` | symmetry sets for TLC, and the constraint `Unsuspected` | a suspect connection stays suspect, so a run of properties about the others need not follow it |

### Server

`wire` holds the client's messages, `inbox` the server's packets, both in order
and without loss while the socket is open. A packet is a record: its kind, its
number of rows, its column layout and, as history, the request it answers. The
session `srv` walks through phases: greeting, idle, running a query, waiting for
INSERT blocks, and so on. The server ends every response with one terminal
packet, EndOfStream or Exception; after an Exception during an INSERT it discards
blocks up to the empty one. `Faults` turns failures on: `throw` (exceptions),
`net` (reset; what is in flight may be lost or cut, `Remains`), `hang`, and on
the client's side `ctx` (contexts end) and `close` (Close is called).

### Conn and Stream

A caller's program counter `pc` names the loop it is in. `reading` separates the
look at the context from the read that may block after it: cancellation is seen
only between packets, as in the code. The five `switch` statements over packet
codes are one table, `Treat(loop, kind)`; each kind of treatment is an action
(`ReadEnd`, `ReadException`, `ReadPass`, `ReadSkip`, `ReadSelectRows`,
`ReadStreamRows`, `ReadHeader`, `ReadReject`, `ReadFails`). Bytes of a packet
that a loop leaves unread become a `Junk` element, which the next read may take
for any packet (`Seen`). `skip` is the cache of `skipBlock`: the packet code and
the layout the cached `proto.Results` expects.

`n` counts rows (blocks for an INSERT) and `held` what the bound columns hold:
every `DecodeColumn` overwrites. `suspect` is history, and the properties promise
nothing once it is set. It is set

* when a caller is handed an error other than the server's own exception; from then
  on it should discard the connection, as the pool does;
* when a drain stops inside a packet, which `cancel()` tells no one (stream.go:310);
* when Next returns a block of a column with per-block state, whose rest is then
  taken for packets (stream.go:190).

The last two are faults of the code: DrainTakesAll and WholeBlockRead in section 3.

`Manual` names the ways in which callers give the connection back themselves:
`Release` of a SelectStream that is done, and `Unlock`, which any caller that is not
inside a call may use on a Conn at any time.

Calls that change nothing are left out: operations refused by `lock()`, an
Insert without rows, calls on a stream that is done or closed. The callbacks
(OnProgress and so on) change nothing of the connection.

### Pool

A puddle pool has `MaxConns` slots. Its Close destroys the idle connections and
then waits for the ones that are out; both halves are separate steps because
the code holds `mu` in between (pool.go:117-122, 394-398). `mu` is a variable
only because of those waits; sections that do not wait are single actions that
need it free. Pools are numbered per address, `cur` is `addrPool.p`. A dial
whose caller has given up continues as an orphan, as puddle does.

### LowCardinality

Keys are kept as little-endian bytes of 1, 2, 4 or 8 per key. `Radix` stands for
256 and `Place[j]` for its j-th power, what the byte at place j counts for (the
shifts of binary.LittleEndian). `Place` is a function rather than `^`, of which
the provers know nothing. `content` is history: the rows that callers appended or the server sent.
`ServerBlock` lists the damage a block may have: an unsupported flag, an end
inside the dictionary or the keys, a key outside the dictionary, a key type that
does not exist.

`type` is T, fixed at Init. The dictionary is written and read by switches over T
that have no default (lines 257, 324). For an `other` type, such as UUID or Int128,
`encodeDictKeys` writes nothing, and on the reading side the number of keys and the
keys are read from the bytes of the dictionary: `DecodeUnread` refuses the block or,
when the number happens to be that of the rows, takes any bytes for keys, with keys
of up to `MaxUnread` bytes. For `uint8` an empty dictionary panics (`DecodeEmpty`).
`NaNs` are the values that differ from themselves: each is a new entry of the
dictionary, and none is found again (line 232).

### Composite

One column of any kind: `offsets` and the inner columns `child`, as sequences of
values; in a tuple or a nullable row i is simply entry i. Inner columns differ in
what DecodeColumn does to them, and that is what a failure leaves behind: `fixed`
ones (BaseColumn, `decodeFixed` and the like) have their new length already and
part of the new bytes; a `str` keeps Data, whose strings may have been read over;
a `fixedstring` has got some more rows. `at` is the part in which the block ends,
in the order the code reads them. `content`, `damaged` and
`onto` (the last block was decoded onto rows of a FixedString part, which keeps
them) are history. `outcome` tells an error from a panic.
`DecodeWide` is the decode of a block whose last offset is 2^63 or more: `int()` makes
it negative, and `Negative` says what each form of inner column does with a negative
number of rows. `Wide` stands for such an offset, and as a number of elements it is
above every length there is.
The fixed forms of `Torn` are an over-approximation: any value may lie behind
what was read, since the backing array may hold values of any earlier block.
Tuples have neither Reset nor WriteColumn, nullables no Reset: `Reset` there is
the caller clearing every part, as README.md:455 asks. Inner columns are plain: an
array or a map inside another is not among the forms.

### Session

A link that is made once and may be lost once; each caller's operation is
pending, answered, cancelled or over; success and the server's error may be
reported only of an operation the server has answered. `doubt` ends the promise,
as `suspect` does; `Stray` is the step in which a connection loses its place without
an error. The mapping in Client: the link from `state`, `hello` and
`sock`; a caller's phase from its `pc`, and "answered" when the terminal packet
of its request is in `inbox`; `outcome` is `res`. Reading data, skipping blocks,
sending INSERT blocks and the server's chatter are stuttering steps.

### Str

`mem` holds every buffer ever made, so that a string that points into an old one
still has something to point at, as with Go's collector. DecodeColumn is taken
row by row. The growth is the code's: `end + n*(rows-i)`, or just `end` for a
string of 128 bytes or more (`Long`). A read may end before a length or at any
byte. `kept` are strings that a caller took from Row. Varints have groups of
`Group` values, `Groups` of them, the last with one bit, as 10 groups of 7 bits
make 64.

### WideInts and Scalars

A word is `WordBytes` bytes of `Radix` values; 128-bit numbers have two words and
256-bit ones four. The conversions go through bytes as in the code: a magnitude is
padded, reversed, read as words, negated, and its top bit compared with the sign.
`Power` stands for `^`, of which the provers know nothing.
`N8` to `N64` are the numbers of values of the narrower types; Go's conversions
wrap (`Wrap`) and its division truncates (`Quo`), while `Time.Unix` rounds down.
A time is a number of nanoseconds and a decimal a number of its last digit, so
both reach beyond what a column can hold. `given` is history: what a row was when
it was appended, or what the server meant by the bytes it sent. Enum types have
two members, in range or not; Infer replaces the maps member by member. Names
with a comma or an equals sign, which parseEnumType splits, are not among them.

### Dsn

A DSN is a record of its pieces. dsn.Parse takes them in its order, and then the
parameters in any order, one action for each turn of the loop. ParseDSN and
ParsePoolDSN, Connect and New follow, so that the properties speak of what a
connection in the end uses.

## 3. Runs

All runs disable the deadlock check: a system whose requests (`MaxQueries`),
pools (`MaxPools`) or rows are used up, or that has been closed, stops.

| Run | Properties | Instance and why it is enough |
|---|---|---|
| ConnInterleaved | TypeOK, MutualExclusion, OwnResponse, NoSocketLeak, ImplementsSession | two callers, two requests, all faults: every pair of operations overlaps at every step, with Close, cuts and cancels between any two |
| ConnSequence | CleanReady, Delivered | one caller, three requests of any kind, results of two layouts, Log beside ProfileEvents, columns of every shape, manual Release, responses of up to two packets: whatever one operation leaves behind meets the next, and a third after it |
| ConnReturns | OperationReturns, DrainReturns | liveness under FairSpec, two requests, network failure and cancellation, and a caller that unlocks a busy connection |
| PoolSafety | TypeOK, OneHolder, RetiredIsEmpty, LiveIsOpen, CloseShutsDown | two users, two replicas with one connection each (so both wait, fail over and compete), two generations of sub-pools, health loop, streams |
| PoolReturns | AcquireReturns | liveness, two users who compete for one connection, all troubles: a connection that one never gives back keeps the other waiting |
| LowCard | TypeOK, RoundTrip, DamageReported, ViewIsContent | three values over a radix of two, so that the dictionary crosses the first threshold; dictionaries of up to two entries; uint8 and a type without a case; all damage but the key type |
| Columns | TypeOK, ViewIsContent, WrittenIsContent | all four kinds and all forms of inner columns, two rows and two elements, so that rows are empty, single and double; blocks that end in any part, have offsets out of order or a last one that wraps |
| Scalars | TypeOK, RowIsGiven, OrderKept, OutOfRangeRefused, EnumReads | bytes of one bit and words of two, so 128 bits are 4 and 256 are 8: every number of each type, and those just outside, is appended and sent; 2, 4, 8 and 32 values for 8 to 64 bits; two rows, the second of a 256-bit column from `Landmarks`, the edges of its halves; enum types of any two of three names, the empty one among them |
| Str | TypeOK, RowsAreGiven, VarintExact, KeptUntilReread, GrowsBeyondPeak | three blocks or appended strings, blocks of up to three strings of length 0 to 2, with `Long` = 2: empty, short and long strings in every order, so that the buffer grows at any row, is reused and is left after a failure |
| Dsn | TypeOK, ErrorIsDetermined, UsedAsWritten, PoolHasRoom | up to three hosts where two are allowed, every user, paths of up to three pieces, up to three parameters in every order, each key also twice |

What they show: within these bounds the properties hold. `OwnResponse`, `CleanReady`
and `Delivered` speak of connections that are not suspect, `ViewIsContent` and
`WrittenIsContent` of columns whose last block was whole and not decoded onto rows of
a FixedString part, and the properties of LowCardinality of types with a case.
`CloseShutsDown` speaks of every sub-pool there was when Close was called, those that
the health loop had revived included; one that it puts in later may stay open, see AllShut below.

### Disagreements between text and code

Two runs check one property each that a comment states, and expect TLC to find it
violated; `PROJECT.json` quotes the text.

| Run | Property | Trace in short |
|---|---|---|
| BadDrain | DrainReturns | the server throws; `cancel()` reads the Exception and waits for an EndOfStream (stream.go:305) |
| BadCmp | Int256Ordered | two numbers whose upper halves are equal: the lower halves are compared as signed numbers (int256.go:59) |

The same models show more. Each property below is a definition of the module named,
which states what a comment or the project's README says; TLC finds it violated when
it is the one property of a configuration like that module's runs, with the
constants given.

| Property | Module: constants | Behaviour |
|---|---|---|
| ReadyMeansIdle | Client: one request, `ctx` | Exec is cancelled, sends Cancel, unlocks: the connection is Ready while the server still answers (exec.go:31). conn.go:19: "an idle, connected connection" |
| DrainTakesAll | Client: one request, two packets, ProfileEvents and Log | a drain skips both kinds with one cached layout, stops inside the second and reports nothing (stream.go:310). stream.go:270: "drains remaining server data" |
| NoSpuriousReject | Client: two requests, two schemas | the skip cache outlives a query: the next one's Data blocks have another layout and are refused (exec.go:251). exec.go:239: "reads and discards a data block" |
| ClosedIsFinal | Client: two callers, `close` | `unlock()` turns Closed into Ready (conn.go:172). README.md:495: "Busy → Ready → Closed" |
| NoConcurrentQueries | Client: two callers, three requests, Manual = {Release} | Release and Close both unlock (stream.go:336, 348). README.md:495: "No concurrent queries per connection" |
| SelectFillsColumns | Client: two packets | the count is of both blocks, the columns hold the second (select.go:161). select.go:10: "reads results into the given columns" |
| StreamAccumulates | Client: two packets | Next overwrites the columns. README.md:170: "Each Next() appends one block to bound columns" |
| WholeBlockRead | Client: two packets, `stateful` columns | Next does not call DecodeState (stream.go:190). column.go:20: "read per-block state before column data" |
| MutualExclusion | Client: two callers, Manual with Release or Unlock | a connection given back by hand is given back again, or while it is in use |
| OperationReturns | Client: `hang` | a read has no deadline: ReadTimeout (config.go:32) is not applied |
| AcquireReturns | Pool: one user, two connections, Nested, `refused` | a user with an open stream queries, the dial is refused, Acquire closes the sub-pool under `mu` and waits for the user's own stream (pool.go:120) |
| AllShut | Pool: one user, two generations | a health check under way puts in a sub-pool after Close has passed (pool.go:394). pool.go:230: "shuts down the pool and all sub-pools" |
| IdleIsReusable | Pool: one user, `network`, `other` | the second attempt fails and its deferred Release puts the connection back (pool.go:165). poolconn.go:16: "returns the connection to the pool for reuse" |
| BlockIsShown | Composite: no damage | FixedString appends on decode: the offsets of the second block select elements of the first (fixedstring.go:66). README.md:142: "Read results into pre-allocated columns" |
| NoPanic | Composite: `order`, or `wide` | offsets that decrease are accepted and Row slices with them (array.go:60, 95); an offset of 2^63 or more is a negative number of elements (array.go:97). README.md:498: "No panics. All errors returned." |
| NoPanic | LowCardinality: `width`, or `index` with uint8 | an unknown key type makes the validation of a fresh column divide by 0 (lowcardinality.go:161); an empty dictionary of uint8 has no first byte (338). README.md:498 |
| DamageReported | LowCardinality: `width` | an unknown key type is accepted, the keys stay those of the block before (lowcardinality.go:419) |
| DictStandsForRows | LowCardinality: type `other`, or NaNs | of a type without a case the dictionary is not written (lowcardinality.go:257); a NaN row is written with the key 0 (232). README.md:267 offers LowCardinality of any T |
| BlockIsTaken | LowCardinality: type `other` | nor is it read (lowcardinality.go:324): a whole block is refused or taken for other rows |
| Materialized | LowCardinality: no damage | reading `Values.Data` after a decode expands nothing. README.md:446: "triggers materialization (dict → []string)" |
| RoundTrip | LowCardinality: Mixed | rows appended after a decode are dropped (lowcardinality.go:89). README.md:451: "Insert path unaffected" |
| NothingWraps | Scalars: Decimal32 | a value that does not fit is stored as another (decimal32.go:37); so with Decimal64, Date and DateTime, while Decimal128 and Decimal256 panic. README.md:499: "Overflow and bounds violations return errors" |
| DayOfTime | Scalars: Date32 | a time on the last day before 1970 is stored as day 0 (date32.go:26). date32.go:9: "stored as days since epoch" |
| RowIsGiven | Scalars: Reinfer | Infer on a column with rows changes what they read as |
| DataIsValid | Str: as in its run | after a decode that failed half way, the rows of the block before read other bytes (str.go:122). README.md:17: "`Data` is always valid, no reader-buffer expiry, no corruption" |
| KeptStays | Str: as in its run | a string kept from one block changes with the next (str.go:136). README.md:17, as above |
| SecureIsHeeded | Dsn: as in its run | `secure` is parsed (dsn.go:154; README.md:118) and then left out by ParseDSN and ParsePoolDSN: TLSConfig stays nil |
| HostListAccepted | Dsn: as in its run | of several hosts the last must have a port if any has one: url.Parse takes the list for one host (dsn.go:67; README.md:107) |

### Fairness

`Client!FairSpec`: weak fairness of a caller that is inside a call (a goroutine
that can run does run) and of the server's own steps. Callers are never forced
to start anything or to go on with a stream, and no failure is forced.
`Pool!FairSpec`: Go's mutexes and puddle's semaphore let everyone in who waits, so
the steps of Acquire that take `mu` (`TakesMu`) and the one that takes a slot
(`PuddleAcquire`) are strongly fair, each for itself. Dials end, also orphaned ones,
and so do queries and streams, with any outcome (`GoesOn`, `OrphanDialEnds`, `Using`);
whoever waits under `mu` for a sub-pool goes on when it is drained (`GoesOn`,
`HealthSwap`): weak fairness. The rest of the health loop need not run. No context
ever has to end: `WaitCancelled` and `DialCancelled` are in no fairness condition, and
Close need not be called.

## 4. Proofs

The theorems hold for every value of the constants that the named assumptions
allow (`ServerAssumption`, `ConnAssumption`, `StreamAssumption`, `PoolAssumption`,
`CompositeAssumption`, `LowCardinalityAssumption`, `StrAssumption`,
`DsnAssumption`, `WideAssumption`, `ScalarsAssumption`; TLC evaluates them in every run): any number of callers, users,
replicas, connections, rows, hosts and parameters, any size of blocks,
dictionaries and strings, and any even number of values of bytes and words. Some theorems have a hypothesis on top, which stands in
the ASSUME of the theorem and is explained here. Such a hypothesis leaves out uses
of the code under which it loses a promise; the runs make it too
(but for ConnSequence and ConnReturns, where a single caller uses Release or Unlock),
and the second table of section 3 lists what TLC shows without it.

### Client (`ClientProofs`)

* `TypeCorrect`: `Spec => []TypeOK`. TypeOK is inductive: besides types it says
  that a caller is blocked in a read only inside a loop. One lemma per group of
  actions (server, calls, loops, streams), on top of lemmas about the operators
  they share (`Return`, `Begin`, `Flush`, `Remains`).
* `MutualExclusionHolds`: `Manual = {}` implies `Spec => []MutualExclusion`.
  The statement is not inductive by itself, since Connect may start whenever the
  state is Initial; the strengthening `Exclusive` adds that in state Initial no
  caller is inside an operation. The proof reduces all actions to three shapes:
  take the connection, keep it, give it back.
* `NoSocketLeakHolds`: `Spec => []NoSocketLeak`, an open socket belongs to a Conn
  that was returned or is being connected.

### Whose packets a caller reads (`ClientProofs`)

`OwnResponseHolds` and `CleanReadyHolds` assume `Regular`, which is `Manual = {}`: callers
use neither Release nor Unlock. After Release and Close two callers are inside at
once, and each reads the other's packets. There is no hypothesis on layouts, chatter
or columns: results of any layouts, Log beside ProfileEvents and columns with
per-block state are allowed, and where the code loses its place over them the
connection becomes suspect in that very step (section 2).

The argument has two layers. `Exclusive` (see above): one caller is inside. `Sync`: as
long as the connection is not suspect, client and server agree on where in the
response they are.
When nobody is inside, there is nothing on the wire and nothing in the inbox and
the server rests (`AtRest`); when c is inside, the packets in the inbox are c's and
end with at most one terminal packet, which is the last (`OwnPackets`); c's request
is either in the wire, or at the server, or answered (`OneRequest`, `WorksFor`).
Neither OwnResponse nor CleanReady is inductive: that the next caller starts from
a clean connection needs to know that the previous one read up to the terminal
packet and that there was only one. Server steps are reduced to five shapes (take
a request, send a packet, greet, stop or read on, break), steps inside an
operation to two (`Goes`, `Ends`) unless it makes the connection suspect, and `Sync`
is proved of each shape. A server that hangs rests as well: it sends nothing.

### Client implements Session (`ClientProofs`)

`ImplementsSessionHolds`: under `Regular`, `Spec => ImplementsSession`. The initial
states map to initial states, and every step maps to a step of `Session` or leaves
its variables alone. On top of `Sync` the step needs `Numbered` (whatever is on its
way belongs to a request already made, so a new operation is pending and not
answered) and `PingsApart` (a Pong does not belong to a query). The mapping counts
an operation as answered once its terminal packet is in the inbox: the step that
puts it there is `Answer`, and only a loop that reads it reports success.

### What is counted (`ClientProofs`)

`DeliveredHolds`: under `Regular`, `Spec => Delivered`. Delivered says nothing of
the states in between, so the invariant, `Counted`, adds what is on its way:

* SELECT (`RowsCounted`): the rows counted and the rows of the packets in the inbox
  are the rows the server sent. Before the request is taken both are 0.
* INSERT (`BlocksCounted`): the blocks stored and the blocks on the wire are the
  blocks handed over, the empty block is the last, and the server ends the response
  only after it. When the end of the response is on its way, all are stored.

A sum over a queue that grows at one end and shrinks at the other is `Adds`: there
are partial sums, a function over the positions, with the right first and last
value. `AddsLast` and `AddsFirst` lengthen and shorten it without an induction. A
socket that dies loses packets from the end of the inbox, and RowsCounted asks for
the sum only while the server is at work or the end of the response is on its way:
`EndedWhole` shows that the end survives only with all that is before it. That the
caller reads its own packets, one response at a time, is `Sync`.

### Pool (`PoolProofs`)

All five theorems follow from one inductive invariant, `Ind`, without a hypothesis:

* `Typed`: TypeOK with `Placed` (the position of Acquire lies in its snapshot of
  the live replicas, and a user in a dial or an operation holds a slot) and
  `Locked` (who holds `mu` is the one who waits for a sub-pool to drain, the
  replica of which is dead; the health loop's list are dead replicas);
* `OneHolder`: each connection that is out has one holder;
* `Retired`: closed sub-pools keep nothing idle, the sub-pool of a dead replica is
  closed and empty or someone waits under `mu` for it to be, and earlier
  generations are closed and empty;
* `LiveIsOpen`, and `Closes`: of the replicas that Close has passed, every sub-pool there
  was when it was called is closed, and no generation goes back.

LiveIsOpen alone is not inductive: that the health loop's new sub-pool is open and
the one it replaces is empty needs `Retired`, which needs that nothing comes into a
closed sub-pool (`Calm`), which needs OneHolder for the slots that are given back.
What the users' actions do to the slots is stated once (`Effect`). That the list of
live replicas exists and is no longer than the replicas are many, so that the
positions of `Acquire` stay inside it, rests on `Counting!Listing`.

### Composite (`CompositeProofs`)

`Shaped` (offsets are numbers, each inner column holds values of its own type, and
a block just written is the one the column holds) is inductive and gives
`TypeCorrect`. `Sound` says that unless the last block was damaged, or decoded onto
rows of a FixedString part, the offsets are in order, end where every inner column
ends, and cut out of them the rows of `content`. `ViewIsContent` alone would not do: a
map's offsets may select the right rows while the inner columns are longer, and the
next Append then goes wrong. `ViewIsContentHolds` and `WrittenIsContentHolds` have no
hypothesis: decodes may follow each other without a Reset, and blocks may have any
damage.

### LowCardinality (`LowCardinalityProofs`)

* `TypeCorrect`: for all blocks, damaged or not.
* Keys as bytes. `KeyOfBytes`: the bytes of a key below `Place[w]`, put together
  again, are the key. Byte j times its place is the difference of two neighbours in
  a chain (`Digit`), which telescopes; that the bytes of key i lie where `key` looks
  for them is `BytePlace`. `KeyTypeFits`: the width chosen has room for every key,
  at each threshold of KeyTypeFor. `OrderedType`: the dictionary has every value of
  the rows, by the least row that has it.
* `ViewIsContentHolds`: if not `Mixed`, that is if nobody appends to a column that
  holds decoded rows (ensureExpanded drops them). All three properties exempt types
  without a case, and RoundTrip rows with a NaN: DictStandsForRows and BlockIsTaken in section 3.
* `RoundTripHolds`: if not `Mixed` and neither rows appended nor rows of a block
  exceed `Place[8]`, which is 2^64 for a radix of 256: above that no key type has
  room. A slice of Go is shorter. RoundTrip needs ViewIsContent as the part of the
  invariant that says what is encoded.
* `DamageReportedHolds`: if all key types exist (no `width` damage); the switch of
  decodeKeyIndices has no default. An empty dictionary of uint8 panics instead.

### Str (`StrProofs`)

The varints need no state. `RoundTrip`: the groups that PutUVarint writes are the
digits of the number, their sum so far is the remainder (`SumsOfDigits`), and
readUVarint adds them up again; `ReadsGroups`: of any groups, the first without a
continuation bit ends the number, and it overflows exactly when the sum does not
fit. `VarintExactHolds` is the two together.

The other four theorems follow from one inductive invariant, `IInv`, without a
hypothesis:

* `Buffer`: the buffer is an arena, as long as what is in use and as the largest
  block so far;
* `Block`: the rows read so far are a part of the block, and none between blocks;
* `ReadSoFar`: they lie one after the other from the start of the buffer and hold
  the bytes that were sent;
* `References`: what `Data` and a caller's strings point to lies in an arena;
* `Whole`: between blocks, unless a decode failed, the rows are those given.

RowsAreGiven is `Whole` and is not inductive: that the end of a block leaves the
right rows needs `ReadSoFar`, and that the next row does not overwrite an earlier
one needs that each begins where the one before ends. When the buffer is replaced
in the middle of a block, the bytes so far must be in the new one: ReadSoFar speaks
of the current buffer only, so `Enlarges` shows that they are copied. What a read
may change is stated once (`Reads`, from `ReadIntoDoes`), and used for whole and
for broken reads. `KeptUntilRereadHolds` and `GrowsBeyondPeakHolds` are action
properties: no step but a read writes to an arena (`OnlyReadsWrite`), and a read
that moves the buffer leaves all earlier arenas alone.

### Dsn (`DsnProofs`)

`IInv` says what is true of the Config after each piece of a DSN:

* `Built`: the fields of the pieces already taken are what the DSN says, and those
  pieces have no flaw; of the parameters this is said for the set visited so far,
  so that the order drops out;
* `Refused`: if an error was returned, it is `Verdict`, which names the error from
  the DSN alone;
* `Returned`, `Used`: what ParseDSN and ParsePoolDSN, and then Connect and New,
  make of it.

ErrorIsDetermined is not inductive: that a DSN which is refused at a later piece,
or accepted, had no flaw in an earlier one is in `Built`. All parameters that are
wrong end in the same kind of error, which is why their order may not show; the
proof uses it in `StepParam`. A DSN is checked by the code piece by piece and by
the property as a whole: `VerdictIs`, `TrimIs` and `PathIs` relate the two for
hosts and paths of any length. `PoolHasRoomHolds` holds for every even N32: if half
of it is 2, then 2 is already negative.

### Scalars (`ScalarsProofs`)

From below:

* Bytes. `IsLE(buf, n, s)`: buf holds the s lowest bytes of n, also of a negative n.
  Parts of it are the bytes of a quotient (`Pieces`), the bytes of two numbers side
  by side are those of their sum (`Joined`), words are read and written as bytes
  (`ReadsWord`, `PutsWord`), big.Int reads them back reversed (`SetReverse`), and the
  magnitude it writes, padded and reversed, is again IsLE (`MagnitudeIs`).
* Words. `Val128` and `Val256` are the numbers words stand for without a sign.
  What holds of two words below b holds of two halves below b*b: negation carries
  from part to part (`NegParts`), the top bit tells the upper half of the numbers
  (`TopParts`), the higher part decides the order (`OrderOfParts`). Each is proved once
  and used for 128 and for 256 bits.
* Conversions. `From128`, `From256`, `FromU128`, `FromU256`: FromBigInt fails exactly
  outside the range of the type, and a value it yields reads back as the number.
  `Wire128`, `Wire256`: so do the bytes the server sends. `Cmp128`, `CmpU128`, `CmpU256`:
  Cmp is the order of the numbers. Int256.Cmp is not, see BadCmp.
* Columns. Each of them rounds, down to `Coarse` units and then towards zero to `Fine`
  ones of these, and stores the result: `StoreKeeps`, kind by kind. `RoundedIs`:
  rounding is within a unit, and what fits still fits.

`TypeInv` is inductive and gives `TypeCorrect` and, with StoreKeeps,
`OutOfRangeRefusedHolds`. RowIsGiven and OrderKept are not inductive, since how a row
reads says nothing of what is stored: `RowsInv` says that the stored number is the
rounded one (`Kept`). For enums `EnumInv` keeps the two maps inverse, also after an
Infer that failed, and equal to the type after one that did not.
`RowIsGivenHolds`, `OrderKeptHolds` and `EnumReadsHolds` assume not `Reinfer`: Infer on
a column that holds rows changes what they read as.

### Lemmas the proofs share (`Counting`)

A nonempty set of numbers has a least one (`Least`): every induction above is a
least counterexample. `Recursion`: a function given by its value at 0 and by how
each value follows from the one before exists, so that a recursive function (powers
of the group size, places of bytes, sums of digits) may be replaced by its equations.
`PowersExist`, `PowersAdd`, `PowersGrow` and `SumsExist`, `SumsDefined`, `SumsBelow`,
`SumsOfNumber` say this of powers and of sums of digits in any base; `Quotient`,
`Modulo`, `Digit` and `DivDiv` are the arithmetic underneath; `Listing` lists a
finite set in order.

### Only model-checked

* Liveness: OperationReturns, DrainReturns, AcquireReturns. Fairness and ENABLED
  are beyond the prover. The refinement of Session has no fairness: it is about
  what may be reported, not about when.

## 5. Not modelled

* Compression: blocks are abstract packets. `SelectStream.Next` does not switch
  the reader to compression; see the list below.
* Contents of blocks and encodings of values of all columns but the keys of
  LowCardinality and the values of `Scalars`; tuples of more than two fields; the
  text of types, which Infer parses; IP and UUID columns, which copy bytes;
  padding and truncation of FixedString.
* Lengths of strings that do not fit an int, and lists of hosts with brackets,
  which versions of net/url treat differently.
* Blocking writes: a flush on an open socket succeeds. The deadlock of an
  InsertStream whose server stops reading because nobody reads its packets is a
  hazard without a property.
* What an INSERT that was retried has stored twice: Pool does not follow data.
* Arrays and maps as inner columns of arrays and maps.
* puddle destroys an idle connection in a goroutine of its own; `Pool` takes it as done.
* `Pool.State` and `AddrStates`, which only read.

Behaviours met while reading that no property covers, besides the entries of
PROJECT.json's hazards that carry a note:

- `conn/stream.go:99`: `Next` does not switch the reader to compression, though
  the query asks for it when it is configured. Blocks are abstract packets here.
- `pool/pool.go:381`: the health checks use the context given to `New`; once it
  is done every probe fails and no replica is revived. Whether a probe succeeds
  is a free choice in `Pool`, and no fairness promises it.
- `column/enum8.go:44`: the empty name stores 0 before the map is looked up, even if
  the type gives it another value. EnumReads promises nothing of it.
- `column/datetime64.go:39`: `Infer` on a column that holds rows changes what
  they mean. The code makes no promise for it: the run infers only empty
  columns, and with `Reinfer = TRUE` `RowIsGiven` is violated.
- `column/str.go:110` and `114`: a length of 2^63 or more becomes negative, and
  strings of 128 bytes and more make the buffer grow to the byte. Blocks of
  `Str` have lengths of strings that exist, and it has no measure of cost.

## 6. Plan

Done: Server, Conn, Stream, Client with its abstract Session, Pool,
LowCardinality, Composite, Str, WideInts and Scalars, Dsn. Proved: every safety
and action property of every passing run, and the refinement of Session.
Next: `Pool` over `Client` connections, to follow a retried INSERT to the server.
