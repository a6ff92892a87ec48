-------------------------------- MODULE Conn --------------------------------
(***************************************************************************)
(* One conn.Conn shared by several callers: the lifecycle state of         *)
(* conn.go, the query operations of exec.go, select.go and insert.go, and  *)
(* the loops in which they read the server's packets.                      *)
(*                                                                         *)
(* An operation takes the connection with lock(), sends its request and    *)
(* reads packets in a loop until its response ends.  pc says in which loop *)
(* a caller is; reading says whether it has passed the loop's look at the  *)
(* context and is blocked in the read.  Operations of streams, which keep  *)
(* the connection across calls, are in Stream.                             *)
(***************************************************************************)
EXTENDS Server

CONSTANTS
    Callers,  \* goroutines that use the connection
    Shapes    \* how a caller's columns meet the result, see below

\* "fits": as many columns as the result.  "miscount": another number.
\* "stateful": as many, one of them with per-block state (LowCardinality).
ASSUME ConnAssumption == Shapes \subseteq {"fits", "miscount", "stateful"}

VARIABLES
    state,      \* Conn.state
    skip,       \* Conn.skipResultsCode and the layout Conn.skipResults decodes
    nextq,      \* number of the next request
    suspect,    \* history: a caller was handed an error other than the server's,
                \* or a reader left a packet unread and told no one
    pc,         \* what each caller is doing
    reading,    \* blocked in a read of the loop
    cancelled,  \* callers whose context is done
    qid,        \* the caller's request
    n,          \* rows counted (SELECT), blocks sent (INSERT)
    shape,      \* the columns bound by the caller
    held,       \* the rows those columns hold: every DecodeColumn overwrites
    res         \* outcome of the caller's latest operation

callVars == <<pc, reading, cancelled, qid, n, shape, held, res>>
connVars == <<state, skip, nextq, suspect>>
vars == <<serverVars, connVars, callVars>>

Drains == {"drain_next", "drain_cancel", "drain_close"}
\* Loops that look at the context before each read.
CtxLoops == {"exec", "select", "insert_response", "s_next", "is_response"}
Loops == CtxLoops \cup Drains \cup {"hello", "ping", "insert_header", "is_header"}
\* Between two calls of a stream.
Open == {"s_open", "s_done", "is_open"}
Results == {"none", "ok", "network", "protocol", "server", "internal"}

ConnTypeOK ==
    /\ state \in {"Initial", "Ready", "Busy", "Closed"}
    /\ skip \in [code : Blocks \cup {"none"}, layout : Layouts]
    /\ nextq \in Nat
    /\ suspect \in BOOLEAN
    /\ pc \in [Callers -> Loops \cup Open \cup {"idle"}]
    /\ reading \in [Callers -> BOOLEAN]
    /\ cancelled \subseteq Callers
    /\ qid \in [Callers -> Nat]
    /\ n \in [Callers -> Nat]
    /\ shape \in [Callers -> Shapes \cup {"unbound"}]
    /\ held \in [Callers -> Nat]
    /\ res \in [Callers -> Results]

ConnInit ==
    /\ state = "Initial"
    /\ skip = [code |-> "none", layout |-> "none"]
    /\ nextq = 1
    /\ suspect = FALSE
    /\ pc = [c \in Callers |-> "idle"]
    /\ reading = [c \in Callers |-> FALSE]
    /\ cancelled = {}
    /\ qid = [c \in Callers |-> 0]
    /\ n = [c \in Callers |-> 0]
    /\ shape = [c \in Callers |-> "unbound"]
    /\ held = [c \in Callers |-> 0]
    /\ res = [c \in Callers |-> "none"]

-----------------------------------------------------------------------------
(* Lifecycle. *)

Msg(kind, q, op, good) == [kind |-> kind, q |-> q, op |-> op, good |-> good]

\* A flush succeeds on an open socket; once the peer has reset it, the kernel
\* may still take the bytes and lose them.
Flush(ms) ==
    /\ sock \in {"open", "reset"}
    /\ wire' = IF sock = "open" THEN wire \o ms ELSE wire
FlushFails == sock \in {"reset", "closed"} /\ UNCHANGED wire

\* sendCancel ignores the outcome of its flush.
sendCancel(c) ==
    wire' = IF sock = "open" THEN Append(wire, Msg("Cancel", qid[c], "none", TRUE)) ELSE wire

\* The socket is closed by the client.
CloseSocket == sock' = "closed" /\ wire' = << >> /\ srv' = NewSession("gone")

\* The state unlock() leaves, whatever the state was.
unlock == "Ready"

Connect(c) ==
    /\ pc[c] = "idle" /\ state = "Initial" /\ sock # "open"
    /\ \/ /\ sock' = "open"
          /\ wire' = <<Msg("Hello", 0, "none", TRUE)>>
          /\ srv' = NewSession("greet")
          /\ state' = "Busy"
          /\ pc' = [pc EXCEPT ![c] = "hello"]
          /\ reading' = [reading EXCEPT ![c] = TRUE]
          /\ UNCHANGED res
       \/ /\ "net" \in Faults  \* dial, or the flush of the hello
          /\ CloseSocket
          /\ res' = [res EXCEPT ![c] = "network"]
          /\ UNCHANGED <<state, pc, reading>>
    /\ inbox' = << >>
    /\ UNCHANGED <<tally, skip, nextq, suspect, cancelled, qid, n, shape, held>>

\* Fault: a failed handshake returns without closing the socket.
ConnectFailsOpen(c, r) ==
    /\ state' = "Initial"
    /\ res' = [res EXCEPT ![c] = r]
    /\ UNCHANGED <<sock, wire, srv, inbox>>

\* Every failure of the handshake closes the socket and drops the Conn.
ConnectFails(c, r) ==
    /\ CloseSocket /\ inbox' = << >>
    /\ state' = "Initial"
    /\ res' = [res EXCEPT ![c] = r]

ReadHello(c) ==
    /\ pc[c] = "hello"
    /\ \/ /\ inbox # << >> /\ Head(inbox).kind = "Hello"
          /\ \/ /\ Flush(<<Msg("Addendum", 0, "none", TRUE)>>)
                /\ inbox' = Tail(inbox)
                /\ state' = "Ready"
                /\ res' = [res EXCEPT ![c] = "ok"]
                /\ UNCHANGED <<sock, srv>>
             \/ sock \in {"reset", "closed"} /\ ConnectFails(c, "network")
       \/ inbox # << >> /\ Head(inbox).kind = "Exception" /\ ConnectFails(c, "server")
       \/ inbox # << >> /\ Head(inbox).kind = "Cut" /\ ConnectFails(c, "protocol")
       \/ inbox = << >> /\ sock # "open" /\ ConnectFails(c, "network")
    /\ pc' = [pc EXCEPT ![c] = "idle"]
    /\ reading' = [reading EXCEPT ![c] = FALSE]
    /\ UNCHANGED <<tally, skip, nextq, suspect, cancelled, qid, n, shape, held>>

\* Any caller may close, also while another is busy; the Conn exists once
\* Connect has returned.  Packets already buffered can still be read.
Close(c) ==
    /\ "close" \in Faults
    /\ pc[c] = "idle" /\ state \in {"Ready", "Busy"}
    /\ \A d \in Callers : pc[d] # "hello"
    /\ state' = "Closed"
    /\ CloseSocket
    /\ inbox' \in Remains(inbox)
    /\ UNCHANGED <<tally, skip, nextq, suspect, callVars>>

-----------------------------------------------------------------------------
(* Starting an operation. *)

\* Fault: lock() refuses only a closed connection.
LockUnlessClosed == state # "Closed"

\* lock() refuses a connection that is not ready.
lock == state = "Ready"

\* lock(), then the request is flushed; p is where the caller goes on.  A lock
\* that is refused changes nothing, nor does an Insert whose columns hold no
\* rows or differ in length: it gives the connection back at once.
Begin(c, p, m, sh) ==
    /\ pc[c] = "idle" /\ lock /\ nextq \in Queries
    /\ \/ /\ Flush(<<m>>)
          /\ state' = "Busy"
          /\ pc' = [pc EXCEPT ![c] = p]
          /\ res' = [res EXCEPT ![c] = "none"]
          /\ UNCHANGED suspect
       \/ /\ FlushFails
          /\ state' = unlock
          /\ res' = [res EXCEPT ![c] = "network"]
          /\ suspect' = TRUE
          /\ UNCHANGED pc
    /\ reading' = [reading EXCEPT ![c] = pc'[c] \in Loops \ CtxLoops]
    /\ cancelled' = cancelled \ {c}
    /\ qid' = [qid EXCEPT ![c] = nextq]
    /\ n' = [n EXCEPT ![c] = 0]
    /\ shape' = [shape EXCEPT ![c] = sh]
    /\ held' = [held EXCEPT ![c] = 0]
    /\ nextq' = nextq + 1
    /\ UNCHANGED <<sock, inbox, srv, tally, skip>>

writeQuery(op) == Msg("Query", nextq, op, TRUE)

Exec(c) == Begin(c, "exec", writeQuery("exec"), "unbound")
Select(c) == \E sh \in Shapes : Begin(c, "select", writeQuery("select"), sh)
Ping(c) == Begin(c, "ping", Msg("Ping", nextq, "none", TRUE), "unbound")
Insert(c) == Begin(c, "insert_header", writeQuery("insert"), "unbound")

-----------------------------------------------------------------------------
(* The end of an operation. *)

\* Where a caller goes when its loop ends: a stream stays with the caller,
\* every other operation gives the connection back (deferred unlock,
\* releaseFn).
After(p) == IF p \in {"s_next", "drain_next", "drain_cancel"} THEN "s_done" ELSE "idle"

\* The outcome the caller sees.  A drain reports nothing; the one inside Next
\* reports the context's error.
Outcome(c, r) ==
    CASE pc[c] = "drain_next" -> "internal"
      [] pc[c] \in {"drain_cancel", "drain_close"} -> res[c]
      [] OTHER -> r

\* The locals of the operation are gone once it has returned.
Forget(c) ==
    /\ cancelled' = cancelled \ {c}
    /\ qid' = [qid EXCEPT ![c] = 0]
    /\ n' = [n EXCEPT ![c] = 0]
    /\ shape' = [shape EXCEPT ![c] = "unbound"]
    /\ held' = [held EXCEPT ![c] = 0]

locals == <<cancelled, qid, n, shape, held>>

\* Fault: the caller returns with its read still pending.
ReturnReading(c, r) ==
    /\ pc' = [pc EXCEPT ![c] = After(pc[c])]
    /\ \/ After(pc[c]) = "idle" /\ state' = unlock /\ Forget(c)
       \/ After(pc[c]) # "idle" /\ UNCHANGED <<state, locals>>
    /\ res' = [res EXCEPT ![c] = Outcome(c, r)]
    /\ UNCHANGED <<reading, suspect>>

\* A drain that stops inside a packet is suspect though it reports nothing.
Return(c, r) ==
    /\ pc' = [pc EXCEPT ![c] = After(pc[c])]
    /\ \/ After(pc[c]) = "idle" /\ state' = unlock /\ Forget(c)
       \/ After(pc[c]) # "idle" /\ UNCHANGED <<state, locals>>
    /\ reading' = [reading EXCEPT ![c] = FALSE]
    /\ res' = [res EXCEPT ![c] = Outcome(c, r)]
    /\ suspect' = (suspect \/ r = "protocol" \/ (pc[c] \notin Drains /\ r \notin {"ok", "server"}))

\* Fault: the count of the rows is that of the last block.
FillLast(c, r) ==
    /\ n' = [n EXCEPT ![c] = IF r > 0 THEN r ELSE @]
    /\ held' = [held EXCEPT ![c] = IF r > 0 THEN r ELSE @]

\* A block of r rows is decoded into the columns, over what they held.
Fill(c, r) ==
    /\ n' = [n EXCEPT ![c] = @ + r]
    /\ held' = [held EXCEPT ![c] = IF r > 0 THEN r ELSE @]

\* Back to the top of the loop, with r more rows read.
Continue(c, r) ==
    /\ reading' = [reading EXCEPT ![c] = pc[c] \notin CtxLoops]
    /\ Fill(c, r)
    /\ UNCHANGED <<state, suspect, pc, res, cancelled, qid, shape>>

-----------------------------------------------------------------------------
(* The loops that read the response. *)

LoopOf(p) ==
    CASE p \in {"insert_header", "is_header"} -> "column_info"
      [] p \in {"insert_response", "is_response"} -> "insert_response"
      [] p \in Drains -> "drain"
      [] OTHER -> p

\* What a loop does with a packet: the cases of its switch.
\*   end, throw  the response is over (a result; the server's exception)
\*   pass        decoded and dropped      ignore  the code is dropped, the
\*   skip        skipBlock                        payload is not read
\*   rows        decoded into columns     header  the columns of an INSERT
\*   reject      the loop returns an error
Treat(loop, kind) ==
    IF kind = "Cut" THEN "reject"
    ELSE IF loop = "ping" THEN IF kind = "Pong" THEN "end" ELSE "reject"
    ELSE CASE kind = "EndOfStream" -> IF loop = "column_info" THEN "reject" ELSE "end"
           [] kind = "Exception" -> IF loop = "drain" THEN "pass" ELSE "throw"
           [] kind = "Data" -> CASE loop \in {"select", "s_next"} -> "rows"
                                 [] loop = "column_info" -> "header"
                                 [] OTHER -> "skip"
           [] kind \in {"ProfileEvents", "Log"} -> "skip"
           [] kind \in {"Totals", "Extremes"} /\ loop \in {"exec", "select", "s_next", "drain"} -> "skip"
           [] kind \in {"Progress", "Profile"} -> "pass"
           [] kind = "TableColumns" /\ loop # "select" -> "pass"
           [] OTHER -> IF loop = "insert_response" THEN "reject" ELSE "ignore"

\* The code under which a loop lets skipBlock cache the layout.
SkipCode(loop, kind) ==
    CASE kind = "Data" -> "Data"
      [] kind \in {"Totals", "Extremes"} -> IF loop = "exec" THEN "Data" ELSE "Totals"
      [] OTHER -> IF loop = "drain" THEN "ProfileEvents" ELSE kind

\* The layout skipBlock holds the next block against.
Cached(code) == IF skip.code = code THEN skip.layout ELSE "none"
\* Results.Auto takes the first block's layout and then requires it; a block
\* of no columns is not looked at.
Skippable(code, layout) == layout = "empty" \/ Cached(code) \in {"none", layout}
skipBlock(code, layout) ==
    skip' = [code |-> code,
             layout |-> IF layout # "empty" /\ Cached(code) = "none"
                        THEN layout ELSE Cached(code)]

\* The unread rest of a packet, which the next read takes for a packet.
Junk == [kind |-> "Junk", rows |-> 0, layout |-> "none", q |-> 0]
Leftover == IF Head(inbox).kind \in {"EndOfStream", "Pong", "Cut"}
            THEN Tail(inbox) ELSE <<Junk>> \o Tail(inbox)

\* Junk may look like any packet; as a block it does not parse.
Seen(p) == IF p.kind = "Junk"
           THEN {"EndOfStream", "Exception", "Pong", "Progress", "Cut"} ELSE {p.kind}

Reads(c, t) ==
    /\ pc[c] \in Loops \ {"hello"} /\ reading[c] /\ inbox # << >>
    /\ \E k \in Seen(Head(inbox)) : Treat(LoopOf(pc[c]), k) = t

readVars == <<sock, srv, tally, nextq>>

\* The context is looked at only at the top of the loop, never during a read.
CheckContext(c) ==
    /\ pc[c] \in CtxLoops /\ ~reading[c] /\ c \notin cancelled
    /\ reading' = [reading EXCEPT ![c] = TRUE]
    /\ UNCHANGED <<serverVars, connVars, pc, res, locals>>

\* Exec, Select, Insert and InsertStream.Close send a cancel and return
\* without reading the rest of the response.
ContextDone(c) ==
    /\ pc[c] \in CtxLoops \ {"s_next"} /\ ~reading[c] /\ c \in cancelled
    /\ sendCancel(c)
    /\ Return(c, "internal")
    /\ UNCHANGED <<sock, inbox, srv, tally, skip, nextq>>

ReadEnd(c) ==
    /\ Reads(c, "end")
    /\ inbox' = Tail(inbox)
    /\ Return(c, "ok")
    /\ UNCHANGED <<readVars, wire, skip>>

ReadException(c) ==
    /\ Reads(c, "throw")
    /\ inbox' = Tail(inbox)
    /\ Return(c, "server")
    /\ UNCHANGED <<readVars, wire, skip>>

\* Junk runs out as a loop reads on.
ReadPass(c) ==
    /\ \/ Reads(c, "pass") /\ inbox' = Tail(inbox)
       \/ Reads(c, "ignore") /\ inbox' = IF Head(inbox) = Junk THEN Tail(inbox) ELSE Leftover
    /\ Continue(c, 0)
    /\ UNCHANGED <<readVars, wire, skip>>

ReadSkip(c) ==
    /\ Reads(c, "skip")
    /\ LET p == Head(inbox)
           code == SkipCode(LoopOf(pc[c]), p.kind)
       IN  /\ skipBlock(code, p.layout)
           /\ \/ /\ Skippable(code, p.layout)
                 /\ inbox' = Tail(inbox)
                 /\ Continue(c, 0)
              \/ /\ ~Skippable(code, p.layout)
                 /\ inbox' = Leftover
                 /\ Return(c, "protocol")
    /\ UNCHANGED <<readVars, wire>>

\* handleDataBlock: the column count is checked even for a header.
ReadSelectRows(c) ==
    /\ Reads(c, "rows") /\ pc[c] = "select"
    /\ LET p == Head(inbox) IN
       \/ /\ p.layout = "empty" \/ shape[c] # "miscount"
          /\ inbox' = Tail(inbox)
          /\ Continue(c, p.rows)
       \/ /\ p.layout # "empty" /\ shape[c] = "miscount"
          /\ inbox' = Leftover
          /\ Return(c, "protocol")
    /\ UNCHANGED <<readVars, wire, skip>>

\* Insert sends its block and the empty one, and goes on to the response.
InsertData(c) ==
    \/ /\ Flush(<<Msg("Data", qid[c], "none", TRUE), Msg("Empty", qid[c], "none", TRUE)>>)
       /\ pc' = [pc EXCEPT ![c] = "insert_response"]
       /\ reading' = [reading EXCEPT ![c] = FALSE]
       /\ n' = [n EXCEPT ![c] = 1]
       /\ UNCHANGED <<state, suspect, res, cancelled, qid, shape, held>>
    \/ FlushFails /\ Return(c, "network")

\* readColumnInfo has the header: Insert goes on with it, an InsertStream is
\* handed to the caller.
ReadHeader(c) ==
    /\ Reads(c, "header")
    /\ \/ /\ Head(inbox).rows # 0
          /\ inbox' = Leftover
          /\ Return(c, "protocol")
          /\ UNCHANGED wire
       \/ /\ Head(inbox).rows = 0 /\ pc[c] = "is_header"
          /\ inbox' = Tail(inbox)
          /\ pc' = [pc EXCEPT ![c] = "is_open"]
          /\ reading' = [reading EXCEPT ![c] = FALSE]
          /\ UNCHANGED <<wire, state, suspect, res, locals>>
       \/ /\ Head(inbox).rows = 0 /\ pc[c] = "insert_header"
          /\ inbox' = Tail(inbox)
          /\ InsertData(c)
    /\ UNCHANGED <<readVars, skip>>

\* A header block that breaks off in its counts is reported as a network error.
ReadReject(c) ==
    /\ Reads(c, "reject")
    /\ inbox' = Leftover
    /\ \/ Return(c, "protocol")
       \/ LoopOf(pc[c]) = "column_info" /\ Head(inbox).kind = "Cut" /\ Return(c, "network")
    /\ UNCHANGED <<readVars, wire, skip>>

\* Fault: a read that fails is tried again.
ReadFailsAgain(c) ==
    /\ pc[c] \in Loops \ {"hello"} /\ reading[c]
    /\ inbox = << >> /\ sock # "open"
    /\ Continue(c, 0)
    /\ UNCHANGED <<readVars, inbox, wire, skip>>

\* Fault: the end of the input is taken for the end of the response.
ReadFailsOk(c) ==
    /\ pc[c] \in Loops \ {"hello"} /\ reading[c]
    /\ inbox = << >> /\ sock # "open"
    /\ Return(c, "ok")
    /\ UNCHANGED <<readVars, inbox, wire, skip>>

\* Nothing is left to read on a socket that is no longer open.
ReadFails(c) ==
    /\ pc[c] \in Loops \ {"hello"} /\ reading[c]
    /\ inbox = << >> /\ sock # "open"
    /\ Return(c, "network")
    /\ UNCHANGED <<readVars, inbox, wire, skip>>

\* The caller's context is cancelled or its deadline passes.
CtxDone(c) ==
    /\ "ctx" \in Faults
    /\ pc[c] \in CtxLoops \cup {"s_open", "is_open", "insert_header", "is_header"}
    /\ c \notin cancelled
    /\ cancelled' = cancelled \cup {c}
    /\ UNCHANGED <<serverVars, connVars, pc, reading, qid, n, shape, held, res>>

\* One step of a loop the caller is in.
LoopStep(c) ==
    \/ ReadHello(c) \/ CheckContext(c) \/ ContextDone(c)
    \/ ReadEnd(c) \/ ReadException(c) \/ ReadPass(c) \/ ReadSkip(c)
    \/ ReadSelectRows(c) \/ ReadHeader(c) \/ ReadReject(c) \/ ReadFails(c)

=============================================================================
