------------------------------- MODULE Server -------------------------------
(***************************************************************************)
(* The environment of one connection: the TCP socket and the ClickHouse    *)
(* server at its other end.  Neither is part of the repository; both are   *)
(* modelled from how conn/ uses them.                                      *)
(*                                                                         *)
(* The client's bytes reach the server in order (wire), the server's       *)
(* packets reach the client in order (inbox).  A packet is one element of  *)
(* inbox; a reader that stops in the middle of a packet leaves a Junk      *)
(* element at the head, bytes that the next reader takes for a new packet. *)
(*                                                                         *)
(* The server answers a query with optional packets and then exactly one   *)
(* terminal packet, EndOfStream or Exception.  For an INSERT it first      *)
(* sends a header block, then receives data blocks up to an empty one.     *)
(***************************************************************************)
EXTENDS Naturals, Sequences

CONSTANTS
    Chatter,     \* the optional packet kinds this server sends
    Schemas,     \* the column layouts of query results
    MaxQueries,  \* bound: requests sent over the connection
    MaxPackets,  \* bound: optional packets of one response
    MaxRows,     \* bound: rows of one block
    Window,      \* bound: packets in flight, the TCP window
    Faults       \* what may go wrong: "throw", "net", "hang", "ctx", "close"

Blocks == {"Data", "Totals", "Extremes", "ProfileEvents", "Log"}
Infos == {"Progress", "Profile", "TableColumns"}
Terminals == {"EndOfStream", "Exception", "Pong"}

\* Junk: the unread rest of a packet.  Cut: a packet the connection's end
\* truncated after its code.
Kinds == Blocks \cup Infos \cup Terminals \cup {"Hello", "Junk", "Cut"}

\* "none" for packets without columns, "empty" for a block of no columns.
Layouts == Schemas \cup {"events", "log", "empty", "none"}

ASSUME ServerAssumption ==
    /\ Chatter \subseteq (Blocks \cup Infos) \ {"Data"}
    /\ MaxQueries \in Nat /\ MaxPackets \in Nat /\ MaxRows \in Nat
    /\ Window \in Nat \ {0}
    /\ Faults \subseteq {"throw", "net", "hang", "ctx", "close"}
    /\ \A s \in Schemas : s \notin {"events", "log", "empty", "none"}

Queries == 1..MaxQueries

Packet == [kind : Kinds, rows : Nat, layout : Layouts, q : Nat]

ClientKinds == {"Hello", "Addendum", "Query", "Ping", "Data", "Empty", "Cancel"}
\* op: what a Query asks for.  good: a Data block the server can parse.
Message == [kind : ClientKinds, q : Nat, op : {"exec", "select", "insert", "none"},
            good : BOOLEAN]

Phases == {"greet", "addendum", "idle", "run", "header", "receive", "finish",
           "discard", "gone", "hung"}

VARIABLES
    sock,   \* the client's socket: "none", "open", "reset" (by the peer), "closed"
    wire,   \* client messages the server has not read
    inbox,  \* server packets the client has not read
    srv,    \* the server's session on this socket
    tally   \* history: rows sent for the server's latest SELECT, blocks it
            \* stored for its latest INSERT

serverVars == <<sock, wire, inbox, srv, tally>>

Session == [ph : Phases, q : Nat, op : {"exec", "select", "insert", "none"},
            left : Nat, layout : Layouts]
NewSession(ph) == [ph |-> ph, q |-> 0, op |-> "none", left |-> 0, layout |-> "none"]

ServerTypeOK ==
    /\ sock \in {"none", "open", "reset", "closed"}
    /\ wire \in Seq(Message)
    /\ inbox \in Seq(Packet)
    /\ srv \in Session
    /\ tally \in Nat

ServerInit ==
    /\ sock = "none"
    /\ wire = << >>
    /\ inbox = << >>
    /\ srv = NewSession("gone")
    /\ tally = 0

Pack(kind, rows, layout) ==
    [kind |-> kind, rows |-> rows, layout |-> layout, q |-> srv.q]

Send(p) == Len(inbox) < Window /\ inbox' = Append(inbox, p)

\* The layout of a block: totals and extremes have the columns of the result,
\* profile events and logs have columns of their own.
LayoutOf(kind) ==
    CASE kind \in {"Data", "Totals", "Extremes"} -> srv.layout
      [] kind = "ProfileEvents" -> "events"
      [] kind = "Log" -> "log"
      [] OTHER -> "none"

\* What the server may send in each phase before it goes on.
Optional ==
    CASE srv.ph = "run" -> Chatter \ {"TableColumns"}
      [] srv.ph = "header" -> Chatter \cap {"Progress", "ProfileEvents", "Log", "TableColumns"}
      [] srv.ph \in {"receive", "finish"} -> Chatter \cap {"Progress", "Profile", "ProfileEvents", "Log"}
      [] OTHER -> {}

-----------------------------------------------------------------------------
(* The server reads one client message. *)

Reset == sock' = "reset" /\ wire' = << >> /\ srv' = NewSession("gone")

\* The handshake.
ServerGreets(m) ==
    /\ srv.ph = "greet" /\ m.kind = "Hello"
    /\ \/ /\ Send(Pack("Hello", 0, "none"))
          /\ srv' = [srv EXCEPT !.ph = "addendum"]
       \/ /\ "throw" \in Faults
          /\ Send(Pack("Exception", 0, "none"))
          /\ srv' = [srv EXCEPT !.ph = "gone"]
    /\ wire' = Tail(wire) /\ UNCHANGED <<sock, tally>>

ServerReady(m) ==
    /\ srv.ph = "addendum" /\ m.kind = "Addendum"
    /\ srv' = [srv EXCEPT !.ph = "idle"]
    /\ wire' = Tail(wire) /\ UNCHANGED <<sock, inbox, tally>>

ServerStarts(m) ==
    /\ srv.ph = "idle" /\ m.kind = "Query"
    /\ \E s \in Schemas :
          srv' = [ph |-> IF m.op = "insert" THEN "header" ELSE "run",
                  q |-> m.q, op |-> m.op, left |-> MaxPackets, layout |-> s]
    /\ tally' = 0
    /\ wire' = Tail(wire) /\ UNCHANGED <<sock, inbox>>

ServerPongs(m) ==
    /\ srv.ph = "idle" /\ m.kind = "Ping"
    /\ Send([Pack("Pong", 0, "none") EXCEPT !.q = m.q])
    /\ wire' = Tail(wire) /\ UNCHANGED <<sock, srv, tally>>

\* A cancel that arrives late is dropped, one in time ends the query.
ServerCancels(m) ==
    /\ srv.ph \in {"idle", "run", "finish"} /\ m.kind = "Cancel"
    /\ srv' = [srv EXCEPT !.left = 0]
    /\ wire' = Tail(wire) /\ UNCHANGED <<sock, inbox, tally>>

\* The blocks of an INSERT, up to the empty one.
ServerStores(m) ==
    /\ srv.ph = "receive"
    /\ \/ m.kind = "Data" /\ m.good /\ tally' = tally + 1 /\ UNCHANGED srv
       \/ m.kind = "Empty" /\ srv' = [srv EXCEPT !.ph = "finish"] /\ UNCHANGED tally
    /\ wire' = Tail(wire) /\ UNCHANGED <<sock, inbox>>

\* The rest of an INSERT that failed.
ServerDiscards(m) ==
    /\ srv.ph = "discard" /\ m.kind \in {"Data", "Empty"} /\ m.good
    /\ srv' = IF m.kind = "Empty" THEN [srv EXCEPT !.ph = "idle"] ELSE srv
    /\ wire' = Tail(wire) /\ UNCHANGED <<sock, inbox, tally>>

\* A message the phase does not allow, or a block that cannot be parsed: the
\* server gives up the connection.
ServerGivesUp(m) ==
    /\ \/ srv.ph = "idle" /\ m.kind \in {"Data", "Empty"}
       \/ srv.ph \in {"receive", "discard"} /\ m.kind \in {"Query", "Ping", "Cancel"}
       \/ srv.ph \in {"receive", "discard"} /\ ~m.good
    /\ Reset /\ UNCHANGED <<inbox, tally>>

ServerReads ==
    /\ sock = "open" /\ wire # << >>
    /\ LET m == Head(wire) IN
       \/ ServerGreets(m) \/ ServerReady(m) \/ ServerStarts(m) \/ ServerPongs(m)
       \/ ServerCancels(m) \/ ServerStores(m) \/ ServerDiscards(m) \/ ServerGivesUp(m)

(* The server sends one packet of the response. *)

ServerChatters ==
    /\ sock = "open" /\ srv.left > 0
    /\ \E k \in Optional : Send(Pack(k, 0, LayoutOf(k)))
    /\ srv' = [srv EXCEPT !.left = @ - 1]
    /\ UNCHANGED <<sock, wire, tally>>

\* A result block, a header of no rows, or the empty block after the last.
ServerSendsData ==
    /\ sock = "open" /\ srv.ph = "run" /\ srv.left > 0
    /\ \E r \in 0..MaxRows, s \in {srv.layout, "empty"} :
          /\ s = "empty" => r = 0
          /\ Send(Pack("Data", r, s))
          /\ tally' = IF srv.op = "select" THEN tally + r ELSE tally
    /\ srv' = [srv EXCEPT !.left = @ - 1]
    /\ UNCHANGED <<sock, wire>>

ServerSendsHeader ==
    /\ sock = "open" /\ srv.ph = "header"
    /\ Send(Pack("Data", 0, srv.layout))
    /\ srv' = [srv EXCEPT !.ph = "receive"]
    /\ UNCHANGED <<sock, wire, tally>>

ServerEnds ==
    /\ sock = "open" /\ srv.ph \in {"run", "finish"}
    /\ Send(Pack("EndOfStream", 0, "none"))
    /\ srv' = [srv EXCEPT !.ph = "idle"]
    /\ UNCHANGED <<sock, wire, tally>>

\* An Exception ends the response.  One thrown while data is still to come
\* leaves the server discarding blocks up to the empty one.
ServerThrows ==
    /\ "throw" \in Faults
    /\ sock = "open" /\ srv.ph \in {"run", "header", "receive", "finish"}
    /\ Send(Pack("Exception", 0, "none"))
    /\ srv' = [srv EXCEPT !.ph = IF srv.ph = "receive" THEN "discard" ELSE "idle"]
    /\ UNCHANGED <<sock, wire, tally>>

-----------------------------------------------------------------------------
(* Failures of the network. *)

\* What may be left of the packets in flight when the socket dies: a prefix,
\* the next packet possibly truncated (EndOfStream and Pong are one byte).
Remains(s) ==
    {SubSeq(s, 1, k) : k \in 0..Len(s)} \cup
    {Append(SubSeq(s, 1, k - 1), [s[k] EXCEPT !.kind = "Cut"]) :
        k \in {i \in 1..Len(s) : s[i].kind \notin {"EndOfStream", "Pong"}}}

NetworkFails ==
    /\ "net" \in Faults
    /\ sock = "open"
    /\ Reset
    /\ inbox' \in Remains(inbox)
    /\ UNCHANGED tally

\* The server stops without closing the socket.
ServerHangs ==
    /\ "hang" \in Faults
    /\ sock = "open" /\ srv.ph # "hung"
    /\ srv' = [srv EXCEPT !.ph = "hung"]
    /\ UNCHANGED <<sock, wire, inbox, tally>>

ServerSteps ==
    \/ ServerReads \/ ServerChatters \/ ServerSendsData \/ ServerSendsHeader
    \/ ServerEnds \/ ServerThrows

ServerNext == ServerSteps \/ NetworkFails \/ ServerHangs

=============================================================================
