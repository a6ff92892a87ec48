---------------------------- MODULE ClientProofs ----------------------------
(***************************************************************************)
(* Theorems about Client, for every number of callers and every value of   *)
(* its constants: types, mutual exclusion, sockets, that a response is     *)
(* read by the caller that asked for it, to its end; that Client           *)
(* implements Session: every step of the connection, its callers, the      *)
(* server and the network is a step of what a connection promises, or      *)
(* changes nothing a caller can tell; and that an operation that returns   *)
(* without error has transferred everything.                               *)
(***************************************************************************)
EXTENDS Client, SequenceTheorems, TLAPS

-----------------------------------------------------------------------------
(* The server and the network keep the types of their variables. *)

\* Pack builds a packet of the types.
LEMMA PackType ==
    ASSUME ServerTypeOK, NEW k \in Kinds, NEW r \in Nat, NEW l \in Layouts
    PROVE  Pack(k, r, l) \in Packet
BY DEF Pack, Packet, ServerTypeOK, Session

\* Send appends one to the packets on their way.
LEMMA SendType ==
    ASSUME ServerTypeOK, NEW p \in Packet, Send(p)
    PROVE  inbox' \in Seq(Packet)
BY DEF Send, ServerTypeOK

\* The layout of a packet is one of the layouts.
LEMMA LayoutOfType ==
    ASSUME ServerTypeOK, NEW k
    PROVE  LayoutOf(k) \in Layouts
BY DEF LayoutOf, Layouts, ServerTypeOK, Session

\* A truncated sequence of packets is a sequence of packets.
LEMMA RemainsType ==
    ASSUME NEW s \in Seq(Packet), NEW t \in Remains(s)
    PROVE  t \in Seq(Packet)
<1>1. \A k \in 0..Len(s) : SubSeq(s, 1, k) \in Seq(Packet)
  BY SubSeqProperties
<1>2. CASE t \in {SubSeq(s, 1, k) : k \in 0..Len(s)}
  BY <1>1, <1>2
<1>3. ASSUME NEW k \in {i \in 1..Len(s) : s[i].kind \notin {"EndOfStream", "Pong"}}
      PROVE  Append(SubSeq(s, 1, k - 1), [s[k] EXCEPT !.kind = "Cut"]) \in Seq(Packet)
  <2>1. k - 1 \in 0..Len(s) /\ s[k] \in Packet
    OBVIOUS
  <2>2. [s[k] EXCEPT !.kind = "Cut"] \in Packet
    BY <2>1 DEF Packet, Kinds
  <2> QED BY <1>1, <2>1, <2>2
<1> QED BY <1>2, <1>3 DEF Remains

\* A session that starts or ends is one, and so is one that has moved on.
LEMMA SessionType ==
    /\ \A ph \in Phases : NewSession(ph) \in Session
    /\ \A s \in Session, ph \in Phases : [s EXCEPT !.ph = ph] \in Session
    /\ \A s \in Session, k \in Nat : [s EXCEPT !.left = k] \in Session
BY DEF NewSession, Session, Layouts

\* Every message the server reads keeps the types.
LEMMA ServerReadsType ==
    ASSUME ServerTypeOK, ServerReads
    PROVE  ServerTypeOK'
<1> DEFINE m == Head(wire)
<1>0. /\ m \in Message /\ Tail(wire) \in Seq(Message)
      /\ {"Hello", "Exception", "Pong"} \subseteq Kinds /\ "none" \in Layouts
      /\ {"gone", "addendum", "idle", "finish", "run", "header"} \subseteq Phases
  BY DEF ServerReads, ServerTypeOK, Kinds, Terminals, Layouts, Phases
<1>1. CASE ServerGreets(m)
  <2>1. Pack("Hello", 0, "none") \in Packet /\ Pack("Exception", 0, "none") \in Packet
    BY <1>0, PackType
  <2>2. inbox' \in Seq(Packet)
    BY <1>1, <2>1, SendType DEF ServerGreets
  <2>3. srv' \in Session
    BY <1>0, <1>1, SessionType DEF ServerGreets, ServerTypeOK
  <2> QED BY <1>0, <1>1, <2>2, <2>3 DEF ServerGreets, ServerTypeOK
<1>2. CASE ServerReady(m)
  BY <1>0, <1>2, SessionType DEF ServerReady, ServerTypeOK
<1>3. CASE ServerStarts(m)
  <2>0. PICK s \in Schemas :
            srv' = [ph |-> IF m.op = "insert" THEN "header" ELSE "run",
                    q |-> m.q, op |-> m.op, left |-> MaxPackets, layout |-> s]
    BY <1>3 DEF ServerStarts
  <2>a. m.q \in Nat /\ m.op \in {"exec", "select", "insert", "none"} /\ s \in Layouts
    BY <1>0 DEF Message, Layouts
  <2>1. srv' \in Session
    BY <1>0, <2>0, <2>a, ServerAssumption DEF Session
  <2> QED BY <1>0, <1>3, <2>1 DEF ServerStarts, ServerTypeOK
<1>4. CASE ServerPongs(m)
  <2>a. Pack("Pong", 0, "none") \in Packet /\ m.q \in Nat
    BY <1>0, PackType DEF Message
  <2>1. [Pack("Pong", 0, "none") EXCEPT !.q = m.q] \in Packet
    BY <2>a DEF Packet
  <2>2. inbox' \in Seq(Packet)
    BY <1>4, <2>1, SendType DEF ServerPongs
  <2> QED BY <1>0, <1>4, <2>2 DEF ServerPongs, ServerTypeOK
<1>5. CASE ServerCancels(m)
  BY <1>0, <1>5, SessionType DEF ServerCancels, ServerTypeOK
<1>6. CASE ServerStores(m)
  BY <1>0, <1>6, SessionType DEF ServerStores, ServerTypeOK
<1>7. CASE ServerDiscards(m)
  BY <1>0, <1>7, SessionType DEF ServerDiscards, ServerTypeOK
<1>8. CASE ServerGivesUp(m)
  BY <1>0, <1>8, SessionType DEF ServerGivesUp, Reset, ServerTypeOK
<1> QED BY <1>1, <1>2, <1>3, <1>4, <1>5, <1>6, <1>7, <1>8 DEF ServerReads

\* Every step of the server and of the network keeps the types.
LEMMA ServerType ==
    ASSUME ServerTypeOK, ServerNext
    PROVE  ServerTypeOK'
<1>0. /\ Chatter \subseteq Kinds
      /\ {"Data", "EndOfStream", "Exception"} \subseteq Kinds
      /\ {"none", "empty", srv.layout} \subseteq Layouts
      /\ {"gone", "receive", "idle", "discard", "hung"} \subseteq Phases
  BY ServerAssumption DEF Kinds, Blocks, Infos, Terminals, Layouts, Phases, ServerTypeOK, Session
<1>1. CASE ServerReads
  BY <1>1, ServerReadsType
<1>2. CASE ServerChatters
  <2>1. PICK k \in Optional : Send(Pack(k, 0, LayoutOf(k)))
    BY <1>2 DEF ServerChatters
  <2>2. k \in Kinds
    BY <1>0, <2>1 DEF Optional
  <2>3. Pack(k, 0, LayoutOf(k)) \in Packet
    BY <2>2, LayoutOfType, PackType
  <2>4. inbox' \in Seq(Packet)
    BY <2>1, <2>3, SendType
  <2>5. srv.left - 1 \in Nat
    BY <1>2 DEF ServerChatters, ServerTypeOK, Session
  <2>6. srv' \in Session
    BY <1>2, <2>5, SessionType DEF ServerChatters, ServerTypeOK
  <2> QED BY <1>2, <2>4, <2>6 DEF ServerChatters, ServerTypeOK
<1>3. CASE ServerSendsData
  <2>1. PICK r \in 0..MaxRows, s \in {srv.layout, "empty"} :
            Send(Pack("Data", r, s)) /\ tally' = IF srv.op = "select" THEN tally + r ELSE tally
    BY <1>3 DEF ServerSendsData
  <2>2. Pack("Data", r, s) \in Packet
    BY <1>0, <2>1, PackType
  <2>3. inbox' \in Seq(Packet)
    BY <2>1, <2>2, SendType
  <2>4. tally' \in Nat
    BY <2>1 DEF ServerTypeOK
  <2>5. srv.left - 1 \in Nat
    BY <1>3 DEF ServerSendsData, ServerTypeOK, Session
  <2>6. srv' \in Session
    BY <1>3, <2>5, SessionType DEF ServerSendsData, ServerTypeOK
  <2> QED BY <1>3, <2>3, <2>4, <2>6 DEF ServerSendsData, ServerTypeOK
<1>4. CASE ServerSendsHeader
  <2>1. inbox' \in Seq(Packet)
    BY <1>0, <1>4, PackType, SendType DEF ServerSendsHeader
  <2> QED BY <1>0, <1>4, <2>1, SessionType DEF ServerSendsHeader, ServerTypeOK
<1>5. CASE ServerEnds
  <2>1. inbox' \in Seq(Packet)
    BY <1>0, <1>5, PackType, SendType DEF ServerEnds
  <2> QED BY <1>0, <1>5, <2>1, SessionType DEF ServerEnds, ServerTypeOK
<1>6. CASE ServerThrows
  <2>1. inbox' \in Seq(Packet)
    BY <1>0, <1>6, PackType, SendType DEF ServerThrows
  <2> QED BY <1>0, <1>6, <2>1, SessionType DEF ServerThrows, ServerTypeOK
<1>7. CASE NetworkFails
  BY <1>0, <1>7, RemainsType, SessionType DEF NetworkFails, Reset, ServerTypeOK
<1>8. CASE ServerHangs
  BY <1>0, <1>8, SessionType DEF ServerHangs, ServerTypeOK
<1> QED BY <1>1, <1>2, <1>3, <1>4, <1>5, <1>6, <1>7, <1>8 DEF ServerNext, ServerSteps

-----------------------------------------------------------------------------
(* So do the steps of the callers. *)

\* The part of TypeOK that is about the connection and its callers.
CallersOK ==
    /\ ConnTypeOK
    /\ \A c \in Callers : reading[c] => pc[c] \in Loops

SkipType == [code : Blocks \cup {"none"}, layout : Layouts]

\* What the callers send is a message.
LEMMA MsgType ==
    ASSUME NEW k \in ClientKinds, NEW q \in Nat,
           NEW o \in {"exec", "select", "insert", "none"}, NEW g \in BOOLEAN
    PROVE  Msg(k, q, o, g) \in Message
BY DEF Msg, Message

\* A flush, successful or not, leaves messages on the wire.
LEMMA FlushType ==
    ASSUME ServerTypeOK, NEW ms \in Seq(Message), Flush(ms) \/ FlushFails
    PROVE  wire' \in Seq(Message)
<1>1. wire \in Seq(Message) /\ wire \o ms \in Seq(Message)
  BY DEF ServerTypeOK
<1> QED BY <1>1 DEF Flush, FlushFails

\* So does a cancel.
LEMMA CancelType ==
    ASSUME ServerTypeOK, ConnTypeOK, NEW c \in Callers, sendCancel(c)
    PROVE  wire' \in Seq(Message)
<1>1. Msg("Cancel", qid[c], "none", TRUE) \in Message
  BY MsgType DEF ConnTypeOK, ClientKinds
<1>2. wire \in Seq(Message)
  BY DEF ServerTypeOK
<1>3. \A m \in Message : Append(wire, m) \in Seq(Message)
  BY <1>2
<1> QED BY <1>1, <1>2, <1>3, Zenon DEF sendCancel

\* What a reader leaves of the packets is a sequence of packets.
LEMMA ReadType ==
    ASSUME ServerTypeOK, inbox # << >>
    PROVE  /\ Head(inbox) \in Packet
           /\ Tail(inbox) \in Seq(Packet)
           /\ Leftover \in Seq(Packet)
<1>1. Head(inbox) \in Packet /\ Tail(inbox) \in Seq(Packet)
  BY DEF ServerTypeOK
<1>2. Junk \in Packet
  BY DEF Junk, Packet, Kinds, Layouts
<1>3. <<Junk>> \o Tail(inbox) \in Seq(Packet)
  BY <1>1, <1>2
<1> QED BY <1>1, <1>3 DEF Leftover

\* The places a caller can be in.
LEMMA Places ==
    /\ Loops \cap (Open \cup {"idle"}) = {}
    /\ CtxLoops \subseteq Loops /\ Drains \subseteq Loops
    /\ \A p : After(p) \in Open \cup {"idle"}
BY DEF Loops, CtxLoops, Drains, Open, After

\* An operation that returns leaves the callers well typed.
LEMMA ReturnType ==
    ASSUME CallersOK, NEW c \in Callers, NEW r \in Results, Return(c, r),
           skip' \in SkipType, nextq' = nextq
    PROVE  CallersOK'
<1>1. Outcome(c, r) \in Results
  BY DEF Outcome, CallersOK, ConnTypeOK, Results
<1>2. After(pc[c]) \in Loops \cup Open \cup {"idle"}
  BY Places
<1>3. /\ pc' \in [Callers -> Loops \cup Open \cup {"idle"}]
      /\ reading' \in [Callers -> BOOLEAN]
      /\ res' \in [Callers -> Results]
      /\ state' \in {"Initial", "Ready", "Busy", "Closed"}
  BY <1>1, <1>2 DEF Return, CallersOK, ConnTypeOK, unlock
<1>4. suspect' \in BOOLEAN
  BY DEF Return, CallersOK, ConnTypeOK
<1>5. /\ cancelled' \subseteq Callers
      /\ qid' \in [Callers -> Nat]
      /\ n' \in [Callers -> Nat]
      /\ shape' \in [Callers -> Shapes \cup {"unbound"}]
      /\ held' \in [Callers -> Nat]
  BY DEF Return, Forget, locals, CallersOK, ConnTypeOK
<1>6. \A d \in Callers : reading'[d] => pc'[d] \in Loops
  BY DEF Return, CallersOK, ConnTypeOK
<1> QED BY <1>3, <1>4, <1>5, <1>6 DEF CallersOK, ConnTypeOK, SkipType

\* So does one that goes on reading.
LEMMA ContinueType ==
    ASSUME CallersOK, NEW c \in Callers, pc[c] \in Loops, NEW r \in Nat, Continue(c, r),
           skip' \in SkipType, nextq' = nextq
    PROVE  CallersOK'
<1>1. /\ n' \in [Callers -> Nat] /\ held' \in [Callers -> Nat]
      /\ reading' \in [Callers -> BOOLEAN]
      /\ \A d \in Callers : reading'[d] => pc'[d] \in Loops
  BY DEF Continue, Fill, CallersOK, ConnTypeOK
<1> QED BY <1>1 DEF Continue, CallersOK, ConnTypeOK, SkipType

\* A request and the start of a caller's operation.
LEMMA BeginType ==
    ASSUME TypeOK, NEW c \in Callers, NEW p \in Loops \cup Open, NEW m \in Message,
           NEW sh \in Shapes \cup {"unbound"}, Begin(c, p, m, sh)
    PROVE  TypeOK'
<1>1. wire' \in Seq(Message)
  <2>1. <<m>> \in Seq(Message)
    OBVIOUS
  <2> QED BY <2>1, FlushType DEF Begin, TypeOK
<1>2. /\ pc' \in [Callers -> Loops \cup Open \cup {"idle"}]
      /\ state' \in {"Initial", "Ready", "Busy", "Closed"}
      /\ res' \in [Callers -> Results]
  BY DEF Begin, TypeOK, ConnTypeOK, Results, unlock
<1>3. suspect' \in BOOLEAN
  BY DEF Begin, TypeOK, ConnTypeOK
<1>4. /\ reading' \in [Callers -> BOOLEAN]
      /\ \A d \in Callers : reading'[d] => pc'[d] \in Loops
  <2>1. reading' \in [Callers -> BOOLEAN]
    BY DEF Begin, TypeOK, ConnTypeOK
  <2>2. \A d \in Callers \ {c} : reading'[d] = reading[d] /\ pc'[d] = pc[d]
    BY DEF Begin, TypeOK, ConnTypeOK
  <2>3. reading'[c] = (pc'[c] \in Loops \ CtxLoops)
    BY DEF Begin, TypeOK, ConnTypeOK
  <2> QED BY <2>1, <2>2, <2>3 DEF TypeOK
<1>5. /\ cancelled' \subseteq Callers
      /\ qid' \in [Callers -> Nat] /\ n' \in [Callers -> Nat]
      /\ shape' \in [Callers -> Shapes \cup {"unbound"}]
      /\ held' \in [Callers -> Nat] /\ nextq' \in Nat /\ skip' = skip
  BY DEF Begin, TypeOK, ConnTypeOK
<1>6. ServerTypeOK'
  BY <1>1 DEF Begin, TypeOK, ServerTypeOK
<1> QED BY <1>2, <1>3, <1>4, <1>5, <1>6 DEF TypeOK, ConnTypeOK

\* Every call that starts something keeps the types.
LEMMA CallType ==
    ASSUME TypeOK, NEW c \in Callers,
           \/ Exec(c) \/ Select(c) \/ Ping(c) \/ Insert(c)
           \/ SelectStream(c) \/ InsertStream(c)
    PROVE  TypeOK'
<1>1. \A o \in {"exec", "select", "insert"} : writeQuery(o) \in Message
  BY MsgType DEF writeQuery, TypeOK, ConnTypeOK, ClientKinds
<1>2. Msg("Ping", nextq, "none", TRUE) \in Message
  BY MsgType DEF TypeOK, ConnTypeOK, ClientKinds
<1>3. {"exec", "select", "ping", "insert_header", "is_header", "s_open"} \subseteq Loops \cup Open
  BY DEF Loops, CtxLoops, Open
<1>4. CASE Exec(c)
  BY <1>1, <1>3, <1>4, BeginType DEF Exec
<1>5. CASE Select(c)
  BY <1>1, <1>3, <1>5, BeginType DEF Select
<1>6. CASE Ping(c)
  BY <1>2, <1>3, <1>6, BeginType DEF Ping
<1>7. CASE Insert(c)
  BY <1>1, <1>3, <1>7, BeginType DEF Insert
<1>8. CASE SelectStream(c)
  BY <1>1, <1>3, <1>8, BeginType DEF SelectStream
<1>9. CASE InsertStream(c)
  BY <1>1, <1>3, <1>9, BeginType DEF InsertStream
<1> QED BY <1>4, <1>5, <1>6, <1>7, <1>8, <1>9

\* So do Connect, the end of its handshake, and Close.
LEMMA LifecycleType ==
    ASSUME TypeOK, NEW c \in Callers, Connect(c) \/ ReadHello(c) \/ Close(c)
    PROVE  TypeOK'
<1>a. NewSession("greet") \in Session /\ NewSession("gone") \in Session
  BY SessionType DEF Phases
<1>0. /\ <<Msg("Hello", 0, "none", TRUE)>> \in Seq(Message)
      /\ <<Msg("Addendum", 0, "none", TRUE)>> \in Seq(Message)
      /\ << >> \in Seq(Message)
  <2>1. Msg("Hello", 0, "none", TRUE) \in Message /\ Msg("Addendum", 0, "none", TRUE) \in Message
    BY MsgType DEF ClientKinds
  <2>2. << >> \in Seq(Message) /\ \A m \in Message : <<m>> \in Seq(Message)
    OBVIOUS
  <2> QED BY <2>1, <2>2, Zenon
<1>1. CASE Connect(c)
  <2>0. /\ sock' \in {"open", "closed"} /\ inbox' = << >> /\ tally' = tally
        /\ srv' \in Session
        /\ wire' = <<Msg("Hello", 0, "none", TRUE)>> \/ wire' = << >>
    BY <1>a, <1>1, Zenon DEF Connect, CloseSocket
  <2>1. ServerTypeOK'
    <3>1. wire' \in Seq(Message)
      BY <1>0, <2>0, Zenon
    <3> QED BY <2>0, <3>1 DEF TypeOK, ServerTypeOK
  <2>2. CallersOK'
    <3>0. /\ UNCHANGED <<skip, nextq, suspect, cancelled, qid, n, shape, held>>
          /\ \/ /\ state' = "Busy" /\ pc' = [pc EXCEPT ![c] = "hello"]
                /\ reading' = [reading EXCEPT ![c] = TRUE] /\ res' = res
             \/ res' = [res EXCEPT ![c] = "network"] /\ UNCHANGED <<state, pc, reading>>
      BY <1>1 DEF Connect
    <3>1. CallersOK /\ "network" \in Results /\ "hello" \in Loops
      BY DEF TypeOK, CallersOK, Loops, CtxLoops, Results
    <3>2. ConnTypeOK'
      <4>1. /\ state' \in {"Initial", "Ready", "Busy", "Closed"}
            /\ res' \in [Callers -> Results]
        BY <3>0, <3>1 DEF CallersOK, ConnTypeOK
      <4>2. /\ pc' \in [Callers -> Loops \cup Open \cup {"idle"}]
            /\ reading' \in [Callers -> BOOLEAN]
        <5>1. /\ pc \in [Callers -> Loops \cup Open \cup {"idle"}]
              /\ reading \in [Callers -> BOOLEAN]
          BY <3>1 DEF CallersOK, ConnTypeOK
        <5>2. pc' \in [Callers -> Loops \cup Open \cup {"idle"}]
          BY <3>0, <3>1, <5>1
        <5>3. reading' \in [Callers -> BOOLEAN]
          BY <3>0, <5>1
        <5> QED BY <5>2, <5>3
      <4> QED BY <3>0, <3>1, <4>1, <4>2 DEF CallersOK, ConnTypeOK
    <3>3. \A d \in Callers : reading'[d] => pc'[d] \in Loops
      BY <3>0, <3>1 DEF CallersOK, ConnTypeOK
    <3> QED BY <3>2, <3>3 DEF CallersOK
  <2> QED BY <2>1, <2>2 DEF TypeOK, CallersOK
<1>2. CASE ReadHello(c)
  <2>1. wire' \in Seq(Message)
    <3>1. Flush(<<Msg("Addendum", 0, "none", TRUE)>>) \/ wire' = << >>
      BY <1>2, Zenon DEF ReadHello, ConnectFails, CloseSocket
    <3> QED BY <1>0, <3>1, FlushType, Zenon DEF TypeOK
  <2>2. /\ \/ inbox # << >> /\ inbox' = Tail(inbox) /\ UNCHANGED <<sock, srv>> /\ state' = "Ready"
           \/ inbox' = << >> /\ CloseSocket /\ state' = "Initial"
    BY <1>2, Zenon DEF ReadHello, ConnectFails
  <2>b. tally' = tally
    BY <1>2 DEF ReadHello
  <2>a. \E r \in {"ok", "network", "server", "protocol"} : res' = [res EXCEPT ![c] = r]
    BY <1>2, Zenon DEF ReadHello, ConnectFails
  <2>3. ServerTypeOK'
    <3>1. CASE inbox # << >> /\ inbox' = Tail(inbox) /\ UNCHANGED <<sock, srv>>
      <4>1. inbox' \in Seq(Packet)
        BY <3>1, ReadType DEF TypeOK
      <4> QED BY <2>1, <2>b, <3>1, <4>1 DEF TypeOK, ServerTypeOK
    <3>2. CASE inbox' = << >> /\ CloseSocket
      BY <1>a, <2>1, <2>b, <3>2 DEF CloseSocket, TypeOK, ServerTypeOK
    <3> QED BY <2>2, <3>1, <3>2
  <2>4. /\ pc' = [pc EXCEPT ![c] = "idle"] /\ reading' = [reading EXCEPT ![c] = FALSE]
        /\ UNCHANGED <<skip, nextq, suspect, cancelled, qid, n, shape, held>>
    BY <1>2, Zenon DEF ReadHello
  <2>5. CallersOK'
    BY <2>2, <2>4, <2>a DEF TypeOK, CallersOK, ConnTypeOK, Results
  <2> QED BY <2>3, <2>5 DEF TypeOK, CallersOK
<1>3. CASE Close(c)
  BY <1>a, <1>3, RemainsType
     DEF Close, CloseSocket, callVars, TypeOK, ServerTypeOK, ConnTypeOK
<1> QED BY <1>1, <1>2, <1>3

\* A step of a loop that changes, beside the caller's variables, only what it has
\* read or sent keeps the types.
LEMMA StepType ==
    ASSUME TypeOK, CallersOK', inbox' \in Seq(Packet), wire' \in Seq(Message),
           UNCHANGED <<sock, srv, tally>>
    PROVE  TypeOK'
BY DEF TypeOK, CallersOK, ServerTypeOK

\* What skipBlock leaves in the cache.
LEMMA SkipBlockType ==
    ASSUME TypeOK, NEW code \in Blocks, NEW l \in Layouts, skipBlock(code, l)
    PROVE  skip' \in SkipType
BY DEF skipBlock, Cached, SkipType, TypeOK, ConnTypeOK, Layouts

\* A loop skips only blocks, and caches their layout under a block's code.
LEMMA SkipCodeType ==
    ASSUME NEW c, Reads(c, "skip")
    PROVE  SkipCode(LoopOf(pc[c]), Head(inbox).kind) \in Blocks
<1>1. PICK k \in Seen(Head(inbox)) : Treat(LoopOf(pc[c]), k) = "skip"
  BY DEF Reads
<1>2. k \in Blocks
  BY <1>1 DEF Treat, Blocks
<1>3. k = Head(inbox).kind
  BY <1>1, <1>2 DEF Seen, Blocks
<1> QED BY <1>2, <1>3 DEF SkipCode, Blocks

\* The loops of the operations keep the types.
LEMMA LoopType ==
    ASSUME TypeOK, NEW c \in Callers, LoopStep(c) \/ CtxDone(c)
    PROVE  TypeOK'
<1>0. /\ CallersOK /\ ServerTypeOK /\ ConnTypeOK
      /\ skip \in SkipType /\ inbox \in Seq(Packet) /\ wire \in Seq(Message)
      /\ {"ok", "server", "protocol", "network", "internal"} \subseteq Results
  BY DEF TypeOK, CallersOK, ConnTypeOK, ServerTypeOK, SkipType, Results
<1>a. \A t : Reads(c, t) =>
        /\ pc[c] \in Loops
        /\ Head(inbox) \in Packet /\ Tail(inbox) \in Seq(Packet) /\ Leftover \in Seq(Packet)
  BY <1>0, ReadType DEF Reads
<1>b. Head(inbox) \in Packet => Head(inbox).rows \in Nat /\ Head(inbox).layout \in Layouts
  BY DEF Packet
<1>1. CASE ReadHello(c)
  BY <1>1, LifecycleType
<1>2. CASE CheckContext(c)
  BY <1>2 DEF CheckContext, serverVars, connVars, locals, TypeOK, ServerTypeOK, ConnTypeOK, Loops
<1>3. CASE ContextDone(c)
  <2>1. wire' \in Seq(Message)
    BY <1>0, <1>3, CancelType DEF ContextDone
  <2>2. CallersOK'
    BY <1>0, <1>3, ReturnType DEF ContextDone
  <2> QED BY <1>0, <1>3, <2>1, <2>2, StepType DEF ContextDone
<1>4. CASE ReadEnd(c)
  <2>1. CallersOK'
    BY <1>0, <1>4, ReturnType DEF ReadEnd, readVars
  <2> QED BY <1>0, <1>a, <1>4, <2>1, StepType DEF ReadEnd, readVars
<1>5. CASE ReadException(c)
  <2>1. CallersOK'
    BY <1>0, <1>5, ReturnType DEF ReadException, readVars
  <2> QED BY <1>0, <1>a, <1>5, <2>1, StepType DEF ReadException, readVars
<1>6. CASE ReadPass(c)
  <2>1. CallersOK'
    BY <1>0, <1>a, <1>6, ContinueType DEF ReadPass, readVars
  <2> QED BY <1>0, <1>a, <1>6, <2>1, StepType DEF ReadPass, readVars
<1>7. CASE ReadSkip(c)
  <2> DEFINE code == SkipCode(LoopOf(pc[c]), Head(inbox).kind)
  <2>1. code \in Blocks /\ skipBlock(code, Head(inbox).layout)
    BY <1>7, SkipCodeType DEF ReadSkip
  <2>2. skip' \in SkipType
    BY <1>a, <1>b, <1>7, <2>1, SkipBlockType DEF ReadSkip
  <2>3. CallersOK'
    BY <1>0, <1>a, <1>7, <2>2, ReturnType, ContinueType DEF ReadSkip, readVars
  <2> QED BY <1>0, <1>a, <1>7, <2>3, StepType DEF ReadSkip, readVars
<1>8. CASE ReadSelectRows(c)
  <2>1. CallersOK'
    BY <1>0, <1>a, <1>b, <1>8, ReturnType, ContinueType DEF ReadSelectRows, readVars
  <2> QED BY <1>0, <1>a, <1>8, <2>1, StepType DEF ReadSelectRows, readVars
<1>9. CASE ReadHeader(c)
  <2> DEFINE ms == <<Msg("Data", qid[c], "none", TRUE), Msg("Empty", qid[c], "none", TRUE)>>
  <2>1. ms \in Seq(Message)
    <3>1. /\ Msg("Data", qid[c], "none", TRUE) \in Message
          /\ Msg("Empty", qid[c], "none", TRUE) \in Message
      BY <1>0, MsgType DEF ConnTypeOK, ClientKinds
    <3>2. \A a, b \in Message : <<a, b>> \in Seq(Message)
      OBVIOUS
    <3> QED BY <3>1, <3>2, Zenon
  <2> HIDE DEF ms
  <2>2. \/ /\ Return(c, "protocol") /\ UNCHANGED wire
        \/ /\ pc' = [pc EXCEPT ![c] = "is_open"]
           /\ reading' = [reading EXCEPT ![c] = FALSE]
           /\ UNCHANGED <<wire, state, suspect, res, locals>>
        \/ /\ Flush(ms)
           /\ pc' = [pc EXCEPT ![c] = "insert_response"]
           /\ reading' = [reading EXCEPT ![c] = FALSE]
           /\ n' = [n EXCEPT ![c] = 1]
           /\ UNCHANGED <<state, suspect, res, cancelled, qid, shape, held>>
        \/ FlushFails /\ Return(c, "network")
    BY <1>9, Zenon DEF ReadHeader, InsertData, ms
  <2>3. inbox' \in Seq(Packet) /\ UNCHANGED <<sock, srv, tally, nextq, skip>>
    BY <1>a, <1>9 DEF ReadHeader, readVars
  <2>4. CASE Return(c, "protocol") /\ UNCHANGED wire
    <3>1. CallersOK'
      BY <1>0, <2>3, <2>4, ReturnType
    <3> QED BY <1>0, <2>3, <2>4, <3>1, StepType
  <2>5. CASE /\ pc' = [pc EXCEPT ![c] = "is_open"]
             /\ reading' = [reading EXCEPT ![c] = FALSE]
             /\ UNCHANGED <<wire, state, suspect, res, locals>>
    <3>1. CallersOK'
      BY <1>0, <2>3, <2>5 DEF CallersOK, ConnTypeOK, Open, locals
    <3> QED BY <1>0, <2>3, <2>5, <3>1, StepType
  <2>6. CASE /\ Flush(ms)
             /\ pc' = [pc EXCEPT ![c] = "insert_response"]
             /\ reading' = [reading EXCEPT ![c] = FALSE]
             /\ n' = [n EXCEPT ![c] = 1]
             /\ UNCHANGED <<state, suspect, res, cancelled, qid, shape, held>>
    <3>1. CallersOK'
      BY <1>0, <2>3, <2>6 DEF CallersOK, ConnTypeOK, Loops, CtxLoops
    <3>2. wire' \in Seq(Message)
      BY <1>0, <2>1, <2>6, FlushType
    <3> QED BY <2>3, <3>1, <3>2, StepType
  <2>7. CASE FlushFails /\ Return(c, "network")
    <3>1. CallersOK'
      BY <1>0, <2>3, <2>7, ReturnType
    <3> QED BY <1>0, <2>3, <2>7, <3>1, StepType DEF FlushFails
  <2> QED BY <2>2, <2>4, <2>5, <2>6, <2>7
<1>10. CASE ReadReject(c)
  <2>1. CallersOK'
    BY <1>0, <1>10, ReturnType DEF ReadReject, readVars
  <2> QED BY <1>0, <1>a, <1>10, <2>1, StepType DEF ReadReject, readVars
<1>11. CASE ReadFails(c)
  <2>1. CallersOK'
    BY <1>0, <1>11, ReturnType DEF ReadFails, readVars
  <2> QED BY <1>0, <1>11, <2>1, StepType DEF ReadFails, readVars
<1>12. CASE CtxDone(c)
  BY <1>12 DEF CtxDone, serverVars, connVars, TypeOK, ServerTypeOK, ConnTypeOK
<1> QED BY <1>1, <1>2, <1>3, <1>4, <1>5, <1>6, <1>7, <1>8, <1>9, <1>10, <1>11, <1>12 DEF LoopStep

\* The calls on a stream keep the types.
LEMMA StreamType ==
    ASSUME TypeOK, NEW c \in Callers,
           \/ Bind(c) \/ StreamNext(c) \/ StreamCancel(c) \/ StreamClose(c) \/ Release(c) \/ Unlock(c)
           \/ StreamAppend(c) \/ InsertStreamClose(c) \/ StreamLoopStep(c)
    PROVE  TypeOK'
<1>0. /\ CallersOK /\ ServerTypeOK /\ ConnTypeOK
      /\ skip \in SkipType /\ inbox \in Seq(Packet) /\ wire \in Seq(Message)
      /\ {"protocol", "network"} \subseteq Results
      /\ {"s_next", "drain_next", "drain_cancel", "drain_close", "is_response"} \subseteq Loops
      /\ {"s_open", "s_done"} \subseteq Open
  BY DEF TypeOK, CallersOK, ConnTypeOK, ServerTypeOK, SkipType, Results, Loops, CtxLoops, Drains, Open
<1>a. ASSUME NEW p \in Loops, Drain(c, p)
      PROVE  TypeOK'
  <2>1. wire' \in Seq(Message)
    BY <1>0, <1>a, CancelType DEF Drain
  <2>2. CallersOK'
    BY <1>0, <1>a DEF Drain, connVars, CallersOK, ConnTypeOK
  <2> QED BY <1>0, <1>a, <2>1, <2>2, StepType DEF Drain
<1>1. CASE Bind(c)
  BY <1>1 DEF Bind, serverVars, connVars, TypeOK, ServerTypeOK, ConnTypeOK
<1>2. CASE StreamNext(c)
  <2>0. ~reading[c]
    BY <1>0, <1>2, Places DEF StreamNext, CallersOK
  <2>a. suspect' \in BOOLEAN
    BY <1>0, <1>2 DEF StreamNext, ConnTypeOK
  <2>b. /\ pc' \in [Callers -> Loops \cup Open \cup {"idle"}]
        /\ res' \in [Callers -> Results]
        /\ \A d \in Callers : d # c => pc'[d] = pc[d]
    <3>1. /\ \/ pc' = [pc EXCEPT ![c] = "s_done"]
             \/ pc' = [pc EXCEPT ![c] = "s_next"]
          /\ res' = [res EXCEPT ![c] = "protocol"] \/ res' = res
      BY <1>2, Zenon DEF StreamNext
    <3>2. {"s_done", "s_next"} \subseteq Loops \cup Open \cup {"idle"} /\ "protocol" \in Results
      BY <1>0
    <3>3. /\ pc \in [Callers -> Loops \cup Open \cup {"idle"}]
          /\ res \in [Callers -> Results]
      BY <1>0 DEF ConnTypeOK
    <3> QED BY <3>1, <3>2, <3>3
  <2>c. UNCHANGED <<state, skip, nextq, reading, cancelled, qid, n, shape, held>>
    BY <1>2 DEF StreamNext
  <2>1. CallersOK'
    BY <1>0, <2>0, <2>a, <2>b, <2>c DEF CallersOK, ConnTypeOK
  <2> QED BY <1>0, <1>2, <2>1, StepType DEF StreamNext, serverVars
<1>3. CASE StreamCancel(c)
  BY <1>0, <1>a, <1>3 DEF StreamCancel
<1>4. CASE StreamClose(c)
  <2>1. CASE Drain(c, "drain_close")
    BY <1>0, <1>a, <2>1
  <2>2. CASE /\ pc[c] = "s_done"
             /\ pc' = [pc EXCEPT ![c] = "idle"]
             /\ state' = unlock
             /\ Forget(c)
             /\ UNCHANGED <<serverVars, skip, nextq, suspect, reading, res>>
    <3>1. ~reading[c]
      BY <2>2, <1>0, Places DEF CallersOK, Open
    <3>2. CallersOK'
      BY <1>0, <2>2, <3>1 DEF Forget, unlock, CallersOK, ConnTypeOK
    <3> QED BY <1>0, <2>2, <3>2, StepType DEF serverVars
  <2> QED BY <1>4, <2>1, <2>2 DEF StreamClose
<1>5. CASE Release(c) \/ Unlock(c)
  BY <1>5 DEF Release, Unlock, serverVars, callVars, unlock, TypeOK, ServerTypeOK, ConnTypeOK
<1>6. CASE StreamAppend(c)
  <2> DEFINE m == Msg("Data", qid[c], "none", shape[c] = "fits")
  <2>1. m \in Message
    BY <1>0, MsgType DEF ConnTypeOK, ClientKinds
  <2> HIDE DEF m
  <2>2. <<m>> \in Seq(Message)
    BY <2>1
  <2>3. Flush(<<m>>) \/ FlushFails
    BY <1>6, Zenon DEF StreamAppend, m
  <2>4. wire' \in Seq(Message)
    BY <1>0, <2>2, <2>3, FlushType
  <2>5. CallersOK'
    <3>1. suspect' \in BOOLEAN
      BY <1>0, <1>6 DEF StreamAppend, ConnTypeOK
    <3>2. n' \in [Callers -> Nat]
      <4>1. n' = n \/ n' = [n EXCEPT ![c] = @ + 1]
        BY <1>6, Zenon DEF StreamAppend
      <4>2. n \in [Callers -> Nat]
        BY <1>0 DEF ConnTypeOK
      <4>3. n[c] + 1 \in Nat
        BY <4>2
      <4> QED BY <4>1, <4>2, <4>3
    <3>4. res' \in [Callers -> Results]
      <4>1. res' = res \/ res' = [res EXCEPT ![c] = "network"]
        BY <1>6, Zenon DEF StreamAppend
      <4> QED BY <1>0, <4>1 DEF ConnTypeOK, Results
    <3>3. UNCHANGED <<state, skip, nextq, pc, reading, cancelled, qid, shape, held>>
      BY <1>6 DEF StreamAppend
    <3> QED BY <1>0, <3>1, <3>2, <3>3, <3>4 DEF CallersOK, ConnTypeOK
  <2> QED BY <1>0, <1>6, <2>4, <2>5, StepType DEF StreamAppend
<1>7. CASE InsertStreamClose(c)
  <2> DEFINE m == Msg("Empty", qid[c], "none", TRUE)
  <2>1. m \in Message
    BY <1>0, MsgType DEF ConnTypeOK, ClientKinds
  <2> HIDE DEF m
  <2>2. <<m>> \in Seq(Message)
    BY <2>1
  <2>3. \/ /\ Flush(<<m>>)
           /\ pc' = [pc EXCEPT ![c] = "is_response"]
           /\ UNCHANGED <<state, reading, suspect, res, locals>>
        \/ FlushFails /\ Return(c, "network")
    BY <1>7, Zenon DEF InsertStreamClose, m
  <2>4. wire' \in Seq(Message)
    BY <1>0, <2>2, <2>3, FlushType
  <2>5. UNCHANGED <<sock, inbox, srv, tally, skip, nextq>>
    BY <1>7 DEF InsertStreamClose
  <2>6. CallersOK'
    <3>1. CASE Return(c, "network")
      BY <1>0, <2>5, <3>1, ReturnType
    <3>2. CASE /\ pc' = [pc EXCEPT ![c] = "is_response"]
               /\ UNCHANGED <<state, reading, suspect, res, locals>>
      BY <1>0, <2>5, <3>2 DEF CallersOK, ConnTypeOK, locals
    <3> QED BY <2>3, <3>1, <3>2
  <2> QED BY <1>0, <2>4, <2>5, <2>6, StepType
<1>8. CASE NextContextDone(c)
  BY <1>0, <1>a, <1>8 DEF NextContextDone
<1>9. CASE ReadStreamRows(c)
  <2>1. /\ pc[c] \in Loops /\ Head(inbox).rows \in Nat
        /\ Tail(inbox) \in Seq(Packet) /\ Leftover \in Seq(Packet)
    BY <1>0, <1>9, ReadType DEF ReadStreamRows, Reads, Packet
  <2>2. inbox' \in Seq(Packet) /\ UNCHANGED <<sock, srv, tally, nextq, wire, skip>>
    <3>1. inbox' \in {Tail(inbox), Leftover}
      BY <1>9, Zenon DEF ReadStreamRows
    <3>2. UNCHANGED <<readVars, wire, skip>>
      BY <1>9, Zenon DEF ReadStreamRows
    <3> QED BY <2>1, <3>1, <3>2 DEF readVars
  <2>3. CallersOK'
    <3>1. CASE Return(c, "protocol")
      BY <1>0, <2>2, <3>1, ReturnType
    <3>2. CASE Continue(c, 0)
      BY <1>0, <2>1, <2>2, <3>2, ContinueType
    <3>3. CASE /\ Fill(c, Head(inbox).rows)
               /\ pc' = [pc EXCEPT ![c] = "s_open"]
               /\ reading' = [reading EXCEPT ![c] = FALSE]
               /\ suspect' = (suspect \/ shape[c] # "fits")
               /\ UNCHANGED <<state, res, cancelled, qid, shape>>
      <4>1. n' \in [Callers -> Nat] /\ held' \in [Callers -> Nat]
        BY <1>0, <2>1, <3>3 DEF Fill, ConnTypeOK
      <4>2. /\ pc' \in [Callers -> Loops \cup Open \cup {"idle"}]
            /\ reading' \in [Callers -> BOOLEAN]
        BY <1>0, <3>3 DEF ConnTypeOK, Open
      <4>3. \A d \in Callers : reading'[d] => pc'[d] \in Loops
        BY <1>0, <3>3 DEF CallersOK, ConnTypeOK
      <4>4. ConnTypeOK'
        BY <1>0, <2>2, <3>3, <4>1, <4>2 DEF ConnTypeOK
      <4> QED BY <4>3, <4>4 DEF CallersOK
    <3> QED BY <1>9, <3>1, <3>2, <3>3 DEF ReadStreamRows
  <2> QED BY <1>0, <2>2, <2>3, StepType
<1> QED BY <1>1, <1>2, <1>3, <1>4, <1>5, <1>6, <1>7, <1>8, <1>9 DEF StreamLoopStep

\* Type correctness: in every behaviour of the client, with any number of callers
\* and any server allowed by the constants, every variable has its type and a
\* caller is blocked in a read only inside a loop.
THEOREM TypeCorrect == Spec => []TypeOK
<1>1. Init => TypeOK
  <2> SUFFICES ASSUME Init PROVE TypeOK
    OBVIOUS
  <2>1. NewSession("gone") \in Session
    BY SessionType DEF Phases
  <2>2. ServerTypeOK
    BY <2>1 DEF Init, ServerInit, ServerTypeOK
  <2>3. ConnTypeOK
    BY DEF Init, ConnInit, ConnTypeOK, Layouts, Results
  <2> QED BY <2>2, <2>3 DEF Init, ConnInit, TypeOK
<1>2. TypeOK /\ [Next]_vars => TypeOK'
  <2> SUFFICES ASSUME TypeOK, [Next]_vars PROVE TypeOK'
    OBVIOUS
  <2>1. CASE ServerNext /\ UNCHANGED <<connVars, callVars>>
    <3>1. ServerTypeOK'
      BY <2>1, ServerType DEF TypeOK
    <3>2. UNCHANGED connVars /\ UNCHANGED callVars
      BY <2>1
    <3>3. ConnTypeOK' /\ \A c \in Callers : reading'[c] => pc'[c] \in Loops
      BY <3>2 DEF connVars, callVars, TypeOK, ConnTypeOK
    <3> QED BY <3>1, <3>3 DEF TypeOK
  <2>2. ASSUME NEW c \in Callers, Calls(c) \/ CtxDone(c) \/ LoopStep(c) \/ StreamLoopStep(c)
        PROVE  TypeOK'
    BY <2>2, CallType, LifecycleType, LoopType, StreamType DEF Calls
  <2>3. CASE UNCHANGED vars
    BY <2>3 DEF vars, serverVars, connVars, callVars, TypeOK, ServerTypeOK, ConnTypeOK
  <2> QED BY <2>1, <2>2, <2>3 DEF Next
<1> QED BY <1>1, <1>2, PTL DEF Spec

-----------------------------------------------------------------------------
(* Mutual exclusion. *)

\* MutualExclusion is not inductive: Connect takes the connection in state
\* Initial, so that state must be known to mean that nobody has it.
Exclusive ==
    \A c \in Callers : pc[c] # "idle" =>
        /\ state \in {"Busy", "Closed"}
        /\ \A d \in Callers : pc[d] # "idle" => d = c

\* What one caller's step may do with the connection and the socket.
Takes(c) ==
    /\ pc[c] = "idle" /\ state \in {"Initial", "Ready"} /\ state' = "Busy"
    /\ \E p \in Loops \cup Open : pc' = [pc EXCEPT ![c] = p]
Moves(c) ==
    /\ pc[c] # "idle" /\ state' = state
    /\ \E p \in Loops \cup Open : pc' = [pc EXCEPT ![c] = p]
Gives(c) ==
    /\ pc[c] # "idle" /\ pc' = [pc EXCEPT ![c] = "idle"]
    /\ state' = "Ready" \/ (state' = "Initial" /\ sock' = "closed")
Stays(c) ==
    /\ pc' = pc
    /\ \/ state' = state
       \/ state # "Initial" /\ state' = "Closed"
Opens == sock' = "open" => sock = "open" \/ state' = "Busy"

\* A loop that returns gives the connection back or leaves it with the stream.
LEMMA ReturnTurn ==
    ASSUME TypeOK, NEW c \in Callers, NEW r, pc[c] # "idle", Return(c, r)
    PROVE  Moves(c) \/ Gives(c)
<1>1. CASE After(pc[c]) = "idle"
  BY <1>1 DEF Return, unlock, Gives
<1>2. CASE After(pc[c]) # "idle"
  <2>1. After(pc[c]) \in Loops \cup Open
    BY <1>2, Places
  <2> QED BY <1>2, <2>1 DEF Return, Moves
<1> QED BY <1>1, <1>2

\* An operation takes the connection, or fails and leaves it as it was.
LEMMA BeginTurn ==
    ASSUME NEW c \in Callers, NEW p \in Loops \cup Open, NEW m, NEW sh, Begin(c, p, m, sh)
    PROVE  Takes(c) \/ Stays(c)
BY DEF Begin, lock, unlock, Takes, Stays

\* Every step of a caller is one of the four, unless it is Release or Unlock, and only
\* Connect opens a socket.
LEMMA Turn ==
    ASSUME TypeOK, NEW c \in Callers,
           Calls(c) \/ CtxDone(c) \/ LoopStep(c) \/ StreamLoopStep(c)
    PROVE  (Takes(c) \/ Moves(c) \/ Gives(c) \/ Stays(c) \/ Release(c) \/ Unlock(c)) /\ Opens
<1>0. /\ "idle" \notin Loops
      /\ {"hello", "exec", "select", "ping", "insert_header", "insert_response",
          "is_header", "is_response", "s_next", "s_open", "s_done", "is_open"} \subseteq Loops \cup Open
      /\ Drains \subseteq Loops /\ CtxLoops \subseteq Loops
  BY DEF Loops, CtxLoops, Drains, Open
<1>1. CASE Connect(c)
  BY <1>0, <1>1 DEF Connect, CloseSocket, Takes, Stays, Opens
<1>2. CASE ReadHello(c)
  <2>1. pc[c] # "idle" /\ pc' = [pc EXCEPT ![c] = "idle"]
    BY <1>2 DEF ReadHello
  <2>2. (UNCHANGED <<sock, srv>> /\ state' = "Ready") \/ (CloseSocket /\ state' = "Initial")
    BY <1>2, Zenon DEF ReadHello, ConnectFails
  <2> QED BY <2>1, <2>2 DEF CloseSocket, Gives, Opens
<1>3. CASE Close(c)
  BY <1>3 DEF Close, CloseSocket, callVars, Stays, Opens
<1>4. CASE Exec(c) \/ Select(c) \/ Ping(c) \/ Insert(c) \/ SelectStream(c) \/ InsertStream(c)
  <2>1. \E p \in Loops \cup Open, m \in {writeQuery("exec"), writeQuery("select"),
            writeQuery("insert"), Msg("Ping", nextq, "none", TRUE)},
            sh \in Shapes \cup {"unbound"} : Begin(c, p, m, sh)
    BY <1>0, <1>4, Zenon DEF Exec, Select, Ping, Insert, SelectStream, InsertStream
  <2>2. sock' = sock
    BY <2>1 DEF Begin
  <2> QED BY <2>1, <2>2, BeginTurn DEF Opens
<1>5. CASE Bind(c) \/ StreamAppend(c) \/ CtxDone(c) \/ CheckContext(c)
  BY <1>5 DEF Bind, StreamAppend, CtxDone, CheckContext, serverVars, connVars, Stays, Opens
<1>6. CASE StreamNext(c)
  BY <1>0, <1>6 DEF StreamNext, serverVars, Moves, Opens
<1>7. ASSUME NEW p \in Loops, Drain(c, p), pc[c] # "idle"
      PROVE  Moves(c) /\ Opens
  BY <1>7 DEF Drain, connVars, Moves, Opens
<1>8. CASE StreamCancel(c) \/ NextContextDone(c)
  BY <1>0, <1>7, <1>8 DEF StreamCancel, NextContextDone, Drains
<1>9. CASE StreamClose(c)
  <2>1. CASE pc[c] = "s_open" /\ Drain(c, "drain_close")
    BY <1>0, <1>7, <2>1 DEF Drains
  <2>2. CASE pc[c] = "s_done" /\ ~(pc[c] = "s_open" /\ Drain(c, "drain_close"))
    BY <1>9, <2>2 DEF StreamClose, serverVars, unlock, Gives, Opens
  <2> QED BY <1>9, <2>1, <2>2 DEF StreamClose
<1>10. CASE Release(c) \/ Unlock(c)
  BY <1>10 DEF Release, Unlock, serverVars, Opens
<1>11. ASSUME NEW r, Return(c, r), pc[c] # "idle", sock' = sock
       PROVE  (Moves(c) \/ Gives(c)) /\ Opens
  BY <1>11, ReturnTurn DEF Opens
<1>12. ASSUME NEW r, Continue(c, r), sock' = sock
       PROVE  Stays(c) /\ Opens
  BY <1>12 DEF Continue, Stays, Opens
<1>13. CASE InsertStreamClose(c)
  <2>1. pc[c] # "idle" /\ sock' = sock
    BY <1>13 DEF InsertStreamClose
  <2>2. \/ pc' = [pc EXCEPT ![c] = "is_response"] /\ state' = state
        \/ Return(c, "network")
    BY <1>13, Zenon DEF InsertStreamClose
  <2> QED BY <1>0, <1>11, <2>1, <2>2 DEF Moves, Opens
<1>14. CASE ContextDone(c) \/ ReadEnd(c) \/ ReadException(c) \/ ReadReject(c) \/ ReadFails(c)
  <2>1. pc[c] # "idle" /\ sock' = sock
    BY <1>0, <1>14 DEF ContextDone, ReadEnd, ReadException, ReadReject, ReadFails, Reads, readVars
  <2>2. \E r \in Results : Return(c, r)
    BY <1>14 DEF ContextDone, ReadEnd, ReadException, ReadReject, ReadFails, Results
  <2> QED BY <1>11, <2>1, <2>2
<1>15. CASE ReadPass(c) \/ ReadSkip(c) \/ ReadSelectRows(c)
  <2>1. pc[c] # "idle" /\ sock' = sock
    BY <1>0, <1>15 DEF ReadPass, ReadSkip, ReadSelectRows, Reads, readVars
  <2>2. (\E r : Continue(c, r)) \/ Return(c, "protocol")
    BY <1>15, Zenon DEF ReadPass, ReadSkip, ReadSelectRows
  <2> QED BY <1>11, <1>12, <2>1, <2>2
<1>16. CASE ReadHeader(c)
  <2>1. pc[c] # "idle" /\ sock' = sock
    BY <1>0, <1>16 DEF ReadHeader, InsertData, Reads, readVars
  <2>2. \/ Return(c, "protocol") \/ Return(c, "network")
        \/ pc' = [pc EXCEPT ![c] = "is_open"] /\ state' = state
        \/ pc' = [pc EXCEPT ![c] = "insert_response"] /\ state' = state
    BY <1>16, Zenon DEF ReadHeader, InsertData
  <2> QED BY <1>0, <1>11, <2>1, <2>2 DEF Moves, Opens
<1>17. CASE ReadStreamRows(c)
  <2>1. pc[c] # "idle" /\ sock' = sock
    BY <1>0, <1>17 DEF ReadStreamRows, Reads, readVars
  <2>2. \/ Return(c, "protocol") \/ Continue(c, 0)
        \/ pc' = [pc EXCEPT ![c] = "s_open"] /\ state' = state
    BY <1>17, Zenon DEF ReadStreamRows
  <2> QED BY <1>0, <1>11, <1>12, <2>1, <2>2 DEF Moves, Opens
<1> QED
  BY <1>1, <1>2, <1>3, <1>4, <1>5, <1>6, <1>8, <1>9, <1>10, <1>13, <1>14, <1>15, <1>16, <1>17
  DEF Calls, LoopStep, StreamLoopStep

\* The server and the network do not touch the connection's state, nor open a
\* socket.
LEMMA ServerKeeps ==
    ASSUME ServerNext PROVE sock' \in {sock, "reset"}
<1>1. CASE ServerReads
  BY <1>1 DEF ServerReads, ServerGreets, ServerReady, ServerStarts, ServerPongs,
     ServerCancels, ServerStores, ServerDiscards, ServerGivesUp, Reset
<1>2. CASE ~ServerReads
  BY <1>2 DEF ServerNext, ServerSteps, ServerChatters, ServerSendsData, ServerSendsHeader,
     ServerEnds, ServerThrows, NetworkFails, ServerHangs, Reset
<1> QED BY <1>1, <1>2

\* Exclusive is inductive.
LEMMA ExclusiveStep ==
    ASSUME TypeOK, Manual = {}, Exclusive, [Next]_vars
    PROVE  Exclusive'
<1>1. CASE ServerNext /\ UNCHANGED <<connVars, callVars>>
  BY <1>1 DEF connVars, callVars, Exclusive
<1>2. CASE UNCHANGED vars
  BY <1>2 DEF vars, connVars, callVars, Exclusive
<1>3. ASSUME NEW c \in Callers, Calls(c) \/ CtxDone(c) \/ LoopStep(c) \/ StreamLoopStep(c)
      PROVE  Exclusive'
  <2>0. pc \in [Callers -> Loops \cup Open \cup {"idle"}]
    BY DEF TypeOK, ConnTypeOK
  <2>1. CASE Takes(c)
    <3>1. \A d \in Callers : pc[d] = "idle"
      BY <2>1 DEF Takes, Exclusive
    <3> QED BY <2>0, <2>1, <3>1 DEF Takes, Exclusive
  <2>2. CASE Moves(c)
    BY <2>0, <2>2 DEF Moves, Exclusive
  <2>3. CASE Gives(c)
    <3>1. \A d \in Callers : pc[d] # "idle" => d = c
      BY <2>3 DEF Gives, Exclusive
    <3> QED BY <2>0, <2>3, <3>1 DEF Gives, Exclusive
  <2>4. CASE Stays(c)
    BY <2>4 DEF Stays, Exclusive
  <2>5. CASE Release(c) \/ Unlock(c)
    BY <2>5 DEF Release, Unlock
  <2> QED BY <1>3, <2>1, <2>2, <2>3, <2>4, <2>5, Turn
<1> QED BY <1>1, <1>2, <1>3 DEF Next

\* No concurrent queries: whatever callers, server and network do, at most one
\* caller is inside an operation or holds a stream, and meanwhile the connection
\* is not ready, so long as callers leave SelectStream.Release and Conn.Unlock alone.
THEOREM MutualExclusionHolds ==
    ASSUME Manual = {}
    PROVE  Spec => []MutualExclusion
<1>1. Init => Exclusive
  BY DEF Init, ConnInit, Exclusive
<1>2. TypeOK /\ Exclusive /\ [Next]_vars => Exclusive'
  BY ExclusiveStep
<1>3. Exclusive => MutualExclusion
  BY DEF Exclusive, MutualExclusion
<1> QED BY <1>1, <1>2, <1>3, TypeCorrect, PTL DEF Spec

\* No socket leak: when Connect has failed, at whichever step of the handshake,
\* its socket is closed.
THEOREM NoSocketLeakHolds == Spec => []NoSocketLeak
<1>1. Init => NoSocketLeak
  BY DEF Init, ServerInit, NoSocketLeak
<1>2. TypeOK /\ NoSocketLeak /\ [Next]_vars => NoSocketLeak'
  <2> SUFFICES ASSUME TypeOK, NoSocketLeak, [Next]_vars PROVE NoSocketLeak'
    OBVIOUS
  <2>1. CASE ServerNext /\ UNCHANGED <<connVars, callVars>>
    BY <2>1, ServerKeeps DEF connVars, NoSocketLeak
  <2>2. CASE UNCHANGED vars
    BY <2>2 DEF vars, serverVars, connVars, NoSocketLeak
  <2>3. ASSUME NEW c \in Callers, Calls(c) \/ CtxDone(c) \/ LoopStep(c) \/ StreamLoopStep(c)
        PROVE  NoSocketLeak'
    BY <2>3, Turn DEF Takes, Moves, Gives, Stays, Release, Unlock, unlock, Opens, NoSocketLeak
  <2> QED BY <2>1, <2>2, <2>3 DEF Next
<1> QED BY <1>1, <1>2, TypeCorrect, PTL DEF Spec

-----------------------------------------------------------------------------
(* Whose packets a caller reads: a response is read by the caller that     *)
(* asked for it, and to its end.                                           *)

\* The use of the connection for which the theorems hold: callers leave it to the
\* operations and streams to give the connection back.
Regular == Manual = {}

Working == {"run", "header", "receive", "finish"}

-----------------------------------------------------------------------------
(* What the steps of the server and the network do. *)

Final(k) == k \in Terminals \cup {"Cut"}
IsRequest(m) == m.kind \in {"Query", "Ping"}

\* The socket dies, and the packets in flight may be lost.
Breaks ==
    /\ sock' = "reset" /\ wire' = << >>
    /\ inbox' = inbox \/ inbox' \in Remains(inbox)
    /\ srv' = NewSession("gone")

\* The server stops, or reads a message and sends nothing.
Idles ==
    /\ sock = "open" /\ sock' = "open" /\ inbox' = inbox
    /\ srv'.q = srv.q
    /\ \/ wire' = wire
       \/ wire # << >> /\ ~IsRequest(Head(wire)) /\ wire' = Tail(wire)
    /\ \/ srv'.ph \in {srv.ph, "hung"}
       \/ srv.ph \in {"addendum", "discard"} /\ srv'.ph = "idle"
       \/ srv.ph = "receive" /\ srv'.ph = "finish"

\* The server sends a packet p of the response it is working on.
Sends(p) ==
    /\ sock = "open" /\ sock' = "open" /\ wire' = wire
    /\ inbox' = Append(inbox, p)
    /\ srv.ph \in Working
    /\ srv'.q = srv.q /\ p.q = srv.q
    /\ \/ srv'.ph \in Working /\ (srv'.ph = "run" <=> srv.ph = "run") /\ ~Final(p.kind)
       \/ srv'.ph \in {"idle", "discard"}
    /\ p.kind \notin {"Junk", "Hello", "Pong"}
    /\ p.kind \in {"Totals", "Extremes"} => srv.ph = "run"
    /\ p.kind = "TableColumns" => srv.ph # "run"

\* The server answers the client's hello.
Greets(p) ==
    /\ sock = "open" /\ sock' = "open" /\ wire # << >> /\ wire' = Tail(wire)
    /\ inbox' = Append(inbox, p) /\ p.q = srv.q
    /\ p.kind # "Pong"
    /\ srv.ph = "greet" /\ srv'.q = srv.q
    /\ srv'.ph = "addendum" \/ (srv'.ph = "gone" /\ p.kind = "Exception")

\* The server takes up a request: a query, or a ping, which it answers.
Starts ==
    /\ sock = "open" /\ sock' = "open" /\ wire # << >> /\ wire' = Tail(wire)
    /\ srv.ph = "idle" /\ IsRequest(Head(wire))
    /\ \/ /\ inbox' = inbox /\ srv'.q = Head(wire).q
          /\ srv'.ph = IF Head(wire).op = "insert" THEN "header" ELSE "run"
       \/ /\ srv' = srv /\ Head(wire).kind = "Ping"
          /\ \E p \in Packet : inbox' = Append(inbox, p) /\ p.kind = "Pong" /\ p.q = Head(wire).q

\* A step of the server or the network is one of these.
LEMMA ServerEffect ==
    ASSUME TypeOK, ServerNext
    PROVE  Breaks \/ Idles \/ Starts \/ \E p \in Packet : Sends(p) \/ Greets(p)
<1> DEFINE m == Head(wire)
<1>0. /\ ServerTypeOK /\ srv \in Session /\ wire \in Seq(Message) /\ inbox \in Seq(Packet)
      /\ \A k \in Kinds, r \in Nat, l \in Layouts : Pack(k, r, l) \in Packet
      /\ Chatter \subseteq Kinds
      /\ {"Data", "Hello", "Pong", "EndOfStream", "Exception"} \subseteq Kinds
      /\ {"none", "empty", srv.layout} \subseteq Layouts
  BY PackType, ServerAssumption
     DEF TypeOK, ServerTypeOK, Session, Kinds, Blocks, Infos, Terminals, Layouts
<1>a. \A s \in Session : /\ \A x : [s EXCEPT !.ph = x].ph = x /\ [s EXCEPT !.ph = x].q = s.q
                                   /\ [s EXCEPT !.ph = x].layout = s.layout
                          /\ \A y : [s EXCEPT !.left = y].ph = s.ph /\ [s EXCEPT !.left = y].q = s.q
                                   /\ [s EXCEPT !.left = y].layout = s.layout
  BY DEF Session
<1>1. CASE ServerReads
  <2>0. sock = "open" /\ wire # << >> /\ m \in Message
    BY <1>0, <1>1 DEF ServerReads
  <2>1. CASE ServerGreets(m)
    <3>1. PICK k \in {"Hello", "Exception"} :
             /\ inbox' = Append(inbox, Pack(k, 0, "none"))
             /\ \/ srv' = [srv EXCEPT !.ph = "addendum"]
                \/ srv' = [srv EXCEPT !.ph = "gone"] /\ k = "Exception"
      BY <2>1 DEF ServerGreets, Send
    <3> DEFINE p == Pack(k, 0, "none")
    <3>2. p \in Packet
      BY <1>0, <3>1
    <3>3. p.kind = k /\ p.q = srv.q
      BY DEF Pack
    <3>4. /\ inbox' = Append(inbox, p) /\ srv'.q = srv.q /\ srv'.layout = srv.layout
          /\ srv'.ph = "addendum" \/ (srv'.ph = "gone" /\ k = "Exception")
      <4>1. CASE srv' = [srv EXCEPT !.ph = "addendum"]
        BY <1>0, <3>1, <4>1 DEF Session
      <4>2. CASE srv' = [srv EXCEPT !.ph = "gone"] /\ k = "Exception"
        BY <1>0, <3>1, <4>2 DEF Session
      <4> QED BY <3>1, <4>1, <4>2
    <3>5. srv.ph = "greet" /\ wire' = Tail(wire) /\ sock' = sock
      BY <2>1 DEF ServerGreets
    <3> HIDE DEF p
    <3> QED BY <2>0, <3>1, <3>2, <3>3, <3>4, <3>5 DEF Greets
  <2>2. CASE ServerReady(m)
    BY <1>0, <1>a, <2>0, <2>2 DEF ServerReady, Idles, IsRequest
  <2>3. CASE ServerStarts(m)
    BY <2>0, <2>3 DEF ServerStarts, Starts, IsRequest
  <2>4. CASE ServerPongs(m)
    <3> DEFINE p == [Pack("Pong", 0, "none") EXCEPT !.q = m.q]
    <3>1. p \in Packet /\ p.kind = "Pong" /\ p.q = m.q
      <4>1. Pack("Pong", 0, "none") \in Packet /\ m.q \in Nat /\ Pack("Pong", 0, "none").kind = "Pong"
        BY <1>0, <2>0 DEF Message, Pack
      <4> QED BY <4>1 DEF Packet
    <3>2. inbox' = Append(inbox, p) /\ srv' = srv /\ sock' = sock /\ wire' = Tail(wire)
          /\ srv.ph = "idle" /\ m.kind = "Ping"
      BY <2>4 DEF ServerPongs, Send
    <3> HIDE DEF p
    <3>3. Starts
      BY <2>0, <3>1, <3>2 DEF Starts, IsRequest
    <3> QED BY <3>3
  <2>5. CASE ServerCancels(m)
    BY <1>0, <1>a, <2>0, <2>5 DEF ServerCancels, Idles, IsRequest
  <2>6. CASE ServerStores(m)
    <3>1. /\ sock' = sock /\ inbox' = inbox /\ wire' = Tail(wire) /\ m.kind \in {"Data", "Empty"}
          /\ srv.ph = "receive"
      BY <2>6 DEF ServerStores
    <3>2. srv' = srv \/ srv' = [srv EXCEPT !.ph = "finish"]
      BY <2>6 DEF ServerStores
    <3>3. srv'.q = srv.q /\ srv'.layout = srv.layout /\ srv'.ph \in {srv.ph, "finish"}
      BY <1>0, <3>2 DEF Session
    <3> QED BY <2>0, <3>1, <3>3 DEF Idles, IsRequest
  <2>7. CASE ServerDiscards(m)
    BY <1>0, <1>a, <2>0, <2>7 DEF ServerDiscards, Idles, IsRequest
  <2>8. CASE ServerGivesUp(m)
    BY <2>8 DEF ServerGivesUp, Reset, Breaks
  <2> QED BY <1>1, <2>1, <2>2, <2>3, <2>4, <2>5, <2>6, <2>7, <2>8 DEF ServerReads
<1>2. CASE ServerChatters
  <2>1. PICK k \in Optional : Send(Pack(k, 0, LayoutOf(k)))
    BY <1>2 DEF ServerChatters
  <2>2. /\ k \in Chatter /\ srv.ph \in Working
        /\ k \in {"Totals", "Extremes"} => srv.ph = "run"
        /\ k = "TableColumns" => srv.ph # "run"
    BY <2>1 DEF Optional, Working
  <2>3. k \in Kinds /\ k \notin {"Junk", "Hello", "Pong"} /\ ~Final(k)
    BY <1>0, <2>2, ServerAssumption DEF Final, Blocks, Infos, Terminals
  <2>4. LayoutOf(k) \in Layouts
    BY <1>0, LayoutOfType
  <2> DEFINE p == Pack(k, 0, LayoutOf(k))
  <2>5. p \in Packet /\ p.kind = k /\ p.q = srv.q /\ p.layout = LayoutOf(k)
    BY <1>0, <2>3, <2>4 DEF Pack
  <2>7. inbox' = Append(inbox, p)
    BY <2>1 DEF Send
  <2>8. /\ sock = "open" /\ sock' = sock /\ wire' = wire
        /\ srv'.ph = srv.ph /\ srv'.q = srv.q /\ srv'.layout = srv.layout
    BY <1>0, <1>a, <1>2 DEF ServerChatters
  <2> HIDE DEF p
  <2> QED BY <2>2, <2>3, <2>5, <2>7, <2>8 DEF Sends
<1>3. CASE ServerSendsData
  <2>1. PICK r \in 0..MaxRows, s \in {srv.layout, "empty"} : Send(Pack("Data", r, s))
    BY <1>3 DEF ServerSendsData
  <2> DEFINE p == Pack("Data", r, s)
  <2>2. p \in Packet /\ p.kind = "Data" /\ p.q = srv.q /\ p.layout = s
    BY <1>0, <2>1 DEF Pack
  <2>3. inbox' = Append(inbox, p)
    BY <2>1 DEF Send
  <2>4. /\ sock = "open" /\ sock' = sock /\ wire' = wire /\ srv.ph = "run"
        /\ srv'.ph = srv.ph /\ srv'.q = srv.q /\ srv'.layout = srv.layout
    BY <1>0, <1>a, <1>3 DEF ServerSendsData
  <2> HIDE DEF p
  <2> QED BY <2>1, <2>2, <2>3, <2>4 DEF Sends, Working, Final, Terminals
<1>4. CASE ServerSendsHeader
  <2> DEFINE p == Pack("Data", 0, srv.layout)
  <2>2. p \in Packet /\ p.kind = "Data" /\ p.q = srv.q /\ p.layout = srv.layout
    BY <1>0 DEF Pack
  <2>3. inbox' = Append(inbox, p)
    BY <1>4 DEF ServerSendsHeader, Send
  <2>4. /\ sock = "open" /\ sock' = sock /\ wire' = wire /\ srv.ph = "header"
        /\ srv'.ph = "receive" /\ srv'.q = srv.q /\ srv'.layout = srv.layout
    BY <1>0, <1>a, <1>4 DEF ServerSendsHeader
  <2> HIDE DEF p
  <2> QED BY <2>2, <2>3, <2>4 DEF Sends, Working, Final, Terminals
<1>5. CASE ServerEnds \/ ServerThrows
  <2>1. PICK k \in {"EndOfStream", "Exception"} : Send(Pack(k, 0, "none"))
    BY <1>5 DEF ServerEnds, ServerThrows
  <2> DEFINE p == Pack(k, 0, "none")
  <2>2. p \in Packet /\ p.kind = k /\ p.q = srv.q
    BY <1>0, <2>1 DEF Pack
  <2>3. inbox' = Append(inbox, p)
    BY <2>1 DEF Send
  <2>4. /\ sock = "open" /\ sock' = sock /\ wire' = wire /\ srv.ph \in Working
        /\ srv'.ph \in {"idle", "discard"} /\ srv'.q = srv.q /\ srv'.layout = srv.layout
    <3>1. \E x \in {"idle", "discard"} : srv' = [srv EXCEPT !.ph = x]
      BY <1>5 DEF ServerEnds, ServerThrows
    <3>2. sock = "open" /\ sock' = sock /\ wire' = wire /\ srv.ph \in Working
      BY <1>5 DEF ServerEnds, ServerThrows, Working
    <3> QED BY <1>0, <1>a, <3>1, <3>2
  <2> HIDE DEF p
  <2> QED BY <2>2, <2>3, <2>4 DEF Sends
<1>6. CASE NetworkFails
  BY <1>6 DEF NetworkFails, Reset, Breaks
<1>7. CASE ServerHangs
  BY <1>0, <1>a, <1>7 DEF ServerHangs, Idles
<1> QED BY <1>1, <1>2, <1>3, <1>4, <1>5, <1>6, <1>7 DEF ServerNext, ServerSteps

\* A truncated sequence of packets has only packets of the sequence, the last one
\* possibly cut.
LEMMA RemainsOf ==
    ASSUME NEW s \in Seq(Packet), NEW t \in Remains(s)
    PROVE  /\ t \in Seq(Packet) /\ Len(t) <= Len(s)
           /\ \A i \in 1..Len(t) :
                 /\ t[i].q = s[i].q /\ t[i].layout = s[i].layout
                 /\ \/ t[i].kind = s[i].kind
                    \/ t[i].kind = "Cut" /\ i = Len(t)
<1>0. t \in Seq(Packet)
  BY RemainsType
<1>1. ASSUME NEW k \in 0..Len(s)
      PROVE  /\ Len(SubSeq(s, 1, k)) = k
             /\ \A i \in 1..k : SubSeq(s, 1, k)[i] = s[i]
  BY SubSeqProperties
<1>2. CASE t \in {SubSeq(s, 1, k) : k \in 0..Len(s)}
  <2>1. PICK k \in 0..Len(s) : t = SubSeq(s, 1, k)
    BY <1>2
  <2>2. Len(t) = k /\ \A i \in 1..k : t[i] = s[i]
    BY <1>1, <2>1
  <2> QED BY <1>0, <2>1, <2>2
<1>3. ASSUME NEW k \in {i \in 1..Len(s) : s[i].kind \notin {"EndOfStream", "Pong"}},
             t = Append(SubSeq(s, 1, k - 1), [s[k] EXCEPT !.kind = "Cut"])
      PROVE  /\ Len(t) = k
             /\ \A i \in 1..(k - 1) : t[i] = s[i]
             /\ t[k] = [s[k] EXCEPT !.kind = "Cut"]
  <2> DEFINE u == SubSeq(s, 1, k - 1)
             e == [s[k] EXCEPT !.kind = "Cut"]
  <2>1. k - 1 \in 0..Len(s) /\ s[k] \in Packet
    OBVIOUS
  <2>2. e \in Packet
    BY <2>1 DEF Packet, Kinds
  <2>3. u \in Seq(Packet) /\ Len(u) = k - 1 /\ \A i \in 1..(k - 1) : u[i] = s[i]
    BY <2>1, <1>1, SubSeqProperties
  <2>4. t = Append(u, e)
    BY <1>3
  <2> HIDE DEF u, e
  <2>5. Len(t) = k /\ t[k] = e /\ \A i \in 1..(k - 1) : t[i] = u[i]
    BY <2>2, <2>3, <2>4
  <2> QED BY <2>3, <2>5 DEF e
<1>4. CASE t \notin {SubSeq(s, 1, k) : k \in 0..Len(s)}
  <2>1. PICK k \in {i \in 1..Len(s) : s[i].kind \notin {"EndOfStream", "Pong"}} :
            t = Append(SubSeq(s, 1, k - 1), [s[k] EXCEPT !.kind = "Cut"])
    BY <1>4 DEF Remains
  <2>2. /\ Len(t) = k
        /\ \A i \in 1..(k - 1) : t[i] = s[i]
        /\ t[k] = [s[k] EXCEPT !.kind = "Cut"]
    BY <1>3, <2>1
  <2>3. s[k] \in Packet
    OBVIOUS
  <2>4. t[k].q = s[k].q /\ t[k].layout = s[k].layout /\ t[k].kind = "Cut"
    BY <2>2, <2>3 DEF Packet
  <2>5. ASSUME NEW i \in 1..Len(t)
        PROVE  /\ t[i].q = s[i].q /\ t[i].layout = s[i].layout
               /\ t[i].kind = s[i].kind \/ (t[i].kind = "Cut" /\ i = Len(t))
    <3>1. CASE i = k
      BY <2>2, <2>4, <3>1
    <3>2. CASE i # k
      <4>1. i \in 1..(k - 1)
        BY <2>2, <3>2
      <4> QED BY <2>2, <4>1
    <3> QED BY <3>1, <3>2
  <2> QED BY <1>0, <2>2, <2>5
<1> QED BY <1>2, <1>4

-----------------------------------------------------------------------------
(* Layouts: skipBlock never meets a block it refuses. *)

\* A loop stops in the middle of a packet.
\* What a caller's step does to the packets, the server and the cache.
LEMMA CallerEffect ==
    ASSUME TypeOK, NEW c \in Callers,
           Calls(c) \/ CtxDone(c) \/ LoopStep(c) \/ StreamLoopStep(c)
    PROVE  /\ \/ inbox' = inbox \/ inbox' = << >> \/ inbox' \in Remains(inbox)
              \/ inbox # << >> /\ pc[c] \in Loops /\ inbox' \in {Tail(inbox), Leftover}
           /\ srv' = srv \/ srv' = NewSession("gone") \/ srv' = NewSession("greet")
           /\ skip' = skip \/ ReadSkip(c)
<1>1. CASE Connect(c)
  BY <1>1, Zenon DEF Connect, CloseSocket
<1>2. CASE ReadHello(c)
  <2>1. pc[c] \in Loops
    BY <1>2 DEF ReadHello, Loops
  <2> QED BY <1>2, <2>1, Zenon DEF ReadHello, ConnectFails, CloseSocket
<1>3. CASE Close(c)
  BY <1>3, Zenon DEF Close, CloseSocket
<1>4. CASE Exec(c) \/ Select(c) \/ Ping(c) \/ Insert(c) \/ SelectStream(c) \/ InsertStream(c)
  <2>1. \E p, m, sh : Begin(c, p, m, sh)
    BY <1>4, Zenon DEF Exec, Select, Ping, Insert, SelectStream, InsertStream
  <2> QED BY <2>1, Zenon DEF Begin
<1>5. CASE Bind(c) \/ StreamNext(c) \/ StreamCancel(c) \/ StreamClose(c) \/ Release(c) \/ Unlock(c)
           \/ StreamAppend(c) \/ InsertStreamClose(c) \/ NextContextDone(c)
           \/ CtxDone(c) \/ CheckContext(c) \/ ContextDone(c) \/ ReadFails(c)
  BY <1>5 DEF Bind, StreamNext, StreamCancel, StreamClose, Release, Unlock, StreamAppend,
     InsertStreamClose, NextContextDone, Drain, CtxDone, CheckContext, ContextDone, ReadFails,
     serverVars, connVars, readVars
<1>6. CASE \/ ReadEnd(c) \/ ReadException(c) \/ ReadReject(c) \/ ReadPass(c)
           \/ ReadSelectRows(c) \/ ReadHeader(c) \/ ReadStreamRows(c) \/ ReadSkip(c)
  <2>1. inbox # << >> /\ pc[c] \in Loops
    BY <1>6, Zenon DEF ReadEnd, ReadException, ReadReject, ReadPass, ReadSelectRows, ReadHeader,
       ReadStreamRows, ReadSkip, Reads
  <2>2. inbox' \in {Tail(inbox), Leftover}
    BY <1>6, Zenon DEF ReadEnd, ReadException, ReadReject, ReadPass, ReadSelectRows, ReadHeader,
       ReadStreamRows, ReadSkip
  <2>3. srv' = srv /\ (skip' = skip \/ ReadSkip(c))
    BY <1>6 DEF ReadEnd, ReadException, ReadReject, ReadPass, ReadSelectRows, ReadHeader,
       ReadStreamRows, ReadSkip, readVars
  <2> QED BY <2>1, <2>2, <2>3
<1> QED BY <1>1, <1>2, <1>3, <1>4, <1>5, <1>6 DEF Calls, LoopStep, StreamLoopStep

-----------------------------------------------------------------------------
(* Whose packets are on their way. *)

InsertOps == {"insert_header", "insert_response", "is_header", "is_open", "is_response"}
Unused == {"idle", "s_done"}
Active(c) == pc[c] \notin Unused \cup {"hello"}

\* Phases in which the server sends nothing unless it is asked.
Rest == {"addendum", "idle", "discard", "hung"}

NoRequest == \A i \in 1..Len(wire) : ~IsRequest(wire[i])

\* A packet of the response to c's request, of a kind that such a response has.
Mine(c, p) ==
    /\ p.q = qid[c] /\ p.kind \notin {"Junk", "Hello"}
    /\ pc[c] \in InsertOps => p.kind \notin {"Totals", "Extremes"}
    /\ pc[c] \notin InsertOps => p.kind # "TableColumns"

\* m is c's request.
Asks(c, m) == m.q = qid[c] /\ (m.op = "insert" <=> pc[c] \in InsertOps)

\* A caller outside an operation has no request, and Next is called on a stream
\* that has columns.
Known ==
    \A c \in Callers :
        /\ pc[c] \in {"idle", "hello"} => qid[c] = 0
        /\ pc[c] = "s_next" => shape[c] # "unbound"

\* Nobody waits for a response, and none is on its way.
AtRest ==
    /\ inbox = << >>
    /\ sock = "open" => srv.ph \in Rest /\ NoRequest

\* Connect waits for the server's hello.
Greeting ==
    /\ Len(inbox) <= 1
    /\ \A i \in 1..Len(inbox) : inbox[i].q = 0
    /\ sock = "open" =>
          /\ NoRequest
          /\ srv.q = 0 /\ srv.ph \in Rest \cup {"greet", "gone"}
          /\ srv.ph = "greet" => inbox = << >>
          /\ srv.ph = "gone" => \A i \in 1..Len(inbox) : inbox[i].kind # "Hello"

\* The packets on their way are c's, the end of the response is the last, and the
\* server has the only request: still to be read, being worked on, or answered.
OwnPackets(c) ==
    /\ \A i \in 1..Len(inbox) : Mine(c, inbox[i])
    /\ \A i \in 1..Len(inbox) : Final(inbox[i].kind) => i = Len(inbox)
OneRequest(c) ==
    /\ \A i \in 1..Len(wire) : IsRequest(wire[i]) =>
           inbox = << >> /\ srv.ph \notin Working /\ Asks(c, wire[i])
    /\ \A i, j \in 1..Len(wire) : IsRequest(wire[i]) /\ IsRequest(wire[j]) => i = j
WorksFor(c) ==
    /\ srv.q = qid[c] /\ (srv.ph # "run" <=> pc[c] \in InsertOps)
    /\ \A i \in 1..Len(inbox) : ~Final(inbox[i].kind)
Responds(c) ==
    /\ OwnPackets(c)
    /\ sock = "open" =>
          /\ srv.ph \in Rest \cup Working
          /\ OneRequest(c)
          /\ srv.ph \in Working => WorksFor(c)

\* Client and server agree on the response that is being read.
Sync ==
    ~suspect =>
        /\ Known
        /\ (\A c \in Callers : pc[c] \in Unused) => AtRest
        /\ \A c \in Callers : pc[c] = "hello" => Greeting
        /\ \A c \in Callers : Active(c) => Responds(c)

(* What a step of the operation does, if no caller is told of an error by it. *)

\* The operation goes on: it may have read a packet and may have sent messages
\* other than a request.
Goes(c) ==
    /\ \E p : /\ pc' = [pc EXCEPT ![c] = p] /\ p \notin Unused \cup {"hello"}
              /\ p \in InsertOps <=> pc[c] \in InsertOps
              /\ p = "s_next" => shape'[c] # "unbound"
    /\ \A d \in Callers : d # c => shape'[d] = shape[d]
    /\ UNCHANGED <<sock, srv, qid>>
    /\ \/ wire' = wire
       \/ \E ms \in Seq(Message) :
             wire' = wire \o ms /\ \A i \in 1..Len(ms) : ~IsRequest(ms[i])
    /\ inbox' = inbox \/ (inbox # << >> /\ inbox' = Tail(inbox))

\* The operation is over.
Ends(c) ==
    /\ \/ /\ pc' = [pc EXCEPT ![c] = "idle"] /\ qid' = [qid EXCEPT ![c] = 0]
          /\ \A d \in Callers : d # c => shape'[d] = shape[d]
       \/ pc' = [pc EXCEPT ![c] = "s_done"] /\ qid' = qid /\ shape' = shape
    /\ UNCHANGED <<sock, srv, wire>>
    /\ inbox' = << >>
    /\ \/ inbox # << >> /\ Final(Head(inbox).kind)
       \/ sock # "open"

\* A return that tells of no error is one of an answer or of a drain.
LEMMA ReturnEnds ==
    ASSUME TypeOK, NEW c \in Callers, NEW r, Return(c, r), ~suspect'
    PROVE  /\ ~suspect /\ r # "protocol" /\ (pc[c] \in Drains \/ r \in {"ok", "server"})
           /\ \/ /\ pc' = [pc EXCEPT ![c] = "idle"] /\ qid' = [qid EXCEPT ![c] = 0]
                 /\ \A d \in Callers : d # c => shape'[d] = shape[d]
              \/ pc' = [pc EXCEPT ![c] = "s_done"] /\ qid' = qid /\ shape' = shape
<1>1. ~suspect /\ r # "protocol" /\ (pc[c] \in Drains \/ r \in {"ok", "server"})
  BY DEF Return
<1>2. CASE After(pc[c]) = "idle"
  <2>1. pc' = [pc EXCEPT ![c] = "idle"] /\ Forget(c)
    BY <1>2 DEF Return
  <2>2. \A d \in Callers : d # c => shape'[d] = shape[d]
    BY <2>1 DEF Forget, TypeOK, ConnTypeOK
  <2> QED BY <1>1, <2>1, <2>2 DEF Forget
<1>3. CASE After(pc[c]) # "idle"
  <2>1. After(pc[c]) = "s_done"
    BY <1>3 DEF After
  <2> QED BY <1>1, <1>3, <2>1 DEF Return, locals
<1> QED BY <1>2, <1>3

\* The end of the response is the last packet.
LEMMA EndIsLast ==
    ASSUME TypeOK, NEW c \in Callers, OwnPackets(c), inbox # << >>, Final(Head(inbox).kind)
    PROVE  Tail(inbox) = << >> /\ Leftover \in {<< >>, <<Junk>>}
<1>1. inbox \in Seq(Packet)
  BY DEF TypeOK, ServerTypeOK
<1>2. 1 \in 1..Len(inbox) /\ Head(inbox) = inbox[1]
  BY <1>1
<1>3. Len(inbox) = 1
  BY <1>1, <1>2 DEF OwnPackets
<1>4. Tail(inbox) = << >>
  BY <1>1, <1>3
<1>5. <<Junk>> \o << >> = <<Junk>>
  OBVIOUS
<1> QED BY <1>4, <1>5 DEF Leftover

\* A caller in the middle of an operation goes on with it or ends it.
LEMMA OperationEffect ==
    ASSUME TypeOK, Regular, Known, NEW c \in Callers, Active(c), OwnPackets(c), ~suspect',
           Calls(c) \/ CtxDone(c) \/ LoopStep(c) \/ StreamLoopStep(c)
    PROVE  Goes(c) \/ Ends(c)
<1>0. /\ pc \in [Callers -> Loops \cup Open \cup {"idle"}]
      /\ shape \in [Callers -> Shapes \cup {"unbound"}]
      /\ wire \in Seq(Message) /\ inbox \in Seq(Packet) /\ qid[c] \in Nat
  BY DEF TypeOK, ServerTypeOK, ConnTypeOK
<1>a. pc[c] # "idle" /\ pc[c] # "s_done" /\ pc[c] # "hello"
  BY DEF Active, Unused
<1>b. ASSUME inbox # << >>
      PROVE  /\ Head(inbox) = inbox[1] /\ Mine(c, Head(inbox))
             /\ Seen(Head(inbox)) = {Head(inbox).kind}
             /\ \A t : Reads(c, t) => Treat(LoopOf(pc[c]), Head(inbox).kind) = t
  <2>1. Head(inbox) = inbox[1] /\ 1 \in 1..Len(inbox)
    BY <1>0, <1>b
  <2>2. Mine(c, Head(inbox))
    BY <2>1 DEF OwnPackets
  <2>3. Seen(Head(inbox)) = {Head(inbox).kind}
    BY <2>2 DEF Seen, Mine
  <2> QED BY <2>1, <2>2, <2>3 DEF Reads
<1>c. ASSUME NEW r, Return(c, r), inbox # << >>, Final(Head(inbox).kind),
             inbox' = Tail(inbox), UNCHANGED <<sock, srv, wire>>
      PROVE  Ends(c)
  BY <1>c, ReturnEnds, EndIsLast DEF Ends
<1>d. pc = [pc EXCEPT ![c] = pc[c]]
  BY <1>0
<1>e. ASSUME NEW r, Continue(c, r), inbox # << >>, inbox' = Tail(inbox), UNCHANGED <<sock, srv, wire>>
      PROVE  Goes(c)
  <2>1. pc' = pc /\ qid' = qid /\ shape' = shape
    BY <1>e DEF Continue
  <2>2. pc[c] = "s_next" => shape'[c] # "unbound"
    BY <2>1 DEF Known
  <2> QED BY <1>a, <1>d, <1>e, <2>1, <2>2 DEF Goes, Unused
<1>1. CASE Connect(c) \/ Close(c) \/ Release(c) \/ Unlock(c) \/ ReadHello(c)
  BY <1>1, <1>a DEF Connect, Close, Release, Unlock, Regular, ReadHello
<1>2. CASE Exec(c) \/ Select(c) \/ Ping(c) \/ Insert(c) \/ SelectStream(c) \/ InsertStream(c)
  <2>1. \E p, m, sh : Begin(c, p, m, sh)
    BY <1>2, Zenon DEF Exec, Select, Ping, Insert, SelectStream, InsertStream
  <2> QED BY <1>a, <2>1, Zenon DEF Begin
<1>3. CASE Bind(c)
  <2>1. /\ pc' = pc /\ pc[c] # "s_next" /\ UNCHANGED <<sock, srv, qid, wire, inbox>>
        /\ \A d \in Callers : d # c => shape'[d] = shape[d]
    BY <1>0, <1>3 DEF Bind, serverVars
  <2> QED BY <1>a, <1>d, <2>1 DEF Goes, Unused
<1>4. CASE CtxDone(c) \/ CheckContext(c)
  <2>1. UNCHANGED <<pc, sock, srv, qid, wire, inbox, shape>>
    BY <1>4 DEF CtxDone, CheckContext, serverVars, locals
  <2>2. pc[c] = "s_next" => shape'[c] # "unbound"
    BY <2>1 DEF Known
  <2> QED BY <1>a, <1>d, <2>1, <2>2 DEF Goes, Unused
<1>5. CASE StreamNext(c)
  <2>1. /\ pc[c] = "s_open" /\ pc' = [pc EXCEPT ![c] = "s_next"] /\ shape[c] # "unbound"
        /\ UNCHANGED <<sock, srv, qid, wire, inbox, shape>>
    BY <1>5 DEF StreamNext, serverVars
  <2> QED BY <2>1 DEF Goes, Unused, InsertOps
<1>6. ASSUME NEW p \in Drains, Drain(c, p), pc[c] \notin InsertOps
      PROVE  Goes(c)
  <2> DEFINE m == Msg("Cancel", qid[c], "none", TRUE)
  <2>1. m \in Message /\ ~IsRequest(m)
    BY <1>0, MsgType DEF ClientKinds, Msg, IsRequest
  <2>2. wire' = wire \/ wire' = Append(wire, m)
    BY <1>6 DEF Drain, sendCancel
  <2> HIDE DEF m
  <2>3. Append(wire, m) = wire \o <<m>> /\ <<m>> \in Seq(Message) /\ Len(<<m>>) = 1 /\ <<m>>[1] = m
    BY <1>0, <2>1
  <2>a. \A i \in 1..Len(<<m>>) : ~IsRequest(<<m>>[i])
    BY <2>1, <2>3
  <2>4. \/ wire' = wire
        \/ \E ms \in Seq(Message) :
              wire' = wire \o ms /\ \A i \in 1..Len(ms) : ~IsRequest(ms[i])
    BY <2>2, <2>3, <2>a, Zenon
  <2>5. UNCHANGED <<sock, srv, qid, inbox, shape>> /\ pc' = [pc EXCEPT ![c] = p]
    BY <1>6 DEF Drain
  <2>6. p \notin Unused \cup {"hello"} /\ p \notin InsertOps /\ p # "s_next"
    BY <1>6 DEF Drains, Unused, InsertOps
  <2> QED BY <1>6, <2>4, <2>5, <2>6 DEF Goes
<1>7. CASE StreamCancel(c) \/ StreamClose(c) \/ NextContextDone(c)
  <2>1. \E p \in Drains : Drain(c, p)
    BY <1>7, <1>a DEF StreamCancel, StreamClose, NextContextDone, Drains
  <2>2. pc[c] \notin InsertOps
    BY <1>7, <1>a DEF StreamCancel, StreamClose, NextContextDone, InsertOps
  <2> QED BY <1>6, <2>1, <2>2
<1>8. ASSUME NEW ms \in Seq(Message), Flush(ms), \A i \in 1..Len(ms) : ~IsRequest(ms[i]),
             NEW p \in InsertOps, pc' = [pc EXCEPT ![c] = p], pc[c] \in InsertOps,
             UNCHANGED <<sock, srv, qid, shape>>,
             inbox' = inbox \/ (inbox # << >> /\ inbox' = Tail(inbox))
      PROVE  Goes(c)
  <2>1. wire' = wire \/ wire' = wire \o ms
    BY <1>8 DEF Flush
  <2>2. p \notin Unused \cup {"hello"} /\ p # "s_next"
    BY <1>8 DEF InsertOps, Unused
  <2> QED BY <1>8, <2>1, <2>2 DEF Goes
<1>9. CASE StreamAppend(c) \/ InsertStreamClose(c)
  <2>1. pc[c] = "is_open" /\ UNCHANGED <<sock, srv, qid, shape, inbox>>
    <3>1. CASE InsertStreamClose(c) /\ Return(c, "network")
      BY <3>1, ReturnEnds DEF InsertStreamClose, Drains
    <3>2. CASE InsertStreamClose(c) /\ ~Return(c, "network")
      BY <3>2 DEF InsertStreamClose, locals
    <3>3. CASE StreamAppend(c)
      BY <3>3 DEF StreamAppend
    <3> QED BY <1>9, <3>1, <3>2, <3>3
  <2>2. PICK k \in {"Data", "Empty"}, g \in BOOLEAN, p \in {"is_open", "is_response"} :
          Flush(<<Msg(k, qid[c], "none", g)>>) /\ pc' = [pc EXCEPT ![c] = p]
    <3>1. CASE InsertStreamClose(c)
      <4>1. ~Return(c, "network")
        BY <3>1, ReturnEnds DEF InsertStreamClose, Drains
      <4> QED BY <3>1, <4>1, Zenon DEF InsertStreamClose
    <3>2. CASE StreamAppend(c)
      <4>1. Flush(<<Msg("Data", qid[c], "none", shape[c] = "fits")>>) /\ pc' = pc
        BY <3>2, Zenon DEF StreamAppend
      <4>2. (shape[c] = "fits") \in BOOLEAN
        OBVIOUS
      <4> QED BY <1>d, <2>1, <4>1, <4>2, Zenon
    <3> QED BY <1>9, <3>1, <3>2
  <2> DEFINE m == Msg(k, qid[c], "none", g)
  <2>3. m \in Message /\ ~IsRequest(m)
    BY <1>0, <2>2, MsgType DEF ClientKinds, Msg, IsRequest
  <2> HIDE DEF m
  <2>4. <<m>> \in Seq(Message) /\ \A i \in 1..Len(<<m>>) : ~IsRequest(<<m>>[i])
    BY <2>3
  <2>5. Flush(<<m>>)
    BY <2>2 DEF m
  <2>6. {"is_open", "is_response"} \subseteq InsertOps
    BY DEF InsertOps
  <2> QED BY <1>8, <2>1, <2>2, <2>4, <2>5, <2>6
<1>10. CASE ContextDone(c)
  BY <1>10, ReturnEnds DEF ContextDone, CtxLoops, Drains
<1>11. CASE ReadEnd(c) \/ ReadException(c)
  <2>1. /\ inbox # << >> /\ inbox' = Tail(inbox) /\ UNCHANGED <<sock, srv, wire>>
        /\ \E r : Return(c, r)
    BY <1>11 DEF ReadEnd, ReadException, Reads, readVars
  <2>2. Treat(LoopOf(pc[c]), Head(inbox).kind) \in {"end", "throw"}
    BY <1>11, <1>b, <2>1 DEF ReadEnd, ReadException
  <2>3. Final(Head(inbox).kind)
    BY <2>2 DEF Treat, Final, Terminals
  <2> QED BY <1>c, <2>1, <2>3
<1>12. CASE ReadPass(c)
  <2>0. /\ inbox # << >> /\ UNCHANGED <<sock, srv, wire>> /\ Continue(c, 0)
        /\ pc[c] \in Loops
    BY <1>12 DEF ReadPass, Reads, readVars
  <2>1. CASE Reads(c, "pass") /\ inbox' = Tail(inbox)
    BY <1>e, <2>0, <2>1
  <2>2. CASE Reads(c, "ignore") /\ inbox' = IF Head(inbox) = Junk THEN Tail(inbox) ELSE Leftover
    <3>1. Treat(LoopOf(pc[c]), Head(inbox).kind) = "ignore" /\ Mine(c, Head(inbox))
      BY <1>b, <2>0, <2>2
    <3>0. Head(inbox) \in Packet
      BY <1>0, <2>0
    <3>a. Head(inbox).kind \in Kinds
      BY <3>0 DEF Packet
    <3>b. LoopOf(pc[c]) = "column_info" => pc[c] \in InsertOps
      BY <2>0 DEF LoopOf, InsertOps, Loops, CtxLoops, Drains
    <3>c. LoopOf(pc[c]) = "select" => pc[c] \notin InsertOps
      BY <2>0 DEF LoopOf, InsertOps, Loops, CtxLoops, Drains
    <3>d. LoopOf(pc[c]) \in {"column_info", "insert_response", "drain", "exec", "select", "s_next", "ping"}
      BY <1>a, <2>0 DEF LoopOf, Loops, CtxLoops
    <3>2. Head(inbox).kind = "Pong"
      <4> DEFINE k == Head(inbox).kind
                 l == LoopOf(pc[c])
      <4>1. /\ k \in Kinds \ {"Junk", "Hello"} /\ Treat(l, k) = "ignore"
            /\ l = "column_info" => k \notin {"Totals", "Extremes"}
            /\ l = "select" => k # "TableColumns"
            /\ l \in {"column_info", "insert_response", "drain", "exec", "select", "s_next", "ping"}
        BY <3>1, <3>a, <3>b, <3>c, <3>d DEF Mine
      <4> HIDE DEF k, l
      <4>2. k = "Pong"
        BY <4>1 DEF Treat, Kinds, Blocks, Infos, Terminals
      <4> QED BY <4>2 DEF k
    <3>3. inbox' = Tail(inbox)
      BY <2>2, <3>2 DEF Leftover
    <3> QED BY <1>e, <2>0, <3>3
  <2> QED BY <1>12, <2>1, <2>2 DEF ReadPass
<1>13. CASE ReadSkip(c)
  <2>1. ~Return(c, "protocol")
    BY ReturnEnds
  <2>2. inbox' = Tail(inbox) /\ Continue(c, 0)
    BY <1>13, <2>1, Zenon DEF ReadSkip
  <2>3. inbox # << >> /\ UNCHANGED <<sock, srv, wire>>
    BY <1>13 DEF ReadSkip, Reads, readVars
  <2> QED BY <1>e, <2>2, <2>3
<1>14. CASE ReadSelectRows(c)
  <2>1. inbox # << >> /\ UNCHANGED <<sock, srv, wire>> /\ pc[c] \notin Drains
    BY <1>14 DEF ReadSelectRows, Reads, readVars, Drains
  <2>2. ~Return(c, "protocol")
    BY <2>1, ReturnEnds
  <2>3. inbox' = Tail(inbox) /\ Continue(c, Head(inbox).rows)
    BY <1>14, <2>2, Zenon DEF ReadSelectRows
  <2> QED BY <1>e, <2>1, <2>3
<1>15. CASE ReadHeader(c)
  <2>1. inbox # << >> /\ UNCHANGED <<sock, srv>> /\ pc[c] \in Loops \ {"hello"}
    BY <1>15 DEF ReadHeader, Reads, readVars
  <2>2. pc[c] \in {"insert_header", "is_header"}
    <3>1. Treat(LoopOf(pc[c]), Head(inbox).kind) = "header"
      BY <1>15, <1>b, <2>1 DEF ReadHeader
    <3>2. LoopOf(pc[c]) = "column_info"
      BY <3>1 DEF Treat
    <3> QED BY <2>1, <3>2 DEF LoopOf, Loops, CtxLoops, Drains
  <2>3. pc[c] \notin Drains /\ pc[c] \in InsertOps
    BY <2>2 DEF Drains, InsertOps
  <2>4. ~Return(c, "protocol") /\ ~Return(c, "network")
    BY <2>3, ReturnEnds
  <2> DEFINE ms == <<Msg("Data", qid[c], "none", TRUE), Msg("Empty", qid[c], "none", TRUE)>>
  <2>5. inbox' = Tail(inbox) /\ UNCHANGED <<qid, shape>>
    BY <1>15, <2>4 DEF ReadHeader, InsertData, locals
  <2>6. \/ wire' = wire /\ pc' = [pc EXCEPT ![c] = "is_open"]
        \/ Flush(ms) /\ pc' = [pc EXCEPT ![c] = "insert_response"]
    BY <1>15, <2>4, Zenon DEF ReadHeader, InsertData
  <2>7. ms \in Seq(Message) /\ \A i \in 1..Len(ms) : ~IsRequest(ms[i])
    <3>1. \A k \in {"Data", "Empty"} : Msg(k, qid[c], "none", TRUE) \in Message
                                       /\ ~IsRequest(Msg(k, qid[c], "none", TRUE))
      BY <1>0, MsgType DEF ClientKinds, Msg, IsRequest
    <3>2. ASSUME NEW a \in Message, NEW b \in Message, ~IsRequest(a), ~IsRequest(b)
          PROVE  <<a, b>> \in Seq(Message) /\ \A i \in 1..Len(<<a, b>>) : ~IsRequest(<<a, b>>[i])
      <4>1. /\ <<a, b>> \in Seq(Message) /\ Len(<<a, b>>) = 2
            /\ <<a, b>>[1] = a /\ <<a, b>>[2] = b
        OBVIOUS
      <4>2. \A i \in 1..2 : <<a, b>>[i] \in {a, b}
        BY <4>1
      <4> QED BY <3>2, <4>1, <4>2
    <3> QED BY <3>1, <3>2, Zenon
  <2> HIDE DEF ms
  <2>8. {"is_open", "insert_response"} \subseteq InsertOps
    BY DEF InsertOps
  <2>9. CASE wire' = wire /\ pc' = [pc EXCEPT ![c] = "is_open"]
    <3>1. "is_open" \notin Unused \cup {"hello"} /\ "is_open" # "s_next" /\ "is_open" \in InsertOps
      BY DEF Unused, InsertOps
    <3> QED BY <2>1, <2>3, <2>5, <2>9, <3>1 DEF Goes
  <2> QED BY <1>8, <2>1, <2>3, <2>5, <2>6, <2>7, <2>8, <2>9
<1>16. CASE ReadReject(c)
  <2>1. \/ Return(c, "protocol")
        \/ pc[c] \notin Drains /\ Return(c, "network")
    BY <1>16 DEF ReadReject, LoopOf, Drains
  <2> QED BY <2>1, ReturnEnds
<1>17. CASE ReadFails(c)
  <2>1. sock # "open" /\ inbox = << >> /\ UNCHANGED <<inbox, sock, srv, wire>> /\ Return(c, "network")
    BY <1>17 DEF ReadFails, readVars
  <2> QED BY <2>1, ReturnEnds DEF Ends
<1>18. CASE ReadStreamRows(c)
  <2>1. inbox # << >> /\ UNCHANGED <<sock, srv, wire>> /\ pc[c] = "s_next" /\ pc[c] \notin Drains
    BY <1>18 DEF ReadStreamRows, Reads, readVars, Drains
  <2>2. ~Return(c, "protocol")
    BY <2>1, ReturnEnds
  <2>4. CASE inbox' = Tail(inbox) /\ Continue(c, 0)
    BY <1>e, <2>1, <2>4
  <2>5. CASE /\ shape[c] = "fits" /\ inbox' = Tail(inbox)
             /\ pc' = [pc EXCEPT ![c] = "s_open"] /\ UNCHANGED <<qid, shape>>
    BY <2>1, <2>5 DEF Goes, Unused, InsertOps
  <2> QED BY <1>18, <2>2, <2>4, <2>5 DEF ReadStreamRows
<1> QED
  BY <1>1, <1>2, <1>3, <1>4, <1>5, <1>7, <1>9, <1>10, <1>11, <1>12, <1>13, <1>14, <1>15, <1>16,
     <1>17, <1>18
  DEF Calls, LoopStep, StreamLoopStep

\* A caller outside an operation connects, closes, begins an operation, gets the
\* answer to its hello or gives back the stream that is done.
LEMMA UnusedEffect ==
    ASSUME TypeOK, Manual = {}, NEW c \in Callers, ~Active(c),
           Calls(c) \/ CtxDone(c) \/ LoopStep(c) \/ StreamLoopStep(c)
    PROVE  \/ Connect(c) \/ Close(c) \/ ReadHello(c)
           \/ /\ pc[c] = "s_done" /\ pc' = [pc EXCEPT ![c] = "idle"] /\ Forget(c)
              /\ UNCHANGED <<serverVars, suspect>>
           \/ \E p, m, sh : /\ Begin(c, p, m, sh) /\ p \notin Unused \cup {"hello", "s_next"}
                            /\ m \in Message /\ IsRequest(m) /\ m.q = nextq
                            /\ m.op = "insert" <=> p \in InsertOps
<1>0. /\ pc[c] \in {"idle", "s_done", "hello"} /\ nextq \in Nat
      /\ \A r : r \in Loops \ {"hello"} => r \notin {"idle", "s_done", "hello"}
  BY DEF Active, Unused, TypeOK, ConnTypeOK, Loops, CtxLoops, Drains
<1>1. ASSUME NEW o \in {"exec", "select", "insert"}
      PROVE  /\ writeQuery(o) \in Message /\ IsRequest(writeQuery(o))
             /\ writeQuery(o).q = nextq /\ writeQuery(o).op = o
  BY <1>0, MsgType DEF writeQuery, Msg, IsRequest, ClientKinds
<1>2. /\ Msg("Ping", nextq, "none", TRUE) \in Message /\ IsRequest(Msg("Ping", nextq, "none", TRUE))
      /\ Msg("Ping", nextq, "none", TRUE).q = nextq /\ Msg("Ping", nextq, "none", TRUE).op = "none"
  BY <1>0, MsgType DEF Msg, IsRequest, ClientKinds
<1>3. /\ {"exec", "select", "ping", "insert_header", "is_header", "s_open"}
            \cap (Unused \cup {"hello", "s_next"}) = {}
      /\ {"insert_header", "is_header"} \subseteq InsertOps
      /\ {"exec", "select", "ping", "s_open"} \cap InsertOps = {}
  BY DEF Unused, InsertOps
<1>4. CASE Exec(c)
  BY <1>1, <1>3, <1>4 DEF Exec
<1>5. CASE Select(c)
  BY <1>1, <1>3, <1>5 DEF Select
<1>6. CASE Ping(c)
  BY <1>2, <1>3, <1>6 DEF Ping
<1>7. CASE Insert(c)
  BY <1>1, <1>3, <1>7 DEF Insert
<1>8. CASE SelectStream(c)
  BY <1>1, <1>3, <1>8 DEF SelectStream
<1>9. CASE InsertStream(c)
  BY <1>1, <1>3, <1>9 DEF InsertStream
<1>10. CASE Connect(c) \/ Close(c) \/ ReadHello(c)
  BY <1>10
<1>11. CASE StreamClose(c)
  BY <1>0, <1>11, Zenon DEF StreamClose
<1>12. CASE Bind(c) \/ StreamNext(c) \/ StreamCancel(c) \/ Release(c) \/ Unlock(c) \/ StreamAppend(c)
            \/ InsertStreamClose(c) \/ NextContextDone(c)
  BY <1>0, <1>12 DEF Bind, StreamNext, StreamCancel, Release, Unlock, StreamAppend, InsertStreamClose,
     NextContextDone
<1>13. CASE CtxDone(c) \/ CheckContext(c) \/ ContextDone(c)
  <2>1. pc[c] \in CtxLoops \cup {"s_open", "is_open", "insert_header", "is_header"}
    BY <1>13 DEF CtxDone, CheckContext, ContextDone
  <2> QED BY <1>0, <2>1 DEF CtxLoops
<1>14. CASE \/ ReadEnd(c) \/ ReadException(c) \/ ReadReject(c) \/ ReadPass(c) \/ ReadFails(c)
            \/ ReadSelectRows(c) \/ ReadHeader(c) \/ ReadStreamRows(c) \/ ReadSkip(c)
  <2>1. pc[c] \in Loops \ {"hello"}
    BY <1>14, Zenon DEF ReadEnd, ReadException, ReadReject, ReadPass, ReadSelectRows, ReadHeader,
       ReadStreamRows, ReadSkip, ReadFails, Reads
  <2> QED BY <1>0, <2>1
<1> QED BY <1>4, <1>5, <1>6, <1>7, <1>8, <1>9, <1>10, <1>11, <1>12, <1>13, <1>14
        DEF Calls, LoopStep, StreamLoopStep

\* The history variable is never reset.
LEMMA SuspectStays ==
    ASSUME [Next]_vars, suspect PROVE suspect'
<1>1. ASSUME NEW c \in Callers, Calls(c) \/ CtxDone(c) \/ LoopStep(c) \/ StreamLoopStep(c)
      PROVE  suspect'
  <2>1. CASE Exec(c) \/ Select(c) \/ Ping(c) \/ Insert(c) \/ SelectStream(c) \/ InsertStream(c)
    <3>1. \E p, m, sh : Begin(c, p, m, sh)
      BY <2>1, Zenon DEF Exec, Select, Ping, Insert, SelectStream, InsertStream
    <3> QED BY <3>1 DEF Begin
  <2>2. CASE Connect(c) \/ Close(c) \/ ReadHello(c) \/ Bind(c) \/ StreamNext(c) \/ StreamCancel(c)
             \/ StreamClose(c) \/ Release(c) \/ Unlock(c) \/ StreamAppend(c) \/ NextContextDone(c)
             \/ CtxDone(c) \/ CheckContext(c)
    BY <2>2 DEF Connect, Close, ReadHello, Bind, StreamNext, StreamCancel, StreamClose, Release, Unlock,
       StreamAppend, NextContextDone, Drain, CtxDone, CheckContext, connVars
  <2>3. CASE InsertStreamClose(c) \/ ContextDone(c) \/ ReadEnd(c) \/ ReadException(c)
             \/ ReadReject(c) \/ ReadPass(c) \/ ReadFails(c) \/ ReadSelectRows(c) \/ ReadHeader(c)
             \/ ReadStreamRows(c) \/ ReadSkip(c)
    <3>1. suspect' = suspect \/ \E r : Return(c, r)
      BY <2>3 DEF InsertStreamClose, ContextDone, ReadEnd, ReadException, ReadReject, ReadPass,
         ReadFails, ReadSelectRows, ReadHeader, InsertData, ReadStreamRows, ReadSkip, Continue
    <3> QED BY <3>1 DEF Return
  <2> QED BY <1>1, <2>1, <2>2, <2>3 DEF Calls, LoopStep, StreamLoopStep
<1> QED BY <1>1 DEF Next, vars, connVars

-----------------------------------------------------------------------------
(* The server's steps keep client and server in agreement. *)

\* Reading a message leaves no request where there was none.
LEMMA TailNoRequest ==
    ASSUME TypeOK, NoRequest, wire' = wire \/ (wire # << >> /\ wire' = Tail(wire))
    PROVE  NoRequest'
<1>1. wire \in Seq(Message)
  BY DEF TypeOK, ServerTypeOK
<1>2. CASE wire' = wire
  BY <1>2 DEF NoRequest
<1>3. CASE wire # << >> /\ wire' = Tail(wire)
  <2>1. \A i \in 1..Len(wire') : i + 1 \in 1..Len(wire) /\ wire'[i] = wire[i + 1]
    BY <1>1, <1>3
  <2> QED BY <2>1 DEF NoRequest
<1> QED BY <1>2, <1>3

\* Nothing is on its way, and nothing comes.
LEMMA ServerAtRest ==
    ASSUME TypeOK, AtRest, ServerNext PROVE AtRest'
<1>0. wire \in Seq(Message) /\ inbox \in Seq(Packet)
  BY DEF TypeOK, ServerTypeOK
<1>1. CASE Breaks
  <2>1. inbox' = << >>
    <3>1. inbox = << >> /\ Len(inbox) = 0
      BY DEF AtRest
    <3>2. inbox' \in Remains(inbox) => inbox' \in Seq(Packet) /\ Len(inbox') <= 0
      BY <1>0, <3>1, RemainsOf
    <3> QED BY <1>1, <3>1, <3>2 DEF Breaks
  <2> QED BY <1>1, <2>1 DEF Breaks, AtRest
<1>2. CASE Idles
  BY <1>2, TailNoRequest DEF Idles, AtRest, Rest
<1>3. CASE Starts
  <2>1. Head(wire) = wire[1] /\ 1 \in 1..Len(wire)
    BY <1>0, <1>3 DEF Starts
  <2> QED BY <1>3, <2>1 DEF Starts, AtRest, NoRequest
<1>4. ASSUME NEW p \in Packet, Sends(p) \/ Greets(p)
      PROVE  AtRest'
  BY <1>4 DEF Sends, Greets, AtRest, Rest, Working
<1> QED BY <1>1, <1>2, <1>3, <1>4, ServerEffect

\* During the handshake the server sends one packet.
LEMMA ServerGreeting ==
    ASSUME TypeOK, Greeting, ServerNext PROVE Greeting'
<1>0. wire \in Seq(Message) /\ inbox \in Seq(Packet)
  BY DEF TypeOK, ServerTypeOK
<1>1. CASE Breaks
  <2>1. Len(inbox') <= 1 /\ \A i \in 1..Len(inbox') : inbox'[i].q = 0
    <3>1. CASE inbox' = inbox
      BY <3>1 DEF Greeting
    <3>2. CASE inbox' \in Remains(inbox)
      BY <1>0, <3>2, RemainsOf DEF Greeting
    <3> QED BY <1>1, <3>1, <3>2 DEF Breaks
  <2> QED BY <1>1, <2>1 DEF Breaks, Greeting
<1>2. CASE Idles
  BY <1>2, TailNoRequest DEF Idles, Greeting, Rest
<1>3. CASE Starts
  <2>1. Head(wire) = wire[1] /\ 1 \in 1..Len(wire)
    BY <1>0, <1>3 DEF Starts
  <2> QED BY <1>3, <2>1 DEF Starts, Greeting, NoRequest
<1>4. ASSUME NEW p \in Packet, Sends(p)
      PROVE  Greeting'
  BY <1>4 DEF Sends, Greeting, Rest, Working
<1>5. ASSUME NEW p \in Packet, Greets(p)
      PROVE  Greeting'
  <2>1. inbox = << >> /\ NoRequest /\ srv.q = 0
    BY <1>5 DEF Greets, Greeting
  <2>2. Len(inbox') = 1 /\ inbox'[1] = p
    BY <1>0, <1>5, <2>1 DEF Greets
  <2>3. NoRequest'
    BY <1>5, <2>1, TailNoRequest DEF Greets
  <2> QED BY <1>5, <2>1, <2>2, <2>3 DEF Greets, Greeting, Rest
<1> QED BY <1>1, <1>2, <1>3, <1>4, <1>5, ServerEffect

\* The server works on c's request and on no other.
LEMMA ServerResponds ==
    ASSUME TypeOK, NEW c \in Callers, Responds(c), ServerNext, UNCHANGED <<pc, qid>>
    PROVE  Responds(c)'
<1>0. wire \in Seq(Message) /\ inbox \in Seq(Packet)
  BY DEF TypeOK, ServerTypeOK
<1>a. inbox' = inbox => OwnPackets(c)'
  BY DEF Responds, OwnPackets, Mine
<1>1. CASE Breaks
  <2>1. CASE inbox' \in Remains(inbox)
    <3>1. ASSUME NEW i \in 1..Len(inbox')
          PROVE  Mine(c, inbox'[i]) /\ (Final(inbox'[i].kind) => i = Len(inbox'))
      <4>1. /\ i \in 1..Len(inbox) /\ inbox'[i].q = inbox[i].q /\ Len(inbox') <= Len(inbox)
            /\ inbox'[i].kind = inbox[i].kind \/ (inbox'[i].kind = "Cut" /\ i = Len(inbox'))
            /\ inbox' \in Seq(Packet)
        BY <1>0, <2>1, RemainsOf
      <4>2. Mine(c, inbox[i]) /\ (Final(inbox[i].kind) => i = Len(inbox))
        BY <4>1 DEF Responds, OwnPackets
      <4> QED BY <1>0, <4>1, <4>2 DEF Mine
    <3>2. OwnPackets(c)'
      BY <3>1 DEF OwnPackets, Mine, Final
    <3> QED BY <1>1, <3>2 DEF Breaks, Responds
  <2> QED BY <1>1, <1>a, <2>1 DEF Breaks, Responds
<1>2. CASE Idles
  <2>1. \A i \in 1..Len(wire') :
          \/ wire' = wire
          \/ i + 1 \in 1..Len(wire) /\ wire'[i] = wire[i + 1]
    BY <1>0, <1>2 DEF Idles
  <2>2. OneRequest(c) /\ srv.ph \in Rest \cup Working
    BY <1>2 DEF Idles, Responds
  <2>3. srv'.ph \in Rest \cup Working /\ (srv'.ph \in Working => srv.ph \in Working)
    BY <1>2, <2>2 DEF Idles, Rest, Working
  <2>4. OneRequest(c)'
    <3>1. CASE wire' = wire
      BY <1>2, <2>2, <2>3, <3>1 DEF Idles, OneRequest, Asks
    <3>2. CASE wire' # wire
      <4>1. \A i \in 1..Len(wire') : i + 1 \in 1..Len(wire) /\ wire'[i] = wire[i + 1]
        BY <2>1, <3>2
      <4>2. ASSUME NEW i \in 1..Len(wire'), IsRequest(wire'[i])
            PROVE  inbox' = << >> /\ srv'.ph \notin Working /\ Asks(c, wire'[i])
        BY <1>2, <2>2, <2>3, <4>1, <4>2 DEF Idles, OneRequest, Asks
      <4>3. ASSUME NEW i \in 1..Len(wire'), NEW j \in 1..Len(wire'),
                   IsRequest(wire'[i]), IsRequest(wire'[j])
            PROVE  i = j
        <5>1. i + 1 = j + 1
          BY <2>2, <4>1, <4>3 DEF OneRequest
        <5> QED BY <5>1
      <4> QED BY <4>2, <4>3 DEF OneRequest, Asks, IsRequest
    <3> QED BY <3>1, <3>2
  <2>5. srv'.ph \in Working => WorksFor(c)'
    <3> SUFFICES ASSUME srv'.ph \in Working PROVE WorksFor(c)'
      OBVIOUS
    <3>1. WorksFor(c) /\ (srv'.ph = "run" <=> srv.ph = "run")
      BY <1>2, <2>3 DEF Idles, Responds, Working
    <3> QED BY <1>2, <3>1 DEF Idles, WorksFor
  <2> QED BY <1>2, <1>a, <2>3, <2>4, <2>5 DEF Idles, Responds
<1>3. CASE Starts
  <2>1. Head(wire) = wire[1] /\ 1 \in 1..Len(wire) /\ Len(wire) \in Nat
    BY <1>0, <1>3 DEF Starts
  <2>2. OneRequest(c) /\ inbox = << >> /\ Asks(c, Head(wire)) /\ IsRequest(Head(wire))
    BY <1>3, <2>1 DEF Starts, Responds, OneRequest
  <2>3. \A i \in 1..Len(wire') : ~IsRequest(wire'[i])
    <3>1. \A i \in 1..Len(wire') : i + 1 \in 1..Len(wire) /\ wire'[i] = wire[i + 1]
      BY <1>0, <1>3 DEF Starts
    <3>2. \A j \in 1..Len(wire) : j # 1 => ~IsRequest(wire[j])
      BY <2>1, <2>2 DEF OneRequest
    <3> QED BY <3>1, <3>2
  <2>4. OneRequest(c)'
    BY <2>3 DEF OneRequest, IsRequest
  <2>5. CASE /\ inbox' = inbox /\ srv'.q = Head(wire).q
             /\ srv'.ph = IF Head(wire).op = "insert" THEN "header" ELSE "run"
    <3>1. srv'.ph \in Working /\ srv'.q = qid[c] /\ (srv'.ph # "run" <=> pc[c] \in InsertOps)
      BY <2>2, <2>5 DEF Asks, Working
    <3>2. WorksFor(c)'
      BY <2>2, <2>5, <3>1 DEF WorksFor
    <3> QED BY <1>a, <2>4, <2>5, <3>1, <3>2 DEF Responds
  <2>6. ASSUME NEW p \in Packet, inbox' = Append(inbox, p), p.kind = "Pong", p.q = Head(wire).q, srv' = srv
        PROVE  Responds(c)'
    <3>1. Len(inbox') = 1 /\ inbox'[1] = p
      BY <1>0, <2>2, <2>6
    <3>2. Mine(c, p)
      BY <2>2, <2>6 DEF Mine, Asks
    <3>3. OwnPackets(c)'
      BY <3>1, <3>2 DEF OwnPackets, Mine
    <3> QED BY <1>3, <2>4, <2>6, <3>3 DEF Starts, Responds, Rest, Working
  <2> QED BY <1>3, <2>5, <2>6 DEF Starts
<1>4. ASSUME NEW p \in Packet, Sends(p)
      PROVE  Responds(c)'
  <2>1. OneRequest(c) /\ WorksFor(c) /\ OwnPackets(c) /\ srv.ph \in Working
    BY <1>4 DEF Sends, Responds
  <2>2. /\ Len(inbox') = Len(inbox) + 1 /\ inbox'[Len(inbox')] = p
        /\ \A i \in 1..Len(inbox') : i # Len(inbox') => i \in 1..Len(inbox) /\ inbox'[i] = inbox[i]
    BY <1>0, <1>4 DEF Sends
  <2>3. Mine(c, p)
    BY <1>4, <2>1 DEF Sends, WorksFor, Mine
  <2>4. OwnPackets(c)'
    <3>1. ASSUME NEW i \in 1..Len(inbox')
          PROVE  Mine(c, inbox'[i]) /\ (Final(inbox'[i].kind) => i = Len(inbox'))
      <4>1. CASE i = Len(inbox')
        BY <2>2, <2>3, <4>1
      <4>2. CASE i # Len(inbox')
        BY <2>1, <2>2, <4>2 DEF OwnPackets, WorksFor, Mine
      <4> QED BY <4>1, <4>2
    <3> QED BY <3>1 DEF OwnPackets, Mine, Final
  <2>5. OneRequest(c)'
    BY <1>4, <2>1 DEF Sends, OneRequest
  <2>6. srv'.ph \in Working => WorksFor(c)'
    <3> SUFFICES ASSUME srv'.ph \in Working PROVE WorksFor(c)'
      OBVIOUS
    <3>1. ~Final(p.kind) /\ (srv'.ph = "run" <=> srv.ph = "run")
      BY <1>4 DEF Sends, Working
    <3>2. \A i \in 1..Len(inbox') : ~Final(inbox'[i].kind)
      BY <2>1, <2>2, <3>1 DEF WorksFor
    <3> QED BY <1>4, <2>1, <3>1, <3>2 DEF Sends, WorksFor, Final
  <2> QED BY <1>4, <2>4, <2>5, <2>6 DEF Sends, Responds, Rest
<1>5. ASSUME NEW p \in Packet, Greets(p)
      PROVE  Responds(c)'
  BY <1>5 DEF Greets, Responds, Rest, Working
<1> QED BY <1>1, <1>2, <1>3, <1>4, <1>5, ServerEffect

-----------------------------------------------------------------------------
(* So do the callers' steps. *)

\* A caller that goes on with its operation.
LEMMA GoesResponds ==
    ASSUME TypeOK, NEW c \in Callers, Active(c), Responds(c), Goes(c)
    PROVE  Active(c)' /\ Responds(c)'
<1>0. /\ wire \in Seq(Message) /\ inbox \in Seq(Packet)
      /\ pc \in [Callers -> Loops \cup Open \cup {"idle"}]
  BY DEF TypeOK, ServerTypeOK, ConnTypeOK
<1>1. Active(c)' /\ (pc'[c] \in InsertOps <=> pc[c] \in InsertOps) /\ UNCHANGED <<sock, srv, qid>>
  BY <1>0 DEF Goes, Active
<1>2. /\ Len(inbox') <= Len(inbox)
      /\ inbox = << >> => inbox' = << >>
      /\ \A i \in 1..Len(inbox') : \E j \in 1..Len(inbox) :
             inbox'[i] = inbox[j] /\ (j = Len(inbox) => i = Len(inbox'))
  <2>1. CASE inbox' = inbox
    BY <1>0, <2>1
  <2>2. CASE inbox # << >> /\ inbox' = Tail(inbox)
    <3>1. Len(inbox') = Len(inbox) - 1 /\ \A i \in 1..Len(inbox') :
            i + 1 \in 1..Len(inbox) /\ inbox'[i] = inbox[i + 1]
      BY <1>0, <2>2
    <3>2. ASSUME NEW i \in 1..Len(inbox')
          PROVE  \E j \in 1..Len(inbox) : inbox'[i] = inbox[j] /\ (j = Len(inbox) => i = Len(inbox'))
      <4>1. i + 1 \in 1..Len(inbox) /\ inbox'[i] = inbox[i + 1] /\ Len(inbox) \in Nat
        BY <1>0, <3>1
      <4>2. i + 1 = Len(inbox) => i = Len(inbox')
        BY <3>1, <4>1
      <4> QED BY <4>1, <4>2
    <3>3. Len(inbox') <= Len(inbox)
      BY <1>0, <3>1
    <3> QED BY <2>2, <3>2, <3>3
  <2> QED BY <2>1, <2>2 DEF Goes
<1>3. OwnPackets(c)'
  <2>1. ASSUME NEW i \in 1..Len(inbox')
        PROVE  Mine(c, inbox'[i]) /\ (Final(inbox'[i].kind) => i = Len(inbox'))
    BY <1>2 DEF Responds, OwnPackets
  <2> QED BY <1>1, <2>1 DEF OwnPackets, Mine, Final
<1>4. \A i \in 1..Len(wire') : IsRequest(wire'[i]) => i \in 1..Len(wire) /\ wire'[i] = wire[i]
  <2>1. CASE wire' = wire
    BY <2>1
  <2>2. ASSUME NEW ms \in Seq(Message), wire' = wire \o ms,
               \A i \in 1..Len(ms) : ~IsRequest(ms[i])
        PROVE  \A i \in 1..Len(wire') : IsRequest(wire'[i]) => i \in 1..Len(wire) /\ wire'[i] = wire[i]
    <3>1. ASSUME NEW i \in 1..Len(wire'), i \notin 1..Len(wire)
          PROVE  i - Len(wire) \in 1..Len(ms) /\ wire'[i] = ms[i - Len(wire)]
      BY <1>0, <2>2, <3>1
    <3>2. ASSUME NEW i \in 1..Len(wire'), i \in 1..Len(wire)
          PROVE  wire'[i] = wire[i]
      BY <1>0, <2>2, <3>2
    <3> QED BY <2>2, <3>1, <3>2
  <2> QED BY <2>1, <2>2 DEF Goes
<1>5. OneRequest(c) => OneRequest(c)'
  <2> SUFFICES ASSUME OneRequest(c) PROVE OneRequest(c)'
    OBVIOUS
  <2>1. ASSUME NEW i \in 1..Len(wire'), IsRequest(wire'[i])
        PROVE  inbox' = << >> /\ srv'.ph \notin Working /\ Asks(c, wire'[i])
    BY <1>1, <1>2, <1>4, <2>1 DEF OneRequest
  <2>2. ASSUME NEW i \in 1..Len(wire'), NEW j \in 1..Len(wire'),
               IsRequest(wire'[i]), IsRequest(wire'[j])
        PROVE  i = j
    BY <1>4, <2>2 DEF OneRequest
  <2> QED BY <1>1, <2>1, <2>2 DEF OneRequest, Asks, IsRequest
<1>6. WorksFor(c) => WorksFor(c)'
  <2> SUFFICES ASSUME WorksFor(c) PROVE WorksFor(c)'
    OBVIOUS
  <2>1. \A i \in 1..Len(inbox') : ~Final(inbox'[i].kind)
    BY <1>2 DEF WorksFor
  <2> QED BY <1>1, <2>1 DEF WorksFor, Final
<1> QED BY <1>1, <1>3, <1>5, <1>6 DEF Responds

\* A caller whose operation is over leaves nothing behind.
LEMMA EndsAtRest ==
    ASSUME TypeOK, NEW c \in Callers, Responds(c), Ends(c)
    PROVE  AtRest'
<1>0. inbox \in Seq(Packet)
  BY DEF TypeOK, ServerTypeOK
<1>1. inbox' = << >> /\ UNCHANGED <<sock, srv, wire>>
  BY DEF Ends
<1>2. ASSUME sock = "open"
      PROVE  srv.ph \in Rest /\ NoRequest
  <2>1. inbox # << >> /\ Final(Head(inbox).kind)
    BY <1>2 DEF Ends
  <2>2. 1 \in 1..Len(inbox) /\ Head(inbox) = inbox[1]
    BY <1>0, <2>1
  <2>3. srv.ph \notin Working
    BY <1>2, <2>1, <2>2 DEF Responds, WorksFor
  <2>4. NoRequest
    BY <1>2, <2>1 DEF Responds, OneRequest, NoRequest
  <2> QED BY <1>2, <2>3, <2>4 DEF Responds
<1> QED BY <1>1, <1>2 DEF AtRest, NoRequest

\* A caller that begins an operation on a connection at rest.
LEMMA BeginResponds ==
    ASSUME TypeOK, NEW c \in Callers, AtRest, NEW p, NEW m \in Message, NEW sh,
           Begin(c, p, m, sh), ~suspect', IsRequest(m), m.q = nextq,
           m.op = "insert" <=> p \in InsertOps
    PROVE  pc' = [pc EXCEPT ![c] = p] /\ Responds(c)'
<1>0. /\ wire \in Seq(Message) /\ pc \in [Callers -> Loops \cup Open \cup {"idle"}]
      /\ qid \in [Callers -> Nat]
  BY DEF TypeOK, ServerTypeOK, ConnTypeOK
<1>1. /\ pc' = [pc EXCEPT ![c] = p] /\ qid' = [qid EXCEPT ![c] = nextq]
      /\ wire' = IF sock = "open" THEN wire \o <<m>> ELSE wire
      /\ UNCHANGED <<sock, inbox, srv>>
  BY DEF Begin, Flush
<1>2. pc'[c] = p /\ qid'[c] = nextq /\ inbox' = << >>
  BY <1>0, <1>1 DEF AtRest
<1>3. OwnPackets(c)'
  BY <1>2 DEF OwnPackets
<1>4. ASSUME sock = "open"
      PROVE  OneRequest(c)'
  <2>1. wire' = wire \o <<m>>
    BY <1>1, <1>4
  <2>2. \A i \in 1..Len(wire') : 
          (i \in 1..Len(wire) /\ wire'[i] = wire[i]) \/ (i = Len(wire) + 1 /\ wire'[i] = m)
    BY <1>0, <2>1
  <2>3. NoRequest /\ srv.ph \notin Working
    BY <1>4 DEF AtRest, Rest, Working
  <2>4. \A i \in 1..Len(wire') : IsRequest(wire'[i]) => i = Len(wire) + 1 /\ wire'[i] = m
    BY <2>2, <2>3 DEF NoRequest
  <2>5. ASSUME NEW i \in 1..Len(wire'), IsRequest(wire'[i])
        PROVE  /\ inbox' = << >> /\ srv'.ph \notin Working
               /\ wire'[i].q = qid'[c] /\ (wire'[i].op = "insert" <=> pc'[c] \in InsertOps)
    BY <1>1, <1>2, <2>3, <2>4, <2>5
  <2> QED BY <2>4, <2>5 DEF OneRequest, Asks, IsRequest
<1>5. sock = "open" => srv'.ph \in Rest /\ srv'.ph \notin Working
  BY <1>1 DEF AtRest, Rest, Working
<1> QED BY <1>1, <1>3, <1>4, <1>5 DEF Responds

\* Sync is inductive.
LEMMA SyncStep ==
    ASSUME TypeOK, Regular, Exclusive, Sync, [Next]_vars
    PROVE  Sync'
<1> SUFFICES ASSUME ~suspect' PROVE
        /\ Known' /\ ((\A c \in Callers : pc[c] \in Unused) => AtRest)'
        /\ (\A c \in Callers : pc[c] = "hello" => Greeting)'
        /\ (\A c \in Callers : Active(c) => Responds(c))'
  BY DEF Sync
<1>0. ~suspect
  BY SuspectStays
<1>a. /\ Known /\ ((\A c \in Callers : pc[c] \in Unused) => AtRest)
      /\ \A c \in Callers : pc[c] = "hello" => Greeting
      /\ \A c \in Callers : Active(c) => Responds(c)
  BY <1>0 DEF Sync
<1>b. /\ wire \in Seq(Message) /\ inbox \in Seq(Packet)
      /\ pc \in [Callers -> Loops \cup Open \cup {"idle"}]
      /\ qid \in [Callers -> Nat] /\ shape \in [Callers -> Shapes \cup {"unbound"}]
  BY DEF TypeOK, ServerTypeOK, ConnTypeOK
<1>1. CASE ServerNext /\ UNCHANGED <<connVars, callVars>>
  <2>1. UNCHANGED <<pc, qid, shape>>
    BY <1>1 DEF callVars
  <2>2. Known'
    BY <1>a, <2>1 DEF Known
  <2>3. ((\A c \in Callers : pc[c] \in Unused) => AtRest)'
    BY <1>1, <1>a, <2>1, ServerAtRest
  <2>4. (\A c \in Callers : pc[c] = "hello" => Greeting)'
    BY <1>1, <1>a, <2>1, ServerGreeting
  <2>5. (\A c \in Callers : Active(c) => Responds(c))'
    BY <1>1, <1>a, <2>1, ServerResponds DEF Active
  <2> QED BY <2>2, <2>3, <2>4, <2>5
<1>2. CASE UNCHANGED vars
  <2>1. UNCHANGED <<pc, qid, shape, sock, wire, inbox, srv>>
    BY <1>2 DEF vars, callVars, serverVars
  <2> QED BY <1>a, <2>1 DEF Known, AtRest, Greeting, Responds, Active, OwnPackets, OneRequest, WorksFor,
          Mine, Asks, NoRequest
<1>3. ASSUME NEW c \in Callers, Calls(c) \/ CtxDone(c) \/ LoopStep(c) \/ StreamLoopStep(c)
      PROVE  /\ Known' /\ ((\A d \in Callers : pc[d] \in Unused) => AtRest)'
             /\ (\A d \in Callers : pc[d] = "hello" => Greeting)'
             /\ (\A d \in Callers : Active(d) => Responds(d))'
  <2>a. ASSUME pc[c] # "idle" \/ state \in {"Initial", "Ready"}
        PROVE  \A d \in Callers : d # c => pc[d] = "idle"
    BY <2>a DEF Exclusive
  <2>1. CASE Active(c)
    <3>1. pc[c] # "idle" /\ Responds(c)
      BY <1>a, <2>1 DEF Active, Unused
    <3>2. Goes(c) \/ Ends(c)
      BY <1>3, <1>a, <2>1, <3>1, OperationEffect DEF Responds
    <3>3. CASE Goes(c)
      <4>1. Active(c)' /\ Responds(c)'
        BY <2>1, <3>1, <3>3, GoesResponds
      <4>2. \A d \in Callers : d # c => pc'[d] = "idle" /\ qid'[d] = 0
        BY <1>a, <1>b, <2>a, <3>1, <3>3 DEF Goes, Known
      <4>3. pc'[c] # "hello" /\ pc'[c] \notin Unused /\ (pc'[c] = "s_next" => shape'[c] # "unbound")
        BY <1>b, <3>3 DEF Goes, Unused
      <4>4. Known'
        BY <4>2, <4>3 DEF Known, Unused
      <4> QED BY <4>1, <4>2, <4>3, <4>4 DEF Active, Unused
    <3>4. CASE Ends(c)
      <4>1. AtRest'
        BY <3>1, <3>4, EndsAtRest
      <4>2. \A d \in Callers : d # c => pc'[d] = "idle" /\ qid'[d] = 0
        BY <1>a, <1>b, <2>a, <3>1, <3>4 DEF Ends, Known
      <4>3. (pc'[c] = "idle" /\ qid'[c] = 0) \/ pc'[c] = "s_done"
        BY <1>b, <3>4 DEF Ends
      <4>4. Known'
        BY <4>2, <4>3 DEF Known
      <4> QED BY <4>1, <4>2, <4>3, <4>4 DEF Active, Unused
    <3> QED BY <3>2, <3>3, <3>4
  <2>2. CASE Connect(c)
    <3>1. \A d \in Callers : d # c => pc[d] = "idle"
      BY <2>2, <2>a DEF Connect
    <3>2. pc[c] = "idle" /\ UNCHANGED <<qid, shape>> /\ inbox' = << >>
      BY <2>2 DEF Connect
    <3>3. CASE pc' = pc /\ CloseSocket
      <4>1. AtRest'
        BY <3>2, <3>3 DEF CloseSocket, AtRest
      <4>2. \A d \in Callers : pc'[d] = "idle"
        BY <3>1, <3>2, <3>3
      <4>3. Known'
        BY <1>a, <3>2, <3>3 DEF Known
      <4> QED BY <4>1, <4>2, <4>3 DEF Active, Unused
    <3>4. CASE /\ pc' = [pc EXCEPT ![c] = "hello"] /\ srv' = NewSession("greet")
               /\ wire' = <<Msg("Hello", 0, "none", TRUE)>>
      <4>1. NoRequest'
        <5>1. ~IsRequest(Msg("Hello", 0, "none", TRUE))
          BY DEF Msg, IsRequest
        <5>2. Len(wire') = 1 /\ wire'[1] = Msg("Hello", 0, "none", TRUE)
          BY <3>4
        <5>a. \A i \in 1..Len(wire') : i = 1
          BY <5>2
        <5>3. \A i \in 1..Len(wire') : ~IsRequest(wire'[i])
          BY <5>1, <5>2, <5>a, Zenon
        <5> QED BY <5>3 DEF NoRequest, IsRequest
      <4>2. Greeting'
        BY <3>2, <3>4, <4>1 DEF Greeting, NewSession
      <4>3. pc'[c] = "hello" /\ \A d \in Callers : d # c => pc'[d] = "idle"
        BY <1>b, <3>1, <3>4
      <4>4. Known'
        BY <1>a, <3>1, <3>2, <4>3 DEF Known
      <4> QED BY <4>2, <4>3, <4>4 DEF Active, Unused
    <3> QED BY <2>2, <3>3, <3>4, Zenon DEF Connect
  <2>3. CASE Close(c)
    <3>1. /\ UNCHANGED <<pc, qid, shape>> /\ sock' = "closed" /\ inbox' \in Remains(inbox)
          /\ \A d \in Callers : pc[d] # "hello"
      BY <2>3 DEF Close, CloseSocket, callVars
    <3>2. Known'
      BY <1>a, <3>1 DEF Known
    <3>3. ASSUME \A d \in Callers : pc[d] \in Unused
          PROVE  AtRest'
      <4>1. inbox = << >> /\ Len(inbox) = 0
        BY <1>a, <3>3 DEF AtRest
      <4>2. inbox' \in Seq(Packet) /\ Len(inbox') <= 0
        BY <1>b, <3>1, <4>1, RemainsOf
      <4>3. inbox' = << >>
        BY <4>2
      <4> QED BY <3>1, <4>3 DEF AtRest
    <3>4. ASSUME NEW d \in Callers, Active(d)
          PROVE  Responds(d)'
      <4>1. ASSUME NEW i \in 1..Len(inbox')
            PROVE  Mine(d, inbox'[i]) /\ (Final(inbox'[i].kind) => i = Len(inbox'))
        <5>0. inbox \in Seq(Packet) /\ inbox' \in Remains(inbox)
          BY <1>b, <3>1
        <5>1. /\ i \in 1..Len(inbox) /\ inbox'[i].q = inbox[i].q /\ Len(inbox') <= Len(inbox)
              /\ inbox'[i].kind = inbox[i].kind \/ (inbox'[i].kind = "Cut" /\ i = Len(inbox'))
              /\ inbox' \in Seq(Packet)
          BY <5>0, RemainsOf
        <5>2. Mine(d, inbox[i]) /\ (Final(inbox[i].kind) => i = Len(inbox))
          BY <1>a, <3>4, <5>1 DEF Responds, OwnPackets
        <5> QED BY <1>b, <5>1, <5>2 DEF Mine
      <4>2. OwnPackets(d)'
        BY <3>1, <4>1 DEF OwnPackets, Mine, Final
      <4> QED BY <3>1, <4>2 DEF Responds
    <3> QED BY <3>1, <3>2, <3>3, <3>4 DEF Active
  <2>4. CASE ReadHello(c)
    <3>1. /\ pc[c] = "hello" /\ pc' = [pc EXCEPT ![c] = "idle"] /\ UNCHANGED <<qid, shape>>
      BY <2>4, Zenon DEF ReadHello
    <3>2. \A d \in Callers : pc'[d] = "idle"
      BY <1>b, <2>a, <3>1
    <3>3. Known'
      BY <1>a, <1>b, <2>a, <3>1, <3>2 DEF Known
    <3>4. AtRest'
      <4>0. Greeting
        BY <1>a, <3>1
      <4>1. CASE CloseSocket /\ inbox' = << >>
        BY <4>1 DEF CloseSocket, AtRest
      <4>2. CASE /\ inbox # << >> /\ Head(inbox).kind = "Hello" /\ inbox' = Tail(inbox)
                 /\ Flush(<<Msg("Addendum", 0, "none", TRUE)>>) /\ UNCHANGED <<sock, srv>>
        <5>1. Len(inbox) = 1 /\ Head(inbox) = inbox[1]
          BY <1>b, <4>0, <4>2 DEF Greeting
        <5>2. inbox' = << >>
          BY <1>b, <4>2, <5>1
        <5>3. ASSUME sock = "open"
              PROVE  srv.ph \in Rest /\ NoRequest'
          <6>1. srv.ph \in Rest /\ NoRequest
            BY <4>0, <4>2, <5>1, <5>3 DEF Greeting
          <6> DEFINE m == Msg("Addendum", 0, "none", TRUE)
          <6>2. m \in Message /\ ~IsRequest(m)
            BY MsgType DEF Msg, IsRequest, ClientKinds
          <6>3. wire' = wire \o <<m>>
            BY <4>2, <5>3 DEF Flush
          <6> HIDE DEF m
          <6>4. \A i \in 1..Len(wire') : (i \in 1..Len(wire) /\ wire'[i] = wire[i]) \/ wire'[i] = m
            BY <1>b, <6>2, <6>3
          <6> QED BY <6>1, <6>2, <6>4 DEF NoRequest
        <5> QED BY <4>2, <5>2, <5>3 DEF AtRest
      <4> QED BY <2>4, <4>1, <4>2, Zenon DEF ReadHello, ConnectFails
    <3> QED BY <3>2, <3>3, <3>4 DEF Active, Unused
  <2>5. CASE /\ pc[c] = "s_done" /\ pc' = [pc EXCEPT ![c] = "idle"] /\ Forget(c)
             /\ UNCHANGED <<serverVars, suspect>>
    <3>1. \A d \in Callers : d # c => pc[d] = "idle"
      BY <2>5, <2>a
    <3>2. AtRest
      BY <1>a, <2>5, <3>1 DEF Unused
    <3>3. AtRest'
      BY <2>5, <3>2 DEF serverVars, AtRest, NoRequest
    <3>4. \A d \in Callers : pc'[d] = "idle" /\ qid'[d] = 0
      BY <1>a, <1>b, <2>5, <3>1 DEF Forget, Known
    <3>5. Known'
      BY <3>4 DEF Known
    <3> QED BY <3>3, <3>4, <3>5 DEF Active, Unused
  <2>6. ASSUME NEW p, NEW m, NEW sh, Begin(c, p, m, sh), p \notin Unused \cup {"hello", "s_next"},
               m \in Message, IsRequest(m), m.q = nextq, m.op = "insert" <=> p \in InsertOps
        PROVE  /\ Known' /\ ((\A d \in Callers : pc[d] \in Unused) => AtRest)'
               /\ (\A d \in Callers : pc[d] = "hello" => Greeting)'
               /\ (\A d \in Callers : Active(d) => Responds(d))'
    <3>1. pc[c] = "idle" /\ state = "Ready"
      BY <2>6 DEF Begin, lock
    <3>2. \A d \in Callers : pc[d] = "idle"
      BY <2>a, <3>1
    <3>3. AtRest
      BY <1>a, <3>2 DEF Unused
    <3>4. pc' = [pc EXCEPT ![c] = p] /\ Responds(c)'
      BY <2>6, <3>3, BeginResponds
    <3>5. qid' = [qid EXCEPT ![c] = nextq]
      BY <2>6 DEF Begin
    <3>6. pc'[c] = p /\ \A d \in Callers : d # c => pc'[d] = "idle" /\ qid'[d] = 0
      BY <1>a, <1>b, <3>2, <3>4, <3>5 DEF Known
    <3>7. Known'
      BY <2>6, <3>6 DEF Known, Unused
    <3> QED BY <2>6, <3>4, <3>6, <3>7 DEF Active, Unused
  <2> QED BY <1>3, <2>1, <2>2, <2>3, <2>4, <2>5, <2>6, UnusedEffect DEF Regular
<1> QED BY <1>1, <1>2, <1>3 DEF Next

\* Sync holds in every state.
LEMMA SyncHolds ==
    ASSUME Regular
    PROVE  Spec => [](TypeOK /\ Exclusive /\ Sync)
<1>1. Init => Exclusive
  BY DEF Init, ServerInit, ConnInit, NewSession, Exclusive
<1>2. Init => Sync
  BY DEF Init, ServerInit, ConnInit, Sync, Known, AtRest, Active, Unused
<1>3. TypeOK /\ Exclusive /\ Sync /\ [Next]_vars => Exclusive' /\ Sync'
  BY ExclusiveStep, SyncStep DEF Regular
<1> QED BY <1>1, <1>2, <1>3, TypeCorrect, PTL DEF Spec

\* OwnResponse: as long as no caller was told of an error other than the server's,
\* every packet a caller can read belongs to its own request, whatever callers,
\* cancels, losses and server do.
THEOREM OwnResponseHolds ==
    ASSUME Regular
    PROVE  Spec => []OwnResponse
<1>1. TypeOK /\ Exclusive /\ Sync => OwnResponse
  <2> SUFFICES ASSUME TypeOK, Exclusive, Sync, NEW c \in Callers, pc[c] \in Loops \cup Open, ~suspect
               PROVE  \A i \in 1..Len(inbox) : inbox[i].q = qid[c]
    BY DEF OwnResponse
  <2>1. CASE Active(c)
    BY <2>1 DEF Sync, Responds, OwnPackets, Mine
  <2>2. CASE pc[c] = "hello"
    BY <2>2 DEF Sync, Greeting, Known
  <2>3. CASE pc[c] = "s_done"
    <3>1. \A d \in Callers : pc[d] \in Unused
      BY <2>3 DEF Exclusive, Unused
    <3>2. inbox = << >>
      BY <3>1 DEF Sync, AtRest
    <3> QED BY <3>2
  <2>4. pc[c] # "idle"
    BY DEF Loops, CtxLoops, Drains, Open
  <2> QED BY <2>1, <2>2, <2>3, <2>4 DEF Active, Unused
<1> QED BY <1>1, SyncHolds, PTL

\* CleanReady: a connection that is ready and whose users were told of no error
\* has no packet, no request and no unfinished response in it.
THEOREM CleanReadyHolds ==
    ASSUME Regular
    PROVE  Spec => []CleanReady
<1>1. Exclusive /\ Sync => CleanReady
  <2> SUFFICES ASSUME Exclusive, Sync, state = "Ready", sock = "open", ~suspect
               PROVE  Quiet
    BY DEF CleanReady
  <2>1. \A c \in Callers : pc[c] \in Unused
    BY DEF Exclusive, Unused
  <2>2. AtRest
    BY <2>1 DEF Sync
  <2> QED BY <2>2 DEF AtRest, Rest, NoRequest, IsRequest, Quiet
<1> QED BY <1>1, SyncHolds, PTL

-----------------------------------------------------------------------------
(* The refinement. *)

phases == [c \in Callers |-> SessionPhase(c)]

\* A caller outside an operation that reads a response.
Apart == {"idle", "hello", "ping"}

\* Requests are numbered: what is on its way belongs to a request that was made.
Numbered ==
    /\ \A c \in Callers : qid[c] < nextq
    /\ \A i \in 1..Len(inbox) : inbox[i].q < nextq
    /\ \A i \in 1..Len(wire) : IsRequest(wire[i]) => wire[i].q < nextq
    /\ srv.q < nextq

\* A Pong is not the answer to a query.
PingsApart ==
    \A c \in Callers : pc[c] \notin Apart =>
        /\ \A i \in 1..Len(inbox) : inbox[i].kind = "Pong" => inbox[i].q # qid[c]
        /\ \A i \in 1..Len(wire) : wire[i].kind = "Ping" => wire[i].q # qid[c]

-----------------------------------------------------------------------------
(* Requests keep their numbers apart. *)

Begins(c) == Exec(c) \/ Select(c) \/ Ping(c) \/ Insert(c) \/ SelectStream(c) \/ InsertStream(c)

\* A call that begins an operation sends a request with the next number.
LEMMA BeginsWith ==
    ASSUME TypeOK, NEW c \in Callers, Begins(c)
    PROVE  \E p, m, sh : /\ Begin(c, p, m, sh) /\ m \in Message /\ m.q = nextq
                         /\ m.kind = "Ping" => p = "ping"
                         /\ p \notin Unused \cup Drains \cup {"hello"}
<1>0. nextq \in Nat
  BY DEF TypeOK, ConnTypeOK
<1>1. ASSUME NEW o \in {"exec", "select", "insert"}
      PROVE  /\ writeQuery(o) \in Message /\ writeQuery(o).q = nextq /\ writeQuery(o).kind # "Ping"
  BY <1>0, MsgType DEF writeQuery, Msg, ClientKinds
<1>2. /\ Msg("Ping", nextq, "none", TRUE) \in Message /\ Msg("Ping", nextq, "none", TRUE).q = nextq
  BY <1>0, MsgType DEF Msg, ClientKinds
<1>3. {"exec", "select", "ping", "insert_header", "is_header", "s_open"}
          \cap (Unused \cup Drains \cup {"hello"}) = {}
  BY DEF Unused, Drains
<1>4. CASE Exec(c)
  BY <1>1, <1>3, <1>4 DEF Exec
<1>5. CASE Select(c)
  BY <1>1, <1>3, <1>5 DEF Select
<1>6. CASE Ping(c)
  BY <1>2, <1>3, <1>6 DEF Ping
<1>7. CASE Insert(c)
  BY <1>1, <1>3, <1>7 DEF Insert
<1>8. CASE SelectStream(c)
  BY <1>1, <1>3, <1>8 DEF SelectStream
<1>9. CASE InsertStream(c)
  BY <1>1, <1>3, <1>9 DEF InsertStream
<1> QED BY <1>4, <1>5, <1>6, <1>7, <1>8, <1>9 DEF Begins

\* Nothing but messages other than requests is added to the wire.
AddsNoRequest ==
    \/ wire' = wire \/ wire' = << >>
    \/ \E ms \in Seq(Message) :
          /\ wire' = wire \o ms \/ wire' = ms
          /\ \A i \in 1..Len(ms) : ~IsRequest(ms[i])

\* No caller gets a request of its own.
SameRequests ==
    /\ nextq' = nextq
    /\ \A d \in Callers : qid'[d] \in {qid[d], 0}
    /\ \A d \in Callers : pc'[d] \notin Apart => pc[d] \notin Apart /\ qid'[d] = qid[d]

\* A flush of messages that are no requests.
LEMMA FlushAdds ==
    ASSUME NEW ms \in Seq(Message), \A i \in 1..Len(ms) : ~IsRequest(ms[i]),
           Flush(ms) \/ FlushFails
    PROVE  AddsNoRequest
BY DEF Flush, FlushFails, AddsNoRequest

\* One message, and two.
LEMMA Singles ==
    ASSUME NEW k \in ClientKinds \ {"Query", "Ping"}, NEW l \in ClientKinds \ {"Query", "Ping"},
           NEW q \in Nat, NEW g \in BOOLEAN
    PROVE  /\ <<Msg(k, q, "none", g)>> \in Seq(Message)
           /\ \A i \in 1..Len(<<Msg(k, q, "none", g)>>) : ~IsRequest(<<Msg(k, q, "none", g)>>[i])
           /\ <<Msg(k, q, "none", g), Msg(l, q, "none", g)>> \in Seq(Message)
           /\ \A i \in 1..Len(<<Msg(k, q, "none", g), Msg(l, q, "none", g)>>) :
                 ~IsRequest(<<Msg(k, q, "none", g), Msg(l, q, "none", g)>>[i])
<1>1. /\ Msg(k, q, "none", g) \in Message /\ ~IsRequest(Msg(k, q, "none", g))
      /\ Msg(l, q, "none", g) \in Message /\ ~IsRequest(Msg(l, q, "none", g))
  BY MsgType DEF Msg, IsRequest
<1>2. ASSUME NEW a \in Message, NEW b \in Message, ~IsRequest(a), ~IsRequest(b)
      PROVE  /\ <<a>> \in Seq(Message) /\ \A i \in 1..Len(<<a>>) : ~IsRequest(<<a>>[i])
             /\ <<a, b>> \in Seq(Message) /\ \A i \in 1..Len(<<a, b>>) : ~IsRequest(<<a, b>>[i])
  <2>1. /\ <<a, b>> \in Seq(Message) /\ Len(<<a, b>>) = 2 /\ <<a, b>>[1] = a /\ <<a, b>>[2] = b
        /\ <<a>> \in Seq(Message) /\ Len(<<a>>) = 1 /\ <<a>>[1] = a
    OBVIOUS
  <2>2. /\ \A i \in 1..2 : <<a, b>>[i] \in {a, b}
        /\ \A i \in 1..1 : <<a>>[i] = a
    BY <2>1
  <2> QED BY <1>2, <2>1, <2>2
<1> QED BY <1>1, <1>2, Zenon

\* Every other step of a caller.
LEMMA PlainEffect ==
    ASSUME TypeOK, NEW c \in Callers, ~Begins(c),
           Calls(c) \/ CtxDone(c) \/ LoopStep(c) \/ StreamLoopStep(c)
    PROVE  AddsNoRequest /\ SameRequests
<1>0. /\ pc \in [Callers -> Loops \cup Open \cup {"idle"}] /\ qid \in [Callers -> Nat]
      /\ wire \in Seq(Message)
      /\ {"Hello", "Addendum", "Data", "Empty", "Cancel"} \subseteq ClientKinds \ {"Query", "Ping"}
  BY DEF TypeOK, ServerTypeOK, ConnTypeOK, ClientKinds
<1>a. ASSUME pc' = pc, qid' = qid, nextq' = nextq
      PROVE  SameRequests
  BY <1>a DEF SameRequests
<1>b. ASSUME NEW r, Return(c, r), nextq' = nextq
      PROVE  SameRequests
  <2>1. CASE After(pc[c]) = "idle"
    BY <1>0, <1>b, <2>1 DEF Return, Forget, SameRequests, Apart
  <2>2. CASE After(pc[c]) # "idle"
    <3>1. pc[c] \in {"s_next", "drain_next", "drain_cancel"} /\ qid' = qid
      BY <1>b, <2>2 DEF Return, After, locals
    <3> QED BY <1>0, <1>b, <3>1 DEF Return, SameRequests, Apart
  <2> QED BY <2>1, <2>2
<1>c. ASSUME sendCancel(c) PROVE AddsNoRequest
  <2> DEFINE m == Msg("Cancel", qid[c], "none", TRUE)
  <2>1. m \in Message /\ <<m>> \in Seq(Message) /\ \A i \in 1..Len(<<m>>) : ~IsRequest(<<m>>[i])
    BY <1>0, Singles, MsgType
  <2>2. wire' = wire \/ wire' = Append(wire, m)
    BY <1>c DEF sendCancel
  <2> HIDE DEF m
  <2>3. Append(wire, m) = wire \o <<m>>
    BY <1>0, <2>1
  <2> QED BY <2>1, <2>2, <2>3 DEF AddsNoRequest
<1>d. wire' = wire \/ wire' = << >> => AddsNoRequest
  BY DEF AddsNoRequest
<1>e. ASSUME NEW p, pc' = [pc EXCEPT ![c] = p], p \in Apart \/ pc[c] \notin Apart, qid' = qid, nextq' = nextq
      PROVE  SameRequests
  BY <1>0, <1>e DEF SameRequests
<1>f. ASSUME NEW r, Continue(c, r), nextq' = nextq
      PROVE  SameRequests
  BY <1>a, <1>f DEF Continue
<1>1. CASE Connect(c)
  <2>1. wire' = <<Msg("Hello", 0, "none", TRUE)>> \/ wire' = << >>
    BY <1>1, Zenon DEF Connect, CloseSocket
  <2>2. AddsNoRequest
    BY <1>0, <1>d, <2>1, Singles DEF AddsNoRequest
  <2>3. qid' = qid /\ nextq' = nextq /\ (pc' = pc \/ pc' = [pc EXCEPT ![c] = "hello"])
    BY <1>1, Zenon DEF Connect
  <2> QED BY <1>a, <1>e, <2>2, <2>3 DEF Apart
<1>2. CASE ReadHello(c)
  <2>1. Flush(<<Msg("Addendum", 0, "none", TRUE)>>) \/ wire' = << >>
    BY <1>2, Zenon DEF ReadHello, ConnectFails, CloseSocket
  <2>2. AddsNoRequest
    BY <1>0, <1>d, <2>1, Singles, FlushAdds
  <2>3. qid' = qid /\ nextq' = nextq /\ pc' = [pc EXCEPT ![c] = "idle"]
    BY <1>2, Zenon DEF ReadHello
  <2> QED BY <1>e, <2>2, <2>3 DEF Apart
<1>3. CASE Close(c)
  BY <1>3, <1>a, <1>d DEF Close, CloseSocket, callVars
<1>4. CASE Bind(c) \/ CtxDone(c) \/ CheckContext(c) \/ Release(c) \/ Unlock(c)
  BY <1>4, <1>a, <1>d DEF Bind, CtxDone, CheckContext, Release, Unlock, serverVars, connVars, callVars, locals
<1>5. CASE StreamNext(c)
  <2>1. qid' = qid /\ nextq' = nextq /\ wire' = wire /\ pc[c] \notin Apart
        /\ (pc' = [pc EXCEPT ![c] = "s_done"] \/ pc' = [pc EXCEPT ![c] = "s_next"])
    BY <1>5 DEF StreamNext, serverVars, Apart
  <2> QED BY <1>d, <1>e, <2>1
<1>6. ASSUME NEW p, Drain(c, p), pc[c] \notin Apart
      PROVE  AddsNoRequest /\ SameRequests
  <2>1. qid' = qid /\ nextq' = nextq /\ sendCancel(c) /\ pc' = [pc EXCEPT ![c] = p]
    BY <1>6 DEF Drain, connVars
  <2> QED BY <1>6, <1>c, <1>e, <2>1
<1>7. CASE StreamCancel(c) \/ NextContextDone(c)
  BY <1>6, <1>7 DEF StreamCancel, NextContextDone, Apart
<1>8. CASE StreamClose(c)
  <2>1. CASE pc[c] = "s_open" /\ Drain(c, "drain_close")
    BY <1>6, <2>1 DEF Apart
  <2>2. CASE pc[c] = "s_done" /\ pc' = [pc EXCEPT ![c] = "idle"] /\ Forget(c)
             /\ UNCHANGED <<serverVars, skip, nextq, suspect, reading, res>>
    <3>1. nextq' = nextq /\ qid' = [qid EXCEPT ![c] = 0] /\ wire' = wire
      BY <2>2 DEF Forget, serverVars
    <3>2. SameRequests
      BY <1>0, <2>2, <3>1 DEF SameRequests, Apart
    <3> QED BY <1>d, <3>1, <3>2
  <2> QED BY <1>8, <2>1, <2>2, Zenon DEF StreamClose
<1>9. CASE StreamAppend(c)
  <2>1. PICK g \in BOOLEAN : Flush(<<Msg("Data", qid[c], "none", g)>>) \/ FlushFails
    <3>1. Flush(<<Msg("Data", qid[c], "none", shape[c] = "fits")>>) \/ FlushFails
      BY <1>9, Zenon DEF StreamAppend
    <3>2. (shape[c] = "fits") \in BOOLEAN
      OBVIOUS
    <3> QED BY <3>1, <3>2, Zenon
  <2>2. AddsNoRequest
    <3>1. PICK ms : ms = <<Msg("Data", qid[c], "none", g)>>
      OBVIOUS
    <3>2. ms \in Seq(Message) /\ \A i \in 1..Len(ms) : ~IsRequest(ms[i])
      <4>1. "Data" \in ClientKinds \ {"Query", "Ping"} /\ qid[c] \in Nat
        BY <1>0
      <4> QED BY <4>1, <3>1, Singles, Zenon
    <3>3. Flush(ms) \/ FlushFails
      BY <2>1, <3>1, Zenon
    <3> QED BY ONLY <3>2, <3>3, FlushAdds
  <2>3. pc' = pc /\ qid' = qid /\ nextq' = nextq
    BY <1>9 DEF StreamAppend
  <2> QED BY <1>a, <2>2, <2>3
<1>10. CASE InsertStreamClose(c)
  <2>1. Flush(<<Msg("Empty", qid[c], "none", TRUE)>>) \/ FlushFails
    BY <1>10, Zenon DEF InsertStreamClose
  <2>2. AddsNoRequest
    BY <1>0, <2>1, Singles, FlushAdds
  <2>3. /\ nextq' = nextq /\ pc[c] \notin Apart
        /\ (pc' = [pc EXCEPT ![c] = "is_response"] /\ qid' = qid) \/ Return(c, "network")
    BY <1>10 DEF InsertStreamClose, locals, Apart
  <2> QED BY <1>b, <1>e, <2>2, <2>3
<1>11. CASE ContextDone(c)
  BY <1>11, <1>b, <1>c DEF ContextDone
<1>12. CASE ReadEnd(c) \/ ReadException(c) \/ ReadReject(c) \/ ReadFails(c)
  <2>1. wire' = wire /\ nextq' = nextq /\ \E r : Return(c, r)
    BY <1>12 DEF ReadEnd, ReadException, ReadReject, ReadFails, readVars
  <2> QED BY <1>b, <1>d, <2>1
<1>13. CASE ReadPass(c) \/ ReadSkip(c) \/ ReadSelectRows(c)
  <2>1. wire' = wire /\ nextq' = nextq
    BY <1>13 DEF ReadPass, ReadSkip, ReadSelectRows, readVars
  <2>2. (\E r : Continue(c, r)) \/ Return(c, "protocol")
    BY <1>13, Zenon DEF ReadPass, ReadSkip, ReadSelectRows
  <2> QED BY <1>b, <1>d, <1>f, <2>1, <2>2
<1>14. CASE ReadHeader(c)
  <2> DEFINE ms == <<Msg("Data", qid[c], "none", TRUE), Msg("Empty", qid[c], "none", TRUE)>>
  <2>1. wire' = wire \/ Flush(ms) \/ FlushFails
    BY <1>14, Zenon DEF ReadHeader, InsertData
  <2>2. AddsNoRequest
    BY <1>0, <1>d, <2>1, Singles, FlushAdds
  <2>3. nextq' = nextq /\ (pc[c] \in {"is_header", "insert_header"} \/ Return(c, "protocol"))
    BY <1>14 DEF ReadHeader, readVars
  <2>4. \/ Return(c, "protocol") \/ Return(c, "network")
        \/ \E p : pc' = [pc EXCEPT ![c] = p] /\ qid' = qid
    BY <1>14 DEF ReadHeader, InsertData, locals
  <2> QED BY <1>b, <1>e, <2>2, <2>3, <2>4 DEF Apart
<1>15. CASE ReadStreamRows(c)
  <2>1. wire' = wire /\ nextq' = nextq /\ pc[c] = "s_next"
    BY <1>15 DEF ReadStreamRows, readVars
  <2>2. \/ Continue(c, 0) \/ Return(c, "protocol")
        \/ pc' = [pc EXCEPT ![c] = "s_open"] /\ qid' = qid
    BY <1>15 DEF ReadStreamRows
  <2> QED BY <1>b, <1>d, <1>e, <1>f, <2>1, <2>2 DEF Apart
<1> QED
  BY <1>1, <1>2, <1>3, <1>4, <1>5, <1>7, <1>8, <1>9, <1>10, <1>11, <1>12, <1>13, <1>14, <1>15
  DEF Calls, LoopStep, StreamLoopStep, Begins

\* A packet q is s[j], or what is left of s[j] when the socket dies.
Came(p, s) == \E j \in 1..Len(s) : p.q = s[j].q /\ p.kind \in {s[j].kind, "Cut"}

\* A caller's step adds nothing but junk to the packets.
LEMMA InboxFrom ==
    ASSUME TypeOK,
           \/ inbox' = inbox \/ inbox' = << >> \/ inbox' \in Remains(inbox)
           \/ inbox # << >> /\ inbox' \in {Tail(inbox), Leftover}
    PROVE  \A i \in 1..Len(inbox') : inbox'[i] = Junk \/ Came(inbox'[i], inbox)
<1>0. inbox \in Seq(Packet)
  BY DEF TypeOK, ServerTypeOK
<1>1. CASE inbox' = inbox \/ inbox' = << >>
  BY <1>1 DEF Came
<1>2. CASE inbox' \in Remains(inbox)
  <2>1. ASSUME NEW i \in 1..Len(inbox') PROVE Came(inbox'[i], inbox)
    <3>1. i \in 1..Len(inbox) /\ inbox'[i].q = inbox[i].q /\ inbox'[i].kind \in {inbox[i].kind, "Cut"}
      BY <1>0, <1>2, RemainsOf
    <3> QED BY <3>1 DEF Came
  <2> QED BY <2>1
<1>3. CASE inbox # << >> /\ inbox' \in {Tail(inbox), Leftover}
  <2> DEFINE t == Tail(inbox)
  <2>1. t \in Seq(Packet) /\ Len(t) = Len(inbox) - 1 /\ \A i \in 1..Len(t) : t[i] = inbox[i + 1]
    BY <1>0, <1>3
  <2>2. \A i \in 1..Len(t) : i + 1 \in 1..Len(inbox)
    BY <1>0, <2>1
  <2>3. \A i \in 1..Len(t) : Came(t[i], inbox)
    BY <2>1, <2>2 DEF Came
  <2>4. inbox' = t \/ inbox' = <<Junk>> \o t
    BY <1>3 DEF Leftover
  <2> HIDE DEF t
  <2>5. CASE inbox' = <<Junk>> \o t
    <3>1. Junk \in Packet
      BY DEF Junk, Packet, Kinds, Layouts
    <3> HIDE DEF Junk
    <3>2. /\ Len(inbox') = Len(t) + 1 /\ inbox'[1] = Junk
          /\ \A i \in 1..Len(inbox') : i # 1 => i - 1 \in 1..Len(t) /\ inbox'[i] = t[i - 1]
      BY <2>1, <2>5, <3>1
    <3> QED BY <2>3, <3>2
  <2> QED BY <2>3, <2>4, <2>5
<1> QED BY <1>1, <1>2, <1>3

\* Every request on its way was on its way before.
OldRequests ==
    \A i \in 1..Len(wire') : IsRequest(wire'[i]) => \E j \in 1..Len(wire) : wire'[i] = wire[j]

LEMMA NothingAsked ==
    ASSUME TypeOK, AddsNoRequest \/ (wire # << >> /\ wire' = Tail(wire))
    PROVE  OldRequests
<1>0. wire \in Seq(Message)
  BY DEF TypeOK, ServerTypeOK
<1>1. CASE wire' = wire \/ wire' = << >>
  BY <1>1 DEF OldRequests
<1>2. CASE wire # << >> /\ wire' = Tail(wire)
  <2>1. \A i \in 1..Len(wire') : i + 1 \in 1..Len(wire) /\ wire'[i] = wire[i + 1]
    BY <1>0, <1>2
  <2> QED BY <2>1 DEF OldRequests
<1>3. ASSUME NEW ms \in Seq(Message), \A i \in 1..Len(ms) : ~IsRequest(ms[i]),
             wire' = wire \o ms \/ wire' = ms
      PROVE  OldRequests
  <2>1. CASE wire' = ms
    BY <1>3, <2>1 DEF OldRequests
  <2>2. CASE wire' = wire \o ms
    <3>1. \A i \in 1..Len(wire') :
            \/ i \in 1..Len(wire) /\ wire'[i] = wire[i]
            \/ i - Len(wire) \in 1..Len(ms) /\ wire'[i] = ms[i - Len(wire)]
      BY <1>0, <1>3, <2>2
    <3> QED BY <1>3, <3>1 DEF OldRequests
  <2> QED BY <1>3, <2>1, <2>2
<1> QED BY <1>1, <1>2, <1>3 DEF AddsNoRequest

\* A new request is the last on its way.
LEMMA OneAsked ==
    ASSUME TypeOK, NEW m \in Message, wire' = wire \/ wire' = wire \o <<m>>
    PROVE  \A i \in 1..Len(wire') : wire'[i] = m \/ \E j \in 1..Len(wire) : wire'[i] = wire[j]
<1>0. wire \in Seq(Message)
  BY DEF TypeOK, ServerTypeOK
<1>1. CASE wire' = wire
  BY <1>1
<1>2. CASE wire' = wire \o <<m>>
  <2>1. \A i \in 1..Len(wire') : (i \in 1..Len(wire) /\ wire'[i] = wire[i]) \/ wire'[i] = m
    BY <1>0, <1>2
  <2> QED BY <2>1
<1> QED BY <1>1, <1>2

\* Numbered and PingsApart are inductive.
LEMMA NumberedStep ==
    ASSUME TypeOK, TypeOK', Numbered, PingsApart, [Next]_vars
    PROVE  Numbered' /\ PingsApart'
<1>0. /\ wire \in Seq(Message) /\ inbox \in Seq(Packet) /\ wire' \in Seq(Message) /\ inbox' \in Seq(Packet)
      /\ pc \in [Callers -> Loops \cup Open \cup {"idle"}] /\ qid \in [Callers -> Nat]
      /\ srv \in Session /\ nextq \in Nat /\ srv.q \in Nat
  BY DEF TypeOK, ServerTypeOK, ConnTypeOK, Session
<1>a. nextq > 0
  BY <1>0 DEF Numbered
<1>b. \A i \in 1..Len(inbox) : inbox[i].q \in Nat
  <2>1. \A i \in 1..Len(inbox) : inbox[i] \in Packet
    BY <1>0
  <2> QED BY <2>1 DEF Packet
<1>c. \A i \in 1..Len(wire) : wire[i].q \in Nat
  <2>1. \A i \in 1..Len(wire) : wire[i] \in Message
    BY <1>0
  <2> QED BY <2>1 DEF Message
<1>d. ASSUME NEW p, p = Junk \/ Came(p, inbox)
      PROVE  /\ p.q < nextq
             /\ \A c \in Callers : pc[c] \notin Apart /\ p.kind = "Pong" => p.q # qid[c]
  <2>1. CASE p = Junk
    BY <1>a, <2>1 DEF Junk
  <2>2. CASE Came(p, inbox)
    <3>1. PICK j \in 1..Len(inbox) : p.q = inbox[j].q /\ p.kind \in {inbox[j].kind, "Cut"}
      BY <2>2 DEF Came
    <3> QED BY <3>1 DEF Numbered, PingsApart
  <2> QED BY <1>d, <2>1, <2>2
<1>e. NewSession("gone").q = 0 /\ NewSession("greet").q = 0
  BY DEF NewSession
<1>f. OldRequests =>
        /\ \A i \in 1..Len(wire') : IsRequest(wire'[i]) => wire'[i].q < nextq
        /\ \A c \in Callers : pc[c] \notin Apart =>
              \A i \in 1..Len(wire') : wire'[i].kind = "Ping" => wire'[i].q # qid[c]
  BY DEF OldRequests, Numbered, PingsApart, IsRequest
<1>1. CASE ServerNext /\ UNCHANGED <<connVars, callVars>>
  <2>0. UNCHANGED <<qid, pc, nextq>>
    BY <1>1 DEF connVars, callVars
  <2>1. ASSUME NEW p \in Packet, inbox' = inbox \/ inbox' = Append(inbox, p), p.q < nextq,
               \A c \in Callers : pc[c] \notin Apart /\ p.kind = "Pong" => p.q # qid[c],
               OldRequests, srv'.q < nextq
        PROVE  Numbered' /\ PingsApart'
    <3>1. \A i \in 1..Len(inbox') : inbox'[i] = p \/ (i \in 1..Len(inbox) /\ inbox'[i] = inbox[i])
      BY <1>0, <2>1
    <3>2. \A i \in 1..Len(inbox') :
             /\ inbox'[i].q < nextq
             /\ \A c \in Callers : pc[c] \notin Apart /\ inbox'[i].kind = "Pong" => inbox'[i].q # qid[c]
      BY <2>1, <3>1 DEF Numbered, PingsApart
    <3>3. Numbered'
      BY <1>f, <2>0, <2>1, <3>2 DEF Numbered
    <3>4. PingsApart'
      BY <1>f, <2>0, <2>1, <3>2 DEF PingsApart
    <3> QED BY <3>3, <3>4
  <2>2. CASE Breaks
    <3>1. \A i \in 1..Len(inbox') : inbox'[i] = Junk \/ Came(inbox'[i], inbox)
      BY <2>2, InboxFrom DEF Breaks
    <3>2. Numbered'
      BY <1>a, <1>d, <1>e, <2>0, <2>2, <3>1 DEF Breaks, Numbered
    <3>3. PingsApart'
      BY <1>d, <2>0, <2>2, <3>1 DEF Breaks, PingsApart
    <3> QED BY <3>2, <3>3
  <2>a. Junk \in Packet /\ Junk.q = 0 /\ Junk.kind # "Pong"
    BY DEF Junk, Packet, Kinds, Layouts
  <2>3. CASE Idles
    <3>1. inbox' = inbox /\ srv'.q = srv.q
      BY <2>3 DEF Idles
    <3>2. OldRequests
      BY <2>3, NothingAsked DEF Idles, AddsNoRequest
    <3> QED BY <1>a, <2>1, <2>a, <3>1, <3>2 DEF Numbered
  <2>4. ASSUME NEW p \in Packet, Sends(p) \/ Greets(p) PROVE Numbered' /\ PingsApart'
    <3>1. inbox' = Append(inbox, p) /\ p.q = srv.q /\ srv'.q = srv.q /\ p.kind # "Pong"
      BY <2>4 DEF Sends, Greets
    <3>2. OldRequests
      BY <2>4, NothingAsked DEF Sends, Greets, AddsNoRequest
    <3> QED BY <2>1, <3>1, <3>2 DEF Numbered
  <2>5. CASE Starts
    <3>1. Head(wire) = wire[1] /\ 1 \in 1..Len(wire)
      BY <1>0, <2>5 DEF Starts
    <3>2. Head(wire).q < nextq
      BY <2>5, <3>1 DEF Starts, Numbered
    <3>3. OldRequests
      BY <2>5, NothingAsked DEF Starts
    <3>4. CASE inbox' = inbox /\ srv'.q = Head(wire).q
      BY <1>a, <2>1, <2>a, <3>2, <3>3, <3>4
    <3>5. ASSUME NEW p \in Packet, srv' = srv, Head(wire).kind = "Ping",
                 inbox' = Append(inbox, p), p.q = Head(wire).q
          PROVE  Numbered' /\ PingsApart'
      <4>1. \A c \in Callers : pc[c] \notin Apart => p.q # qid[c]
        BY <3>1, <3>5 DEF PingsApart
      <4>2. p.q < nextq /\ srv'.q < nextq
        BY <3>2, <3>5 DEF Numbered
      <4> QED BY <2>1, <3>3, <3>5, <4>1, <4>2
    <3> QED BY <2>5, <3>4, <3>5 DEF Starts
  <2> QED BY <1>1, <2>2, <2>3, <2>4, <2>5, ServerEffect
<1>2. CASE UNCHANGED vars
  <2>1. UNCHANGED <<qid, pc, nextq, inbox, wire, srv>>
    BY <1>2 DEF vars, serverVars, connVars, callVars
  <2> QED BY <2>1 DEF Numbered, PingsApart
<1>3. ASSUME NEW c \in Callers, Calls(c) \/ CtxDone(c) \/ LoopStep(c) \/ StreamLoopStep(c)
      PROVE  Numbered' /\ PingsApart'
  <2>1. \A i \in 1..Len(inbox') :
           /\ inbox'[i].q < nextq
           /\ \A d \in Callers : pc[d] \notin Apart /\ inbox'[i].kind = "Pong" => inbox'[i].q # qid[d]
    <3>1. \/ inbox' = inbox \/ inbox' = << >> \/ inbox' \in Remains(inbox)
          \/ inbox # << >> /\ inbox' \in {Tail(inbox), Leftover}
      BY <1>3, CallerEffect
    <3> QED BY <1>d, <3>1, InboxFrom
  <2>2. srv'.q < nextq
    BY <1>3, <1>a, <1>e, CallerEffect DEF Numbered
  <2>3. CASE Begins(c)
    <3>1. PICK p, m, sh : /\ Begin(c, p, m, sh) /\ m \in Message /\ m.q = nextq
                          /\ m.kind = "Ping" => p = "ping"
      BY <2>3, BeginsWith
    <3>2. /\ wire' = wire \/ wire' = wire \o <<m>>
          /\ nextq' = nextq + 1 /\ qid' = [qid EXCEPT ![c] = nextq]
          /\ pc' = pc \/ pc' = [pc EXCEPT ![c] = p]
          /\ pc[c] = "idle" /\ inbox' = inbox /\ srv' = srv
      BY <3>1 DEF Begin, Flush, FlushFails
    <3>3. \A i \in 1..Len(wire') : wire'[i] = m \/ \E j \in 1..Len(wire) : wire'[i] = wire[j]
      BY <3>1, <3>2, OneAsked
    <3>4. Numbered'
      <4>1. \A d \in Callers : qid'[d] < nextq'
        BY <1>0, <3>2 DEF Numbered
      <4>2. \A i \in 1..Len(inbox') : inbox'[i].q < nextq'
        BY <1>0, <1>b, <3>2 DEF Numbered
      <4>3. \A i \in 1..Len(wire') : IsRequest(wire'[i]) => wire'[i].q < nextq'
        <5>1. \A j \in 1..Len(wire) : IsRequest(wire[j]) => wire[j].q < nextq + 1
          BY <1>0, <1>c DEF Numbered
        <5>2. m.q < nextq + 1
          BY <1>0, <3>1
        <5> QED BY <3>2, <3>3, <5>1, <5>2
      <4>4. srv'.q < nextq'
        BY <1>0, <3>2 DEF Numbered
      <4> QED BY <4>1, <4>2, <4>3, <4>4 DEF Numbered, IsRequest
    <3>5. ASSUME NEW d \in Callers, pc'[d] \notin Apart
          PROVE  /\ \A i \in 1..Len(inbox') : inbox'[i].kind = "Pong" => inbox'[i].q # qid'[d]
                 /\ \A i \in 1..Len(wire') : wire'[i].kind = "Ping" => wire'[i].q # qid'[d]
      <4>1. CASE d = c
        <5>1. p # "ping" /\ qid'[d] = nextq
          BY <1>0, <3>2, <3>5, <4>1 DEF Apart
        <5>2. \A i \in 1..Len(wire) : wire[i].kind = "Ping" => wire[i].q # nextq
          BY <1>0, <1>c DEF Numbered, IsRequest
        <5>3. \A i \in 1..Len(inbox) : inbox[i].q # nextq
          BY <1>0, <1>b DEF Numbered
        <5> QED BY <3>1, <3>2, <3>3, <5>1, <5>2, <5>3
      <4>2. CASE d # c
        <5>1. pc[d] \notin Apart /\ qid'[d] = qid[d] /\ qid[d] # nextq
          BY <1>0, <3>2, <3>5, <4>2 DEF Numbered
        <5> QED BY <3>1, <3>2, <3>3, <5>1 DEF PingsApart
      <4> QED BY <4>1, <4>2
    <3> QED BY <3>4, <3>5 DEF PingsApart
  <2>4. CASE ~Begins(c)
    <3>1. OldRequests /\ SameRequests
      BY <1>3, <2>4, PlainEffect, NothingAsked
    <3>2. Numbered'
      <4>1. \A d \in Callers : qid'[d] < nextq'
        BY <1>0, <1>a, <3>1 DEF SameRequests, Numbered
      <4>2. \A i \in 1..Len(wire') : IsRequest(wire'[i]) => wire'[i].q < nextq'
        BY <1>f, <3>1 DEF SameRequests
      <4> QED BY <2>1, <2>2, <3>1, <4>1, <4>2 DEF SameRequests, Numbered, IsRequest
    <3>3. PingsApart'
      BY <1>f, <2>1, <3>1 DEF SameRequests, PingsApart
    <3> QED BY <3>2, <3>3
  <2> QED BY <2>3, <2>4
<1> QED BY <1>1, <1>2, <1>3 DEF Next

-----------------------------------------------------------------------------
(* What a Session sees of a state. *)

\* The phase of a caller at p; a: its answer is on its way.
PhaseAt(p, a) ==
    CASE p = "idle" -> "none"
      [] p = "hello" -> "connecting"
      [] p \in Drains -> "cancelled"
      [] p = "s_done" -> "over"
      [] OTHER -> IF a THEN "answered" ELSE "pending"

\* Where an operation waits for its answer.
Waits == (Loops \cup Open) \ (Drains \cup {"hello", "s_done"})

LEMMA PhaseValues ==
    /\ \A a : PhaseAt("idle", a) = "none" /\ PhaseAt("hello", a) = "connecting"
    /\ \A a : PhaseAt("s_done", a) = "over" /\ \A p \in Drains : PhaseAt(p, a) = "cancelled"
    /\ \A p \in Waits : PhaseAt(p, TRUE) = "answered" /\ PhaseAt(p, FALSE) = "pending"
<1>1. /\ \A p \in Drains : p \notin {"idle", "hello", "s_done"}
      /\ \A p \in Waits : p \notin Drains \cup {"idle", "hello", "s_done"}
  BY DEF Drains, Waits, Loops, CtxLoops, Open
<1> QED BY <1>1 DEF PhaseAt

\* The phases before and after a step.
LEMMA Phasing ==
    ASSUME NEW c \in Callers
    PROVE  /\ phases[c] = PhaseAt(pc[c], HasAnswer(c))
           /\ phases'[c] = PhaseAt(pc'[c], HasAnswer(c)')
BY DEF phases, SessionPhase, PhaseAt

\* Only the caller that has the connection changes its phase.
LEMMA PhaseMove ==
    ASSUME NEW c \in Callers, \A d \in Callers : d # c => pc[d] = "idle" /\ pc'[d] = "idle"
    PROVE  phases' = [phases EXCEPT ![c] = PhaseAt(pc'[c], HasAnswer(c)')]
<1>1. /\ \A d \in Callers : phases'[d] = PhaseAt(pc'[d], HasAnswer(d)')
      /\ \A d \in Callers : phases[d] = PhaseAt(pc[d], HasAnswer(d))
  BY Phasing
<1>2. \A d \in Callers : d # c => phases'[d] = phases[d]
  BY <1>1, PhaseValues
<1>3. phases' = [d \in Callers |-> phases'[d]] /\ phases = [d \in Callers |-> phases[d]]
  BY DEF phases
<1>4. phases'[c] = PhaseAt(pc'[c], HasAnswer(c)')
  BY <1>1
<1> HIDE DEF phases
<1> QED BY <1>2, <1>3, <1>4

\* The link before and after a step.
LEMMA Linking ==
    /\ state = "Initial" \/ (\E c \in Callers : pc[c] = "hello") => SessionLink = "none"
    /\ state' = "Initial" \/ (\E c \in Callers : pc'[c] = "hello") => SessionLink' = "none"
    /\ state # "Initial" /\ (\A c \in Callers : pc[c] # "hello") =>
          SessionLink = IF sock = "open" THEN "up" ELSE "lost"
    /\ state' # "Initial" /\ (\A c \in Callers : pc'[c] # "hello") =>
          SessionLink' = IF sock' = "open" THEN "up" ELSE "lost"
BY DEF SessionLink

\* A step that a Session may make.
Allowed == [Abstract!Next]_(Abstract!sessionVars)

LEMMA Stutters ==
    ASSUME phases' = phases, SessionLink' = SessionLink, res' = res, suspect' = suspect
    PROVE  Allowed
BY DEF Allowed, Abstract!sessionVars, phases

LEMMA Finishes ==
    ASSUME NEW c \in Callers, NEW r \in Abstract!Results, NEW p \in {"none", "over"},
           phases[c] \in {"pending", "answered"},
           r \in {"ok", "server"} => phases[c] = "answered" \/ suspect,
           phases' = [phases EXCEPT ![c] = p], SessionLink' = SessionLink,
           res' = [res EXCEPT ![c] = r], suspect' = (suspect \/ r \notin {"ok", "server"})
    PROVE  Allowed
<1>1. Abstract!Finish(c, r)
  BY DEF Abstract!Finish, Abstract!Answers, Abstract!Move, Abstract!Tell, phases
<1> QED BY <1>1 DEF Allowed, Abstract!Next

LEMMA GivesUp ==
    ASSUME NEW c \in Callers, NEW p \in {"none", "over"}, phases[c] = "cancelled",
           phases' = [phases EXCEPT ![c] = p], SessionLink' = SessionLink,
           suspect' \in {suspect, TRUE},
           res' = res \/ res' = [res EXCEPT ![c] = "internal"]
    PROVE  Allowed
<1>1. Abstract!Cancelled(c)
  BY DEF Abstract!Cancelled, Abstract!Move, Abstract!Tell, phases
<1> QED BY <1>1 DEF Allowed, Abstract!Next

LEMMA Strays ==
    ASSUME NEW c \in Callers, phases[c] \in {"pending", "answered"},
           phases' = phases, SessionLink' = SessionLink, suspect' = TRUE, res' = res
    PROVE  Allowed
<1>1. Abstract!Stray(c)
  BY DEF Abstract!Stray, phases
<1> QED BY <1>1 DEF Allowed, Abstract!Next

LEMMA Cancels ==
    ASSUME NEW c \in Callers, phases[c] \in {"pending", "answered"},
           phases' = [phases EXCEPT ![c] = "cancelled"],
           SessionLink' = SessionLink, suspect' = suspect, res' = res
    PROVE  Allowed
<1>1. Abstract!Cancel(c)
  BY DEF Abstract!Cancel, Abstract!Move, phases
<1> QED BY <1>1 DEF Allowed, Abstract!Next

LEMMA SendingFails ==
    ASSUME NEW c \in Callers, SessionLink = "lost",
           (\A d \in Callers : phases[d] = "none") \/ phases[c] \in {"pending", "answered"},
           phases' = phases, SessionLink' = SessionLink, suspect' = TRUE,
           res' = [res EXCEPT ![c] = "network"]
    PROVE  Allowed
<1>1. Abstract!SendFails(c)
  BY DEF Abstract!SendFails, Abstract!Tell, Abstract!Free, phases
<1> QED BY <1>1 DEF Allowed, Abstract!Next

LEMMA Answers ==
    ASSUME NEW c \in Callers, SessionLink = "up", phases[c] = "pending",
           phases' = [phases EXCEPT ![c] = "answered"],
           SessionLink' = SessionLink, suspect' = suspect, res' = res
    PROVE  Allowed
<1>1. Abstract!Answer(c)
  BY DEF Abstract!Answer, Abstract!Move, phases
<1> QED BY <1>1 DEF Allowed, Abstract!Next

LEMMA Loses ==
    ASSUME SessionLink \in {"up", "lost"}, SessionLink' = "lost", suspect' = suspect, res' = res,
           \/ phases' = phases
           \/ \E c \in Callers : phases[c] = "answered" /\ phases' = [phases EXCEPT ![c] = "pending"]
    PROVE  Allowed
<1>1. CASE SessionLink = "up"
  <2>1. Abstract!Lose
    BY <1>1 DEF Abstract!Lose, Abstract!Move, phases
  <2> QED BY <2>1 DEF Allowed, Abstract!Next
<1>2. CASE SessionLink = "lost" /\ phases' # phases
  <2>1. Abstract!LoseMore
    BY <1>2 DEF Abstract!LoseMore, Abstract!Move, phases
  <2> QED BY <2>1 DEF Allowed, Abstract!Next
<1>3. CASE SessionLink = "lost" /\ phases' = phases
  BY <1>3, Stutters
<1> QED BY <1>1, <1>2, <1>3

-----------------------------------------------------------------------------
(* The caller that has the connection. *)

\* A loop that reads a packet other than its answer leaves the answer on its way.
LEMMA AnswerKept ==
    ASSUME TypeOK, NEW c \in Callers, qid' = qid,
           \/ inbox' = inbox
           \/ /\ inbox # << >> /\ inbox' \in {Tail(inbox), Leftover}
              /\ ~(Head(inbox).kind \in Terminals /\ Head(inbox).q = qid[c])
    PROVE  HasAnswer(c)' <=> HasAnswer(c)
<1>0. inbox \in Seq(Packet)
  BY DEF TypeOK, ServerTypeOK
<1> DEFINE Ans(p) == p.kind \in Terminals /\ p.q = qid[c]
<1>1. CASE inbox' = inbox
  BY <1>1 DEF HasAnswer
<1>2. CASE inbox # << >> /\ inbox' \in {Tail(inbox), Leftover} /\ ~Ans(Head(inbox))
  <2> DEFINE t == Tail(inbox)
  <2>1. /\ t \in Seq(Packet) /\ Len(t) = Len(inbox) - 1 /\ \A i \in 1..Len(t) : t[i] = inbox[i + 1]
        /\ Head(inbox) = inbox[1] /\ Len(inbox) \in Nat
    BY <1>0, <1>2
  <2>2. inbox' = t \/ inbox' = <<Junk>> \o t
    BY <1>2 DEF Leftover
  <2>3. ~Ans(Junk) /\ Junk \in Packet
    BY DEF Junk, Packet, Kinds, Layouts, Terminals
  <2> HIDE DEF t, Junk
  <2>4. (\E i \in 1..Len(inbox) : Ans(inbox[i])) <=> \E i \in 1..Len(t) : Ans(t[i])
    <3>1. ASSUME NEW i \in 1..Len(inbox), Ans(inbox[i]) PROVE \E j \in 1..Len(t) : Ans(t[j])
      <4>1. i # 1
        BY <1>2, <2>1, <3>1
      <4>2. i - 1 \in 1..Len(t) /\ t[i - 1] = inbox[i]
        BY <2>1, <4>1
      <4> QED BY <3>1, <4>2
    <3>2. ASSUME NEW i \in 1..Len(t), Ans(t[i]) PROVE \E j \in 1..Len(inbox) : Ans(inbox[j])
      <4>1. i + 1 \in 1..Len(inbox) /\ t[i] = inbox[i + 1]
        BY <2>1
      <4> QED BY <3>2, <4>1
    <3> QED BY <3>1, <3>2
  <2>5. (\E i \in 1..Len(inbox') : Ans(inbox'[i])) <=> \E i \in 1..Len(t) : Ans(t[i])
    <3>1. CASE inbox' = t
      BY <3>1
    <3>2. CASE inbox' = <<Junk>> \o t
      <4>1. /\ Len(inbox') = Len(t) + 1 /\ inbox'[1] = Junk
            /\ \A i \in 1..Len(t) : i + 1 \in 1..Len(inbox') /\ inbox'[i + 1] = t[i]
            /\ \A i \in 1..Len(inbox') : i # 1 => i - 1 \in 1..Len(t) /\ inbox'[i] = t[i - 1]
        BY <2>1, <2>3, <3>2
      <4> HIDE DEF Ans
      <4>2. ASSUME NEW i \in 1..Len(inbox'), Ans(inbox'[i]) PROVE \E j \in 1..Len(t) : Ans(t[j])
        <5>1. i # 1
          BY <2>3, <4>1, <4>2
        <5> QED BY <4>1, <4>2, <5>1
      <4>3. ASSUME NEW i \in 1..Len(t), Ans(t[i]) PROVE \E j \in 1..Len(inbox') : Ans(inbox'[j])
        BY <4>1, <4>3
      <4> QED BY <4>2, <4>3
    <3> QED BY <2>2, <3>1, <3>2
  <2> QED BY <2>4, <2>5 DEF HasAnswer
<1> QED BY <1>1, <1>2

\* What a Session sees of a step of that caller.
LEMMA OwnStep ==
    ASSUME TypeOK, Exclusive, NEW c \in Callers, pc[c] \notin {"idle", "hello"},
           NEW p, pc' = [pc EXCEPT ![c] = p], p # "hello", state' # "Initial", sock' = sock
    PROVE  /\ phases' = [phases EXCEPT ![c] = PhaseAt(p, HasAnswer(c)')]
           /\ SessionLink' = SessionLink
           /\ SessionLink = IF sock = "open" THEN "up" ELSE "lost"
           /\ phases[c] = PhaseAt(pc[c], HasAnswer(c))
<1>1. /\ \A d \in Callers : d # c => pc[d] = "idle"
      /\ state \in {"Busy", "Closed"}
  BY DEF Exclusive
<1>2. pc \in [Callers -> Loops \cup Open \cup {"idle"}]
  BY DEF TypeOK, ConnTypeOK
<1>3. pc'[c] = p /\ \A d \in Callers : d # c => pc'[d] = "idle"
  BY <1>1, <1>2
<1>4. phases' = [phases EXCEPT ![c] = PhaseAt(p, HasAnswer(c)')]
  BY <1>1, <1>3, PhaseMove
<1>5. /\ SessionLink = IF sock = "open" THEN "up" ELSE "lost"
      /\ SessionLink' = IF sock' = "open" THEN "up" ELSE "lost"
  BY <1>1, <1>3, Linking
<1> QED BY <1>4, <1>5, Phasing

\* A caller that waits is pending or answered.
LEMMA WaitsPhase ==
    ASSUME NEW p \in Waits, NEW a \in BOOLEAN
    PROVE  PhaseAt(p, a) \in {"pending", "answered"} /\ (a => PhaseAt(p, a) = "answered")
<1>1. CASE a = TRUE
  BY <1>1, PhaseValues
<1>2. CASE a = FALSE
  BY <1>2, PhaseValues
<1> QED BY <1>1, <1>2

\* The operation goes on, and the caller sees nothing.
LEMMA GoesOn ==
    ASSUME TypeOK, Exclusive, NEW c \in Callers, pc[c] \notin {"idle", "hello"},
           NEW p, pc' = [pc EXCEPT ![c] = p], UNCHANGED <<state, sock, res>>,
           suspect' = suspect \/ (suspect' = TRUE /\ pc[c] \in Waits),
           \/ p = pc[c] /\ p \in Drains \cup {"s_done"}
           \/ pc[c] \in Waits /\ p \in Waits /\ (HasAnswer(c)' <=> HasAnswer(c))
    PROVE  Allowed
<1>1. p # "hello" /\ state' # "Initial"
  BY DEF Drains, Waits, Exclusive
<1>2. /\ phases' = [phases EXCEPT ![c] = PhaseAt(p, HasAnswer(c)')]
      /\ SessionLink' = SessionLink /\ phases[c] = PhaseAt(pc[c], HasAnswer(c))
  BY <1>1, OwnStep
<1>a. HasAnswer(c) \in BOOLEAN /\ HasAnswer(c)' \in BOOLEAN
  BY DEF HasAnswer
<1>3. PhaseAt(p, HasAnswer(c)') = PhaseAt(pc[c], HasAnswer(c))
  <2>1. CASE p = pc[c] /\ p \in Drains \cup {"s_done"}
    BY <2>1, PhaseValues
  <2>2. CASE pc[c] \in Waits /\ p \in Waits /\ (HasAnswer(c)' <=> HasAnswer(c))
    <3>1. CASE HasAnswer(c) = TRUE
      <4>1. HasAnswer(c)' = TRUE
        BY <1>a, <2>2, <3>1
      <4> QED BY <2>2, <3>1, <4>1, PhaseValues
    <3>2. CASE HasAnswer(c) = FALSE
      <4>1. HasAnswer(c)' = FALSE
        BY <1>a, <2>2, <3>2
      <4> QED BY <2>2, <3>2, <4>1, PhaseValues
    <3> QED BY <1>a, <3>1, <3>2
  <2> QED BY <2>1, <2>2
<1>4. phases' = phases
  <2>1. phases = [d \in Callers |-> phases[d]]
    BY DEF phases
  <2> HIDE DEF phases
  <2> QED BY <1>2, <1>3, <2>1
<1>5. CASE suspect' = suspect
  BY <1>2, <1>4, <1>5, Stutters
<1>6. CASE suspect' = TRUE /\ pc[c] \in Waits
  <2>1. phases[c] \in {"pending", "answered"}
    BY <1>2, <1>6, <1>a, WaitsPhase
  <2> QED BY <1>2, <1>4, <1>6, <2>1, Strays
<1> QED BY <1>5, <1>6

\* The end of a loop is the end of the operation.
LEMMA ReturnFinishes ==
    ASSUME TypeOK, Exclusive, NEW c \in Callers, pc[c] \in Waits \cup Drains, NEW r \in Abstract!Results,
           Return(c, r), sock' = sock,
           pc[c] \in Waits /\ r \in {"ok", "server"} /\ ~suspect => HasAnswer(c)
    PROVE  Allowed
<1>0. pc[c] \notin {"idle", "hello", "s_done"}
  BY DEF Waits, Drains, Loops, CtxLoops, Open
<1> DEFINE p == After(pc[c])
<1>1. p \in {"idle", "s_done"} /\ pc' = [pc EXCEPT ![c] = p]
  BY DEF Return, After
<1>2. state' # "Initial"
  BY <1>0 DEF Return, unlock, Exclusive
<1> HIDE DEF p
<1>3. /\ phases' = [phases EXCEPT ![c] = PhaseAt(p, HasAnswer(c)')]
      /\ SessionLink' = SessionLink /\ phases[c] = PhaseAt(pc[c], HasAnswer(c))
  BY <1>0, <1>1, <1>2, OwnStep
<1>4. PICK o \in {"none", "over"} : PhaseAt(p, HasAnswer(c)') = o
  BY <1>1, PhaseValues
<1>5. CASE pc[c] \in Waits
  <2>1. pc[c] \notin Drains
    BY <1>5 DEF Waits
  <2>2. /\ res' = [res EXCEPT ![c] = r]
        /\ suspect' = (suspect \/ r \notin {"ok", "server"})
    <3>1. res' = [res EXCEPT ![c] = r]
      BY <2>1 DEF Return, Outcome, Drains
    <3>2. r = "protocol" => r \notin {"ok", "server"}
      OBVIOUS
    <3> QED BY <2>1, <3>1, <3>2 DEF Return
  <2>3. HasAnswer(c) \in BOOLEAN
    BY DEF HasAnswer
  <2>4. phases[c] \in {"pending", "answered"} /\ (HasAnswer(c) => phases[c] = "answered")
    BY <1>3, <1>5, <2>3, WaitsPhase
  <2> QED BY <1>3, <1>4, <1>5, <2>2, <2>4, Finishes
<1>6. CASE pc[c] \in Drains
  <2>1. phases[c] = "cancelled"
    BY <1>3, <1>6, PhaseValues
  <2>2. res \in [Callers -> Results] /\ suspect \in BOOLEAN
    BY DEF TypeOK, ConnTypeOK
  <2>3. suspect' \in {suspect, TRUE}
    BY <1>6, <2>2 DEF Return
  <2>4. res' = res \/ res' = [res EXCEPT ![c] = "internal"]
    BY <1>6, <2>2 DEF Return, Outcome, Drains
  <2> QED BY <1>3, <1>4, <2>1, <2>3, <2>4, GivesUp
<1> QED BY <1>5, <1>6

\* What a loop other than a drain reads on over is not the answer.
LEMMA NotTheAnswer ==
    ASSUME TypeOK, PingsApart, NEW c \in Callers, pc[c] \notin Drains,
           NEW t \in {"pass", "ignore", "skip", "rows", "header"}, Reads(c, t)
    PROVE  /\ inbox # << >> /\ pc[c] \in Waits
           /\ ~(Head(inbox).kind \in Terminals /\ Head(inbox).q = qid[c])
<1>0. pc[c] \in Loops \ {"hello"} /\ inbox # << >> /\ inbox \in Seq(Packet)
  BY DEF Reads, TypeOK, ServerTypeOK
<1>1. pc[c] \in Waits
  BY <1>0 DEF Waits, Loops, CtxLoops, Drains
<1>2. ASSUME Head(inbox).kind \in Terminals, Head(inbox).q = qid[c]
      PROVE  FALSE
  <2>1. Head(inbox) = inbox[1] /\ 1 \in 1..Len(inbox)
    BY <1>0
  <2>2. Treat(LoopOf(pc[c]), Head(inbox).kind) = t
    BY <1>2 DEF Reads, Seen, Terminals
  <2>3. LoopOf(pc[c]) # "drain" /\ (LoopOf(pc[c]) = "ping" => pc[c] = "ping")
    BY <1>0 DEF LoopOf, Loops, CtxLoops, Drains
  <2>4. Head(inbox).kind = "Pong" /\ LoopOf(pc[c]) # "ping"
    BY <1>2, <2>2, <2>3 DEF Treat, Terminals
  <2>5. pc[c] # "ping"
    BY <2>4 DEF LoopOf, Drains
  <2>6. pc[c] \notin Apart
    BY <1>0, <2>5 DEF Apart, Loops, CtxLoops, Drains
  <2> QED BY <1>2, <2>1, <2>4, <2>6 DEF PingsApart
<1> QED BY <1>0, <1>1, <1>2

\* A loop that ends without error has its answer.
LEMMA AnswerIsMine ==
    ASSUME TypeOK, Sync, ~suspect, NEW c \in Callers, pc[c] \in Waits, Reads(c, "end") \/ Reads(c, "throw")
    PROVE  HasAnswer(c)
<1>0. inbox # << >> /\ inbox \in Seq(Packet)
  BY DEF Reads, TypeOK, ServerTypeOK
<1>1. Head(inbox) = inbox[1] /\ 1 \in 1..Len(inbox)
  BY <1>0
<1>2. Active(c)
  BY DEF Active, Unused, Waits, Loops, CtxLoops, Drains, Open
<1>3. Mine(c, Head(inbox))
  BY <1>1, <1>2 DEF Sync, Responds, OwnPackets
<1>4. Treat(LoopOf(pc[c]), Head(inbox).kind) \in {"end", "throw"}
  BY <1>3 DEF Reads, Seen, Mine
<1>5. Head(inbox).kind \in Terminals
  BY <1>4 DEF Treat, Terminals
<1> QED BY <1>1, <1>3, <1>5 DEF HasAnswer, Mine

\* A stream that has ended is closed.
LEMMA StreamCloses ==
    ASSUME NEW c \in Callers, phases[c] = "over", phases' = [phases EXCEPT ![c] = "none"],
           SessionLink' = SessionLink, suspect' = suspect, res' = res
    PROVE  Allowed
<1>1. Abstract!CloseStream(c)
  BY DEF Abstract!CloseStream, Abstract!Move, phases
<1> QED BY <1>1 DEF Allowed, Abstract!Next

\* Every step of a caller that is in an operation or has a stream.
LEMMA OperationMaps ==
    ASSUME TypeOK, Regular, Exclusive, Sync, PingsApart, NEW c \in Callers,
           pc[c] \notin {"idle", "hello"},
           Calls(c) \/ CtxDone(c) \/ LoopStep(c) \/ StreamLoopStep(c)
    PROVE  Allowed
<1>0. /\ pc \in [Callers -> Loops \cup Open \cup {"idle"}]
      /\ pc[c] \in Waits \cup Drains \cup {"s_done"}
      /\ pc = [pc EXCEPT ![c] = pc[c]]
      /\ "s_done" \notin Waits \cup Drains /\ state \in {"Busy", "Closed"}
      /\ Waits \cap Drains = {}
  BY DEF TypeOK, ConnTypeOK, Waits, Loops, CtxLoops, Open, Drains, Exclusive
<1>a. /\ HasAnswer(c) \in BOOLEAN
      /\ {"s_open", "s_next", "is_open", "is_response", "insert_response", "insert_header",
          "is_header", "select"} \subseteq Waits
      /\ Loops \ {"hello"} \subseteq Waits \cup Drains /\ CtxLoops \subseteq Waits
      /\ {"ok", "network", "protocol", "server", "internal"} \subseteq Abstract!Results
  BY DEF HasAnswer, Waits, Loops, CtxLoops, Open, Drains, Abstract!Results
<1>b. ASSUME NEW r \in {"network", "protocol", "internal"}, Return(c, r), sock' = sock,
             pc[c] \in Waits \cup Drains
      PROVE  Allowed
  BY <1>a, <1>b, ReturnFinishes
<1>c. ASSUME NEW p \in Waits, pc' = [pc EXCEPT ![c] = p], pc[c] \in Waits, qid' = qid,
             UNCHANGED <<state, sock, res>>, suspect' \in {suspect, TRUE},
             HasAnswer(c)' <=> HasAnswer(c)
      PROVE  Allowed
  BY <1>0, <1>c, GoesOn
<1>d. ASSUME NEW r, Continue(c, r), sock' = sock, NEW t \in {"pass", "ignore", "skip", "rows"},
             Reads(c, t), inbox' \in {Tail(inbox), Leftover}
      PROVE  Allowed
  <2>1. UNCHANGED <<state, suspect, pc, res, qid>>
    BY <1>d DEF Continue
  <2>2. CASE pc[c] \in Drains
    BY <1>0, <1>d, <2>1, <2>2, GoesOn
  <2>3. CASE pc[c] \notin Drains
    <3>1. (HasAnswer(c)' <=> HasAnswer(c)) /\ pc[c] \in Waits
      BY <1>d, <2>1, <2>3, NotTheAnswer, AnswerKept
    <3> QED BY <1>0, <1>c, <1>d, <2>1, <3>1
  <2> QED BY <2>2, <2>3
<1>1. CASE Connect(c) \/ Close(c) \/ Release(c) \/ Unlock(c) \/ ReadHello(c) \/ Begins(c)
  <2>1. pc[c] # "idle" /\ pc[c] # "hello" /\ Manual = {}
    BY DEF Regular
  <2>2. ~(Connect(c) \/ Close(c) \/ Release(c) \/ Unlock(c) \/ ReadHello(c))
    BY <2>1 DEF Connect, Close, Release, Unlock, ReadHello
  <2>3. ~Begins(c)
    BY <2>1, BeginsWith DEF Begin
  <2> QED BY <1>1, <2>2, <2>3
<1>2. CASE Bind(c) \/ CtxDone(c) \/ CheckContext(c)
  <2>1. UNCHANGED <<state, sock, res, suspect, pc, qid, inbox>>
    BY <1>2 DEF Bind, CtxDone, CheckContext, serverVars, connVars, locals
  <2>2. pc[c] \in Waits
    BY <1>2, <1>a DEF Bind, CtxDone, CheckContext
  <2>3. HasAnswer(c)' <=> HasAnswer(c)
    BY <2>1, AnswerKept
  <2> QED BY <1>0, <1>c, <2>1, <2>2, <2>3
<1>3. CASE StreamNext(c)
  <2>1. pc[c] = "s_open" /\ UNCHANGED <<state, sock, qid, inbox>>
    BY <1>3 DEF StreamNext, serverVars
  <2>2. CASE shape[c] = "unbound"
    <3>1. pc' = [pc EXCEPT ![c] = "s_done"] /\ res' = [res EXCEPT ![c] = "protocol"] /\ suspect' = TRUE
      BY <1>3, <2>2 DEF StreamNext
    <3>2. /\ phases' = [phases EXCEPT ![c] = PhaseAt("s_done", HasAnswer(c)')]
          /\ SessionLink' = SessionLink /\ phases[c] = PhaseAt(pc[c], HasAnswer(c))
      BY <1>0, <2>1, <3>1, OwnStep
    <3>3. phases' = [phases EXCEPT ![c] = "over"]
      BY <3>2, PhaseValues
    <3>4. phases[c] \in {"pending", "answered"}
      BY <1>a, <2>1, <3>2, WaitsPhase
    <3>5. suspect' = (suspect \/ "protocol" \notin {"ok", "server"})
      BY <3>1
    <3> QED BY <1>a, <3>1, <3>2, <3>3, <3>4, <3>5, Finishes
  <2>3. CASE shape[c] # "unbound"
    <3>1. pc' = [pc EXCEPT ![c] = "s_next"] /\ UNCHANGED <<res, suspect>>
      BY <1>3, <2>3 DEF StreamNext
    <3>2. HasAnswer(c)' <=> HasAnswer(c)
      BY <2>1, AnswerKept
    <3> QED BY <1>a, <1>c, <2>1, <3>1, <3>2
  <2> QED BY <2>2, <2>3
<1>4. ASSUME NEW p \in Drains, Drain(c, p), pc[c] \in Waits
      PROVE  Allowed
  <2>1. pc' = [pc EXCEPT ![c] = p] /\ UNCHANGED <<state, sock, res, suspect>> /\ p # "hello"
    BY <1>4 DEF Drain, connVars, Drains
  <2>2. /\ phases' = [phases EXCEPT ![c] = PhaseAt(p, HasAnswer(c)')]
        /\ SessionLink' = SessionLink /\ phases[c] = PhaseAt(pc[c], HasAnswer(c))
    BY <1>0, <2>1, OwnStep
  <2>3. phases' = [phases EXCEPT ![c] = "cancelled"]
    BY <2>2, PhaseValues
  <2>4. phases[c] \in {"pending", "answered"}
    BY <1>4, <1>a, <2>2, WaitsPhase
  <2> QED BY <2>1, <2>2, <2>3, <2>4, Cancels
<1>5. CASE StreamCancel(c) \/ NextContextDone(c)
  <2>1. pc[c] \in {"s_open", "s_next"} /\ \E p \in Drains : Drain(c, p)
    BY <1>5 DEF StreamCancel, NextContextDone, Drains
  <2> QED BY <1>4, <1>a, <2>1
<1>6. CASE StreamClose(c)
  <2>1. CASE pc[c] = "s_open" /\ Drain(c, "drain_close")
    BY <1>4, <1>a, <2>1 DEF Drains
  <2>2. CASE pc[c] = "s_done"
    <3>1. /\ pc' = [pc EXCEPT ![c] = "idle"] /\ state' # "Initial"
          /\ UNCHANGED <<sock, res, suspect>>
      BY <1>6, <2>2 DEF StreamClose, unlock, serverVars
    <3>2. /\ phases' = [phases EXCEPT ![c] = PhaseAt("idle", HasAnswer(c)')]
          /\ SessionLink' = SessionLink /\ phases[c] = PhaseAt("s_done", HasAnswer(c))
      BY <2>2, <3>1, OwnStep
    <3>3. phases' = [phases EXCEPT ![c] = "none"] /\ phases[c] = "over"
      BY <3>2, PhaseValues
    <3> QED BY <3>1, <3>2, <3>3, StreamCloses
  <2> QED BY <1>6, <2>1, <2>2 DEF StreamClose
<1>7. CASE StreamAppend(c)
  <2>1. pc[c] = "is_open" /\ UNCHANGED <<state, sock, qid, inbox, pc>>
    BY <1>7 DEF StreamAppend
  <2>2. HasAnswer(c)' <=> HasAnswer(c)
    BY <2>1, AnswerKept
  <2>3. CASE UNCHANGED <<suspect, res>>
    BY <1>0, <1>a, <1>c, <2>1, <2>2, <2>3
  <2>4. CASE FlushFails /\ res' = [res EXCEPT ![c] = "network"] /\ suspect' = TRUE
    <3>1. /\ phases' = [phases EXCEPT ![c] = PhaseAt("is_open", HasAnswer(c)')]
          /\ SessionLink' = SessionLink /\ phases[c] = PhaseAt("is_open", HasAnswer(c))
          /\ SessionLink = IF sock = "open" THEN "up" ELSE "lost"
      BY <1>0, <2>1, OwnStep
    <3>2. SessionLink = "lost"
      BY <2>4, <3>1 DEF FlushFails
    <3>3. phases[c] \in {"pending", "answered"}
      BY <1>a, <3>1, WaitsPhase
    <3>4. HasAnswer(c)' = HasAnswer(c)
      BY <1>a, <2>1 DEF HasAnswer
    <3>5. phases' = phases
      <4>1. phases = [d \in Callers |-> phases[d]]
        BY DEF phases
      <4> HIDE DEF phases
      <4> QED BY <3>1, <3>4, <4>1
    <3> QED BY <2>4, <3>1, <3>2, <3>3, <3>5, SendingFails
  <2> QED BY <1>7, <2>3, <2>4 DEF StreamAppend
<1>8. CASE InsertStreamClose(c)
  <2>1. pc[c] = "is_open" /\ UNCHANGED <<sock, inbox>>
    BY <1>8 DEF InsertStreamClose
  <2>2. CASE Return(c, "network")
    BY <1>a, <1>b, <2>1, <2>2
  <2>3. CASE pc' = [pc EXCEPT ![c] = "is_response"] /\ UNCHANGED <<state, suspect, res, qid>>
    <3>1. HasAnswer(c)' <=> HasAnswer(c)
      BY <2>1, <2>3, AnswerKept
    <3> QED BY <1>a, <1>c, <2>1, <2>3, <3>1
  <2> QED BY <1>8, <2>2, <2>3 DEF InsertStreamClose, locals
<1>9. CASE ContextDone(c)
  BY <1>9, <1>a, <1>b DEF ContextDone
<1>10. CASE ReadEnd(c) \/ ReadException(c)
  <2>1. PICK r \in {"ok", "server"} : Return(c, r)
    BY <1>10 DEF ReadEnd, ReadException
  <2>2. sock' = sock /\ pc[c] \in Waits \cup Drains /\ (Reads(c, "end") \/ Reads(c, "throw"))
    BY <1>10, <1>a DEF ReadEnd, ReadException, Reads, readVars
  <2>3. pc[c] \in Waits /\ ~suspect => HasAnswer(c)
    BY <2>2, AnswerIsMine
  <2> QED BY <1>a, <2>1, <2>2, <2>3, ReturnFinishes
<1>11. CASE ReadReject(c) \/ ReadFails(c)
  <2>1. sock' = sock /\ pc[c] \in Waits \cup Drains /\ \E r \in {"network", "protocol"} : Return(c, r)
    BY <1>11, <1>a DEF ReadReject, ReadFails, Reads, readVars
  <2> QED BY <1>b, <2>1
<1>12. CASE ReadPass(c)
  <2>1. sock' = sock /\ Continue(c, 0) /\ inbox' \in {Tail(inbox), Leftover}
        /\ \E t \in {"pass", "ignore"} : Reads(c, t)
    BY <1>12 DEF ReadPass, readVars
  <2> QED BY <1>d, <2>1
<1>13. CASE ReadSkip(c)
  <2>1. /\ sock' = sock /\ Reads(c, "skip") /\ inbox' \in {Tail(inbox), Leftover}
        /\ Continue(c, 0) \/ Return(c, "protocol")
    BY <1>13, Zenon DEF ReadSkip, readVars
  <2>2. pc[c] \in Waits \cup Drains
    BY <1>a, <2>1 DEF Reads
  <2> QED BY <1>b, <1>d, <2>1, <2>2
<1>14. CASE ReadSelectRows(c)
  <2>1. /\ sock' = sock /\ Reads(c, "rows") /\ inbox' \in {Tail(inbox), Leftover}
        /\ (\E r : Continue(c, r)) \/ Return(c, "protocol")
    BY <1>14, Zenon DEF ReadSelectRows, readVars
  <2>2. pc[c] \in Waits \cup Drains
    BY <1>a, <2>1 DEF Reads
  <2> QED BY <1>b, <1>d, <2>1, <2>2
<1>15. ASSUME NEW p \in Waits, pc' = [pc EXCEPT ![c] = p], UNCHANGED <<state, sock, res, qid>>,
              suspect' \in {suspect, TRUE}, NEW t \in {"rows", "header"}, Reads(c, t), pc[c] \notin Drains,
              inbox' \in {Tail(inbox), Leftover}
       PROVE  Allowed
  <2>1. (HasAnswer(c)' <=> HasAnswer(c)) /\ pc[c] \in Waits
    BY <1>15, NotTheAnswer, AnswerKept
  <2> QED BY <1>15, <1>c, <2>1
<1>16. CASE ReadHeader(c)
  <2>1. /\ sock' = sock /\ Reads(c, "header") /\ inbox' \in {Tail(inbox), Leftover}
        /\ \/ Return(c, "protocol") \/ Return(c, "network")
           \/ /\ pc[c] \in {"is_header", "insert_header"}
              /\ \E p \in {"is_open", "insert_response"} : pc' = [pc EXCEPT ![c] = p]
              /\ UNCHANGED <<state, suspect, res, qid>>
    BY <1>16 DEF ReadHeader, InsertData, readVars, locals
  <2>2. pc[c] \in Waits \cup Drains
    BY <1>a, <2>1 DEF Reads
  <2> QED BY <1>15, <1>0, <1>a, <1>b, <2>1, <2>2
<1>17. CASE ReadStreamRows(c)
  <2>1. /\ sock' = sock /\ Reads(c, "rows") /\ inbox' \in {Tail(inbox), Leftover} /\ pc[c] = "s_next"
        /\ \/ Return(c, "protocol") \/ Continue(c, 0)
           \/ /\ pc' = [pc EXCEPT ![c] = "s_open"] /\ UNCHANGED <<state, res, qid>>
              /\ suspect' \in {suspect, TRUE}
    <3>1. suspect \in BOOLEAN
      BY <1>0 DEF TypeOK, ConnTypeOK
    <3> QED BY <1>17, <3>1 DEF ReadStreamRows, readVars
  <2> QED BY <1>15, <1>0, <1>a, <1>b, <1>d, <2>1
<1> QED
  BY <1>1, <1>2, <1>3, <1>5, <1>6, <1>7, <1>8, <1>9, <1>10, <1>11, <1>12, <1>13, <1>14, <1>16, <1>17
  DEF Calls, LoopStep, StreamLoopStep, Begins

-----------------------------------------------------------------------------
(* Connect, Close and the start of an operation. *)

\* Packets are lost, and with them perhaps an answer.
LEMMA AnswerLost ==
    ASSUME TypeOK, Exclusive, pc' = pc, qid' = qid, inbox' = inbox \/ inbox' \in Remains(inbox)
    PROVE  \/ phases' = phases
           \/ \E c \in Callers : phases[c] = "answered" /\ phases' = [phases EXCEPT ![c] = "pending"]
<1>0. /\ pc \in [Callers -> Loops \cup Open \cup {"idle"}] /\ inbox \in Seq(Packet)
      /\ phases = [d \in Callers |-> phases[d]] /\ phases' = [d \in Callers |-> phases'[d]]
  BY DEF TypeOK, ServerTypeOK, ConnTypeOK, phases
<1>1. /\ \A d \in Callers : phases'[d] = PhaseAt(pc[d], HasAnswer(d)')
      /\ \A d \in Callers : phases[d] = PhaseAt(pc[d], HasAnswer(d))
  BY Phasing
<1>2. \A d \in Callers : pc[d] \notin Waits => phases'[d] = phases[d]
  BY <1>0, <1>1, PhaseValues DEF Waits
<1> HIDE DEF phases
<1>3. CASE \A d \in Callers : pc[d] \notin Waits
  BY <1>0, <1>2, <1>3
<1>4. ASSUME NEW c \in Callers, pc[c] \in Waits
      PROVE  phases' = phases \/ (phases[c] = "answered" /\ phases' = [phases EXCEPT ![c] = "pending"])
  <2>1. \A d \in Callers : d # c => phases'[d] = phases[d]
    <3>1. "idle" \notin Waits
      BY DEF Waits, Loops, CtxLoops, Drains, Open
    <3> QED BY <1>2, <1>4, <3>1 DEF Exclusive
  <2>2. HasAnswer(c) \in BOOLEAN /\ HasAnswer(c)' \in BOOLEAN
    BY DEF HasAnswer
  <2>3. HasAnswer(c)' => HasAnswer(c)
    <3>1. CASE inbox' = inbox
      BY <3>1 DEF HasAnswer
    <3>2. CASE inbox' \in Remains(inbox)
      <4>1. /\ Len(inbox') <= Len(inbox) /\ Len(inbox') \in Nat
            /\ \A i \in 1..Len(inbox') :
                 /\ inbox'[i].q = inbox[i].q
                 /\ inbox'[i].kind = inbox[i].kind \/ inbox'[i].kind = "Cut"
        BY <1>0, <3>2, RemainsOf
      <4>2. \A i \in 1..Len(inbox') : i \in 1..Len(inbox)
        BY <1>0, <4>1
      <4> QED BY <4>1, <4>2 DEF HasAnswer, Terminals
    <3> QED BY <3>1, <3>2
  <2>4. CASE HasAnswer(c) = TRUE /\ HasAnswer(c)' = FALSE
    <3>1. phases[c] = "answered" /\ phases'[c] = "pending"
      <4>1. phases[c] = PhaseAt(pc[c], TRUE) /\ phases'[c] = PhaseAt(pc[c], FALSE)
        BY <1>1, <2>4
      <4> QED BY <1>4, <4>1, PhaseValues, Zenon
    <3> QED BY <1>0, <2>1, <3>1
  <2>5. CASE HasAnswer(c)' = HasAnswer(c)
    <3>1. phases'[c] = phases[c]
      BY <1>1, <2>5
    <3> QED BY <1>0, <2>1, <3>1
  <2> QED BY <2>2, <2>3, <2>4, <2>5
<1> QED BY <1>3, <1>4

\* A call starts an operation of its own; its answer is still to come.
LEMMA BeginMaps ==
    ASSUME TypeOK, Exclusive, Numbered, NEW c \in Callers, Begins(c)
    PROVE  Allowed
<1>1. PICK p, m, sh : Begin(c, p, m, sh) /\ p \notin Unused \cup Drains \cup {"hello"}
  BY BeginsWith
<1>0. /\ pc \in [Callers -> Loops \cup Open \cup {"idle"}] /\ inbox \in Seq(Packet)
      /\ qid \in [Callers -> Nat] /\ nextq \in Nat
      /\ phases = [d \in Callers |-> phases[d]]
  BY DEF TypeOK, ServerTypeOK, ConnTypeOK, phases
<1>2. pc[c] = "idle" /\ state = "Ready" /\ sock' = sock /\ inbox' = inbox /\ qid'[c] = nextq
  BY <1>0, <1>1 DEF Begin, lock
<1>3. \A d \in Callers : pc[d] = "idle"
  BY <1>2 DEF Exclusive
<1>4. SessionLink = IF sock = "open" THEN "up" ELSE "lost"
  BY <1>2, <1>3, Linking
<1>5. \A d \in Callers : phases[d] = "none"
  <2>1. \A d \in Callers : phases[d] = PhaseAt(pc[d], HasAnswer(d))
    BY Phasing
  <2> QED BY <1>3, <2>1, PhaseValues
<1>6. CASE /\ state' = "Busy" /\ pc' = [pc EXCEPT ![c] = p]
           /\ res' = [res EXCEPT ![c] = "none"] /\ UNCHANGED suspect
  <2>1. pc'[c] = p /\ \A d \in Callers : pc'[d] # "hello" /\ (d # c => pc'[d] = "idle")
    BY <1>0, <1>1, <1>3, <1>6 DEF Unused
  <2>2. SessionLink' = SessionLink
    BY <1>2, <1>4, <1>6, <2>1, Linking
  <2>3. HasAnswer(c)' = FALSE
    <3>1. \A i \in 1..Len(inbox) : inbox[i].q # nextq
      <4>1. \A i \in 1..Len(inbox) : inbox[i] \in Packet
        BY <1>0
      <4>2. \A i \in 1..Len(inbox) : inbox[i].q \in Nat
        BY <4>1 DEF Packet
      <4> QED BY <1>0, <4>2 DEF Numbered
    <3> QED BY <1>2, <3>1 DEF HasAnswer
  <2>4. phases' = [phases EXCEPT ![c] = PhaseAt(p, HasAnswer(c)')]
    BY <1>3, <2>1, PhaseMove
  <2>5. PhaseAt(p, FALSE) = "pending"
    BY <1>1 DEF PhaseAt, Unused
  <2>6. phases' = [phases EXCEPT ![c] = "pending"]
    BY <2>3, <2>4, <2>5
  <2>7. Abstract!Begin(c)
    BY <1>4, <1>5, <1>6, <2>2, <2>6 DEF Abstract!Begin, Abstract!Free, Abstract!Move, Abstract!Tell, phases
  <2> QED BY <2>7 DEF Allowed, Abstract!Next
<1>7. CASE /\ FlushFails /\ state' = unlock /\ res' = [res EXCEPT ![c] = "network"]
           /\ suspect' = TRUE /\ UNCHANGED pc
  <2>1. SessionLink = "lost" /\ SessionLink' = SessionLink
    BY <1>2, <1>3, <1>4, <1>7, Linking DEF FlushFails, unlock
  <2>2. phases' = [phases EXCEPT ![c] = PhaseAt("idle", HasAnswer(c)')]
    BY <1>3, <1>7, PhaseMove
  <2>3. phases' = phases
    <3> HIDE DEF phases
    <3> QED BY <1>0, <1>5, <2>2, PhaseValues
  <2> QED BY <1>5, <1>7, <2>1, <2>3, SendingFails
<1> QED BY <1>1, <1>6, <1>7 DEF Begin

\* Connect and its handshake.
LEMMA ConnectMaps ==
    ASSUME TypeOK, Exclusive, NEW c \in Callers, Connect(c) \/ ReadHello(c)
    PROVE  Allowed
<1>0. /\ pc \in [Callers -> Loops \cup Open \cup {"idle"}]
      /\ phases = [d \in Callers |-> phases[d]]
  BY DEF TypeOK, ConnTypeOK, phases
<1>1. CASE Connect(c)
  <2>1. state = "Initial" /\ pc[c] = "idle" /\ suspect' = suspect
    BY <1>1 DEF Connect
  <2>2. \A d \in Callers : pc[d] = "idle"
    BY <2>1 DEF Exclusive
  <2>3. \A d \in Callers : phases[d] = "none"
    <3>1. \A d \in Callers : phases[d] = PhaseAt(pc[d], HasAnswer(d))
      BY Phasing
    <3> QED BY <2>2, <3>1, PhaseValues
  <2>4. SessionLink = "none"
    BY <2>1, Linking
  <2>5. CASE pc' = [pc EXCEPT ![c] = "hello"] /\ UNCHANGED res
    <3>1. pc'[c] = "hello" /\ \A d \in Callers : d # c => pc'[d] = "idle"
      BY <1>0, <2>2, <2>5
    <3>2. SessionLink' = "none"
      BY <3>1, Linking
    <3>3. phases' = [phases EXCEPT ![c] = "connecting"]
      BY <2>2, <3>1, PhaseMove, PhaseValues
    <3>4. Abstract!Connect(c)
      BY <2>1, <2>3, <2>4, <2>5, <3>2, <3>3 DEF Abstract!Connect, Abstract!Free, Abstract!Move, phases
    <3> QED BY <3>4 DEF Allowed, Abstract!Next
  <2>6. CASE UNCHANGED <<state, pc>> /\ res' = [res EXCEPT ![c] = "network"]
    <3>1. SessionLink' = "none"
      BY <2>1, <2>6, Linking
    <3>2. phases' = [phases EXCEPT ![c] = "none"]
      BY <2>2, <2>6, PhaseMove, PhaseValues
    <3>3. Abstract!Connected(c)
      BY <2>1, <2>3, <2>4, <2>6, <3>1, <3>2
         DEF Abstract!Connected, Abstract!Free, Abstract!Move, Abstract!Tell, phases
    <3> QED BY <3>3 DEF Allowed, Abstract!Next
  <2> QED BY <1>1, <2>5, <2>6, Zenon DEF Connect
<1>2. CASE ReadHello(c)
  <2>1. pc[c] = "hello" /\ suspect' = suspect /\ pc' = [pc EXCEPT ![c] = "idle"]
    BY <1>2 DEF ReadHello
  <2>2. \A d \in Callers : d # c => pc[d] = "idle"
    BY <2>1 DEF Exclusive
  <2>3. \A d \in Callers : pc'[d] = "idle"
    BY <1>0, <2>1, <2>2
  <2>4. SessionLink = "none" /\ phases[c] = "connecting"
    BY <2>1, Linking, Phasing, PhaseValues
  <2>5. phases' = [phases EXCEPT ![c] = "none"]
    BY <2>2, <2>3, PhaseMove, PhaseValues
  <2>6. CASE state' = "Ready" /\ res' = [res EXCEPT ![c] = "ok"]
    <3>1. SessionLink' \in {"up", "lost"}
      BY <2>3, <2>6, Linking
    <3>2. Abstract!Connected(c)
      BY <2>1, <2>4, <2>5, <2>6, <3>1 DEF Abstract!Connected, Abstract!Move, Abstract!Tell, phases
    <3> QED BY <3>2 DEF Allowed, Abstract!Next
  <2>7. ASSUME NEW r \in {"server", "network", "protocol"}, ConnectFails(c, r)
        PROVE  Allowed
    <3>1. SessionLink' = "none" /\ res' = [res EXCEPT ![c] = r]
      BY <2>7, Linking DEF ConnectFails
    <3>2. Abstract!Connected(c)
      BY <2>1, <2>4, <2>5, <3>1 DEF Abstract!Connected, Abstract!Move, Abstract!Tell, phases
    <3> QED BY <3>2 DEF Allowed, Abstract!Next
  <2> QED BY <1>2, <2>6, <2>7, Zenon DEF ReadHello
<1> QED BY <1>1, <1>2

\* Close, by whichever caller.
LEMMA CloseMaps ==
    ASSUME TypeOK, Exclusive, NEW c \in Callers, Close(c)
    PROVE  Allowed
<1>1. /\ state # "Initial" /\ state' # "Initial" /\ sock' # "open"
      /\ \A d \in Callers : pc[d] # "hello"
      /\ inbox' \in Remains(inbox) /\ UNCHANGED <<pc, qid, res, suspect>>
  BY DEF Close, CloseSocket, callVars
<1>2. SessionLink \in {"up", "lost"} /\ SessionLink' = "lost"
  BY <1>1, Linking
<1> QED BY <1>1, <1>2, AnswerLost, Loses

-----------------------------------------------------------------------------
(* The server and the network. *)

\* A packet the server sends is at most the answer of the caller that waits.
LEMMA PacketMaps ==
    ASSUME TypeOK, Exclusive, UNCHANGED <<pc, qid, state, res, suspect>>, sock = "open", sock' = "open",
           inbox' = inbox \/ \E p \in Packet : inbox' = Append(inbox, p)
    PROVE  Allowed
<1>0. /\ pc \in [Callers -> Loops \cup Open \cup {"idle"}] /\ inbox \in Seq(Packet)
      /\ phases = [d \in Callers |-> phases[d]] /\ phases' = [d \in Callers |-> phases'[d]]
  BY DEF TypeOK, ServerTypeOK, ConnTypeOK, phases
<1>1. SessionLink' = SessionLink
  BY DEF SessionLink
<1>2. /\ \A d \in Callers : phases'[d] = PhaseAt(pc[d], HasAnswer(d)')
      /\ \A d \in Callers : phases[d] = PhaseAt(pc[d], HasAnswer(d))
  BY Phasing
<1>3. \A d \in Callers : pc[d] \notin Waits => phases'[d] = phases[d]
  BY <1>0, <1>2, PhaseValues DEF Waits
<1> HIDE DEF phases
<1>4. CASE phases' = phases
  BY <1>1, <1>4, Stutters
<1>5. ASSUME NEW c \in Callers, phases'[c] # phases[c]
      PROVE  Allowed
  <2>1. pc[c] \in Waits
    BY <1>3, <1>5
  <2>2. pc[c] \notin {"idle", "hello"}
    BY <2>1 DEF Waits, Loops, CtxLoops, Drains, Open
  <2>3. \A d \in Callers : d # c => pc[d] = "idle" /\ phases'[d] = phases[d]
    <3>1. "idle" \notin Waits
      BY DEF Waits, Loops, CtxLoops, Drains, Open
    <3> QED BY <1>3, <2>2, <3>1 DEF Exclusive
  <2>4. SessionLink = "up"
    BY <2>2, <2>3, Linking DEF Exclusive
  <2>5. HasAnswer(c) \in BOOLEAN /\ HasAnswer(c)' \in BOOLEAN
    BY DEF HasAnswer
  <2>6. HasAnswer(c) => HasAnswer(c)'
    <3>1. \A i \in 1..Len(inbox) : i \in 1..Len(inbox') /\ inbox'[i] = inbox[i]
      BY <1>0
    <3> QED BY <3>1 DEF HasAnswer
  <2>7. HasAnswer(c) = FALSE /\ HasAnswer(c)' = TRUE
    BY <1>2, <1>5, <2>5, <2>6
  <2>8. phases[c] = "pending" /\ phases'[c] = "answered"
    <3>1. phases[c] = PhaseAt(pc[c], FALSE) /\ phases'[c] = PhaseAt(pc[c], TRUE)
      BY <1>2, <2>7
    <3> QED BY <2>1, <3>1, PhaseValues, Zenon
  <2>9. phases' = [phases EXCEPT ![c] = "answered"]
    BY <1>0, <2>3, <2>8
  <2> QED BY <1>1, <2>4, <2>8, <2>9, Answers
<1> QED BY <1>0, <1>4, <1>5

LEMMA ServerMaps ==
    ASSUME TypeOK, Exclusive, ServerNext, UNCHANGED <<connVars, callVars>>
    PROVE  Allowed
<1>0. UNCHANGED <<pc, qid, state, res, suspect>>
  BY DEF connVars, callVars
<1>1. CASE Breaks
  <2>0. sock' = "reset" /\ (inbox' = inbox \/ inbox' \in Remains(inbox))
    BY <1>1 DEF Breaks
  <2>1. CASE state = "Initial" \/ \E c \in Callers : pc[c] = "hello"
    <3>1. SessionLink = "none" /\ SessionLink' = "none"
      BY <1>0, <2>1, Linking
    <3>2. \A c \in Callers : pc[c] \in {"idle", "hello"}
      BY <2>1 DEF Exclusive
    <3>3. phases' = phases
      <4>1. /\ \A d \in Callers : phases'[d] = PhaseAt(pc[d], HasAnswer(d)')
            /\ \A d \in Callers : phases[d] = PhaseAt(pc[d], HasAnswer(d))
            /\ phases = [d \in Callers |-> phases[d]] /\ phases' = [d \in Callers |-> phases'[d]]
        BY <1>0, Phasing DEF phases
      <4>2. \A d \in Callers : phases'[d] = phases[d]
        BY <3>2, <4>1, PhaseValues
      <4> HIDE DEF phases
      <4> QED BY <4>1, <4>2
    <3> QED BY <1>0, <3>1, <3>3, Stutters
  <2>2. CASE state # "Initial" /\ \A c \in Callers : pc[c] # "hello"
    <3>1. SessionLink \in {"up", "lost"} /\ SessionLink' = "lost"
      BY <1>0, <2>0, <2>2, Linking
    <3> QED BY <1>0, <2>0, <3>1, AnswerLost, Loses
  <2> QED BY <2>1, <2>2
<1>2. CASE Idles \/ Starts \/ \E p \in Packet : Sends(p) \/ Greets(p)
  <2>1. sock = "open" /\ sock' = "open" /\ (inbox' = inbox \/ \E p \in Packet : inbox' = Append(inbox, p))
    BY <1>2 DEF Idles, Starts, Sends, Greets
  <2> QED BY <1>0, <2>1, PacketMaps
<1> QED BY <1>1, <1>2, ServerEffect

-----------------------------------------------------------------------------
(* The refinement. *)

LEMMA StepMaps ==
    ASSUME TypeOK, Regular, Exclusive, Sync, Numbered, PingsApart, [Next]_vars
    PROVE  Allowed
<1>1. CASE ServerNext /\ UNCHANGED <<connVars, callVars>>
  BY <1>1, ServerMaps
<1>2. CASE UNCHANGED vars
  <2>1. UNCHANGED <<pc, qid, inbox, state, sock, res, suspect>>
    BY <1>2 DEF vars, serverVars, connVars, callVars
  <2>2. phases' = phases
    BY <2>1 DEF phases, SessionPhase, HasAnswer
  <2>3. SessionLink' = SessionLink
    BY <2>1 DEF SessionLink
  <2> QED BY <2>1, <2>2, <2>3, Stutters
<1>3. ASSUME NEW c \in Callers, Calls(c) \/ CtxDone(c) \/ LoopStep(c) \/ StreamLoopStep(c)
      PROVE  Allowed
  <2>1. CASE pc[c] \notin {"idle", "hello"}
    BY <1>3, <2>1, OperationMaps
  <2>2. CASE Connect(c) \/ ReadHello(c)
    BY <2>2, ConnectMaps
  <2>3. CASE Close(c)
    BY <2>3, CloseMaps
  <2>4. CASE Begins(c)
    BY <2>4, BeginMaps
  <2>5. CASE /\ pc[c] \in {"idle", "hello"}
             /\ ~(Connect(c) \/ ReadHello(c) \/ Close(c) \/ Begins(c))
    <3>1. pc[c] \notin CtxLoops \cup Drains \cup Open \cup (Loops \ {"hello"})
      BY <2>5 DEF Loops, CtxLoops, Drains, Open
    <3>2. ~(Bind(c) \/ StreamNext(c) \/ StreamCancel(c) \/ StreamClose(c) \/ Release(c) \/ Unlock(c)
             \/ StreamAppend(c) \/ InsertStreamClose(c) \/ NextContextDone(c))
      BY <2>5 DEF Bind, StreamNext, StreamCancel, StreamClose, Release, Unlock, Regular, StreamAppend,
         InsertStreamClose, NextContextDone
    <3>3. ~(CtxDone(c) \/ CheckContext(c) \/ ContextDone(c) \/ ReadFails(c))
      BY <2>5, <3>1 DEF CtxDone, CheckContext, ContextDone, ReadFails
    <3>4. ~(\/ ReadEnd(c) \/ ReadException(c) \/ ReadReject(c) \/ ReadPass(c)
            \/ ReadSelectRows(c) \/ ReadHeader(c) \/ ReadStreamRows(c) \/ ReadSkip(c))
      BY <3>1, Zenon DEF ReadEnd, ReadException, ReadReject, ReadPass, ReadSelectRows, ReadHeader,
         ReadStreamRows, ReadSkip, Reads
    <3> QED BY <1>3, <2>5, <3>2, <3>3, <3>4 DEF Calls, LoopStep, StreamLoopStep, Begins
  <2> QED BY <2>1, <2>2, <2>3, <2>4, <2>5
<1> QED BY <1>1, <1>2, <1>3 DEF Next

\* ImplementsSession: to its callers the connection is a Session.  Its link is made
\* once and lost once; operations come one at a time; success and the server's
\* error are reported only of an answer that the server gave to that very request,
\* for any number of callers and requests, and whatever cancels, resets, losses
\* and Close come in between.
THEOREM ImplementsSessionHolds ==
    ASSUME Regular
    PROVE  Spec => ImplementsSession
<1>1. Init => Abstract!Init
  <2> SUFFICES ASSUME Init PROVE Abstract!Init
    OBVIOUS
  <2>1. SessionLink = "none" /\ res = [c \in Callers |-> "none"] /\ suspect = FALSE
    BY DEF Init, ConnInit, SessionLink
  <2>2. phases = [c \in Callers |-> "none"]
    <3>1. \A c \in Callers : pc[c] = "idle"
      BY DEF Init, ConnInit
    <3>2. \A c \in Callers : phases[c] = PhaseAt(pc[c], HasAnswer(c))
      BY Phasing
    <3>3. \A c \in Callers : phases[c] = "none"
      BY <3>1, <3>2, PhaseValues
    <3>4. phases = [c \in Callers |-> phases[c]]
      BY DEF phases
    <3> HIDE DEF phases
    <3> QED BY <3>3, <3>4
  <2> QED BY <2>1, <2>2 DEF Abstract!Init, phases
<1>2. Init => Numbered /\ PingsApart
  BY DEF Init, ServerInit, ConnInit, NewSession, Numbered, PingsApart, Apart
<1>3. TypeOK /\ TypeOK' /\ Numbered /\ PingsApart /\ [Next]_vars => Numbered' /\ PingsApart'
  BY NumberedStep
<1>4. TypeOK /\ Exclusive /\ Sync /\ Numbered /\ PingsApart /\ [Next]_vars
        => [Abstract!Next]_(Abstract!sessionVars)
  BY StepMaps DEF Allowed
<1>5. Spec => [](TypeOK /\ Exclusive /\ Sync)
  BY SyncHolds
<1> QED BY <1>1, <1>2, <1>3, <1>4, <1>5, PTL DEF Spec, ImplementsSession, Abstract!Spec

-----------------------------------------------------------------------------
(* What was transferred: the count of an operation and the one the server  *)
(* keeps meet, once the packets and blocks on their way are added.         *)

\* The weights g of the elements of s, added to a one after the other, give b.
Adds(s, g, a, b) ==
    \E f \in [0..Len(s) -> Nat] :
        /\ f[0] = a /\ f[Len(s)] = b
        /\ \A i \in 1..Len(s) : f[i] = f[i - 1] + g[s[i]]

\* Nothing adds nothing.
LEMMA AddsNothing ==
    ASSUME NEW g, NEW a \in Nat, NEW b
    PROVE  Adds(<< >>, g, a, b) <=> a = b
<1>1. Adds(<< >>, g, a, b) => a = b
  BY DEF Adds
<1>2. ASSUME a = b
      PROVE  Adds(<< >>, g, a, b)
  <2>1. PICK f : f = [k \in 0..0 |-> a]
    OBVIOUS
  <2>2. f \in [0..0 -> Nat] /\ f[0] = a /\ Len(<< >>) = 0 /\ 1..0 = {}
    BY <2>1
  <2> QED BY <1>2, <2>2 DEF Adds
<1> QED BY <1>1, <1>2

\* One element more at the end.
LEMMA AddsLast ==
    ASSUME NEW S, NEW s \in Seq(S), NEW e \in S, NEW g \in [S -> Nat],
           NEW a, NEW b, Adds(s, g, a, b)
    PROVE  Adds(Append(s, e), g, a, b + g[e])
<1> DEFINE t == Append(s, e)
           k == Len(s)
<1>1. PICK f \in [0..k -> Nat] : f[0] = a /\ f[k] = b /\ \A i \in 1..k : f[i] = f[i - 1] + g[s[i]]
  BY DEF Adds
<1>2. /\ k \in Nat /\ Len(t) = k + 1 /\ t[k + 1] = e /\ \A i \in 1..k : t[i] = s[i]
      /\ g[e] \in Nat
  OBVIOUS
<1>3. b \in Nat
  BY <1>1, <1>2
<1> HIDE DEF t, k
<1> DEFINE h == [i \in 0..(k + 1) |-> IF i = k + 1 THEN b + g[e] ELSE f[i]]
<1>4. h \in [0..(k + 1) -> Nat] /\ h[k + 1] = b + g[e] /\ \A i \in 0..k : h[i] = f[i]
  BY <1>1, <1>2, <1>3
<1> HIDE DEF h
<1>5. ASSUME NEW i \in 1..(k + 1)
      PROVE  h[i] = h[i - 1] + g[t[i]]
  <2>1. CASE i = k + 1
    BY <1>1, <1>2, <1>4, <2>1
  <2>2. CASE i # k + 1
    <3>1. i \in 1..k /\ i \in 0..k /\ i - 1 \in 0..k
      BY <1>2, <2>2
    <3> QED BY <1>1, <1>2, <1>4, <3>1
  <2> QED BY <2>1, <2>2
<1>6. h[0] = a
  BY <1>1, <1>2, <1>4
<1> QED BY <1>2, <1>4, <1>5, <1>6 DEF Adds, t

\* The first element is taken and counted.
LEMMA AddsFirst ==
    ASSUME NEW S, NEW s \in Seq(S), s # << >>, NEW g \in [S -> Nat],
           NEW a, NEW b, Adds(s, g, a, b)
    PROVE  Adds(Tail(s), g, a + g[Head(s)], b)
<1> DEFINE t == Tail(s)
           k == Len(s)
<1>1. PICK f \in [0..k -> Nat] : f[0] = a /\ f[k] = b /\ \A i \in 1..k : f[i] = f[i - 1] + g[s[i]]
  BY DEF Adds
<1>2. /\ k \in Nat /\ k >= 1 /\ Len(t) = k - 1 /\ \A i \in 1..(k - 1) : t[i] = s[i + 1]
      /\ Head(s) = s[1]
  OBVIOUS
<1> HIDE DEF t, k
<1> DEFINE h == [i \in 0..(k - 1) |-> f[i + 1]]
<1>3. h \in [0..(k - 1) -> Nat] /\ \A i \in 0..(k - 1) : h[i] = f[i + 1]
  BY <1>1, <1>2
<1> HIDE DEF h
<1>4. h[k - 1] = b
  BY <1>1, <1>2, <1>3
<1>5. h[0] = a + g[Head(s)]
  BY <1>1, <1>2, <1>3
<1>6. ASSUME NEW i \in 1..(k - 1)
      PROVE  h[i] = h[i - 1] + g[t[i]]
  <2>1. i \in 0..(k - 1) /\ i - 1 \in 0..(k - 1) /\ i + 1 \in 1..k /\ (i - 1) + 1 = (i + 1) - 1
    BY <1>2
  <2> QED BY <1>1, <1>2, <1>3, <2>1
<1> QED BY <1>2, <1>3, <1>4, <1>5, <1>6 DEF Adds, t

\* The rows of a packet, and the blocks of a message.
rowsOf == [p \in Packet |-> IF p.kind = "Data" THEN p.rows ELSE 0]
blocksOf == [m \in Message |-> IF m.kind = "Data" THEN 1 ELSE 0]

\* Both are functions into the natural numbers.
LEMMA WeightsType ==
    rowsOf \in [Packet -> Nat] /\ blocksOf \in [Message -> Nat]
BY DEF rowsOf, blocksOf, Packet

\* The points of a SELECT, and of an INSERT before and after its blocks.
SelectOps == {"select", "s_open", "s_next"}
Headers == {"insert_header", "is_header"}
Responses == {"insert_response", "is_response"}

\* The end of the response is on its way; the server is in one of the phases P.
Ended == \E i \in 1..Len(inbox) : inbox[i].kind = "EndOfStream"
Serves(P) == sock = "open" /\ srv.ph \in P

\* A SELECT: the rows counted and those on their way are the rows sent.
RowsCounted(c) ==
    /\ sock = "open" =>
          \A i \in 1..Len(wire) : IsRequest(wire[i]) => n[c] = 0 /\ wire[i].op = "select"
    /\ Serves(Working) => srv.op = "select"
    /\ Serves(Working) \/ Ended => Adds(inbox, rowsOf, n[c], tally)

\* An INSERT: the blocks stored and those on their way are the blocks sent, the
\* empty block is the last, and the server ends only after it.
BlocksCounted(c) ==
    /\ pc[c] \in Headers => n[c] = 0
    /\ sock = "open" =>
          \A i \in 1..Len(wire) : IsRequest(wire[i]) => i = Len(wire) /\ pc[c] \in Headers
    /\ Serves({"header"}) =>
          /\ wire = << >> /\ tally = 0 /\ pc[c] \in Headers
          /\ \A i \in 1..Len(inbox) : inbox[i].kind # "Data"
    /\ Serves({"receive"}) =>
          /\ Adds(wire, blocksOf, tally, n[c])
          /\ pc[c] \in Headers => wire = << >>
          /\ \A i \in 1..Len(wire) : wire[i].kind = "Empty" => i = Len(wire) /\ pc[c] \in Responses
    /\ Serves({"finish"}) \/ Ended => tally = n[c] /\ pc[c] \in Responses

\* What holds of the caller inside an operation.
Counts(c) ==
    /\ res[c] # "ok"
    /\ pc[c] \in SelectOps => RowsCounted(c)
    /\ pc[c] \in InsertOps => BlocksCounted(c)

\* The invariant: until a caller has been told of an error.
Counted == ~suspect => \A c \in Callers : Active(c) => Counts(c)

\* A socket that dies leaves the end of a response only with all that is before it.
LEMMA EndedWhole ==
    ASSUME TypeOK, NEW c \in Callers, OwnPackets(c), inbox' \in Remains(inbox), Ended'
    PROVE  inbox' = inbox
<1>0. inbox \in Seq(Packet)
  BY DEF TypeOK, ServerTypeOK
<1>1. PICK i \in 1..Len(inbox') : inbox'[i].kind = "EndOfStream"
  BY DEF Ended
<1>2. /\ inbox' \in Seq(Packet) /\ Len(inbox') <= Len(inbox) /\ i \in 1..Len(inbox)
      /\ inbox[i].kind = "EndOfStream"
  <2>1. inbox' \in Seq(Packet) /\ Len(inbox') <= Len(inbox) /\ inbox[i].kind = inbox'[i].kind
    BY <1>0, <1>1, RemainsOf
  <2> QED BY <1>0, <1>1, <2>1
<1>3. i = Len(inbox) /\ i = Len(inbox')
  <2>1. Final(inbox[i].kind)
    BY <1>2 DEF Final, Terminals
  <2>2. i = Len(inbox)
    BY <1>2, <2>1 DEF OwnPackets
  <2> QED BY <1>0, <1>1, <1>2, <2>2
<1>4. CASE inbox' \in {SubSeq(inbox, 1, k) : k \in 0..Len(inbox)}
  <2>1. PICK k \in 0..Len(inbox) : inbox' = SubSeq(inbox, 1, k)
    BY <1>4
  <2>2. Len(SubSeq(inbox, 1, k)) = k
    BY <1>0, <2>1, SubSeqProperties
  <2>3. k = Len(inbox)
    BY <1>3, <2>1, <2>2
  <2>4. SubSeq(inbox, 1, Len(inbox)) = inbox
    BY <1>0
  <2> QED BY <2>1, <2>3, <2>4
<1>5. CASE inbox' \notin {SubSeq(inbox, 1, k) : k \in 0..Len(inbox)}
  <2>1. PICK k \in {j \in 1..Len(inbox) : inbox[j].kind \notin {"EndOfStream", "Pong"}} :
            inbox' = Append(SubSeq(inbox, 1, k - 1), [inbox[k] EXCEPT !.kind = "Cut"])
    BY <1>5 DEF Remains
  <2> DEFINE u == SubSeq(inbox, 1, k - 1)
             e == [inbox[k] EXCEPT !.kind = "Cut"]
  <2>2. k - 1 \in 0..Len(inbox) /\ inbox[k] \in Packet
    BY <1>0, <2>1
  <2>3. e \in Packet /\ e.kind = "Cut"
    BY <2>2 DEF Packet, Kinds
  <2>4. u \in Seq(Packet)
    BY <1>0, <2>2, SubSeqProperties
  <2>5. inbox' = Append(u, e)
    BY <2>1
  <2> HIDE DEF u, e
  <2>6. inbox'[Len(inbox')] = e
    BY <2>3, <2>4, <2>5
  <2> QED BY <1>1, <1>3, <2>3, <2>6
<1> QED BY <1>4, <1>5

\* The wire after a message was read, and a request that is still on it.
LEMMA WireTail ==
    ASSUME TypeOK, wire # << >>
    PROVE  /\ Head(wire) = wire[1] /\ Head(wire) \in Message /\ Len(wire) \in Nat /\ 1 \in 1..Len(wire)
           /\ Len(Tail(wire)) = Len(wire) - 1
           /\ \A i \in 1..Len(Tail(wire)) : i + 1 \in 1..Len(wire) /\ Tail(wire)[i] = wire[i + 1]
           /\ \A i \in 1..Len(Tail(wire)) : i + 1 = Len(wire) => i = Len(Tail(wire))
           /\ Len(wire) = 1 => Tail(wire) = << >>
<1>1. wire \in Seq(Message)
  BY DEF TypeOK, ServerTypeOK
<1>2. /\ Head(wire) = wire[1] /\ Head(wire) \in Message /\ Len(wire) \in Nat /\ 1 \in 1..Len(wire)
      /\ Len(Tail(wire)) = Len(wire) - 1
  BY <1>1
<1>3. \A i \in 1..Len(Tail(wire)) : i + 1 \in 1..Len(wire) /\ Tail(wire)[i] = wire[i + 1]
  BY <1>1
<1>a. PICK t : t = Tail(wire)
  OBVIOUS
<1>4. ASSUME NEW i \in 1..Len(t), i + 1 = Len(wire)
      PROVE  i = Len(t)
  <2>1. Len(t) = Len(wire) - 1 /\ Len(wire) \in Nat
    BY <1>2, <1>a
  <2> QED BY ONLY <1>4, <2>1
<1>5. ASSUME Len(wire) = 1
      PROVE  t = << >>
  <2>1. t \in Seq(Message) /\ Len(t) = 0
    BY <1>1, <1>2, <1>5, <1>a
  <2> QED BY ONLY <2>1, EmptySeq
<1>6. t = Tail(wire)
  BY <1>a
<1> QED BY <1>2, <1>3, <1>4, <1>5, <1>6

\* A step of the server that reads nothing but, perhaps, a message of no account
\* in its phase, and sends nothing.
LEMMA ServerStands ==
    ASSUME TypeOK, NEW c \in Callers, Counts(c), ServerNext, UNCHANGED <<connVars, callVars>>,
           UNCHANGED <<sock, inbox, tally>>, srv'.op = srv.op,
           wire' = wire \/ (wire # << >> /\ wire' = Tail(wire)),
           srv'.ph \notin Working \/ (srv'.ph = srv.ph /\ (srv.ph = "receive" => wire' = wire))
    PROVE  Counts(c)'
<1>0. UNCHANGED <<pc, n, res>> /\ (Ended' <=> Ended)
  BY DEF callVars, Ended
<1>1. ASSUME NEW P, P \subseteq Working, Serves(P)'
      PROVE  Serves(P) /\ srv'.ph = srv.ph
  BY <1>1 DEF Serves
<1>2. \A i \in 1..Len(wire') :
        \/ wire' = wire
        \/ i + 1 \in 1..Len(wire) /\ wire'[i] = wire[i + 1] /\ (i + 1 = Len(wire) => i = Len(wire'))
  BY WireTail
<1>3. wire = << >> => wire' = << >>
  OBVIOUS
<1>4. ASSUME pc[c] \in SelectOps PROVE RowsCounted(c)'
  <2>1. RowsCounted(c)
    BY <1>4 DEF Counts
  <2>2. sock' = "open" => \A i \in 1..Len(wire') : IsRequest(wire'[i]) => n[c] = 0 /\ wire'[i].op = "select"
    BY <1>2, <2>1 DEF RowsCounted
  <2>3. Serves(Working)' => Serves(Working)
    BY <1>1
  <2> QED BY <1>0, <2>1, <2>2, <2>3 DEF RowsCounted, IsRequest
<1>5. ASSUME pc[c] \in InsertOps PROVE BlocksCounted(c)'
  <2>1. BlocksCounted(c)
    BY <1>5 DEF Counts
  <2>2. sock' = "open" => \A i \in 1..Len(wire') : IsRequest(wire'[i]) => i = Len(wire') /\ pc[c] \in Headers
    BY <1>2, <2>1 DEF BlocksCounted
  <2>3. Serves({"header"})' => Serves({"header"})
    BY <1>1 DEF Working
  <2>4. Serves({"receive"})' => Serves({"receive"}) /\ wire' = wire
    <3>1. Serves({"receive"})' => Serves({"receive"}) /\ srv'.ph = srv.ph
      BY <1>1 DEF Working
    <3> QED BY <3>1 DEF Serves, Working
  <2>5. Serves({"finish"})' => Serves({"finish"})
    BY <1>1 DEF Working
  <2> QED BY <1>0, <1>3, <2>1, <2>2, <2>3, <2>4, <2>5 DEF BlocksCounted, IsRequest
<1> QED BY <1>0, <1>4, <1>5 DEF Counts

\* A step of the server that sends a packet which is neither the end of the
\* response nor a block of an INSERT.
LEMMA ServerAdds ==
    ASSUME TypeOK, NEW c \in Callers, Responds(c), Counts(c), ServerNext,
           UNCHANGED <<connVars, callVars>>, UNCHANGED <<sock, wire>>,
           sock = "open", srv.ph \in Working, srv'.op = srv.op,
           NEW p \in Packet, inbox' = Append(inbox, p), p.kind # "EndOfStream",
           srv'.ph \in Working => /\ srv'.ph = srv.ph
                                  /\ pc[c] \in SelectOps => tally' = tally + rowsOf[p]
                                  /\ pc[c] \in InsertOps => tally' = tally /\ p.kind # "Data"
    PROVE  Counts(c)'
<1>0. UNCHANGED <<pc, n, res>> /\ inbox \in Seq(Packet)
  BY DEF callVars, TypeOK, ServerTypeOK
<1>1. WorksFor(c)
  BY DEF Responds
<1>2. ~Ended'
  <2>1. ASSUME NEW i \in 1..Len(inbox') PROVE inbox'[i].kind # "EndOfStream"
    <3>1. \/ i \in 1..Len(inbox) /\ inbox'[i] = inbox[i]
          \/ inbox'[i] = p
      BY <1>0
    <3> QED BY <1>1, <3>1 DEF WorksFor, Final, Terminals
  <2> QED BY <2>1 DEF Ended
<1>3. ASSUME NEW P, P \subseteq Working, Serves(P)'
      PROVE  Serves(P) /\ srv'.ph = srv.ph
  BY <1>3 DEF Serves
<1>4. ASSUME pc[c] \in SelectOps PROVE RowsCounted(c)'
  <2>1. RowsCounted(c)
    BY <1>4 DEF Counts
  <2>2. ASSUME Serves(Working)' PROVE Adds(inbox', rowsOf, n[c], tally')
    <3>1. Adds(inbox, rowsOf, n[c], tally) /\ tally' = tally + rowsOf[p]
      BY <1>3, <1>4, <2>1, <2>2 DEF RowsCounted, Serves
    <3> QED BY <1>0, <3>1, AddsLast, WeightsType
  <2>3. Serves(Working)' => srv'.op = "select"
    BY <1>3, <2>1 DEF RowsCounted
  <2> QED BY <1>0, <1>2, <2>1, <2>2, <2>3 DEF RowsCounted, IsRequest
<1>5. ASSUME pc[c] \in InsertOps PROVE BlocksCounted(c)'
  <2>1. BlocksCounted(c)
    BY <1>5 DEF Counts
  <2>2. ASSUME Serves({"header"})'
        PROVE  /\ wire' = << >> /\ tally' = 0 /\ pc[c] \in Headers
               /\ \A i \in 1..Len(inbox') : inbox'[i].kind # "Data"
    <3>1. Serves({"header"}) /\ tally' = tally /\ p.kind # "Data"
      BY <1>3, <1>5, <2>2 DEF Working, Serves
    <3>2. \A i \in 1..Len(inbox') : (i \in 1..Len(inbox) /\ inbox'[i] = inbox[i]) \/ inbox'[i] = p
      BY <1>0
    <3> QED BY <2>1, <3>1, <3>2 DEF BlocksCounted
  <2>3. Serves({"receive"})' => Serves({"receive"}) /\ tally' = tally
    <3>1. Serves({"receive"})' => Serves({"receive"})
      BY <1>3 DEF Working
    <3> QED BY <1>5, <3>1 DEF Serves, Working
  <2>4. Serves({"finish"})' => Serves({"finish"}) /\ tally' = tally
    <3>1. Serves({"finish"})' => Serves({"finish"})
      BY <1>3 DEF Working
    <3> QED BY <1>5, <3>1 DEF Serves, Working
  <2> QED BY <1>0, <1>2, <2>1, <2>2, <2>3, <2>4 DEF BlocksCounted, IsRequest
<1> QED BY <1>0, <1>4, <1>5 DEF Counts

\* The server takes up the request.
LEMMA StartCounts ==
    ASSUME TypeOK, NEW c \in Callers, Responds(c), Counts(c), sock = "open", wire # << >>,
           UNCHANGED <<connVars, callVars>>, ServerStarts(Head(wire))
    PROVE  Counts(c)'
<1> DEFINE m == Head(wire)
<1>0. /\ UNCHANGED <<pc, n, res>> /\ m = wire[1] /\ 1 \in 1..Len(wire)
      /\ sock' = sock /\ wire' = Tail(wire) /\ inbox' = inbox /\ tally' = 0
      /\ m.kind = "Query" /\ srv'.op = m.op
      /\ srv'.ph = IF m.op = "insert" THEN "header" ELSE "run"
  <2>1. /\ UNCHANGED <<pc, n, res>> /\ sock' = sock /\ wire' = Tail(wire) /\ inbox' = inbox
        /\ tally' = 0 /\ m.kind = "Query"
    BY DEF callVars, ServerStarts
  <2>2. m = wire[1] /\ 1 \in 1..Len(wire)
    BY WireTail
  <2>3. PICK s \in Schemas :
           srv' = [ph |-> IF m.op = "insert" THEN "header" ELSE "run",
                   q |-> m.q, op |-> m.op, left |-> MaxPackets, layout |-> s]
    BY DEF ServerStarts
  <2> HIDE DEF m
  <2>4. srv'.op = m.op /\ srv'.ph = IF m.op = "insert" THEN "header" ELSE "run"
    BY <2>3
  <2> QED BY <2>1, <2>2, <2>4
<1>1. IsRequest(m)
  BY <1>0 DEF IsRequest
<1>2. inbox = << >> /\ Asks(c, m)
  BY <1>0, <1>1 DEF Responds, OneRequest
<1>3. \A i \in 1..Len(wire') : ~IsRequest(wire'[i])
  <2>1. ASSUME NEW i \in 1..Len(wire'), IsRequest(wire'[i]) PROVE FALSE
    <3>1. i \in 1..Len(Tail(wire)) /\ wire'[i] = Tail(wire)[i]
      BY <1>0, <2>1
    <3>2. i + 1 \in 1..Len(wire) /\ Tail(wire)[i] = wire[i + 1]
      BY <3>1, WireTail
    <3>3. IsRequest(wire[i + 1]) /\ i + 1 # 1
      BY <2>1, <3>1, <3>2
    <3> QED BY <1>0, <1>1, <3>2, <3>3 DEF Responds, OneRequest
  <2> QED BY <2>1
<1>4. inbox' = << >> /\ Len(inbox') = 0 /\ ~Ended'
  BY <1>0, <1>2 DEF Ended
<1> HIDE DEF m
<1>5. ASSUME pc[c] \in SelectOps PROVE RowsCounted(c)'
  <2>1. n[c] = 0 /\ m.op = "select"
    BY <1>0, <1>1, <1>5 DEF Counts, RowsCounted
  <2>2. Adds(inbox', rowsOf, n[c], tally')
    BY <1>0, <1>4, <2>1, AddsNothing
  <2> QED BY <1>0, <1>3, <2>1, <2>2 DEF RowsCounted, IsRequest
<1>6. ASSUME pc[c] \in InsertOps PROVE BlocksCounted(c)'
  <2>1. Len(wire) = 1 /\ pc[c] \in Headers /\ n[c] = 0
    BY <1>0, <1>1, <1>6 DEF Counts, BlocksCounted
  <2>2. wire' = << >>
    BY <1>0, <2>1, WireTail
  <2>3. srv'.ph = "header"
    BY <1>0, <1>2, <1>6 DEF Asks
  <2> QED BY <1>0, <1>3, <1>4, <2>1, <2>2, <2>3 DEF BlocksCounted, Serves, IsRequest
<1> QED BY <1>0, <1>5, <1>6 DEF Counts

\* The server stores a block, or has the empty one.
LEMMA StoreCounts ==
    ASSUME TypeOK, NEW c \in Callers, Responds(c), Counts(c), sock = "open", wire # << >>,
           UNCHANGED <<connVars, callVars>>, ServerStores(Head(wire))
    PROVE  Counts(c)'
<1> DEFINE m == Head(wire)
<1>0. /\ UNCHANGED <<pc, n, res>> /\ m = wire[1] /\ 1 \in 1..Len(wire) /\ m \in Message
      /\ sock' = sock /\ wire' = Tail(wire) /\ inbox' = inbox
      /\ wire \in Seq(Message) /\ srv \in Session /\ srv.ph = "receive"
      /\ (Ended' <=> Ended)
  BY WireTail DEF callVars, ServerStores, TypeOK, ServerTypeOK, Ended
<1>1. WorksFor(c) /\ ~Ended /\ pc[c] \in InsertOps
  <2>1. WorksFor(c)
    BY <1>0 DEF Responds, Working
  <2> QED BY <1>0, <2>1 DEF WorksFor, Ended, Final, Terminals
<1>2. BlocksCounted(c) /\ res[c] # "ok" /\ Serves({"receive"})
  BY <1>0, <1>1 DEF Counts, Serves
<1>3. Adds(Tail(wire), blocksOf, tally + blocksOf[m], n[c])
  BY <1>0, <1>2, AddsFirst, WeightsType DEF BlocksCounted
<1>4. \A i \in 1..Len(wire') : i + 1 \in 1..Len(wire) /\ wire'[i] = wire[i + 1]
                               /\ (i + 1 = Len(wire) => i = Len(wire'))
  BY <1>0, WireTail
<1>5. \A i \in 1..Len(wire') : IsRequest(wire'[i]) => i = Len(wire') /\ pc[c] \in Headers
  BY <1>0, <1>2, <1>4 DEF BlocksCounted
<1>6. pc[c] \in SelectOps => FALSE
  BY <1>1 DEF SelectOps, InsertOps
<1> HIDE DEF m
<1>7. CASE m.kind = "Data" /\ tally' = tally + 1 /\ srv' = srv
  <2>1. blocksOf[m] = 1
    BY <1>0, <1>7 DEF blocksOf
  <2>2. Adds(wire', blocksOf, tally', n[c])
    BY <1>0, <1>3, <1>7, <2>1
  <2>3. pc[c] \notin Headers
    BY <1>0, <1>2 DEF BlocksCounted
  <2>4. \A i \in 1..Len(wire') : wire'[i].kind = "Empty" => i = Len(wire') /\ pc[c] \in Responses
    BY <1>2, <1>4 DEF BlocksCounted
  <2> QED BY <1>0, <1>1, <1>2, <1>5, <1>6, <1>7, <2>2, <2>3, <2>4
          DEF Counts, BlocksCounted, Serves, IsRequest
<1>8. CASE m.kind = "Empty" /\ tally' = tally /\ srv' = [srv EXCEPT !.ph = "finish"]
  <2>1. blocksOf[m] = 0 /\ srv'.ph = "finish" /\ tally \in Nat
    BY <1>0, <1>8 DEF blocksOf, Session, TypeOK, ServerTypeOK
  <2>2. Len(wire) = 1 /\ pc[c] \in Responses
    BY <1>0, <1>2, <1>8 DEF BlocksCounted
  <2>3. Tail(wire) = << >>
    BY <2>2, WireTail
  <2>4. tally = n[c]
    <3>1. Adds(<< >>, blocksOf, tally, n[c])
      <4>1. tally + blocksOf[m] = tally
        BY <2>1
      <4> QED BY <1>3, <2>3, <4>1
    <3> QED BY <2>1, <3>1, AddsNothing
  <2>5. pc[c] \notin Headers
    BY <2>2 DEF Responses, Headers
  <2> QED BY <1>0, <1>1, <1>2, <1>5, <1>6, <1>8, <2>1, <2>2, <2>4, <2>5
          DEF Counts, BlocksCounted, Serves, IsRequest
<1> QED BY <1>7, <1>8 DEF ServerStores, m

\* The socket dies.
LEMMA BreakCounts ==
    ASSUME TypeOK, NEW c \in Callers, OwnPackets(c), Counts(c),
           UNCHANGED <<pc, n, res, tally>>, sock' # "open",
           inbox' = inbox \/ inbox' \in Remains(inbox)
    PROVE  Counts(c)'
<1>1. ASSUME Ended' PROVE Ended /\ inbox' = inbox
  BY <1>1, EndedWhole DEF Ended
<1>2. pc[c] \in SelectOps => RowsCounted(c)'
  BY <1>1 DEF Counts, RowsCounted, Serves
<1>3. pc[c] \in InsertOps => BlocksCounted(c)'
  BY <1>1 DEF Counts, BlocksCounted, Serves
<1> QED BY <1>2, <1>3 DEF Counts

\* The header of an INSERT, and the end of a response.
LEMMA HeaderCounts ==
    ASSUME TypeOK, NEW c \in Callers, Responds(c), Counts(c),
           UNCHANGED <<connVars, callVars>>, ServerSendsHeader
    PROVE  Counts(c)'
<1>0. /\ UNCHANGED <<pc, n, res, sock, wire, tally>> /\ sock = "open" /\ srv.ph = "header"
      /\ inbox' = Append(inbox, Pack("Data", 0, srv.layout)) /\ Pack("Data", 0, srv.layout) \in Packet
      /\ srv'.ph = "receive" /\ inbox \in Seq(Packet)
  BY PackType DEF callVars, ServerSendsHeader, Send, TypeOK, ServerTypeOK, Session, Kinds, Blocks
<1>1. WorksFor(c)
  BY <1>0 DEF Responds, Working
<1>2. pc[c] \in InsertOps /\ pc[c] \notin SelectOps
  BY <1>0, <1>1 DEF WorksFor, InsertOps, SelectOps
<1>3. BlocksCounted(c) /\ res[c] # "ok" /\ Serves({"header"})
  BY <1>0, <1>2 DEF Counts, Serves
<1>4. wire = << >> /\ tally = 0 /\ n[c] = 0
  BY <1>3 DEF BlocksCounted
<1>5. Adds(wire', blocksOf, tally', n[c])
  BY <1>0, <1>4, AddsNothing
<1>6. ~Ended'
  <2> DEFINE p == Pack("Data", 0, srv.layout)
  <2>1. p.kind = "Data"
    BY DEF Pack
  <2>2. inbox' = Append(inbox, p) /\ p \in Packet
    BY <1>0
  <2> HIDE DEF p
  <2>3. ASSUME NEW i \in 1..Len(inbox') PROVE inbox'[i].kind # "EndOfStream"
    <3>1. (i \in 1..Len(inbox) /\ inbox'[i] = inbox[i]) \/ inbox'[i] = p
      BY <1>0, <2>2
    <3> QED BY <1>1, <2>1, <3>1 DEF WorksFor, Final, Terminals
  <2> QED BY <2>3 DEF Ended
<1>7. wire' = << >> /\ Len(wire') = 0
  BY <1>0, <1>4
<1> QED BY <1>0, <1>2, <1>3, <1>4, <1>5, <1>6, <1>7 DEF Counts, BlocksCounted, Serves

\* The server ends a response: an INSERT's only after its empty block.
LEMMA EndCounts ==
    ASSUME TypeOK, NEW c \in Callers, Responds(c), Counts(c),
           UNCHANGED <<connVars, callVars>>, ServerEnds
    PROVE  Counts(c)'
<1>a. srv \in Session /\ inbox \in Seq(Packet)
  BY DEF TypeOK, ServerTypeOK
<1> DEFINE p == Pack("EndOfStream", 0, "none")
<1>b. p \in Packet /\ p.kind = "EndOfStream"
  <2>1. p \in Packet
    BY PackType DEF TypeOK, Kinds, Terminals, Layouts
  <2> QED BY <2>1 DEF Pack
<1>0. /\ UNCHANGED <<pc, n, res, sock, wire, tally>> /\ sock = "open" /\ srv.ph \in {"run", "finish"}
      /\ inbox' = Append(inbox, p) /\ srv'.ph = "idle"
  BY <1>a DEF callVars, ServerEnds, Send, Session
<1> HIDE DEF p
<1>1. WorksFor(c) /\ srv.ph \in Working
  BY <1>0 DEF Responds, Working
<1>2. srv.ph = "run" <=> pc[c] \notin InsertOps
  BY <1>1 DEF WorksFor
<1>3. ~Serves(Working)' /\ ~Serves({"header"})' /\ ~Serves({"receive"})' /\ ~Serves({"finish"})'
  BY <1>0 DEF Serves, Working
<1>4. ASSUME pc[c] \in SelectOps PROVE RowsCounted(c)'
  <2>1. RowsCounted(c) /\ Serves(Working)
    BY <1>0, <1>1, <1>4 DEF Counts, Serves
  <2>2. rowsOf[p] = 0 /\ tally \in Nat
    BY <1>b DEF rowsOf, TypeOK, ServerTypeOK
  <2>3. Adds(inbox', rowsOf, n[c], tally + rowsOf[p])
    BY <1>0, <1>a, <1>b, <2>1, AddsLast, WeightsType DEF RowsCounted
  <2>4. Adds(inbox', rowsOf, n[c], tally')
    BY <1>0, <2>2, <2>3
  <2> QED BY <1>0, <1>3, <2>1, <2>4 DEF RowsCounted, IsRequest
<1>5. ASSUME pc[c] \in InsertOps PROVE BlocksCounted(c)'
  <2>1. BlocksCounted(c) /\ Serves({"finish"})
    BY <1>0, <1>2, <1>5 DEF Counts, Serves
  <2>2. pc[c] \notin Headers /\ tally = n[c] /\ pc[c] \in Responses
    BY <2>1 DEF BlocksCounted, Headers, Responses
  <2> QED BY <1>0, <1>3, <2>1, <2>2 DEF BlocksCounted, IsRequest
<1> QED BY <1>0, <1>4, <1>5 DEF Counts

\* Every step of the server and the network keeps the counts.
LEMMA ServerCounts ==
    ASSUME TypeOK, NEW c \in Callers, Active(c), Responds(c), Counts(c), ServerNext,
           UNCHANGED <<connVars, callVars>>
    PROVE  Counts(c)'
<1> DEFINE m == Head(wire)
<1>0. /\ srv \in Session /\ wire \in Seq(Message) /\ inbox \in Seq(Packet) /\ tally \in Nat
      /\ UNCHANGED <<pc, n, res>>
      /\ Chatter \subseteq Kinds \ {"Data", "EndOfStream"}
      /\ {"Data", "Exception"} \subseteq Kinds
      /\ "none" \in Layouts /\ "empty" \in Layouts /\ srv.layout \in Layouts
  BY ServerAssumption
     DEF TypeOK, ServerTypeOK, Session, Kinds, Blocks, Infos, Terminals, Layouts, callVars
<1>a. \A s \in Session : /\ \A x : [s EXCEPT !.ph = x].ph = x /\ [s EXCEPT !.ph = x].op = s.op
                         /\ \A y : [s EXCEPT !.left = y].ph = s.ph /\ [s EXCEPT !.left = y].op = s.op
  BY DEF Session
<1>b. sock = "open" => srv.ph \in Rest \cup Working
  BY DEF Responds
<1>c. ASSUME sock = "open", srv.ph \in Working
      PROVE  (srv.ph # "run" <=> pc[c] \in InsertOps) /\ (pc[c] \in SelectOps => srv.op = "select")
  BY <1>c DEF Responds, WorksFor, Counts, RowsCounted, Serves
<1>d. pc[c] \in SelectOps => pc[c] \notin InsertOps
  BY DEF SelectOps, InsertOps
<1>1. CASE ServerReads
  <2>0. sock = "open" /\ wire # << >>
    BY <1>1 DEF ServerReads
  <2>1. CASE ServerGreets(m)
    BY <1>b, <2>0, <2>1 DEF ServerGreets, Rest, Working
  <2>2. CASE ServerReady(m) \/ ServerDiscards(m)
    <3>1. UNCHANGED <<sock, inbox, tally>> /\ wire' = Tail(wire)
      BY <2>2 DEF ServerReady, ServerDiscards
    <3>2. (srv' = srv /\ srv.ph = "discard") \/ srv' = [srv EXCEPT !.ph = "idle"]
      BY <2>2, Zenon DEF ServerReady, ServerDiscards
    <3>3. CASE srv' = srv /\ srv.ph = "discard"
      BY <2>0, <3>1, <3>3, ServerStands DEF Working
    <3>4. CASE srv' = [srv EXCEPT !.ph = "idle"]
      <4>1. srv'.op = srv.op /\ srv'.ph = "idle"
        BY <1>0, <1>a, <3>4
      <4> QED BY <2>0, <3>1, <4>1, ServerStands DEF Working
    <3> QED BY <3>2, <3>3, <3>4
  <2>3. CASE ServerStarts(m)
    BY <2>0, <2>3, StartCounts
  <2>4. CASE ServerPongs(m)
    <3> DEFINE p == [Pack("Pong", 0, "none") EXCEPT !.q = m.q]
    <3>1. /\ srv.ph = "idle" /\ srv' = srv /\ sock' = sock /\ tally' = tally
          /\ wire' = Tail(wire) /\ inbox' = Append(inbox, p) /\ m.kind = "Ping"
      BY <2>4 DEF ServerPongs, Send
    <3>2. p \in Packet /\ p.kind = "Pong"
      <4>1. Pack("Pong", 0, "none") \in Packet /\ Pack("Pong", 0, "none").kind = "Pong"
        <5>1. Pack("Pong", 0, "none") \in Packet
          BY PackType DEF TypeOK, Kinds, Terminals, Layouts
        <5> QED BY <5>1 DEF Pack
      <4>2. m.q \in Nat
        <5>1. m \in Message
          BY <1>0, <2>0
        <5> QED BY <5>1 DEF Message
      <4> QED BY <4>1, <4>2 DEF Packet
    <3> HIDE DEF p
    <3>3. inbox = << >>
      <4>1. 1 \in 1..Len(wire) /\ IsRequest(wire[1])
        BY <2>0, <3>1, WireTail DEF IsRequest
      <4> QED BY <2>0, <4>1 DEF Responds, OneRequest
    <3>4. ~Ended'
      <4>1. Len(inbox') = 1 /\ inbox'[1] = p
        BY <3>1, <3>2, <3>3
      <4> QED BY <3>2, <4>1 DEF Ended
    <3>5. ~Serves(Working)' /\ ~Serves({"header"})' /\ ~Serves({"receive"})' /\ ~Serves({"finish"})'
      BY <3>1 DEF Serves, Working
    <3>6. \A i \in 1..Len(wire') : i + 1 \in 1..Len(wire) /\ wire'[i] = wire[i + 1]
                                   /\ (i + 1 = Len(wire) => i = Len(wire'))
      BY <2>0, <3>1, WireTail
    <3>7. pc[c] \in SelectOps => RowsCounted(c)'
      BY <1>0, <2>0, <3>4, <3>5, <3>6 DEF Counts, RowsCounted, IsRequest
    <3>8. pc[c] \in InsertOps => BlocksCounted(c)'
      BY <1>0, <2>0, <3>4, <3>5, <3>6 DEF Counts, BlocksCounted, IsRequest
    <3> QED BY <1>0, <3>7, <3>8 DEF Counts
  <2>5. CASE ServerCancels(m)
    <3>1. UNCHANGED <<sock, inbox, tally>> /\ wire' = Tail(wire)
          /\ srv' = [srv EXCEPT !.left = 0] /\ srv.ph # "receive"
      BY <2>5 DEF ServerCancels
    <3>2. srv'.op = srv.op /\ srv'.ph = srv.ph
      BY <1>0, <1>a, <3>1
    <3> QED BY <2>0, <3>1, <3>2, ServerStands
  <2>6. CASE ServerStores(m)
    BY <2>0, <2>6, StoreCounts
  <2>7. CASE ServerGivesUp(m)
    BY <1>0, <2>7, BreakCounts DEF ServerGivesUp, Reset, Responds
  <2> QED BY <1>1, <2>1, <2>2, <2>3, <2>4, <2>5, <2>6, <2>7 DEF ServerReads
<1>2. CASE ServerChatters
  <2>1. PICK k \in Optional : Send(Pack(k, 0, LayoutOf(k)))
    BY <1>2 DEF ServerChatters
  <2>2. k \in Chatter /\ srv.ph \in Working
    BY <2>1 DEF Optional, Working
  <2> DEFINE p == Pack(k, 0, LayoutOf(k))
  <2>3. p \in Packet /\ p.kind = k /\ k # "Data" /\ k # "EndOfStream"
    <3>1. LayoutOf(k) \in Layouts
      BY LayoutOfType DEF TypeOK
    <3>2. p \in Packet
      BY <1>0, <2>2, <3>1, PackType DEF TypeOK
    <3> QED BY <1>0, <2>2, <3>2 DEF Pack
  <2>4. inbox' = Append(inbox, p)
    BY <2>1 DEF Send
  <2>5. sock = "open" /\ UNCHANGED <<sock, wire, tally>> /\ srv'.ph = srv.ph /\ srv'.op = srv.op
    BY <1>0, <1>a, <1>2 DEF ServerChatters
  <2> HIDE DEF p
  <2>6. rowsOf[p] = 0
    BY <2>3 DEF rowsOf
  <2>7. tally' = tally + rowsOf[p]
    BY <1>0, <2>5, <2>6
  <2> QED BY <2>2, <2>3, <2>4, <2>5, <2>7, ServerAdds
<1>3. CASE ServerSendsData
  <2>1. PICK r \in 0..MaxRows, s \in {srv.layout, "empty"} :
          Send(Pack("Data", r, s)) /\ tally' = IF srv.op = "select" THEN tally + r ELSE tally
    BY <1>3 DEF ServerSendsData
  <2> DEFINE p == Pack("Data", r, s)
  <2>2. p \in Packet /\ p.kind = "Data" /\ p.rows = r
    <3>1. p \in Packet
      BY <1>0, <2>1, PackType, ServerAssumption DEF TypeOK
    <3> QED BY <3>1 DEF Pack
  <2>3. inbox' = Append(inbox, p)
    BY <2>1 DEF Send
  <2>4. /\ sock = "open" /\ UNCHANGED <<sock, wire>> /\ srv.ph = "run"
        /\ srv'.ph = srv.ph /\ srv'.op = srv.op
    BY <1>0, <1>a, <1>3 DEF ServerSendsData
  <2> HIDE DEF p
  <2>5. rowsOf[p] = r /\ srv.ph \in Working
    BY <2>2, <2>4 DEF rowsOf, Working
  <2>6. pc[c] \notin InsertOps /\ (pc[c] \in SelectOps => tally' = tally + rowsOf[p])
    BY <1>c, <2>1, <2>4, <2>5
  <2> QED BY <2>2, <2>3, <2>4, <2>5, <2>6, ServerAdds
<1>4. CASE ServerSendsHeader
  BY <1>4, HeaderCounts
<1>5. CASE ServerEnds
  BY <1>5, EndCounts
<1>6. CASE ServerThrows
  <2> DEFINE p == Pack("Exception", 0, "none")
  <2>1. p \in Packet /\ p.kind = "Exception"
    <3>1. p \in Packet
      BY <1>0, PackType DEF TypeOK
    <3> QED BY <3>1 DEF Pack
  <2>2. /\ sock = "open" /\ UNCHANGED <<sock, wire, tally>> /\ srv.ph \in Working
        /\ inbox' = Append(inbox, p)
        /\ \E x \in {"discard", "idle"} : srv' = [srv EXCEPT !.ph = x]
    BY <1>6 DEF ServerThrows, Send, Working
  <2>3. srv'.ph \notin Working /\ srv'.op = srv.op
    BY <1>0, <1>a, <2>2 DEF Working
  <2> HIDE DEF p
  <2> QED BY <2>1, <2>2, <2>3, ServerAdds
<1>7. CASE NetworkFails
  BY <1>0, <1>7, BreakCounts DEF NetworkFails, Reset, Responds
<1>8. CASE ServerHangs
  <2>1. UNCHANGED <<sock, inbox, tally, wire>> /\ srv' = [srv EXCEPT !.ph = "hung"]
    BY <1>8 DEF ServerHangs
  <2>2. srv'.op = srv.op /\ srv'.ph \notin Working
    BY <1>0, <1>a, <2>1 DEF Working
  <2> QED BY <2>1, <2>2, ServerStands
<1> QED BY <1>1, <1>2, <1>3, <1>4, <1>5, <1>6, <1>7, <1>8 DEF ServerNext, ServerSteps

-----------------------------------------------------------------------------
(* The callers keep the counts. *)

\* Reading a packet of the response, of r rows for a SELECT.
LEMMA ReadCounts ==
    ASSUME TypeOK, NEW c \in Callers, Responds(c), Counts(c),
           UNCHANGED <<sock, srv, wire, tally, pc, res>>, inbox # << >>, inbox' = Tail(inbox),
           pc[c] \in SelectOps => n'[c] = n[c] + rowsOf[Head(inbox)],
           pc[c] \in InsertOps => n'[c] = n[c]
    PROVE  Counts(c)'
<1>0. inbox \in Seq(Packet)
  BY DEF TypeOK, ServerTypeOK
<1>1. \A i \in 1..Len(inbox') : i + 1 \in 1..Len(inbox) /\ inbox'[i] = inbox[i + 1]
  BY <1>0
<1>2. Ended' => Ended
  BY <1>1 DEF Ended
<1>3. sock = "open" => \A i \in 1..Len(wire') : ~IsRequest(wire'[i])
  BY DEF Responds, OneRequest
<1>4. \A P : Serves(P)' <=> Serves(P)
  BY DEF Serves
<1>5. ASSUME pc[c] \in SelectOps PROVE RowsCounted(c)'
  <2>1. RowsCounted(c)
    BY <1>5 DEF Counts
  <2>2. Adds(inbox, rowsOf, n[c], tally) => Adds(inbox', rowsOf, n'[c], tally')
    BY <1>0, <1>5, AddsFirst, WeightsType
  <2> QED BY <1>2, <1>3, <1>4, <2>1, <2>2 DEF RowsCounted, IsRequest
<1>6. ASSUME pc[c] \in InsertOps PROVE BlocksCounted(c)'
  <2>1. BlocksCounted(c)
    BY <1>6 DEF Counts
  <2>2. (\A i \in 1..Len(inbox) : inbox[i].kind # "Data")
            => \A i \in 1..Len(inbox') : inbox'[i].kind # "Data"
    BY <1>1
  <2> QED BY <1>2, <1>3, <1>4, <1>6, <2>1, <2>2 DEF BlocksCounted, IsRequest
<1> QED BY <1>5, <1>6 DEF Counts

\* A call or a look at the context that reads and sends nothing.
LEMMA PlainCounts ==
    ASSUME NEW c \in Callers, Counts(c),
           UNCHANGED <<sock, srv, wire, tally, inbox, res, n>>,
           pc' = pc \/ (pc[c] \in SelectOps /\ pc'[c] \in SelectOps)
    PROVE  Counts(c)'
<1>1. (Ended' <=> Ended) /\ \A P : Serves(P)' <=> Serves(P)
  BY DEF Ended, Serves
<1>2. /\ pc'[c] \in SelectOps => pc[c] \in SelectOps
      /\ pc'[c] \in InsertOps => pc'[c] = pc[c]
  BY DEF SelectOps, InsertOps
<1>3. pc'[c] \in SelectOps => RowsCounted(c)'
  BY <1>1, <1>2 DEF Counts, RowsCounted, IsRequest
<1>4. pc'[c] \in InsertOps => BlocksCounted(c)'
  BY <1>1, <1>2 DEF Counts, BlocksCounted, IsRequest
<1> QED BY <1>3, <1>4 DEF Counts

\* The blocks of an INSERT are counted on both sides.
LEMMA WriteCounts ==
    ASSUME TypeOK, NEW c \in Callers, BlocksCounted(c), pc[c] = "is_open",
           UNCHANGED <<sock, srv, tally, inbox>>,
           NEW m \in Message, Flush(<<m>>), ~IsRequest(m), n'[c] = n[c] + blocksOf[m],
           \/ m.kind = "Data" /\ pc'[c] = "is_open"
           \/ m.kind = "Empty" /\ pc'[c] = "is_response"
    PROVE  BlocksCounted(c)'
<1>0. wire \in Seq(Message) /\ wire' = IF sock = "open" THEN wire \o <<m>> ELSE wire
  BY DEF TypeOK, ServerTypeOK, Flush
<1>1. pc[c] \notin Headers /\ pc'[c] \notin Headers /\ pc[c] \notin Responses
  BY DEF Headers, Responses
<1>2. ~Ended' /\ ~Serves({"header"})' /\ ~Serves({"finish"})'
  <2>1. ~Ended /\ ~Serves({"header"}) /\ ~Serves({"finish"})
    BY <1>1 DEF BlocksCounted
  <2> QED BY <2>1 DEF Ended, Serves
<1>3. ASSUME sock = "open"
      PROVE  /\ \A i \in 1..Len(wire') : ~IsRequest(wire'[i])
             /\ Serves({"receive"})' =>
                   /\ Adds(wire', blocksOf, tally', n'[c])
                   /\ \A i \in 1..Len(wire') : wire'[i].kind = "Empty" =>
                          i = Len(wire') /\ pc'[c] \in Responses
  <2>1. wire' = Append(wire, m)
    BY <1>0, <1>3
  <2>2. \A i \in 1..Len(wire') : \/ i \in 1..Len(wire) /\ wire'[i] = wire[i]
                                 \/ i = Len(wire') /\ wire'[i] = m
    BY <1>0, <2>1
  <2>3. \A i \in 1..Len(wire) : ~IsRequest(wire[i])
    BY <1>1, <1>3 DEF BlocksCounted
  <2>4. ASSUME Serves({"receive"})'
        PROVE  /\ Adds(wire', blocksOf, tally', n'[c])
               /\ \A i \in 1..Len(wire') : wire'[i].kind = "Empty" =>
                      i = Len(wire') /\ pc'[c] \in Responses
    <3>1. Serves({"receive"})
      BY <2>4 DEF Serves
    <3>2. Adds(wire, blocksOf, tally, n[c])
      BY <3>1 DEF BlocksCounted
    <3>3. Adds(wire', blocksOf, tally', n'[c])
      BY <1>0, <2>1, <3>2, AddsLast, WeightsType
    <3>4. \A i \in 1..Len(wire) : wire[i].kind # "Empty"
      BY <1>1, <3>1 DEF BlocksCounted
    <3>5. \A i \in 1..Len(wire') : wire'[i].kind = "Empty" => i = Len(wire') /\ pc'[c] \in Responses
      BY <2>2, <3>4 DEF Responses
    <3> QED BY <3>3, <3>5
  <2>5. \A i \in 1..Len(wire') : ~IsRequest(wire'[i])
    BY <2>2, <2>3
  <2> QED BY <2>4, <2>5
<1>4. (Serves({"receive"})' => sock = "open") /\ (sock' = "open" => sock = "open")
  BY DEF Serves
<1> QED BY <1>1, <1>2, <1>3, <1>4 DEF BlocksCounted, IsRequest

\* Insert has read the header and sends its block and the empty one; InsertStream
\* has read it and sends nothing.
LEMMA HeadCounts ==
    ASSUME TypeOK, NEW c \in Callers, Responds(c), BlocksCounted(c), pc[c] \in Headers,
           UNCHANGED <<sock, srv, tally>>, inbox # << >>, inbox' = Tail(inbox),
           Head(inbox).kind = "Data",
           \/ wire' = wire /\ n'[c] = n[c] /\ pc'[c] = "is_open"
           \/ /\ Flush(<<Msg("Data", qid[c], "none", TRUE), Msg("Empty", qid[c], "none", TRUE)>>)
              /\ n'[c] = 1 /\ pc'[c] = "insert_response"
    PROVE  BlocksCounted(c)'
<1>0. inbox \in Seq(Packet) /\ wire \in Seq(Message) /\ qid[c] \in Nat
  BY DEF TypeOK, ServerTypeOK, ConnTypeOK
<1>1. /\ Head(inbox) = inbox[1] /\ 1 \in 1..Len(inbox)
      /\ \A i \in 1..Len(inbox') : i + 1 \in 1..Len(inbox) /\ inbox'[i] = inbox[i + 1]
  BY <1>0
<1>2. ~Ended' /\ ~Serves({"header"})' /\ ~Serves({"finish"})'
  <2>1. pc[c] \notin Responses
    BY DEF Headers, Responses
  <2>2. ~Ended /\ ~Serves({"header"}) /\ ~Serves({"finish"})
    BY <1>1, <2>1 DEF BlocksCounted
  <2> QED BY <1>1, <2>2 DEF Ended, Serves
<1>3. pc'[c] \notin Headers
  BY DEF Headers
<1>4. n[c] = 0 /\ (Serves({"receive"})' => wire = << >> /\ Adds(wire, blocksOf, tally, n[c]))
  <2>1. Serves({"receive"})' => Serves({"receive"})
    BY DEF Serves
  <2> QED BY <2>1 DEF BlocksCounted
<1>5. sock = "open" => \A i \in 1..Len(wire) : ~IsRequest(wire[i])
  BY DEF Responds, OneRequest
<1>6. CASE wire' = wire /\ n'[c] = n[c] /\ pc'[c] = "is_open"
  <2>1. wire = << >> => Len(wire) = 0
    OBVIOUS
  <2> QED BY <1>2, <1>3, <1>4, <1>5, <1>6, <2>1 DEF BlocksCounted, IsRequest
<1>7. CASE /\ Flush(<<Msg("Data", qid[c], "none", TRUE), Msg("Empty", qid[c], "none", TRUE)>>)
           /\ n'[c] = 1 /\ pc'[c] = "insert_response"
  <2> DEFINE d == Msg("Data", qid[c], "none", TRUE)
             e == Msg("Empty", qid[c], "none", TRUE)
  <2>1. /\ d \in Message /\ ~IsRequest(d) /\ d.kind = "Data"
        /\ e \in Message /\ ~IsRequest(e) /\ e.kind = "Empty"
    BY <1>0, MsgType DEF ClientKinds, Msg, IsRequest
  <2>2. wire' = IF sock = "open" THEN wire \o <<d, e>> ELSE wire
    BY <1>7 DEF Flush
  <2>3. blocksOf[d] = 1 /\ blocksOf[e] = 0
    BY <2>1 DEF blocksOf
  <2> HIDE DEF d, e
  <2>4. ASSUME sock = "open"
        PROVE  /\ \A i \in 1..Len(wire') : ~IsRequest(wire'[i])
               /\ Serves({"receive"})' =>
                     /\ Adds(wire', blocksOf, tally', n'[c])
                     /\ \A i \in 1..Len(wire') : wire'[i].kind = "Empty" =>
                            i = Len(wire') /\ pc'[c] \in Responses
    <3>1. wire' = Append(Append(wire, d), e) /\ Append(wire, d) \in Seq(Message)
      BY <1>0, <2>1, <2>2, <2>4
    <3>2. \A i \in 1..Len(wire') : \/ i \in 1..Len(wire) /\ wire'[i] = wire[i]
                                   \/ i = Len(wire) + 1 /\ wire'[i] = d
                                   \/ i = Len(wire') /\ wire'[i] = e
      BY <1>0, <2>1, <3>1
    <3>3. \A i \in 1..Len(wire') : ~IsRequest(wire'[i])
      BY <1>5, <2>1, <2>4, <3>2
    <3>4. ASSUME Serves({"receive"})'
          PROVE  /\ Adds(wire', blocksOf, tally', n'[c])
                 /\ \A i \in 1..Len(wire') : wire'[i].kind = "Empty" =>
                        i = Len(wire') /\ pc'[c] \in Responses
      <4>1. Adds(wire, blocksOf, tally, 0) /\ Len(wire) = 0
        BY <1>4, <3>4
      <4>2. Adds(Append(wire, d), blocksOf, tally, 0 + blocksOf[d])
        BY <1>0, <2>1, <4>1, AddsLast, WeightsType
      <4>3. Adds(Append(Append(wire, d), e), blocksOf, tally, (0 + blocksOf[d]) + blocksOf[e])
        BY <2>1, <3>1, <4>2, AddsLast, WeightsType
      <4>4. (0 + blocksOf[d]) + blocksOf[e] = n'[c]
        BY <1>7, <2>3
      <4>5. Adds(wire', blocksOf, tally', n'[c])
        BY <3>1, <4>3, <4>4
      <4>6. \A i \in 1..Len(wire') : wire'[i].kind = "Empty" => i = Len(wire') /\ pc'[c] \in Responses
        BY <1>7, <2>1, <3>2, <4>1 DEF Responses
      <4> QED BY <4>5, <4>6
    <3> QED BY <3>3, <3>4
  <2>5. (Serves({"receive"})' => sock = "open") /\ (sock' = "open" => sock = "open")
    BY DEF Serves
  <2> QED BY <1>2, <1>3, <2>4, <2>5 DEF BlocksCounted, IsRequest
<1> QED BY <1>6, <1>7

\* A step of an operation that goes on.
LEMMA OperationCounts ==
    ASSUME TypeOK, Regular, Known, NEW c \in Callers, Active(c), Responds(c), Counts(c),
           ~suspect', Active(c)', Calls(c) \/ CtxDone(c) \/ LoopStep(c) \/ StreamLoopStep(c)
    PROVE  Counts(c)'
<1>0. /\ pc \in [Callers -> Loops \cup Open \cup {"idle"}] /\ n \in [Callers -> Nat]
      /\ res \in [Callers -> Results] /\ inbox \in Seq(Packet) /\ qid[c] \in Nat
      /\ shape \in [Callers -> Shapes \cup {"unbound"}]
  BY DEF TypeOK, ServerTypeOK, ConnTypeOK
<1>a. pc[c] # "idle" /\ pc[c] # "s_done" /\ pc[c] # "hello"
  BY DEF Active, Unused
<1>b. Goes(c)
  <2>1. Goes(c) \/ Ends(c)
    BY OperationEffect DEF Responds
  <2>2. ~Ends(c)
    BY <1>0 DEF Ends, Active, Unused
  <2> QED BY <2>1, <2>2
<1>c. ASSUME NEW r, Return(c, r) PROVE FALSE
  <2>1. pc' = [pc EXCEPT ![c] = After(pc[c])]
    BY <1>c DEF Return
  <2>2. After(pc[c]) \in {"idle", "s_done"}
    BY DEF After
  <2> QED BY <1>0, <2>1, <2>2 DEF Active, Unused
<1>d. ASSUME inbox # << >>
      PROVE  /\ Head(inbox) \in Packet
             /\ \A t : Reads(c, t) => Treat(LoopOf(pc[c]), Head(inbox).kind) = t
             /\ Head(inbox).kind # "Data" => rowsOf[Head(inbox)] = 0
  <2>1. Head(inbox) = inbox[1] /\ 1 \in 1..Len(inbox) /\ Head(inbox) \in Packet
    BY <1>0, <1>d
  <2>2. Mine(c, Head(inbox))
    BY <2>1 DEF Responds, OwnPackets
  <2>3. Seen(Head(inbox)) = {Head(inbox).kind}
    BY <2>2 DEF Seen, Mine
  <2> QED BY <2>1, <2>3 DEF Reads, rowsOf
<1>e. pc[c] \in SelectOps \cup InsertOps => LoopOf(pc[c]) # "ping" /\ LoopOf(pc[c]) # "drain"
  BY DEF SelectOps, InsertOps, LoopOf, Drains
<1>f. ASSUME NEW r \in Nat, Continue(c, r), inbox # << >>, inbox' = Tail(inbox),
             UNCHANGED <<sock, srv, wire, tally>>,
             pc[c] \in SelectOps => r = rowsOf[Head(inbox)],
             pc[c] \in InsertOps => r = 0
      PROVE  Counts(c)'
  <2>1. pc' = pc /\ res' = res /\ n'[c] = n[c] + r
    BY <1>0, <1>f DEF Continue, Fill
  <2>2. n[c] + 0 = n[c]
    BY <1>0
  <2> QED BY <1>f, <2>1, <2>2, ReadCounts
<1>1. CASE Connect(c) \/ Close(c) \/ Release(c) \/ Unlock(c) \/ ReadHello(c)
  BY <1>1, <1>a DEF Connect, Close, Release, Unlock, ReadHello, Regular
<1>2. CASE Exec(c) \/ Select(c) \/ Ping(c) \/ Insert(c) \/ SelectStream(c) \/ InsertStream(c)
  <2>1. \E p, m, sh : Begin(c, p, m, sh)
    BY <1>2, Zenon DEF Exec, Select, Ping, Insert, SelectStream, InsertStream
  <2> QED BY <1>a, <2>1, Zenon DEF Begin
<1>3. CASE Bind(c) \/ CtxDone(c) \/ CheckContext(c)
  <2>1. UNCHANGED <<sock, srv, wire, tally, inbox, res, n, pc>>
    BY <1>3 DEF Bind, CtxDone, CheckContext, serverVars, locals
  <2> QED BY <2>1, PlainCounts
<1>4. CASE StreamNext(c)
  <2>1. /\ pc[c] = "s_open" /\ pc' = [pc EXCEPT ![c] = "s_next"]
        /\ UNCHANGED <<sock, srv, wire, tally, inbox, res, n>>
    BY <1>4 DEF StreamNext, serverVars
  <2>2. pc[c] \in SelectOps /\ pc'[c] \in SelectOps
    BY <1>0, <2>1 DEF SelectOps
  <2> QED BY <2>1, <2>2, PlainCounts
<1>5. CASE StreamCancel(c) \/ StreamClose(c) \/ NextContextDone(c)
  <2>1. PICK p \in Drains : Drain(c, p)
    BY <1>5, <1>a DEF StreamCancel, StreamClose, NextContextDone, Drains
  <2>2. pc'[c] \in Drains /\ res' = res
    BY <1>0, <2>1 DEF Drain
  <2>3. pc'[c] \notin SelectOps /\ pc'[c] \notin InsertOps
    BY <2>2 DEF Drains, SelectOps, InsertOps
  <2> QED BY <2>2, <2>3 DEF Counts
<1>6. CASE StreamAppend(c)
  <2> DEFINE m == Msg("Data", qid[c], "none", shape[c] = "fits")
  <2>1. /\ pc[c] = "is_open" /\ pc' = pc /\ UNCHANGED <<sock, srv, tally, inbox>>
        /\ Flush(<<m>>) /\ n' = [n EXCEPT ![c] = @ + 1] /\ res' = res
    BY <1>6 DEF StreamAppend
  <2>2. m \in Message /\ ~IsRequest(m) /\ m.kind = "Data"
    <3>1. \A g \in BOOLEAN : Msg("Data", qid[c], "none", g) \in Message
      BY <1>0, MsgType DEF ClientKinds
    <3>2. (shape[c] = "fits") \in BOOLEAN
      OBVIOUS
    <3>3. m \in Message
      BY <3>1, <3>2, Zenon
    <3> QED BY <3>3 DEF Msg, IsRequest
  <2> HIDE DEF m
  <2>3. n'[c] = n[c] + blocksOf[m]
    BY <1>0, <2>1, <2>2 DEF blocksOf
  <2>4. pc[c] \in InsertOps /\ pc[c] \notin SelectOps
    BY <2>1 DEF InsertOps, SelectOps
  <2>5. BlocksCounted(c)'
    BY <2>1, <2>2, <2>3, <2>4, WriteCounts DEF Counts
  <2> QED BY <2>1, <2>4, <2>5 DEF Counts
<1>7. CASE InsertStreamClose(c)
  <2> DEFINE m == Msg("Empty", qid[c], "none", TRUE)
  <2>1. /\ pc[c] = "is_open" /\ pc' = [pc EXCEPT ![c] = "is_response"]
        /\ UNCHANGED <<sock, srv, tally, inbox>> /\ Flush(<<m>>) /\ UNCHANGED <<n, res>>
    BY <1>7, <1>c DEF InsertStreamClose, locals
  <2>2. m \in Message /\ ~IsRequest(m) /\ m.kind = "Empty"
    BY <1>0, MsgType DEF ClientKinds, Msg, IsRequest
  <2> HIDE DEF m
  <2>3. blocksOf[m] = 0
    BY <2>2 DEF blocksOf
  <2>4. n'[c] = n[c] + blocksOf[m]
    BY <1>0, <2>1, <2>3
  <2>5. pc[c] \in InsertOps /\ pc'[c] = "is_response" /\ pc'[c] \notin SelectOps
    BY <1>0, <2>1 DEF InsertOps, SelectOps
  <2>6. BlocksCounted(c)'
    BY <2>1, <2>2, <2>4, <2>5, WriteCounts DEF Counts
  <2> QED BY <2>1, <2>5, <2>6 DEF Counts
<1>8. CASE ContextDone(c) \/ ReadEnd(c) \/ ReadException(c) \/ ReadReject(c) \/ ReadFails(c)
  BY <1>8, <1>c DEF ContextDone, ReadEnd, ReadException, ReadReject, ReadFails
<1>9. CASE ReadPass(c)
  <2>1. /\ inbox # << >> /\ Continue(c, 0) /\ UNCHANGED <<sock, srv, wire, tally>>
        /\ Reads(c, "pass") \/ Reads(c, "ignore")
    BY <1>9 DEF ReadPass, Reads, readVars
  <2>2. inbox' = Tail(inbox)
    <3>1. inbox' \in {Tail(inbox), <<Junk>> \o Tail(inbox)}
      BY <1>9 DEF ReadPass, Leftover
    <3>2. Head(inbox) = inbox[1] /\ inbox[1].kind # "Junk"
      <4>1. Head(inbox) = inbox[1] /\ 1 \in 1..Len(inbox)
        BY <1>0, <2>1
      <4> QED BY <4>1 DEF Responds, OwnPackets, Mine
    <3>3. <<Junk>> \o Tail(inbox) # inbox
      <4>1. Junk \in Packet /\ Tail(inbox) \in Seq(Packet)
        BY <2>1, ReadType DEF TypeOK, Junk, Packet, Kinds, Layouts
      <4>2. (<<Junk>> \o Tail(inbox))[1] = Junk
        BY <4>1
      <4> QED BY <3>2, <4>2 DEF Junk
    <3> QED BY <1>b, <3>1, <3>3 DEF Goes
  <2>3. pc[c] \in SelectOps => Head(inbox).kind # "Data"
    <3>1. Treat(LoopOf(pc[c]), Head(inbox).kind) \in {"pass", "ignore"}
      BY <1>d, <2>1
    <3> QED BY <1>e, <3>1 DEF Treat
  <2> QED BY <1>d, <1>f, <2>1, <2>2, <2>3
<1>10. CASE ReadSkip(c)
  <2>1. inbox # << >> /\ UNCHANGED <<sock, srv, wire, tally>> /\ Reads(c, "skip") /\ pc[c] \in Loops
    BY <1>10 DEF ReadSkip, Reads, readVars
  <2>2. Continue(c, 0) /\ inbox' = Tail(inbox)
    BY <1>10, <1>c, Zenon DEF ReadSkip
  <2>3. pc[c] \in SelectOps => LoopOf(pc[c]) \in {"select", "s_next"}
    BY <2>1 DEF SelectOps, LoopOf, Loops, CtxLoops, Drains
  <2>4. pc[c] \in SelectOps => Head(inbox).kind # "Data"
    <3>1. Treat(LoopOf(pc[c]), Head(inbox).kind) = "skip"
      BY <1>d, <2>1
    <3> QED BY <2>3, <3>1 DEF Treat
  <2> QED BY <1>d, <1>f, <2>1, <2>2, <2>4
<1>g. Reads(c, "rows") => Head(inbox).kind = "Data"
  <2> SUFFICES ASSUME Reads(c, "rows") PROVE Head(inbox).kind = "Data"
    OBVIOUS
  <2>1. Treat(LoopOf(pc[c]), Head(inbox).kind) = "rows"
    BY <1>d DEF Reads
  <2> QED BY <2>1 DEF Treat
<1>h. ASSUME inbox # << >>, Head(inbox).kind = "Data"
      PROVE  rowsOf[Head(inbox)] = Head(inbox).rows /\ Head(inbox).rows \in Nat
  <2>1. Head(inbox) \in Packet
    BY <1>d, <1>h
  <2> QED BY <1>h, <2>1 DEF rowsOf, Packet
<1>11. CASE ReadSelectRows(c)
  <2>1. /\ inbox # << >> /\ UNCHANGED <<sock, srv, wire, tally>> /\ pc[c] = "select"
        /\ Head(inbox).kind = "Data"
    BY <1>11, <1>g DEF ReadSelectRows, Reads, readVars
  <2>2. Continue(c, Head(inbox).rows) /\ inbox' = Tail(inbox)
    BY <1>11, <1>c, Zenon DEF ReadSelectRows
  <2>3. pc[c] \notin InsertOps
    BY <2>1 DEF InsertOps
  <2> QED BY <1>f, <1>h, <2>1, <2>2, <2>3
<1>12. CASE ReadStreamRows(c)
  <2>1. /\ inbox # << >> /\ UNCHANGED <<sock, srv, wire, tally>> /\ pc[c] = "s_next"
        /\ Head(inbox).kind = "Data"
    BY <1>12, <1>g DEF ReadStreamRows, Reads, readVars
  <2>2. pc[c] \notin InsertOps /\ pc[c] \in SelectOps
    BY <2>1 DEF InsertOps, SelectOps
  <2>3. ~suspect'
    OBVIOUS
  <2>4. CASE Head(inbox).rows = 0 /\ inbox' = Tail(inbox) /\ Continue(c, 0)
    BY <1>f, <1>h, <2>1, <2>2, <2>4
  <2>5. CASE /\ shape[c] = "fits" /\ inbox' = Tail(inbox) /\ Fill(c, Head(inbox).rows)
             /\ pc' = [pc EXCEPT ![c] = "s_open"] /\ res' = res
    <3>1. /\ pc'[c] = "s_open" /\ n'[c] = n[c] + rowsOf[Head(inbox)]
      BY <1>0, <1>h, <2>1, <2>5 DEF Fill
    <3>2. /\ RowsCounted(c) /\ res[c] # "ok"
      BY <2>2 DEF Counts
    <3>3. \A i \in 1..Len(inbox') : i + 1 \in 1..Len(inbox) /\ inbox'[i] = inbox[i + 1]
      BY <1>0, <2>1, <2>5
    <3>4. (Ended' => Ended) /\ (Serves(Working)' => Serves(Working))
      BY <2>1, <3>3 DEF Ended, Serves
    <3>5. sock' = "open" => \A i \in 1..Len(wire') : ~IsRequest(wire'[i])
      BY <2>1 DEF Responds, OneRequest
    <3>6. Adds(inbox, rowsOf, n[c], tally) => Adds(inbox', rowsOf, n'[c], tally')
      <4>1. Adds(inbox, rowsOf, n[c], tally)
                => Adds(Tail(inbox), rowsOf, n[c] + rowsOf[Head(inbox)], tally)
        BY <1>0, <2>1, AddsFirst, WeightsType
      <4> QED BY <2>1, <2>5, <3>1, <4>1
    <3>7. RowsCounted(c)'
      BY <2>1, <3>2, <3>4, <3>5, <3>6 DEF RowsCounted, IsRequest
    <3>8. pc'[c] \notin InsertOps
      BY <3>1 DEF InsertOps
    <3> QED BY <2>5, <3>2, <3>7, <3>8 DEF Counts
  <2> QED BY <1>12, <1>c, <2>3, <2>4, <2>5, ConnAssumption, <1>0 DEF ReadStreamRows
<1>13. CASE ReadHeader(c)
  <2>1. /\ inbox # << >> /\ UNCHANGED <<sock, srv, tally>> /\ Reads(c, "header")
        /\ pc[c] \in Loops \ {"hello"}
    BY <1>13 DEF ReadHeader, Reads, readVars
  <2>2. LoopOf(pc[c]) = "column_info" /\ Head(inbox).kind = "Data"
    <3>1. Treat(LoopOf(pc[c]), Head(inbox).kind) = "header"
      BY <1>d, <2>1
    <3> QED BY <3>1 DEF Treat
  <2>3. pc[c] \in Headers
    BY <2>1, <2>2 DEF LoopOf, Headers, Loops, CtxLoops, Drains
  <2>4. /\ inbox' = Tail(inbox) /\ res' = res
        /\ \/ wire' = wire /\ n' = n /\ pc' = [pc EXCEPT ![c] = "is_open"]
           \/ /\ Flush(<<Msg("Data", qid[c], "none", TRUE), Msg("Empty", qid[c], "none", TRUE)>>)
              /\ n' = [n EXCEPT ![c] = 1] /\ pc' = [pc EXCEPT ![c] = "insert_response"]
    BY <1>13, <1>c DEF ReadHeader, InsertData, locals
  <2>5. \/ wire' = wire /\ n'[c] = n[c] /\ pc'[c] = "is_open"
        \/ /\ Flush(<<Msg("Data", qid[c], "none", TRUE), Msg("Empty", qid[c], "none", TRUE)>>)
           /\ n'[c] = 1 /\ pc'[c] = "insert_response"
    BY <1>0, <2>4, Zenon
  <2>6. pc[c] \in InsertOps /\ pc'[c] \notin SelectOps
    BY <2>3, <2>5 DEF Headers, InsertOps, SelectOps
  <2>7. BlocksCounted(c)'
    BY <2>1, <2>2, <2>3, <2>4, <2>5, <2>6, HeadCounts DEF Counts
  <2> QED BY <2>4, <2>6, <2>7 DEF Counts
<1> QED
  BY <1>1, <1>2, <1>3, <1>4, <1>5, <1>6, <1>7, <1>8, <1>9, <1>10, <1>11, <1>12, <1>13
  DEF Calls, LoopStep, StreamLoopStep

\* A caller that begins an operation on a connection at rest.
LEMMA BeginCounts ==
    ASSUME TypeOK, Manual = {}, NEW c \in Callers, ~Active(c), Active(c)', ~suspect', AtRest,
           Calls(c) \/ CtxDone(c) \/ LoopStep(c) \/ StreamLoopStep(c)
    PROVE  Counts(c)'
<1>0. /\ pc \in [Callers -> Loops \cup Open \cup {"idle"}] /\ n \in [Callers -> Nat]
      /\ res \in [Callers -> Results] /\ wire \in Seq(Message) /\ nextq \in Nat
  BY DEF TypeOK, ServerTypeOK, ConnTypeOK
<1>1. Begins(c)
  <2>1. ASSUME ~Begins(c) PROVE nextq' = nextq
    BY <2>1, PlainEffect DEF SameRequests
  <2>2. ~(Connect(c) \/ Close(c) \/ ReadHello(c))
    <3>1. ASSUME Connect(c) PROVE FALSE
      <4>1. pc' = pc \/ pc' = [pc EXCEPT ![c] = "hello"]
        BY <3>1, Zenon DEF Connect
      <4> QED BY <1>0, <4>1 DEF Active
    <3>2. ASSUME Close(c) PROVE FALSE
      BY <3>2 DEF Close, callVars, Active
    <3>3. ASSUME ReadHello(c) PROVE FALSE
      <4>1. pc' = [pc EXCEPT ![c] = "idle"]
        BY <3>3, Zenon DEF ReadHello
      <4> QED BY <1>0, <4>1 DEF Active, Unused
    <3> QED BY <3>1, <3>2, <3>3
  <2>3. pc' # [pc EXCEPT ![c] = "idle"]
    BY <1>0 DEF Active, Unused
  <2>4. \E p, m, sh : Begin(c, p, m, sh)
    BY <2>2, <2>3, UnusedEffect
  <2>5. nextq' = nextq + 1
    BY <2>4 DEF Begin
  <2> QED BY <1>0, <2>1, <2>5
<1>2. PICK p, m, sh : /\ Begin(c, p, m, sh) /\ m \in Message
                      /\ p \in SelectOps => m.op = "select"
                      /\ p \in InsertOps => p \in Headers
  <2>1. ASSUME NEW o \in {"exec", "select", "insert"}
        PROVE  writeQuery(o) \in Message /\ writeQuery(o).op = o
    BY <1>0, MsgType DEF writeQuery, Msg, ClientKinds
  <2>2. Msg("Ping", nextq, "none", TRUE) \in Message
    BY <1>0, MsgType DEF ClientKinds
  <2>3. /\ {"exec", "ping", "insert_header", "is_header"} \cap SelectOps = {}
        /\ {"exec", "ping", "select", "s_open"} \cap InsertOps = {}
        /\ {"insert_header", "is_header"} \subseteq Headers
    BY DEF SelectOps, InsertOps, Headers
  <2>4. CASE Exec(c)
    BY <2>1, <2>3, <2>4 DEF Exec
  <2>5. CASE Select(c)
    BY <2>1, <2>3, <2>5 DEF Select
  <2>6. CASE Ping(c)
    BY <2>2, <2>3, <2>6 DEF Ping
  <2>7. CASE Insert(c)
    BY <2>1, <2>3, <2>7 DEF Insert
  <2>8. CASE SelectStream(c)
    BY <2>1, <2>3, <2>8 DEF SelectStream
  <2>9. CASE InsertStream(c)
    BY <2>1, <2>3, <2>9 DEF InsertStream
  <2> QED BY <1>1, <2>4, <2>5, <2>6, <2>7, <2>8, <2>9 DEF Begins
<1>3. /\ pc' = [pc EXCEPT ![c] = p] /\ res' = [res EXCEPT ![c] = "none"]
      /\ n' = [n EXCEPT ![c] = 0] /\ UNCHANGED <<sock, inbox, srv, tally>>
      /\ wire' = IF sock = "open" THEN wire \o <<m>> ELSE wire
  BY <1>2 DEF Begin, Flush
<1>4. pc'[c] = p /\ res'[c] = "none" /\ n'[c] = 0 /\ inbox' = << >> /\ Len(inbox') = 0
  BY <1>0, <1>3 DEF AtRest
<1>5. ~Ended' /\ ~Serves(Working)' /\ ~Serves({"header"})' /\ ~Serves({"receive"})'
      /\ ~Serves({"finish"})'
  BY <1>3, <1>4 DEF Ended, Serves, AtRest, Rest, Working
<1>6. sock = "open" => \A i \in 1..Len(wire') : IsRequest(wire'[i]) => i = Len(wire') /\ wire'[i] = m
  <2> SUFFICES ASSUME sock = "open"
               PROVE  \A i \in 1..Len(wire') : IsRequest(wire'[i]) => i = Len(wire') /\ wire'[i] = m
    OBVIOUS
  <2>1. \A i \in 1..Len(wire') : \/ i \in 1..Len(wire) /\ wire'[i] = wire[i]
                                 \/ i = Len(wire') /\ wire'[i] = m
    BY <1>0, <1>2, <1>3
  <2> QED BY <2>1 DEF AtRest, NoRequest
<1>7. pc'[c] \in SelectOps => RowsCounted(c)'
  BY <1>2, <1>3, <1>4, <1>5, <1>6 DEF RowsCounted, IsRequest
<1>8. pc'[c] \in InsertOps => BlocksCounted(c)'
  BY <1>2, <1>3, <1>4, <1>5, <1>6 DEF BlocksCounted, IsRequest
<1> QED BY <1>4, <1>7, <1>8 DEF Counts

\* Counted is inductive.
LEMMA CountedStep ==
    ASSUME TypeOK, Regular, Exclusive, Sync, Counted, [Next]_vars
    PROVE  Counted'
<1> SUFFICES ASSUME ~suspect', NEW c \in Callers, Active(c)' PROVE Counts(c)'
  BY DEF Counted
<1>0. /\ ~suspect /\ Known /\ ((\A d \in Callers : pc[d] \in Unused) => AtRest)
      /\ \A d \in Callers : Active(d) => Responds(d) /\ Counts(d)
      /\ pc \in [Callers -> Loops \cup Open \cup {"idle"}]
  BY SuspectStays DEF Sync, Counted, TypeOK, ConnTypeOK
<1>1. CASE ServerNext /\ UNCHANGED <<connVars, callVars>>
  <2>1. Active(c)
    BY <1>1 DEF callVars, Active
  <2> QED BY <1>0, <1>1, <2>1, ServerCounts
<1>2. CASE UNCHANGED vars
  <2>1. UNCHANGED <<sock, srv, wire, tally, inbox, res, n, pc>>
    BY <1>2 DEF vars, serverVars, callVars
  <2>2. Active(c)
    BY <2>1 DEF Active
  <2> QED BY <1>0, <2>1, <2>2, PlainCounts
<1>3. ASSUME NEW d \in Callers, Calls(d) \/ CtxDone(d) \/ LoopStep(d) \/ StreamLoopStep(d)
      PROVE  Counts(c)'
  <2>1. CASE c = d /\ Active(c)
    BY <1>0, <1>3, <2>1, OperationCounts
  <2>2. CASE c = d /\ ~Active(c)
    <3>1. pc[c] = "idle" /\ \A e \in Callers : e # c => pc[e] = "idle"
      <4>1. state = "Ready" /\ pc[c] = "idle"
        <5>1. UNCHANGED <<pc>> \/ pc' = [pc EXCEPT ![c] = "idle"] \/ pc' = [pc EXCEPT ![c] = "hello"]
              \/ (state = "Ready" /\ pc[c] = "idle")
          <6>1. Connect(c) => UNCHANGED <<pc>> \/ pc' = [pc EXCEPT ![c] = "hello"]
            BY Zenon DEF Connect
          <6>2. Close(c) => UNCHANGED <<pc>>
            BY DEF Close, callVars
          <6>3. ReadHello(c) => pc' = [pc EXCEPT ![c] = "idle"]
            BY Zenon DEF ReadHello
          <6>4. (\E p, m, sh : Begin(c, p, m, sh)) => state = "Ready" /\ pc[c] = "idle"
            BY DEF Begin, lock
          <6> QED BY <1>3, <2>2, <6>1, <6>2, <6>3, <6>4, UnusedEffect DEF Regular
        <5> QED BY <1>0, <2>2, <5>1 DEF Active, Unused
      <4> QED BY <4>1 DEF Exclusive
    <3>2. AtRest
      BY <1>0, <3>1 DEF Unused
    <3> QED BY <1>3, <2>2, <3>2, BeginCounts DEF Regular
  <2>3. CASE c # d
    <3>1. \A p : pc' = [pc EXCEPT ![d] = p] => pc'[c] = pc[c]
      BY <1>0, <2>3
    <3>2. pc'[c] = pc[c]
      <4>1. Takes(d) \/ Moves(d) \/ Gives(d) \/ Stays(d)
        <5>1. ~Release(d) /\ ~Unlock(d)
          BY DEF Release, Unlock, Regular
        <5> QED BY <1>3, <5>1, Turn
      <4> QED BY <3>1, <4>1 DEF Takes, Moves, Gives, Stays
    <3>3. Active(c) /\ pc[c] # "idle"
      BY <3>2 DEF Active, Unused
    <3>4. state \in {"Busy", "Closed"} /\ pc[d] = "idle"
      BY <2>3, <3>3 DEF Exclusive
    <3>5. Close(d)
      <4>1. ~Active(d) /\ pc[d] # "s_done"
        BY <3>4 DEF Active, Unused
      <4>2. ~Connect(d) /\ ~ReadHello(d)
        BY <3>4 DEF Connect, ReadHello
      <4>3. \A p, m, sh : ~Begin(d, p, m, sh)
        BY <3>4 DEF Begin, lock
      <4> QED BY <1>3, <4>1, <4>2, <4>3, UnusedEffect DEF Regular
    <3>6. UNCHANGED <<pc, n, res, tally>> /\ sock' # "open" /\ inbox' \in Remains(inbox)
      BY <3>5 DEF Close, CloseSocket, callVars
    <3> QED BY <1>0, <3>3, <3>6, BreakCounts DEF Responds
  <2> QED BY <2>1, <2>2, <2>3
<1> QED BY <1>1, <1>2, <1>3 DEF Next

\* An operation that ends well has met the end of its response.
LEMMA EndsWell ==
    ASSUME TypeOK, Regular, Exclusive, Sync, Counted, [Next]_vars, NEW c \in Callers,
           pc[c] \in {"select", "s_next", "insert_response", "is_response"},
           pc'[c] # pc[c], res'[c] = "ok", ~suspect
    PROVE  n[c] = tally
<1>0. /\ pc \in [Callers -> Loops \cup Open \cup {"idle"}] /\ res \in [Callers -> Results]
      /\ inbox \in Seq(Packet) /\ n[c] \in Nat /\ tally \in Nat
  BY DEF TypeOK, ServerTypeOK, ConnTypeOK
<1>1. /\ pc[c] # "idle" /\ Active(c) /\ Responds(c) /\ Counts(c)
      /\ pc[c] \in SelectOps \/ pc[c] \in InsertOps
  <2>1. Active(c) /\ pc[c] # "idle" /\ (pc[c] \in SelectOps \/ pc[c] \in InsertOps)
    BY DEF Active, Unused, SelectOps, InsertOps
  <2> QED BY <2>1 DEF Sync, Counted
<1>2. res[c] # "ok" /\ pc[c] \notin Drains
  BY <1>1 DEF Counts, Drains
<1>3. PICK d \in Callers : Calls(d) \/ CtxDone(d) \/ LoopStep(d) \/ StreamLoopStep(d)
  BY DEF Next, vars, callVars
<1>4. d = c
  <2> SUFFICES ASSUME d # c PROVE FALSE
    OBVIOUS
  <2>1. \A p : pc' = [pc EXCEPT ![d] = p] => pc'[c] = pc[c]
    BY <1>0
  <2>2. Takes(d) \/ Moves(d) \/ Gives(d) \/ Stays(d)
    <3>1. ~Release(d) /\ ~Unlock(d)
      BY DEF Release, Unlock, Regular
    <3> QED BY <1>3, <3>1, Turn
  <2> QED BY <2>1, <2>2 DEF Takes, Moves, Gives, Stays
<1>5. Reads(c, "end")
  <2>1. ASSUME NEW r, Return(c, r), r # "ok" PROVE FALSE
    <3>1. res' = [res EXCEPT ![c] = Outcome(c, r)] /\ Outcome(c, r) = r
      BY <1>2, <2>1 DEF Return, Outcome, Drains
    <3> QED BY <1>0, <2>1, <3>1
  <2>2. ASSUME UNCHANGED <<pc>> PROVE FALSE
    BY <2>2
  <2>3. ASSUME UNCHANGED <<res>> PROVE FALSE
    BY <1>2, <2>3
  <2>4. ASSUME NEW r, Continue(c, r) PROVE FALSE
    BY <2>2, <2>4 DEF Continue
  <2>5. CASE Connect(c) \/ Close(c) \/ ReadHello(c) \/ Release(c) \/ Unlock(c) \/ Begins(c)
    <3>1. pc[c] # "hello"
      BY <1>1 DEF Active
    <3>2. ~Begins(c)
      <4>1. Begins(c) => \E p, m, sh : Begin(c, p, m, sh)
        BY BeginsWith
      <4> QED BY <1>1, <4>1 DEF Begin
    <3> QED BY <1>1, <2>5, <3>1, <3>2 DEF Connect, Close, ReadHello, Release, Unlock, Regular
  <2>6. CASE Bind(c) \/ StreamNext(c) \/ StreamCancel(c) \/ StreamClose(c) \/ StreamAppend(c)
             \/ InsertStreamClose(c)
    BY <2>6 DEF Bind, StreamNext, StreamCancel, StreamClose, StreamAppend, InsertStreamClose
  <2>7. CASE NextContextDone(c) \/ CtxDone(c) \/ CheckContext(c)
    BY <2>2, <2>3, <2>7 DEF NextContextDone, Drain, CtxDone, CheckContext
  <2>8. CASE ContextDone(c) \/ ReadException(c) \/ ReadReject(c) \/ ReadFails(c)
    BY <2>1, <2>8 DEF ContextDone, ReadException, ReadReject, ReadFails
  <2>9. CASE ReadPass(c) \/ ReadSkip(c) \/ ReadSelectRows(c)
    <3>1. (\E r : Continue(c, r)) \/ Return(c, "protocol")
      BY <2>9, Zenon DEF ReadPass, ReadSkip, ReadSelectRows
    <3> QED BY <2>1, <2>4, <3>1
  <2>10. CASE ReadStreamRows(c)
    <3>1. Continue(c, 0) \/ Return(c, "protocol") \/ UNCHANGED <<res>>
      BY <2>10 DEF ReadStreamRows
    <3> QED BY <2>1, <2>3, <2>4, <3>1
  <2>11. CASE ReadHeader(c)
    <3>1. UNCHANGED <<res>> \/ Return(c, "protocol") \/ Return(c, "network")
      BY <2>11 DEF ReadHeader, InsertData
    <3> QED BY <2>1, <2>3, <3>1
  <2>12. CASE ReadEnd(c)
    BY <2>12 DEF ReadEnd
  <2> QED BY <1>3, <1>4, <2>5, <2>6, <2>7, <2>8, <2>9, <2>10, <2>11, <2>12
          DEF Calls, LoopStep, StreamLoopStep, Begins
<1>6. inbox # << >> /\ Head(inbox) = inbox[1] /\ 1 \in 1..Len(inbox) /\ Head(inbox) \in Packet
  BY <1>0, <1>5 DEF Reads
<1>7. Head(inbox).kind = "EndOfStream"
  <2>1. Mine(c, Head(inbox))
    BY <1>1, <1>6 DEF Responds, OwnPackets
  <2>2. Seen(Head(inbox)) = {Head(inbox).kind}
    BY <2>1 DEF Seen, Mine
  <2>3. Treat(LoopOf(pc[c]), Head(inbox).kind) = "end"
    BY <1>5, <2>2 DEF Reads
  <2>4. LoopOf(pc[c]) # "ping"
    BY DEF LoopOf, Drains
  <2> QED BY <2>3, <2>4 DEF Treat
<1>8. Ended /\ Tail(inbox) = << >>
  <2>1. Final(Head(inbox).kind)
    BY <1>7 DEF Final, Terminals
  <2> QED BY <1>1, <1>6, <1>7, <2>1, EndIsLast DEF Ended, Responds
<1>9. CASE pc[c] \in SelectOps
  <2>1. Adds(inbox, rowsOf, n[c], tally)
    BY <1>1, <1>8, <1>9 DEF Counts, RowsCounted
  <2>2. Adds(Tail(inbox), rowsOf, n[c] + rowsOf[Head(inbox)], tally)
    BY <1>0, <1>6, <2>1, AddsFirst, WeightsType
  <2>3. n[c] + rowsOf[Head(inbox)] = n[c]
    <3>1. rowsOf[Head(inbox)] = 0
      BY <1>6, <1>7 DEF rowsOf
    <3> QED BY <1>0, <3>1
  <2>4. Adds(<< >>, rowsOf, n[c], tally)
    BY <1>8, <2>2, <2>3
  <2> QED BY <1>0, <2>4, AddsNothing
<1>10. CASE pc[c] \in InsertOps
  BY <1>1, <1>8, <1>10 DEF Counts, BlocksCounted
<1> QED BY <1>1, <1>9, <1>10

\* Delivered: a SELECT that returns without error, or a stream that says it is done,
\* has counted every row the server sent, and an INSERT returns without error only
\* when all the blocks handed to it are stored, whatever was lost, cut or cancelled
\* on the way.
THEOREM DeliveredHolds ==
    ASSUME Regular
    PROVE  Spec => Delivered
<1>1. Init => Counted
  BY DEF Init, ConnInit, Counted, Active, Unused
<1>2. TypeOK /\ Exclusive /\ Sync /\ Counted /\ [Next]_vars => Counted'
  BY CountedStep
<1>3. TypeOK /\ Exclusive /\ Sync /\ Counted /\ [Next]_vars =>
        [\A c \in Callers :
           /\ pc[c] \in {"select", "s_next", "insert_response", "is_response"}
           /\ pc'[c] # pc[c] /\ res'[c] = "ok" /\ ~suspect
           => n[c] = tally]_vars
  BY EndsWell
<1>4. Spec => [](TypeOK /\ Exclusive /\ Sync)
  BY SyncHolds
<1> QED BY <1>1, <1>2, <1>3, <1>4, PTL DEF Spec, Delivered

=============================================================================
