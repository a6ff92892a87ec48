------------------------------- MODULE Client -------------------------------
(***************************************************************************)
(* The connection with its callers and the server: the whole of conn/.     *)
(***************************************************************************)
EXTENDS Stream

Init == ServerInit /\ ConnInit

\* What a caller may start, and what it may do with the stream it has.
Calls(c) ==
    \/ Connect(c) \/ Close(c)
    \/ Exec(c) \/ Select(c) \/ Ping(c) \/ Insert(c)
    \/ SelectStream(c) \/ InsertStream(c) \/ Bind(c) \/ StreamNext(c)
    \/ StreamCancel(c) \/ StreamClose(c) \/ Release(c) \/ Unlock(c)
    \/ StreamAppend(c) \/ InsertStreamClose(c)

Next ==
    \/ ServerNext /\ UNCHANGED <<connVars, callVars>>
    \/ \E c \in Callers : Calls(c) \/ CtxDone(c) \/ LoopStep(c) \/ StreamLoopStep(c)

Spec == Init /\ [][Next]_vars

\* A caller that is in a call goes on with it, and the server works.  Nothing
\* forces a caller to start an operation or to go on with a stream.
Fairness ==
    /\ WF_vars(ServerSteps /\ UNCHANGED <<connVars, callVars>>)
    /\ \A c \in Callers : WF_vars(LoopStep(c) \/ StreamLoopStep(c))

FairSpec == Spec /\ Fairness

\* The types of the variables; a caller is blocked in a read only inside a loop.
TypeOK ==
    /\ ServerTypeOK
    /\ ConnTypeOK
    /\ \A c \in Callers : reading[c] => pc[c] \in Loops

-----------------------------------------------------------------------------
(* Safety. *)

\* No concurrent queries per connection: lock() lets at most one caller be
\* between the start and the end of an operation, a stream included, and
\* while one is, the connection is not offered to another as ready.
MutualExclusion ==
    \A c \in Callers : pc[c] # "idle" =>
        /\ state # "Ready"
        /\ \A d \in Callers : pc[d] # "idle" => d = c

\* A caller that reads finds only packets of its own request, unless an
\* operation before ended in an error other than the server's or a reader has
\* silently lost its place (suspect).
OwnResponse ==
    \A c \in Callers : pc[c] \in Loops \cup Open /\ ~suspect =>
        \A i \in 1..Len(inbox) : inbox[i].q = qid[c]

\* The server is done with every request it got, or will be without sending
\* anything: it has nothing to read but late cancels and the rest of an INSERT
\* it has already refused, or has stopped.
Quiet ==
    /\ inbox = << >>
    /\ srv.ph \in {"addendum", "idle", "discard", "hung"}
    /\ \A i \in 1..Len(wire) : wire[i].kind \notin {"Query", "Ping"}

\* When the connection is handed out as ready, nothing of an earlier response
\* is on its way, unless the connection is suspect.
CleanReady == state = "Ready" /\ sock = "open" /\ ~suspect => Quiet

\* An operation that returns without error has transferred everything: all
\* rows the server sent are counted for a SELECT, all blocks handed to it for an
\* INSERT, unless the connection is suspect.
Delivered ==
    [][\A c \in Callers :
         /\ pc[c] \in {"select", "s_next", "insert_response", "is_response"}
         /\ pc'[c] # pc[c] /\ res'[c] = "ok" /\ ~suspect
         => n[c] = tally]_vars

\* Connect does not leak the socket: one that is open belongs to a Conn that
\* was returned or is being connected.
NoSocketLeak == sock = "open" => state # "Initial"

-----------------------------------------------------------------------------
(* Refinement: what the connection looks like from outside. *)

\* No Conn before Connect has returned one; then up until the socket is lost.
SessionLink ==
    IF state = "Initial" \/ (\E c \in Callers : pc[c] = "hello") THEN "none"
    ELSE IF sock = "open" THEN "up" ELSE "lost"

\* The end of the response to the caller's request is on its way.
HasAnswer(c) ==
    \E i \in 1..Len(inbox) : inbox[i].kind \in Terminals /\ inbox[i].q = qid[c]

SessionPhase(c) ==
    CASE pc[c] = "idle" -> "none"
      [] pc[c] = "hello" -> "connecting"
      [] pc[c] \in Drains -> "cancelled"
      [] pc[c] = "s_done" -> "over"
      [] OTHER -> IF HasAnswer(c) THEN "answered" ELSE "pending"

Abstract == INSTANCE Session WITH
    link <- SessionLink,
    phase <- [c \in Callers |-> SessionPhase(c)],
    outcome <- res,
    doubt <- suspect

\* Callers see a Session: one link, one operation at a time, and success or the
\* server's error reported only of an answer the server gave to that request,
\* whatever the loops, cancels, resets and Close in between.
ImplementsSession == Abstract!Spec

-----------------------------------------------------------------------------
(* Liveness, under FairSpec. *)

\* Every operation and every call of Next returns or starts to drain.
OperationReturns ==
    \A c \in Callers : pc[c] \in Loops \ Drains ~> pc[c] \notin Loops \ Drains

\* A stream that is cancelled or closed gets to the end of the response.
DrainReturns == \A c \in Callers : pc[c] \in Drains ~> pc[c] \notin Drains

-----------------------------------------------------------------------------
(* What the comments and the README say, where the code does otherwise. *)

\* "StateReady means an idle, connected connection."
ReadyMeansIdle == state = "Ready" /\ sock = "open" => Quiet

\* "skipBlock reads and discards a data block sent by the server": a whole block
\* that a loop has to skip is skipped.
NoSpuriousReject ==
    [][\A c \in Callers :
         /\ pc[c] \in Loops /\ reading[c] /\ inbox # << >> /\ sock = "open" /\ ~suspect
         /\ Treat(LoopOf(pc[c]), Head(inbox).kind) = "skip"
         => inbox' # Leftover]_vars

\* "Cancel cancels the stream and drains remaining server data.": when a drain is
\* over nothing of the response is left.
DrainTakesAll ==
    [][\A c \in Callers : pc[c] \in Drains /\ pc'[c] \notin Drains /\ sock = "open" /\ ~suspect
         => Quiet']_vars

\* "No concurrent queries per connection."
NoConcurrentQueries ==
    \A c, d \in Callers : {pc[c], pc[d]} \cap {"idle", "s_done"} = {} => c = d

\* "Initial -> Ready -> Busy -> Ready -> Closed": Closed is the last state.
ClosedIsFinal == [][state = "Closed" => state' = "Closed"]_vars

\* Select "reads results into the given columns": when it returns without error
\* they hold the rows the server sent.
SelectFillsColumns ==
    [][\A c \in Callers : pc[c] = "select" /\ pc'[c] = "idle" /\ res'[c] = "ok" /\ ~suspect
         => held[c] = tally]_vars

\* "Each Next() appends one block to bound columns", which so hold "all rows
\* accumulated so far": as many as the stream has counted.
StreamAccumulates ==
    \A c \in Callers : pc[c] = "s_open" => held[c] = n[c]

\* A StateDecoder column "read[s] per-block state before column data": a block
\* that Next returns was read to its end.
WholeBlockRead ==
    [][\A c \in Callers : pc[c] = "s_next" /\ pc'[c] = "s_open"
         => inbox' = Tail(inbox)]_vars

=============================================================================
