------------------------------- MODULE Stream -------------------------------
(***************************************************************************)
(* SelectStream and InsertStream of conn/stream.go.  A stream keeps the    *)
(* connection busy from the call that starts it to the Close that releases *)
(* it: "s_open", "s_done" and "is_open" are the states between two calls   *)
(* on it, s_done the one in which SelectStream.done is set.  Calls on a    *)
(* stream that is done or closed, and calls that only report an error      *)
(* (Append without Bind or without rows), change nothing and are left out. *)
(***************************************************************************)
EXTENDS Conn

\* The ways in which callers give the connection back themselves: "Release" of
\* a SelectStream that is done, "Unlock" of the Conn.
CONSTANT Manual

ASSUME StreamAssumption == Manual \subseteq {"Release", "Unlock"}

SelectStream(c) == Begin(c, "s_open", writeQuery("select"), "unbound")
InsertStream(c) == Begin(c, "is_header", writeQuery("insert"), "unbound")

Bind(c) ==
    /\ pc[c] \in {"s_open", "is_open"}
    /\ \E sh \in Shapes : shape[c] # sh /\ shape' = [shape EXCEPT ![c] = sh]
    /\ held' = [held EXCEPT ![c] = 0]
    /\ UNCHANGED <<serverVars, connVars, pc, reading, cancelled, qid, n, res>>

\* Next without Bind ends the stream and leaves the response unread.
StreamNext(c) ==
    /\ pc[c] = "s_open"
    /\ \/ /\ shape[c] = "unbound"
          /\ pc' = [pc EXCEPT ![c] = "s_done"]
          /\ res' = [res EXCEPT ![c] = "protocol"]
          /\ suspect' = TRUE
       \/ /\ shape[c] # "unbound"
          /\ pc' = [pc EXCEPT ![c] = "s_next"]
          /\ UNCHANGED <<res, suspect>>
    /\ UNCHANGED <<serverVars, state, skip, nextq, reading, cancelled, qid, n, shape, held>>

\* cancel(): a Cancel message, then the loop "drain".  There is no look at the
\* context in it.
Drain(c, p) ==
    /\ sendCancel(c)
    /\ pc' = [pc EXCEPT ![c] = p]
    /\ reading' = [reading EXCEPT ![c] = TRUE]
    /\ UNCHANGED <<sock, inbox, srv, tally, connVars, cancelled, qid, n, shape, held, res>>

NextContextDone(c) ==
    /\ pc[c] = "s_next" /\ ~reading[c] /\ c \in cancelled
    /\ Drain(c, "drain_next")

\* Fault: Cancel does not read the rest of the response.
CancelOnly(c) ==
    /\ pc[c] = "s_open"
    /\ sendCancel(c)
    /\ pc' = [pc EXCEPT ![c] = "s_done"]
    /\ UNCHANGED <<sock, inbox, srv, tally, connVars, reading, cancelled, qid, n, shape, held, res>>

StreamCancel(c) == pc[c] = "s_open" /\ Drain(c, "drain_cancel")

\* Fault: Close releases the connection in the middle of the response.
CloseUndrained(c) ==
    /\ pc[c] \in {"s_open", "s_done"}
    /\ pc' = [pc EXCEPT ![c] = "idle"]
    /\ state' = unlock
    /\ Forget(c)
    /\ UNCHANGED <<serverVars, skip, nextq, suspect, reading, res>>

StreamClose(c) ==
    \/ pc[c] = "s_open" /\ Drain(c, "drain_close")
    \/ /\ pc[c] = "s_done"
       /\ pc' = [pc EXCEPT ![c] = "idle"]
       /\ state' = unlock
       /\ Forget(c)
       /\ UNCHANGED <<serverVars, skip, nextq, suspect, reading, res>>

\* Release runs the release function; Close will run it again.
Release(c) ==
    /\ "Release" \in Manual
    /\ pc[c] = "s_done"
    /\ state' = unlock
    /\ UNCHANGED <<serverVars, skip, nextq, suspect, callVars>>

\* Conn.Unlock looks at nothing: a caller that is in no call of its own may call
\* it on a Conn that is busy with another's operation, or closed.
Unlock(c) ==
    /\ "Unlock" \in Manual
    /\ pc[c] \in Open \cup {"idle"} /\ state # "Initial"
    /\ \A d \in Callers : pc[d] # "hello"
    /\ state' = unlock
    /\ UNCHANGED <<serverVars, skip, nextq, suspect, callVars>>

\* Next meets a data block.  A block of no rows is passed over; Next does not
\* read the per-block state of a column, so the rows of a stateful column are
\* decoded from the wrong bytes: it fails, or returns a block and leaves junk.
ReadStreamRows(c) ==
    /\ Reads(c, "rows") /\ pc[c] = "s_next"
    /\ LET p == Head(inbox) IN
       \/ /\ p.rows = 0
          /\ inbox' = Tail(inbox)
          /\ Continue(c, 0)
       \/ /\ p.rows > 0 /\ shape[c] # "miscount"
          /\ inbox' = IF shape[c] = "fits" THEN Tail(inbox) ELSE Leftover
          /\ Fill(c, p.rows)
          /\ pc' = [pc EXCEPT ![c] = "s_open"]
          /\ reading' = [reading EXCEPT ![c] = FALSE]
          /\ suspect' = (suspect \/ shape[c] # "fits")
          /\ UNCHANGED <<state, res, cancelled, qid, shape>>
       \/ /\ p.rows > 0 /\ shape[c] # "fits"
          /\ inbox' = Leftover
          /\ Return(c, "protocol")
    /\ UNCHANGED <<readVars, wire, skip>>

\* Append sends a block and reads nothing.  It does not write the per-block
\* state of a column, without which the server cannot parse the block.
\* MaxPackets bounds the blocks of one stream.
StreamAppend(c) ==
    /\ pc[c] = "is_open" /\ shape[c] # "unbound" /\ n[c] < MaxPackets
    /\ \/ /\ Flush(<<Msg("Data", qid[c], "none", shape[c] = "fits")>>)
          /\ n' = [n EXCEPT ![c] = @ + 1]
          /\ UNCHANGED <<suspect, res>>
       \/ /\ FlushFails
          /\ res' = [res EXCEPT ![c] = "network"]
          /\ suspect' = TRUE
          /\ UNCHANGED n
    /\ UNCHANGED <<sock, inbox, srv, tally, state, skip, nextq, pc, reading, cancelled, qid, shape, held>>

InsertStreamClose(c) ==
    /\ pc[c] = "is_open"
    /\ \/ /\ Flush(<<Msg("Empty", qid[c], "none", TRUE)>>)
          /\ pc' = [pc EXCEPT ![c] = "is_response"]
          /\ UNCHANGED <<state, reading, suspect, res, locals>>
       \/ FlushFails /\ Return(c, "network")
    /\ UNCHANGED <<sock, inbox, srv, tally, skip, nextq>>

StreamLoopStep(c) == NextContextDone(c) \/ ReadStreamRows(c)

=============================================================================
