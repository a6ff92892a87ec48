------------------------------ MODULE Session ------------------------------
(***************************************************************************)
(* What a connection promises its callers, without packets, loops or       *)
(* buffers: a link that is made once and may be lost once, operations one  *)
(* at a time, and an operation that reports success or the server's error  *)
(* only after the server has answered that very operation.  The promise    *)
(* ends (doubt) when a caller has been told of any other error, or the     *)
(* connection has lost its place in what the server sends.                 *)
(*                                                                         *)
(* Client implements this specification, see Client!Abstract.              *)
(***************************************************************************)
CONSTANT Callers

VARIABLES
    link,     \* "none", "up", "lost"
    phase,    \* of each caller's operation, see Phases
    outcome,  \* what each caller was told last
    doubt     \* a caller was told of an error other than the server's, or the
              \* connection lost its place

sessionVars == <<link, phase, outcome, doubt>>

\* pending: the server has not answered.  answered: it has, the caller has not
\* read it.  cancelled: the caller has given up and waits for the end of the
\* response.  over: the stream has ended and is still to be closed.
Phases == {"none", "connecting", "pending", "answered", "cancelled", "over"}
Answers == {"ok", "server"}

Init ==
    /\ link = "none"
    /\ phase = [c \in Callers |-> "none"]
    /\ outcome = [c \in Callers |-> "none"]
    /\ doubt = FALSE

Move(c, p) == phase' = [phase EXCEPT ![c] = p]
Tell(c, r) == outcome' = [outcome EXCEPT ![c] = r]

Free == \A c \in Callers : phase[c] = "none"

Connect(c) ==
    /\ link = "none" /\ Free
    /\ Move(c, "connecting") /\ UNCHANGED <<link, outcome, doubt>>

\* The handshake ends (the peer may be gone again by then), or no connection
\* was made.
Connected(c) ==
    /\ link = "none" /\ (phase[c] = "connecting" \/ Free)
    /\ Move(c, "none")
    /\ \/ phase[c] = "connecting" /\ link' \in {"up", "lost"} /\ Tell(c, "ok")
       \/ link' = "none" /\ \E r \in {"server", "network", "protocol"} : Tell(c, r)
    /\ UNCHANGED doubt

Begin(c) ==
    /\ link # "none" /\ Free
    /\ Move(c, "pending") /\ Tell(c, "none") /\ UNCHANGED <<link, doubt>>

\* The request of c could not be sent, or a further block of it.
SendFails(c) ==
    /\ link = "lost" /\ (Free \/ phase[c] \in {"pending", "answered"})
    /\ Tell(c, "network") /\ doubt' = TRUE /\ UNCHANGED <<link, phase>>

Answer(c) ==
    /\ link = "up" /\ phase[c] = "pending"
    /\ Move(c, "answered") /\ UNCHANGED <<link, outcome, doubt>>

\* The operation ends for its caller; a stream stays open.  Success and the
\* server's error are reported only of an answer.
Finish(c, r) ==
    /\ phase[c] \in {"pending", "answered"}
    /\ r \in Answers => phase[c] = "answered" \/ doubt
    /\ \E p \in {"none", "over"} : Move(c, p)
    /\ Tell(c, r)
    /\ doubt' = (doubt \/ r \notin Answers)
    /\ UNCHANGED link

Cancel(c) ==
    /\ phase[c] \in {"pending", "answered"}
    /\ Move(c, "cancelled") /\ UNCHANGED <<link, outcome, doubt>>

\* The end of a response that was given up: nothing is reported but, by Next,
\* the context's error.  It may not be found.
Cancelled(c) ==
    /\ phase[c] = "cancelled"
    /\ \E p \in {"none", "over"} : Move(c, p)
    /\ Tell(c, "internal") \/ UNCHANGED outcome
    /\ doubt' \in {doubt, TRUE}
    /\ UNCHANGED link

\* In the middle of an operation the connection loses its place.
Stray(c) ==
    /\ phase[c] \in {"pending", "answered"}
    /\ doubt' = TRUE /\ UNCHANGED <<link, phase, outcome>>

CloseStream(c) ==
    /\ phase[c] = "over"
    /\ Move(c, "none") /\ UNCHANGED <<link, outcome, doubt>>

\* The link breaks or is closed.  It never comes back; an answer on its way
\* may be lost with it.
Lose ==
    /\ link = "up" /\ link' = "lost"
    /\ \/ UNCHANGED phase
       \/ \E c \in Callers : phase[c] = "answered" /\ Move(c, "pending")
    /\ UNCHANGED <<outcome, doubt>>

\* Close of a link that was lost already.
LoseMore ==
    /\ link = "lost"
    /\ \E c \in Callers : phase[c] = "answered" /\ Move(c, "pending")
    /\ UNCHANGED <<link, outcome, doubt>>

Results == {"ok", "network", "protocol", "server", "internal"}

Next ==
    \/ \E c \in Callers :
          \/ Connect(c) \/ Connected(c) \/ Begin(c) \/ SendFails(c) \/ Answer(c)
          \/ Cancel(c) \/ Cancelled(c) \/ CloseStream(c) \/ Stray(c)
          \/ \E r \in Results : Finish(c, r)
    \/ Lose \/ LoseMore

Spec == Init /\ [][Next]_sessionVars

=============================================================================
