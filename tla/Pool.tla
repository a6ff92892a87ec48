-------------------------------- MODULE Pool --------------------------------
(***************************************************************************)
(* pool.Pool: one puddle pool per replica address, round-robin Acquire     *)
(* with failover, the query and stream operations built on it, the health  *)
(* loop that replaces the pool of a dead replica, and Close.               *)
(*                                                                         *)
(* A puddle pool is external.  Each has MaxConns slots; a slot holds no    *)
(* connection, an idle one, or one that is out (being dialled or acquired; *)
(* "orphan" when whoever asked for the dial has given up).  puddle's Close *)
(* destroys the idle ones at once and then waits until no slot is out; it  *)
(* waits also when the pool was closed before.                             *)
(*                                                                         *)
(* The connections are those of Client: after the server's answer a        *)
(* connection is in sync, after any other error it may not be (suspect     *)
(* there, ~ok here).                                                       *)
(***************************************************************************)
EXTENDS Naturals, Sequences, FiniteSets

CONSTANTS
    Users,         \* goroutines that use the pool
    NumAddrs,      \* len(Config.Addrs)
    MaxConns,      \* Config.MaxConns, the size of each puddle pool
    MaxPools,      \* bound: puddle pools made for one address
    HealthChecks,  \* Config.HealthCheckInterval > 0
    Ops,           \* what users call: "query" (Exec, Select, Insert), "stream"
    Nested,        \* a user may query while it has a stream open
    Troubles       \* what may fail: "refused", "ctx", "network", "other"

ASSUME PoolAssumption ==
    /\ NumAddrs \in Nat \ {0} /\ MaxConns \in Nat \ {0} /\ MaxPools \in Nat \ {0}
    /\ HealthChecks \in BOOLEAN /\ Nested \in BOOLEAN
    /\ Ops \subseteq {"query", "stream"}
    /\ Troubles \subseteq {"refused", "ctx", "network", "other"}
    /\ Users \cap {"free", "health"} = {}

Addrs == 1..NumAddrs
Pools == Addrs \X (1..MaxPools)
Slots == 1..MaxConns
None == <<0, 0, 0>>
Handles == {None} \cup (Addrs \X (1..MaxPools) \X Slots)

VARIABLES
    closed,   \* Pool.closed
    dead,     \* addrPool.dead
    cur,      \* addrPool.p: which of the pools made for the address
    rrIdx,    \* Pool.rrIdx
    mu,       \* who holds Pool.mu across a wait
    shut,     \* the puddle pools that are closed
    slot,     \* the slots of each puddle pool
    pc,       \* what each user is doing
    op,       \* the operation: "query" or "stream"
    attempt,  \* 2 after a network error
    live,     \* Acquire's snapshot of the live replicas
    idx,      \* Acquire's position in it
    left,     \* tries left in Acquire's loop
    at,       \* the puddle pool Acquire has read from addrPool.p
    hold,     \* the connection of the user's operation
    stream,   \* the connection of the user's open stream
    health,   \* the health loop: [pc, todo], todo the dead replicas to probe
    closing   \* Close: [pc, i, g, seen], i the sub-pool it is closing; history:
              \* seen, the sub-pools there were when it was called

poolVars == <<closed, dead, cur, rrIdx, mu>>
puddleVars == <<shut, slot>>
walk == <<live, idx, left, at>>
userVars == <<pc, op, attempt, walk, hold, stream>>
vars == <<poolVars, puddleVars, userVars, health, closing>>

InAcquire == {"acquire", "try", "wait", "dial", "mark", "drain"}

TypeOK ==
    /\ closed \in BOOLEAN
    /\ dead \in [Addrs -> BOOLEAN]
    /\ cur \in [Addrs -> 1..MaxPools]
    /\ rrIdx \in 0..NumAddrs - 1
    /\ mu \in Users \cup {"free", "health"}
    /\ shut \subseteq Pools
    /\ slot \in [Pools -> [Slots -> [st : {"none", "idle", "out", "orphan"}, ok : BOOLEAN]]]
    /\ pc \in [Users -> InAcquire \cup {"idle", "run"}]
    /\ op \in [Users -> {"query", "stream"}]
    /\ attempt \in [Users -> {1, 2}]
    /\ live \in [Users -> Seq(Addrs)]
    /\ idx \in [Users -> 0..NumAddrs - 1]
    /\ left \in [Users -> 0..NumAddrs]
    /\ at \in [Users -> Pools]
    /\ hold \in [Users -> Handles]
    /\ stream \in [Users -> Handles]
    /\ health \in [pc : {"off", "wait", "probe", "lock", "drain"}, todo : SUBSET Addrs]
    /\ closing \in [pc : {"no", "next", "drain", "done"}, i : 1..NumAddrs + 1, g : 1..MaxPools,
                    seen : [Addrs -> 1..MaxPools]]

Empty == [st |-> "none", ok |-> TRUE]

\* New: the sub-pools are empty, no connection is dialled.
Init ==
    /\ closed = FALSE
    /\ dead = [a \in Addrs |-> FALSE]
    /\ cur = [a \in Addrs |-> 1]
    /\ rrIdx = 0
    /\ mu = "free"
    /\ shut = {}
    /\ slot = [p \in Pools |-> [k \in Slots |-> Empty]]
    /\ pc = [u \in Users |-> "idle"]
    /\ op = [u \in Users |-> "query"]
    /\ attempt = [u \in Users |-> 1]
    /\ live = [u \in Users |-> << >>]
    /\ idx = [u \in Users |-> 0]
    /\ left = [u \in Users |-> 0]
    /\ at = [u \in Users |-> <<1, 1>>]
    /\ hold = [u \in Users |-> None]
    /\ stream = [u \in Users |-> None]
    /\ health = [pc |-> IF HealthChecks THEN "wait" ELSE "off", todo |-> {}]
    /\ closing = [pc |-> "no", i |-> 1, g |-> 1, seen |-> [a \in Addrs |-> 1]]

-----------------------------------------------------------------------------
(* puddle. *)

SetSlot(h, s) == slot' = [slot EXCEPT ![<<h[1], h[2]>>][h[3]] = s]

\* Resource.Release: back to the idle ones, or destroyed if the pool is closed.
ReleaseSlot(h, ok) ==
    SetSlot(h, IF <<h[1], h[2]>> \in shut THEN Empty ELSE [st |-> "idle", ok |-> ok])
\* Resource.Destroy.
DestroySlot(h) == SetSlot(h, Empty)

\* The first half of puddle's Close.
Shut(p) ==
    /\ shut' = shut \cup {p}
    /\ slot' = [slot EXCEPT ![p] = [k \in Slots |-> IF @[k].st = "idle" THEN Empty ELSE @[k]]]
\* What its second half waits for.
Drained(p) == \A k \in Slots : slot[p][k].st \in {"none", "idle"}

\* A dial nobody waits for ends: its connection is released, or there is none.
OrphanDialEnds ==
    /\ \E p \in Pools, k \in Slots :
          /\ slot[p][k].st = "orphan"
          /\ \/ ReleaseSlot(<<p[1], p[2], k>>, TRUE)
             \/ DestroySlot(<<p[1], p[2], k>>)
    /\ UNCHANGED <<poolVars, shut, userVars, health, closing>>

-----------------------------------------------------------------------------
(* Acquire. *)

Finish(u) ==
    /\ pc' = [pc EXCEPT ![u] = "idle"]
    /\ op' = [op EXCEPT ![u] = "query"]
    /\ attempt' = [attempt EXCEPT ![u] = 1]
    /\ live' = [live EXCEPT ![u] = << >>]
    /\ idx' = [idx EXCEPT ![u] = 0]
    /\ left' = [left EXCEPT ![u] = 0]
    /\ at' = [at EXCEPT ![u] = <<1, 1>>]
    /\ hold' = [hold EXCEPT ![u] = None]

\* An operation starts with Acquire.
Start(u) ==
    /\ pc[u] = "idle" /\ (stream[u] = None \/ Nested)
    /\ \E o \in Ops :
          /\ o = "stream" => stream[u] = None
          /\ op' = [op EXCEPT ![u] = o]
    /\ pc' = [pc EXCEPT ![u] = "acquire"]
    /\ UNCHANGED <<poolVars, puddleVars, attempt, walk, hold, stream, health, closing>>

\* Fault: the round robin does not wrap.
NextIdxUnwrapped(i, k) == i + 1

\* The round robin's next position among k live replicas.
NextIdx(i, k) == (i + 1) % k

\* The replicas that are not dead, in the order of the addresses.
LiveReplicas ==
    LET alive == {a \in Addrs : ~dead[a]} IN
    CHOOSE s \in [1..Cardinality(alive) -> alive] : \A i, j \in DOMAIN s : i < j => s[i] < s[j]

\* The snapshot of the live replicas, under mu.
AcquireTop(u) ==
    /\ pc[u] = "acquire" /\ mu = "free"
    /\ \/ /\ closed \/ LiveReplicas = << >>
          /\ Finish(u)
          /\ UNCHANGED rrIdx
       \/ /\ ~closed /\ LiveReplicas # << >>
          /\ live' = [live EXCEPT ![u] = LiveReplicas]
          /\ left' = [left EXCEPT ![u] = Len(LiveReplicas)]
          /\ idx' = [idx EXCEPT ![u] = rrIdx % Len(LiveReplicas)]
          /\ rrIdx' = NextIdx(rrIdx % Len(LiveReplicas), Len(LiveReplicas))
          /\ pc' = [pc EXCEPT ![u] = "try"]
          /\ UNCHANGED <<op, attempt, at, hold>>
    /\ UNCHANGED <<closed, dead, cur, mu, puddleVars, stream, health, closing>>

\* The next replica; sp.p is read without mu.
TryNext(u) ==
    /\ pc[u] = "try" /\ left[u] > 0
    /\ LET a == live[u][idx[u] + 1] IN at' = [at EXCEPT ![u] = <<a, cur[a]>>]
    /\ idx' = [idx EXCEPT ![u] = NextIdx(@, Len(live[u]))]
    /\ left' = [left EXCEPT ![u] = @ - 1]
    /\ pc' = [pc EXCEPT ![u] = "wait"]
    /\ UNCHANGED <<poolVars, puddleVars, op, attempt, live, hold, stream, health, closing>>

\* No replica is left: the error depends on dead, which is read under mu.
Exhausted(u) ==
    /\ pc[u] = "try" /\ left[u] = 0 /\ mu = "free"
    /\ Finish(u)
    /\ UNCHANGED <<poolVars, puddleVars, stream, health, closing>>

\* puddle's Acquire: an idle connection, a free slot to dial in, or wait for
\* one; a closed pool says so once there is a slot.
PuddleAcquire(u) ==
    /\ pc[u] = "wait"
    /\ \E k \in Slots :
          /\ slot[at[u]][k].st \in {"none", "idle"}
          /\ \/ /\ at[u] \in shut
                /\ pc' = [pc EXCEPT ![u] = "try"]
                /\ UNCHANGED <<slot, hold>>
             \/ /\ at[u] \notin shut
                /\ slot[at[u]][k].st = "none" => \A j \in Slots : slot[at[u]][j].st # "idle"
                /\ slot' = [slot EXCEPT ![at[u]][k].st = "out"]
                /\ hold' = [hold EXCEPT ![u] = <<at[u][1], at[u][2], k>>]
                /\ pc' = [pc EXCEPT ![u] = IF slot[at[u]][k].st = "idle" THEN "run" ELSE "dial"]
    /\ UNCHANGED <<poolVars, shut, op, attempt, walk, stream, health, closing>>

\* The context ends the wait; Acquire returns without looking further.
WaitCancelled(u) ==
    /\ "ctx" \in Troubles
    /\ pc[u] = "wait"
    /\ Finish(u)
    /\ UNCHANGED <<poolVars, puddleVars, stream, health, closing>>

\* conn.Connect.  When it times out, or its pool is closed under it, Acquire
\* ends; any other error condemns the replica.
DialEnds(u) ==
    /\ pc[u] = "dial"
    /\ \/ /\ SetSlot(hold[u], [st |-> "out", ok |-> TRUE])
          /\ pc' = [pc EXCEPT ![u] = "run"]
          /\ UNCHANGED <<op, attempt, walk, hold>>
       \/ /\ at[u] \in shut \/ "ctx" \in Troubles
          /\ DestroySlot(hold[u])
          /\ Finish(u)
       \/ /\ "refused" \in Troubles
          /\ DestroySlot(hold[u])
          /\ pc' = [pc EXCEPT ![u] = "mark"]
          /\ hold' = [hold EXCEPT ![u] = None]
          /\ UNCHANGED <<op, attempt, walk>>
    /\ UNCHANGED <<poolVars, shut, stream, health, closing>>

\* The caller's context ends, and Acquire with it; the dial outlives both.
DialCancelled(u) ==
    /\ "ctx" \in Troubles
    /\ pc[u] = "dial"
    /\ SetSlot(hold[u], [st |-> "orphan", ok |-> TRUE])
    /\ Finish(u)
    /\ UNCHANGED <<poolVars, shut, stream, health, closing>>

\* Fault: Acquire does not wait for the connections that are out.
MarkDeadOnly(u) ==
    LET a == at[u][1] IN
    /\ pc[u] = "mark" /\ mu = "free"
    /\ dead' = [dead EXCEPT ![a] = TRUE]
    /\ IF dead[a] THEN UNCHANGED puddleVars ELSE Shut(<<a, cur[a]>>)
    /\ pc' = [pc EXCEPT ![u] = "try"]
    /\ UNCHANGED <<closed, cur, rrIdx, mu, op, attempt, walk, hold, stream, health, closing>>

\* The replica is marked dead and its pool, whichever it is by now, closed;
\* mu is held until that pool has no connection out.
MarkDead(u) ==
    LET a == at[u][1] IN
    /\ pc[u] = "mark" /\ mu = "free"
    /\ \/ /\ dead[a]
          /\ pc' = [pc EXCEPT ![u] = "try"]
          /\ UNCHANGED <<dead, mu, puddleVars>>
       \/ /\ ~dead[a]
          /\ dead' = [dead EXCEPT ![a] = TRUE]
          /\ Shut(<<a, cur[a]>>)
          /\ mu' = u
          /\ pc' = [pc EXCEPT ![u] = "drain"]
    /\ UNCHANGED <<closed, cur, rrIdx, op, attempt, walk, hold, stream, health, closing>>

MarkedDead(u) ==
    /\ pc[u] = "drain" /\ Drained(<<at[u][1], cur[at[u][1]]>>)
    /\ mu' = "free"
    /\ pc' = [pc EXCEPT ![u] = "try"]
    /\ UNCHANGED <<closed, dead, cur, rrIdx, puddleVars, op, attempt, walk, hold, stream, health, closing>>

-----------------------------------------------------------------------------
(* Exec, Select, Insert and the streams, on an acquired connection. *)

Ok(h) == slot[<<h[1], h[2]>>][h[3]].ok

\* The query returns without error.
QueryOk(u) ==
    /\ pc[u] = "run" /\ op[u] = "query"
    /\ ReleaseSlot(hold[u], Ok(hold[u]))
    /\ Finish(u)
    /\ UNCHANGED <<poolVars, shut, stream, health, closing>>

\* A network error on the first attempt: the connection is destroyed and the
\* query repeated on another.  On the second attempt the connection is
\* released whatever happened (the deferred Release).
QueryNetworkError(u) ==
    /\ "network" \in Troubles
    /\ pc[u] = "run" /\ op[u] = "query"
    /\ \/ /\ attempt[u] = 1
          /\ DestroySlot(hold[u])
          /\ hold' = [hold EXCEPT ![u] = None]
          /\ attempt' = [attempt EXCEPT ![u] = 2]
          /\ pc' = [pc EXCEPT ![u] = "acquire"]
          /\ UNCHANGED <<op, walk>>
       \/ /\ attempt[u] = 2
          /\ ReleaseSlot(hold[u], FALSE)
          /\ Finish(u)
    /\ UNCHANGED <<poolVars, shut, stream, health, closing>>

\* Any other error: the server's exception (in sync), a protocol error or the
\* context's end (not).
QueryError(u) ==
    /\ "other" \in Troubles
    /\ pc[u] = "run" /\ op[u] = "query"
    /\ \/ attempt[u] = 1 /\ DestroySlot(hold[u])
       \/ attempt[u] = 2 /\ \E ok \in {Ok(hold[u]), FALSE} : ReleaseSlot(hold[u], ok)
    /\ Finish(u)
    /\ UNCHANGED <<poolVars, shut, stream, health, closing>>

\* Fault: the connection is released when the stream has started.
StreamStartReleases(u) ==
    /\ pc[u] = "run" /\ op[u] = "stream"
    /\ stream' = [stream EXCEPT ![u] = hold[u]]
    /\ ReleaseSlot(hold[u], Ok(hold[u]))
    /\ Finish(u)
    /\ UNCHANGED <<poolVars, shut, health, closing>>

\* Fault: a start that fails does not release the connection.
StreamStartLeaks(u) ==
    /\ pc[u] = "run" /\ op[u] = "stream"
    /\ \/ stream' = [stream EXCEPT ![u] = hold[u]]
       \/ "other" \in Troubles /\ UNCHANGED stream
    /\ Finish(u)
    /\ UNCHANGED <<poolVars, puddleVars, health, closing>>

\* SelectStream and InsertStream; a start that fails releases the connection.
StreamStart(u) ==
    /\ pc[u] = "run" /\ op[u] = "stream"
    /\ \/ /\ stream' = [stream EXCEPT ![u] = hold[u]]
          /\ UNCHANGED slot
       \/ /\ "other" \in Troubles
          /\ \E ok \in {Ok(hold[u]), FALSE} : ReleaseSlot(hold[u], ok)
          /\ UNCHANGED stream
    /\ Finish(u)
    /\ UNCHANGED <<poolVars, shut, health, closing>>

\* The stream's Close: its release function is Unlock and Release, whether the
\* stream ended well or not.
StreamClose(u) ==
    /\ pc[u] = "idle" /\ stream[u] # None
    /\ \E ok \in {Ok(stream[u])} \cup (IF "other" \in Troubles THEN {FALSE} ELSE {}) :
          ReleaseSlot(stream[u], ok)
    /\ stream' = [stream EXCEPT ![u] = None]
    /\ UNCHANGED <<poolVars, shut, pc, op, attempt, walk, hold, health, closing>>

-----------------------------------------------------------------------------
(* The health loop. *)

\* A tick: the dead replicas, under mu.  select may choose the tick also when
\* stopCh is closed.
HealthTick ==
    /\ health.pc = "wait" /\ mu = "free"
    /\ \E a \in Addrs : dead[a]
    /\ health' = [pc |-> "probe", todo |-> {a \in Addrs : dead[a]}]
    /\ UNCHANGED <<poolVars, puddleVars, userVars, closing>>

HealthStop ==
    /\ health.pc = "wait" /\ closed
    /\ health' = [health EXCEPT !.pc = "off"]
    /\ UNCHANGED <<poolVars, puddleVars, userVars, closing>>

First(S) == CHOOSE a \in S : \A b \in S : a <= b

\* Connect to the replica and close again; on success a new pool is made.
HealthProbe ==
    /\ health.pc = "probe"
    /\ \/ /\ health.todo = {}
          /\ health' = [health EXCEPT !.pc = "wait"]
       \/ /\ health.todo # {}
          /\ health' = [health EXCEPT !.todo = @ \ {First(@)}]
       \/ /\ health.todo # {} /\ cur[First(health.todo)] < MaxPools
          /\ health' = [health EXCEPT !.pc = "lock"]
    /\ UNCHANGED <<poolVars, puddleVars, userVars, closing>>

\* Under mu: close the old pool (wait for it), then replace it.
HealthLock ==
    LET a == First(health.todo) IN
    /\ health.pc = "lock" /\ mu = "free"
    /\ mu' = "health"
    /\ Shut(<<a, cur[a]>>)
    /\ health' = [health EXCEPT !.pc = "drain"]
    /\ UNCHANGED <<closed, dead, cur, rrIdx, userVars, closing>>

\* Fault: the replica is revived with its closed pool.
HealthRevive ==
    LET a == First(health.todo) IN
    /\ health.pc = "drain" /\ Drained(<<a, cur[a]>>)
    /\ dead' = [dead EXCEPT ![a] = FALSE]
    /\ mu' = "free"
    /\ health' = [pc |-> "probe", todo |-> health.todo \ {a}]
    /\ UNCHANGED <<closed, cur, rrIdx, puddleVars, userVars, closing>>

HealthSwap ==
    LET a == First(health.todo) IN
    /\ health.pc = "drain" /\ Drained(<<a, cur[a]>>)
    /\ cur' = [cur EXCEPT ![a] = @ + 1]
    /\ dead' = [dead EXCEPT ![a] = FALSE]
    /\ mu' = "free"
    /\ health' = [pc |-> "probe", todo |-> health.todo \ {a}]
    /\ UNCHANGED <<closed, rrIdx, puddleVars, userVars, closing>>

-----------------------------------------------------------------------------
(* Close. *)

CloseStart ==
    /\ closing.pc = "no" /\ mu = "free"
    /\ closed' = TRUE
    /\ closing' = [closing EXCEPT !.pc = "next", !.seen = cur]
    /\ UNCHANGED <<dead, cur, rrIdx, mu, puddleVars, userVars, health>>

\* Fault: the last sub-pool is left out.
CloseSubButLast ==
    /\ closing.pc = "next"
    /\ \/ /\ closing.i < NumAddrs
          /\ Shut(<<closing.i, cur[closing.i]>>)
          /\ closing' = [closing EXCEPT !.pc = "drain", !.g = cur[closing.i]]
       \/ /\ closing.i >= NumAddrs
          /\ closing' = [closing EXCEPT !.pc = "done"]
          /\ UNCHANGED puddleVars
    /\ UNCHANGED <<poolVars, userVars, health>>

\* Each sub-pool in turn, its pool read without mu.
CloseSub ==
    /\ closing.pc = "next"
    /\ \/ /\ closing.i <= NumAddrs
          /\ Shut(<<closing.i, cur[closing.i]>>)
          /\ closing' = [closing EXCEPT !.pc = "drain", !.g = cur[closing.i]]
       \/ /\ closing.i > NumAddrs
          /\ closing' = [closing EXCEPT !.pc = "done"]
          /\ UNCHANGED puddleVars
    /\ UNCHANGED <<poolVars, userVars, health>>

CloseDrained ==
    /\ closing.pc = "drain" /\ Drained(<<closing.i, closing.g>>)
    /\ closing' = [closing EXCEPT !.pc = "next", !.i = @ + 1]
    /\ UNCHANGED <<poolVars, puddleVars, userVars, health>>

-----------------------------------------------------------------------------

Acquiring(u) ==
    \/ AcquireTop(u) \/ TryNext(u) \/ Exhausted(u) \/ PuddleAcquire(u) \/ WaitCancelled(u)
    \/ DialEnds(u) \/ DialCancelled(u) \/ MarkDead(u) \/ MarkedDead(u)

Using(u) ==
    \/ QueryOk(u) \/ QueryNetworkError(u) \/ QueryError(u)
    \/ StreamStart(u) \/ StreamClose(u)

HealthLoop == HealthTick \/ HealthStop \/ HealthProbe \/ HealthLock \/ HealthSwap

ClosePool == CloseStart \/ CloseSub \/ CloseDrained

Next ==
    \/ \E u \in Users : Start(u) \/ Acquiring(u) \/ Using(u)
    \/ OrphanDialEnds
    \/ HealthLoop
    \/ ClosePool

Spec == Init /\ [][Next]_vars

\* A step of Acquire that takes mu.
TakesMu(u) == AcquireTop(u) \/ Exhausted(u) \/ MarkDead(u)
\* A step of Acquire that waits for nobody, or for the pool to be drained.
GoesOn(u) == TryNext(u) \/ DialEnds(u) \/ MarkedDead(u)

\* A mutex and puddle's semaphore let everyone in who waits for them; dials,
\* queries and streams end in some way; whoever holds mu goes on as soon as the
\* pool is drained.  No context ever has to end (WaitCancelled, DialCancelled),
\* nor the pool to be closed.
Fairness ==
    /\ \A u \in Users :
          /\ SF_vars(TakesMu(u)) /\ SF_vars(PuddleAcquire(u))
          /\ WF_vars(GoesOn(u)) /\ WF_vars(Using(u))
    /\ WF_vars(OrphanDialEnds) /\ WF_vars(HealthSwap)

FairSpec == Spec /\ Fairness

-----------------------------------------------------------------------------
(* Properties. *)

\* A connection is in at most one pair of hands: the operation or the stream
\* of one user, and then it is not among the idle ones of its pool.
OneHolder ==
    \A u, v \in Users :
        /\ hold[u] # None => slot[<<hold[u][1], hold[u][2]>>][hold[u][3]].st = "out"
        /\ stream[u] # None => slot[<<stream[u][1], stream[u][2]>>][stream[u][3]].st = "out"
        /\ hold[u] # None => hold[u] # stream[v]
        /\ u # v /\ hold[u] # None => hold[u] # hold[v]
        /\ u # v /\ stream[u] # None => stream[u] # stream[v]

\* Acquire is never sent to a closed pool by the flags: a replica counts as
\* live only while the puddle pool behind it is open.
LiveIsOpen == \A a \in Addrs : ~closed /\ ~dead[a] => <<a, cur[a]>> \notin shut

\* A replica that is dead, once mu is free again, and a pool that the health
\* loop has replaced leave nothing behind: the puddle pool is closed and has no
\* connection, lent, idle or being dialled.
RetiredIsEmpty ==
    \A a \in Addrs, g \in 1..MaxPools :
        g < cur[a] \/ (g = cur[a] /\ dead[a] /\ mu = "free") =>
            <<a, g>> \in shut /\ \A k \in Slots : slot[<<a, g>>][k].st = "none"

\* "Close shuts down the pool and all sub-pools.": when Close has returned,
\* every sub-pool there was when it was called is closed, those that the health
\* loop had put in place of another included, and however the health loop goes on
\* meanwhile.
CloseShutsDown ==
    closing.pc = "done" =>
        \A a \in Addrs, g \in 1..MaxPools : g <= closing.seen[a] => <<a, g>> \in shut

\* Acquire returns a connection or an error, whatever the replicas do and though
\* no context ends, if users that hold a connection give it back without asking
\* for another (Nested).
AcquireReturns == \A u \in Users : pc[u] \in InAcquire ~> pc[u] \notin InAcquire

-----------------------------------------------------------------------------
(* What the comments say, and the code does not keep. *)

\* "Close shuts down the pool and all sub-pools." (pool.go:230): no sub-pool is
\* open when Close has returned.
AllShut == closing.pc = "done" => \A a \in Addrs, g \in 1..MaxPools : g <= cur[a] => <<a, g>> \in shut

\* "Release returns the connection to the pool for reuse." (poolconn.go:16): what
\* lies in a pool can be used again, that is, it is in step with its server.
IdleIsReusable == \A p \in Pools, k \in Slots : slot[p][k].st = "idle" => slot[p][k].ok

=============================================================================
