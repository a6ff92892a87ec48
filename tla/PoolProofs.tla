----------------------------- MODULE PoolProofs -----------------------------
(***************************************************************************)
(* Proofs about Pool, for any number of users, replicas, connections per   *)
(* pool and pools per replica.                                             *)
(***************************************************************************)
EXTENDS Pool, Counting

-----------------------------------------------------------------------------
(* The operators. *)

SlotStates == [st : {"none", "idle", "out", "orphan"}, ok : BOOLEAN]

\* A handle other than None names a pool and one of its slots.
LEMMA HandleParts ==
    ASSUME NEW h \in Handles, h # None
    PROVE  /\ h[1] \in Addrs /\ h[2] \in 1..MaxPools /\ h[3] \in Slots
           /\ <<h[1], h[2]>> \in Pools
           /\ h = <<h[1], h[2], h[3]>>
BY DEF Handles, Pools

\* A pool and one of its slots make a handle.
LEMMA HandleOf ==
    ASSUME NEW p \in Pools, NEW k \in Slots
    PROVE  /\ p = <<p[1], p[2]>> /\ p[1] \in Addrs /\ p[2] \in 1..MaxPools
           /\ <<p[1], p[2], k>> \in Handles /\ <<p[1], p[2], k>> # None
BY PoolAssumption DEF Handles, Pools, None, Addrs

\* SetSlot changes one slot, the one its handle names.
LEMMA SetSlotDoes ==
    ASSUME slot \in [Pools -> [Slots -> SlotStates]],
           NEW h \in Handles, h # None, NEW s \in SlotStates, SetSlot(h, s)
    PROVE  /\ slot' \in [Pools -> [Slots -> SlotStates]]
           /\ \A p \in Pools, k \in Slots :
                 slot'[p][k] = IF <<p[1], p[2], k>> = h THEN s ELSE slot[p][k]
<1>1. /\ h[3] \in Slots /\ <<h[1], h[2]>> \in Pools /\ h = <<h[1], h[2], h[3]>>
  BY HandleParts
<1>2. slot' = [slot EXCEPT ![<<h[1], h[2]>>] = [slot[<<h[1], h[2]>>] EXCEPT ![h[3]] = s]]
  BY DEF SetSlot
<1> DEFINE q == <<h[1], h[2]>>
<1>3. [slot[q] EXCEPT ![h[3]] = s] \in [Slots -> SlotStates]
  BY <1>1
<1>4. ASSUME NEW p \in Pools, NEW k \in Slots
      PROVE  slot'[p][k] = IF <<p[1], p[2], k>> = h THEN s ELSE slot[p][k]
  <2>1. p = <<p[1], p[2]>>
    BY HandleOf
  <2>2. <<p[1], p[2], k>> = h <=> p = q /\ k = h[3]
    BY <2>1, <1>1
  <2> HIDE DEF q
  <2> QED
    BY <2>2, <1>1, <1>2 DEF q
<1> HIDE DEF q
<1> QED
  BY <1>1, <1>2, <1>3, <1>4 DEF q

\* A connection that is given back is destroyed, or idle in a pool that is open.
LEMMA GivenBack ==
    ASSUME NEW h, NEW ok \in BOOLEAN, ReleaseSlot(h, ok) \/ DestroySlot(h)
    PROVE  \E s \in SlotStates :
              /\ SetSlot(h, s)
              /\ s = Empty \/ (<<h[1], h[2]>> \notin shut /\ s = [st |-> "idle", ok |-> ok])
<1>1. Empty \in SlotStates /\ [st |-> "idle", ok |-> ok] \in SlotStates
  BY DEF Empty, SlotStates
<1> QED
  BY <1>1 DEF ReleaseSlot, DestroySlot

\* Shut closes one pool and destroys its idle connections.
LEMMA ShutDoes ==
    ASSUME slot \in [Pools -> [Slots -> SlotStates]], NEW q \in Pools, Shut(q)
    PROVE  /\ slot' \in [Pools -> [Slots -> SlotStates]]
           /\ shut' = shut \cup {q}
           /\ \A p \in Pools, k \in Slots :
                 slot'[p][k] = IF p = q /\ slot[p][k].st = "idle" THEN Empty ELSE slot[p][k]
<1>1. Empty \in SlotStates
  BY DEF Empty, SlotStates
<1> QED
  BY <1>1 DEF Shut

\* There is an enumeration of the live replicas, and it has no more of them than
\* there are addresses.
LEMMA LiveType ==
    ASSUME dead \in [Addrs -> BOOLEAN]
    PROVE  /\ LiveReplicas \in Seq(Addrs)
           /\ Len(LiveReplicas) <= NumAddrs
           /\ LiveReplicas # << >> => Len(LiveReplicas) > 0
<1> DEFINE alive == {a \in Addrs : ~dead[a]}
           Up(s) == \A i, j \in DOMAIN s : i < j => s[i] < s[j]
<1>1. Cardinality(alive) \in 0..NumAddrs /\ \E s : Listed(s, alive)
  BY PoolAssumption, Listing DEF Addrs
<1>2. \E s \in [1..Cardinality(alive) -> alive] : Up(s)
  BY <1>1 DEF Listed
<1>3. LiveReplicas = CHOOSE s \in [1..Cardinality(alive) -> alive] : Up(s)
  BY DEF LiveReplicas
<1>4. LiveReplicas \in [1..Cardinality(alive) -> alive]
  BY <1>2, <1>3
<1>5. LiveReplicas \in [1..Cardinality(alive) -> Addrs]
  BY <1>4
<1> HIDE DEF alive
<1>6. LiveReplicas \in Seq(Addrs) /\ Len(LiveReplicas) = Cardinality(alive)
  BY <1>5, <1>1
<1> QED
  BY <1>1, <1>6

\* The round robin stays among the k live replicas.
LEMMA NextIdxType ==
    ASSUME NEW i \in Nat, NEW k \in Nat \ {0}
    PROVE  NextIdx(i, k) \in 0..k - 1 /\ i % k \in 0..k - 1
BY DEF NextIdx

\* The first of some replicas is one of them.
LEMMA FirstType ==
    ASSUME NEW S \in SUBSET Addrs, S # {}
    PROVE  First(S) \in S
<1>1. S \in SUBSET Nat
  BY DEF Addrs
<1>2. \E a \in S : \A b \in S : a <= b
  BY <1>1, Least
<1> QED
  BY <1>2 DEF First

-----------------------------------------------------------------------------
(* Types.  What the steps rely on besides the types: a user has a connection *)
(* exactly while it dials or runs, and Acquire's position is one of its      *)
(* snapshot.  mu is held by the user or the health loop that drains a pool,  *)
(* what the health loop has to do is about dead replicas, and Close drains a *)
(* pool there is.                                                            *)

Placed ==
    \A u \in Users :
        /\ pc[u] \in {"dial", "run"} <=> hold[u] # None
        /\ Len(live[u]) <= NumAddrs
        /\ left[u] > 0 => idx[u] < Len(live[u])

Locked ==
    /\ \A u \in Users : mu = u <=> pc[u] = "drain"
    /\ mu = "health" <=> health.pc = "drain"
    /\ \A u \in Users : pc[u] = "drain" => dead[at[u][1]]
    /\ \A a \in health.todo : dead[a]
    /\ health.pc \in {"lock", "drain"} => health.todo # {} /\ cur[First(health.todo)] < MaxPools
    /\ closing.pc = "drain" => closing.i <= NumAddrs

Typed == TypeOK /\ Placed /\ Locked

\* The state of the users is well typed, with Acquire's position in its snapshot.
Walking ==
    /\ pc \in [Users -> InAcquire \cup {"idle", "run"}]
    /\ op \in [Users -> {"query", "stream"}]
    /\ attempt \in [Users -> {1, 2}]
    /\ live \in [Users -> Seq(Addrs)]
    /\ idx \in [Users -> 0..NumAddrs - 1]
    /\ left \in [Users -> 0..NumAddrs]
    /\ at \in [Users -> Pools]
    /\ hold \in [Users -> Handles]
    /\ stream \in [Users -> Handles]
    /\ Placed

\* The state of the pool, the puddle pools and the loops is well typed.
Pooling ==
    /\ closed \in BOOLEAN
    /\ dead \in [Addrs -> BOOLEAN]
    /\ cur \in [Addrs -> 1..MaxPools]
    /\ rrIdx \in 0..NumAddrs - 1
    /\ mu \in Users \cup {"free", "health"}
    /\ shut \subseteq Pools
    /\ health \in [pc : {"off", "wait", "probe", "lock", "drain"}, todo : SUBSET Addrs]
    /\ closing \in [pc : {"no", "next", "drain", "done"}, i : 1..NumAddrs + 1, g : 1..MaxPools,
                    seen : [Addrs -> 1..MaxPools]]

SlotsTyped == slot \in [Pools -> [Slots -> SlotStates]]

\* The parts of the type invariant.
LEMMA TypedParts ==
    /\ Typed <=> Walking /\ Pooling /\ SlotsTyped /\ Locked
    /\ Typed' <=> Walking' /\ Pooling' /\ SlotsTyped' /\ Locked'
BY DEF Typed, TypeOK, Walking, Pooling, SlotsTyped, SlotStates

\* A step of a user that does not take or hold mu leaves who holds it.
LEMMA LockedKeeps ==
    ASSUME Locked, Walking, NEW u \in Users, pc[u] # "drain", pc'[u] # "drain",
           \A v \in Users \ {u} : pc'[v] = pc[v] /\ at'[v] = at[v],
           UNCHANGED <<dead, cur, mu, health, closing>>
    PROVE  Locked'
<1>1. \A v \in Users : pc'[v] = "drain" <=> pc[v] = "drain"
  OBVIOUS
<1>2. \A v \in Users : pc[v] = "drain" => at'[v] = at[v]
  OBVIOUS
<1> QED
  BY <1>1, <1>2 DEF Locked

\* When an operation ends, its user's state is that of one that is idle.
LEMMA FinishType ==
    ASSUME Walking, NEW u \in Users, Finish(u), stream' \in [Users -> Handles]
    PROVE  /\ Walking'
           /\ pc'[u] = "idle"
           /\ \A v \in Users \ {u} : pc'[v] = pc[v] /\ at'[v] = at[v]
<1>1. <<1, 1>> \in Pools /\ 0 \in 0..NumAddrs - 1 /\ 0 \in 0..NumAddrs
  BY PoolAssumption DEF Pools, Addrs
<1>2. None \in Handles /\ << >> \in Seq(Addrs) /\ Len(<< >>) = 0
  BY DEF Handles
<1>3. Placed'
  <2>1. \A v \in Users \ {u} :
          /\ pc'[v] = pc[v] /\ hold'[v] = hold[v] /\ live'[v] = live[v]
          /\ left'[v] = left[v] /\ idx'[v] = idx[v]
    BY DEF Walking, Finish
  <2>2. pc'[u] = "idle" /\ hold'[u] = None /\ live'[u] = << >> /\ left'[u] = 0
    BY DEF Walking, Finish
  <2>3. \A v \in Users \ {u} :
          /\ pc'[v] \in {"dial", "run"} <=> hold'[v] # None
          /\ Len(live'[v]) <= NumAddrs
          /\ left'[v] > 0 => idx'[v] < Len(live'[v])
    BY <2>1 DEF Walking, Placed
  <2>4. /\ pc'[u] \in {"dial", "run"} <=> hold'[u] # None
        /\ Len(live'[u]) <= NumAddrs
        /\ ~(left'[u] > 0)
    BY <1>2, <2>2, PoolAssumption
  <2> QED
    BY <2>3, <2>4 DEF Placed
<1>4. /\ pc'[u] = "idle"
      /\ \A v \in Users \ {u} : pc'[v] = pc[v] /\ at'[v] = at[v]
  BY DEF Walking, Finish
<1> QED
  BY <1>1, <1>2, <1>3, <1>4 DEF Walking, Finish, InAcquire

\* The same for the whole state, when the step changes nothing but a slot and
\* possibly ends with the connection in the user's stream.
LEMMA FinishTyped ==
    ASSUME Typed, NEW u \in Users, Finish(u), stream' \in [Users -> Handles], SlotsTyped',
           pc[u] # "drain", UNCHANGED <<poolVars, shut, health, closing>>
    PROVE  Typed'
<1>1. UNCHANGED <<closed, dead, cur, rrIdx, mu, shut, health, closing>>
  BY DEF poolVars
<1>2. Walking' /\ Locked'
  BY <1>1, TypedParts, FinishType, LockedKeeps
<1>3. Pooling'
  BY <1>1, TypedParts DEF Pooling
<1> QED
  BY <1>2, <1>3, TypedParts

\* The same for a step that changes the user's place, its connection or a slot.
LEMMA MoveTyped ==
    ASSUME Typed, NEW u \in Users, Walking', SlotsTyped', pc[u] # "drain", pc'[u] # "drain",
           \A v \in Users \ {u} : pc'[v] = pc[v] /\ at'[v] = at[v],
           UNCHANGED <<closed, dead, cur, mu, shut, health, closing>>,
           rrIdx' \in 0..NumAddrs - 1
    PROVE  Typed'
<1>1. Locked'
  BY TypedParts, LockedKeeps
<1>2. Pooling'
  BY TypedParts DEF Pooling
<1> QED
  BY <1>1, <1>2, TypedParts

\* The start of an operation and the walk over the replicas keep the types.
LEMMA WalkType ==
    ASSUME Typed, NEW u \in Users,
           Start(u) \/ AcquireTop(u) \/ TryNext(u) \/ Exhausted(u) \/ WaitCancelled(u)
    PROVE  Typed'
<1>1. Walking /\ Pooling /\ SlotsTyped /\ Locked
  BY TypedParts
<1> USE DEF poolVars, puddleVars, walk
<1>2. CASE Start(u)
  <2>1. Walking'
    BY <1>1, <1>2, PoolAssumption DEF Start, Walking, Placed, InAcquire
  <2> QED
    BY <1>1, <1>2, <2>1, MoveTyped DEF Start, Walking, Pooling, SlotsTyped
<1>3. CASE AcquireTop(u)
  <2>1. CASE Finish(u) /\ UNCHANGED rrIdx
    BY <1>1, <1>3, <2>1, FinishTyped DEF AcquireTop, Walking, SlotsTyped
  <2>2. CASE ~closed /\ LiveReplicas # << >> /\ ~(Finish(u) /\ UNCHANGED rrIdx)
    <3>1. LiveReplicas \in Seq(Addrs) /\ Len(LiveReplicas) \in 1..NumAddrs
      <4>1. /\ LiveReplicas \in Seq(Addrs) /\ Len(LiveReplicas) <= NumAddrs
            /\ Len(LiveReplicas) > 0
        BY <1>1, <2>2, LiveType DEF Pooling
      <4>2. Len(LiveReplicas) \in Nat
        BY <4>1
      <4> QED
        BY <4>1, <4>2, PoolAssumption
    <3> DEFINE n == Len(LiveReplicas)
    <3>2. rrIdx % n \in 0..n - 1 /\ NextIdx(rrIdx % n, n) \in 0..n - 1
      <4>1. rrIdx \in Nat /\ n \in Nat \ {0}
        BY <1>1, <3>1, PoolAssumption DEF Pooling
      <4>2. rrIdx % n \in 0..n - 1
        BY <4>1, NextIdxType
      <4>3. rrIdx % n \in Nat
        BY <4>1, <4>2
      <4> QED
        BY <4>1, <4>2, <4>3, NextIdxType
    <3>3. /\ live' = [live EXCEPT ![u] = LiveReplicas]
          /\ left' = [left EXCEPT ![u] = n]
          /\ idx' = [idx EXCEPT ![u] = rrIdx % n]
          /\ rrIdx' = NextIdx(rrIdx % n, n)
          /\ pc' = [pc EXCEPT ![u] = "try"]
          /\ UNCHANGED <<op, attempt, at, hold>>
      BY <1>3, <2>2 DEF AcquireTop
    <3>4. /\ UNCHANGED <<closed, dead, cur, mu, shut, slot, stream, health, closing>>
          /\ pc[u] = "acquire"
      BY <1>3 DEF AcquireTop
    <3> DEFINE i0 == rrIdx % n
               i1 == NextIdx(rrIdx % n, n)
    <3>5. n \in 1..NumAddrs /\ n = Len(LiveReplicas) /\ i0 \in 0..n - 1 /\ i1 \in 0..n - 1
      BY <3>1, <3>2
    <3>6. idx' = [idx EXCEPT ![u] = i0] /\ rrIdx' = i1 /\ left' = [left EXCEPT ![u] = n]
      BY <3>3
    <3> HIDE DEF n, i0, i1
    <3>7. i0 \in 0..NumAddrs - 1 /\ i1 \in 0..NumAddrs - 1 /\ n \in 0..NumAddrs /\ i0 < n
      BY <3>5, PoolAssumption
    <3>8. Walking'
      BY <1>1, <3>1, <3>3, <3>4, <3>5, <3>6, <3>7 DEF Walking, Placed, InAcquire
    <3>9. SlotsTyped'
      BY <1>1, <3>4 DEF SlotsTyped
    <3>10. pc[u] # "drain" /\ pc'[u] # "drain" /\ \A v \in Users \ {u} : pc'[v] = pc[v] /\ at'[v] = at[v]
      BY <1>1, <3>3, <3>4 DEF Walking
    <3> QED
      BY <3>4, <3>6, <3>7, <3>8, <3>9, <3>10, MoveTyped
  <2> QED
    BY <2>1, <2>2, <1>3 DEF AcquireTop
<1>4. CASE TryNext(u)
  <2> DEFINE a == live[u][idx[u] + 1]
             n == Len(live[u])
             i1 == NextIdx(idx[u], n)
  <2>1. n \in Nat \ {0} /\ n <= NumAddrs /\ idx[u] \in Nat /\ idx[u] + 1 \in 1..n
    BY <1>1, <1>4 DEF TryNext, Walking, Placed
  <2>2. a \in Addrs
    BY <1>1, <2>1 DEF Walking
  <2>3. cur[a] \in 1..MaxPools /\ <<a, cur[a]>> \in Pools
    BY <1>1, <2>2 DEF Pooling, Pools
  <2>4. i1 \in 0..n - 1
    BY <2>1, NextIdxType
  <2>5. /\ at' = [at EXCEPT ![u] = <<a, cur[a]>>]
        /\ idx' = [idx EXCEPT ![u] = i1]
        /\ left' = [left EXCEPT ![u] = left[u] - 1]
        /\ pc' = [pc EXCEPT ![u] = "wait"]
        /\ left[u] > 0 /\ pc[u] = "try"
        /\ UNCHANGED <<closed, dead, cur, rrIdx, mu, shut, slot>>
        /\ UNCHANGED <<op, attempt, live, hold, stream, health, closing>>
    BY <1>1, <1>4 DEF TryNext, Walking
  <2> HIDE DEF a, i1
  <2>6. i1 \in 0..NumAddrs - 1 /\ i1 < n /\ left[u] - 1 \in 0..NumAddrs
    BY <1>1, <2>1, <2>4, <2>5, PoolAssumption DEF Walking
  <2>7. Walking'
    BY <1>1, <2>1, <2>3, <2>5, <2>6 DEF Walking, Placed, InAcquire
  <2> QED
    BY <1>1, <2>5, <2>7, MoveTyped DEF Walking, Pooling, SlotsTyped
<1>5. CASE Exhausted(u)
  BY <1>1, <1>5, FinishTyped DEF Exhausted, Walking, SlotsTyped
<1>6. CASE WaitCancelled(u)
  BY <1>1, <1>6, FinishTyped DEF WaitCancelled, Walking, SlotsTyped
<1> QED
  BY <1>2, <1>3, <1>4, <1>5, <1>6

\* What puddle's Acquire does to the slots, when it gives a connection.
LEMMA LendDoes ==
    ASSUME SlotsTyped, NEW q \in Pools, NEW j \in Slots,
           slot' = [slot EXCEPT ![q][j].st = "out"]
    PROVE  /\ SlotsTyped'
           /\ \A p \in Pools, k \in Slots :
                 /\ slot'[p][k].st = IF p = q /\ k = j THEN "out" ELSE slot[p][k].st
                 /\ slot'[p][k].ok = slot[p][k].ok
BY DEF SlotsTyped, SlotStates

\* Getting a connection from puddle, and dialling it, keep the types.
LEMMA LendType ==
    ASSUME Typed, NEW u \in Users, PuddleAcquire(u) \/ DialEnds(u) \/ DialCancelled(u)
    PROVE  Typed'
<1>1. Walking /\ Pooling /\ SlotsTyped /\ Locked
  BY TypedParts
<1> USE DEF poolVars, walk
<1>2. CASE PuddleAcquire(u)
  <2>1. PICK k \in Slots :
          /\ slot[at[u]][k].st \in {"none", "idle"}
          /\ \/ /\ at[u] \in shut
                /\ pc' = [pc EXCEPT ![u] = "try"]
                /\ UNCHANGED <<slot, hold>>
             \/ /\ slot' = [slot EXCEPT ![at[u]][k].st = "out"]
                /\ hold' = [hold EXCEPT ![u] = <<at[u][1], at[u][2], k>>]
                /\ pc' = [pc EXCEPT ![u] = IF slot[at[u]][k].st = "idle" THEN "run" ELSE "dial"]
    BY <1>2 DEF PuddleAcquire
  <2>2. /\ pc[u] = "wait"
        /\ UNCHANGED <<closed, dead, cur, rrIdx, mu, shut, op, attempt>>
        /\ UNCHANGED <<live, idx, left, at, stream, health, closing>>
    BY <1>2 DEF PuddleAcquire
  <2>3. /\ at[u] \in Pools
        /\ <<at[u][1], at[u][2], k>> \in Handles /\ <<at[u][1], at[u][2], k>> # None
    BY <1>1, HandleOf DEF Walking
  <2>4. SlotsTyped'
    BY <1>1, <2>1, <2>3, LendDoes DEF SlotsTyped
  <2>5. Walking'
    <3>1. \/ pc' = [pc EXCEPT ![u] = "try"] /\ hold' = hold
          \/ \E h \in Handles \ {None}, x \in {"dial", "run"} :
                hold' = [hold EXCEPT ![u] = h] /\ pc' = [pc EXCEPT ![u] = x]
      BY <2>1, <2>3
    <3>2. CASE pc' = [pc EXCEPT ![u] = "try"] /\ hold' = hold
      BY <1>1, <2>2, <3>2 DEF Walking, Placed, InAcquire
    <3>3. ASSUME NEW h \in Handles \ {None}, NEW x \in {"dial", "run"},
                 hold' = [hold EXCEPT ![u] = h], pc' = [pc EXCEPT ![u] = x]
          PROVE  Walking'
      BY <1>1, <2>2, <3>3 DEF Walking, Placed, InAcquire
    <3> QED
      BY <3>1, <3>2, <3>3
  <2> QED
    BY <1>1, <2>1, <2>2, <2>4, <2>5, MoveTyped DEF Walking, Pooling
<1>3. CASE DialEnds(u) \/ DialCancelled(u)
  <2>1. /\ pc[u] = "dial" /\ hold[u] \in Handles /\ hold[u] # None
        /\ UNCHANGED <<closed, dead, cur, rrIdx, mu, shut, stream, health, closing>>
    BY <1>1, <1>3 DEF DialEnds, DialCancelled, Walking, Placed
  <2>2. /\ [st |-> "out", ok |-> TRUE] \in SlotStates
        /\ [st |-> "orphan", ok |-> TRUE] \in SlotStates /\ Empty \in SlotStates
    BY DEF SlotStates, Empty
  <2>3. SlotsTyped'
    BY <1>1, <1>3, <2>1, <2>2, SetSlotDoes DEF DialEnds, DialCancelled, DestroySlot, SlotsTyped
  <2>4. CASE Finish(u)
    BY <1>1, <2>1, <2>3, <2>4, FinishTyped DEF Walking
  <2>5. CASE pc' = [pc EXCEPT ![u] = "run"] /\ UNCHANGED <<op, attempt, live, idx, left, at, hold>>
    <3>1. Walking'
      BY <1>1, <2>1, <2>5 DEF Walking, Placed
    <3> QED
      BY <1>1, <2>1, <2>3, <2>5, <3>1, MoveTyped DEF Walking, Pooling
  <2>6. CASE /\ pc' = [pc EXCEPT ![u] = "mark"] /\ hold' = [hold EXCEPT ![u] = None]
             /\ UNCHANGED <<op, attempt, live, idx, left, at>>
    <3>1. None \in Handles
      BY DEF Handles
    <3>2. Walking'
      BY <1>1, <2>1, <2>6, <3>1 DEF Walking, Placed, InAcquire
    <3> QED
      BY <1>1, <2>1, <2>3, <2>6, <3>2, MoveTyped DEF Walking, Pooling
  <2> QED
    BY <2>4, <2>5, <2>6, <1>3 DEF DialEnds, DialCancelled
<1> QED
  BY <1>2, <1>3

\* The operations on an acquired connection keep the types.
LEMMA UsingType ==
    ASSUME Typed, NEW u \in Users, Using(u)
    PROVE  Typed'
<1>1. Walking /\ Pooling /\ SlotsTyped /\ Locked
  BY TypedParts
<1>2. ASSUME NEW h \in Handles, h # None
      PROVE  /\ Ok(h) \in BOOLEAN
             /\ \A ok \in BOOLEAN : ReleaseSlot(h, ok) \/ DestroySlot(h) => SlotsTyped'
  <2>1. h[3] \in Slots /\ <<h[1], h[2]>> \in Pools
    BY <1>2, HandleParts
  <2>2. Ok(h) \in BOOLEAN
    BY <1>1, <2>1 DEF Ok, SlotsTyped, SlotStates
  <2>3. ASSUME NEW ok \in BOOLEAN, ReleaseSlot(h, ok) \/ DestroySlot(h)
        PROVE  SlotsTyped'
    <3>1. PICK s \in SlotStates : SetSlot(h, s)
      BY <2>3, GivenBack
    <3> QED
      BY <1>1, <1>2, <3>1, SetSlotDoes DEF SlotsTyped
  <2> QED
    BY <2>2, <2>3
<1>3. /\ hold[u] \in Handles /\ stream[u] \in Handles
      /\ pc[u] = "run" => hold[u] # None
      /\ FALSE \in BOOLEAN
  BY <1>1 DEF Walking, Placed
<1> USE DEF poolVars, walk
<1>4. CASE QueryOk(u)
  <2>1. SlotsTyped'
    BY <1>2, <1>3, <1>4 DEF QueryOk
  <2> QED
    BY <1>1, <1>4, <2>1, FinishTyped DEF QueryOk, Walking
<1>5. CASE QueryNetworkError(u)
  <2>1. SlotsTyped'
    BY <1>2, <1>3, <1>5 DEF QueryNetworkError
  <2>2. CASE Finish(u)
    BY <1>1, <1>5, <2>1, <2>2, FinishTyped DEF QueryNetworkError, Walking
  <2>3. CASE /\ hold' = [hold EXCEPT ![u] = None]
             /\ attempt' = [attempt EXCEPT ![u] = 2]
             /\ pc' = [pc EXCEPT ![u] = "acquire"]
             /\ UNCHANGED <<op, live, idx, left, at>>
    <3>1. None \in Handles
      BY DEF Handles
    <3>2. pc[u] = "run" /\ UNCHANGED <<closed, dead, cur, rrIdx, mu, shut, stream, health, closing>>
      BY <1>5 DEF QueryNetworkError
    <3>3. Walking'
      BY <1>1, <2>3, <3>1, <3>2 DEF Walking, Placed, InAcquire
    <3> QED
      BY <1>1, <2>1, <2>3, <3>2, <3>3, MoveTyped DEF Walking, Pooling
  <2> QED
    BY <1>5, <2>2, <2>3 DEF QueryNetworkError
<1>6. CASE QueryError(u)
  <2>1. SlotsTyped'
    BY <1>2, <1>3, <1>6 DEF QueryError
  <2> QED
    BY <1>1, <1>6, <2>1, FinishTyped DEF QueryError, Walking
<1>7. CASE StreamStart(u)
  <2>1. SlotsTyped'
    BY <1>1, <1>2, <1>3, <1>7 DEF StreamStart, SlotsTyped
  <2>2. stream' \in [Users -> Handles]
    BY <1>1, <1>3, <1>7 DEF StreamStart, Walking
  <2> QED
    BY <1>1, <1>7, <2>1, <2>2, FinishTyped DEF StreamStart
<1>8. CASE StreamClose(u)
  <2>1. SlotsTyped'
    BY <1>2, <1>3, <1>8 DEF StreamClose
  <2>2. Walking'
    BY <1>1, <1>8 DEF StreamClose, Walking, Placed, Handles
  <2> QED
    BY <1>1, <1>8, <2>1, <2>2, MoveTyped DEF StreamClose, Walking, Pooling
<1> QED
  BY <1>4, <1>5, <1>6, <1>7, <1>8 DEF Using

\* Condemning a replica, and the wait for its pool, keep the types.
LEMMA MarkType ==
    ASSUME Typed, NEW u \in Users, MarkDead(u) \/ MarkedDead(u)
    PROVE  Typed'
<1>1. Walking /\ Pooling /\ SlotsTyped /\ Locked
  BY TypedParts
<1> USE DEF poolVars, puddleVars, walk
<1> DEFINE a == at[u][1]
<1>2. at[u] \in Pools /\ a \in Addrs /\ <<a, cur[a]>> \in Pools
  BY <1>1 DEF Walking, Pooling, Pools
<1>3. u \notin {"free", "health"}
  BY PoolAssumption
<1>4. CASE MarkDead(u)
  <2>1. /\ pc[u] = "mark" /\ mu = "free"
        /\ UNCHANGED <<closed, cur, rrIdx, op, attempt, live, idx, left, at, hold, stream, health, closing>>
    BY <1>4 DEF MarkDead
  <2>2. CASE /\ pc' = [pc EXCEPT ![u] = "try"]
             /\ UNCHANGED <<dead, mu, shut, slot>>
    <3>1. Walking'
      BY <1>1, <2>1, <2>2 DEF Walking, Placed, InAcquire
    <3> QED
      BY <1>1, <2>1, <2>2, <3>1, MoveTyped DEF Walking, Pooling, SlotsTyped
  <2>3. CASE /\ dead' = [dead EXCEPT ![a] = TRUE]
             /\ Shut(<<a, cur[a]>>)
             /\ mu' = u
             /\ pc' = [pc EXCEPT ![u] = "drain"]
    <3>1. Walking'
      BY <1>1, <2>1, <2>3 DEF Walking, Placed, InAcquire
    <3>2. SlotsTyped' /\ shut' = shut \cup {<<a, cur[a]>>}
      BY <1>1, <1>2, <2>3, ShutDoes DEF SlotsTyped
    <3>3. Pooling'
      BY <1>1, <1>2, <2>1, <2>3, <3>2 DEF Pooling
    <3>4. Locked'
      <4>1. \A v \in Users : pc'[v] = "drain" <=> v = u
        BY <1>1, <2>1, <2>3, PoolAssumption DEF Walking, Locked
      <4>2. dead' \in [Addrs -> BOOLEAN] /\ dead'[a] /\ \A b \in Addrs : dead[b] => dead'[b]
        BY <1>1, <1>2, <2>3 DEF Pooling
      <4>3. health'.pc # "drain"
        BY <1>1, <2>1 DEF Locked
      <4>4. \A b \in health'.todo : dead'[b]
        BY <1>1, <2>1, <4>2 DEF Locked, Pooling
      <4>5. mu' = u /\ at' = at /\ cur' = cur /\ health' = health /\ closing' = closing
        BY <2>1, <2>3
      <4> QED
        BY <1>1, <1>3, <4>1, <4>2, <4>3, <4>4, <4>5 DEF Locked
    <3> QED
      BY <3>1, <3>2, <3>3, <3>4, TypedParts
  <2> QED
    BY <1>4, <2>2, <2>3 DEF MarkDead
<1>5. CASE MarkedDead(u)
  <2>1. /\ pc[u] = "drain" /\ mu' = "free" /\ pc' = [pc EXCEPT ![u] = "try"]
        /\ UNCHANGED <<closed, dead, cur, rrIdx, shut, slot, op, attempt>>
        /\ UNCHANGED <<live, idx, left, at, hold, stream, health, closing>>
    BY <1>5 DEF MarkedDead
  <2>2. Walking'
    BY <1>1, <2>1 DEF Walking, Placed, InAcquire
  <2>3. Pooling' /\ SlotsTyped'
    BY <1>1, <2>1 DEF Pooling, SlotsTyped
  <2>4. Locked'
    <3>1. mu = u
      BY <1>1, <2>1 DEF Locked
    <3>2. \A v \in Users : pc'[v] # "drain"
      BY <1>1, <2>1, <3>1 DEF Walking, Locked
    <3>3. mu' \notin Users /\ mu' # "health" /\ health'.pc # "drain"
      BY <1>1, <1>3, <2>1, <3>1, PoolAssumption DEF Locked
    <3> QED
      BY <1>1, <2>1, <3>2, <3>3 DEF Locked
  <2> QED
    BY <2>2, <2>3, <2>4, TypedParts
<1> QED
  BY <1>4, <1>5

\* The health loop keeps the types.
LEMMA HealthType ==
    ASSUME Typed, HealthLoop
    PROVE  Typed'
<1>1. Walking /\ Pooling /\ SlotsTyped /\ Locked
  BY TypedParts
<1> USE DEF poolVars, puddleVars, walk, userVars
<1>2. Walking'
  BY <1>1 DEF HealthLoop, HealthTick, HealthStop, HealthProbe, HealthLock, HealthSwap, Walking, Placed
<1>3. UNCHANGED <<pc, at, closing, closed, rrIdx>>
  BY DEF HealthLoop, HealthTick, HealthStop, HealthProbe, HealthLock, HealthSwap
<1>4. health.todo \subseteq Addrs
  BY <1>1 DEF Pooling
<1> DEFINE a == First(health.todo)
<1>5. health.todo # {} => a \in health.todo /\ a \in Addrs /\ <<a, cur[a]>> \in Pools
  <2>1. health.todo # {} => a \in health.todo
    BY <1>4, FirstType
  <2> HIDE DEF a
  <2> QED
    BY <1>1, <1>4, <2>1 DEF Pooling, Pools
<1>6. CASE HealthTick
  <2>1. UNCHANGED <<dead, cur, mu, shut, slot>> /\ health.pc = "wait"
    BY <1>6 DEF HealthTick
  <2>2. health' = [pc |-> "probe", todo |-> {b \in Addrs : dead[b]}]
    BY <1>6 DEF HealthTick
  <2>3. Pooling' /\ SlotsTyped'
    BY <1>1, <1>3, <2>1, <2>2 DEF Pooling, SlotsTyped
  <2>4. Locked'
    BY <1>1, <1>3, <2>1, <2>2 DEF Locked
  <2> QED
    BY <1>2, <2>3, <2>4, TypedParts
<1>7. CASE HealthStop
  <2>1. UNCHANGED <<dead, cur, mu, shut, slot>> /\ health.pc = "wait"
    BY <1>7 DEF HealthStop
  <2>2. health'.pc = "off" /\ health'.todo = health.todo
        /\ health' \in [pc : {"off", "wait", "probe", "lock", "drain"}, todo : SUBSET Addrs]
    BY <1>1, <1>7 DEF HealthStop, Pooling
  <2>3. Pooling' /\ SlotsTyped'
    BY <1>1, <1>3, <2>1, <2>2 DEF Pooling, SlotsTyped
  <2>4. Locked'
    BY <1>1, <1>3, <2>1, <2>2 DEF Locked
  <2> QED
    BY <1>2, <2>3, <2>4, TypedParts
<1>8. CASE HealthProbe
  <2>1. UNCHANGED <<dead, cur, mu, shut, slot>> /\ health.pc = "probe"
    BY <1>8 DEF HealthProbe
  <2>2. /\ health' \in [pc : {"off", "wait", "probe", "lock", "drain"}, todo : SUBSET Addrs]
        /\ health'.todo \subseteq health.todo
        /\ \/ health'.pc \in {"wait", "probe"}
           \/ health'.pc = "lock" /\ health'.todo = health.todo /\ health.todo # {} /\ cur[a] < MaxPools
    BY <1>1, <1>8 DEF HealthProbe, Pooling
  <2>3. Pooling' /\ SlotsTyped'
    BY <1>1, <1>3, <2>1, <2>2 DEF Pooling, SlotsTyped
  <2>4. Locked'
    BY <1>1, <1>3, <2>1, <2>2 DEF Locked
  <2> QED
    BY <1>2, <2>3, <2>4, TypedParts
<1>9. CASE HealthLock
  <2>1. /\ health.pc = "lock" /\ mu = "free" /\ mu' = "health" /\ UNCHANGED <<dead, cur>>
        /\ Shut(<<a, cur[a]>>)
    BY <1>9 DEF HealthLock
  <2>2. health'.pc = "drain" /\ health'.todo = health.todo
        /\ health' \in [pc : {"off", "wait", "probe", "lock", "drain"}, todo : SUBSET Addrs]
    BY <1>1, <1>9 DEF HealthLock, Pooling
  <2>3. health.todo # {} /\ cur[a] < MaxPools
    BY <1>1, <2>1 DEF Locked
  <2>4. SlotsTyped' /\ shut' = shut \cup {<<a, cur[a]>>}
    BY <1>1, <1>5, <2>1, <2>3, ShutDoes DEF SlotsTyped
  <2>5. Pooling'
    BY <1>1, <1>3, <1>5, <2>1, <2>2, <2>3, <2>4 DEF Pooling
  <2>6. Locked'
    BY <1>1, <1>3, <2>1, <2>2, <2>3, PoolAssumption DEF Locked
  <2> QED
    BY <1>2, <2>4, <2>5, <2>6, TypedParts
<1>10. CASE HealthSwap
  <2>1. /\ health.pc = "drain" /\ mu' = "free" /\ UNCHANGED <<shut, slot>>
        /\ cur' = [cur EXCEPT ![a] = cur[a] + 1]
        /\ dead' = [dead EXCEPT ![a] = FALSE]
        /\ health' = [pc |-> "probe", todo |-> health.todo \ {a}]
    BY <1>1, <1>10 DEF HealthSwap, Pooling
  <2>2. health.todo # {} /\ cur[a] < MaxPools /\ mu = "health"
    BY <1>1, <2>1 DEF Locked
  <2> HIDE DEF a
  <2>3. cur[a] + 1 \in 1..MaxPools
    BY <1>1, <1>5, <2>2, PoolAssumption DEF Pooling
  <2>4. Pooling' /\ SlotsTyped'
    BY <1>1, <1>3, <1>5, <2>1, <2>2, <2>3 DEF Pooling, SlotsTyped
  <2>5. Locked'
    <3>1. \A v \in Users : pc'[v] # "drain" /\ mu' # v
      BY <1>1, <1>3, <2>1, <2>2, PoolAssumption DEF Locked
    <3>2. \A b \in health'.todo : dead'[b]
      BY <1>1, <1>4, <2>1 DEF Locked, Pooling
    <3> QED
      BY <1>1, <1>3, <2>1, <3>1, <3>2 DEF Locked
  <2> QED
    BY <1>2, <2>4, <2>5, TypedParts
<1> QED
  BY <1>6, <1>7, <1>8, <1>9, <1>10 DEF HealthLoop

\* Close, and the end of a dial that nobody waits for, keep the types.
LEMMA CloseType ==
    ASSUME Typed, ClosePool \/ OrphanDialEnds
    PROVE  Typed'
<1>1. Walking /\ Pooling /\ SlotsTyped /\ Locked
  BY TypedParts
<1> USE DEF poolVars, puddleVars, walk, userVars
<1> DEFINE Drains == closing.pc = "drain" => closing.i <= NumAddrs
<1>2. Walking' /\ (Drains' => Locked')
  <2>1. UNCHANGED <<pc, op, attempt, live, idx, left, at, hold, stream, dead, cur, mu, health>>
    BY DEF ClosePool, CloseStart, CloseSub, CloseDrained, OrphanDialEnds
  <2> QED
    BY <1>1, <2>1 DEF Walking, Placed, Locked
<1>3. CASE CloseStart
  <2>1. Drains'
    BY <1>1, <1>3 DEF CloseStart, Pooling
  <2> QED
    BY <1>1, <1>2, <1>3, <2>1, TypedParts DEF CloseStart, Pooling, SlotsTyped
<1>4. CASE CloseSub
  <2>1. closing.pc = "next" /\ UNCHANGED <<closed, dead, cur, rrIdx, mu, health>>
    BY <1>4 DEF CloseSub
  <2>2. CASE /\ closing.i > NumAddrs
             /\ closing' = [closing EXCEPT !.pc = "done"]
             /\ UNCHANGED <<shut, slot>>
    <3>1. Drains'
      BY <1>1, <2>2 DEF Pooling
    <3> QED
      BY <1>1, <1>2, <2>1, <2>2, <3>1, TypedParts DEF Pooling, SlotsTyped
  <2>3. CASE /\ closing.i <= NumAddrs
             /\ Shut(<<closing.i, cur[closing.i]>>)
             /\ closing' = [closing EXCEPT !.pc = "drain", !.g = cur[closing.i]]
    <3>1. closing.i \in Addrs /\ <<closing.i, cur[closing.i]>> \in Pools /\ cur[closing.i] \in 1..MaxPools
      BY <1>1, <2>3, PoolAssumption DEF Pooling, Addrs, Pools
    <3>2. SlotsTyped' /\ shut' = shut \cup {<<closing.i, cur[closing.i]>>}
      BY <1>1, <2>3, <3>1, ShutDoes DEF SlotsTyped
    <3>3. Pooling'
      BY <1>1, <2>1, <2>3, <3>1, <3>2 DEF Pooling
    <3>4. Drains'
      BY <1>1, <2>3 DEF Pooling
    <3> QED
      BY <1>2, <3>2, <3>3, <3>4, TypedParts
  <2> QED
    BY <1>4, <2>2, <2>3 DEF CloseSub
<1>5. CASE CloseDrained
  <2>1. closing.pc = "drain" /\ closing.i <= NumAddrs
        /\ closing' = [closing EXCEPT !.pc = "next", !.i = closing.i + 1]
    BY <1>1, <1>5 DEF CloseDrained, Locked, Pooling
  <2>2. closing.i + 1 \in 1..NumAddrs + 1
    BY <1>1, <2>1, PoolAssumption DEF Pooling
  <2>3. Drains'
    BY <1>1, <2>1 DEF Pooling
  <2> QED
    BY <1>1, <1>2, <1>5, <2>1, <2>2, <2>3, TypedParts DEF CloseDrained, Pooling, SlotsTyped
<1>6. CASE OrphanDialEnds
  <2>1. PICK p \in Pools, k \in Slots :
          ReleaseSlot(<<p[1], p[2], k>>, TRUE) \/ DestroySlot(<<p[1], p[2], k>>)
    BY <1>6 DEF OrphanDialEnds
  <2>2. <<p[1], p[2], k>> \in Handles /\ <<p[1], p[2], k>> # None
    BY HandleOf
  <2>3. PICK s \in SlotStates : SetSlot(<<p[1], p[2], k>>, s)
    BY <2>1, GivenBack
  <2>4. SlotsTyped'
    BY <1>1, <2>2, <2>3, SetSlotDoes DEF SlotsTyped
  <2>5. Pooling'
    BY <1>1, <1>6 DEF OrphanDialEnds, Pooling
  <2>6. Drains'
    BY <1>1, <1>6 DEF OrphanDialEnds, Locked
  <2> QED
    BY <1>2, <2>4, <2>5, <2>6, TypedParts
<1> QED
  BY <1>3, <1>4, <1>5, <1>6 DEF ClosePool

\* New makes a well-typed pool.
LEMMA InitTyped ==
    ASSUME Init
    PROVE  Typed
<1>1. <<1, 1>> \in Pools /\ 1 \in 1..MaxPools /\ 0 \in 0..NumAddrs - 1 /\ None \in Handles
  BY PoolAssumption DEF Pools, Addrs, Handles
<1>2. SlotsTyped
  BY DEF Init, SlotsTyped, Empty, SlotStates
<1>3. Walking
  <2>1. << >> \in Seq(Addrs) /\ Len(<< >>) = 0
    OBVIOUS
  <2> QED
    BY <1>1, <2>1, PoolAssumption DEF Init, Walking, Placed, InAcquire
<1>4. Pooling
  <2>1. health \in [pc : {"off", "wait", "probe", "lock", "drain"}, todo : SUBSET Addrs]
    BY DEF Init
  <2>2. 1 \in 1..NumAddrs + 1
    BY PoolAssumption
  <2>3. closing \in [pc : {"no", "next", "drain", "done"}, i : 1..NumAddrs + 1, g : 1..MaxPools,
                     seen : [Addrs -> 1..MaxPools]]
    BY <1>1, <2>2 DEF Init
  <2> QED
    BY <1>1, <2>1, <2>3 DEF Init, Pooling
<1>5. Locked
  BY PoolAssumption DEF Init, Locked
<1> QED
  BY <1>2, <1>3, <1>4, <1>5, TypedParts

\* Every step keeps the types.
LEMMA NextTyped ==
    ASSUME Typed, [Next]_vars
    PROVE  Typed'
<1>1. ASSUME NEW u \in Users, Start(u) \/ Acquiring(u) \/ Using(u)
      PROVE  Typed'
  BY <1>1, WalkType, LendType, MarkType, UsingType DEF Acquiring
<1>2. CASE UNCHANGED vars
  BY <1>2 DEF vars, poolVars, puddleVars, userVars, walk, Typed, TypeOK, Placed, Locked
<1> QED
  BY <1>1, <1>2, HealthType, CloseType DEF Next

\* Every reachable state is well typed, for any number of users, replicas,
\* connections and pools: the round robin and Acquire's position never leave the
\* addresses, every handle names a slot of a pool there is, and the health loop
\* and Close only work on sub-pools there are.
THEOREM TypeCorrect == Spec => []TypeOK
<1>1. Init => Typed
  BY InitTyped
<1>2. Typed /\ [Next]_vars => Typed'
  BY NextTyped
<1>3. Typed => TypeOK
  BY DEF Typed
<1> QED
  BY <1>1, <1>2, <1>3, PTL DEF Spec

-----------------------------------------------------------------------------
(* Connections.  A step of a user does one of these to the slots and to what *)
(* users hold.                                                               *)

\* Nothing, except that its operation may end.
Stays(u) ==
    slot' = slot /\ stream' = stream /\ hold'[u] \in {hold[u], None}

\* It takes a connection that was idle, or a free slot to dial in.
Takes(u) ==
    /\ hold[u] = None /\ at[u] \notin shut /\ stream' = stream
    /\ \E k \in Slots :
          /\ slot[at[u]][k].st \in {"none", "idle"}
          /\ slot' = [slot EXCEPT ![at[u]][k].st = "out"]
          /\ hold'[u] = <<at[u][1], at[u][2], k>>

\* It has dialled the connection.
Dials(u) ==
    /\ hold[u] # None /\ hold' = hold /\ stream' = stream
    /\ SetSlot(hold[u], [st |-> "out", ok |-> TRUE])

\* It parts with the connection h of its operation or of its stream.
Parts(u, h) ==
    /\ h # None
    /\ \/ h = hold[u] /\ hold'[u] = None /\ stream' = stream
       \/ h = stream[u] /\ stream'[u] = None /\ hold' = hold
    /\ \E s \in SlotStates :
          /\ SetSlot(h, s) /\ s.st # "out"
          /\ s.st = "idle" => <<h[1], h[2]>> \notin shut

\* Its connection becomes the one of its stream.
Opens(u) ==
    hold[u] # None /\ hold'[u] = None /\ stream'[u] = hold[u] /\ slot' = slot

Others(u) ==
    \A v \in Users \ {u} : hold'[v] = hold[v] /\ stream'[v] = stream[v] /\ at'[v] = at[v]

Effect(u) ==
    /\ Others(u)
    /\ Stays(u) \/ Takes(u) \/ Dials(u) \/ Opens(u) \/ (\E h \in Handles : Parts(u, h))

\* The end of an operation on its user's connection.
LEMMA PartsHold ==
    ASSUME Walking, NEW u \in Users, pc[u] \in {"dial", "run"},
           hold' = [hold EXCEPT ![u] = None], stream' = stream,
           NEW ok \in BOOLEAN, ReleaseSlot(hold[u], ok) \/ DestroySlot(hold[u])
    PROVE  Parts(u, hold[u]) /\ hold[u] \in Handles
<1>1. hold[u] # None /\ hold[u] \in Handles
  BY DEF Walking, Placed
<1>2. hold'[u] = None
  BY DEF Walking
<1>3. CASE DestroySlot(hold[u])
  <2>1. Empty \in SlotStates /\ Empty.st = "none" /\ Empty.ok /\ SetSlot(hold[u], Empty)
    BY <1>3 DEF Empty, SlotStates, DestroySlot
  <2> QED
    BY <1>1, <1>2, <2>1 DEF Parts
<1>4. CASE ReleaseSlot(hold[u], ok)
  <2>1. PICK s \in SlotStates :
          /\ SetSlot(hold[u], s)
          /\ s = Empty \/ (<<hold[u][1], hold[u][2]>> \notin shut /\ s = [st |-> "idle", ok |-> ok])
    BY <1>4, GivenBack
  <2>2. s.st # "out" /\ (s.st = "idle" => <<hold[u][1], hold[u][2]>> \notin shut) /\ (~s.ok => ~ok)
    BY <2>1 DEF Empty
  <2> QED
    BY <1>1, <1>2, <1>4, <2>1, <2>2 DEF Parts
<1> QED
  BY <1>3, <1>4

\* Each step of a user that does not touch mu has one of the effects.
LEMMA UserEffect ==
    ASSUME Typed, NEW u \in Users, Start(u) \/ Acquiring(u) \/ Using(u),
           ~MarkDead(u), ~MarkedDead(u)
    PROVE  Effect(u)
<1>1. Walking /\ Pooling /\ SlotsTyped /\ Locked
  BY TypedParts
<1> USE DEF poolVars, puddleVars, walk
<1>2. ASSUME Finish(u)
      PROVE  /\ hold' = [hold EXCEPT ![u] = None] /\ hold'[u] = None
             /\ \A v \in Users \ {u} : hold'[v] = hold[v] /\ at'[v] = at[v]
  BY <1>1, <1>2 DEF Finish, Walking
<1>3. ASSUME NEW h \in Handles, h # None
      PROVE  Ok(h) \in BOOLEAN
  <2>1. h[3] \in Slots /\ <<h[1], h[2]>> \in Pools
    BY <1>3, HandleParts
  <2> QED
    BY <1>1, <2>1 DEF Ok, SlotsTyped, SlotStates
<1>4. CASE Start(u) \/ AcquireTop(u) \/ TryNext(u) \/ Exhausted(u) \/ WaitCancelled(u)
  BY <1>1, <1>2, <1>4
     DEF Start, AcquireTop, TryNext, Exhausted, WaitCancelled, Effect, Others, Stays, Walking
<1>5. CASE PuddleAcquire(u)
  <2>1. PICK k \in Slots :
          /\ slot[at[u]][k].st \in {"none", "idle"}
          /\ \/ UNCHANGED <<slot, hold>>
             \/ /\ at[u] \notin shut
                /\ slot' = [slot EXCEPT ![at[u]][k].st = "out"]
                /\ hold' = [hold EXCEPT ![u] = <<at[u][1], at[u][2], k>>]
    BY <1>5 DEF PuddleAcquire
  <2>2. hold[u] = None /\ UNCHANGED <<at, stream>>
    BY <1>1, <1>5 DEF PuddleAcquire, Walking, Placed
  <2> QED
    BY <1>1, <2>1, <2>2 DEF Effect, Others, Stays, Takes, Walking
<1>6. CASE DialEnds(u) \/ DialCancelled(u)
  <2>1. hold[u] # None /\ hold[u] \in Handles /\ pc[u] = "dial" /\ stream' = stream
    BY <1>1, <1>6 DEF DialEnds, DialCancelled, Walking, Placed
  <2>2. CASE SetSlot(hold[u], [st |-> "out", ok |-> TRUE]) /\ hold' = hold /\ at' = at
    BY <2>1, <2>2 DEF Effect, Others, Dials
  <2>3. CASE SetSlot(hold[u], [st |-> "orphan", ok |-> TRUE]) /\ Finish(u)
    <3>1. [st |-> "orphan", ok |-> TRUE] \in SlotStates
      BY DEF SlotStates
    <3>2. Parts(u, hold[u])
      BY <1>2, <2>1, <2>3, <3>1 DEF Parts
    <3> QED
      BY <1>2, <2>1, <2>3, <3>2 DEF Effect, Others
  <2>4. CASE DestroySlot(hold[u]) /\ hold' = [hold EXCEPT ![u] = None] /\ (at' = at \/ Finish(u))
    <3>1. Parts(u, hold[u])
      <4>1. Empty \in SlotStates /\ Empty.st = "none" /\ Empty.ok
        BY DEF Empty, SlotStates
      <4>2. SetSlot(hold[u], Empty) /\ hold'[u] = None
        BY <1>1, <2>4 DEF DestroySlot, Walking
      <4> QED
        BY <2>1, <4>1, <4>2 DEF Parts
    <3> QED
      BY <1>1, <1>2, <2>1, <2>4, <3>1 DEF Effect, Others, Walking
  <2> QED
    BY <1>2, <1>6, <2>2, <2>3, <2>4 DEF DialEnds, DialCancelled
<1>7. CASE QueryOk(u)
  <2>1. Ok(hold[u]) \in BOOLEAN /\ pc[u] = "run" /\ stream' = stream /\ hold[u] \in Handles
    BY <1>1, <1>3, <1>7 DEF QueryOk, Walking, Placed
  <2>2. Parts(u, hold[u])
    BY <1>1, <1>2, <1>7, <2>1, PartsHold DEF QueryOk
  <2> QED
    BY <1>2, <1>7, <2>1, <2>2 DEF QueryOk, Effect, Others
<1>8. CASE QueryNetworkError(u)
  <2>1. pc[u] = "run" /\ stream' = stream /\ hold[u] \in Handles /\ hold' = [hold EXCEPT ![u] = None]
    BY <1>1, <1>2, <1>8 DEF QueryNetworkError, Walking, Placed
  <2>2. Parts(u, hold[u])
    <3>1. CASE DestroySlot(hold[u])
      <4>1. Empty \in SlotStates /\ Empty.st = "none" /\ Empty.ok
        BY DEF Empty, SlotStates
      <4> QED
        BY <1>1, <2>1, <3>1, <4>1 DEF Parts, DestroySlot, Walking, Placed
    <3>2. CASE ReleaseSlot(hold[u], FALSE) /\ attempt[u] = 2
      BY <1>1, <2>1, <3>2, PartsHold
    <3> QED
      BY <1>8, <3>1, <3>2 DEF QueryNetworkError
  <2> QED
    BY <1>1, <1>2, <1>8, <2>1, <2>2 DEF QueryNetworkError, Effect, Others, Walking
<1>9. CASE QueryError(u)
  <2>1. Ok(hold[u]) \in BOOLEAN /\ pc[u] = "run" /\ stream' = stream /\ hold[u] \in Handles
    BY <1>1, <1>3, <1>9 DEF QueryError, Walking, Placed
  <2>2. Finish(u)
    BY <1>9 DEF QueryError
  <2>3. Parts(u, hold[u])
    <3>1. CASE DestroySlot(hold[u])
      <4>1. Empty \in SlotStates /\ Empty.st = "none" /\ Empty.ok
        BY DEF Empty, SlotStates
      <4> QED
        BY <1>1, <1>2, <2>1, <2>2, <3>1, <4>1 DEF Parts, DestroySlot, Walking, Placed
    <3>2. CASE attempt[u] = 2 /\ \E ok \in {Ok(hold[u]), FALSE} : ReleaseSlot(hold[u], ok)
      BY <1>1, <1>2, <2>1, <2>2, <3>2, PartsHold
    <3> QED
      BY <1>9, <3>1, <3>2 DEF QueryError
  <2> QED
    BY <1>2, <2>1, <2>2, <2>3 DEF Effect, Others
<1>10. CASE StreamStart(u)
  <2>1. /\ Ok(hold[u]) \in BOOLEAN /\ pc[u] = "run" /\ hold[u] \in Handles /\ hold[u] # None
        /\ op[u] = "stream" /\ Finish(u)
    BY <1>1, <1>3, <1>10 DEF StreamStart, Walking, Placed
  <2>2. CASE stream' = [stream EXCEPT ![u] = hold[u]] /\ UNCHANGED slot
    BY <1>1, <1>2, <2>1, <2>2 DEF Effect, Others, Opens, Walking
  <2>3. CASE stream' = stream /\ \E ok \in {Ok(hold[u]), FALSE} : ReleaseSlot(hold[u], ok)
    <3>1. Parts(u, hold[u])
      BY <1>1, <1>2, <2>1, <2>3, PartsHold
    <3> QED
      BY <1>2, <2>1, <2>3, <3>1 DEF Effect, Others
  <2> QED
    BY <1>10, <2>2, <2>3 DEF StreamStart
<1>11. CASE StreamClose(u)
  <2>1. /\ stream[u] # None /\ stream[u] \in Handles /\ UNCHANGED <<hold, at>>
        /\ stream' = [stream EXCEPT ![u] = None]
    BY <1>1, <1>11 DEF StreamClose, Walking
  <2>2. Ok(stream[u]) \in BOOLEAN
    BY <1>3, <2>1
  <2>3. PICK ok \in BOOLEAN : ReleaseSlot(stream[u], ok)
    BY <1>11, <2>2 DEF StreamClose
  <2>4. PICK s \in SlotStates :
          /\ SetSlot(stream[u], s)
          /\ s = Empty \/ (<<stream[u][1], stream[u][2]>> \notin shut /\ s = [st |-> "idle", ok |-> ok])
    BY <2>3, GivenBack
  <2>5. s.st # "out" /\ (s.st = "idle" => <<stream[u][1], stream[u][2]>> \notin shut)
    BY <2>4 DEF Empty
  <2>6. stream'[u] = None /\ \A v \in Users \ {u} : stream'[v] = stream[v]
    BY <1>1, <2>1 DEF Walking
  <2>7. Parts(u, stream[u])
    BY <2>1, <2>4, <2>5, <2>6 DEF Parts
  <2> QED
    BY <2>1, <2>6, <2>7 DEF Effect, Others
<1> QED
  BY <1>4, <1>5, <1>6, <1>7, <1>8, <1>9, <1>10, <1>11 DEF Acquiring, Using

\* The same as SetSlotDoes, for the slot that a handle names.
LEMMA SetSlotAt ==
    ASSUME SlotsTyped, NEW h \in Handles, h # None, NEW s \in SlotStates, SetSlot(h, s),
           NEW g \in Handles, g # None
    PROVE  slot'[<<g[1], g[2]>>][g[3]] = IF g = h THEN s ELSE slot[<<g[1], g[2]>>][g[3]]
<1>1. <<g[1], g[2]>> \in Pools /\ g[3] \in Slots /\ g = <<g[1], g[2], g[3]>>
  BY HandleParts
<1> DEFINE p == <<g[1], g[2]>>
<1>2. <<p[1], p[2], g[3]>> = g
  BY <1>1
<1>3. slot'[p][g[3]] = IF <<p[1], p[2], g[3]>> = h THEN s ELSE slot[p][g[3]]
  BY <1>1, SetSlotDoes DEF SlotsTyped
<1> QED
  BY <1>2, <1>3

\* h's connection is out, in the slots sl.
OutIn(sl, h) == sl[<<h[1], h[2]>>][h[3]].st = "out"

\* OneHolder, for given slots and holders.
Single(sl, ho, str) ==
    \A u, v \in Users :
        /\ ho[u] # None => OutIn(sl, ho[u])
        /\ str[u] # None => OutIn(sl, str[u])
        /\ ho[u] # None => ho[u] # str[v]
        /\ u # v /\ ho[u] # None => ho[u] # ho[v]
        /\ u # v /\ str[u] # None => str[u] # str[v]

\* OneHolder is Single of the state.
LEMMA HolderIs == (OneHolder <=> Single(slot, hold, stream)) /\ (OneHolder' <=> Single(slot', hold', stream'))
BY DEF OneHolder, Single, OutIn

\* Who gives up connections, or does nothing with them, takes none from others.
LEMMA HolderKept ==
    ASSUME OneHolder, Walking,
           \A v \in Users : hold'[v] \in {hold[v], None} /\ stream'[v] \in {stream[v], None},
           \A h \in Handles \ {None} :
              OutIn(slot, h) => OutIn(slot', h) \/ \A v \in Users : hold'[v] # h /\ stream'[v] # h
    PROVE  OneHolder'
<1>1. Single(slot, hold, stream)
  BY HolderIs
<1>2. \A v \in Users : hold[v] \in Handles /\ stream[v] \in Handles
  BY DEF Walking
<1>3. Single(slot', hold', stream')
  BY <1>1, <1>2 DEF Single
<1> QED
  BY <1>3, HolderIs

\* No effect gives two users the same connection.
LEMMA EffectHolder ==
    ASSUME Typed, OneHolder, NEW u \in Users, Effect(u)
    PROVE  OneHolder'
<1>1. Walking /\ SlotsTyped
  BY TypedParts
<1>2. \A v \in Users : hold[v] \in Handles /\ stream[v] \in Handles
  BY <1>1 DEF Walking
<1>3. Single(slot, hold, stream)
  BY HolderIs
<1>4. CASE Stays(u)
  BY <1>1, <1>4, HolderKept DEF Effect, Others, Stays
<1>5. CASE Takes(u)
  <2>1. PICK k \in Slots :
          /\ slot[at[u]][k].st \in {"none", "idle"}
          /\ slot' = [slot EXCEPT ![at[u]][k].st = "out"]
          /\ hold'[u] = <<at[u][1], at[u][2], k>>
    BY <1>5 DEF Takes
  <2> DEFINE h == <<at[u][1], at[u][2], k>>
  <2>2. at[u] \in Pools /\ at[u] = <<at[u][1], at[u][2]>> /\ h \in Handles /\ h # None
    BY <1>1, HandleOf DEF Walking
  <2>3. /\ \A g \in Handles \ {None} : OutIn(slot, g) => OutIn(slot', g)
        /\ OutIn(slot', h) /\ ~OutIn(slot, h)
    <3>1. \A p \in Pools, j \in Slots :
             slot'[p][j].st = IF p = at[u] /\ j = k THEN "out" ELSE slot[p][j].st
      <4>1. PICK q \in Pools : q = at[u]
        BY <2>2
      <4>2. SlotsTyped /\ slot' = [slot EXCEPT ![q][k].st = "out"]
        BY <1>1, <2>1, <4>1
      <4>3. k \in Slots
        OBVIOUS
      <4>4. ASSUME NEW p \in Pools, NEW j \in Slots
            PROVE  slot'[p][j].st = IF p = q /\ j = k THEN "out" ELSE slot[p][j].st
        BY ONLY <4>1, <4>2, <4>3, <4>4 DEF SlotsTyped, SlotStates
      <4> QED
        BY <4>1, <4>4, Zenon
    <3>2. \A p \in Pools, j \in Slots : slot[p][j].st = "out" => slot'[p][j].st = "out"
      BY <3>1
    <3>3. slot'[at[u]][k].st = "out" /\ slot[at[u]][k].st # "out"
      BY <2>1, <2>2, <3>1
    <3>4. \A g \in Handles \ {None} : <<g[1], g[2]>> \in Pools /\ g[3] \in Slots
      BY HandleParts
    <3>5. \A g \in Handles \ {None} : OutIn(slot, g) => OutIn(slot', g)
      BY <3>2, <3>4 DEF OutIn
    <3>6. h[1] = at[u][1] /\ h[2] = at[u][2] /\ h[3] = k
      OBVIOUS
    <3>7. <<h[1], h[2]>> = at[u]
      BY <2>2, <3>6
    <3> HIDE DEF h
    <3> QED
      BY <3>3, <3>5, <3>6, <3>7 DEF OutIn
  <2>4. /\ hold'[u] = h /\ \A v \in Users : stream'[v] = stream[v]
        /\ \A v \in Users \ {u} : hold'[v] = hold[v]
    BY <1>5, <2>1 DEF Effect, Others, Takes
  <2> HIDE DEF h
  <2>5. \A v \in Users : hold[v] # h /\ stream[v] # h
    BY <1>3, <2>2, <2>3 DEF Single
  <2>6. Single(slot', hold', stream')
    BY <1>2, <1>3, <2>2, <2>3, <2>4, <2>5 DEF Single
  <2> QED
    BY <2>6, HolderIs
<1>6. CASE Dials(u)
  <2>1. [st |-> "out", ok |-> TRUE] \in SlotStates
    BY DEF SlotStates
  <2>2. \A g \in Handles \ {None} : OutIn(slot, g) => OutIn(slot', g)
    BY <1>1, <1>2, <1>6, <2>1, SetSlotAt DEF Dials, OutIn
  <2> QED
    BY <1>1, <1>6, <2>2, HolderKept DEF Dials
<1>7. ASSUME NEW h \in Handles, Parts(u, h)
      PROVE  OneHolder'
  <2>1. PICK s \in SlotStates : SetSlot(h, s)
    BY <1>7 DEF Parts
  <2>2. h # None
    BY <1>7 DEF Parts
  <2>3. \/ h = hold[u] /\ hold'[u] = None /\ stream' = stream
        \/ h = stream[u] /\ stream'[u] = None /\ hold' = hold
    BY <1>7 DEF Parts
  <2>4. \A v \in Users \ {u} : hold'[v] = hold[v] /\ stream'[v] = stream[v]
    BY DEF Effect, Others
  <2>5. \A v \in Users : hold'[v] # h /\ stream'[v] # h
    BY <1>3, <2>2, <2>3, <2>4 DEF Single
  <2>6. \A v \in Users : hold'[v] \in {hold[v], None} /\ stream'[v] \in {stream[v], None}
    BY <2>3, <2>4
  <2>7. \A g \in Handles \ {None} : g # h /\ OutIn(slot, g) => OutIn(slot', g)
    BY <1>1, <2>1, <2>2, SetSlotAt DEF OutIn
  <2> QED
    BY <1>1, <2>5, <2>6, <2>7, HolderKept
<1>8. CASE Opens(u)
  <2>1. /\ slot' = slot /\ hold'[u] = None /\ stream'[u] = hold[u] /\ hold[u] # None
        /\ \A v \in Users \ {u} : hold'[v] = hold[v] /\ stream'[v] = stream[v]
    BY <1>8 DEF Opens, Effect, Others
  <2>2. Single(slot', hold', stream')
    BY <1>3, <2>1 DEF Single
  <2> QED
    BY <2>2, HolderIs
<1> QED
  BY <1>4, <1>5, <1>6, <1>7, <1>8 DEF Effect

-----------------------------------------------------------------------------
(* Retired pools and Close. *)

IsEmpty(p) == \A k \in Slots : slot[p][k].st = "none"

\* The pools that are closed have been made and have nothing idle.  The pool of a
\* dead replica is closed and has no connection, unless a user still waits for
\* that; the pools before it are closed and have none.
Retired ==
    /\ \A p \in shut : p[2] <= cur[p[1]] /\ \A k \in Slots : slot[p][k].st # "idle"
    /\ \A a \in Addrs : dead[a] =>
          /\ <<a, cur[a]>> \in shut
          /\ IsEmpty(<<a, cur[a]>>) \/ \E u \in Users : mu = u /\ at[u][1] = a
    /\ \A a \in Addrs, g \in 1..MaxPools : g < cur[a] => <<a, g>> \in shut /\ IsEmpty(<<a, g>>)

\* Close has closed the pools it found of every replica it is past.
Closes ==
    /\ closing.pc = "no" <=> ~closed
    /\ \A a \in Addrs :
          a < closing.i \/ (a = closing.i /\ closing.pc = "drain") =>
             \A g \in 1..MaxPools : g <= closing.seen[a] => <<a, g>> \in shut
    /\ closing.pc # "no" => \A a \in Addrs : closing.seen[a] <= cur[a]
    /\ closing.pc = "no" => closing.i = 1
    /\ closing.pc = "done" => closing.i = NumAddrs + 1

Ind == Typed /\ OneHolder /\ Retired /\ LiveIsOpen /\ Closes

\* A closed pool gets no connection.
Calm ==
    \A p \in shut, k \in Slots :
        /\ slot[p][k].st = "none" => slot'[p][k].st = "none"
        /\ slot'[p][k].st = "idle" => slot[p][k].st = "idle"

\* What SetSlot may do to a closed pool: nothing comes into an empty slot and
\* nothing becomes idle.
LEMMA SetSlotCalm ==
    ASSUME SlotsTyped, shut \subseteq Pools, NEW h \in Handles, h # None, NEW s \in SlotStates,
           SetSlot(h, s), slot[<<h[1], h[2]>>][h[3]].st # "none",
           s.st = "idle" => <<h[1], h[2]>> \notin shut
    PROVE  Calm
<1> SUFFICES ASSUME NEW p \in shut, NEW k \in Slots
             PROVE  /\ slot[p][k].st = "none" => slot'[p][k].st = "none"
                    /\ slot'[p][k].st = "idle" => slot[p][k].st = "idle"
  BY DEF Calm
<1>1. p \in Pools /\ p = <<p[1], p[2]>>
  BY HandleOf
<1>2. slot'[p][k] = IF <<p[1], p[2], k>> = h THEN s ELSE slot[p][k]
  BY <1>1, SetSlotDoes DEF SlotsTyped
<1>3. CASE <<p[1], p[2], k>> = h
  <2>1. h[1] = p[1] /\ h[2] = p[2] /\ h[3] = k
    BY <1>3
  <2>2. <<h[1], h[2]>> = p
    BY <1>1, <2>1
  <2> QED
    BY <1>2, <1>3, <2>1, <2>2
<1> QED
  BY <1>2, <1>3

\* No effect brings a connection into a closed pool.
LEMMA EffectCalm ==
    ASSUME Typed, OneHolder, NEW u \in Users, Effect(u)
    PROVE  Calm
<1>1. Walking /\ SlotsTyped /\ shut \subseteq Pools
  BY TypedParts DEF Pooling
<1>2. hold[u] \in Handles /\ stream[u] \in Handles /\ at[u] \in Pools
  BY <1>1 DEF Walking
<1>3. /\ hold[u] # None => slot[<<hold[u][1], hold[u][2]>>][hold[u][3]].st = "out"
      /\ stream[u] # None => slot[<<stream[u][1], stream[u][2]>>][stream[u][3]].st = "out"
  BY DEF OneHolder
<1>4. CASE slot' = slot
  BY <1>4 DEF Calm
<1>5. CASE Takes(u)
  <2>1. at[u] \notin shut
    BY <1>5 DEF Takes
  <2>2. \A p \in Pools, k \in Slots : p # at[u] => slot'[p][k].st = slot[p][k].st
    BY <1>1, <1>2, <1>5, LendDoes DEF Takes
  <2> QED
    BY <1>1, <2>1, <2>2 DEF Calm
<1>6. CASE Dials(u)
  <2>1. [st |-> "out", ok |-> TRUE] \in SlotStates
    BY DEF SlotStates
  <2> QED
    BY <1>1, <1>2, <1>3, <1>6, <2>1, SetSlotCalm DEF Dials
<1>7. ASSUME NEW h \in Handles, Parts(u, h)
      PROVE  Calm
  <2>1. PICK s \in SlotStates : SetSlot(h, s) /\ (s.st = "idle" => <<h[1], h[2]>> \notin shut)
    BY <1>7 DEF Parts
  <2>2. h # None /\ slot[<<h[1], h[2]>>][h[3]].st = "out"
    BY <1>3, <1>7 DEF Parts
  <2> QED
    BY <1>1, <2>1, <2>2, SetSlotCalm
<1> QED
  BY <1>4, <1>5, <1>6, <1>7 DEF Effect, Stays, Opens

\* A step that leaves the flags and the closed pools alone, brings no connection
\* into a closed pool and does not move the user who waits for one.
LEMMA CalmKeeps ==
    ASSUME Typed, Retired, LiveIsOpen, Closes, Calm,
           UNCHANGED <<closed, dead, cur, mu, shut, closing>>,
           \A v \in Users : mu = v => at'[v] = at[v]
    PROVE  Retired' /\ LiveIsOpen' /\ Closes'
<1>1. shut \subseteq Pools
  BY TypedParts DEF Pooling
<1>2. LiveIsOpen' /\ Closes'
  BY DEF LiveIsOpen, Closes
<1>3. \A p \in shut : p[2] <= cur[p[1]] /\ \A k \in Slots : slot'[p][k].st # "idle"
  BY DEF Retired, Calm
<1>4. \A p \in shut : IsEmpty(p) => IsEmpty(p)'
  BY DEF IsEmpty, Calm
<1> QED
  BY <1>2, <1>3, <1>4 DEF Retired

\* A step that changes neither connections nor pools keeps their invariants.
LEMMA FrameKeeps ==
    ASSUME OneHolder, Retired, UNCHANGED <<dead, cur, mu, shut, slot, at, hold, stream>>
    PROVE  OneHolder' /\ Retired'
<1>1. OneHolder'
  BY DEF OneHolder
<1>2. Retired'
  BY DEF Retired, IsEmpty
<1> QED
  BY <1>1, <1>2

\* A user's step that does not touch mu keeps the invariant.
LEMMA UserKeeps ==
    ASSUME Ind, NEW u \in Users, Start(u) \/ Acquiring(u) \/ Using(u), ~MarkDead(u), ~MarkedDead(u)
    PROVE  OneHolder' /\ Retired' /\ LiveIsOpen' /\ Closes'
<1>1. Effect(u)
  BY UserEffect DEF Ind
<1>2. OneHolder' /\ Calm
  BY <1>1, EffectHolder, EffectCalm DEF Ind
<1>3. pc[u] # "drain" /\ UNCHANGED <<closed, dead, cur, mu, shut, closing>>
  BY DEF Acquiring, Using, Start, AcquireTop, TryNext, Exhausted, PuddleAcquire, WaitCancelled, DialEnds, DialCancelled,
         QueryOk, QueryNetworkError, QueryError, StreamStart, StreamClose, poolVars, puddleVars
<1>4. mu # u
  BY <1>3 DEF Ind, Typed, Locked
<1>5. \A v \in Users : mu = v => at'[v] = at[v]
  BY <1>1, <1>4 DEF Effect, Others
<1> QED
  BY <1>2, <1>3, <1>5, CalmKeeps DEF Ind

\* The end of a dial nobody waits for keeps the invariant.
LEMMA OrphanKeeps ==
    ASSUME Ind, OrphanDialEnds
    PROVE  OneHolder' /\ Retired' /\ LiveIsOpen' /\ Closes'
<1>1. Walking /\ SlotsTyped /\ shut \subseteq Pools
  BY TypedParts DEF Ind, Pooling
<1>2. PICK p \in Pools, k \in Slots :
        /\ slot[p][k].st = "orphan"
        /\ ReleaseSlot(<<p[1], p[2], k>>, TRUE) \/ DestroySlot(<<p[1], p[2], k>>)
  BY DEF OrphanDialEnds
<1> DEFINE h == <<p[1], p[2], k>>
<1>3. h \in Handles /\ h # None /\ p = <<p[1], p[2]>>
  BY HandleOf
<1>4. PICK s \in SlotStates :
        /\ SetSlot(h, s)
        /\ s = Empty \/ (<<h[1], h[2]>> \notin shut /\ s = [st |-> "idle", ok |-> TRUE])
  BY <1>2, GivenBack
<1>5. s.st = "idle" => <<h[1], h[2]>> \notin shut
  BY <1>4 DEF Empty
<1>6. slot[<<h[1], h[2]>>][h[3]].st = "orphan"
  <2>1. h[1] = p[1] /\ h[2] = p[2] /\ h[3] = k
    OBVIOUS
  <2> QED
    BY <1>2, <1>3, <2>1
<1> HIDE DEF h
<1>7. Calm
  BY <1>1, <1>3, <1>4, <1>5, <1>6, SetSlotCalm
<1>8. UNCHANGED <<closed, dead, cur, mu, shut, closing, at, hold, stream>>
  BY DEF OrphanDialEnds, poolVars, userVars, walk
<1>9. \A g \in Handles \ {None} : OutIn(slot, g) => OutIn(slot', g)
  <2>1. ~OutIn(slot, h)
    BY <1>6 DEF OutIn
  <2> QED
    BY <1>1, <1>3, <1>4, <2>1, SetSlotAt DEF OutIn
<1>10. OneHolder'
  BY <1>1, <1>8, <1>9, HolderKept DEF Ind
<1> QED
  BY <1>7, <1>8, <1>10, CalmKeeps DEF Ind

\* Closing a pool takes no connection from who holds it and brings none in.
LEMMA ShutKeeps ==
    ASSUME Typed, OneHolder, NEW q \in Pools, Shut(q), UNCHANGED <<hold, stream>>
    PROVE  /\ OneHolder' /\ shut' = shut \cup {q}
           /\ \A p \in Pools : IsEmpty(p) => IsEmpty(p)'
           /\ \A p \in Pools, k \in Slots :
                 slot'[p][k].st = "idle" => p # q /\ slot[p][k].st = "idle"
<1>1. Walking /\ SlotsTyped
  BY TypedParts
<1>2. /\ shut' = shut \cup {q}
      /\ \A p \in Pools, k \in Slots :
            slot'[p][k] = IF p = q /\ slot[p][k].st = "idle" THEN Empty ELSE slot[p][k]
  BY <1>1, ShutDoes DEF SlotsTyped
<1>3. Empty.st = "none"
  BY DEF Empty
<1>4. \A p \in Pools : IsEmpty(p) => IsEmpty(p)'
  BY <1>2, <1>3 DEF IsEmpty
<1>5. \A p \in Pools, k \in Slots : slot'[p][k].st = "idle" => p # q /\ slot[p][k].st = "idle"
  BY <1>2, <1>3
<1>6. \A p \in Pools, k \in Slots : slot[p][k].st = "out" => slot'[p][k].st = "out"
  BY <1>2
<1>7. \A g \in Handles \ {None} : <<g[1], g[2]>> \in Pools /\ g[3] \in Slots
  BY HandleParts
<1>8. \A g \in Handles \ {None} : OutIn(slot, g) => OutIn(slot', g)
  BY <1>6, <1>7 DEF OutIn
<1>9. OneHolder'
  BY <1>1, <1>8, HolderKept
<1> QED
  BY <1>2, <1>4, <1>5, <1>9

\* Condemning a replica and the wait for its pool keep the invariant.
LEMMA MarkKeeps ==
    ASSUME Ind, NEW u \in Users, MarkDead(u) \/ MarkedDead(u)
    PROVE  OneHolder' /\ Retired' /\ LiveIsOpen' /\ Closes'
<1>1. Walking /\ Pooling /\ SlotsTyped /\ Locked /\ shut \subseteq Pools
  BY TypedParts DEF Ind, Pooling
<1> USE DEF poolVars, puddleVars, walk
<1> DEFINE a == at[u][1]
<1>2. at[u] \in Pools /\ a \in Addrs /\ <<a, cur[a]>> \in Pools
  BY <1>1 DEF Walking, Pooling, Pools
<1>3. CASE MarkDead(u)
  <2>1. /\ pc[u] = "mark" /\ mu = "free"
        /\ UNCHANGED <<closed, cur, at, hold, stream, closing>>
    BY <1>3 DEF MarkDead
  <2>2. CASE UNCHANGED <<dead, mu, shut, slot>>
    <3>1. Calm
      BY <2>2 DEF Calm
    <3>2. OneHolder'
      BY <2>1, <2>2 DEF Ind, OneHolder
    <3> QED
      BY <2>1, <2>2, <3>1, <3>2, CalmKeeps DEF Ind
  <2>3. CASE /\ ~dead[a]
             /\ dead' = [dead EXCEPT ![a] = TRUE]
             /\ Shut(<<a, cur[a]>>)
             /\ mu' = u
    <3> DEFINE q == <<a, cur[a]>>
    <3>1. /\ OneHolder' /\ shut' = shut \cup {q}
          /\ \A p \in Pools : IsEmpty(p) => IsEmpty(p)'
          /\ \A p \in Pools, k \in Slots :
                slot'[p][k].st = "idle" => p # q /\ slot[p][k].st = "idle"
      BY <1>2, <2>1, <2>3, ShutKeeps DEF Ind
    <3>2. /\ dead' \in [Addrs -> BOOLEAN] /\ dead'[a]
          /\ \A b \in Addrs \ {a} : dead'[b] = dead[b]
      BY <1>1, <1>2, <2>3 DEF Pooling
    <3>3. \A b \in Addrs, g \in 1..MaxPools : <<b, g>> \in Pools
      BY DEF Pools
    <3>4. \A b \in Addrs : cur[b] \in 1..MaxPools
      BY <1>1 DEF Pooling
    <3>5. \A p \in shut' : p[2] <= cur[p[1]] /\ \A k \in Slots : slot'[p][k].st # "idle"
      <4>1. q \in Pools /\ q[1] = a /\ q[2] = cur[a] /\ cur[a] <= cur[a]
        BY <1>2, <3>4
      <4> HIDE DEF q
      <4> QED
        BY <1>1, <3>1, <4>1 DEF Ind, Retired
    <3>6. ASSUME NEW b \in Addrs, dead'[b]
          PROVE  /\ <<b, cur[b]>> \in shut'
                 /\ IsEmpty(<<b, cur[b]>>)' \/ (mu' = u /\ at'[u][1] = b)
      <4>1. CASE b = a
        BY <2>1, <2>3, <3>1, <4>1
      <4>2. CASE b # a
        <5>1. dead[b] /\ \A v \in Users : mu # v
          BY <2>1, <3>2, <3>6, <4>2, PoolAssumption
        <5>2. <<b, cur[b]>> \in shut /\ IsEmpty(<<b, cur[b]>>)
          BY <5>1 DEF Ind, Retired
        <5>3. IsEmpty(<<b, cur[b]>>)'
          BY <2>1, <3>1, <3>3, <3>4, <5>2 DEF IsEmpty
        <5> QED
          BY <3>1, <5>2, <5>3
      <4> QED
        BY <4>1, <4>2
    <3>7. \A b \in Addrs, g \in 1..MaxPools : g < cur[b] => <<b, g>> \in shut' /\ IsEmpty(<<b, g>>)'
      BY <3>1, <3>3 DEF Ind, Retired
    <3>8. Retired'
      BY <2>1, <3>5, <3>6, <3>7 DEF Retired, IsEmpty
    <3>9. LiveIsOpen'
      <4>1. ASSUME NEW b \in Addrs, ~closed, ~dead'[b]
            PROVE  <<b, cur[b]>> \notin shut'
        <5>1. b # a /\ ~dead[b]
          BY <3>2, <4>1
        <5>2. <<b, cur[b]>> # q /\ <<b, cur[b]>> \notin shut
          BY <4>1, <5>1 DEF Ind, LiveIsOpen
        <5> QED
          BY <3>1, <5>2
      <4> QED
        BY <2>1, <4>1 DEF LiveIsOpen
    <3>10. Closes'
      BY <2>1, <3>1 DEF Ind, Closes
    <3> QED
      BY <3>1, <3>8, <3>9, <3>10
  <2> QED
    BY <1>3, <2>2, <2>3 DEF MarkDead
<1>4. CASE MarkedDead(u)
  <2>1. /\ pc[u] = "drain" /\ Drained(<<a, cur[a]>>) /\ mu' = "free"
        /\ UNCHANGED <<closed, dead, cur, shut, slot, at, hold, stream, closing>>
    BY <1>4 DEF MarkedDead
  <2>2. mu = u /\ dead[a]
    BY <1>1, <2>1 DEF Locked
  <2>3. IsEmpty(<<a, cur[a]>>)
    <3>1. <<a, cur[a]>> \in shut
      BY <1>2, <2>2 DEF Ind, Retired
    <3> QED
      BY <2>1, <3>1 DEF Drained, IsEmpty, Ind, Retired
  <2>4. \A b \in Addrs : dead[b] => <<b, cur[b]>> \in shut /\ IsEmpty(<<b, cur[b]>>)
    BY <2>2, <2>3 DEF Ind, Retired
  <2>5. Retired'
    BY <2>1, <2>4 DEF Ind, Retired, IsEmpty
  <2>6. OneHolder' /\ LiveIsOpen' /\ Closes'
    BY <2>1 DEF Ind, OneHolder, LiveIsOpen, Closes
  <2> QED
    BY <2>5, <2>6
<1> QED
  BY <1>3, <1>4

\* The health loop keeps the invariant.
LEMMA HealthKeeps ==
    ASSUME Ind, HealthLoop
    PROVE  OneHolder' /\ Retired' /\ LiveIsOpen' /\ Closes'
<1>1. Walking /\ Pooling /\ SlotsTyped /\ Locked /\ shut \subseteq Pools
  BY TypedParts DEF Ind, Pooling
<1> USE DEF poolVars, puddleVars, walk, userVars
<1>2. UNCHANGED <<closed, at, hold, stream, closing>>
  BY DEF HealthLoop, HealthTick, HealthStop, HealthProbe, HealthLock, HealthSwap
<1> DEFINE a == First(health.todo)
           q == <<a, cur[a]>>
<1>3. health.pc \in {"lock", "drain"} => a \in Addrs /\ q \in Pools /\ dead[a] /\ cur[a] < MaxPools
  <2>1. health.todo \in SUBSET Addrs
    BY <1>1 DEF Pooling
  <2>2. health.pc \in {"lock", "drain"} => health.todo # {} /\ cur[a] < MaxPools
    BY <1>1 DEF Locked
  <2>3. health.todo # {} => a \in health.todo
    BY <2>1, FirstType
  <2> HIDE DEF a
  <2> QED
    BY <1>1, <2>1, <2>2, <2>3 DEF Locked, Pooling, Pools
<1> HIDE DEF a
<1>4. \A b \in Addrs : cur[b] \in 1..MaxPools /\ \A g \in 1..MaxPools : <<b, g>> \in Pools
  BY <1>1 DEF Pools, Pooling
<1>5. CASE HealthTick \/ HealthStop \/ HealthProbe
  <2>1. UNCHANGED <<dead, cur, mu, shut, slot>>
    BY <1>5 DEF HealthTick, HealthStop, HealthProbe
  <2>2. Calm
    BY <2>1 DEF Calm
  <2>3. OneHolder'
    BY <1>2, <2>1 DEF Ind, OneHolder
  <2> QED
    BY <1>2, <2>1, <2>2, <2>3, CalmKeeps DEF Ind
<1>6. CASE HealthLock
  <2>1. /\ health.pc = "lock" /\ mu = "free" /\ mu' = "health" /\ Shut(q)
        /\ UNCHANGED <<dead, cur>>
    BY <1>6 DEF HealthLock, a
  <2>2. /\ OneHolder' /\ shut' = shut \cup {q}
        /\ \A p \in Pools : IsEmpty(p) => IsEmpty(p)'
        /\ \A p \in Pools, k \in Slots :
              slot'[p][k].st = "idle" => p # q /\ slot[p][k].st = "idle"
    BY <1>2, <1>3, <2>1, ShutKeeps DEF Ind
  <2>3. q \in shut
    BY <1>3, <2>1 DEF Ind, Retired
  <2>4. shut' = shut
    BY <2>2, <2>3
  <2>5. \A v \in Users : mu # v
    BY <2>1, PoolAssumption
  <2>6. Retired'
    <3>1. \A p \in shut : p[2] <= cur[p[1]] /\ \A k \in Slots : slot'[p][k].st # "idle"
      BY <1>1, <2>2 DEF Ind, Retired
    <3>2. \A b \in Addrs : dead[b] => <<b, cur[b]>> \in shut /\ IsEmpty(<<b, cur[b]>>)
      BY <2>5 DEF Ind, Retired
    <3>3. \A b \in Addrs, g \in 1..MaxPools : IsEmpty(<<b, g>>) => IsEmpty(<<b, g>>)'
      BY <1>4, <2>2
    <3>4. ASSUME NEW b \in Addrs, dead[b]
          PROVE  \A k \in Slots : slot'[<<b, cur[b]>>][k].st = "none"
      <4> DEFINE g == cur[b]
      <4>1. g \in 1..MaxPools /\ IsEmpty(<<b, g>>)
        BY <1>4, <3>2, <3>4
      <4> HIDE DEF g
      <4>2. \A k \in Slots : slot'[<<b, g>>][k].st = "none"
        BY <3>3, <4>1 DEF IsEmpty
      <4> QED
        BY <4>2 DEF g
    <3> QED
      BY <2>1, <2>4, <3>1, <3>2, <3>3, <3>4 DEF Ind, Retired, IsEmpty
  <2>7. LiveIsOpen' /\ Closes'
    BY <1>2, <2>1, <2>4 DEF Ind, LiveIsOpen, Closes
  <2> QED
    BY <2>2, <2>6, <2>7
<1>7. CASE HealthSwap
  <2>1. /\ health.pc = "drain" /\ mu' = "free" /\ UNCHANGED <<shut, slot>>
        /\ cur' = [cur EXCEPT ![a] = cur[a] + 1]
        /\ dead' = [dead EXCEPT ![a] = FALSE]
    BY <1>1, <1>7 DEF HealthSwap, Pooling, a
  <2>2. mu = "health" /\ \A v \in Users : mu # v
    BY <1>1, <2>1, PoolAssumption DEF Locked
  <2>3. /\ ~dead'[a] /\ cur'[a] = cur[a] + 1
        /\ \A b \in Addrs \ {a} : dead'[b] = dead[b] /\ cur'[b] = cur[b]
    BY <1>1, <1>3, <2>1 DEF Pooling
  <2>4. \A b \in Addrs : cur[b] \in Nat /\ cur[b] <= cur'[b]
    BY <1>1, <1>3, <2>1, <2>3 DEF Pooling
  <2>5. \A b \in Addrs : dead[b] => <<b, cur[b]>> \in shut /\ IsEmpty(<<b, cur[b]>>)
    BY <2>2 DEF Ind, Retired
  <2>6. \A p \in shut : p[1] \in Addrs /\ p[2] \in Nat
    BY <1>1 DEF Pools
  <2>7. Retired'
    <3>1. \A p \in shut : p[2] <= cur'[p[1]] /\ \A k \in Slots : slot[p][k].st # "idle"
      <4>1. ASSUME NEW p \in shut
            PROVE  p[2] <= cur'[p[1]] /\ \A k \in Slots : slot[p][k].st # "idle"
        <5>1. p[2] <= cur[p[1]] /\ \A k \in Slots : slot[p][k].st # "idle"
          BY <4>1 DEF Ind, Retired
        <5>2. p[2] \in Nat /\ cur[p[1]] \in Nat /\ cur[p[1]] <= cur'[p[1]] /\ cur'[p[1]] \in Nat
          BY <1>1, <1>3, <2>3, <2>4, <2>6 DEF Pooling
        <5> QED
          BY <5>1, <5>2
      <4> QED
        BY <4>1
    <3>2. \A b \in Addrs : dead'[b] => <<b, cur'[b]>> \in shut /\ IsEmpty(<<b, cur'[b]>>)
      BY <2>3, <2>5
    <3>3. \A b \in Addrs, g \in 1..MaxPools : g < cur'[b] => <<b, g>> \in shut /\ IsEmpty(<<b, g>>)
      <4>1. ASSUME NEW b \in Addrs, NEW g \in 1..MaxPools, g < cur'[b]
            PROVE  <<b, g>> \in shut /\ IsEmpty(<<b, g>>)
        <5>1. CASE g < cur[b]
          BY <5>1 DEF Ind, Retired
        <5>2. CASE ~(g < cur[b])
          <6>1. cur[b] \in Nat /\ g \in Nat
            BY <2>4, PoolAssumption
          <6>2. b = a
            BY <2>3, <4>1, <5>2
          <6>3. g = cur[a] /\ dead[a]
            BY <1>3, <2>1, <2>3, <4>1, <5>2, <6>1, <6>2
          <6> QED
            BY <2>5, <6>2, <6>3
        <5> QED
          BY <5>1, <5>2
      <4> QED
        BY <4>1
    <3> QED
      BY <2>1, <3>1, <3>2, <3>3 DEF Retired, IsEmpty
  <2>8. OneHolder' /\ Closes'
    <3>1. OneHolder'
      BY <1>2, <2>1 DEF Ind, OneHolder
    <3>2. ASSUME closing.pc # "no", NEW b \in Addrs
          PROVE  closing.seen[b] <= cur'[b]
      <4>1. closing.seen[b] \in Nat /\ closing.seen[b] <= cur[b]
        BY <1>1, <3>2, PoolAssumption DEF Pooling, Ind, Closes
      <4>2. cur'[b] \in Nat
        BY <2>3, <2>4
      <4> QED
        BY <2>4, <4>1, <4>2
    <3> QED
      BY <1>2, <2>1, <3>1, <3>2 DEF Ind, Closes
  <2>9. LiveIsOpen'
    <3>1. <<a, cur[a] + 1>> \notin shut
      <4>1. SUFFICES ASSUME <<a, cur[a] + 1>> \in shut
                     PROVE  FALSE
        OBVIOUS
      <4>2. cur[a] + 1 <= cur[a]
        BY <4>1 DEF Ind, Retired
      <4> QED
        BY <1>3, <2>1, <2>4, <4>2
    <3> QED
      BY <1>2, <2>1, <2>3, <3>1 DEF Ind, LiveIsOpen
  <2> QED
    BY <2>7, <2>8, <2>9
<1> QED
  BY <1>5, <1>6, <1>7 DEF HealthLoop

\* Close keeps the invariant.
LEMMA CloseKeeps ==
    ASSUME Ind, ClosePool
    PROVE  OneHolder' /\ Retired' /\ LiveIsOpen' /\ Closes'
<1>1. Walking /\ Pooling /\ SlotsTyped /\ Locked /\ shut \subseteq Pools
  BY TypedParts DEF Ind, Pooling
<1> USE DEF poolVars, puddleVars, walk, userVars
<1>2. UNCHANGED <<dead, cur, mu, at, hold, stream>>
  BY DEF ClosePool, CloseStart, CloseSub, CloseDrained
<1>3. closing.i \in Nat /\ closing.i >= 1 /\ NumAddrs \in Nat
  BY <1>1, PoolAssumption DEF Pooling
<1>4. CASE CloseStart
  <2>1. /\ closing.pc = "no" /\ closed' = TRUE /\ UNCHANGED <<shut, slot>>
        /\ closing'.pc = "next" /\ closing'.i = closing.i /\ closing'.seen = cur
    BY <1>1, <1>4 DEF CloseStart, Pooling
  <2>2. OneHolder' /\ Retired' /\ LiveIsOpen'
    BY <1>2, <2>1, FrameKeeps DEF Ind, LiveIsOpen
  <2>3. Closes'
    <3>1. closing.i = 1 /\ cur' = cur
      BY <1>2, <2>1 DEF Ind, Closes
    <3>2. \A a \in Addrs : ~(a < 1) /\ cur[a] <= cur[a]
      BY <1>1, PoolAssumption DEF Pooling, Addrs
    <3> QED
      BY <2>1, <3>1, <3>2 DEF Closes
  <2> QED
    BY <2>2, <2>3
<1>5. CASE CloseSub
  <2>1. closing.pc = "next" /\ closed /\ closed' = closed
    BY <1>5 DEF CloseSub, Ind, Closes
  <2>2. CASE /\ closing.i > NumAddrs
             /\ closing' = [closing EXCEPT !.pc = "done"]
             /\ UNCHANGED <<shut, slot>>
    <3>1. /\ closing'.pc = "done" /\ closing'.i = closing.i /\ closing.i = NumAddrs + 1
          /\ closing'.seen = closing.seen
      BY <1>1, <1>3, <2>2 DEF Pooling
    <3>2. OneHolder' /\ Retired' /\ LiveIsOpen'
      BY <1>2, <2>1, <2>2, FrameKeeps DEF Ind, LiveIsOpen
    <3>3. Closes'
      BY <1>2, <2>1, <2>2, <3>1 DEF Ind, Closes
    <3> QED
      BY <3>2, <3>3
  <2>3. CASE /\ closing.i <= NumAddrs
             /\ Shut(<<closing.i, cur[closing.i]>>)
             /\ closing' = [closing EXCEPT !.pc = "drain", !.g = cur[closing.i]]
    <3> DEFINE a == closing.i
               q == <<a, cur[a]>>
    <3>1. a \in Addrs /\ q \in Pools /\ cur[a] \in 1..MaxPools
      BY <1>1, <1>3, <2>3 DEF Pooling, Addrs, Pools
    <3>2. closing'.pc = "drain" /\ closing'.i = a /\ closing'.seen = closing.seen
      BY <1>1, <2>3 DEF Pooling
    <3>3. /\ OneHolder' /\ shut' = shut \cup {q}
          /\ \A p \in Pools : IsEmpty(p) => IsEmpty(p)'
          /\ \A p \in Pools, k \in Slots :
                slot'[p][k].st = "idle" => p # q /\ slot[p][k].st = "idle"
      BY <1>2, <2>3, <3>1, ShutKeeps DEF Ind
    <3>4. \A b \in Addrs : cur[b] \in 1..MaxPools /\ \A g \in 1..MaxPools : <<b, g>> \in Pools
      BY <1>1 DEF Pools, Pooling
    <3>5. Retired'
      <4>1. \A p \in shut' : p[2] <= cur[p[1]] /\ \A k \in Slots : slot'[p][k].st # "idle"
        <5>1. q \in Pools /\ q[1] = a /\ q[2] = cur[a] /\ cur[a] <= cur[a]
          BY <3>1, PoolAssumption
        <5> HIDE DEF q
        <5> QED
          BY <1>1, <3>3, <5>1 DEF Ind, Retired
      <4>2. \A b \in Addrs, g \in 1..MaxPools :
               IsEmpty(<<b, g>>) => \A k \in Slots : slot'[<<b, g>>][k].st = "none"
        BY <3>3, <3>4 DEF IsEmpty
      <4>3. ASSUME NEW b \in Addrs, dead[b]
            PROVE  /\ <<b, cur[b]>> \in shut
                   /\ \/ \A k \in Slots : slot'[<<b, cur[b]>>][k].st = "none"
                      \/ \E u \in Users : mu = u /\ at[u][1] = b
        <5> DEFINE g == cur[b]
        <5>1. /\ g \in 1..MaxPools /\ <<b, g>> \in shut
              /\ IsEmpty(<<b, g>>) \/ \E u \in Users : mu = u /\ at[u][1] = b
          BY <3>4, <4>3 DEF Ind, Retired
        <5> HIDE DEF g
        <5>2. \/ \A k \in Slots : slot'[<<b, g>>][k].st = "none"
              \/ \E u \in Users : mu = u /\ at[u][1] = b
          BY <4>2, <5>1
        <5> QED
          BY <5>1, <5>2 DEF g
      <4>4. \A b \in Addrs, g \in 1..MaxPools :
               g < cur[b] => <<b, g>> \in shut /\ \A k \in Slots : slot'[<<b, g>>][k].st = "none"
        BY <4>2 DEF Ind, Retired
      <4> QED
        BY <1>2, <3>3, <4>1, <4>3, <4>4 DEF Retired, IsEmpty
    <3>6. LiveIsOpen'
      BY <2>1 DEF LiveIsOpen
    <3>7. Closes'
      <4>1. ASSUME NEW g \in 1..MaxPools, g <= closing.seen[a]
            PROVE  <<a, g>> \in shut'
        <5>1. closing.seen[a] \in 1..MaxPools /\ closing.seen[a] <= cur[a]
          BY <1>1, <2>1, <3>1 DEF Pooling, Ind, Closes
        <5>2. CASE g = cur[a]
          BY <3>3, <5>2
        <5>3. CASE g < cur[a]
          BY <3>1, <3>3, <5>3 DEF Ind, Retired
        <5> QED
          BY <3>1, <4>1, <5>1, <5>2, <5>3
      <4> HIDE DEF q
      <4>2. \A b \in Addrs : closing.seen[b] <= cur'[b]
        BY <1>2, <2>1 DEF Ind, Closes
      <4>3. \A b \in Addrs : b < a \/ b = a => \A g \in 1..MaxPools : g <= closing.seen[b] => <<b, g>> \in shut'
        BY <2>1, <3>3, <4>1 DEF Ind, Closes
      <4> QED
        BY <2>1, <3>2, <4>2, <4>3 DEF Closes
    <3> QED
      BY <3>3, <3>5, <3>6, <3>7
  <2> QED
    BY <1>5, <2>2, <2>3 DEF CloseSub
<1>6. CASE CloseDrained
  <2>1. /\ closing.pc = "drain" /\ closing'.pc = "next" /\ closing'.i = closing.i + 1
        /\ closing'.seen = closing.seen /\ UNCHANGED <<closed, shut, slot>>
    BY <1>1, <1>6 DEF CloseDrained, Pooling
  <2>2. OneHolder' /\ Retired' /\ LiveIsOpen'
    BY <1>2, <2>1, FrameKeeps DEF Ind, LiveIsOpen
  <2>3. Closes'
    <3>1. \A b \in Addrs : b < closing.i + 1 => b < closing.i \/ b = closing.i
      BY <1>3 DEF Addrs
    <3>2. \A b \in Addrs : b < closing.i + 1 =>
             \A g \in 1..MaxPools : g <= closing.seen[b] => <<b, g>> \in shut
      BY <2>1, <3>1 DEF Ind, Closes
    <3>3. closed /\ \A b \in Addrs : closing.seen[b] <= cur'[b]
      BY <1>2, <2>1 DEF Ind, Closes
    <3> QED
      BY <2>1, <3>2, <3>3 DEF Closes
  <2> QED
    BY <2>2, <2>3
<1> QED
  BY <1>4, <1>5, <1>6 DEF ClosePool

\* Ind is an inductive invariant.
LEMMA Inductive == Spec => []Ind
<1>1. Init => Ind
  <2> SUFFICES ASSUME Init
               PROVE  OneHolder /\ Retired /\ LiveIsOpen /\ Closes /\ Typed
    BY DEF Ind
  <2>1. OneHolder /\ LiveIsOpen
    BY DEF Init, OneHolder, LiveIsOpen
  <2>2. Retired
    <3>1. \A a \in Addrs : cur[a] = 1 /\ ~dead[a]
      BY DEF Init
    <3>2. shut = {}
      BY DEF Init
    <3> QED
      BY <3>1, <3>2, PoolAssumption DEF Retired
  <2>3. Closes
    BY DEF Init, Closes, Addrs
  <2> QED
    BY <2>1, <2>2, <2>3, InitTyped
<1>2. Ind /\ [Next]_vars => Ind'
  <2> SUFFICES ASSUME Ind, [Next]_vars
               PROVE  Ind'
    OBVIOUS
  <2>1. Typed'
    BY NextTyped DEF Ind
  <2>2. ASSUME NEW u \in Users, Start(u) \/ Acquiring(u) \/ Using(u)
        PROVE  OneHolder' /\ Retired' /\ LiveIsOpen' /\ Closes'
    BY <2>2, UserKeeps, MarkKeeps
  <2>3. CASE UNCHANGED vars
    BY <2>1, <2>3, FrameKeeps DEF vars, poolVars, puddleVars, userVars, walk, Ind, LiveIsOpen, Closes
  <2> QED
    BY <2>1, <2>2, <2>3, OrphanKeeps, HealthKeeps, CloseKeeps DEF Next, Ind
<1> QED
  BY <1>1, <1>2, PTL DEF Spec

\* A connection is never in two pairs of hands: whatever fails and however users,
\* the health loop and Close interleave, no two operations or streams hold the
\* same connection, and one that is held is not among the idle ones.
THEOREM OneHolderHolds == Spec => []OneHolder
<1>1. Ind => OneHolder
  BY DEF Ind
<1> QED
  BY <1>1, Inductive, PTL

\* Acquire's flags never send a caller to a closed pool before Close.
THEOREM LiveIsOpenHolds == Spec => []LiveIsOpen
<1>1. Ind => LiveIsOpen
  BY DEF Ind
<1> QED
  BY <1>1, Inductive, PTL

\* The pool of a dead replica, once mu is free, and every pool the health loop
\* has replaced are closed and hold no connection: the replacement leaks none.
THEOREM RetiredIsEmptyHolds == Spec => []RetiredIsEmpty
<1>1. Ind => RetiredIsEmpty
  <2> SUFFICES ASSUME Ind, NEW a \in Addrs, NEW g \in 1..MaxPools,
                      g < cur[a] \/ (g = cur[a] /\ dead[a] /\ mu = "free")
               PROVE  <<a, g>> \in shut /\ \A k \in Slots : slot[<<a, g>>][k].st = "none"
    BY DEF RetiredIsEmpty
  <2>1. mu = "free" => \A u \in Users : mu # u
    BY PoolAssumption
  <2> QED
    BY <2>1 DEF Ind, Retired, IsEmpty
<1> QED
  BY <1>1, Inductive, PTL

\* When Close has returned, every sub-pool there was when it was called is closed,
\* also one that the health loop had put in place of another, and whatever users
\* and the health loop do in the meantime.
THEOREM CloseShutsDownHolds == Spec => []CloseShutsDown
<1>1. Ind => CloseShutsDown
  <2> SUFFICES ASSUME Ind, closing.pc = "done", NEW a \in Addrs, NEW g \in 1..MaxPools,
                      g <= closing.seen[a]
               PROVE  <<a, g>> \in shut
    BY DEF CloseShutsDown
  <2>1. a < closing.i
    BY PoolAssumption DEF Ind, Closes, Addrs
  <2> QED
    BY <2>1 DEF Ind, Closes
<1> QED
  BY <1>1, Inductive, PTL

=============================================================================
