----------------------------- MODULE BtTransport -----------------------------
(***************************************************************************)
(* BtTransportProvider objects (src/src/transports/btTransportProvider.ts) *)
(* that share one BtConnectionQueue, as its options allow, and other users *)
(* of the queue that run tasks with enqueue().                             *)
(*                                                                         *)
(* An attempt is what takes a slot: a connect() with the session it ends   *)
(* in, up to the end of the disconnect() that closes it, or a task.        *)
(* Everything from a grant to the next await runs at once.                 *)
(***************************************************************************)
EXTENDS BtConnectionQueue, FiniteSets

CONSTANTS
    Attempts,       \* identities of attempts: bounds how many at once
    Providers,
    Bricks,
    Backends,       \* the configured backends, in order of priority
    CloseGrace      \* bound on the time an adapter takes to close

ASSUME BtAssumption ==
    /\ Backends \in Seq(STRING) /\ Backends # <<>>
    /\ None \notin Attempts /\ None \notin Providers /\ None \notin Bricks
    /\ None \notin STRING
    /\ IsFiniteSet(Attempts)
    /\ CloseGrace \in Nat

VARIABLES
    queue,              \* the shared connectionQueue
    stage,              \* stage[a]: where attempt a is
    conn,               \* conn[a]: what a is for, or NoConn
    left,               \* left[a]: backends to try, the first is being opened
    sessions,           \* sessions[p][b]: the attempt that holds b, or None
    preferredBackend,   \* preferredBackend[p][b], or None
    disposed,           \* disposed providers
    closingFor          \* how long an adapter has been closing without a slot

vars == <<queue, stage, conn, left, sessions, preferredBackend, disposed, closingFor>>

BackendNames == {Backends[i] : i \in 1..Len(Backends)}

\* owner is None for a task.  next is what follows the disconnect: nothing,
\* or the rest of recover() or forget().
Conn == [owner : Providers \cup {None}, target : Bricks \cup {None},
         next : {"none", "connect", "forget"}]
NoConn == [owner |-> None, target |-> None, next |-> "none"]
For(p, b, next) == [owner |-> p, target |-> b, next |-> next]

Stages == {"idle", "waiting", "running", "opening", "connected", "closing", "dropping"}

\* Attempts that were granted a slot and have not released it.
Holding(a) == stage[a] \in {"running", "opening", "connected", "closing"}

\* Attempts with an RFCOMM link, being set up, up or being torn down.
Linked(a) == Holding(a) \/ stage[a] = "dropping"

TypeOK ==
    /\ queue \in QueueType(Attempts)
    /\ stage \in [Attempts -> Stages]
    /\ conn \in [Attempts -> Conn]
    /\ left \in [Attempts -> Seq(BackendNames)]
    /\ sessions \in [Providers -> [Bricks -> Attempts \cup {None}]]
    /\ preferredBackend \in [Providers -> [Bricks -> BackendNames \cup {None}]]
    /\ disposed \subseteq Providers
    /\ closingFor \in [Attempts -> 0..CloseGrace]

Init ==
    /\ queue = NewQueue
    /\ stage = [a \in Attempts |-> "idle"]
    /\ conn = [a \in Attempts |-> NoConn]
    /\ left = [a \in Attempts |-> <<>>]
    /\ sessions = [p \in Providers |-> [b \in Bricks |-> None]]
    /\ preferredBackend = [p \in Providers |-> [b \in Bricks |-> None]]
    /\ disposed = {}
    /\ closingFor = [a \in Attempts |-> 0]

-----------------------------------------------------------------------------
(* Slots.                                                                   *)

\* getOrderedBackends()
OrderedBackends(preferred) ==
    IF preferred = None THEN Backends
    ELSE <<preferred>> \o SelectSeq(Backends, LAMBDA name : name # preferred)

\* The queue becomes q, and the entries it granted on the way from pending
\* list before go on: a task runs, a connect() opens its first backend.
Serve(before, q, stages, lefts) ==
    LET granted == Granted(before, q.pending)
        task(a) == conn'[a].owner = None
    IN /\ queue' = q
       /\ stage' = [a \in Attempts |->
                        IF a \notin granted THEN stages[a]
                        ELSE IF task(a) THEN "running" ELSE "opening"]
       /\ left' = [a \in Attempts |->
                       IF a \notin granted \/ task(a) THEN lefts[a]
                       ELSE OrderedBackends(preferredBackend'[conn'[a].owner][conn'[a].target])]

\* Attempt a gives its slot back and ends.
ReleaseBy(a) ==
    Serve(queue.pending, Release(queue, 1), [stage EXCEPT ![a] = "idle"],
          [left EXCEPT ![a] = <<>>])

\* Attempt a asks for a slot.
AcquireBy(a, q) ==
    Serve(Append(q.pending, a), Acquire(q, a), [stage EXCEPT ![a] = "waiting"], left)

-----------------------------------------------------------------------------
(* The provider.                                                            *)

Connect(p, b, a) ==
    /\ stage[a] = "idle"
    /\ p \notin disposed
    /\ sessions[p][b] = None
    /\ conn' = [conn EXCEPT ![a] = For(p, b, "none")]
    /\ UNCHANGED <<sessions, preferredBackend, disposed, closingFor>>
    /\ AcquireBy(a, queue)

\* connectWithFallback() returns; connect() stores the session.
AdapterOpens(a) ==
    LET p == conn[a].owner
        b == conn[a].target
    IN /\ stage[a] = "opening"
       /\ stage' = [stage EXCEPT ![a] = "connected"]
       /\ sessions' = [sessions EXCEPT ![p][b] = a]
       /\ preferredBackend' = [preferredBackend EXCEPT ![p][b] = Head(left[a])]
       /\ left' = [left EXCEPT ![a] = <<>>]
       /\ UNCHANGED <<queue, conn, disposed, closingFor>>

\* Mutant of BackendFails: connect() rejects without releasing its slot.
BackendFailsKeepingSlot(a) ==
    /\ stage[a] = "opening"
    /\ UNCHANGED <<queue, sessions, preferredBackend, disposed, closingFor>>
    /\ \/ /\ Len(left[a]) > 1
          /\ left' = [left EXCEPT ![a] = Tail(left[a])]
          /\ UNCHANGED <<stage, conn>>
       \/ /\ Len(left[a]) <= 1
          /\ left' = [left EXCEPT ![a] = <<>>]
          /\ conn' = [conn EXCEPT ![a] = NoConn]
          /\ stage' = [stage EXCEPT ![a] = "idle"]

\* A backend fails: the next one is tried, or connect() rejects.
BackendFails(a) ==
    /\ stage[a] = "opening"
    /\ UNCHANGED <<sessions, preferredBackend, disposed, closingFor>>
    /\ \/ /\ Len(left[a]) > 1
          /\ left' = [left EXCEPT ![a] = Tail(left[a])]
          /\ UNCHANGED <<queue, stage, conn>>
       \/ /\ Len(left[a]) <= 1
          /\ conn' = [conn EXCEPT ![a] = NoConn]
          /\ ReleaseBy(a)

\* disconnect(), recover() and forget() up to the await of adapter.close().
CloseSession(p, b, next) ==
    LET a == sessions[p][b]
    IN /\ a # None
       /\ sessions' = [sessions EXCEPT ![p][b] = None]
       /\ stage' = [stage EXCEPT ![a] = "closing"]
       /\ conn' = [conn EXCEPT ![a] = For(p, b, next)]
       /\ UNCHANGED <<queue, left, preferredBackend, disposed, closingFor>>

Disconnect(p, b) == CloseSession(p, b, "none")
Recover(p, b) == CloseSession(p, b, "connect")

Forget(p, b) ==
    \/ CloseSession(p, b, "forget")
    \/ /\ sessions[p][b] = None
       /\ preferredBackend' = [preferredBackend EXCEPT ![p][b] = None]
       /\ UNCHANGED <<queue, stage, conn, left, sessions, disposed, closingFor>>

\* adapter.close() settles: the slot is released, and recover() connects anew
\* unless the provider is disposed or the brick is connected again.
AdapterCloses(a) ==
    LET p == conn[a].owner
        b == conn[a].target
        again == conn[a].next = "connect" /\ p \notin disposed /\ sessions[p][b] = None
        released == Release(queue, 1)
    IN /\ stage[a] = "closing"
       /\ preferredBackend' =
              IF conn[a].next = "forget" THEN [preferredBackend EXCEPT ![p][b] = None]
              ELSE preferredBackend
       /\ UNCHANGED <<sessions, disposed, closingFor>>
       /\ \/ /\ ~again
             /\ conn' = [conn EXCEPT ![a] = NoConn]
             /\ ReleaseBy(a)
          \/ /\ again
             /\ conn' = [conn EXCEPT ![a] = For(p, b, "none")]
             /\ Serve(Append(queue.pending, a), Acquire(released, a),
                      [stage EXCEPT ![a] = "waiting"], left)

\* dispose(): the sessions are closed without waiting, their slots released,
\* and every entry still waiting in the queue is rejected.
Dispose(p) ==
    LET held == {a \in Attempts : \E b \in Bricks : sessions[p][b] = a}
        released == Release(queue, Cardinality(held))
        granted == Granted(queue.pending, released.pending)
        rejected(a) == stage[a] = "waiting" /\ a \notin granted
    IN /\ p \notin disposed
       /\ disposed' = disposed \cup {p}
       /\ sessions' = [sessions EXCEPT ![p] = [b \in Bricks |-> None]]
       /\ UNCHANGED <<preferredBackend, closingFor>>
       /\ conn' = [a \in Attempts |-> IF rejected(a) THEN NoConn ELSE conn[a]]
       /\ queue' = DisposeQueue(released)
       /\ stage' = [a \in Attempts |->
                        IF a \in held THEN "dropping"
                        ELSE IF rejected(a) THEN "idle"
                        ELSE IF a \notin granted THEN stage[a]
                        ELSE IF conn[a].owner = None THEN "running" ELSE "opening"]
       /\ left' = [a \in Attempts |->
                       IF a \notin granted \/ conn[a].owner = None THEN left[a]
                       ELSE OrderedBackends(preferredBackend[conn[a].owner][conn[a].target])]

\* The close() that dispose() did not wait for settles.
AdapterDropped(a) ==
    /\ stage[a] = "dropping"
    /\ stage' = [stage EXCEPT ![a] = "idle"]
    /\ conn' = [conn EXCEPT ![a] = NoConn]
    /\ closingFor' = [closingFor EXCEPT ![a] = 0]
    /\ UNCHANGED <<queue, left, sessions, preferredBackend, disposed>>

-----------------------------------------------------------------------------
(* enqueue(), the timer and the clock.                                      *)

Enqueue(a) ==
    /\ stage[a] = "idle"
    /\ UNCHANGED <<conn, sessions, preferredBackend, disposed, closingFor>>
    /\ AcquireBy(a, queue)

TaskEnds(a) ==
    /\ stage[a] = "running"
    /\ UNCHANGED <<conn, sessions, preferredBackend, disposed, closingFor>>
    /\ \E recorded \in {RecordSuccess(queue), RecordError(queue)} :
           Serve(queue.pending, Release(recorded, 1), [stage EXCEPT ![a] = "idle"], left)

DrainTimerFires ==
    /\ queue.drainIn = 0
    /\ UNCHANGED <<conn, sessions, preferredBackend, disposed, closingFor>>
    /\ Serve(queue.pending, TimerFires(queue), stage, left)

Tick ==
    /\ \A a \in Attempts : stage[a] = "dropping" => closingFor[a] < CloseGrace
    /\ closingFor' = [a \in Attempts |->
                          IF stage[a] = "dropping" THEN closingFor[a] + 1 ELSE closingFor[a]]
    /\ queue' = Later(queue)
    /\ UNCHANGED <<stage, conn, left, sessions, preferredBackend, disposed>>

-----------------------------------------------------------------------------
Next ==
    \/ \E p \in Providers, b \in Bricks :
           \/ \E a \in Attempts : Connect(p, b, a)
           \/ Disconnect(p, b)
           \/ Recover(p, b)
           \/ Forget(p, b)
    \/ \E p \in Providers : Dispose(p)
    \/ \E a \in Attempts :
           \/ AdapterOpens(a)
           \/ BackendFails(a)
           \/ AdapterCloses(a)
           \/ AdapterDropped(a)
           \/ Enqueue(a)
           \/ TaskEnds(a)
    \/ DrainTimerFires
    \/ Tick

Spec == Init /\ [][Next]_vars

\* Time passes and due timers fire; an adapter opens or fails, and closes; a
\* task ends.  Nothing is assumed of the callers.
Fairness ==
    /\ WF_vars(Tick)
    /\ WF_vars(DrainTimerFires)
    /\ \A a \in Attempts :
           /\ WF_vars(AdapterOpens(a) \/ BackendFails(a))
           /\ WF_vars(AdapterCloses(a))
           /\ WF_vars(AdapterDropped(a))
           /\ WF_vars(TaskEnds(a))

FairSpec == Spec /\ Fairness

-----------------------------------------------------------------------------
(* Properties.                                                              *)

\* The queue and its providers implement SlotPool: activeCount is exactly the
\* number of attempts that hold a slot and never above maxConcurrent, and
\* entries are granted in order, whatever fails, is disposed, released by
\* timers or asked for again in between.
Pool == INSTANCE SlotPool WITH
    Users <- Attempts, Slots <- MaxConcurrent,
    waiting <- queue.pending,
    holders <- {a \in Attempts : Holding(a)},
    free <- MaxConcurrent - queue.active
ImplementsPool == Pool!Spec

\* An entry never waits beside a free slot without a timer to serve it.
NobodyStranded ==
    queue.pending # <<>> /\ queue.active < MaxConcurrent => queue.drainIn # None

\* Only one RFCOMM link exists at a time, also while the adapters a disposed
\* provider did not wait for are still closing: the cooldown outlasts them.
OneLink == Cardinality({a \in Attempts : Linked(a)}) <= MaxConcurrent

\* Every open adapter can be found and closed: two connect() of one brick,
\* which both find no session, never overwrite each other's session.
NoSessionOverwritten ==
    \A a \in Attempts :
        stage[a] = "connected" => sessions[conn[a].owner][conn[a].target] = a

\* A slot is granted, also at once to one who asks, only InterConnectionCooldown
\* after the last release, and after the backoff of the errors recorded so far.
RestsHonoured ==
    [][\A a \in Attempts :
           stage[a] \notin {"running", "opening"} /\ stage'[a] \in {"running", "opening"} =>
               /\ queue'.sinceRelease = InterConnectionCooldown
               /\ queue'.sinceError >= Backoff(queue'.errors)]_vars

\* Whoever waits is served or rejected, unless a session keeps its slot: a
\* failed open, a failed task or a disposal never leaves the others waiting.
WaitersServed ==
    \A a \in Attempts :
        []<>(stage[a] # "waiting" \/ \E other \in Attempts : stage[other] = "connected")
=============================================================================
