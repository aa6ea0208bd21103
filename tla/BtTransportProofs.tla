-------------------------- MODULE BtTransportProofs --------------------------
(***************************************************************************)
(* What the shared BtConnectionQueue promises, for any number of slots,    *)
(* attempts, providers and bricks and any cooldowns.                       *)
(***************************************************************************)
EXTENDS BtTransport, FiniteSetTheorems, SequenceTheorems, TLAPS

\* Nobody waits beside a free slot without a timer.
Attended(q) == q.pending # <<>> /\ q.active < MaxConcurrent => q.drainIn # None

\* The inductive invariant: it speaks of the queue, and of the stages only
\* what makes them a function.
IInv ==
    /\ queue \in QueueType(Attempts)
    /\ Attended(queue)
    /\ stage \in [Attempts -> Stages]

\* No wait is owed to the last release or to the last error.
Rested(q) ==
    /\ q.sinceRelease = InterConnectionCooldown
    /\ q.sinceError >= Backoff(q.errors)

\* What holds of the queue q when drain() went through the entries before.
Good(before, q) ==
    /\ q \in QueueType(Attempts)
    /\ Attended(q)
    /\ Len(q.pending) < Len(before) => Rested(q)

-----------------------------------------------------------------------------
(* The operators of the queue.                                              *)

\* The backoff is a number of ticks, never more than backoffMax.
LEMMA BackoffType == ASSUME NEW n PROVE Backoff(n) \in 0..BackoffMax
  BY QueueAssumption DEF Backoff, AtMost

\* The delay is a number of ticks, zero only when no wait is owed.
LEMMA DelayType ==
    ASSUME NEW q, q \in QueueType(Attempts)
    PROVE  /\ ComputeDelay(q) \in Nat
           /\ ComputeDelay(q) = 0 => Rested(q)
  <1>1. /\ q.sinceRelease \in 0..InterConnectionCooldown
        /\ q.sinceError \in 0..BackoffMax
    BY DEF QueueType
  <1>2. Backoff(q.errors) \in 0..BackoffMax
    BY BackoffType
  <1> QED
    BY <1>1, <1>2, QueueAssumption DEF ComputeDelay, Rested

\* drain() leaves nobody unattended, keeps the clocks, and shortens the
\* pending list only when no wait is owed.
LEMMA DrainFacts ==
    ASSUME NEW q, q \in QueueType(Attempts)
    PROVE  Good(q.pending, Drain(q))
  <1> DEFINE n == AtMost(MaxConcurrent - q.active, Len(q.pending))
  <1>1. /\ q.active \in 0..MaxConcurrent
        /\ q.pending \in Seq(Attempts)
        /\ q.sinceRelease \in 0..InterConnectionCooldown
        /\ q.sinceError \in 0..BackoffMax
        /\ q.errors \in 0..MaxErrors
        /\ q.drainIn \in Nat \cup {None}
    BY DEF QueueType
  <1>2. MaxConcurrent \in Nat /\ None \notin Nat
    BY QueueAssumption
  <1>3. /\ n \in Nat
        /\ n <= Len(q.pending)
        /\ n <= MaxConcurrent - q.active
        /\ n = Len(q.pending) \/ n = MaxConcurrent - q.active
    BY <1>1, <1>2 DEF AtMost
  <1>4. ComputeDelay(q) \in Nat /\ (ComputeDelay(q) = 0 => Rested(q))
    BY DelayType
  <1> USE DEF Good
  <1>5. CASE n = 0
    <2>1. Drain(q) = q
      BY <1>5 DEF Drain
    <2>2. q.pending = <<>> \/ ~(q.active < MaxConcurrent)
      BY <1>1, <1>2, <1>3, <1>5
    <2> QED
      BY <2>1, <2>2, <1>1 DEF Attended
  <1>6. CASE n # 0 /\ ComputeDelay(q) > 0
    <2>1. Drain(q) = ArmTimer(q)
      BY <1>3, <1>6 DEF Drain
    <2>2. ArmTimer(q) \in QueueType(Attempts) /\ ArmTimer(q).pending = q.pending
      BY <1>1, <1>4 DEF ArmTimer, Record, QueueType
    <2>3. ArmTimer(q).drainIn # None
      BY <1>2, <1>4 DEF ArmTimer, Record
    <2> QED
      BY <2>1, <2>2, <2>3, <1>1 DEF Attended
  <1>7. CASE n # 0 /\ ~(ComputeDelay(q) > 0)
    <2> DEFINE rest == SubSeq(q.pending, n + 1, Len(q.pending))
    <2>1. Drain(q) = Record(q.active + n, rest, q.sinceRelease, q.sinceError,
                            q.errors, q.drainIn)
      BY <1>3, <1>7 DEF Drain
    <2>2. rest \in Seq(Attempts) /\ Len(rest) = Len(q.pending) - n
      BY <1>1, <1>3
    <2>3. q.active + n \in 0..MaxConcurrent
      BY <1>1, <1>2, <1>3
    <2>4. Drain(q) \in QueueType(Attempts)
      BY <2>1, <2>2, <2>3, <1>1 DEF Record, QueueType
    <2>5. rest = <<>> \/ q.active + n = MaxConcurrent
      BY <1>1, <1>2, <1>3, <2>2
    <2>6. Attended(Drain(q))
      BY <2>1, <2>5, <1>2 DEF Attended, Record
    <2>7. Rested(Drain(q))
      BY <2>1, <1>4, <1>7 DEF Rested, Record
    <2> QED
      BY <2>4, <2>6, <2>7
  <1> QED
    BY <1>5, <1>6, <1>7

\* So does scheduleDrain().
LEMMA ScheduleFacts ==
    ASSUME NEW q, q \in QueueType(Attempts)
    PROVE  Good(q.pending, ScheduleDrain(q))
  <1>1. q.pending \in Seq(Attempts) /\ MaxConcurrent \in Nat /\ None \notin Nat
    BY QueueAssumption DEF QueueType
  <1>2. CASE q.drainIn # None
    BY <1>1, <1>2 DEF ScheduleDrain, Good, Attended
  <1>3. CASE q.drainIn = None /\ ComputeDelay(q) <= 0
    BY <1>3, DrainFacts DEF ScheduleDrain
  <1>4. CASE q.drainIn = None /\ ~(ComputeDelay(q) <= 0)
    <2>1. ScheduleDrain(q) = ArmTimer(q)
      BY <1>4 DEF ScheduleDrain
    <2>2. ComputeDelay(q) \in Nat
      BY DelayType
    <2>3. ArmTimer(q) \in QueueType(Attempts) /\ ArmTimer(q).pending = q.pending
      BY <2>2 DEF ArmTimer, Record, QueueType
    <2>4. ArmTimer(q).drainIn # None
      BY <2>2, <1>1 DEF ArmTimer, Record
    <2> QED
      BY <2>1, <2>3, <2>4, <1>1 DEF Good, Attended
  <1> QED
    BY <1>2, <1>3, <1>4

\* acquire() serves the line with the new entry at its end.
LEMMA AcquireFacts ==
    ASSUME NEW q, q \in QueueType(Attempts), NEW a \in Attempts
    PROVE  Good(Append(q.pending, a), Acquire(q, a))
  <1> DEFINE asked == Record(q.active, Append(q.pending, a), q.sinceRelease,
                             q.sinceError, q.errors, q.drainIn)
  <1>1. asked \in QueueType(Attempts) /\ asked.pending = Append(q.pending, a)
    BY DEF Record, QueueType
  <1>2. Acquire(q, a) = ScheduleDrain(asked)
    BY DEF Acquire
  <1> QED
    BY <1>1, <1>2, ScheduleFacts

\* acquire() leaves the clocks and the count of errors alone.
LEMMA AcquireKeepsClocks ==
    ASSUME NEW q, NEW a
    PROVE  /\ Acquire(q, a).sinceRelease = q.sinceRelease
           /\ Acquire(q, a).sinceError = q.sinceError
           /\ Acquire(q, a).errors = q.errors
  BY DEF Acquire, ScheduleDrain, Drain, ArmTimer, Record

\* release(), called any number of times in a row.
LEMMA ReleaseFacts ==
    ASSUME NEW q, q \in QueueType(Attempts), Attended(q), NEW n \in Nat
    PROVE  Good(q.pending, Release(q, n))
  <1>1. CASE n = 0
    <2>1. Len(q.pending) \in Nat
      BY DEF QueueType
    <2> QED
      BY <1>1, <2>1 DEF Release, Good
  <1>2. CASE n # 0
    <2> DEFINE active == IF q.active > n THEN q.active - n ELSE 0
               freed == Record(active, q.pending, 0, q.sinceError, q.errors, q.drainIn)
    <2>1. active \in 0..MaxConcurrent /\ 0 \in 0..InterConnectionCooldown
      BY QueueAssumption DEF QueueType
    <2>2. freed \in QueueType(Attempts) /\ freed.pending = q.pending
      BY <2>1 DEF Record, QueueType
    <2>3. Release(q, n) = ScheduleDrain(freed)
      BY <1>2 DEF Release
    <2> QED
      BY <2>2, <2>3, ScheduleFacts
  <1> QED
    BY <1>1, <1>2

\* The drain timer fires.
LEMMA TimerFacts ==
    ASSUME NEW q, q \in QueueType(Attempts)
    PROVE  Good(q.pending, TimerFires(q))
  <1> DEFINE due == Record(q.active, q.pending, q.sinceRelease, q.sinceError, q.errors, None)
  <1>1. due \in QueueType(Attempts) /\ due.pending = q.pending
    BY DEF Record, QueueType
  <1>2. TimerFires(q) = Drain(due)
    BY DEF TimerFires
  <1> QED
    BY <1>1, <1>2, DrainFacts

\* recordSuccess() and recordError() touch neither the slots nor the line.
LEMMA RecordFacts ==
    ASSUME NEW q, q \in QueueType(Attempts), Attended(q),
           NEW r \in {RecordSuccess(q), RecordError(q)}
    PROVE  r \in QueueType(Attempts) /\ Attended(r) /\ r.pending = q.pending
  <1>1. 0 \in 0..MaxErrors /\ 0 \in 0..BackoffMax /\ AtMost(MaxErrors, q.errors + 1) \in 0..MaxErrors
    BY QueueAssumption DEF AtMost
  <1>2. CASE r = RecordSuccess(q)
    BY <1>1, <1>2 DEF RecordSuccess, Record, QueueType, Attended
  <1>3. CASE r = RecordError(q)
    BY <1>1, <1>3 DEF RecordError, Record, QueueType, Attended
  <1> QED
    BY <1>2, <1>3

\* dispose() leaves nobody to attend to, and the clocks as they are.
LEMMA DisposeFacts ==
    ASSUME NEW q, q \in QueueType(Attempts)
    PROVE  /\ DisposeQueue(q) \in QueueType(Attempts)
           /\ Attended(DisposeQueue(q))
           /\ Rested(q) => Rested(DisposeQueue(q))
  BY DEF DisposeQueue, Record, QueueType, Attended, Rested

\* The clock.
LEMMA LaterFacts ==
    ASSUME NEW q, q \in QueueType(Attempts), Attended(q)
    PROVE  Later(q) \in QueueType(Attempts) /\ Attended(Later(q))
  <1> DEFINE timer == IF q.drainIn = None \/ q.drainIn = 0 THEN q.drainIn ELSE q.drainIn - 1
             rest == AtMost(InterConnectionCooldown, q.sinceRelease + 1)
             calm == AtMost(BackoffMax, q.sinceError + 1)
  <1>1. rest \in 0..InterConnectionCooldown /\ calm \in 0..BackoffMax
    BY QueueAssumption DEF AtMost
  <1>2. timer \in Nat \cup {None} /\ (q.drainIn # None => timer # None)
    BY QueueAssumption DEF QueueType
  <1>3. Later(q) = Record(q.active, q.pending, rest, calm, q.errors, timer)
    BY DEF Later
  <1> QED
    BY <1>1, <1>2, <1>3 DEF Record, QueueType, Attended

-----------------------------------------------------------------------------
(* The actions.                                                             *)

\* An attempt gets a slot only when no wait is owed.
GrantsRested ==
    \A a \in Attempts :
        stage[a] \notin {"running", "opening"} /\ stage'[a] \in {"running", "opening"} => Rested(queue')

\* Whoever is granted a slot leaves the line shorter.
LEMMA GrantedShorter ==
    ASSUME NEW before, NEW after, Len(before) \in Nat, Len(after) \in Nat,
           NEW a \in Granted(before, after)
    PROVE  Len(after) < Len(before)
  BY DEF Granted

LEMMA InitIInv == Init => IInv
  <1>1. /\ 0 \in 0..MaxConcurrent /\ 0 \in 0..MaxErrors
        /\ InterConnectionCooldown \in 0..InterConnectionCooldown
        /\ BackoffMax \in 0..BackoffMax
    BY QueueAssumption
  <1> QED
    BY <1>1 DEF Init, IInv, NewQueue, Record, QueueType, Attended, Stages

\* Going through a line grants nothing but from its head, and only when no
\* wait is owed.
LEMMA ServeFacts ==
    ASSUME NEW line \in Seq(Attempts), NEW q, Good(line, q),
           NEW stages \in [Attempts -> Stages], NEW lefts,
           Serve(line, q, stages, lefts),
           \A a \in Attempts : stages[a] \in {stage[a], "idle", "waiting"}
    PROVE  IInv' /\ GrantsRested
  <1>1. queue' = q /\ q \in QueueType(Attempts) /\ Attended(q)
    BY DEF Serve, Good
  <1>2. stage' \in [Attempts -> Stages]
    BY DEF Serve, Stages
  <1>3. IInv'
    BY <1>1, <1>2 DEF IInv
  <1>4. ASSUME NEW a \in Attempts, stage[a] \notin {"running", "opening"},
               stage'[a] \in {"running", "opening"}
        PROVE  Rested(queue')
    <2>1. a \in Granted(line, q.pending)
      BY <1>4 DEF Serve
    <2>2. Len(line) \in Nat /\ Len(q.pending) \in Nat
      BY <1>1 DEF QueueType
    <2>3. Len(q.pending) < Len(line)
      BY <2>1, <2>2, GrantedShorter
    <2> QED
      BY <1>1, <2>3 DEF Good
  <1> QED
    BY <1>3, <1>4 DEF GrantsRested

\* What an attempt that moves on its own does not disturb.
LEMMA QuietFacts ==
    ASSUME IInv, queue' = queue, NEW a, NEW s \in Stages \ {"running", "opening"},
           stage' = [stage EXCEPT ![a] = s]
    PROVE  IInv' /\ GrantsRested
  BY DEF IInv, GrantsRested

LEMMA LineType ==
    ASSUME IInv, NEW a \in Attempts
    PROVE  /\ queue.pending \in Seq(Attempts)
           /\ Append(queue.pending, a) \in Seq(Attempts)
           /\ [stage EXCEPT ![a] = "idle"] \in [Attempts -> Stages]
           /\ [stage EXCEPT ![a] = "waiting"] \in [Attempts -> Stages]
           /\ \A x \in Attempts :
                 /\ [stage EXCEPT ![a] = "idle"][x] \in {stage[x], "idle", "waiting"}
                 /\ [stage EXCEPT ![a] = "waiting"][x] \in {stage[x], "idle", "waiting"}
  BY DEF IInv, QueueType, Stages

LEMMA ReleaseStep ==
    ASSUME IInv, NEW a \in Attempts, ReleaseBy(a)
    PROVE  IInv' /\ GrantsRested
  <1>1. Good(queue.pending, Release(queue, 1))
    BY ReleaseFacts DEF IInv
  <1> QED
    BY <1>1, LineType, ServeFacts DEF ReleaseBy

LEMMA AcquireStep ==
    ASSUME IInv, NEW a \in Attempts, AcquireBy(a, queue)
    PROVE  IInv' /\ GrantsRested
  <1>1. Good(Append(queue.pending, a), Acquire(queue, a))
    BY AcquireFacts DEF IInv
  <1> QED
    BY <1>1, LineType, ServeFacts DEF AcquireBy

\* recover(): the slot is given back and asked for again.
LEMMA RecoverStep ==
    ASSUME IInv, NEW a \in Attempts,
           Serve(Append(queue.pending, a), Acquire(Release(queue, 1), a),
                 [stage EXCEPT ![a] = "waiting"], left)
    PROVE  IInv' /\ GrantsRested
  <1> DEFINE q == Release(queue, 1)
             r == Acquire(q, a)
  <1>1. Good(queue.pending, q)
    BY ReleaseFacts DEF IInv
  <1>2. q \in QueueType(Attempts) /\ (Len(q.pending) < Len(queue.pending) => Rested(q))
    BY <1>1 DEF Good
  <1>3. Good(Append(q.pending, a), r)
    BY <1>2, AcquireFacts
  <1>4. Rested(q) => Rested(r)
    BY AcquireKeepsClocks DEF Rested
  <1>5. Good(Append(queue.pending, a), r)
    <2>1. /\ r \in QueueType(Attempts) /\ Attended(r)
          /\ Len(r.pending) < Len(Append(q.pending, a)) => Rested(r)
      BY <1>3 DEF Good
    <2>2. /\ queue.pending \in Seq(Attempts) /\ q.pending \in Seq(Attempts)
          /\ r.pending \in Seq(Attempts)
      BY <1>2, <2>1 DEF IInv, QueueType
    <2>3. Len(r.pending) < Len(Append(queue.pending, a)) => Rested(r)
      BY <1>2, <1>4, <2>1, <2>2
    <2> QED
      BY <2>1, <2>3 DEF Good
  <1> QED
    BY <1>5, LineType, ServeFacts

LEMMA DisposeStep ==
    ASSUME IInv, NEW p \in Providers, Dispose(p)
    PROVE  IInv' /\ GrantsRested
  <1> DEFINE held == {a \in Attempts : \E b \in Bricks : sessions[p][b] = a}
             released == Release(queue, Cardinality(held))
             granted == Granted(queue.pending, released.pending)
  <1>1. Cardinality(held) \in Nat
    BY BtAssumption, FS_Subset, FS_CardinalityType
  <1>2. Good(queue.pending, released)
    BY <1>1, ReleaseFacts DEF IInv
  <1>3. /\ released \in QueueType(Attempts)
        /\ Len(released.pending) < Len(queue.pending) => Rested(released)
    BY <1>2 DEF Good
  <1>4. queue' = DisposeQueue(released)
    BY DEF Dispose
  <1>5. /\ queue' \in QueueType(Attempts) /\ Attended(queue')
        /\ Rested(released) => Rested(queue')
    BY <1>3, <1>4, DisposeFacts
  <1>6. stage' \in [Attempts -> Stages]
    BY DEF Dispose, IInv, Stages
  <1>7. IInv'
    BY <1>5, <1>6 DEF IInv
  <1>8. ASSUME NEW a \in Attempts, stage[a] \notin {"running", "opening"},
               stage'[a] \in {"running", "opening"}
        PROVE  Rested(queue')
    <2>1. a \in granted
      BY <1>8 DEF Dispose
    <2>2. Len(queue.pending) \in Nat /\ Len(released.pending) \in Nat
      BY <1>3 DEF IInv, QueueType
    <2>3. Len(released.pending) < Len(queue.pending)
      BY <2>1, <2>2, GrantedShorter
    <2> QED
      BY <1>3, <1>5, <2>3
  <1> QED
    BY <1>7, <1>8 DEF GrantsRested

LEMMA TaskStep ==
    ASSUME IInv, NEW a \in Attempts, TaskEnds(a)
    PROVE  IInv' /\ GrantsRested
  <1>1. PICK r \in {RecordSuccess(queue), RecordError(queue)} :
            Serve(queue.pending, Release(r, 1), [stage EXCEPT ![a] = "idle"], left)
    BY DEF TaskEnds
  <1>2. r \in QueueType(Attempts) /\ Attended(r) /\ r.pending = queue.pending
    BY RecordFacts DEF IInv
  <1>3. Good(queue.pending, Release(r, 1))
    BY <1>2, ReleaseFacts
  <1> QED
    BY <1>1, <1>3, LineType, ServeFacts

LEMMA TimerStep ==
    ASSUME IInv, DrainTimerFires
    PROVE  IInv' /\ GrantsRested
  <1>1. Good(queue.pending, TimerFires(queue))
    BY TimerFacts DEF IInv
  <1>2. queue.pending \in Seq(Attempts) /\ stage \in [Attempts -> Stages]
    BY DEF IInv, QueueType
  <1> QED
    BY <1>1, <1>2, ServeFacts DEF DrainTimerFires

LEMMA TickStep ==
    ASSUME IInv, Tick
    PROVE  IInv' /\ GrantsRested
  <1>1. Later(queue) \in QueueType(Attempts) /\ Attended(Later(queue))
    BY LaterFacts DEF IInv
  <1> QED
    BY <1>1 DEF Tick, IInv, GrantsRested

LEMMA CloseStep ==
    ASSUME IInv, NEW p, NEW b, NEW next, CloseSession(p, b, next)
    PROVE  IInv' /\ GrantsRested
  BY QuietFacts DEF CloseSession, Stages

\* Every step keeps the invariant and honours the rests.
LEMMA NextStep ==
    ASSUME IInv, [Next]_vars
    PROVE  IInv' /\ GrantsRested
  <1>1. CASE UNCHANGED vars
    BY <1>1 DEF vars, IInv, GrantsRested
  <1>2. ASSUME NEW p \in Providers, NEW b \in Bricks, NEW a \in Attempts, Connect(p, b, a)
        PROVE  IInv' /\ GrantsRested
    BY <1>2, AcquireStep DEF Connect
  <1>3. ASSUME NEW p \in Providers, NEW b \in Bricks, Forget(p, b)
        PROVE  IInv' /\ GrantsRested
    <2>1. CASE CloseSession(p, b, "forget")
      BY <2>1, CloseStep
    <2>2. CASE UNCHANGED <<queue, stage>>
      BY <2>2 DEF IInv, GrantsRested
    <2> QED
      BY <1>3, <2>1, <2>2 DEF Forget
  <1>4. ASSUME NEW a \in Attempts, AdapterOpens(a)
        PROVE  IInv' /\ GrantsRested
    BY <1>4, QuietFacts DEF AdapterOpens, Stages
  <1>5. ASSUME NEW a \in Attempts, BackendFails(a)
        PROVE  IInv' /\ GrantsRested
    <2>1. CASE UNCHANGED <<queue, stage>>
      BY <2>1 DEF IInv, GrantsRested
    <2>2. CASE ReleaseBy(a)
      BY <2>2, ReleaseStep
    <2> QED
      BY <1>5, <2>1, <2>2 DEF BackendFails
  <1>6. ASSUME NEW a \in Attempts, AdapterCloses(a)
        PROVE  IInv' /\ GrantsRested
    BY <1>6, ReleaseStep, RecoverStep DEF AdapterCloses
  <1>7. ASSUME NEW a \in Attempts, AdapterDropped(a)
        PROVE  IInv' /\ GrantsRested
    BY <1>7, QuietFacts DEF AdapterDropped, Stages
  <1>8. ASSUME NEW a \in Attempts, Enqueue(a)
        PROVE  IInv' /\ GrantsRested
    BY <1>8, AcquireStep DEF Enqueue
  <1> QED
    BY <1>1, <1>2, <1>3, <1>4, <1>5, <1>6, <1>7, <1>8, CloseStep, DisposeStep,
       TaskStep, TimerStep, TickStep DEF Next, Disconnect, Recover

-----------------------------------------------------------------------------
(* Slots: who waits, who holds one, and what the sessions say of it.        *)

Holders == {a \in Attempts : Holding(a)}

\* Nobody stands twice in a line.
Distinct(line) == \A i, j \in 1..Len(line) : line[i] = line[j] => i = j

\* The pending list names exactly those who wait, each of them once.
LineUp(line, stages) ==
    /\ Distinct(line)
    /\ \A a \in Attempts : stages[a] = "waiting" <=> \E i \in 1..Len(line) : line[i] = a

\* Who opens or is connected does so for a brick of a provider.
ConnInv(conns, stages) ==
    /\ conns \in [Attempts -> Conn]
    /\ \A a \in Attempts : conns[a].owner # None => conns[a].target # None
    /\ \A a \in Attempts : stages[a] \in {"opening", "connected"} => conns[a].owner # None

\* A session in a provider's map is a connected attempt for that brick.
SessionInv(map, conns, stages) ==
    /\ map \in [Providers -> [Bricks -> Attempts \cup {None}]]
    /\ \A p \in Providers, b \in Bricks : map[p][b] # None =>
           /\ stages[map[p][b]] = "connected"
           /\ conns[map[p][b]].owner = p /\ conns[map[p][b]].target = b

\* activeCount counts the attempts that hold a slot: with IInv, all that the
\* refinement of SlotPool needs.
SlotInv ==
    /\ IInv
    /\ LineUp(queue.pending, stage)
    /\ queue.active = Cardinality(Holders)
    /\ ConnInv(conn, stage)
    /\ SessionInv(sessions, conn, stage)

\* What drain() did to the line: the first n of it left, and k slots that were
\* taken became k + n.
Given(line, k, q) ==
    LET n == Len(line) - Len(q.pending)
    IN /\ n >= 0
       /\ q.active = k + n
       /\ \A i \in 1..Len(q.pending) : q.pending[i] = line[n + i]

LEMMA NobodyGiven ==
    ASSUME NEW q, q \in QueueType(Attempts), NEW r, r.pending = q.pending, r.active = q.active
    PROVE  Given(q.pending, q.active, r)
  BY DEF Given, QueueType

\* rest is what is left of s after its first n elements.
TailOf(s, n, rest) ==
    Len(rest) = Len(s) - n /\ \A i \in 1..Len(rest) : rest[i] = s[n + i]

LEMMA WhatIsLeft ==
    ASSUME NEW s \in Seq(Attempts), NEW n \in Nat, n <= Len(s)
    PROVE  TailOf(s, n, SubSeq(s, n + 1, Len(s)))
  <1>1. Len(s) \in Nat /\ n + 1 \in Int /\ n + 1 <= Len(s) + 1
    OBVIOUS
  <1>2. SubSeq(s, n + 1, Len(s)) = [i \in 1..(Len(s) - n) |-> s[n + i]]
    BY <1>1
  <1>3. Len(SubSeq(s, n + 1, Len(s))) = Len(s) - n
    BY <1>1
  <1> QED
    BY <1>1, <1>2, <1>3 DEF TailOf

LEMMA DrainGives ==
    ASSUME NEW q, q \in QueueType(Attempts)
    PROVE  Given(q.pending, q.active, Drain(q)) /\ Given(q.pending, q.active, ScheduleDrain(q))
  <1> DEFINE n == AtMost(MaxConcurrent - q.active, Len(q.pending))
             rest == SubSeq(q.pending, n + 1, Len(q.pending))
  <1>1. /\ q.active \in 0..MaxConcurrent /\ MaxConcurrent \in Nat
        /\ q.pending \in Seq(Attempts)
    BY QueueAssumption DEF QueueType
  <1>2. n \in Nat /\ n <= Len(q.pending)
    BY <1>1 DEF AtMost
  <1>3. Given(q.pending, q.active, q)
    BY NobodyGiven
  <1>4. Given(q.pending, q.active, ArmTimer(q))
    BY NobodyGiven DEF ArmTimer, Record
  <1>5. ASSUME Drain(q) = Record(q.active + n, rest, q.sinceRelease, q.sinceError,
                                 q.errors, q.drainIn)
        PROVE  Given(q.pending, q.active, Drain(q))
    <2> HIDE DEF n
    <2>2. TailOf(q.pending, n, rest)
      BY ONLY <1>1, <1>2, WhatIsLeft
    <2> HIDE DEF rest
    <2>1. Drain(q).pending = rest /\ Drain(q).active = q.active + n
      BY <1>5 DEF Record
    <2>3. Len(q.pending) \in Nat /\ Len(q.pending) - Len(rest) = n
      BY <1>1, <1>2, <2>2 DEF TailOf
    <2> QED
      BY <1>2, <2>1, <2>2, <2>3 DEF Given, TailOf
  <1>6. Given(q.pending, q.active, Drain(q))
    BY <1>3, <1>4, <1>5 DEF Drain
  <1> QED
    BY <1>3, <1>4, <1>6 DEF ScheduleDrain

LEMMA AcquireGives ==
    ASSUME NEW q, q \in QueueType(Attempts), NEW a \in Attempts
    PROVE  Given(Append(q.pending, a), q.active, Acquire(q, a))
  <1> DEFINE asked == Record(q.active, Append(q.pending, a), q.sinceRelease,
                             q.sinceError, q.errors, q.drainIn)
  <1>1. /\ asked \in QueueType(Attempts)
        /\ asked.pending = Append(q.pending, a) /\ asked.active = q.active
    BY DEF Record, QueueType
  <1>2. Acquire(q, a) = ScheduleDrain(asked)
    BY DEF Acquire
  <1> QED
    BY <1>1, <1>2, DrainGives

\* Slots that are given back were taken.
LEMMA ReleaseGives ==
    ASSUME NEW q, q \in QueueType(Attempts), NEW m \in Nat, m <= q.active
    PROVE  Given(q.pending, q.active - m, Release(q, m))
  <1>1. q.active \in Nat
    BY QueueAssumption DEF QueueType
  <1>2. CASE m = 0
    BY <1>1, <1>2, NobodyGiven DEF Release
  <1>3. CASE m # 0
    <2> DEFINE active == IF q.active > m THEN q.active - m ELSE 0
               freed == Record(active, q.pending, 0, q.sinceError, q.errors, q.drainIn)
    <2>1. active = q.active - m /\ active \in 0..MaxConcurrent /\ 0 \in 0..InterConnectionCooldown
      BY <1>1, QueueAssumption DEF QueueType
    <2>2. freed \in QueueType(Attempts) /\ freed.pending = q.pending /\ freed.active = active
      BY <2>1 DEF Record, QueueType
    <2>3. Release(q, m) = ScheduleDrain(freed)
      BY <1>3 DEF Release
    <2> HIDE DEF active, freed
    <2>4. Given(freed.pending, freed.active, ScheduleDrain(freed))
      BY <2>2, DrainGives
    <2> QED
      BY <2>1, <2>2, <2>3, <2>4
  <1> QED
    BY <1>2, <1>3

LEMMA TimerGives ==
    ASSUME NEW q, q \in QueueType(Attempts)
    PROVE  Given(q.pending, q.active, TimerFires(q))
  <1> DEFINE due == Record(q.active, q.pending, q.sinceRelease, q.sinceError, q.errors, None)
  <1>1. due \in QueueType(Attempts) /\ due.pending = q.pending /\ due.active = q.active
    BY DEF Record, QueueType
  <1>2. TimerFires(q) = Drain(due)
    BY DEF TimerFires
  <1> HIDE DEF due
  <1> QED
    BY <1>1, <1>2, DrainGives

\* The first n of a line in which nobody stands twice are n.
LEMMA FirstAreMany ==
    ASSUME NEW line \in Seq(Attempts), NEW n \in 0..Len(line), Distinct(line)
    PROVE  LET first == {line[i] : i \in 1..n} IN
           IsFiniteSet(first) /\ Cardinality(first) = n
  <1> DEFINE first == {line[i] : i \in 1..n}
             f == [i \in 1..n |-> line[i]]
  <1>1. f \in Bijection(1..n, first)
    BY DEF Distinct, Bijection, Injection, Surjection, IsInjective
  <1>2. IsFiniteSet(1..n) /\ Cardinality(1..n) = n
    BY FS_Interval
  <1> QED
    BY <1>1, <1>2, FS_Bijection DEF ExistsBijection

\* What is left of a line when its first n have gone.
RestOf(line, n, rest) ==
    /\ line \in Seq(Attempts) /\ rest \in Seq(Attempts)
    /\ n \in Nat /\ n + Len(rest) = Len(line)
    /\ \A i \in 1..Len(rest) : rest[i] = line[n + i]

\* A line is its first n and the rest of it; nobody stands in both.
SplitAt(line, n, rest) ==
    /\ Distinct(rest)
    /\ \A i \in 1..n, j \in 1..Len(rest) : line[i] # rest[j]
    /\ \A i \in 1..Len(line) :
          (\E j \in 1..n : line[j] = line[i]) \/ \E j \in 1..Len(rest) : rest[j] = line[i]

LEMMA SplitLine ==
    ASSUME NEW line, NEW n, NEW rest, RestOf(line, n, rest), Distinct(line)
    PROVE  SplitAt(line, n, rest)
  <1>1. Len(line) \in Nat /\ Len(rest) \in Nat /\ n \in Nat /\ n + Len(rest) = Len(line)
    BY DEF RestOf
  <1>2. ASSUME NEW i \in 1..Len(rest)
        PROVE  n + i \in 1..Len(line) /\ rest[i] = line[n + i]
    BY <1>1 DEF RestOf
  <1>3. ASSUME NEW i \in 1..Len(rest), NEW j \in 1..Len(rest), rest[i] = rest[j]
        PROVE  i = j
    <2>1. n + i = n + j
      BY <1>2, <1>3 DEF Distinct
    <2> QED
      BY <1>1, <2>1
  <1>4. ASSUME NEW i \in 1..n, NEW j \in 1..Len(rest)
        PROVE  line[i] # rest[j]
    <2>1. i \in 1..Len(line) /\ i # n + j
      BY <1>1
    <2> QED
      BY <1>2, <2>1 DEF Distinct
  <1>5. ASSUME NEW i \in 1..Len(line), ~(i \in 1..n)
        PROVE  \E j \in 1..Len(rest) : rest[j] = line[i]
    <2>1. i - n \in 1..Len(rest) /\ n + (i - n) = i
      BY <1>1, <1>5
    <2>2. rest[i - n] = line[i]
      BY <1>2, <2>1
    <2> QED
      BY <2>1, <2>2
  <1> QED
    BY <1>3, <1>4, <1>5 DEF Distinct, SplitAt

HoldersAt(stages) ==
    {a \in Attempts : stages[a] \in {"running", "opening", "connected", "closing"}}

LEMMA HoldersHold == Holders = HoldersAt(stage) /\ IsFiniteSet(Holders)
  <1>1. Holders = HoldersAt(stage)
    BY DEF Holders, Holding, HoldersAt
  <1> QED
    BY <1>1, BtAssumption, FS_Subset DEF HoldersAt

\* drain() went through a line in which stands who waits, with the slots
\* counted that were taken, and became q.
Drained(line, q, stages) ==
    /\ line \in Seq(Attempts)
    /\ stages \in [Attempts -> Stages]
    /\ LineUp(line, stages)
    /\ q \in QueueType(Attempts)
    /\ Given(line, Cardinality(HoldersAt(stages)), q)

\* Who was granted a slot goes on with it.
GoOn(granted, stages, served) ==
    /\ served \in [Attempts -> Stages]
    /\ \A a \in Attempts :
          IF a \in granted THEN served[a] \in {"running", "opening"}
          ELSE served[a] = stages[a]

\* Those who are granted a slot are the first of the line, they waited, and
\* now hold what is counted for them.
SlotsGiven(line, q, stages, served) ==
    LET granted == Granted(line, q.pending)
    IN /\ LineUp(q.pending, served)
       /\ q.active = Cardinality(HoldersAt(served))
       /\ HoldersAt(served) = HoldersAt(stages) \cup granted
       /\ granted \subseteq Attempts
       /\ \A a \in granted : stages[a] = "waiting"
       /\ \E n \in 0..Len(line) : granted = {line[i] : i \in 1..n} /\ RestOf(line, n, q.pending)

\* Going through a line, its first get the slots that are counted for them.
LEMMA GrantSlots ==
    ASSUME NEW line, NEW q, NEW stages, Drained(line, q, stages),
           NEW served, GoOn(Granted(line, q.pending), stages, served)
    PROVE  SlotsGiven(line, q, stages, served)
  <1> DEFINE k == Cardinality(HoldersAt(stages))
  <1>12. IsFiniteSet(HoldersAt(stages)) /\ k \in Nat
    BY BtAssumption, FS_Subset, FS_CardinalityType DEF HoldersAt
  <1>21. /\ line \in Seq(Attempts) /\ q \in QueueType(Attempts) /\ Given(line, k, q)
         /\ stages \in [Attempts -> Stages] /\ LineUp(line, stages)
         /\ served \in [Attempts -> Stages]
    BY DEF Drained, GoOn
  <1>1. PICK n \in Nat : n = Len(line) - Len(q.pending)
    <2>1. Len(line) \in Nat /\ Len(q.pending) \in Nat
      BY <1>21 DEF QueueType
    <2>2. Len(line) - Len(q.pending) >= 0
      BY <1>21 DEF Given
    <2>3. Len(line) - Len(q.pending) \in Nat
      BY <2>1, <2>2
    <2> QED
      BY <2>3, Zenon
  <1>2. /\ q.pending \in Seq(Attempts) /\ Len(q.pending) \in Nat /\ Len(line) \in Nat
        /\ n \in 0..Len(line) /\ n + Len(q.pending) = Len(line) /\ q.active = k + n
        /\ \A i \in 1..Len(q.pending) : q.pending[i] = line[n + i]
    BY <1>1, <1>21 DEF Given, QueueType
  <1>3. PICK first : first = {line[i] : i \in 1..n}
    OBVIOUS
  <1>4. first = Granted(line, q.pending)
    BY <1>1, <1>3 DEF Granted
  <1>5. \A a \in Attempts :
           IF a \in first THEN served[a] \in {"running", "opening"} ELSE served[a] = stages[a]
    BY <1>4 DEF GoOn
  <1>6. /\ Distinct(line)
        /\ \A a \in Attempts : stages[a] = "waiting" <=> \E i \in 1..Len(line) : line[i] = a
    BY <1>21 DEF LineUp
  <1>20. RestOf(line, n, q.pending)
    BY <1>2, <1>21 DEF RestOf
  <1>7. /\ Distinct(q.pending)
        /\ \A i \in 1..n, j \in 1..Len(q.pending) : line[i] # q.pending[j]
        /\ \A i \in 1..Len(line) :
              \/ \E j \in 1..n : line[j] = line[i]
              \/ \E j \in 1..Len(q.pending) : q.pending[j] = line[i]
    <2>1. RestOf(line, n, q.pending) /\ Distinct(line)
      BY <1>6, <1>20
    <2>2. SplitAt(line, n, q.pending)
      BY <2>1, SplitLine
    <2> QED
      BY <2>2 DEF SplitAt
  <1>8. first \subseteq Attempts /\ \A a \in first : stages[a] = "waiting"
    <2>1. \A i \in 1..n : i \in 1..Len(line) /\ line[i] \in Attempts
      BY <1>2, <1>21
    <2> QED
      BY <1>3, <1>6, <2>1
  <1>9. \A a \in Attempts :
           served[a] = "waiting" <=> \E i \in 1..Len(q.pending) : q.pending[i] = a
    <2> SUFFICES ASSUME NEW a \in Attempts
                 PROVE  served[a] = "waiting" <=> \E i \in 1..Len(q.pending) : q.pending[i] = a
      OBVIOUS
    <2>1. CASE a \in first
      BY <1>3, <1>5, <1>7, <2>1
    <2>2. CASE a \notin first
      <3>1. (\E i \in 1..Len(line) : line[i] = a) => \E i \in 1..Len(q.pending) : q.pending[i] = a
        BY <1>3, <1>7, <2>2
      <3>2. ASSUME NEW i \in 1..Len(q.pending), q.pending[i] = a
            PROVE  n + i \in 1..Len(line) /\ line[n + i] = a
        BY <1>2, <3>2
      <3> QED
        BY <1>5, <1>6, <2>2, <3>1, <3>2
    <2> QED
      BY <2>1, <2>2
  <1>10. HoldersAt(served) = HoldersAt(stages) \cup first
    BY <1>5, <1>8 DEF HoldersAt
  <1>11. HoldersAt(stages) \cap first = {}
    BY <1>8 DEF HoldersAt
  <1>13. IsFiniteSet(first) /\ Cardinality(first) = n
    BY <1>2, <1>3, <1>6, <1>21, FirstAreMany
  <1>14. Cardinality(HoldersAt(stages) \cup first) = k + n
    <2>1. Cardinality(HoldersAt(stages) \cap first) = 0
      BY <1>11, FS_EmptySet
    <2>2. Cardinality(HoldersAt(stages) \cup first) =
              k + Cardinality(first) - Cardinality(HoldersAt(stages) \cap first)
      BY <1>12, <1>13, FS_Union
    <2> QED
      BY <1>12, <1>13, <2>1, <2>2
  <1>15. LineUp(q.pending, served)
    BY <1>7, <1>9 DEF LineUp
  <1> QED
    BY <1>2, <1>3, <1>4, <1>8, <1>10, <1>14, <1>15, <1>20 DEF SlotsGiven

\* What is left of a line is its end.
LEMMA RestIs ==
    ASSUME NEW line, NEW n, NEW rest, RestOf(line, n, rest)
    PROVE  rest = SubSeq(line, n + 1, Len(line))
  <1>1. /\ line \in Seq(Attempts) /\ rest \in Seq(Attempts) /\ n \in Nat
        /\ Len(line) \in Nat /\ Len(rest) \in Nat /\ n + Len(rest) = Len(line)
    BY DEF RestOf
  <1> DEFINE tail == SubSeq(line, n + 1, Len(line))
  <1>2. \A i \in (n + 1)..Len(line) : line[i] \in Attempts
    BY <1>1
  <1>3. /\ tail \in Seq(Attempts) /\ Len(tail) = Len(rest)
        /\ \A i \in 1..Len(rest) : tail[i] = line[n + i]
    BY <1>1, <1>2, SubSeqProperties
  <1>4. \A i \in 1..Len(rest) : rest[i] = tail[i]
    BY <1>3 DEF RestOf
  <1> HIDE DEF tail
  <1> QED
    BY <1>1, <1>3, <1>4, SeqEqual DEF tail

\* The pool counts as the queue does.
LEMMA PoolCounts == \A S : Pool!Cardinality(S) = Cardinality(S)
  BY DEF Pool!Cardinality, Cardinality

\* A step of the pool, or none.
PoolStep == [Pool!Next]_(Pool!poolVars)

\* The same of an action that goes through a line, and what it is to the pool.
LEMMA ServeSlots ==
    ASSUME NEW line, NEW q, NEW stages, Drained(line, q, stages),
           NEW lefts, Serve(line, q, stages, lefts),
           IInv', ConnInv(conn', stages), SessionInv(sessions', conn', stages)
    PROVE  /\ SlotInv'
           /\ \E n \in 0..Len(line) : Pool!Give(n, line, HoldersAt(stages))
  <1> DEFINE granted == Granted(line, q.pending)
  <1>1. /\ queue' = q /\ stage' \in [Attempts -> Stages]
        /\ \A a \in Attempts :
              stage'[a] = IF a \in granted
                          THEN IF conn'[a].owner = None THEN "running" ELSE "opening"
                          ELSE stages[a]
    BY DEF Serve, IInv
  <1>2. \A a \in Attempts :
            IF a \in granted THEN stage'[a] \in {"running", "opening"} ELSE stage'[a] = stages[a]
    BY <1>1
  <1>3. /\ LineUp(q.pending, stage')
        /\ q.active = Cardinality(HoldersAt(stage'))
        /\ HoldersAt(stage') = HoldersAt(stages) \cup granted
        /\ \A a \in granted : stages[a] = "waiting"
        /\ \E n \in 0..Len(line) : granted = {line[i] : i \in 1..n} /\ RestOf(line, n, q.pending)
    <2>1. GoOn(granted, stages, stage')
      BY <1>1, <1>2 DEF GoOn
    <2>2. SlotsGiven(line, q, stages, stage')
      BY <2>1, GrantSlots
    <2> QED
      BY <2>2 DEF SlotsGiven
  <1>4. Holders' = HoldersAt(stage')
    BY DEF Holders, Holding, HoldersAt
  <1>5. ConnInv(conn', stage')
    BY <1>1, <1>3 DEF ConnInv
  <1>6. SessionInv(sessions', conn', stage')
    BY <1>1, <1>3, BtAssumption DEF SessionInv
  <1>7. SlotInv'
    BY <1>1, <1>3, <1>4, <1>5, <1>6 DEF SlotInv
  <1>8. PICK n \in 0..Len(line) : granted = {line[i] : i \in 1..n} /\ RestOf(line, n, q.pending)
    BY <1>3
  <1>9. q.active \in 0..MaxConcurrent /\ MaxConcurrent \in Nat
    BY QueueAssumption DEF QueueType, Drained
  <1>10. q.pending = SubSeq(line, n + 1, Len(line))
    BY <1>8, RestIs
  <1>11. Holders' = HoldersAt(stages) \cup {line[i] : i \in 1..n}
    BY <1>3, <1>4, <1>8
  <1>12. Pool!Give(n, line, HoldersAt(stages))
    <2>1. Holders' = {a \in Attempts : stage'[a] \in {"running", "opening", "connected", "closing"}}
      BY DEF Holders, Holding
    <2>2. queue'.active = Cardinality(Holders') /\ queue'.pending = q.pending
      BY <1>1, <1>3, <1>4
    <2>3. MaxConcurrent - queue'.active >= 0
      BY <1>1, <1>9
    <2>4. {a \in Attempts : Holding(a)}' = HoldersAt(stages) \cup {line[i] : i \in 1..n}
      BY <1>11, <2>1 DEF Holding
    <2>5. (MaxConcurrent - queue.active)' = MaxConcurrent - Cardinality({a \in Attempts : Holding(a)}')
      BY <2>1, <2>2 DEF Holding
    <2> QED
      BY <1>10, <2>2, <2>3, <2>4, <2>5, PoolCounts DEF Pool!Give
  <1> QED
    BY <1>7, <1>12

\* Who moves without waiting or ceasing to wait does not disturb the line.
LEMMA StayInLine ==
    ASSUME NEW line, NEW stages \in [Attempts -> Stages], LineUp(line, stages),
           NEW a \in Attempts, stages[a] # "waiting", NEW s, s # "waiting"
    PROVE  LineUp(line, [stages EXCEPT ![a] = s])
  BY DEF LineUp

\* Who begins to wait stands at the end of the line.
LEMMA JoinLine ==
    ASSUME NEW line \in Seq(Attempts), NEW stages \in [Attempts -> Stages],
           LineUp(line, stages), NEW a \in Attempts, stages[a] # "waiting"
    PROVE  LineUp(Append(line, a), [stages EXCEPT ![a] = "waiting"])
  <1> DEFINE longer == Append(line, a)
             n == Len(line)
  <1>1. /\ n \in Nat /\ Len(longer) = n + 1 /\ longer[n + 1] = a
        /\ \A i \in 1..n : longer[i] = line[i]
    OBVIOUS
  <1>2. \A i \in 1..n : line[i] \in Attempts /\ line[i] # a
    BY <1>1 DEF LineUp
  <1> HIDE DEF longer
  <1>3. Distinct(longer)
    <2> SUFFICES ASSUME NEW i \in 1..(n + 1), NEW j \in 1..(n + 1), longer[i] = longer[j]
                 PROVE  i = j
      BY <1>1 DEF Distinct
    <2>1. CASE i \in 1..n /\ j \in 1..n
      BY <1>1, <2>1 DEF LineUp, Distinct
    <2>2. CASE i \notin 1..n \/ j \notin 1..n
      BY <1>1, <1>2, <2>2
    <2> QED
      BY <2>1, <2>2
  <1>4. ASSUME NEW x \in Attempts
        PROVE  [stages EXCEPT ![a] = "waiting"][x] = "waiting" <=>
                   \E i \in 1..Len(longer) : longer[i] = x
    <2>1. CASE x = a
      BY <1>1, <2>1
    <2>2. CASE x # a
      <3>1. ASSUME NEW i \in 1..n, line[i] = x PROVE i \in 1..(n + 1) /\ longer[i] = x
        BY <1>1, <3>1
      <3>2. ASSUME NEW i \in 1..(n + 1), longer[i] = x PROVE i \in 1..n /\ line[i] = x
        BY <1>1, <2>2, <3>2
      <3>3. (\E i \in 1..n : line[i] = x) <=> \E i \in 1..(n + 1) : longer[i] = x
        BY <3>1, <3>2
      <3> QED
        BY <1>1, <2>2, <3>3 DEF LineUp
    <2> QED
      BY <2>1, <2>2
  <1> QED
    BY <1>3, <1>4 DEF LineUp, longer

\* Who leaves his slot, to wait anew or not, leaves it to be counted as free.
LEMMA LeaveSlot ==
    ASSUME SlotInv, NEW a \in Attempts, NEW s \in {"idle", "waiting"}
    PROVE  /\ HoldersAt([stage EXCEPT ![a] = s]) = Holders \ {a}
           /\ Holding(a) => /\ 1 <= queue.active
                            /\ Cardinality(Holders \ {a}) = queue.active - 1
           /\ ~Holding(a) => Holders \ {a} = Holders
  <1>1. /\ stage \in [Attempts -> Stages] /\ queue.active = Cardinality(Holders)
        /\ queue.active \in Nat
    BY QueueAssumption DEF SlotInv, IInv, QueueType
  <1>2. HoldersAt([stage EXCEPT ![a] = s]) = Holders \ {a}
    BY <1>1 DEF HoldersAt, Holders, Holding
  <1>3. Holding(a) <=> a \in Holders
    BY DEF Holders
  <1>4. IsFiniteSet(Holders)
    BY HoldersHold
  <1>5. Cardinality(Holders \ {a}) = IF a \in Holders THEN Cardinality(Holders) - 1 ELSE Cardinality(Holders)
    BY <1>4, FS_RemoveElement
  <1>6. Cardinality(Holders \ {a}) \in Nat
    BY <1>4, FS_RemoveElement, FS_CardinalityType
  <1>7. Holding(a) => 1 <= queue.active /\ Cardinality(Holders \ {a}) = queue.active - 1
    BY <1>1, <1>3, <1>5, <1>6
  <1>8. ~Holding(a) => Holders \ {a} = Holders
    BY <1>3
  <1> QED
    BY <1>2, <1>7, <1>8

\* What SlotInv says of the queue and of a session.
LEMMA SlotFacts ==
    ASSUME SlotInv
    PROVE  /\ queue \in QueueType(Attempts) /\ queue.pending \in Seq(Attempts)
           /\ stage \in [Attempts -> Stages]
           /\ LineUp(queue.pending, stage)
           /\ queue.active \in Nat /\ queue.active = Cardinality(HoldersAt(stage))
           /\ ConnInv(conn, stage)
           /\ SessionInv(sessions, conn, stage)
  BY QueueAssumption, HoldersHold DEF SlotInv, IInv, QueueType

\* An attempt that neither opens nor is connected may be given another aim.
LEMMA NewAim ==
    ASSUME SlotInv, NEW a \in Attempts, stage[a] # "connected",
           NEW c \in Conn, c.owner # None => c.target # None,
           NEW s \in {"idle", "waiting"}
    PROVE  /\ ConnInv([conn EXCEPT ![a] = c], [stage EXCEPT ![a] = s])
           /\ SessionInv(sessions, [conn EXCEPT ![a] = c], [stage EXCEPT ![a] = s])
  <1>1. /\ ConnInv(conn, stage) /\ SessionInv(sessions, conn, stage)
        /\ stage \in [Attempts -> Stages]
    BY SlotFacts
  <1>2. ConnInv([conn EXCEPT ![a] = c], [stage EXCEPT ![a] = s])
    BY <1>1 DEF ConnInv
  <1>3. ASSUME NEW p \in Providers, NEW b \in Bricks, sessions[p][b] # None
        PROVE  sessions[p][b] \in Attempts \ {a}
    BY <1>1, <1>3 DEF SessionInv
  <1>4. SessionInv(sessions, [conn EXCEPT ![a] = c], [stage EXCEPT ![a] = s])
    BY <1>1, <1>3 DEF SessionInv, ConnInv
  <1> QED
    BY <1>2, <1>4

\* The aims that are given.
LEMMA Aims ==
    /\ NoConn \in Conn /\ NoConn.owner = None
    /\ \A p \in Providers, b \in Bricks :
          For(p, b, "none") \in Conn /\ For(p, b, "none").target # None
  BY BtAssumption DEF NoConn, Conn, For

\* A slot is given back by one who ends: the pool is given back a slot.
LEMMA GiveBackSlot ==
    ASSUME SlotInv, IInv', NEW a \in Attempts, stage[a] \in {"running", "opening", "closing"},
           NEW r \in QueueType(Attempts), r.pending = queue.pending, r.active = queue.active,
           NEW lefts, Serve(queue.pending, Release(r, 1), [stage EXCEPT ![a] = "idle"], lefts),
           Attended(r),
           sessions' = sessions,
           NEW c \in Conn, c.owner # None => c.target # None, conn' = [conn EXCEPT ![a] = c]
    PROVE  SlotInv' /\ Pool!GiveBack(a)
  <1> DEFINE stages == [stage EXCEPT ![a] = "idle"]
             q == Release(r, 1)
  <1>1. Holding(a) /\ stage[a] # "connected" /\ stage[a] # "waiting"
    BY DEF Holding
  <1>2. /\ HoldersAt(stages) = Holders \ {a}
        /\ 1 <= queue.active /\ Cardinality(HoldersAt(stages)) = queue.active - 1
    BY <1>1, LeaveSlot
  <1>3. LineUp(queue.pending, stages) /\ stages \in [Attempts -> Stages]
    BY <1>1, SlotFacts, StayInLine DEF Stages
  <1>4. q \in QueueType(Attempts)
    BY ReleaseFacts DEF Good
  <1>5. Given(queue.pending, queue.active - 1, q)
    BY <1>2, ReleaseGives
  <1>6. Drained(queue.pending, q, stages)
    BY <1>2, <1>3, <1>4, <1>5, SlotFacts DEF Drained
  <1>7. ConnInv(conn', stages) /\ SessionInv(sessions', conn', stages)
    BY <1>1, NewAim
  <1> HIDE DEF q, stages
  <1>8. SlotInv' /\ \E n \in 0..Len(queue.pending) : Pool!Give(n, queue.pending, HoldersAt(stages))
    BY <1>6, <1>7, ServeSlots DEF q, stages
  <1>9. Pool!GiveBack(a)
    BY <1>1, <1>2, <1>8 DEF Pool!GiveBack, Holders
  <1> QED
    BY <1>8, <1>9

\* One who is idle asks for a slot.
LEMMA AskForSlot ==
    ASSUME SlotInv, IInv', NEW a \in Attempts, stage[a] = "idle", AcquireBy(a, queue),
           sessions' = sessions,
           NEW c \in Conn, c.owner # None => c.target # None, conn' = [conn EXCEPT ![a] = c]
    PROVE  SlotInv' /\ Pool!Ask(a)
  <1> DEFINE stages == [stage EXCEPT ![a] = "waiting"]
             line == Append(queue.pending, a)
             q == Acquire(queue, a)
  <1>1. ~Holding(a) /\ stage[a] # "connected" /\ stage[a] # "waiting"
    BY DEF Holding
  <1>2. HoldersAt(stages) = Holders /\ Cardinality(HoldersAt(stages)) = queue.active
    BY <1>1, LeaveSlot DEF SlotInv
  <1>3. LineUp(line, stages) /\ stages \in [Attempts -> Stages]
    BY <1>1, SlotFacts, JoinLine DEF Stages
  <1>4. q \in QueueType(Attempts)
    BY SlotFacts, AcquireFacts DEF Good
  <1>5. Given(line, queue.active, q)
    BY SlotFacts, AcquireGives
  <1>6. line \in Seq(Attempts) /\ Len(line) = Len(queue.pending) + 1
    BY SlotFacts
  <1>7. Drained(line, q, stages)
    BY <1>2, <1>3, <1>4, <1>5, <1>6 DEF Drained
  <1>8. ConnInv(conn', stages) /\ SessionInv(sessions', conn', stages)
    BY <1>1, NewAim
  <1>9. Serve(line, q, stages, left)
    BY DEF AcquireBy
  <1> HIDE DEF q, stages, line
  <1>10. SlotInv' /\ \E n \in 0..Len(line) : Pool!Give(n, line, HoldersAt(stages))
    BY <1>7, <1>8, <1>9, ServeSlots
  <1>11. Pool!Ask(a)
    BY <1>1, <1>2, <1>6, <1>10 DEF Pool!Ask, Holders, line
  <1> QED
    BY <1>10, <1>11

\* drain() goes twice through a line that grows by one in between.
LEMMA GivenTwice ==
    ASSUME NEW line \in Seq(Attempts), NEW k \in Nat, NEW a \in Attempts,
           NEW q \in QueueType(Attempts), Given(line, k, q),
           NEW r \in QueueType(Attempts), Given(Append(q.pending, a), q.active, r)
    PROVE  Given(Append(line, a), k, r)
  <1>1. PICK rest : rest = q.pending
    OBVIOUS
  <1>2. PICK last : last = r.pending
    OBVIOUS
  <1>3. /\ rest \in Seq(Attempts) /\ last \in Seq(Attempts)
        /\ Len(line) \in Nat /\ Len(rest) \in Nat /\ Len(last) \in Nat
    BY <1>1, <1>2 DEF QueueType
  <1>4. PICK n : n = Len(line) - Len(rest)
    OBVIOUS
  <1>5. PICK m : m = Len(rest) + 1 - Len(last)
    OBVIOUS
  <1>6. Len(Append(rest, a)) = Len(rest) + 1 /\ Len(Append(line, a)) = Len(line) + 1
    BY <1>3
  <1>7. /\ n >= 0 /\ q.active = k + n
        /\ \A i \in 1..Len(rest) : rest[i] = line[n + i]
    BY <1>1, <1>4 DEF Given
  <1>8. /\ m >= 0 /\ r.active = q.active + m
        /\ \A i \in 1..Len(last) : last[i] = Append(rest, a)[m + i]
    <2>1. Given(Append(rest, a), q.active, r) /\ Len(Append(rest, a)) - Len(r.pending) = m
      BY <1>1, <1>2, <1>5, <1>6
    <2> QED
      BY <1>2, <2>1 DEF Given
  <1>9. /\ n \in Nat /\ m \in Nat
        /\ Len(Append(line, a)) - Len(last) = n + m
        /\ r.active = k + (n + m)
    BY <1>3, <1>4, <1>5, <1>6, <1>7, <1>8
  <1>10. ASSUME NEW i \in 1..Len(last)
         PROVE  last[i] = Append(line, a)[n + m + i]
    <2>1. CASE m + i \in 1..Len(rest)
      <3>1. last[i] = rest[m + i]
        BY <1>3, <1>8, <2>1
      <3>2. rest[m + i] = line[n + (m + i)]
        BY <1>7, <2>1
      <3>3. n + (m + i) \in 1..Len(line) /\ n + (m + i) = n + m + i
        BY <1>3, <1>4, <1>9, <2>1
      <3> QED
        BY <1>3, <3>1, <3>2, <3>3
    <2>2. CASE m + i \notin 1..Len(rest)
      <3>1. m + i = Len(rest) + 1 /\ n + m + i = Len(line) + 1
        BY <1>3, <1>4, <1>5, <1>9, <2>2
      <3>2. last[i] = Append(rest, a)[Len(rest) + 1]
        BY <1>8, <3>1
      <3> QED
        BY <1>3, <3>1, <3>2
    <2> QED
      BY <2>1, <2>2
  <1> QED
    <2>1. /\ Len(Append(line, a)) - Len(r.pending) = n + m
      BY <1>2, <1>9
    <2>3. n + m >= 0 /\ r.active = k + (n + m)
      BY <1>9
    <2>2. \A i \in 1..Len(r.pending) : r.pending[i] = Append(line, a)[n + m + i]
      BY <1>2, <1>10
    <2> QED
      BY <2>1, <2>2, <2>3 DEF Given

\* recover(): the slot is given back and asked for again.
LEMMA AskForSlotAgain ==
    ASSUME SlotInv, IInv', NEW a \in Attempts, stage[a] = "closing",
           Serve(Append(queue.pending, a), Acquire(Release(queue, 1), a),
                 [stage EXCEPT ![a] = "waiting"], left),
           sessions' = sessions,
           NEW c \in Conn, c.owner # None => c.target # None, conn' = [conn EXCEPT ![a] = c]
    PROVE  SlotInv' /\ Pool!AskAgain(a)
  <1> DEFINE stages == [stage EXCEPT ![a] = "waiting"]
             line == Append(queue.pending, a)
             q == Release(queue, 1)
             r == Acquire(q, a)
  <1>1. Holding(a) /\ stage[a] # "connected" /\ stage[a] # "waiting"
    BY DEF Holding
  <1>2. /\ HoldersAt(stages) = Holders \ {a}
        /\ 1 <= queue.active /\ Cardinality(HoldersAt(stages)) = queue.active - 1
        /\ queue.active - 1 \in Nat
    <2>1. /\ HoldersAt(stages) = Holders \ {a}
          /\ 1 <= queue.active /\ Cardinality(HoldersAt(stages)) = queue.active - 1
      BY <1>1, LeaveSlot
    <2>2. queue.active \in Nat
      BY SlotFacts
    <2>3. queue.active - 1 \in Nat
      BY <2>1, <2>2
    <2> QED
      BY <2>1, <2>3
  <1>3. LineUp(line, stages) /\ stages \in [Attempts -> Stages]
    BY <1>1, SlotFacts, JoinLine DEF Stages
  <1>4. q \in QueueType(Attempts)
    BY ReleaseFacts DEF Good, SlotInv, IInv
  <1>5. r \in QueueType(Attempts)
    BY <1>4, AcquireFacts DEF Good
  <1>6. Given(queue.pending, queue.active - 1, q)
    BY <1>2, ReleaseGives, SlotFacts
  <1>7. Given(Append(q.pending, a), q.active, r)
    BY <1>4, AcquireGives
  <1>8. line \in Seq(Attempts) /\ Len(line) = Len(queue.pending) + 1
    BY SlotFacts
  <1>9. Serve(line, r, stages, left)
    OBVIOUS
  <1>10. ConnInv(conn', stages) /\ SessionInv(sessions', conn', stages)
    BY <1>1, NewAim
  <1> HIDE DEF q, r
  <1>11. Given(line, queue.active - 1, r)
    BY <1>2, <1>4, <1>5, <1>6, <1>7, SlotFacts, GivenTwice
  <1>12. Drained(line, r, stages)
    BY <1>2, <1>3, <1>5, <1>8, <1>11 DEF Drained
  <1> HIDE DEF stages, line
  <1>13. SlotInv' /\ \E n \in 0..Len(line) : Pool!Give(n, line, HoldersAt(stages))
    BY <1>9, <1>10, <1>12, ServeSlots
  <1>14. Pool!AskAgain(a)
    BY <1>1, <1>2, <1>8, <1>13 DEF Pool!AskAgain, Holders, line
  <1> QED
    BY <1>13, <1>14

\* What does not concern the pool.
LEMMA PoolRests ==
    ASSUME SlotInv, IInv', queue'.pending = queue.pending, queue'.active = queue.active,
           LineUp(queue.pending, stage'), HoldersAt(stage') = HoldersAt(stage),
           ConnInv(conn', stage'), SessionInv(sessions', conn', stage')
    PROVE  SlotInv' /\ UNCHANGED Pool!poolVars
  <1>1. Holders' = HoldersAt(stage') /\ Holders = HoldersAt(stage)
    BY DEF Holders, Holding, HoldersAt
  <1>2. SlotInv'
    BY <1>1 DEF SlotInv
  <1>3. Holders' = {a \in Attempts : Holding(a)}' /\ Holders = {a \in Attempts : Holding(a)}
    BY DEF Holders
  <1> QED
    BY <1>1, <1>2, <1>3 DEF Pool!poolVars

\* Going through the line as it stands serves some of it, or nobody.
LEMMA ServeTheLine ==
    ASSUME SlotInv, IInv', DrainTimerFires
    PROVE  SlotInv' /\ PoolStep
  <1> DEFINE q == TimerFires(queue)
             line == queue.pending
  <1>1. q \in QueueType(Attempts) /\ Given(line, queue.active, q)
    BY SlotFacts, TimerFacts, TimerGives DEF Good
  <1>2. Drained(line, q, stage)
    BY <1>1, SlotFacts DEF Drained
  <1>3. ConnInv(conn', stage) /\ SessionInv(sessions', conn', stage)
    BY SlotFacts DEF DrainTimerFires
  <1>4. Serve(line, q, stage, left)
    BY DEF DrainTimerFires
  <1> HIDE DEF q
  <1>5. SlotInv' /\ \E n \in 0..Len(line) : Pool!Give(n, line, HoldersAt(stage))
    BY <1>2, <1>3, <1>4, ServeSlots
  <1>6. PICK n \in 0..Len(line) : Pool!Give(n, line, HoldersAt(stage))
    BY <1>5
  <1>7. HoldersAt(stage) = {a \in Attempts : Holding(a)}
    BY HoldersHold DEF Holders
  <1>8. CASE n # 0
    <2>1. n \in 1..Len(line)
      BY <1>8, SlotFacts
    <2>2. Pool!ServeLater
      BY <1>6, <1>7, <2>1 DEF Pool!ServeLater
    <2> QED
      BY <1>5, <2>2 DEF PoolStep, Pool!Next
  <1>9. CASE n = 0
    <2>1. {a \in Attempts : Holding(a)}' = {a \in Attempts : Holding(a)}
      BY <1>6, <1>7, <1>9 DEF Pool!Give
    <2>2. line \in Seq(Attempts) /\ queue'.pending = SubSeq(line, 1, Len(line))
      BY <1>6, <1>9, SlotFacts DEF Pool!Give
    <2>3. queue'.pending = line
      BY <2>2, SubSeqFull
    <2>4. queue.active = Cardinality({a \in Attempts : Holding(a)})
      BY DEF SlotInv, Holders
    <2>5. (MaxConcurrent - queue.active)' = MaxConcurrent - queue.active
      BY <1>6, <2>1, <2>4, PoolCounts DEF Pool!Give
    <2> QED
      BY <1>5, <2>1, <2>3, <2>5 DEF PoolStep, Pool!poolVars
  <1> QED
    BY <1>5, <1>8, <1>9

\* dispose(): the slots of the provider's sessions are given back together.
LEMMA GiveBackAllSlots ==
    ASSUME SlotInv, IInv', NEW p \in Providers, Dispose(p)
    PROVE  SlotInv' /\ PoolStep
  <1> DEFINE held == {a \in Attempts : \E b \in Bricks : sessions[p][b] = a}
             line == queue.pending
             q == Release(queue, Cardinality(held))
             granted == Granted(line, q.pending)
             goes(a) == IF conn[a].owner = None THEN "running" ELSE "opening"
             stages == [a \in Attempts |-> IF a \in held THEN "dropping" ELSE stage[a]]
             served == [a \in Attempts |-> IF a \in granted THEN goes(a) ELSE stages[a]]
  <1>1. /\ queue \in QueueType(Attempts) /\ line \in Seq(Attempts)
        /\ stage \in [Attempts -> Stages] /\ LineUp(line, stage)
        /\ queue.active \in Nat /\ queue.active = Cardinality(Holders)
        /\ ConnInv(conn, stage) /\ SessionInv(sessions, conn, stage)
    BY SlotFacts, HoldersHold
  <1>2. ASSUME NEW a \in held
        PROVE  a \in Attempts /\ stage[a] = "connected" /\ conn[a].owner = p
    BY <1>1, BtAssumption DEF SessionInv
  <1>3. held \subseteq Holders /\ IsFiniteSet(Holders)
    BY <1>2, HoldersHold DEF Holders, Holding
  <1>4. /\ Cardinality(held) \in Nat /\ Cardinality(held) <= queue.active
        /\ IsFiniteSet(held)
    BY <1>1, <1>3, FS_Subset, FS_CardinalityType
  <1>5. Cardinality(Holders \ held) = queue.active - Cardinality(held)
    <2>1. Holders \cap held = held
      BY <1>3
    <2>2. Cardinality(Holders \ held) = Cardinality(Holders) - Cardinality(Holders \cap held)
      BY <1>3, FS_Difference
    <2> QED
      BY <1>1, <2>1, <2>2
  <1>6. HoldersAt(stages) = Holders \ held
    BY <1>1 DEF Holders, Holding, HoldersAt
  <1>7. LineUp(line, stages) /\ stages \in [Attempts -> Stages]
    BY <1>1, <1>2 DEF LineUp, Stages
  <1>8. q \in QueueType(Attempts)
    BY <1>1, <1>4, ReleaseFacts DEF Good, SlotInv, IInv
  <1>9. Given(line, queue.active - Cardinality(held), q)
    BY <1>1, <1>4, ReleaseGives
  <1>10. Drained(line, q, stages)
    BY <1>1, <1>5, <1>6, <1>7, <1>8, <1>9 DEF Drained
  <1>11. GoOn(granted, stages, served)
    BY <1>7 DEF GoOn, Stages
  <1>12. SlotsGiven(line, q, stages, served)
    BY <1>10, <1>11, GrantSlots
  <1>13. /\ queue' = DisposeQueue(q)
         /\ sessions' = [sessions EXCEPT ![p] = [b \in Bricks |-> None]]
         /\ \A a \in Attempts : conn'[a] = IF stage[a] = "waiting" /\ a \notin granted THEN NoConn ELSE conn[a]
         /\ conn' = [a \in Attempts |-> conn'[a]]
         /\ \A a \in Attempts :
               stage'[a] = IF a \in held THEN "dropping"
                           ELSE IF stage[a] = "waiting" /\ a \notin granted THEN "idle"
                           ELSE IF a \notin granted THEN stage[a] ELSE goes(a)
    BY DEF Dispose
  <1>14. queue'.pending = <<>> /\ queue'.active = q.active
    BY <1>13 DEF DisposeQueue, Record
  <1>15. \A a \in Attempts :
            IF a \in granted THEN stage[a] = "waiting" /\ a \notin held ELSE TRUE
    <2>1. \A a \in granted : stages[a] = "waiting"
      BY <1>12 DEF SlotsGiven
    <2> QED
      BY <1>2, <2>1
  <1>16. \A a \in Attempts : served[a] = IF a \in granted THEN goes(a)
                                         ELSE IF a \in held THEN "dropping" ELSE stage[a]
    OBVIOUS
  <1> HIDE DEF held, q, granted, stages, served
  <1>17. \A a \in Attempts :
             /\ stage'[a] # "waiting"
             /\ served[a] # "waiting" => stage'[a] = served[a]
             /\ served[a] = "waiting" => stage'[a] = "idle"
    BY <1>2, <1>13, <1>15, <1>16
  <1>18. HoldersAt(stage') = HoldersAt(served)
    BY <1>17 DEF HoldersAt
  <1>19. LineUp(queue'.pending, stage')
    BY <1>14, <1>17 DEF LineUp, Distinct
  <1>20. Holders' = HoldersAt(stage')
    BY DEF Holders, Holding, HoldersAt
  <1>21. queue'.active = Cardinality(Holders')
    BY <1>12, <1>14, <1>18, <1>20 DEF SlotsGiven
  <1>22. ConnInv(conn', stage')
    <2>1. conn' \in [Attempts -> Conn]
      BY <1>1, <1>13, Aims DEF ConnInv
    <2>2. ASSUME NEW a \in Attempts
          PROVE  /\ conn'[a].owner # None => conn'[a].target # None
                 /\ stage'[a] \in {"opening", "connected"} => conn'[a].owner # None
      BY <1>1, <1>2, <1>13, <1>15, Aims DEF ConnInv
    <2> QED
      BY <2>1, <2>2 DEF ConnInv
  <1>23. SessionInv(sessions', conn', stage')
    <2>1. sessions' \in [Providers -> [Bricks -> Attempts \cup {None}]]
      BY <1>1, <1>13 DEF SessionInv
    <2>2. ASSUME NEW r \in Providers, NEW b \in Bricks, sessions'[r][b] # None
          PROVE  /\ stage'[sessions'[r][b]] = "connected"
                 /\ conn'[sessions'[r][b]].owner = r /\ conn'[sessions'[r][b]].target = b
      <3>1. r # p /\ sessions'[r][b] = sessions[r][b]
        BY <1>1, <1>13, <2>2 DEF SessionInv
      <3>2. PICK a \in Attempts : sessions[r][b] = a
        BY <1>1, <2>2, <3>1 DEF SessionInv
      <3>3. stage[a] = "connected" /\ conn[a].owner = r /\ conn[a].target = b
        BY <1>1, <2>2, <3>1, <3>2 DEF SessionInv
      <3>4. a \notin held /\ a \notin granted
        BY <1>2, <1>15, <3>1, <3>2, <3>3
      <3> QED
        BY <1>13, <3>1, <3>2, <3>3, <3>4
    <2> QED
      BY <2>1, <2>2 DEF SessionInv
  <1>24. SlotInv'
    BY <1>19, <1>21, <1>22, <1>23 DEF SlotInv
  <1>25. PICK n \in 0..Len(line) : granted = {line[i] : i \in 1..n}
    BY <1>12 DEF SlotsGiven, granted
  <1>26. Holders' = (Holders \ held) \cup {line[i] : i \in 1..n}
    BY <1>6, <1>12, <1>18, <1>20, <1>25 DEF SlotsGiven, granted
  <1>27. /\ Holders' = {a \in Attempts : Holding(a)}' /\ Holders = {a \in Attempts : Holding(a)}
         /\ MaxConcurrent - q.active >= 0
    BY <1>8, QueueAssumption DEF Holders, QueueType
  <1>28. Pool!GiveBackAll(held)
    BY <1>14, <1>21, <1>25, <1>26, <1>27, PoolCounts DEF Pool!GiveBackAll
  <1>29. held \in SUBSET {a \in Attempts : Holding(a)}
    BY <1>3, <1>27
  <1> QED
    BY <1>24, <1>28, <1>29 DEF PoolStep, Pool!Next

\* connect() ends in a session: the slot stays taken.
LEMMA OpenKeepsSlot ==
    ASSUME SlotInv, IInv', NEW a \in Attempts, AdapterOpens(a)
    PROVE  SlotInv' /\ UNCHANGED Pool!poolVars
  <1> DEFINE p == conn[a].owner
             b == conn[a].target
  <1>1. /\ stage \in [Attempts -> Stages] /\ LineUp(queue.pending, stage)
        /\ ConnInv(conn, stage) /\ SessionInv(sessions, conn, stage)
    BY SlotFacts
  <1>2. /\ stage[a] = "opening" /\ stage' = [stage EXCEPT ![a] = "connected"]
        /\ sessions' = [sessions EXCEPT ![p][b] = a]
        /\ queue' = queue /\ conn' = conn
    BY DEF AdapterOpens
  <1>3. p \in Providers /\ b \in Bricks
    BY <1>1, <1>2, BtAssumption DEF ConnInv, Conn
  <1>4. LineUp(queue.pending, stage')
    BY <1>1, <1>2, StayInLine
  <1>5. HoldersAt(stage') = HoldersAt(stage)
    BY <1>1, <1>2 DEF HoldersAt
  <1>6. ConnInv(conn', stage')
    BY <1>1, <1>2 DEF ConnInv
  <1>7. SessionInv(sessions', conn', stage')
    <2>1. sessions' \in [Providers -> [Bricks -> Attempts \cup {None}]]
      BY <1>1, <1>2, <1>3 DEF SessionInv
    <2>2. ASSUME NEW r \in Providers, NEW c \in Bricks, sessions'[r][c] # None
          PROVE  /\ stage'[sessions'[r][c]] = "connected"
                 /\ conn'[sessions'[r][c]].owner = r /\ conn'[sessions'[r][c]].target = c
      <3>1. CASE r = p /\ c = b
        BY <1>1, <1>2, <1>3, <3>1 DEF SessionInv
      <3>2. CASE ~(r = p /\ c = b)
        <4>1. sessions'[r][c] = sessions[r][c]
          BY <1>1, <1>2, <1>3, <3>2 DEF SessionInv
        <4>2. sessions[r][c] \in Attempts
          BY <1>1, <2>2, <4>1 DEF SessionInv
        <4> QED
          BY <1>1, <1>2, <2>2, <4>1, <4>2 DEF SessionInv
      <3> QED
        BY <3>1, <3>2
    <2> QED
      BY <2>1, <2>2 DEF SessionInv
  <1> QED
    BY <1>2, <1>4, <1>5, <1>6, <1>7, PoolRests

\* So it does while the adapter closes.
LEMMA CloseKeepsSlot ==
    ASSUME SlotInv, IInv', NEW p \in Providers, NEW b \in Bricks,
           NEW next \in {"none", "connect", "forget"}, CloseSession(p, b, next)
    PROVE  SlotInv' /\ UNCHANGED Pool!poolVars
  <1>1. /\ stage \in [Attempts -> Stages] /\ LineUp(queue.pending, stage)
        /\ ConnInv(conn, stage) /\ SessionInv(sessions, conn, stage)
    BY SlotFacts
  <1>2. PICK a : a = sessions[p][b]
    OBVIOUS
  <1>3. /\ a # None
        /\ stage' = [stage EXCEPT ![a] = "closing"]
        /\ sessions' = [sessions EXCEPT ![p][b] = None]
        /\ conn' = [conn EXCEPT ![a] = For(p, b, next)]
        /\ queue' = queue
    BY <1>2 DEF CloseSession
  <1>4. a \in Attempts /\ stage[a] = "connected" /\ conn[a].owner = p /\ conn[a].target = b
    BY <1>1, <1>2, <1>3 DEF SessionInv
  <1>5. LineUp(queue.pending, stage')
    BY <1>1, <1>3, <1>4, StayInLine
  <1>6. HoldersAt(stage') = HoldersAt(stage)
    BY <1>1, <1>3, <1>4 DEF HoldersAt
  <1>7. ConnInv(conn', stage')
    BY <1>1, <1>3, <1>4, BtAssumption DEF ConnInv, For, Conn
  <1>8. SessionInv(sessions', conn', stage')
    <2>1. sessions' \in [Providers -> [Bricks -> Attempts \cup {None}]]
      BY <1>1, <1>3 DEF SessionInv
    <2>2. ASSUME NEW r \in Providers, NEW c \in Bricks, sessions'[r][c] # None
          PROVE  /\ stage'[sessions'[r][c]] = "connected"
                 /\ conn'[sessions'[r][c]].owner = r /\ conn'[sessions'[r][c]].target = c
      <3>1. ~(r = p /\ c = b) /\ sessions'[r][c] = sessions[r][c]
        BY <1>1, <1>3, <2>2 DEF SessionInv
      <3>2. PICK x \in Attempts : x = sessions[r][c]
        BY <1>1, <2>2, <3>1 DEF SessionInv
      <3>3. stage[x] = "connected" /\ conn[x].owner = r /\ conn[x].target = c
        BY <1>1, <2>2, <3>1, <3>2 DEF SessionInv
      <3>4. x # a
        BY <1>4, <3>1, <3>3
      <3> QED
        BY <1>1, <1>3, <3>1, <3>2, <3>3, <3>4 DEF ConnInv
    <2> QED
      BY <2>1, <2>2 DEF SessionInv
  <1> QED
    BY <1>3, <1>5, <1>6, <1>7, <1>8, PoolRests

\* The close() that dispose() did not wait for settles.
LEMMA DroppedHeldNoSlot ==
    ASSUME SlotInv, IInv', NEW a \in Attempts, AdapterDropped(a)
    PROVE  SlotInv' /\ UNCHANGED Pool!poolVars
  <1>1. /\ stage[a] = "dropping" /\ stage' = [stage EXCEPT ![a] = "idle"]
        /\ conn' = [conn EXCEPT ![a] = NoConn]
        /\ sessions' = sessions /\ queue' = queue
    BY DEF AdapterDropped
  <1>2. LineUp(queue.pending, stage')
    BY <1>1, SlotFacts, StayInLine
  <1>3. HoldersAt(stage') = HoldersAt(stage)
    <2>1. ~Holding(a)
      BY <1>1 DEF Holding
    <2> QED
      BY <1>1, <2>1, LeaveSlot, HoldersHold
  <1>4. ConnInv(conn', stage') /\ SessionInv(sessions', conn', stage')
    BY <1>1, Aims, NewAim
  <1> QED
    BY <1>1, <1>2, <1>3, <1>4, PoolRests

\* What touches neither the stages nor the sessions nor the slots.
LEMMA SlotsUntouched ==
    ASSUME SlotInv, IInv', UNCHANGED <<stage, conn, sessions>>,
           queue'.pending = queue.pending, queue'.active = queue.active
    PROVE  SlotInv' /\ UNCHANGED Pool!poolVars
  BY SlotFacts, PoolRests

LEMMA SlotsInit == Init => SlotInv /\ Pool!Init
  <1> SUFFICES ASSUME Init PROVE SlotInv /\ Pool!Init
    OBVIOUS
  <1>1. IInv
    BY InitIInv
  <1>2. Holders = {} /\ Cardinality(Holders) = 0
    BY FS_EmptySet DEF Init, Holders, Holding
  <1>3. queue.pending = <<>> /\ queue.active = 0
    BY DEF Init, NewQueue, Record
  <1>4. LineUp(queue.pending, stage)
    BY <1>3 DEF Init, LineUp, Distinct
  <1>5. ConnInv(conn, stage)
    BY Aims DEF Init, ConnInv
  <1>6. SessionInv(sessions, conn, stage)
    BY DEF Init, SessionInv
  <1>7. Pool!Init
    BY <1>2, <1>3, QueueAssumption DEF Pool!Init, Holders
  <1> QED
    BY <1>1, <1>2, <1>3, <1>4, <1>5, <1>6, <1>7 DEF SlotInv

\* Every step keeps count, and is a step of the pool or none.
LEMMA NextSlots ==
    ASSUME SlotInv, [Next]_vars
    PROVE  SlotInv' /\ PoolStep
  <1>0. IInv'
    BY NextStep DEF SlotInv
  <1> USE <1>0
  <1> SUFFICES SlotInv' /\ (UNCHANGED Pool!poolVars \/ Pool!Next)
    BY DEF PoolStep
  <1>1. CASE UNCHANGED vars
    BY <1>1, SlotsUntouched DEF vars
  <1>2. ASSUME NEW p \in Providers, NEW b \in Bricks, NEW a \in Attempts, Connect(p, b, a)
        PROVE  SlotInv' /\ Pool!Ask(a)
    BY <1>2, Aims, AskForSlot DEF Connect
  <1>3. ASSUME NEW p \in Providers, NEW b \in Bricks,
               Disconnect(p, b) \/ Recover(p, b) \/ Forget(p, b)
        PROVE  SlotInv' /\ UNCHANGED Pool!poolVars
    <2>1. CASE UNCHANGED <<queue, stage, conn, left, sessions, disposed, closingFor>>
      BY <2>1, SlotsUntouched
    <2> QED
      BY <1>3, <2>1, CloseKeepsSlot DEF Disconnect, Recover, Forget
  <1>4. ASSUME NEW p \in Providers, Dispose(p)
        PROVE  SlotInv' /\ (UNCHANGED Pool!poolVars \/ Pool!Next)
    BY <1>4, GiveBackAllSlots DEF PoolStep
  <1>5. ASSUME NEW a \in Attempts, BackendFails(a)
        PROVE  SlotInv' /\ (UNCHANGED Pool!poolVars \/ Pool!GiveBack(a))
    <2>1. CASE UNCHANGED <<queue, stage, conn, sessions>>
      BY <2>1, SlotsUntouched
    <2>2. CASE conn' = [conn EXCEPT ![a] = NoConn] /\ ReleaseBy(a) /\ sessions' = sessions
      BY <1>5, <2>2, Aims, SlotFacts, GiveBackSlot DEF BackendFails, ReleaseBy, SlotInv, IInv
    <2> QED
      BY <1>5, <2>1, <2>2 DEF BackendFails
  <1>6. ASSUME NEW a \in Attempts, AdapterCloses(a)
        PROVE  SlotInv' /\ (Pool!GiveBack(a) \/ Pool!AskAgain(a))
    <2>1. stage[a] = "closing" /\ sessions' = sessions
      BY <1>6 DEF AdapterCloses
    <2>2. CASE conn' = [conn EXCEPT ![a] = NoConn] /\ ReleaseBy(a)
      BY <2>1, <2>2, Aims, SlotFacts, GiveBackSlot DEF ReleaseBy, SlotInv, IInv
    <2>3. CASE /\ conn' = [conn EXCEPT ![a] = For(conn[a].owner, conn[a].target, "none")]
               /\ Serve(Append(queue.pending, a), Acquire(Release(queue, 1), a),
                        [stage EXCEPT ![a] = "waiting"], left)
      <3> DEFINE c == For(conn[a].owner, conn[a].target, "none")
      <3>1. c \in Conn /\ (c.owner # None => c.target # None)
        BY SlotFacts DEF ConnInv, Conn, For
      <3> HIDE DEF c
      <3> QED
        BY <2>1, <2>3, <3>1, AskForSlotAgain DEF c
    <2> QED
      BY <1>6, <2>2, <2>3 DEF AdapterCloses
  <1>7. ASSUME NEW a \in Attempts, Enqueue(a)
        PROVE  SlotInv' /\ Pool!Ask(a)
    <2>1. conn' = [conn EXCEPT ![a] = conn[a]] /\ conn[a] \in Conn
          /\ (conn[a].owner # None => conn[a].target # None)
      BY <1>7, SlotFacts DEF Enqueue, ConnInv
    <2> QED
      BY <1>7, <2>1, AskForSlot DEF Enqueue
  <1>8. ASSUME NEW a \in Attempts, TaskEnds(a)
        PROVE  SlotInv' /\ Pool!GiveBack(a)
    <2>1. conn' = [conn EXCEPT ![a] = conn[a]] /\ conn[a] \in Conn
          /\ (conn[a].owner # None => conn[a].target # None)
      BY <1>8, SlotFacts DEF TaskEnds, ConnInv
    <2>2. PICK r \in {RecordSuccess(queue), RecordError(queue)} :
            Serve(queue.pending, Release(r, 1), [stage EXCEPT ![a] = "idle"], left)
      BY <1>8 DEF TaskEnds
    <2>3. r \in QueueType(Attempts) /\ Attended(r) /\ r.pending = queue.pending
      BY RecordFacts DEF SlotInv, IInv
    <2>4. r.active = queue.active
      BY DEF RecordSuccess, RecordError, Record
    <2> QED
      BY <1>8, <2>1, <2>2, <2>3, <2>4, GiveBackSlot DEF TaskEnds
  <1>9. CASE DrainTimerFires
    BY <1>9, ServeTheLine DEF PoolStep
  <1>10. CASE Tick
    BY <1>10, SlotsUntouched DEF Tick, Later, Record
  <1> QED
    BY <1>1, <1>2, <1>3, <1>4, <1>5, <1>6, <1>7, <1>8, <1>9, <1>10,
       OpenKeepsSlot, DroppedHeldNoSlot DEF Next, Pool!Next

-----------------------------------------------------------------------------
(* Links and sessions.                                                      *)

\* An adapter that closes without a slot has been doing so at least since the
\* last release: dispose() released the slot when it gave the adapter up.
DropInv ==
    /\ closingFor \in [Attempts -> 0..CloseGrace]
    /\ \A a \in Attempts : stage[a] = "dropping" => queue.sinceRelease <= closingFor[a]

LinkedAt(stages) ==
    {a \in Attempts : stages[a] \in {"running", "opening", "connected", "closing", "dropping"}}

\* What a step does to the links: only a grant makes one.
LinksGranted ==
    \A a \in Attempts :
        a \in LinkedAt(stage') => a \in LinkedAt(stage) \/ stage'[a] \in {"running", "opening"}

\* Only the last release can be forgotten for a later one.
LEMMA ClockFacts ==
    ASSUME NEW q, NEW n, NEW a
    PROVE  /\ Drain(q).sinceRelease = q.sinceRelease
           /\ Acquire(q, a).sinceRelease = q.sinceRelease
           /\ TimerFires(q).sinceRelease = q.sinceRelease
           /\ Release(q, n).sinceRelease \in {0, q.sinceRelease}
           /\ n # 0 => Release(q, n).sinceRelease = 0
  BY DEF Acquire, Release, TimerFires, ScheduleDrain, Drain, ArmTimer, Record

\* Going through a line gives nobody up.
LEMMA ServeLinks ==
    ASSUME SlotInv, DropInv, closingFor' = closingFor,
           NEW line, NEW q, q.sinceRelease \in {0, queue.sinceRelease},
           NEW stages, NEW lefts, Serve(line, q, stages, lefts),
           \A a \in Attempts : stages[a] \in {stage[a], "idle", "waiting"}
    PROVE  DropInv' /\ LinksGranted
  <1>1. /\ queue' = q
        /\ \A a \in Attempts : \/ stage'[a] = stages[a]
                               \/ stage'[a] \in {"running", "opening"}
    BY DEF Serve
  <1>2. \A a \in Attempts :
            /\ stage'[a] = "dropping" => stage[a] = "dropping"
            /\ stage'[a] \in {stage[a], "idle", "waiting", "running", "opening"}
    BY <1>1
  <1> QED
    BY <1>1, <1>2 DEF DropInv, LinksGranted, LinkedAt

LEMMA NextLinks ==
    ASSUME SlotInv, DropInv, [Next]_vars
    PROVE  DropInv' /\ LinksGranted
  <1>1. ASSUME UNCHANGED closingFor, queue'.sinceRelease = queue.sinceRelease,
               \A a \in Attempts :
                   /\ stage'[a] = "dropping" => stage[a] = "dropping"
                   /\ a \in LinkedAt(stage') => a \in LinkedAt(stage)
        PROVE  DropInv' /\ LinksGranted
    BY <1>1 DEF DropInv, LinksGranted
  <1>2. stage \in [Attempts -> Stages] /\ SessionInv(sessions, conn, stage)
    BY SlotFacts
  <1>3. CASE UNCHANGED <<queue, stage, closingFor>>
    BY <1>1, <1>3
  <1>4. ASSUME NEW a \in Attempts, AcquireBy(a, queue), closingFor' = closingFor
        PROVE  DropInv' /\ LinksGranted
    <2>2. Acquire(queue, a).sinceRelease \in {0, queue.sinceRelease}
      BY ClockFacts
    <2>3. Serve(Append(queue.pending, a), Acquire(queue, a), [stage EXCEPT ![a] = "waiting"], left)
      BY <1>4 DEF AcquireBy
    <2> QED
      BY <1>4, <2>2, <2>3, LineType, ServeLinks DEF SlotInv
  <1>5. ASSUME NEW a \in Attempts, ReleaseBy(a), closingFor' = closingFor
        PROVE  DropInv' /\ LinksGranted
    <2>2. Release(queue, 1).sinceRelease \in {0, queue.sinceRelease}
      BY ClockFacts
    <2>3. Serve(queue.pending, Release(queue, 1), [stage EXCEPT ![a] = "idle"],
                [left EXCEPT ![a] = <<>>])
      BY <1>5 DEF ReleaseBy
    <2> QED
      BY <1>5, <2>2, <2>3, LineType, ServeLinks DEF SlotInv
  <1>6. ASSUME NEW p \in Providers, NEW b \in Bricks, NEW next, CloseSession(p, b, next)
        PROVE  DropInv' /\ LinksGranted
    <2>1. PICK a \in Attempts : stage[a] = "connected" /\ stage' = [stage EXCEPT ![a] = "closing"]
      <3>1. sessions[p][b] \in Attempts /\ stage[sessions[p][b]] = "connected"
        BY <1>2, <1>6 DEF CloseSession, SessionInv
      <3> QED
        BY <1>6, <3>1 DEF CloseSession
    <2> QED
      BY <1>1, <1>2, <1>6, <2>1 DEF CloseSession, LinkedAt
  <1>7. ASSUME NEW p \in Providers, Dispose(p)
        PROVE  DropInv' /\ LinksGranted
    <2> DEFINE held == {a \in Attempts : \E b \in Bricks : sessions[p][b] = a}
               q == Release(queue, Cardinality(held))
    <2>1. /\ closingFor' = closingFor /\ queue'.sinceRelease = q.sinceRelease
          /\ \A a \in Attempts :
                IF a \in held THEN stage'[a] = "dropping"
                ELSE stage'[a] \in {stage[a], "idle", "running", "opening"}
      BY <1>7 DEF Dispose, DisposeQueue, Record
    <2>2. \A a \in held : stage[a] = "connected"
      BY <1>2, BtAssumption DEF SessionInv
    <2>3. IsFiniteSet(held)
      BY BtAssumption, FS_Subset
    <2>4. \A a \in held : Cardinality(held) # 0
      BY <2>3, FS_EmptySet
    <2>5. q.sinceRelease \in {0, queue.sinceRelease}
      BY ClockFacts
    <2>6. \A a \in held : q.sinceRelease = 0
      BY <2>4, ClockFacts
    <2> HIDE DEF held, q
    <2>7. DropInv'
      <3>1. ASSUME NEW a \in Attempts, stage'[a] = "dropping"
            PROVE  queue'.sinceRelease <= closingFor'[a]
        <4>1. closingFor[a] \in Nat
          BY DEF DropInv
        <4>2. CASE a \in held
          BY <2>1, <2>6, <4>1, <4>2
        <4>3. CASE a \notin held
          BY <2>1, <2>5, <3>1, <4>1, <4>3 DEF DropInv
        <4> QED
          BY <4>2, <4>3
      <3> QED
        BY <2>1, <3>1 DEF DropInv
    <2>8. LinksGranted
      BY <2>1, <2>2 DEF LinksGranted, LinkedAt
    <2> QED
      BY <2>7, <2>8
  <1>8. ASSUME NEW a \in Attempts, AdapterOpens(a)
        PROVE  DropInv' /\ LinksGranted
    BY <1>1, <1>2, <1>8 DEF AdapterOpens, LinkedAt
  <1>9. ASSUME NEW a \in Attempts, AdapterCloses(a)
        PROVE  DropInv' /\ LinksGranted
    <2>1. CASE ReleaseBy(a)
      BY <1>5, <1>9, <2>1 DEF AdapterCloses
    <2>2. CASE Serve(Append(queue.pending, a), Acquire(Release(queue, 1), a),
                     [stage EXCEPT ![a] = "waiting"], left)
      <3>1. Acquire(Release(queue, 1), a).sinceRelease \in {0, queue.sinceRelease}
        BY ClockFacts
      <3> QED
        BY <1>9, <2>2, <3>1, LineType, ServeLinks DEF AdapterCloses, SlotInv
    <2> QED
      BY <1>9, <2>1, <2>2 DEF AdapterCloses
  <1>10. ASSUME NEW a \in Attempts, AdapterDropped(a)
         PROVE  DropInv' /\ LinksGranted
    <2>1. /\ stage' = [stage EXCEPT ![a] = "idle"] /\ queue' = queue
          /\ closingFor' = [closingFor EXCEPT ![a] = 0] /\ 0 \in 0..CloseGrace
      BY <1>10, BtAssumption DEF AdapterDropped
    <2>2. DropInv'
      BY <1>2, <2>1 DEF DropInv
    <2>3. LinksGranted
      BY <1>2, <2>1 DEF LinksGranted, LinkedAt
    <2> QED
      BY <2>2, <2>3
  <1>11. ASSUME NEW a \in Attempts, TaskEnds(a)
         PROVE  DropInv' /\ LinksGranted
    <2>1. PICK r \in {RecordSuccess(queue), RecordError(queue)} :
            Serve(queue.pending, Release(r, 1), [stage EXCEPT ![a] = "idle"], left)
      BY <1>11 DEF TaskEnds
    <2>2. Release(r, 1).sinceRelease \in {0, queue.sinceRelease}
      <3>1. r.sinceRelease = queue.sinceRelease
        BY DEF RecordSuccess, RecordError, Record
      <3> QED
        BY <3>1, ClockFacts
    <2> QED
      BY <1>11, <2>1, <2>2, LineType, ServeLinks DEF TaskEnds, SlotInv
  <1>12. CASE DrainTimerFires
    BY <1>2, <1>12, ClockFacts, ServeLinks DEF DrainTimerFires
  <1>13. CASE Tick
    <2>1. queue.sinceRelease \in Nat /\ queue'.sinceRelease <= queue.sinceRelease + 1
      BY <1>13, SlotFacts, QueueAssumption DEF Tick, Later, Record, QueueType, AtMost
    <2>2. ASSUME NEW a \in Attempts
          PROVE  /\ closingFor[a] \in 0..CloseGrace
                 /\ closingFor'[a] \in 0..CloseGrace
                 /\ stage'[a] = stage[a]
                 /\ stage[a] = "dropping" => closingFor'[a] = closingFor[a] + 1
      BY <1>13, BtAssumption DEF Tick, DropInv
    <2>3. closingFor' = [a \in Attempts |-> closingFor'[a]]
      BY <1>13 DEF Tick
    <2>4. ASSUME NEW a \in Attempts, stage'[a] = "dropping"
          PROVE  queue'.sinceRelease <= closingFor'[a]
      <3>1. queue.sinceRelease <= closingFor[a] /\ closingFor'[a] = closingFor[a] + 1
        BY <2>2, <2>4 DEF DropInv
      <3>2. closingFor[a] \in Nat /\ queue'.sinceRelease \in Nat
        BY <1>13, <2>2, SlotFacts, LaterFacts DEF Tick, SlotInv, IInv, QueueType
      <3> QED
        BY <2>1, <3>1, <3>2
    <2>5. DropInv'
      BY <2>2, <2>3, <2>4 DEF DropInv
    <2>6. LinksGranted
      BY <1>13 DEF Tick, LinksGranted
    <2> QED
      BY <2>5, <2>6
  <1>14. ASSUME NEW a \in Attempts, BackendFails(a)
         PROVE  DropInv' /\ LinksGranted
    BY <1>3, <1>5, <1>14 DEF BackendFails
  <1>15. ASSUME NEW p \in Providers, NEW b \in Bricks,
                Disconnect(p, b) \/ Recover(p, b) \/ Forget(p, b)
         PROVE  DropInv' /\ LinksGranted
    BY <1>3, <1>6, <1>15 DEF Disconnect, Recover, Forget
  <1>16. ASSUME NEW a \in Attempts,
                Enqueue(a) \/ \E p \in Providers, b \in Bricks : Connect(p, b, a)
         PROVE  DropInv' /\ LinksGranted
    BY <1>4, <1>16 DEF Enqueue, Connect
  <1> QED
    BY <1>3, <1>7, <1>8, <1>9, <1>10, <1>11, <1>12, <1>13, <1>14, <1>15, <1>16 DEF Next, vars

\* Nobody is given a slot while an adapter that was given up still closes: the
\* cooldown after dispose() outlasts it.
LEMMA LinksStep ==
    ASSUME SlotInv, DropInv, OneLink, [Next]_vars,
           CloseGrace < InterConnectionCooldown
    PROVE  OneLink'
  <1>1. SlotInv' /\ DropInv' /\ LinksGranted /\ GrantsRested
    BY NextSlots, NextLinks, NextStep DEF SlotInv
  <1>2. /\ {a \in Attempts : Linked(a)} = LinkedAt(stage)
        /\ {a \in Attempts : Linked(a)}' = LinkedAt(stage')
        /\ IsFiniteSet(LinkedAt(stage))
    BY BtAssumption, FS_Subset DEF Linked, Holding, LinkedAt
  <1>3. CASE \E d \in Attempts : stage'[d] = "dropping"
    <2>1. PICK d \in Attempts : stage'[d] = "dropping"
      BY <1>3
    <2>2. queue'.sinceRelease <= closingFor'[d] /\ closingFor'[d] \in 0..CloseGrace
      BY <1>1, <2>1 DEF DropInv
    <2>3. queue' \in QueueType(Attempts)
      BY <1>1 DEF SlotInv, IInv
    <2>4. queue'.sinceRelease # InterConnectionCooldown
      BY <2>2, <2>3, BtAssumption, QueueAssumption DEF QueueType
    <2>5. LinkedAt(stage') \subseteq LinkedAt(stage)
      BY <1>1, <2>4 DEF GrantsRested, Rested, LinksGranted, LinkedAt
    <2>6. Cardinality(LinkedAt(stage')) <= Cardinality(LinkedAt(stage))
      BY <1>2, <2>5, FS_Subset
    <2>7. /\ Cardinality(LinkedAt(stage')) \in Nat /\ Cardinality(LinkedAt(stage)) \in Nat
          /\ MaxConcurrent \in Nat
      BY <1>2, <2>5, FS_Subset, FS_CardinalityType, QueueAssumption
    <2> QED
      BY <1>2, <2>6, <2>7 DEF OneLink
  <1>4. CASE ~\E d \in Attempts : stage'[d] = "dropping"
    <2>1. LinkedAt(stage') = Holders'
      BY <1>4 DEF LinkedAt, Holders, Holding
    <2>2. queue'.active = Cardinality(Holders') /\ queue'.active \in 0..MaxConcurrent
      BY <1>1 DEF SlotInv, IInv, QueueType
    <2> QED
      BY <1>2, <2>1, <2>2, QueueAssumption DEF OneLink
  <1> QED
    BY <1>3, <1>4

\* With one slot there is one attempt at most that can end in a session, and
\* a session's attempt is only forgotten when it is closed.
LEMMA SessionsStep ==
    ASSUME SlotInv, NoSessionOverwritten, [Next]_vars, MaxConcurrent = 1
    PROVE  NoSessionOverwritten'
  <1>1. /\ stage \in [Attempts -> Stages] /\ ConnInv(conn, stage)
        /\ SessionInv(sessions, conn, stage)
    BY SlotFacts
  <1>2. ASSUME NEW a \in Attempts, NEW x \in Attempts, Holding(a), Holding(x)
        PROVE  x = a
    <2>1. {a, x} \subseteq Holders
      BY <1>2 DEF Holders
    <2>2. Cardinality({a, x}) <= Cardinality(Holders)
      BY <2>1, HoldersHold, FS_Subset
    <2>3. Cardinality(Holders) \in 0..1
      BY DEF SlotInv, IInv, QueueType
    <2>4. a # x => Cardinality({a, x}) = 2
      <3>1. Cardinality({a}) = 1 /\ IsFiniteSet({a})
        BY FS_Singleton
      <3>2. {a, x} = {a} \cup {x}
        OBVIOUS
      <3> QED
        BY <3>1, <3>2, FS_AddElement
    <2> QED
      BY <2>2, <2>3, <2>4
  <1>3. ASSUME sessions' = sessions,
               \A a \in Attempts : stage'[a] = "connected" =>
                   stage[a] = "connected" /\ conn'[a] = conn[a]
        PROVE  NoSessionOverwritten'
    BY <1>3 DEF NoSessionOverwritten
  <1>4. ASSUME NEW line, NEW q, NEW stages, NEW lefts, Serve(line, q, stages, lefts),
               NEW a \in Attempts, stage[a] # "connected",
               stages \in {[stage EXCEPT ![a] = "idle"], [stage EXCEPT ![a] = "waiting"]},
               \A x \in Attempts \ {a} : conn'[x] = conn[x], sessions' = sessions
        PROVE  NoSessionOverwritten'
    <2>1. \A x \in Attempts : stage'[x] = "connected" => stages[x] = "connected"
      BY <1>4 DEF Serve
    <2>2. \A x \in Attempts : stages[x] = "connected" => stage[x] = "connected" /\ x # a
      BY <1>1, <1>4
    <2> QED
      BY <1>3, <1>4, <2>1, <2>2
  <1>5. ASSUME NEW p \in Providers, NEW b \in Bricks, NEW next, CloseSession(p, b, next)
        PROVE  NoSessionOverwritten'
    <2>1. PICK a \in Attempts : a = sessions[p][b] /\ stage[a] = "connected"
      BY <1>1, <1>5 DEF CloseSession, SessionInv
    <2>2. stage' = [stage EXCEPT ![a] = "closing"]
      BY <1>5, <2>1 DEF CloseSession
    <2>3. ASSUME NEW x \in Attempts, stage'[x] = "connected" PROVE FALSE
      BY <1>1, <1>2, <2>1, <2>2, <2>3 DEF Holding
    <2> QED
      BY <2>3 DEF NoSessionOverwritten
  <1>6. ASSUME NEW p \in Providers, Dispose(p)
        PROVE  NoSessionOverwritten'
    <2> DEFINE held == {a \in Attempts : \E b \in Bricks : sessions[p][b] = a}
    <2>1. /\ sessions' = [sessions EXCEPT ![p] = [b \in Bricks |-> None]]
          /\ \A a \in Attempts :
                IF a \in held THEN stage'[a] = "dropping"
                ELSE stage'[a] \in {stage[a], "idle", "running", "opening"}
          /\ \A a \in Attempts : stage[a] # "waiting" => conn'[a] = conn[a]
      BY <1>6 DEF Dispose
    <2>2. ASSUME NEW a \in Attempts, stage'[a] = "connected"
          PROVE  sessions'[conn'[a].owner][conn'[a].target] = a
      <3>1. a \notin held /\ stage[a] = "connected" /\ conn'[a] = conn[a]
        BY <2>1, <2>2
      <3>2. /\ conn[a].owner \in Providers /\ conn[a].target \in Bricks
            /\ sessions[conn[a].owner][conn[a].target] = a
        BY <1>1, <3>1 DEF NoSessionOverwritten, ConnInv, Conn
      <3>3. conn[a].owner # p
        BY <3>1, <3>2
      <3> QED
        BY <1>1, <2>1, <3>1, <3>2, <3>3 DEF SessionInv
    <2> QED
      BY <2>2 DEF NoSessionOverwritten
  <1>7. ASSUME NEW a \in Attempts, AdapterOpens(a)
        PROVE  NoSessionOverwritten'
    <2>1. /\ Holding(a) /\ stage' = [stage EXCEPT ![a] = "connected"]
          /\ sessions' = [sessions EXCEPT ![conn[a].owner][conn[a].target] = a]
          /\ conn' = conn
          /\ conn[a].owner \in Providers /\ conn[a].target \in Bricks
      BY <1>1, <1>7 DEF AdapterOpens, Holding, ConnInv, Conn
    <2>2. ASSUME NEW x \in Attempts, stage'[x] = "connected" PROVE x = a
      BY <1>1, <1>2, <2>1, <2>2 DEF Holding
    <2>3. sessions'[conn[a].owner][conn[a].target] = a
      BY <1>1, <2>1 DEF SessionInv
    <2> QED
      BY <2>1, <2>2, <2>3 DEF NoSessionOverwritten
  <1>8. ASSUME NEW a \in Attempts,
               Enqueue(a) \/ \E p \in Providers, b \in Bricks : Connect(p, b, a)
        PROVE  NoSessionOverwritten'
    <2>1. /\ stage[a] # "connected" /\ sessions' = sessions
          /\ \A x \in Attempts \ {a} : conn'[x] = conn[x]
      BY <1>1, <1>8 DEF Enqueue, Connect, ConnInv
    <2>2. Serve(Append(queue.pending, a), Acquire(queue, a), [stage EXCEPT ![a] = "waiting"], left)
      BY <1>8 DEF Enqueue, Connect, AcquireBy
    <2> QED
      BY <1>4, <2>1, <2>2
  <1>9. ASSUME NEW a \in Attempts, BackendFails(a)
        PROVE  NoSessionOverwritten'
    <2>1. CASE UNCHANGED <<stage, conn, sessions>>
      BY <1>3, <2>1
    <2>2. CASE ReleaseBy(a) /\ conn' = [conn EXCEPT ![a] = NoConn]
      <3>1. /\ stage[a] # "connected" /\ sessions' = sessions
            /\ \A x \in Attempts \ {a} : conn'[x] = conn[x]
        BY <1>1, <1>9, <2>2 DEF BackendFails, ConnInv
      <3>2. Serve(queue.pending, Release(queue, 1), [stage EXCEPT ![a] = "idle"],
                  [left EXCEPT ![a] = <<>>])
        BY <2>2 DEF ReleaseBy
      <3> QED
        BY <1>4, <3>1, <3>2
    <2> QED
      BY <1>9, <2>1, <2>2 DEF BackendFails
  <1>10. ASSUME NEW a \in Attempts, AdapterCloses(a)
         PROVE  NoSessionOverwritten'
    <2>1. /\ stage[a] # "connected" /\ sessions' = sessions
          /\ \A x \in Attempts \ {a} : conn'[x] = conn[x]
      BY <1>1, <1>10 DEF AdapterCloses, ConnInv
    <2>2. CASE Serve(queue.pending, Release(queue, 1), [stage EXCEPT ![a] = "idle"],
                     [left EXCEPT ![a] = <<>>])
      BY <1>4, <2>1, <2>2
    <2>3. CASE Serve(Append(queue.pending, a), Acquire(Release(queue, 1), a),
                     [stage EXCEPT ![a] = "waiting"], left)
      BY <1>4, <2>1, <2>3
    <2> QED
      BY <1>10, <2>2, <2>3 DEF AdapterCloses, ReleaseBy
  <1>11. ASSUME NEW a \in Attempts, TaskEnds(a)
         PROVE  NoSessionOverwritten'
    BY <1>1, <1>4, <1>11 DEF TaskEnds
  <1>12. ASSUME NEW a \in Attempts, AdapterDropped(a)
         PROVE  NoSessionOverwritten'
    BY <1>1, <1>3, <1>12 DEF AdapterDropped, ConnInv
  <1>13. CASE DrainTimerFires
    BY <1>3, <1>13 DEF DrainTimerFires, Serve
  <1>14. CASE UNCHANGED <<stage, conn, sessions>>
    BY <1>3, <1>14
  <1> QED
    BY <1>5, <1>6, <1>7, <1>8, <1>9, <1>10, <1>11, <1>12, <1>13, <1>14
       DEF Next, vars, Tick, Disconnect, Recover, Forget

-----------------------------------------------------------------------------
(* The theorems.                                                            *)

\* The queue of every behaviour has its type and attends to who waits.
THEOREM QueueInvariant == Spec => []IInv
  <1>1. Init => IInv
    BY InitIInv
  <1>2. IInv /\ [Next]_vars => IInv'
    BY NextStep
  <1> QED
    BY <1>1, <1>2, PTL DEF Spec

\* Nobody ever waits beside a free slot without a timer that will serve him,
\* whatever is acquired, released, disposed of or failing in between.
THEOREM NobodyIsStranded == Spec => []NobodyStranded
  <1>1. IInv => NobodyStranded
    BY DEF IInv, Attended, NobodyStranded
  <1> QED
    BY <1>1, QueueInvariant, PTL

\* Every slot is granted InterConnectionCooldown after the last release and
\* after the backoff of the recorded errors, also when a release, a recover()
\* or a dispose() is what grants it.
THEOREM RestsAreHonoured == Spec => RestsHonoured
  <1> DEFINE Honoured ==
          \A a \in Attempts :
              stage[a] \notin {"running", "opening"} /\ stage'[a] \in {"running", "opening"} =>
                  /\ queue'.sinceRelease = InterConnectionCooldown
                  /\ queue'.sinceError >= Backoff(queue'.errors)
  <1>1. IInv /\ [Next]_vars => [Honoured]_vars
    BY NextStep DEF GrantsRested, Rested
  <1>2. Spec => [][Honoured]_vars
    BY <1>1, QueueInvariant, PTL DEF Spec
  <1> QED
    BY <1>2 DEF RestsHonoured
\* activeCount is always the number of attempts that hold a slot, and the
\* pending list names exactly those who wait.
THEOREM SlotInvariant == Spec => []SlotInv
  <1>1. Init => SlotInv
    BY SlotsInit
  <1>2. SlotInv /\ [Next]_vars => SlotInv'
    BY NextSlots
  <1> QED
    BY <1>1, <1>2, PTL DEF Spec

\* The queue and its providers implement SlotPool, however acquire(),
\* release(), recover(), dispose() and the timer follow each other.
THEOREM PoolRefinement == Spec => ImplementsPool
  <1>1. Init => Pool!Init
    BY SlotsInit
  <1>2. SlotInv /\ [Next]_vars => [Pool!Next]_(Pool!poolVars)
    BY NextSlots DEF PoolStep
  <1>3. Spec => Pool!Init /\ [][Pool!Next]_(Pool!poolVars)
    BY <1>1, <1>2, SlotInvariant, PTL DEF Spec
  <1> QED
    BY <1>3 DEF ImplementsPool, Pool!Spec

\* Never more links than slots, although dispose() releases a slot before its
\* adapter has closed: the cooldown is longer than an adapter takes to close
\* (PORT_CLOSE_GRACE_MS against BT.INTER_CONNECTION_COOLDOWN_MS).
THEOREM LinksAreBounded ==
    ASSUME CloseGrace < InterConnectionCooldown
    PROVE  Spec => []OneLink
  <1>1. Init => DropInv /\ OneLink
    <2> SUFFICES ASSUME Init PROVE DropInv /\ OneLink
      OBVIOUS
    <2>1. DropInv
      BY BtAssumption DEF Init, DropInv
    <2>2. {a \in Attempts : Linked(a)} = {}
      BY DEF Init, Linked, Holding
    <2> QED
      BY <2>1, <2>2, FS_EmptySet, QueueAssumption DEF OneLink
  <1>2. SlotInv /\ DropInv /\ OneLink /\ [Next]_vars => DropInv' /\ OneLink'
    BY NextLinks, LinksStep
  <1> QED
    BY <1>1, <1>2, SlotInvariant, PTL DEF Spec

\* With the one slot a queue has by default, no connect() ever overwrites the
\* session of another, which nobody could close any more.
THEOREM SessionsAreKept ==
    ASSUME MaxConcurrent = 1
    PROVE  Spec => []NoSessionOverwritten
  <1>1. Init => NoSessionOverwritten
    BY DEF Init, NoSessionOverwritten
  <1>2. SlotInv /\ NoSessionOverwritten /\ [Next]_vars => NoSessionOverwritten'
    BY SessionsStep
  <1> QED
    BY <1>1, <1>2, SlotInvariant, PTL DEF Spec
=============================================================================
