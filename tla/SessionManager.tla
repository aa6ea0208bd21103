--------------------------- MODULE SessionManager ---------------------------
(***************************************************************************)
(* The session manager of src/src/runtime/sessionManager.ts with the parts *)
(* it owns (session entry, heartbeat monitor, reconnect strategy, command  *)
(* queue) and the transport providers it calls.                            *)
(*                                                                         *)
(* One action is one macrotask or microtask of the host: the code from a   *)
(* call, a timer or the resumption of an await to the next await.  What    *)
(* runs while a method is suspended is the point of the model: a suspended *)
(* connect(), attemptReconnect() or disconnect() is a frame of `calls`,    *)
(* and every other action may run before it is resumed.                    *)
(*                                                                         *)
(* A member of Sessions is the identity of one SessionResources object:    *)
(* closures of an old object (timers, frames, the heartbeat) outlive its   *)
(* deletion from the map and look the brick up again by key.               *)
(***************************************************************************)
EXTENDS CommandQueueOps, FiniteSets

CONSTANTS
    Bricks,         \* brick keys, each reached over one transport
    Sessions,       \* identities of session resources: bounds the connects
    Calls,          \* identities of suspended calls: bounds how many at once
    None,           \* undefined
    Recovers,       \* bricks whose provider implements recover() (BT does, USB and TCP do not)
    MayQueue,       \* bricks whose provider may be given a BtConnectionQueue (an option of BT)
    MissThreshold,  \* heartbeatMissThreshold
    MaxAttempts,    \* reconnectMaxAttempts
    MaxQueue,       \* bound: user commands are sent while fewer are queued
    MaxFaults       \* bound: failures of the environment in a behaviour

ASSUME ConstantsAssumption ==
    /\ IsFiniteSet(Calls)
    /\ None \notin Bricks /\ None \notin Sessions
    /\ MayQueue \subseteq Recovers /\ Recovers \subseteq Bricks
    /\ MissThreshold \in Nat \ {0}
    /\ MaxAttempts \in Nat
    /\ MaxQueue \in Nat
    /\ MaxFaults \in Nat

VARIABLES
    \* SessionManager
    sessions,               \* sessions[k]: the resources in the map, or None
    activeBrickKey,
    suppressedBricks,
    disposed,
    \* SessionEntry
    brickKey,               \* brickKey[s]: the brick s was created for
    connectionState,
    activeMode,
    heartbeatState,
    explicitlyDisconnected,
    \* HeartbeatMonitor
    hbRunning,              \* _running
    hbTimer,                \* a timer of scheduleNext() is outstanding
    consecutiveMisses,
    probe,                  \* the promise tick() awaits
    \* CommandQueue
    queue,                  \* queue[s]: a record of CommandQueueOps
    sending,                \* the executor promise the drain loop awaits
    \* ReconnectStrategy and the reconnect timers
    attempts,
    reconnectTimer,         \* the timer held in resources.reconnectTimer is outstanding
    strayTimers,            \* outstanding timers whose field was overwritten, by brick
    \* suspended calls
    calls,
    \* transport providers
    provided,               \* bricks whose transport has a registered provider
    adapter,                \* adapter[k]: the provider's own session for k
    waiters,                \* waiters[k]: the calls that wait in the connection queue of
                            \* k's provider, in order, or None if it has no such queue
    faults,
    \* history
    observed                \* observed[k]: newState of the last event for k

managerVars   == <<sessions, activeBrickKey, suppressedBricks, disposed>>
entryVars     == <<brickKey, connectionState, activeMode, heartbeatState,
                   explicitlyDisconnected>>
heartbeatVars == <<hbRunning, hbTimer, consecutiveMisses, probe>>
queueVars     == <<queue, sending>>
reconnectVars == <<attempts, reconnectTimer, strayTimers>>
providerVars  == <<provided, adapter, waiters, faults>>
vars == <<managerVars, entryVars, heartbeatVars, queueVars, reconnectVars,
          calls, providerVars, observed>>

-----------------------------------------------------------------------------
(* Types and the connection state machine of SessionEntry.                  *)

States == {"connecting", "connected", "reconnecting", "disconnected"}
LiveStates == {"connecting", "connected", "reconnecting"}

\* Mutants: a second disconnection is let through; an ended entry may revive.
TransitionsRepeated == (LiveStates \X {"connected", "disconnected"})
    \cup {<<"connected", "reconnecting">>, <<"disconnected", "disconnected">>}
TransitionsRevived == States \X {"connected", "reconnecting", "disconnected"}

ValidTransitions ==
    {<<"connecting", "connected">>,   <<"connecting", "disconnected">>,
     <<"connected", "reconnecting">>, <<"connected", "disconnected">>,
     <<"reconnecting", "connected">>, <<"reconnecting", "disconnected">>,
     <<"disconnected", "connecting">>}

HeartbeatAfter(target, current) ==
    CASE target = "connected"    -> "ok"
      [] target = "disconnected" -> "unknown"
      [] target = "reconnecting" -> "missed"
      [] OTHER                   -> current

Commands == {"probe", "user"}

\* A suspended call: the method, the resources it captured, disconnect()'s
\* previousState, and what its await waits for.
Frame(fn, s, prev, wait) == [fn |-> fn, s |-> s, prev |-> prev, wait |-> wait]
IdleCall == Frame("idle", None, "disconnected", "none")
CallType ==
    [fn : {"idle", "connect", "attemptReconnect", "disconnect"},
     s : Sessions \cup {None}, prev : States,
     wait : {"none", "queued", "opening", "closing", "resolved", "rejected"}]

ManagerType ==
    /\ sessions \in [Bricks -> Sessions \cup {None}]
    /\ activeBrickKey \in Bricks \cup {None}
    /\ suppressedBricks \subseteq Bricks
    /\ disposed \in BOOLEAN

EntryType ==
    /\ brickKey \in [Sessions -> Bricks \cup {None}]
    /\ connectionState \in [Sessions -> States \cup {"unborn"}]
    /\ activeMode \in [Sessions -> {"minimal", "subscribed", "foreground"}]
    /\ heartbeatState \in [Sessions -> {"unknown", "ok", "missed"}]
    /\ explicitlyDisconnected \in [Sessions -> BOOLEAN]

HeartbeatType ==
    /\ hbRunning \in [Sessions -> BOOLEAN]
    /\ hbTimer \in [Sessions -> BOOLEAN]
    /\ consecutiveMisses \in [Sessions -> Nat]
    /\ probe \in [Sessions -> {"none", "sent", "ok", "fail"}]

QueuesType ==
    /\ queue \in [Sessions -> QueueType(Commands)]
    /\ sending \in [Sessions -> {"none", "waiting", "adrift", "ok", "fail"}]

ReconnectType ==
    /\ attempts \in [Sessions -> 0..MaxAttempts]
    /\ reconnectTimer \in [Sessions -> BOOLEAN]
    /\ strayTimers \in [Bricks -> Nat]

ProviderType ==
    /\ provided \subseteq Bricks
    /\ adapter \in [Bricks -> {"none", "open", "dead"}]
    /\ waiters \in [Bricks -> Seq(Calls) \cup {None}]
    /\ faults \in 0..MaxFaults

TypeOK ==
    /\ ManagerType
    /\ EntryType
    /\ HeartbeatType
    /\ QueuesType
    /\ ReconnectType
    /\ ProviderType
    /\ calls \in [Calls -> CallType]
    /\ observed \in [Bricks -> States]

Init ==
    /\ sessions = [k \in Bricks |-> None]
    /\ activeBrickKey = None
    /\ suppressedBricks = {}
    /\ disposed = FALSE
    /\ brickKey = [s \in Sessions |-> None]
    /\ connectionState = [s \in Sessions |-> "unborn"]
    /\ activeMode = [s \in Sessions |-> "minimal"]
    /\ heartbeatState = [s \in Sessions |-> "unknown"]
    /\ explicitlyDisconnected = [s \in Sessions |-> FALSE]
    /\ hbRunning = [s \in Sessions |-> FALSE]
    /\ hbTimer = [s \in Sessions |-> FALSE]
    /\ consecutiveMisses = [s \in Sessions |-> 0]
    /\ probe = [s \in Sessions |-> "none"]
    /\ queue = [s \in Sessions |-> NewQueue]
    /\ sending = [s \in Sessions |-> "none"]
    /\ attempts = [s \in Sessions |-> 0]
    /\ reconnectTimer = [s \in Sessions |-> FALSE]
    /\ strayTimers = [k \in Bricks |-> 0]
    /\ calls = [c \in Calls |-> IdleCall]
    /\ provided = Bricks
    /\ adapter = [k \in Bricks |-> "none"]
    /\ \E queued \in SUBSET MayQueue :
           waiters = [k \in Bricks |-> IF k \in queued THEN <<>> ELSE None]
    /\ faults = 0
    /\ observed = [k \in Bricks |-> "disconnected"]

-----------------------------------------------------------------------------
(* Suspended calls and the two priorities of the event loop.                *)

Free == {c \in Calls : calls[c] = IdleCall}

\* Bound: a frame is created only while enough stay free for the disconnects
\* that probes in flight may start.
Owed == {s \in Sessions : probe[s] # "none" /\ consecutiveMisses[s] + 1 >= MissThreshold}
Spare(c) == c \in Free /\ Cardinality(Free) > Cardinality(Owed)

\* Continuations of settled promises run before any timer or I/O event.
Quiescent ==
    /\ \A c \in Calls : calls[c].wait \notin {"resolved", "rejected"}
    /\ \A s \in Sessions : sending[s] \notin {"ok", "fail"} /\ probe[s] \notin {"ok", "fail"}

-----------------------------------------------------------------------------
(* The transport providers, as far as the manager depends on them.  Every   *)
(* provider keeps a map of open adapters; a "dead" adapter failed but is     *)
(* still in the map.  Each brick of the model has its provider, and the one  *)
(* slot of its connection queue, to itself.                                  *)

\* The provider is asked to connect k while `adapters` is its map.
Opening(k, adapters) ==
    IF adapters[k] # "none" THEN "rejected"
    ELSE IF waiters[k] = None THEN "opening" ELSE "queued"

\* acquire(): call c joins the queue if that is what it has to wait for.
Joined(k, c, wait) ==
    IF wait = "queued" THEN [waiters EXCEPT ![k] = Append(@, c)] ELSE waiters

\* The slot is taken from its grant on: while an adapter is opened, as long as
\* it is stored, and until it is closed.
SlotTaken(k) ==
    \/ adapter[k] # "none"
    \/ \E c \in Calls : calls[c].wait \in {"opening", "closing"} /\ brickKey[calls[c].s] = k

\* The adapter of k leaves the provider's map and is closed: close() rejects
\* the reply it was waiting for.
SendsCut(k) ==
    [z \in Sessions |->
        IF brickKey[z] = k /\ sending[z] = "waiting" THEN "fail" ELSE sending[z]]

\* What provider.send() answers at once: an adapter takes one request at a time.
Transmit(k) ==
    IF /\ k \in provided
       /\ adapter[k] = "open"
       /\ \A z \in Sessions : ~(brickKey[z] = k /\ sending[z] = "waiting")
    THEN "waiting" ELSE "fail"

\* Mutants: recover() is done once the old adapter is closed; disconnect() lets
\* an error of the provider out.
AfterCloseOnly(call) == "resolved"
AfterCloseThrows(call) == IF call.fn = "disconnect" THEN "rejected" ELSE "resolved"

\* What the close was awaited for: disconnect() is done, recover() connects.
AfterClose(call) ==
    LET k == brickKey[call.s] IN
    IF call.fn = "disconnect" THEN "resolved"
    ELSE IF k \in provided THEN Opening(k, adapter) ELSE "rejected"

\* The close that disconnect() or recover() awaits is done.
AdapterCloses(c) ==
    /\ Quiescent
    /\ calls[c].wait = "closing"
    /\ calls' = [calls EXCEPT ![c].wait = AfterClose(calls[c])]
    /\ waiters' = Joined(brickKey[calls[c].s], c, AfterClose(calls[c]))
    /\ UNCHANGED <<managerVars, entryVars, heartbeatVars, queueVars, reconnectVars,
                   provided, adapter, faults, observed>>

\* The queue grants its slot to the first that waits; acquire() has no timeout.
SlotGranted(c) ==
    LET k == brickKey[calls[c].s] IN
    /\ Quiescent
    /\ calls[c].wait = "queued"
    /\ waiters[k] \notin {None, <<>>}
    /\ Head(waiters[k]) = c
    /\ ~SlotTaken(k)
    /\ waiters' = [waiters EXCEPT ![k] = Tail(@)]
    /\ calls' = [calls EXCEPT ![c].wait = "opening"]
    /\ UNCHANGED <<managerVars, entryVars, heartbeatVars, queueVars, reconnectVars,
                   provided, adapter, faults, observed>>

\* An adapter is open: the provider stores it under the brick's key, whatever
\* is stored there.  A request the replaced adapter holds is left to it.
AdapterOpens(c) ==
    LET k == brickKey[calls[c].s] IN
    /\ Quiescent
    /\ calls[c].wait = "opening"
    /\ calls' = [calls EXCEPT ![c].wait = "resolved"]
    /\ adapter' = [adapter EXCEPT ![k] = "open"]
    /\ sending' = [z \in Sessions |->
            IF brickKey[z] = k /\ sending[z] = "waiting" THEN "adrift" ELSE sending[z]]
    /\ UNCHANGED <<managerVars, entryVars, heartbeatVars, queue, reconnectVars,
                   provided, waiters, faults, observed>>

Fault == faults < MaxFaults /\ faults' = faults + 1

OpenFails(c) ==
    /\ Quiescent
    /\ calls[c].wait = "opening"
    /\ Fault
    /\ calls' = [calls EXCEPT ![c].wait = "rejected"]
    /\ UNCHANGED <<managerVars, entryVars, heartbeatVars, queueVars, reconnectVars,
                   provided, adapter, waiters, observed>>

\* The link drops: the adapter rejects its pending reply but stays in the map.
AdapterFails(k) ==
    /\ Quiescent
    /\ adapter[k] = "open"
    /\ Fault
    /\ adapter' = [adapter EXCEPT ![k] = "dead"]
    /\ sending' = SendsCut(k)
    /\ UNCHANGED <<managerVars, entryVars, heartbeatVars, queue, reconnectVars,
                   calls, provided, waiters, observed>>

\* The brick answers.
Reply(s) ==
    /\ Quiescent
    /\ sending[s] \in {"waiting", "adrift"}
    /\ sending' = [sending EXCEPT ![s] = "ok"]
    /\ UNCHANGED <<managerVars, entryVars, heartbeatVars, queue, reconnectVars,
                   calls, providerVars, observed>>

\* The brick answers with an error reply, or the write fails.
SendFails(s) ==
    /\ Quiescent
    /\ sending[s] \in {"waiting", "adrift"}
    /\ Fault
    /\ sending' = [sending EXCEPT ![s] = "fail"]
    /\ UNCHANGED <<managerVars, entryVars, heartbeatVars, queue, reconnectVars,
                   calls, provided, adapter, waiters, observed>>

\* Mutant: the disposed queue forgets who waits.
WaitersKept(k) == calls

\* The queue's dispose() rejects every acquire() that waits.
WaitersRejected(k) ==
    [c \in Calls |->
        IF calls[c].wait = "queued" /\ brickKey[calls[c].s] = k
        THEN [calls[c] EXCEPT !.wait = "rejected"] ELSE calls[c]]

\* ProviderRegistry.unregister(): the provider is forgotten and disposed,
\* which closes its adapters and disposes its queue.
UnregisterProvider(k) ==
    /\ Quiescent
    /\ k \in provided
    /\ Fault
    /\ provided' = provided \ {k}
    /\ adapter' = [adapter EXCEPT ![k] = "none"]
    /\ sending' = SendsCut(k)
    /\ calls' = WaitersRejected(k)
    /\ waiters' = [waiters EXCEPT ![k] = IF @ = None THEN None ELSE <<>>]
    /\ UNCHANGED <<managerVars, entryVars, heartbeatVars, queue, reconnectVars, observed>>

-----------------------------------------------------------------------------
(* Pieces of the manager that several methods call.                         *)

\* entry.transition(target) where it is allowed.
Transition(s, target) ==
    /\ <<connectionState[s], target>> \in ValidTransitions
    /\ connectionState' = [connectionState EXCEPT ![s] = target]
    /\ heartbeatState' = [heartbeatState EXCEPT ![s] = HeartbeatAfter(target, @)]

\* Mutant: only terminal states are announced.
FireTerminal(k, newState) ==
    observed' = IF disposed \/ newState = "reconnecting" THEN observed
                ELSE [observed EXCEPT ![k] = newState]

\* Mutant: the emitter outlives dispose().
FireAlways(k, newState) == observed' = [observed EXCEPT ![k] = newState]

\* fireStateChange(): a disposed emitter has no listeners.
Fire(k, newState) ==
    observed' = IF disposed THEN observed ELSE [observed EXCEPT ![k] = newState]

\* heartbeat.start() and scheduleNext().
HeartbeatStart(s) ==
    IF hbRunning[s]
    THEN UNCHANGED <<hbRunning, hbTimer, consecutiveMisses>>
    ELSE /\ hbRunning' = [hbRunning EXCEPT ![s] = TRUE]
         /\ hbTimer' = [hbTimer EXCEPT ![s] = TRUE]
         /\ consecutiveMisses' = [consecutiveMisses EXCEPT ![s] = 0]

\* cleanupSession() rejects the queued commands: among them the probe, unless
\* it is the command in flight.
ProbeRejected(probes, s) ==
    IF \E i \in 1..Len(queue[s].queue) : queue[s].queue[i] = "probe"
    THEN [probes EXCEPT ![s] = "fail"] ELSE probes

\* disconnect() up to its await, in frame c: cleanupSession(s), then
\* provider?.disconnect().  probes and timers are the values of probe and
\* reconnectTimer at this point of the caller.
Disconnecting(s, prev, c, probes, timers) ==
    LET k == brickKey[s]
        open == k \in provided /\ adapter[k] # "none"
    IN
    /\ hbRunning' = [hbRunning EXCEPT ![s] = FALSE]
    /\ hbTimer' = [hbTimer EXCEPT ![s] = FALSE]
    /\ queue' = [queue EXCEPT ![s] = DisposeQueue(@)]
    /\ probe' = ProbeRejected(probes, s)
    /\ reconnectTimer' = [timers EXCEPT ![s] = FALSE]
    /\ adapter' = IF open THEN [adapter EXCEPT ![k] = "none"] ELSE adapter
    /\ sending' = IF open THEN SendsCut(k) ELSE sending
    /\ calls' = [calls EXCEPT ![c] =
            Frame("disconnect", s, prev, IF open THEN "closing" ELSE "resolved")]

\* scheduleReconnect(): the timer replaces the one in resources.reconnectTimer,
\* which is not cleared.
ScheduleReconnect(s) ==
    /\ attempts[s] < MaxAttempts
    /\ attempts' = [attempts EXCEPT ![s] = @ + 1]
    /\ reconnectTimer' = [reconnectTimer EXCEPT ![s] = TRUE]
    /\ strayTimers' = IF reconnectTimer[s]
                      THEN [strayTimers EXCEPT ![brickKey[s]] = @ + 1]
                      ELSE strayTimers

-----------------------------------------------------------------------------
(* connect()                                                                *)

\* Mutant: an explicit connect does not lift the suppression.
StillSuppressed(k) == suppressedBricks

Unsuppressed(k) == suppressedBricks \ {k}

Connect(k, s, c) ==
    /\ ~disposed
    /\ sessions[k] = None
    /\ k \in provided
    /\ connectionState[s] = "unborn"
    /\ Spare(c)
    /\ suppressedBricks' = Unsuppressed(k)
    /\ brickKey' = [brickKey EXCEPT ![s] = k]
    /\ connectionState' = [connectionState EXCEPT ![s] = "connecting"]
    /\ sessions' = [sessions EXCEPT ![k] = s]
    /\ calls' = [calls EXCEPT ![c] = Frame("connect", s, "connecting", Opening(k, adapter))]
    /\ waiters' = Joined(k, c, Opening(k, adapter))
    /\ UNCHANGED <<activeBrickKey, disposed, activeMode, heartbeatState,
                   explicitlyDisconnected, heartbeatVars, queueVars, reconnectVars,
                   provided, adapter, faults, observed>>

\* The provider delivered and the entry may become connected.
ConnectSucceeds(c) ==
    LET s == calls[c].s IN
    /\ calls[c].fn = "connect" /\ calls[c].wait = "resolved"
    /\ Transition(s, "connected")
    /\ Fire(brickKey[s], "connected")
    /\ queue' = [queue EXCEPT ![s] = SetExecutor(@)]
    /\ HeartbeatStart(s)
    /\ attempts' = [attempts EXCEPT ![s] = 0]
    /\ calls' = [calls EXCEPT ![c] = IdleCall]
    /\ UNCHANGED <<managerVars, brickKey, activeMode, explicitlyDisconnected, probe,
                   sending, reconnectTimer, strayTimers, providerVars>>

\* The provider failed: connect()'s catch block.
ConnectFails(c) ==
    LET s == calls[c].s IN
    /\ calls[c].fn = "connect" /\ calls[c].wait = "rejected"
    /\ Transition(s, "disconnected")
    /\ sessions' = [sessions EXCEPT ![brickKey[s]] = None]
    /\ Fire(brickKey[s], "disconnected")
    /\ calls' = [calls EXCEPT ![c] = IdleCall]
    /\ UNCHANGED <<activeBrickKey, suppressedBricks, disposed, brickKey, activeMode,
                   explicitlyDisconnected, heartbeatVars, queueVars, reconnectVars,
                   providerVars>>

\* A disconnect() finished first: both transitions of connect() throw.
ConnectAborts(c) ==
    LET s == calls[c].s IN
    /\ calls[c].fn = "connect" /\ calls[c].wait \in {"resolved", "rejected"}
    /\ <<connectionState[s], "disconnected">> \notin ValidTransitions
    /\ calls' = [calls EXCEPT ![c] = IdleCall]
    /\ UNCHANGED <<managerVars, entryVars, heartbeatVars, queueVars, reconnectVars,
                   providerVars, observed>>

-----------------------------------------------------------------------------
(* disconnect()                                                             *)

Disconnect(k, c) ==
    LET s == sessions[k] IN
    /\ ~disposed
    /\ s # None
    /\ Spare(c)
    /\ explicitlyDisconnected' = [explicitlyDisconnected EXCEPT ![s] = TRUE]
    /\ suppressedBricks' = suppressedBricks \cup {k}
    /\ Disconnecting(s, connectionState[s], c, probe, reconnectTimer)
    /\ UNCHANGED <<sessions, activeBrickKey, disposed, brickKey, connectionState,
                   activeMode, heartbeatState, consecutiveMisses, attempts, strayTimers,
                   provided, waiters, faults, observed>>

DisconnectCompletes(c) ==
    LET s == calls[c].s
        k == brickKey[s]
    IN
    /\ calls[c].fn = "disconnect" /\ calls[c].wait = "resolved"
    /\ Transition(s, "disconnected")
    /\ sessions' = [sessions EXCEPT ![k] = None]
    /\ activeBrickKey' = IF activeBrickKey = k THEN None ELSE activeBrickKey
    /\ IF calls[c].prev # "disconnected"
       THEN Fire(k, "disconnected") ELSE UNCHANGED observed
    /\ calls' = [calls EXCEPT ![c] = IdleCall]
    /\ UNCHANGED <<suppressedBricks, disposed, brickKey, activeMode,
                   explicitlyDisconnected, heartbeatVars, queueVars, reconnectVars,
                   providerVars>>

\* Another disconnect() finished first: transition() throws to the caller.
DisconnectThrows(c) ==
    /\ calls[c].fn = "disconnect" /\ calls[c].wait = "resolved"
    /\ <<connectionState[calls[c].s], "disconnected">> \notin ValidTransitions
    /\ calls' = [calls EXCEPT ![c] = IdleCall]
    /\ UNCHANGED <<managerVars, entryVars, heartbeatVars, queueVars, reconnectVars,
                   providerVars, observed>>

-----------------------------------------------------------------------------
(* Foreground, commands, suppressions, dispose                              *)

\* Mutant: the previous foreground session keeps its mode.
NotDemoted(k) == activeMode

\* The entry that loses the foreground, when it is still in the map.
Demoted(k) ==
    IF k # None /\ sessions[k] # None
    THEN [activeMode EXCEPT ![sessions[k]] = "subscribed"] ELSE activeMode

SetActiveBrick(k) ==
    /\ ~disposed
    /\ sessions[k] # None
    /\ activeBrickKey # k
    /\ activeBrickKey' = k
    /\ activeMode' = [Demoted(activeBrickKey) EXCEPT ![sessions[k]] = "foreground"]
    /\ UNCHANGED <<sessions, suppressedBricks, disposed, brickKey, connectionState,
                   heartbeatState, explicitlyDisconnected, heartbeatVars, queueVars,
                   reconnectVars, calls, providerVars, observed>>

ClearActiveBrick ==
    /\ ~disposed
    /\ activeBrickKey # None
    /\ activeMode' = Demoted(activeBrickKey)
    /\ activeBrickKey' = None
    /\ UNCHANGED <<sessions, suppressedBricks, disposed, brickKey, connectionState,
                   heartbeatState, explicitlyDisconnected, heartbeatVars, queueVars,
                   reconnectVars, calls, providerVars, observed>>

\* commandQueue.send(): an idle drain loop calls the executor at once.
Enqueue(s, command) ==
    /\ queue' = [queue EXCEPT ![s] = Push(@, command)]
    /\ sending' = IF queue[s].current = Idle
                  THEN [sending EXCEPT ![s] = Transmit(brickKey[s])] ELSE sending

Send(k) ==
    LET s == sessions[k] IN
    /\ ~disposed
    /\ s # None
    /\ Accepts(queue[s])
    /\ Len(queue[s].queue) < MaxQueue
    /\ Enqueue(s, "user")
    /\ UNCHANGED <<managerVars, entryVars, heartbeatVars, reconnectVars, calls,
                   providerVars, observed>>

\* The executor promise settled: drain() resumes, settles the caller's promise
\* and takes the next command.
DrainResumes(s) ==
    /\ sending[s] \in {"ok", "fail"}
    /\ probe' = IF queue[s].current = "probe"
                THEN [probe EXCEPT ![s] = sending[s]] ELSE probe
    /\ queue' = [queue EXCEPT ![s] = Advance(@)]
    /\ sending' = [sending EXCEPT ![s] =
            IF Advance(queue[s]).current = Idle THEN "none" ELSE Transmit(brickKey[s])]
    /\ UNCHANGED <<managerVars, entryVars, hbRunning, hbTimer, consecutiveMisses,
                   reconnectVars, calls, providerVars, observed>>

ClearSuppressions ==
    /\ ~disposed
    /\ suppressedBricks # {}
    /\ suppressedBricks' = {}
    /\ UNCHANGED <<sessions, activeBrickKey, disposed, entryVars, heartbeatVars,
                   queueVars, reconnectVars, calls, providerVars, observed>>

InMap(s) == \E k \in Bricks : sessions[k] = s

\* cleanupSession() of every session in the map; the providers are not told.
Dispose ==
    /\ ~disposed
    /\ disposed' = TRUE
    /\ hbRunning' = [s \in Sessions |-> hbRunning[s] /\ ~InMap(s)]
    /\ hbTimer' = [s \in Sessions |-> hbTimer[s] /\ ~InMap(s)]
    /\ queue' = [s \in Sessions |-> IF InMap(s) THEN DisposeQueue(queue[s]) ELSE queue[s]]
    /\ probe' = [s \in Sessions |->
                    IF InMap(s) THEN ProbeRejected(probe, s)[s] ELSE probe[s]]
    /\ reconnectTimer' = [s \in Sessions |-> reconnectTimer[s] /\ ~InMap(s)]
    /\ sessions' = [k \in Bricks |-> None]
    /\ suppressedBricks' = {}
    /\ activeBrickKey' = None
    /\ UNCHANGED <<entryVars, consecutiveMisses, sending, attempts, strayTimers, calls,
                   providerVars, observed>>

-----------------------------------------------------------------------------
(* Heartbeat                                                                *)

\* tick() up to its await: the probe is sent through the command queue.
HeartbeatTick(s) ==
    /\ Quiescent
    /\ hbTimer[s]
    /\ Cardinality(Free) > Cardinality(Owed)
    /\ hbTimer' = [hbTimer EXCEPT ![s] = FALSE]
    /\ IF Accepts(queue[s])
       THEN probe' = [probe EXCEPT ![s] = "sent"] /\ Enqueue(s, "probe")
       ELSE probe' = [probe EXCEPT ![s] = "fail"] /\ UNCHANGED queueVars
    /\ UNCHANGED <<managerVars, entryVars, hbRunning, consecutiveMisses, reconnectVars,
                   calls, providerVars, observed>>

\* tick() resumes on an answer: onSuccess() looks the brick up by key.
HeartbeatSucceeds(s) ==
    LET r == sessions[brickKey[s]] IN
    /\ probe[s] = "ok"
    /\ probe' = [probe EXCEPT ![s] = "none"]
    /\ consecutiveMisses' = [consecutiveMisses EXCEPT ![s] = 0]
    /\ heartbeatState' = IF r = None THEN heartbeatState
                         ELSE [heartbeatState EXCEPT ![r] = "ok"]
    /\ hbTimer' = [hbTimer EXCEPT ![s] = hbRunning[s]]
    /\ UNCHANGED <<managerVars, brickKey, connectionState, activeMode,
                   explicitlyDisconnected, hbRunning, queueVars, reconnectVars, calls,
                   providerVars, observed>>

Missed(s) ==
    /\ probe[s] = "fail"
    /\ consecutiveMisses' = [consecutiveMisses EXCEPT ![s] = @ + 1]

\* A miss below the threshold: the loop goes on.
HeartbeatMisses(s) ==
    /\ Missed(s)
    /\ consecutiveMisses[s] + 1 < MissThreshold
    /\ probe' = [probe EXCEPT ![s] = "none"]
    /\ hbTimer' = [hbTimer EXCEPT ![s] = hbRunning[s]]
    /\ UNCHANGED <<managerVars, entryVars, hbRunning, queueVars, reconnectVars, calls,
                   providerVars, observed>>

\* The threshold is reached: handleHeartbeatFailure() for the session r that
\* the map holds now, and no next timer; _running stays as it is.
ThresholdReached(s) ==
    /\ Missed(s)
    /\ consecutiveMisses[s] + 1 >= MissThreshold

HeartbeatLapses(s) ==
    LET r == sessions[brickKey[s]] IN
    /\ ThresholdReached(s)
    /\ \/ r = None
       \/ r # None /\ ~explicitlyDisconnected[r] /\ connectionState[r] # "connected"
    /\ probe' = [probe EXCEPT ![s] = "none"]
    /\ UNCHANGED <<managerVars, entryVars, hbRunning, hbTimer, queueVars, reconnectVars,
                   calls, providerVars, observed>>

HeartbeatDisconnects(s, c) ==
    LET r == sessions[brickKey[s]] IN
    /\ ThresholdReached(s)
    /\ r # None
    /\ explicitlyDisconnected[r]
    /\ c \in Free
    /\ Disconnecting(r, connectionState[r], c, [probe EXCEPT ![s] = "none"], reconnectTimer)
    /\ UNCHANGED <<managerVars, entryVars, attempts, strayTimers, provided, waiters, faults,
                   observed>>

Reconnecting(s, r) ==
    /\ ThresholdReached(s)
    /\ r # None
    /\ ~explicitlyDisconnected[r]
    /\ connectionState[r] = "connected"
    /\ Transition(r, "reconnecting")
    /\ Fire(brickKey[r], "reconnecting")

HeartbeatReconnects(s) ==
    LET r == sessions[brickKey[s]] IN
    /\ Reconnecting(s, r)
    /\ ScheduleReconnect(r)
    /\ probe' = [probe EXCEPT ![s] = "none"]
    /\ UNCHANGED <<managerVars, brickKey, activeMode, explicitlyDisconnected, hbRunning,
                   hbTimer, queueVars, calls, providerVars>>

HeartbeatExhausts(s, c) ==
    LET r == sessions[brickKey[s]] IN
    /\ Reconnecting(s, r)
    /\ attempts[r] >= MaxAttempts
    /\ c \in Free
    /\ Disconnecting(r, "reconnecting", c, [probe EXCEPT ![s] = "none"], reconnectTimer)
    /\ UNCHANGED <<managerVars, brickKey, activeMode, explicitlyDisconnected, attempts,
                   strayTimers, provided, waiters, faults>>

-----------------------------------------------------------------------------
(* Reconnect                                                                *)

\* Mutant: attemptReconnect() connects although the provider can recover.
NeverRecovers(k) == FALSE

\* The provider is asked to recover() and first closes the adapter it holds.
RecoverCloses(k) == k \in Recovers /\ adapter[k] # "none"

\* attemptReconnect(k) up to its await; timers is reconnectTimer without the
\* timer that fired.
AttemptReconnect(k, c, timers) ==
    LET r == sessions[k] IN
    \/ /\ r = None \/ (r # None /\ connectionState[r] # "reconnecting")
       /\ reconnectTimer' = timers
       /\ UNCHANGED <<heartbeatVars, queueVars, calls, adapter, waiters>>
    \/ /\ r # None
       /\ connectionState[r] = "reconnecting"
       /\ explicitlyDisconnected[r] \/ k \notin provided
       /\ Disconnecting(r, "reconnecting", c, probe, timers)
       /\ UNCHANGED <<consecutiveMisses, waiters>>
    \/ /\ r # None
       /\ connectionState[r] = "reconnecting"
       /\ ~explicitlyDisconnected[r]
       /\ k \in provided
       /\ adapter' = IF RecoverCloses(k) THEN [adapter EXCEPT ![k] = "none"] ELSE adapter
       /\ sending' = IF RecoverCloses(k) THEN SendsCut(k) ELSE sending
       /\ calls' = [calls EXCEPT ![c] = Frame("attemptReconnect", r, "reconnecting",
                        IF RecoverCloses(k) THEN "closing" ELSE Opening(k, adapter))]
       /\ waiters' = IF RecoverCloses(k) THEN waiters ELSE Joined(k, c, Opening(k, adapter))
       /\ reconnectTimer' = timers
       /\ UNCHANGED <<heartbeatVars, queue>>

ReconnectTimerFires(s, c) ==
    /\ Quiescent
    /\ reconnectTimer[s]
    /\ Spare(c)
    /\ AttemptReconnect(brickKey[s], c, [reconnectTimer EXCEPT ![s] = FALSE])
    /\ UNCHANGED <<managerVars, entryVars, attempts, strayTimers, provided, faults, observed>>

StrayTimerFires(k, c) ==
    /\ Quiescent
    /\ strayTimers[k] > 0
    /\ Spare(c)
    /\ strayTimers' = [strayTimers EXCEPT ![k] = @ - 1]
    /\ AttemptReconnect(k, c, reconnectTimer)
    /\ UNCHANGED <<managerVars, entryVars, attempts, provided, faults, observed>>

AttemptSucceeds(c) ==
    LET s == calls[c].s IN
    /\ calls[c].fn = "attemptReconnect" /\ calls[c].wait = "resolved"
    /\ Transition(s, "connected")
    /\ attempts' = [attempts EXCEPT ![s] = 0]
    /\ Fire(brickKey[s], "connected")
    /\ queue' = [queue EXCEPT ![s] = SetExecutor(@)]
    /\ HeartbeatStart(s)
    /\ calls' = [calls EXCEPT ![c] = IdleCall]
    /\ UNCHANGED <<managerVars, brickKey, activeMode, explicitlyDisconnected, probe,
                   sending, reconnectTimer, strayTimers, providerVars>>

\* Mutant: the catch block of attemptReconnect() gives up silently.
GivesUp(k, c) ==
    /\ calls' = [calls EXCEPT ![c] = IdleCall]
    /\ UNCHANGED <<heartbeatVars, queueVars, reconnectVars, adapter>>

\* scheduleReconnect(k) at the end of frame c, for whatever session the map
\* holds now: nothing, the next attempt, or a disconnect that takes over c.
Reschedule(k, c) ==
    LET r == sessions[k] IN
    \/ /\ r = None
       /\ calls' = [calls EXCEPT ![c] = IdleCall]
       /\ UNCHANGED <<heartbeatVars, queueVars, reconnectVars, adapter>>
    \/ /\ r # None
       /\ ScheduleReconnect(r)
       /\ calls' = [calls EXCEPT ![c] = IdleCall]
       /\ UNCHANGED <<heartbeatVars, queueVars, adapter>>
    \/ /\ r # None
       /\ attempts[r] >= MaxAttempts
       /\ Disconnecting(r, connectionState[r], c, probe, reconnectTimer)
       /\ UNCHANGED <<consecutiveMisses, attempts, strayTimers>>

\* The provider failed or transition() threw: attemptReconnect()'s catch block.
AttemptFails(c) ==
    LET s == calls[c].s IN
    /\ calls[c].fn = "attemptReconnect"
    /\ \/ calls[c].wait = "rejected"
       \/ /\ calls[c].wait = "resolved"
          /\ <<connectionState[s], "connected">> \notin ValidTransitions
    /\ Reschedule(brickKey[s], c)
    /\ UNCHANGED <<managerVars, entryVars, provided, waiters, faults, observed>>

-----------------------------------------------------------------------------

Continuation(c) ==
    \/ ConnectSucceeds(c) \/ ConnectFails(c) \/ ConnectAborts(c)
    \/ DisconnectCompletes(c) \/ DisconnectThrows(c)
    \/ AttemptSucceeds(c) \/ AttemptFails(c)

HeartbeatOutcome(s) ==
    \/ HeartbeatSucceeds(s) \/ HeartbeatMisses(s) \/ HeartbeatLapses(s)
    \/ HeartbeatReconnects(s)
    \/ \E c \in Calls : HeartbeatDisconnects(s, c) \/ HeartbeatExhausts(s, c)

TimerFires(s) == \E c \in Calls : ReconnectTimerFires(s, c)
ProviderStep(c) == AdapterCloses(c) \/ SlotGranted(c) \/ AdapterOpens(c) \/ OpenFails(c)

StrayFires(k) == \E c \in Calls : StrayTimerFires(k, c)

SessionCall ==
    \/ ClearSuppressions
    \/ \E k \in Bricks : Send(k)
    \/ \E k \in Bricks, c \in Calls : Disconnect(k, c)
    \/ \E k \in Bricks, s \in Sessions, c \in Calls : Connect(k, s, c)

UserCall ==
    \/ SessionCall
    \/ ClearActiveBrick \/ Dispose
    \/ \E k \in Bricks : SetActiveBrick(k)

HostStep ==
    \/ \E c \in Calls : Continuation(c) \/ ProviderStep(c)
    \/ \E s \in Sessions :
           \/ HeartbeatTick(s) \/ HeartbeatOutcome(s) \/ DrainResumes(s)
           \/ TimerFires(s) \/ Reply(s) \/ SendFails(s)
    \/ \E k \in Bricks : StrayFires(k) \/ AdapterFails(k) \/ UnregisterProvider(k)

Next == UserCall \/ HostStep

Spec == Init /\ [][Next]_vars

\* The event loop empties the microtask queue, and every timer and completed
\* I/O operation gets its turn although user calls keep coming (so SF: they
\* wait for the microtasks those calls start).  A close ends, and an open that
\* was begun: TCP sets a timer, a serial port's open() is called back, a HID
\* device opens at once.  A free slot of a queue is granted to its first
\* waiter.  Nothing is assumed of a brick's reply, and nothing of who keeps a
\* slot.
Microtask ==
    \/ \E c \in Calls : Continuation(c)
    \/ \E s \in Sessions : HeartbeatOutcome(s) \/ DrainResumes(s)

HostFairness ==
    /\ WF_vars(Microtask)
    /\ \A c \in Calls : SF_vars(ProviderStep(c))
    /\ \A s \in Sessions : SF_vars(HeartbeatTick(s)) /\ SF_vars(TimerFires(s))
    /\ \A k \in Bricks : SF_vars(StrayFires(k))

FairSpec == Spec /\ HostFairness


-----------------------------------------------------------------------------
(* Properties                                                               *)

Live(s) == connectionState[s] \in LiveStates
InFlight(fn, s) == \E c \in Calls : calls[c].fn = fn /\ calls[c].s = s

\* The manager "is the single source of truth for connection state"
\* (sessionManager.ts:6): until dispose(), the map holds for each brick exactly
\* the one session object that has not ended, however connects, disconnects
\* and reconnect attempts of the brick overlap.
MapExact ==
    ~disposed =>
        /\ \A k \in Bricks : sessions[k] # None =>
               Live(sessions[k]) /\ brickKey[sessions[k]] = k
        /\ \A s \in Sessions : Live(s) => sessions[brickKey[s]] = s

\* "Only one brick can be foreground" (sessionManager.ts:168): a session in
\* foreground mode is the active brick's, whatever interleaving of switches,
\* disconnects and reconnects led to it.
ForegroundIsActive ==
    ~disposed =>
        \A s \in Sessions :
            Live(s) /\ activeMode[s] = "foreground" => activeBrickKey = brickKey[s]

\* Whoever only listens to onSessionStateChange knows every brick's state: the
\* last event names the state of the session in the map, and "disconnected"
\* when there is none or it is still connecting.
ObserverAgrees ==
    ~disposed =>
        \A k \in Bricks :
            observed[k] = IF sessions[k] # None /\ connectionState[sessions[k]] # "connecting"
                          THEN connectionState[sessions[k]] ELSE "disconnected"

\* isSuppressed(k) and the entry agree: a suppressed brick that still has a
\* session is one whose explicit disconnect is under way, also when it was
\* reconnected meanwhile by a new connect().
SuppressionFollowsExplicit ==
    \A k \in suppressedBricks :
        sessions[k] # None => explicitlyDisconnected[sessions[k]]

\* "reconnecting" is never a dead end: a timer, an attempt or a disconnect
\* that will end it is always outstanding, although timers are overwritten and
\* attempts of an older session of the brick interfere.
NoStuckReconnecting ==
    ~disposed =>
        \A s \in Sessions : connectionState[s] = "reconnecting" =>
            \/ reconnectTimer[s]
            \/ strayTimers[brickKey[s]] > 0
            \/ InFlight("attemptReconnect", s)
            \/ InFlight("disconnect", s)

\* No caller of send() is left behind by a session that ended: its queue is
\* empty and no request of it holds the adapter of the session after it.
RetiredAnswered ==
    \A s \in Sessions : connectionState[s] = "disconnected" =>
        queue[s].queue = <<>> /\ sending[s] # "waiting"

\* A session shown as connected, and not being disconnected, has an adapter in
\* its provider, unless the provider was unregistered.
ConnectedHasAdapter ==
    \A s \in Sessions :
        /\ connectionState[s] = "connected"
        /\ ~InFlight("disconnect", s)
        /\ ~disposed
        /\ brickKey[s] \in provided
        => adapter[brickKey[s]] # "none"

\* What a brick's session shows of it, and who is in the foreground.
Shown(k) == IF sessions[k] = None THEN "none" ELSE connectionState[sessions[k]]
Lives == [k \in Bricks |-> Shown(k)]
InFront == {k \in Bricks : sessions[k] # None /\ activeMode[sessions[k]] = "foreground"}

\* The manager implements BrickLife, the state diagram of DESIGN.md:417 with
\* its events: whatever overlaps, a brick's state moves along the diagram, one
\* brick at a time and always announced, and losing or recovering the link
\* moves nobody into or out of the foreground.
Life == INSTANCE BrickLife WITH
    life <- Lives,
    told <- observed,
    front <- InFront,
    over <- disposed
ImplementsLife == Life!Spec

\* A session object that ended stays ended, whatever late completion of its
\* connect() or of an attempt still holds it.
NoResurrection ==
    [][\A s \in Sessions :
          connectionState[s] = "disconnected" => connectionState'[s] = "disconnected"]_vars

\* A call waits for the slot that a stored link keeps.
HeldUp(c) == calls[c].wait = "queued" /\ adapter[brickKey[calls[c].s]] # "none"

\* Every suspended connect(), disconnect() and attemptReconnect() returns,
\* except that a call may wait for ever in a connection queue while a stored
\* link, perhaps the orphan of a disconnect() during connect(), keeps the slot.
EveryCallReturns ==
    \A c \in Calls : (calls[c].fn # "idle" ~> calls[c].fn = "idle") \/ <>[]HeldUp(c)

\* A session that was asked to disconnect ends, also when a connect, an
\* attempt or another disconnect of it is suspended.
ExplicitDisconnectEnds ==
    \A s \in Sessions :
        explicitlyDisconnected[s] ~> disposed \/ connectionState[s] = "disconnected"

\* Reconnecting ends: the session is connected again or given up.
ReconnectingEnds ==
    \A s \in Sessions :
        connectionState[s] = "reconnecting" ~>
            disposed \/ connectionState[s] # "reconnecting"

\* "Automatic reconnect on transport failure" (IMPLEMENTATION_PLAN.md:235): a
\* session that lost its link is connected again, unless the user or the host
\* ended it; the run's bound on faults leaves an attempt that may succeed.
ReconnectSucceeds ==
    \A s \in Sessions :
        connectionState[s] = "reconnecting" ~>
            \/ disposed \/ explicitlyDisconnected[s] \/ brickKey[s] \notin provided
            \/ connectionState[s] = "connected"

\* A connected session that is not being disconnected is monitored: its next
\* heartbeat is due or its probe is in flight.
ConnectedIsMonitored ==
    ~disposed =>
        \A s \in Sessions :
            connectionState[s] = "connected" /\ ~InFlight("disconnect", s) =>
                hbTimer[s] \/ probe[s] # "none"

\* "explicit `disconnect` terminates the session" (DESIGN.md:393): without a
\* session and without a call under way for it, the provider holds no link.
NoOrphanAdapter ==
    ~disposed =>
        \A k \in Bricks :
            sessions[k] = None /\ (\A c \in Calls :
                calls[c].fn # "idle" => brickKey[calls[c].s] # k)
            => adapter[k] = "none"
=============================================================================
