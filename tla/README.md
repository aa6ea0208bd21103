# EV3 Cockpit in TLA+

A model of the runtime of EV3 Cockpit, a VS Code extension that connects LEGO
EV3 bricks over USB, Bluetooth and TCP: TLA+ modules translated from `src/src/`,
TLC runs that check them on small instances, and TLAPS proofs for every value of
the constants. `PROJECT.json` lists the runs, the lines each definition models, a
deviation of the code for every property that the property catches, the hazards
of the code and the theorems.

All paths below are relative to `src/src/`, except documents at the root of the
repository.

## 1. The system

The extension is one Node.js process with one thread. What runs concurrently is
everything that is suspended at an `await`, a timer or a callback. A call, a
timer or the resumption of an `await` runs to the next `await` without
interruption; promise continuations run before the next timer or I/O event.

| Component | State | Operations | Talks to |
| --- | --- | --- | --- |
| `SessionManager` (`runtime/sessionManager.ts`) | the map of sessions, active brick, suppressed bricks | `connect`, `disconnect`, `setActiveBrick`, `clearActiveBrick`, `send`, `clearSuppressions`, `dispose`; heartbeat failures, reconnect timers and attempts | awaits the providers; owns the next four per brick; fires state events |
| `SessionEntry` | connection state, activity mode, heartbeat state, explicit flag | `transition` and setters | called by the manager |
| `HeartbeatMonitor` | running, timer, consecutive misses | `start`, `stop`, tick | probes through the command queue; calls the manager back |
| `ReconnectStrategy` | attempts | `nextDelay`, `reset` | called by the manager |
| `CommandQueue` | queue, processing flag, executor, disposed | `send`, `setExecutor`, `drainWith`, `dispose`, the drain loop | awaits the executor, i.e. the provider's `send` |
| `ProviderRegistry` (`transports/providerRegistry.ts`) | provider per transport | `register`, `unregister`, `all` | synchronous events to the scheduler |
| `DiscoveryScheduler` | interval timers, tracked bricks with their misses | `start`, `stop`, `scanOnce`, the timers | awaits `discover()`; synchronous events to the aggregator |
| `PresenceAggregator` | the discovery list | two listeners, `mergeRemembered`, `updateBrick` | listens to the scheduler |
| `BtConnectionQueue` | active count, waiting entries, timestamps of the last release and error, timer | `acquire`, release, `enqueue`, `dispose`, `drain` | shared by Bluetooth providers |
| `BtTransportProvider` | sessions with their release callback, preferred backend per brick | `connect` with fallback, `disconnect`, `recover`, `forget`, `dispose` | the queue, the adapters of its backends |
| `TcpTransportProvider` / `TcpSocketAdapter` | sessions / socket, handshake and receive buffers, request in flight, open promise | `open` (beacon, connect, unlock), `close`, `send`, socket events | Node sockets |
| `UsbTransportProvider` / `UsbHidAdapter` | sessions, bricks being probed / device, receive buffer, request in flight | `discover` with name probes, `connect`, `disconnect`, `send`, `dispose` / `open`, `close`, `send`, HID events | node-hid |
| `BtSppAdapter` (`transports/btSppAdapter.ts`) | port, receive buffer, request in flight | `open` with its delays, `close`, `send`, port events | a serial port; Bluetooth backends would create it |
| `pendingReply`, `protocolBridge` | none of their own | draining a buffer, rejecting; `sendCommandViaAdapter` | called by the adapters and by the providers' `send` |
| `TransportGuard` (`transports/transportGuard.ts`) | per brick: active transport, last close, command times, failures, degraded | `openTransport`, `closeTransport`, `checkRateLimit`, `recordSuccess`, `recordFailure`, `forget`, `dispose` | nothing creates one yet |
| `protocol/*` | none | packets; commands as programs; answers as fields | called by the bridge |
| `mock/*`, `extension.ts`, `contracts/*`, `errors/*`, `events/*` | test double; wiring; types; emitters | | |

What is hard in it:

- **Suspended methods.** While `connect()`, `disconnect()`, an attempt to
  reconnect, `discover()` or an adapter's `open()` waits, everything else may run;
  its continuation works with objects captured before the wait or looks them up
  again by key and finds a newer one.
- **Timers that outlive what they were set for.** Reconnect timers are
  overwritten, heartbeats belong to sessions that ended, an interval timer polls
  a provider that was replaced.
- **Resources with one owner.** The RFCOMM slot, a socket, a HID handle must be
  released exactly once on every way out.
- **Late answers.** A reply after its timeout, or one that answers somebody
  else's request; a scan that reports what was true some time ago.
- **Promises that must settle** when a queue is drained, an adapter closes, or a
  provider is disposed in the middle.

## 2. The modules

```
CommandQueueOps ── CommandQueue (implements CommandLine)
      │                 └── SppExchange ── MCSppExchange, SppExchangeProofs
      │  Ev3Packet ── Ev3Protocol ── BtSppAdapter ──┘
      └── SessionManager (implements BrickLife) ── MCSessionManager, MCLiveness,
                                                   SessionManagerProofs
Discovery ── MCDiscovery, DiscoveryProofs
BtConnectionQueue ── BtTransport (implements SlotPool) ── MCBtTransport, BtTransportProofs
TcpAdapter ── MCTcpAdapter, TcpAdapterProofs
UsbTransport ── MCUsbTransport, UsbTransportProofs
TransportGuard ── MCTransportGuard, TransportGuardProofs
```

Both `SppExchangeProofs` and `SessionManagerProofs` extend `CommandQueueOpsProofs`, the lemmas
about the operators of a queue.

Three modules are abstract specifications, written from what the users of a component
rely on and not from its code. **CommandLine** is one line of callers: the first is
worked for, each leaves with one answer, those behind the first may be sent away.
**SlotPool** is a number of slots, who holds them and who waits. **BrickLife** is the state
diagram of `DESIGN.md:417` with its events and the foreground: one life per brick, one change
at a time, each told at once, at most one brick in front. `CommandQueue`, `BtTransport` and
`SessionManager` instantiate them with a refinement mapping (`Line`, `Pool`, `Life`) and
state that they implement them (`ImplementsLine`, `ImplementsPool`, `ImplementsLife`).

**CommandQueueOps, CommandQueue.** The fields of `CommandQueue` are a record, and
each method an operator on it (`Push`, `Advance`, `DrainWith`, `DisposeQueue`),
so that `SessionManager` uses the same code for the queue of each session.
`CommandQueue` is the class alone with an arbitrary executor: `DrainResumes` is the
code after the drain loop's `await`, which runs some time after the executor
settled (`ExecutorSettles`), so that every call may come in between. The line of
`CommandLine` is the command in flight and the queue behind it; its desk is `busy` while
the executor works, `done` from its settling to the loop's resumption.

**Ev3Packet, Ev3Protocol.** The wire format byte by byte: lengths and counters are cut
to 16 bits as `DataView` does. A direct command is a set of `Put`s, fields written to offsets
of its global bytes; what `parseResponse()` reads is a set of `Get`s. A byte of an answer
says which byte of which field of which command it is, so that reading another one shows.
What the brick's firmware does with a program is `Globals` and `Answer`.

**BtSppAdapter, SppExchange.** Adapters with their serial ports, every await of `open()` and
every callback an action; each callback says what it tells the `send()` in flight.
`SppExchange` puts the parts of one command's way together: the queue of `CommandQueue`,
whose executor is the provider's `send()`; `sendCommandViaAdapter()` as `call`; the adapter;
the brick. `Accept` and `Resume` run through all of them in one step, as the code does up
to its next await. Sessions are connected, lost, closed and connected again meanwhile.

**TransportGuard.** The record of a brick with timestamps as ages up to the wait derived
from them. Its callers ask before a command and record its result, in any order. `sent`,
`failed` and `lastUse` are histories kept apart from what the guard remembers: the commands let
through, the failures in a row among the results, and the last transport with its rest.

**SessionManager.** A member of `Sessions` is the identity of one
`SessionResources` object; `sessions[k]` is the map. A suspended method is a record of
`calls`: the method, the resources it captured, what it waits for, and the
`previousState` `disconnect()` read before its `await`. Names follow the code:
`Connect` is `connect()` up to its `await`, `ConnectSucceeds`, `ConnectFails` and
`ConnectAborts` are its continuations (the last one is the `transition()` that
throws because the session ended meanwhile). `ReconnectTimerFires` is the timer in
`resources.reconnectTimer`, `StrayTimerFires` one whose field was overwritten by a
second `scheduleReconnect()`; both run `attemptReconnect()` by key. The queue of the
session and its drain loop are part of the state, since a heartbeat probe is a
command of it. `adapter[k]` is what the provider's own map has for the brick:
nothing, an open link or a dead one. Providers with `recover()` (Bluetooth) and without
(USB, TCP) differ in `Recovers`. A Bluetooth provider may have been given a connection queue
(`MayQueue`; `extension.ts` wires none today): `connect()` then waits in `waiters[k]`, with no
timeout, until `SlotGranted` gives it the slot that a link keeps from its opening until it is
closed (`SlotTaken`), and `dispose()` of the provider rejects whoever waits (`WaitersRejected`).
Without a queue a second `connect()` opens at once, and `AdapterOpens` may overwrite the first
one's link; with one it cannot. Each brick of the model has its provider and its slot to
itself; the slot shared by several bricks is `BtTransport`.

**Discovery.** Registry, scheduler and aggregator together: their events are
synchronous, so that one step runs through all three. A suspended scan is a record of
`scans`, with the results collected so far by `scanOnce()`; an answer says what was
in range some time before the scan resumes. The end of a scan takes each brick through
one operator per `fire()` site of the scheduler (`FoundNew`, `SeenAgain`, the two branches of
`Missed`), which gives its entry afterwards and the event it fires, with its `previousState`;
then the aggregator handles the events (`Handled`) and, when the scan is complete, rebuilds its
list (`Rebuilt`). `announced` is what somebody knows who only listens to the events, and is
"confused" once an event does not start where the last one ended.

**BtConnectionQueue, BtTransport.** The queue's class as operators on a record,
and providers that share it, with other users of `enqueue()`. An *attempt* is what takes
a slot, from `acquire()` to the release. `Serve` is one drain with what each granted
entry does next, since everything from a grant to the next `await` runs at once.
Timestamps are kept as ages that stop growing where `computeDelay()` stops telling
them apart; that loses nothing the code can observe.

**TcpAdapter.** Bytes are tokens: the answer to an unlock request in two pieces that
may arrive in different chunks, and packets with their counter. `step` says where
`openInternal()` is suspended. Chunks split and join tokens anywhere.

**UsbTransport.** Sessions and name probes each have an adapter of their own; every
adapter open on a brick gets every report of it. A report is a packet and the zeros that
pad it, which stay in the buffer when the packet is taken: `CounterRead` is what
`extractNextPacket()` makes of the next one. `open()` and `close()` of a HID
device wait for microtasks only, so that each is one step with what follows.

## 3. The runs

`tlc -workers 2 -config <cfg> <module>`.

| Run | Module, cfg | Question | Bounds |
| --- | --- | --- | --- |
| `command_queue` | MCSppExchange | Is the queue one line, every sender answered, with what the brick said of its own command, and does no request stay behind in an adapter? | 3 commands of different kinds, 2 adapters, 2 counters, packets cut after 1 or 8 bytes; 315 thousand states |
| `sessions` | MCSessionManager, MCSessions | Do late completions of an ended session ever harm the one that replaced it, or another brick's, and does every brick live one life as `BrickLife` says? | 2 bricks, 2 session objects, 2 suspended calls, 2 faults, 1 miss, 1 attempt; 1.2 million states |
| `liveness` | MCLiveness | Does every call return unless a stored link keeps the slot it waits for, a disconnect win, reconnecting end, and with `recover()` succeed? | 1 brick, its Bluetooth provider with or without a connection queue, 2 session objects, 2 suspended calls, 2 misses, 2 attempts, 1 fault |
| `monitored` | MCSessionManager, MCMonitored | *violated:* is a connected session always monitored? | 1 brick |
| `orphan` | MCSessionManager, MCOrphan | *violated:* does disconnect leave no link behind? | 1 brick |
| `no_recover` | MCLiveness, MCNoRecover | *violated:* does reconnecting work without `recover()`? | 1 brick |
| `discovery` | MCDiscovery | Do list and tracked bricks agree, do the events tell an unbroken story that ends with them, and does a brick that stays away leave and one that stays get listed? | 1 brick, 2 transports, 3 providers, 2 scans at once |
| `bt` | MCBtTransport | Is the queue a pool of slots, are waiters served, rests kept, sessions and links single? | 1 brick, 2 providers, 2 backends, 3 attempts, cooldown 2, backoff up to 3 |
| `tcp` | MCTcpAdapter | Is an open adapter unlocked, its socket the only one, every request answered or rejected, and does `open()` settle? | 2 sockets, 3 tokens on the way, buffer of 3 |
| `usb` | MCUsbTransport | Has every HID handle one owner, no brick two probes, and does every `discover()` return? | 2 bricks, 2 adapters at once, 2 scans, counters that wrap after 2, no short replies |
| `usb_lost` | MCUsbTransport, MCUsbLost | *violated:* does a delivered reply settle its request? | 1 brick, 1 adapter, short replies too |
| `guard` | MCTransportGuard | Are the rate and the rest between transports kept, is a brick degraded exactly while its last results were failures, and can it be asked again? | 1 brick, 2 transports, 2 commands in a window of 2, cooldown 3, degradation after 2 failures, 3 commands in flight, 1 `forget()` per window |

Why the bounds are enough: a late completion needs the object that ended and the
one that replaced it, hence two session objects; they belong to one brick or to
two, as connects come. Two suspended calls are the `connect()` or attempt that comes late
and whatever overtakes it, one after the other; the second fault lets the newer session
lose its link while an attempt of the older one is still pending, which is how timers
are overwritten. `liveness` has a threshold of two misses, `sessions` of one. Longer
chains repeat the same confusions with more objects; for the properties proved below
the bounds play no part.
The BT cooldown of 2 and backoff of up to 3 separate "before", "between" and "after"
of the two waits; so do the guard's window, cooldown and threshold, each reached and passed
with commands to spare. In `command_queue` one command is in flight, one waits and one
is sent after a disposal or a new session; two counters are the fewest that tell the request
in flight from the one before, and wrap at once; the cuts fall inside a packet's header,
where only its length is known, and inside its payload. `usb` has no short replies: a
swallowed reply is there one that never comes, which its bricks may choose. Three TCP tokens are an answer in two pieces and a packet after
it. `MaxErrors`, `MaxWire` and the other caps are named in the modules' CONSTANTS.
`MaxFaults` bounds failures of the environment because an unbounded number defeats
any bounded number of attempts. In `SessionManager` calls are kept free for what is owed
a slot (`Owed`), so that the bound on calls never blocks a timer. Every passing configuration but
those of `command_queue` and `guard` has `CHECK_DEADLOCK FALSE`: the modelled system may stop, e.g. after
`dispose()` or once the bounded objects are used up.

`MCLiveness` leaves the calls for the foreground brick and `dispose()` out of the next-state
relation; neither takes part in what it checks. The session runs use symmetry, and only for safety.

### Fairness

- *SessionManager*: the event loop empties its microtasks (WF of `Microtask`), and every
  timer and every completed open or close of an adapter gets its turn (SF, because they
  wait for the microtasks that user calls keep adding). An open or a close of an adapter
  that was begun ends: `TcpSocketAdapter` sets timers in both, `BtSppAdapter` waits for the
  callbacks of its port and its own delays, a HID device opens at once. A *wait for the slot*
  of a connection queue is another matter: `acquire()` has no timeout
  (`transports/btTransportProvider.ts:141`), and all that is assumed is that a slot that is
  free goes to the first who waits. A link that is stored keeps it for ever, if nobody
  closes it. This can happen to one brick alone: `connect()` is suspended while its adapter opens,
  `disconnect()` ends the session, a second `connect()` waits for the slot, and the late link
  of the first is stored (run `orphan`) and keeps it. So `EveryCallReturns` says: a call returns, or it waits from some time on while a link
  of its brick is stored (`HeldUp`). Without a queue no call is ever held up. Nothing is assumed of a brick's reply:
  `sendCommandViaAdapter` sets no timeout.
- *SppExchange*: as long as a promise is to resume, a brick has a request to answer or bytes
  or callbacks are to be delivered, one of these happens (WF of `Progress`, weaker than
  fairness of each). This is the run where a brick answers: the bridge sets no timeout.
- *TransportGuard*: time passes.
- *Discovery*: every `discover()` ends (the TCP scan and USB probes have timeouts; run `usb`
  checks the latter) and an interval timer keeps firing.
- *BtTransport*: time passes, due timers fire, an adapter opens or fails and closes, a
  task ends. Nothing is assumed of callers: a session may keep its slot for ever, and
  `WaitersServed` says so.
- *TcpAdapter*: the timers of `open()` and Node's `close` event of a destroyed socket.
- *UsbTransport*: only the timeout of a probe.

### What the runs found

1. `monitored`: the tick that reaches the threshold leaves `_running` set
   (`runtime/heartbeatMonitor.ts:112-115`), so that `start()` after a reconnect returns
   early (`:67`). A reconnected session has no heartbeat: its next loss of link is not noticed.
2. `orphan`: `disconnect()` during a suspended `connect()` ends the session, and the
   link `connect()` opens afterwards stays in the provider with no session
   (`runtime/sessionManager.ts:115-117`), which then refuses every connect of that brick.
3. `no_recover`: a provider without `recover()` keeps the failed adapter in its map and
   refuses every attempt to reconnect (`:344-346`, `transports/tcpTransportProvider.ts:88`).
4. `usb_lost`: zeros that padded one report stay in the buffer; the last of them and the
   low byte 3 of a reply without payload read as a length of 768, and the reply is cut off as part
   of a packet nobody waits for (`transports/usbHidAdapter.ts:267`). Its request stays in
   flight, and every later one is refused.

Two more are in the models without a run of their own. A provider that replaces another
while polling runs is not polled: the old interval timer goes on calling the disposed one,
and keeps the listener from starting another (`runtime/discoveryScheduler.ts:150`, against
the comment at `:52`). `dispose()` during `adapter.open()` leaves `connect()` to store the session
in the disposed provider, where nothing returns its slot (`transports/btTransportProvider.ts:146`,
against `transports/btConnectionQueue.ts:50`).

Met while modelling and not run yet: `setActiveBrick()` during a `connect()` that fails
leaves the brick active, so that its next session can not be promoted to the foreground
(`runtime/sessionManager.ts:126`, `:175`); failed connects of the BT provider never count
as errors, so that the backoff `DESIGN.md:180` asks for does not apply to them; a USB
session opened during a name probe of its brick may take the probe's reply for its first
request's, both having number 1 (`transports/usbTransportProvider.ts:191`); a reply
that follows an unlock answer whose blank line came late is never found
(`transports/tcpSocketAdapter.ts:361`); a port whose DTR cannot be set stays open with
nothing to close it (`transports/btSppAdapter.ts:122`); a late error of a write rejects
whichever request is in flight then (`:210`); the comment at `protocol/ev3Responses.ts:151`
gives a listing two bytes before it where the code skips four. The refusal of a second
request by an adapter ("already has in-flight send request") is never met behind a
`CommandQueue` (theorem `NoRequestInTheWay`).

What the properties do not catch, although a hazard of the list is near: `ForegroundIsActive`
not the brick that stays in the background after a failed `connect()` (above);
`TimersFollow` not the timer of a replaced provider, and `InReachIsAvailable` presumes a
brick's transport is polled through the provider registered now (`Polled`); `OneLink` and
`ImplementsPool` not the slot that is lost in a disposed provider. `ReconnectingEnds` and
`ReconnectSucceeds` are checked for one brick that has its provider to itself: that a session
of a second brick keeps the slot `recover()` waits for is not in that run. Replies to requests
that were given up are in no run over the serial port, as nothing there gives a request up.

## 4. The proofs

`tlapm <module>Proofs.tla`. What each proof assumes are the named assumptions on
the constants (`ConstantsAssumption`, `CommandAssumption`, `DiscoveryAssumption`,
`LinkAssumption`, `ExchangeAssumption`, `QueueAssumption`, `BackoffAssumption`,
`BtAssumption`, `TcpAssumption`, `UsbAssumption`, `GuardAssumption`), which TLC evaluates in
the runs. Two theorems of `BtTransportProofs` have a hypothesis of their own, which the
code's values meet: `LinksAreBounded` that an adapter closes within the cooldown between
connections (`PORT_CLOSE_GRACE_MS` of 500, `transports/btSppAdapter.ts:45`, against
`INTER_CONNECTION_COOLDOWN_MS` of 15000, `transports/transportConstants.ts:65`), and
`SessionsAreKept` that the queue has one slot, its default (`transports/btConnectionQueue.ts:43`).

All of them follow one pattern: an inductive invariant, that `Init` implies it, one
lemma per group of actions for its being kept, and the theorems from it. TLC checked each
invariant on the small instance before it was proved.

| Module | Theorems | The inductive invariant, and why |
| --- | --- | --- |
| SppExchangeProofs, the queue | `QueueCorrect`: well typed, serialised, nobody forgotten; `QueueImplementsLine`: it implements `CommandLine` | adds that no command is both queued and in hand and none is queued twice (`HeldOnce`), and when the drain loop may be resumed (`Resumable`): without them `Advance` could take a command that is still in flight. The refinement needs besides that the executor works for the command in hand (`InHand`) and that a disposed queue is empty (`Emptied`), so that a loop that stops leaves no line behind; each action is then one step of the line or a stutter (`StepIsLineStep`) |
| SppExchangeProofs, the exchange | `AnswersAreTheirOwn`, `PromisesAreMatched`, `NoRequestInTheWay`, `NobodyWaitsInVain`; `NobodyIsForgotten` and `ExchangeImplementsLine` for the queue in its place; `PacketsSurvive` and `CommandsBuild` of the protocol | `ExInv`: what is due to a promise of an adapter is in one place, the request with the brick or its reply, part in the buffer and part on the way (`LinkAt`), for the command in the queue's hand; and every promise is the call that waits for it. Hence whatever a chunk completes is the reply to that request, although counters repeat after two messages. That steps of the queue alone are steps of the queue carries `QueueCorrect` over (`ExchangeIsQueue`). `WriteInv` adds that a request written to a dead port has its write's callback to come |
| SessionManagerProofs, the map | `TypeCorrect`, `MapIsExact`, `OneForeground`, `EventsTell`, `SuppressionMeansExplicit`, `EndIsFinal`; `ManagerImplementsLife`: it implements `BrickLife` | the four properties hold each other up (`Core`), and need that unborn objects have no timers, probes or modes (`BornInv`), that a suspended call holds a created session (`FrameInv`), and `MapInv`, half of which holds after `dispose()` too. The refinement adds that a disposed manager has no sessions (`Emptied`); each step moves a session (`Moves`), ends one (`Ends`), connects a brick, changes the foreground, disposes the manager, or shows nothing |
| SessionManagerProofs, the work | `TheRetiredAreAnswered`, `NobodyIsStuck`, `ConnectedIsLinked` | `WorkInv`, four statements about one session: it is shut once it is not connected or being disconnected, and whoever waits for a reply has an open adapter (`ShutAt`); an adapter delivered to a suspended method is still there when the method goes on (`LinkAt`); a session that reconnects is pursued (`PursuedAt`); and which suspended methods go with which state (`PhaseAt`), without which a late `connect()` could fail a session that an attempt has connected |
| DiscoveryProofs | `ListIsExact`, `MissesAreCounted`, `EventsAreComplete`, `TimersAreStopped`, `PresenceMoves`, `MarksSurvive` | conjunction of the state properties: the presence of a tracked brick and its miss count determine each other, which `PresenceMoves` rests on. `EventsAreComplete` goes through the `fire()` sites one by one: each event starts with the presence that was announced last and ends with that of the new entry |
| BtTransportProofs | `NobodyIsStranded`, `RestsAreHonoured`; `PoolRefinement`: it implements `SlotPool`; `LinksAreBounded`, `SessionsAreKept` | the queue is well typed and attended after every operator, including the recursion-free drain; what is granted was rested (`Good`). `SlotInv` adds that the active count is the number of attempts that hold a slot, that the pending entries are those who wait, in order and once each (`LineUp`), and what a `connect()` and a session have to do with the attempt that holds their slot. A drain is a sequence of grants, seen from the pool as one step. `DropInv` dates the adapters whose slot was released before they closed |
| TcpAdapterProofs | `OpenMeansUnlocked`, `SendsAreAnswered`, `OneConnection`, `OpensAdvance` | which socket `open()` works on at each `step` (`StepsOK`), which ones are live (`SocketsOK`), what `closing` excludes (`ClosingOK`) and that an acceptance on the wire is one the brick gave (`StreamOK`): a late or foreign event is harmless because of these. `OpensAdvance` holds of each step by itself |
| UsbTransportProofs | `UsbTypeCorrect`, `HandlesAreOwned`, `ProbesAreAsked`, `ScansGetShorter` | who owns which adapter, stated of any sessions, scans and adapters (`OwnedAt`), since the end of a probe closes one adapter and may open the next in one step: it holds in between too (`ReleaseKeeps`, `GoesOnKeeps`). `ProbesAsked` is inductive with it: as no session has a probe's adapter, no step but the probe's end touches its request |
| TransportGuardProofs | `TypeCorrect`, `RateIsHonoured`, `DegradationIsTold`, `SwitchesAreRested` | what was let through within a window is cut at the `forget()` calls among it (`Epochs`): each piece is within the limit, and the last one is what the guard still counts; time drops a prefix of the commands and the cuts that only separated those. The guard's count of failures is that of the results recorded (`FailedInv`), a brick is degraded exactly when it stands at the threshold, and the listener was told then (`DegradedAt`); the guard's last close is the last use's rest, unless the brick was forgotten (`UseAt`) |

`NobodyWaitsInVain` is the safety half of `EverySendSettles`: no sender waits in a state
where nothing is left that would settle it; that those things happen is the run's fairness.
What is left is of the call's own (`Due`): the adapter it waits on holds its promise, and the
brick has the request with its counter, or the rest of the packet that answers it is on the
way, or a callback that rejects that promise is due.
`NobodyIsStuck` and `NobodyIsStranded` are the same for `ReconnectingEnds` and `WaitersServed`.
For `ScansSettle` it is `ProbesAreAsked`, with `ScansGetShorter` to say that every step of a
scan brings it nearer to its end; for `OpenSettles` it is `OpensAdvance`, as each wait of
`open()` has its timer. The definitions these theorems are about (`SomebodyWaits`,
`ProbesAsked`, `ScansShorten`, `OpenAdvances`, `MissesCounted`, `MarksSurviveScans`), the
lemmas of the protocol and the type invariants are proved and not run.

Only model-checked: liveness, as fairness and `ENABLED` are out of the provers' reach
(`EverySendSettles`, `EveryCallReturns`, `ExplicitDisconnectEnds`, `ReconnectingEnds`,
`ReconnectSucceeds`, `GoneIsRemoved`, `InReachIsAvailable`, `WaitersServed`, `OpenSettles`,
`ScansSettle`, `NeverLockedOut`). Every invariant, every property of single steps and every
refinement that a passing run checks is a theorem as well.

## 5. What the models take as given, and leave out

- *SessionManager.* Each brick has a provider of its own, and if that has a connection queue,
  its one slot; the queue's cooldowns only delay. `sessions` and the violated runs have no queue (`sessions`
  with a queue for both bricks passes too, in 4.6 million states); the proofs cover both. Disposal of a provider is part of
  `UnregisterProvider`. No user call comes after `dispose()`. Handles, `lastError`, display
  names, subscriptions and the active-brick event are data nothing here reads back. One
  timer per heartbeat monitor at a time. Delays only order timers, and the interleaving has
  every order.
- *Discovery.* `remembered` stands for the three flags merged alike (remembered, favorite,
  connected). The order of the list and its cache are not modelled. A provider object is
  registered once. Deactivation disposes everything in one step, in reverse order.
- *Bluetooth.* A provider with a queue and at least one backend. An adapter closes within
  `CloseGrace`, which is below the cooldown (0.5 s against 15 s in the code). The
  serial stream is in `SppExchange`, for one brick and without the shared slot.
- *TCP.* `open()` may or may not look for a beacon, whatever the options. Node emits
  `close` of a destroyed socket before another connection is set up. Sizes are numbers of tokens.
- *USB.* Every brick has the generic product name, as otherwise there is no probe. Two
  `connect()` of one brick in one microtask turn are not modelled: the session manager
  refuses the second. A report holds one packet, and at most one byte of padding before it
  matters. The report id that some platforms put before a report is not modelled; where it is
  absent, its removal takes a first byte 0 of a packet for it (`transports/usbHidAdapter.ts:256`).
- *Exchange.* Users open an adapter once and close it after `open()` returned, as the provider
  does. No request carries an abort signal, as no caller passes one. A payload is one byte that
  stands for what is asked; the values and texts of fields, and the contents of files, are not
  modelled. Fewer than 64 packets are buffered, so that `drainPendingReply()` never stops early.
- *Guard.* `Date.now()` goes forward only. Each command let through gets one result.
- *Not modelled*: the mock transport, a test double whose replies are tables and waveforms; the
  parsing of beacons and device lists; encodings nothing uses; activation beyond disposal;
  contracts and errors, which are types.

## 6. Plan

Modelled first was what everything depends on: the command queue, the session manager,
discovery, then the transports from the one with the hardest rules (Bluetooth) to the
simplest. What comes next, in this order:

1. Proofs of what the remaining liveness rests on: the counts of misses and of scans that
   `GoneIsRemoved` and `InReachIsAvailable` go by, and what `EveryCallReturns` waits for.
2. `SppExchange` over the USB and TCP adapters, whose streams differ.
3. A run for the framing of replies after an early acceptance by the TCP adapter.
