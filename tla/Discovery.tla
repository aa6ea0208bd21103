------------------------------ MODULE Discovery ------------------------------
(***************************************************************************)
(* Discovery of bricks: the provider registry                              *)
(* (src/src/transports/providerRegistry.ts), the scheduler that polls the  *)
(* registered providers (src/src/runtime/discoveryScheduler.ts) and the    *)
(* aggregator that keeps the discovery list                                *)
(* (src/src/runtime/presenceAggregator.ts).                                *)
(*                                                                         *)
(* Events are synchronous calls of the listeners, so an action runs        *)
(* through all three.  What is asynchronous is provider.discover(): a scan *)
(* is suspended while bricks come and go, providers are replaced, and      *)
(* other scans of the same bricks start and end.                           *)
(***************************************************************************)
EXTENDS Naturals, FiniteSets

CONSTANTS
    Bricks,
    Transports,
    Providers,          \* provider objects, each registered at most once
    Scans,              \* identities of suspended scans: bounds how many at once
    TransportOf,        \* the transport of each brick
    Serves,             \* the transport of each provider
    Paired,             \* bricks a provider reports as remembered by the system
    None,
    UnavailableAfter,   \* unavailableAfterMisses
    RemovedAfter,       \* removedAfterMisses
    MaxFaults           \* bound: failed discoveries in a behaviour

ASSUME DiscoveryAssumption ==
    /\ TransportOf \in [Bricks -> Transports]
    /\ Serves \in [Providers -> Transports]
    /\ Paired \subseteq Bricks
    /\ None \notin Providers /\ None \notin Transports
    /\ UnavailableAfter \in Nat \ {0}
    /\ RemovedAfter \in Nat \ {0}
    /\ MaxFaults \in Nat

VARIABLES
    inRange,            \* bricks a discovery would find
    faults,
    \* ProviderRegistry
    providers,          \* providers[t], or None
    retired,            \* disposed provider objects
    \* DiscoveryScheduler
    polling,
    timers,             \* timers[t]: the provider its interval timer polls, or None
    tracked,            \* tracked[b], or Absent
    scans,              \* the suspended scans
    \* PresenceAggregator
    items,              \* items[b]: the entry of the list, or Absent
    \* deactivation and history
    deactivated,        \* the services were disposed
    announced           \* announced[b]: what the presence events told of b

worldVars      == <<inRange, faults>>
registryVars   == <<providers, retired>>
schedulerVars  == <<polling, timers, tracked, scans>>
aggregatorVars == <<items, announced>>
vars == <<worldVars, registryVars, schedulerVars, aggregatorVars, deactivated>>

Absent == [presence |-> "removed"]

\* scanProvider() of one transport, or scanOnce() of all: the providers that
\* have not answered yet and the bricks seen so far.
Scan == [scope : SUBSET Transports, once : BOOLEAN,
         waiting : SUBSET Providers, seen : SUBSET Bricks]
NoScan == [scope |-> {}, once |-> FALSE, waiting |-> {}, seen |-> {}]

Tracked == [presence : {"available", "unavailable"}, missCount : Nat]

\* A PresenceChangeEvent: previousState and currentState.
Event(from, to) == [from |-> from, to |-> to]
NoEvent == Event("none", "none")

\* An entry of the list.  remembered, favorite and connected are flags the
\* aggregator owns and treats alike; remembered stands for the three.
Item == [presence : {"remembered", "available", "unavailable"}, remembered : BOOLEAN]

TypeOK ==
    /\ inRange \subseteq Bricks
    /\ faults \in 0..MaxFaults
    /\ providers \in [Transports -> Providers \cup {None}]
    /\ retired \subseteq Providers
    /\ polling \in BOOLEAN
    /\ timers \in [Transports -> Providers \cup {None}]
    /\ tracked \in [Bricks -> Tracked \cup {Absent}]
    /\ scans \in [Scans -> Scan]
    /\ items \in [Bricks -> Item \cup {Absent}]
    /\ deactivated \in BOOLEAN
    /\ announced \in [Bricks -> {"removed", "available", "unavailable", "confused"}]

Init ==
    /\ inRange = {}
    /\ faults = 0
    /\ providers = [t \in Transports |-> None]
    /\ retired = {}
    /\ polling = FALSE
    /\ timers = [t \in Transports |-> None]
    /\ tracked = [b \in Bricks |-> Absent]
    /\ scans = [n \in Scans |-> NoScan]
    /\ items = [b \in Bricks |-> Absent]
    /\ deactivated = FALSE
    /\ announced = [b \in Bricks |-> "removed"]

-----------------------------------------------------------------------------
(* The bricks.                                                              *)

Appears(b) ==
    /\ b \notin inRange
    /\ inRange' = inRange \cup {b}
    /\ UNCHANGED <<faults, registryVars, schedulerVars, aggregatorVars, deactivated>>

Vanishes(b) ==
    /\ b \in inRange
    /\ inRange' = inRange \ {b}
    /\ UNCHANGED <<faults, registryVars, schedulerVars, aggregatorVars, deactivated>>

-----------------------------------------------------------------------------
(* ProviderRegistry, with the scheduler's two listeners.                    *)

Registered == {providers[t] : t \in Transports} \ {None}

\* Mutant: unregistering leaves the interval timer running.
TimerKept(t) == timers

TimerStopped(t) == [timers EXCEPT ![t] = None]

\* startProviderTimer(): a transport that has a timer keeps it.
TimerStarted(t, p) == IF timers[t] = None THEN [timers EXCEPT ![t] = p] ELSE timers

\* register() disposes the provider it replaces.
Register(p) ==
    LET t == Serves[p] IN
    /\ ~deactivated
    /\ p \notin Registered \cup retired
    /\ retired' = IF providers[t] = None THEN retired ELSE retired \cup {providers[t]}
    /\ providers' = [providers EXCEPT ![t] = p]
    /\ timers' = IF polling THEN TimerStarted(t, p) ELSE timers
    /\ UNCHANGED <<worldVars, polling, tracked, scans, aggregatorVars, deactivated>>

Unregister(t) ==
    /\ ~deactivated
    /\ providers[t] # None
    /\ retired' = retired \cup {providers[t]}
    /\ providers' = [providers EXCEPT ![t] = None]
    /\ timers' = TimerStopped(t)
    /\ UNCHANGED <<worldVars, polling, tracked, scans, aggregatorVars, deactivated>>

-----------------------------------------------------------------------------
(* DiscoveryScheduler: polling and scans.                                   *)

Start ==
    /\ ~deactivated
    /\ polling' = TRUE
    /\ timers' = [t \in Transports |->
                     IF timers[t] = None THEN providers[t] ELSE timers[t]]
    /\ UNCHANGED <<worldVars, registryVars, tracked, scans, aggregatorVars, deactivated>>

Stop ==
    /\ ~deactivated
    /\ polling' = FALSE
    /\ timers' = [t \in Transports |-> None]
    /\ UNCHANGED <<worldVars, registryVars, tracked, scans, aggregatorVars, deactivated>>

\* An interval elapses and scanProvider() calls discover(); a disposed
\* provider rejects at once, which is only logged.
TimerFires(t, n) ==
    /\ timers[t] # None
    /\ timers[t] \notin retired
    /\ scans[n] = NoScan
    /\ scans' = [scans EXCEPT ![n] =
            [scope |-> {t}, once |-> FALSE, waiting |-> {timers[t]}, seen |-> {}]]
    /\ UNCHANGED <<worldVars, registryVars, polling, timers, tracked, aggregatorVars,
                   deactivated>>

ScanOnce(n) ==
    /\ ~deactivated
    /\ scans[n] = NoScan
    /\ scans' = [scans EXCEPT ![n] =
            [scope |-> Transports, once |-> TRUE, waiting |-> Registered, seen |-> {}]]
    /\ UNCHANGED <<worldVars, registryVars, polling, timers, tracked, aggregatorVars,
                   deactivated>>

Visible(p) == {b \in inRange : TransportOf[b] = Serves[p]}

Answered(scan, p, found) ==
    [scope |-> scan.scope, once |-> scan.once,
     waiting |-> scan.waiting \ {p}, seen |-> scan.seen \cup found]

Answers(n, p, found) ==
    /\ p \in scans[n].waiting
    /\ scans' = [scans EXCEPT ![n] = Answered(@, p, found)]
    /\ UNCHANGED <<inRange, registryVars, polling, timers, tracked, aggregatorVars,
                   deactivated>>

DiscoverAnswers(n, p) == Answers(n, p, Visible(p)) /\ UNCHANGED faults

Fault == faults < MaxFaults /\ faults' = faults + 1

\* A provider's discover() answers an empty list when its search fails; for
\* scanOnce() a rejection counts the same.
DiscoverFails(n, p) == Fault /\ Answers(n, p, {})

\* discover() itself rejects: scanProvider() gives the scan up.
DiscoverRejects(n, p) ==
    /\ Fault
    /\ p \in scans[n].waiting
    /\ ~scans[n].once
    /\ scans' = [scans EXCEPT ![n] = NoScan]
    /\ UNCHANGED <<inRange, registryVars, polling, timers, tracked, aggregatorVars,
                   deactivated>>

-----------------------------------------------------------------------------
(* The end of a scan: processScanResult(), the misses, and the aggregator's *)
(* two listeners.  Each operator below is one brick's way through the scan: *)
(* its entry afterwards and the event that its fire() site sends, if any.   *)

Available == [presence |-> "available", missCount |-> 0]

\* A brick that was not tracked.
FoundNew == [entry |-> Available, event |-> Event("removed", "available")]

\* Mutant: previousState is read after the entry was replaced, so that a brick
\* that comes back is not announced.
SeenSilently(entry) == [entry |-> Available, event |-> NoEvent]

SeenAgain(entry) ==
    [entry |-> Available,
     event |-> IF entry.presence # "available" THEN Event(entry.presence, "available")
               ELSE NoEvent]

\* Mutant: the thresholds are compared without the presence.
MissedTwice(entry) ==
    LET missCount == entry.missCount + 1 IN
    IF missCount >= RemovedAfter
    THEN [entry |-> Absent, event |-> Event(entry.presence, "removed")]
    ELSE [entry |-> [entry EXCEPT !.missCount = missCount], event |-> NoEvent]

\* incrementMiss()
Missed(entry) ==
    LET missCount == entry.missCount + 1 IN
    IF entry.presence = "available" /\ missCount >= UnavailableAfter
    THEN [entry |-> [presence |-> "unavailable", missCount |-> missCount],
          event |-> Event(entry.presence, "unavailable")]
    ELSE IF entry.presence = "unavailable" /\ missCount >= UnavailableAfter + RemovedAfter
         THEN [entry |-> Absent, event |-> Event(entry.presence, "removed")]
         ELSE [entry |-> [presence |-> entry.presence, missCount |-> missCount],
               event |-> NoEvent]

NotScanned(entry) == [entry |-> entry, event |-> NoEvent]

Found(b) == IF tracked[b] = Absent THEN FoundNew ELSE SeenAgain(tracked[b])

\* Mutants: scanProvider() counts a miss for the bricks of every transport;
\* only scanOnce() counts misses.
AfterAnyScan(scan, b) ==
    IF b \in scan.seen THEN Found(b)
    ELSE IF tracked[b] # Absent THEN Missed(tracked[b]) ELSE NotScanned(tracked[b])
AfterScanOnce(scan, b) ==
    IF b \in scan.seen THEN Found(b)
    ELSE IF tracked[b] # Absent /\ scan.once THEN Missed(tracked[b])
    ELSE NotScanned(tracked[b])

\* What the scan makes of b.
AfterScan(scan, b) ==
    IF b \in scan.seen THEN Found(b)
    ELSE IF tracked[b] # Absent /\ TransportOf[b] \in scan.scope
         THEN Missed(tracked[b]) ELSE NotScanned(tracked[b])

\* mergeLocalMetadata(): the flags of an existing entry win.
Merged(b, existing, presence) ==
    [presence |-> presence,
     remembered |-> IF existing = Absent THEN b \in Paired ELSE existing.remembered]

\* handlePresenceChange(): what an event makes of an entry of the list.
Handled(b, existing, event) ==
    IF event = NoEvent THEN existing
    ELSE IF event.to = "removed" THEN Absent
    ELSE Merged(b, existing, event.to)

\* Mutant: the list is rebuilt from a snapshot that still has the brick whose
\* removal was announced in this scan.
RebuiltStale(b, existing, entry) ==
    IF entry # Absent THEN Merged(b, existing, entry.presence)
    ELSE IF tracked[b] # Absent THEN Merged(b, existing, tracked[b].presence) ELSE existing

\* rebuildFromScheduler(): the bricks tracked now are merged once more.
Rebuilt(b, existing, entry) ==
    IF entry = Absent THEN existing ELSE Merged(b, existing, entry.presence)

\* What a listener of onPresenceChanged knows who expects every event to start
\* (previousState) where the last one ended.
Heard(known, event) ==
    IF event = NoEvent THEN known ELSE IF event.from = known THEN event.to ELSE "confused"

ScanCompletes(n) ==
    LET now == [b \in Bricks |-> AfterScan(scans[n], b)]
        Listed(b) == Rebuilt(b, Handled(b, items[b], now[b].event), now[b].entry) IN
    /\ scans[n] # NoScan
    /\ scans[n].waiting = {}
    /\ tracked' = [b \in Bricks |-> now[b].entry]
    /\ IF deactivated THEN UNCHANGED aggregatorVars
       ELSE /\ items' = [b \in Bricks |-> Listed(b)]
            /\ announced' = [b \in Bricks |-> Heard(announced[b], now[b].event)]
    /\ scans' = [scans EXCEPT ![n] = NoScan]
    /\ UNCHANGED <<worldVars, registryVars, polling, timers, deactivated>>

-----------------------------------------------------------------------------
(* PresenceAggregator's own operations.                                     *)

\* mergeRemembered(): only bricks the list does not have are added.
MergeRemembered(stored) ==
    /\ ~deactivated
    /\ items' = [b \in Bricks |->
            IF b \in stored /\ items[b] = Absent
            THEN [presence |-> "remembered", remembered |-> TRUE]
            ELSE items[b]]
    /\ UNCHANGED <<worldVars, registryVars, schedulerVars, announced, deactivated>>

\* updateBrick(): the patch is merged into the entry.
UpdateBrick(b, remembered) ==
    /\ ~deactivated
    /\ items[b] # Absent
    /\ items' = [items EXCEPT ![b] =
            [presence |-> items[b].presence, remembered |-> remembered]]
    /\ UNCHANGED <<worldVars, registryVars, schedulerVars, announced, deactivated>>

\* deactivate(): the services are disposed in reverse order of activation,
\* in one synchronous pass; suspended scans are left to themselves.
Deactivate ==
    /\ ~deactivated
    /\ deactivated' = TRUE
    /\ items' = [b \in Bricks |-> Absent]
    /\ tracked' = [b \in Bricks |-> Absent]
    /\ polling' = FALSE
    /\ timers' = [t \in Transports |-> None]
    /\ retired' = retired \cup Registered
    /\ providers' = [t \in Transports |-> None]
    /\ UNCHANGED <<worldVars, scans, announced>>

-----------------------------------------------------------------------------

Completes(n) ==
    \/ ScanCompletes(n)
    \/ \E p \in Providers : DiscoverAnswers(n, p)

Next ==
    \/ Start \/ Stop \/ Deactivate
    \/ \E b \in Bricks : Appears(b) \/ Vanishes(b)
    \/ \E b \in Bricks, remembered \in BOOLEAN : UpdateBrick(b, remembered)
    \/ \E stored \in SUBSET Bricks : MergeRemembered(stored)
    \/ \E p \in Providers : Register(p)
    \/ \E t \in Transports : Unregister(t)
    \/ \E n \in Scans :
           \/ Completes(n) \/ ScanOnce(n)
           \/ \E t \in Transports : TimerFires(t, n)
           \/ \E p \in Providers : DiscoverFails(n, p) \/ DiscoverRejects(n, p)

Spec == Init /\ [][Next]_vars

\* Every discover() ends (each has a timeout) and its scan is resumed; an
\* interval timer keeps firing although scanOnce() may take the last slot.
FairSpec ==
    /\ Spec
    /\ \A n \in Scans : WF_vars(Completes(n))
    /\ \A t \in Transports : SF_vars(\E n \in Scans : TimerFires(t, n))

-----------------------------------------------------------------------------
(* Properties                                                               *)

\* The aggregator "is the single read model for the discovery list"
\* (presenceAggregator.ts:41): a brick is in it as available or unavailable
\* exactly when the scheduler tracks it so, whatever scans overlap.
ListMatchesTracked ==
    ~deactivated =>
        \A b \in Bricks :
            IF tracked[b] # Absent THEN items[b].presence = tracked[b].presence
            ELSE items[b].presence \in {"removed", "remembered"}

\* Misses are counted from the last time the brick was seen: an available
\* brick has fewer than unavailableAfterMisses, and an unavailable one has at
\* least as many and is not kept past removedAfterMisses more.
MissesCounted ==
    \A b \in Bricks : tracked[b] # Absent =>
        IF tracked[b].presence = "available"
        THEN tracked[b].missCount < UnavailableAfter
        ELSE /\ tracked[b].missCount >= UnavailableAfter
             /\ tracked[b].missCount < UnavailableAfter + RemovedAfter

\* Whoever only listens to onPresenceChanged (auto-connect is to) knows the
\* presence of every brick: the four places that fire an event, in scans that
\* overlap and answer late, together tell an unbroken story that ends with the
\* presence the scheduler tracks.
EventsComplete ==
    ~deactivated => \A b \in Bricks : announced[b] = tracked[b].presence

\* No timer polls a transport that was unregistered, and none runs while
\* polling is stopped, whatever order register, start and stop come in.
TimersFollow ==
    \A t \in Transports : timers[t] # None => polling /\ providers[t] # None

\* The presence of a listed brick moves along DESIGN.md:426-431 only: it is
\* never removed before it was unavailable, and never back to remembered.
PresenceSteps ==
    [][\A b \in Bricks :
          \/ deactivated'
          \/ items'[b].presence = items[b].presence
          \/ <<items[b].presence, items'[b].presence>> \in
                 {<<"removed", "remembered">>, <<"removed", "available">>,
                  <<"remembered", "available">>, <<"available", "unavailable">>,
                  <<"unavailable", "available">>, <<"unavailable", "removed">>}]_vars

\* What the user marked survives the scans: no end of a scan changes the
\* flags of a brick that stays in the list.
MarksSurviveScans ==
    [][\A b \in Bricks :
          tracked' # tracked /\ items[b] # Absent /\ items'[b] # Absent =>
              items'[b].remembered = items[b].remembered]_vars

\* The transport of b is polled through the provider that is registered now.
Polled(b) ==
    LET t == TransportOf[b] IN timers[t] # None /\ timers[t] = providers[t]

\* A brick that stays out of reach of a polled provider leaves the list of
\* tracked bricks for good, although scans of before and scanOnce() overlap.
GoneIsRemoved ==
    \A b \in Bricks :
        <>[](b \notin inRange /\ Polled(b)) => <>[](tracked[b] = Absent)

\* A brick that stays in reach of a polled provider ends up available and
\* stays so: late results of scans that missed it do not remove it again.
InReachIsAvailable ==
    \A b \in Bricks :
        <>[](b \in inRange /\ Polled(b) /\ ~deactivated)
            => <>[](items[b].presence = "available")
=============================================================================
