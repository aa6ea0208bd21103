--------------------------- MODULE DiscoveryProofs ---------------------------
(* What holds of discovery for any number of bricks, transports, providers   *)
(* and overlapping scans, and for any thresholds.                            *)
EXTENDS Discovery, TLAPS

\* The conjunction is inductive.
IInv ==
    /\ TypeOK
    /\ ListMatchesTracked
    /\ MissesCounted
    /\ EventsComplete
    /\ TimersFollow

-----------------------------------------------------------------------------
(* What a scan makes of one brick.                                          *)

\* An entry whose misses are between the thresholds of its presence.
Counted(entry) ==
    /\ entry \in Tracked
    /\ IF entry.presence = "available" THEN entry.missCount < UnavailableAfter
       ELSE /\ entry.missCount >= UnavailableAfter
            /\ entry.missCount < UnavailableAfter + RemovedAfter

\* An outcome is counted, moves along the diagram, and fires the event of its
\* move or, when the presence stays, none.
Faithful(entry, outcome) ==
    /\ outcome.entry = Absent \/ Counted(outcome.entry)
    /\ \/ /\ outcome.event = NoEvent
          /\ outcome.entry.presence = entry.presence
       \/ /\ outcome.event = Event(entry.presence, outcome.entry.presence)
          /\ <<entry.presence, outcome.entry.presence>> \in
                 {<<"removed", "available">>, <<"unavailable", "available">>,
                  <<"available", "unavailable">>, <<"unavailable", "removed">>}

LEMMA PresenceOfTracked ==
    ASSUME NEW entry \in Tracked \cup {Absent}
    PROVE  /\ entry.presence \in {"removed", "available", "unavailable"}
           /\ entry.presence = "removed" <=> entry = Absent
BY DEF Tracked, Absent

LEMMA AvailableIsCounted == Counted(Available) /\ Available.presence = "available"
BY DiscoveryAssumption DEF Counted, Available, Tracked

\* A brick that a provider reports.
LEMMA FoundIsFaithful ==
    ASSUME TypeOK, NEW b \in Bricks
    PROVE  Faithful(tracked[b], Found(b))
<1>1. /\ tracked[b].presence \in {"removed", "available", "unavailable"}
      /\ tracked[b].presence = "removed" <=> tracked[b] = Absent
  BY PresenceOfTracked DEF TypeOK
<1>2. CASE tracked[b] = Absent
  <2>1. Found(b).entry = Available /\ Found(b).event = Event("removed", "available")
    BY <1>2 DEF Found, FoundNew
  <2> QED BY <1>1, <1>2, <2>1, AvailableIsCounted DEF Faithful
<1>3. CASE tracked[b] # Absent
  <2>1. /\ Found(b).entry = Available
        /\ Found(b).event = IF tracked[b].presence # "available"
                            THEN Event(tracked[b].presence, "available") ELSE NoEvent
    BY <1>3 DEF Found, SeenAgain
  <2> QED BY <1>1, <1>3, <2>1, AvailableIsCounted DEF Faithful
<1> QED BY <1>2, <1>3

\* A counted miss keeps an entry counted or drops it.
LEMMA MissedIsFaithful ==
    ASSUME NEW entry, Counted(entry)
    PROVE  Faithful(entry, Missed(entry))
<1> DEFINE missCount == entry.missCount + 1
<1>1. entry.presence \in {"available", "unavailable"} /\ entry.missCount \in Nat
  BY DEF Counted, Tracked
<1>2. UnavailableAfter \in Nat \ {0} /\ RemovedAfter \in Nat \ {0}
  BY DiscoveryAssumption
<1>3. CASE entry.presence = "available" /\ missCount >= UnavailableAfter
  <2> DEFINE left == [presence |-> "unavailable", missCount |-> missCount]
  <2>1. /\ Missed(entry).entry = left
        /\ Missed(entry).event = Event(entry.presence, "unavailable")
    BY <1>3 DEF Missed
  <2>2. left \in Tracked
    BY <1>1 DEF Tracked
  <2>3. missCount < UnavailableAfter + RemovedAfter
    BY <1>1, <1>2, <1>3 DEF Counted
  <2>4. Counted(left)
    BY <1>3, <2>2, <2>3 DEF Counted
  <2> QED BY <1>3, <2>1, <2>4 DEF Faithful
<1>4. CASE entry.presence = "unavailable" /\ missCount >= UnavailableAfter + RemovedAfter
  <2>1. Missed(entry).entry = Absent /\ Missed(entry).event = Event(entry.presence, "removed")
    BY <1>4 DEF Missed
  <2>2. Absent.presence = "removed"
    BY DEF Absent
  <2> QED BY <1>4, <2>1, <2>2 DEF Faithful
<1>5. CASE /\ ~(entry.presence = "available" /\ missCount >= UnavailableAfter)
           /\ ~(entry.presence = "unavailable" /\ missCount >= UnavailableAfter + RemovedAfter)
  <2> DEFINE left == [presence |-> entry.presence, missCount |-> missCount]
  <2>1. Missed(entry).entry = left /\ Missed(entry).event = NoEvent
    BY <1>5 DEF Missed
  <2>2. left \in Tracked
    BY <1>1 DEF Tracked
  <2>3. CASE entry.presence = "available"
    <3>1. missCount < UnavailableAfter
      BY <1>1, <1>2, <1>5, <2>3
    <3> QED BY <2>1, <2>2, <2>3, <3>1 DEF Faithful, Counted
  <2>4. CASE entry.presence = "unavailable"
    <3>1. entry.missCount >= UnavailableAfter
      BY <2>4 DEF Counted
    <3>2. missCount >= UnavailableAfter /\ missCount < UnavailableAfter + RemovedAfter
      BY <1>1, <1>2, <1>5, <2>4, <3>1
    <3> QED BY <2>1, <2>2, <2>4, <3>2 DEF Faithful, Counted
  <2> QED BY <2>3, <2>4, <1>1
<1> QED BY <1>3, <1>4, <1>5

\* Whatever the scan finds, the brick's outcome is faithful to its entry.
LEMMA AfterScanIsFaithful ==
    ASSUME TypeOK, MissesCounted, NEW scan, NEW b \in Bricks
    PROVE  Faithful(tracked[b], AfterScan(scan, b))
<1>1. tracked[b] \in Tracked \cup {Absent}
  BY DEF TypeOK
<1>2. tracked[b] # Absent => Counted(tracked[b])
  BY <1>1 DEF MissesCounted, Counted
<1>3. CASE b \in scan.seen
  BY <1>3, FoundIsFaithful DEF AfterScan
<1>4. CASE b \notin scan.seen /\ tracked[b] # Absent /\ TransportOf[b] \in scan.scope
  BY <1>2, <1>4, MissedIsFaithful DEF AfterScan
<1>5. CASE b \notin scan.seen /\ ~(tracked[b] # Absent /\ TransportOf[b] \in scan.scope)
  <2>1. AfterScan(scan, b).entry = tracked[b] /\ AfterScan(scan, b).event = NoEvent
    BY <1>5 DEF AfterScan, NotScanned
  <2> QED BY <1>2, <2>1 DEF Faithful
<1> QED BY <1>3, <1>4, <1>5

\* The events of a move are events, and NoEvent is not one of them.
LEMMA EventsAreTold ==
    ASSUME NEW from \in {"removed", "available", "unavailable"}, NEW to
    PROVE  /\ Event(from, to) # NoEvent
           /\ Event(from, to).from = from /\ Event(from, to).to = to
BY DEF Event, NoEvent

-----------------------------------------------------------------------------
(* The end of a scan.                                                       *)

\* An entry of the list that is merged keeps its flags.
LEMMA MergedIsItem ==
    ASSUME NEW b \in Bricks, NEW existing \in Item \cup {Absent},
           NEW presence \in {"available", "unavailable"}
    PROVE  /\ Merged(b, existing, presence) \in Item
           /\ Merged(b, existing, presence).presence = presence
           /\ existing # Absent =>
                  Merged(b, existing, presence).remembered = existing.remembered
<1> DEFINE flag == IF existing = Absent THEN b \in Paired ELSE existing.remembered
<1>1. Merged(b, existing, presence) = [presence |-> presence, remembered |-> flag]
  BY DEF Merged
<1>2. flag \in BOOLEAN
  <2>1. CASE existing = Absent
    <3>1. (b \in Paired) \in BOOLEAN
      OBVIOUS
    <3> QED BY <2>1, <3>1, Zenon
  <2>2. CASE existing # Absent
    <3>1. existing.remembered \in BOOLEAN
      BY <2>2 DEF Item
    <3> QED BY <2>2, <3>1, Zenon
  <2> QED BY <2>1, <2>2
<1>3. [presence |-> presence, remembered |-> flag] \in Item
  BY <1>2, Zenon DEF Item
<1> QED BY <1>1, <1>3

\* The list and the listeners after a scan of an active scheduler.
LEMMA ScanIsTold ==
    ASSUME IInv, ~deactivated, NEW n \in Scans, ScanCompletes(n), NEW b \in Bricks
    PROVE  /\ items'[b] \in Item \cup {Absent}
           /\ IF tracked'[b] # Absent THEN items'[b].presence = tracked'[b].presence
              ELSE items'[b].presence \in {"removed", "remembered"}
           /\ announced'[b] = tracked'[b].presence
           /\ items[b] # Absent /\ items'[b] # Absent =>
                  items'[b].remembered = items[b].remembered
           /\ tracked'[b] = Absent =>
                  \/ items'[b] = items[b]
                  \/ items'[b] = Absent /\ tracked[b].presence = "unavailable"
<1> DEFINE now   == AfterScan(scans[n], b)
           told  == Handled(b, items[b], now.event)
<1>1. /\ tracked'[b] = now.entry
      /\ items'[b] = Rebuilt(b, told, now.entry)
      /\ announced'[b] = Heard(announced[b], now.event)
  BY DEF ScanCompletes
<1>2. Faithful(tracked[b], now)
  BY AfterScanIsFaithful DEF IInv
<1>3. tracked[b] \in Tracked \cup {Absent} /\ now.entry \in Tracked \cup {Absent}
  BY <1>2 DEF IInv, TypeOK, Faithful, Counted
<1>4. /\ tracked[b].presence \in {"removed", "available", "unavailable"}
      /\ tracked[b].presence = "removed" <=> tracked[b] = Absent
      /\ now.entry.presence \in {"removed", "available", "unavailable"}
      /\ now.entry.presence = "removed" <=> now.entry = Absent
  BY <1>3, PresenceOfTracked
<1>5. items[b] \in Item \cup {Absent} /\ announced[b] = tracked[b].presence
  BY DEF IInv, TypeOK, EventsComplete
<1>6. tracked[b] = Absent => items[b].presence \in {"removed", "remembered"}
  BY DEF IInv, ListMatchesTracked
<1>7. Absent.presence = "removed"
  BY DEF Absent
<1>8. /\ told \in Item \cup {Absent}
      /\ announced'[b] = now.entry.presence
      /\ items[b] # Absent /\ told # Absent => told.remembered = items[b].remembered
      /\ now.entry = Absent =>
             \/ told = items[b] /\ tracked[b] = Absent
             \/ told = Absent /\ tracked[b].presence = "unavailable"
      /\ now.entry # Absent => (told = Absent => items[b] = Absent)
  <2>1. CASE now.event = NoEvent
    <3>1. told = items[b] /\ announced'[b] = announced[b]
      BY <1>1, <2>1 DEF Handled, Heard
    <3>2. now.entry.presence = tracked[b].presence
      BY <1>2, <1>4, <2>1, EventsAreTold DEF Faithful
    <3> QED BY <1>4, <1>5, <3>1, <3>2
  <2>2. CASE now.event # NoEvent
    <3>1. /\ now.event = Event(tracked[b].presence, now.entry.presence)
          /\ <<tracked[b].presence, now.entry.presence>> \in
                 {<<"removed", "available">>, <<"unavailable", "available">>,
                  <<"available", "unavailable">>, <<"unavailable", "removed">>}
      BY <1>2, <2>2 DEF Faithful
    <3>2. now.event.from = tracked[b].presence /\ now.event.to = now.entry.presence
      BY <1>4, <3>1, EventsAreTold
    <3>3. announced'[b] = now.entry.presence
      BY <1>1, <1>5, <2>2, <3>2 DEF Heard
    <3>4. CASE now.entry = Absent
      <4>1. told = Absent
        BY <1>4, <2>2, <3>2, <3>4 DEF Handled
      <4>2. tracked[b].presence = "unavailable"
        BY <1>4, <3>1, <3>4
      <4> QED BY <3>3, <3>4, <4>1, <4>2
    <3>5. CASE now.entry # Absent
      <4>1. now.entry.presence \in {"available", "unavailable"}
        BY <1>4, <3>5
      <4>2. told = Merged(b, items[b], now.entry.presence)
        BY <2>2, <3>2, <4>1 DEF Handled
      <4>3. told \in Item
        BY <1>5, <4>1, <4>2, MergedIsItem
      <4>4. Absent \notin Item
        BY DEF Absent, Item
      <4>5. items[b] # Absent => told.remembered = items[b].remembered
        BY <1>5, <4>1, <4>2, MergedIsItem
      <4> QED BY <3>3, <3>5, <4>3, <4>4, <4>5
    <3> QED BY <3>4, <3>5
  <2> QED BY <2>1, <2>2
<1>9. CASE now.entry = Absent
  <2>1. items'[b] = told
    BY <1>1, <1>9 DEF Rebuilt
  <2> QED BY <1>1, <1>6, <1>7, <1>8, <1>9, <2>1
<1>10. CASE now.entry # Absent
  <2>1. items'[b] = Merged(b, told, now.entry.presence)
    BY <1>1, <1>10 DEF Rebuilt
  <2>2. now.entry.presence \in {"available", "unavailable"}
    BY <1>4, <1>10
  <2>3. /\ items'[b] \in Item
        /\ items'[b].presence = now.entry.presence
        /\ told # Absent => items'[b].remembered = told.remembered
    BY <1>8, <2>1, <2>2, MergedIsItem
  <2> QED BY <1>1, <1>8, <1>10, <2>3
<1> QED BY <1>9, <1>10

LEMMA ScanCompletesIInv ==
    ASSUME IInv, NEW n \in Scans, ScanCompletes(n)
    PROVE  IInv'
<1>1. /\ tracked' = [b \in Bricks |-> AfterScan(scans[n], b).entry]
      /\ scans' = [scans EXCEPT ![n] = NoScan]
      /\ UNCHANGED <<inRange, faults, providers, retired, polling, timers, deactivated>>
  BY DEF ScanCompletes, worldVars, registryVars
<1>2. \A b \in Bricks : tracked'[b] = Absent \/ Counted(tracked'[b])
  BY <1>1, AfterScanIsFaithful DEF IInv, Faithful
<1>3. tracked' \in [Bricks -> Tracked \cup {Absent}]
  BY <1>1, <1>2 DEF Counted
<1>4. NoScan \in Scan
  BY DEF NoScan, Scan
<1>5. scans' \in [Scans -> Scan]
  BY <1>1, <1>4 DEF IInv, TypeOK
<1>6. MissesCounted'
  BY <1>1, <1>2 DEF MissesCounted, Counted
<1>7. TimersFollow'
  BY <1>1 DEF IInv, TimersFollow
<1>8. CASE deactivated
  <2>1. items' = items /\ announced' = announced
    BY <1>8 DEF ScanCompletes, aggregatorVars
  <2>2. TypeOK'
    BY <1>1, <1>3, <1>5, <2>1 DEF IInv, TypeOK
  <2> QED BY <1>1, <1>6, <1>7, <1>8, <2>2
          DEF IInv, ListMatchesTracked, EventsComplete
<1>9. CASE ~deactivated
  <2>1. \A b \in Bricks :
           /\ items'[b] \in Item \cup {Absent}
           /\ IF tracked'[b] # Absent THEN items'[b].presence = tracked'[b].presence
              ELSE items'[b].presence \in {"removed", "remembered"}
           /\ announced'[b] = tracked'[b].presence
    BY <1>9, ScanIsTold
  <2>2. DOMAIN items' = Bricks /\ DOMAIN announced' = Bricks
        /\ items' = [b \in Bricks |-> items'[b]]
        /\ announced' = [b \in Bricks |-> announced'[b]]
    BY <1>9 DEF ScanCompletes
  <2>3. items' \in [Bricks -> Item \cup {Absent}]
    BY <2>1, <2>2
  <2>4. \A b \in Bricks : announced'[b] \in {"removed", "available", "unavailable"}
    BY <1>3, <2>1, PresenceOfTracked
  <2>5. announced' \in [Bricks -> {"removed", "available", "unavailable", "confused"}]
    BY <2>2, <2>4
  <2>6. TypeOK'
    BY <1>1, <1>3, <1>5, <2>3, <2>5 DEF IInv, TypeOK
  <2>7. ListMatchesTracked' /\ EventsComplete'
    BY <2>1 DEF ListMatchesTracked, EventsComplete
  <2> QED BY <1>6, <1>7, <2>6, <2>7 DEF IInv
<1> QED BY <1>8, <1>9

-----------------------------------------------------------------------------
(* The other actions.                                                       *)

LEMMA InitIInv == Init => IInv
<1> SUFFICES ASSUME Init PROVE IInv
  OBVIOUS
<1>1. NoScan \in Scan
  BY DEF NoScan, Scan
<1>2. 0 \in 0..MaxFaults
  BY DiscoveryAssumption
<1>3. TypeOK
  BY <1>1, <1>2 DEF Init, TypeOK
<1>4. Absent.presence = "removed"
  BY DEF Absent
<1> QED BY <1>3, <1>4
        DEF Init, IInv, ListMatchesTracked, MissesCounted, EventsComplete, TimersFollow

\* The bricks, and the scheduler's timers, move without the list.
LEMMA WorldIInv ==
    ASSUME IInv, NEW b \in Bricks, Appears(b) \/ Vanishes(b)
    PROVE  IInv'
<1>1. TypeOK'
  BY DEF IInv, TypeOK, Appears, Vanishes, registryVars, schedulerVars, aggregatorVars
<1> QED BY <1>1 DEF IInv, Appears, Vanishes, registryVars, schedulerVars, aggregatorVars,
                    ListMatchesTracked, MissesCounted, EventsComplete, TimersFollow

LEMMA RegistryIInv ==
    ASSUME IInv, \/ \E p \in Providers : Register(p)
                 \/ \E t \in Transports : Unregister(t)
                 \/ Start \/ Stop
    PROVE  IInv'
<1>1. UNCHANGED <<inRange, faults, tracked, scans, items, announced, deactivated>>
  BY DEF Register, Unregister, Start, Stop, worldVars, aggregatorVars
<1>2. ListMatchesTracked' /\ MissesCounted' /\ EventsComplete'
  BY <1>1 DEF IInv, ListMatchesTracked, MissesCounted, EventsComplete
<1>3. /\ providers' \in [Transports -> Providers \cup {None}]
      /\ retired' \subseteq Providers
      /\ polling' \in BOOLEAN
      /\ timers' \in [Transports -> Providers \cup {None}]
      /\ TimersFollow'
  <2>1. CASE \E p \in Providers : Register(p)
    <3>1. PICK p \in Providers : Register(p)
      BY <2>1
    <3>2. Serves[p] \in Transports /\ p # None
      BY DiscoveryAssumption
    <3> QED BY <3>1, <3>2
            DEF Register, TimerStarted, IInv, TypeOK, TimersFollow
  <2>2. CASE \E t \in Transports : Unregister(t)
    BY <2>2 DEF Unregister, TimerStopped, IInv, TypeOK, TimersFollow, worldVars
  <2>3. CASE Start
    BY <2>3 DEF Start, IInv, TypeOK, TimersFollow, registryVars
  <2>4. CASE Stop
    BY <2>4 DEF Stop, IInv, TypeOK, TimersFollow, registryVars
  <2> QED BY <2>1, <2>2, <2>3, <2>4
<1>4. TypeOK'
  BY <1>1, <1>3 DEF IInv, TypeOK
<1> QED BY <1>2, <1>3, <1>4 DEF IInv

\* A scan starts, or a provider answers it: only scans and faults change.
LEMMA ScanIInv ==
    ASSUME IInv, NEW n \in Scans,
           \/ ScanOnce(n)
           \/ \E t \in Transports : TimerFires(t, n)
           \/ \E p \in Providers :
                  DiscoverAnswers(n, p) \/ DiscoverFails(n, p) \/ DiscoverRejects(n, p)
    PROVE  IInv'
<1>1. UNCHANGED <<inRange, providers, retired, polling, timers, tracked, items, announced,
                  deactivated>>
  BY DEF ScanOnce, TimerFires, DiscoverAnswers, DiscoverFails, DiscoverRejects, Answers,
         worldVars, registryVars, aggregatorVars
<1>2. /\ ListMatchesTracked' /\ MissesCounted'
      /\ EventsComplete' /\ TimersFollow'
  BY <1>1 DEF IInv, ListMatchesTracked, MissesCounted, EventsComplete, TimersFollow
<1>3. faults' \in 0..MaxFaults
  <2>1. faults' = faults \/ (faults < MaxFaults /\ faults' = faults + 1)
    BY DEF ScanOnce, TimerFires, DiscoverAnswers, DiscoverFails, DiscoverRejects, Fault,
           worldVars
  <2>2. faults \in 0..MaxFaults /\ MaxFaults \in Nat
    BY DiscoveryAssumption DEF IInv, TypeOK
  <2> QED BY <2>1, <2>2
<1>4. scans' \in [Scans -> Scan]
  <2>1. scans \in [Scans -> Scan]
    BY DEF IInv, TypeOK
  <2>2. CASE ScanOnce(n)
    <3>1. Registered \subseteq Providers
      BY DEF Registered, IInv, TypeOK
    <3>2. [scope |-> Transports, once |-> TRUE, waiting |-> Registered, seen |-> {}] \in Scan
      BY <3>1 DEF Scan
    <3> QED BY <2>1, <2>2, <3>2 DEF ScanOnce
  <2>3. ASSUME NEW t \in Transports, TimerFires(t, n)
        PROVE  scans' \in [Scans -> Scan]
    <3>1. timers[t] \in Providers
      BY <2>3 DEF TimerFires, IInv, TypeOK
    <3>2. [scope |-> {t}, once |-> FALSE, waiting |-> {timers[t]}, seen |-> {}] \in Scan
      BY <3>1 DEF Scan
    <3> QED BY <2>1, <2>3, <3>2 DEF TimerFires
  <2>4. ASSUME NEW p \in Providers, NEW found \in SUBSET Bricks, Answers(n, p, found)
        PROVE  scans' \in [Scans -> Scan]
    <3> DEFINE after == Answered(scans[n], p, found)
    <3>1. scans[n] \in Scan
      BY <2>1
    <3>2. after \in Scan
      <4>1. scans[n].once \in BOOLEAN
        BY <3>1 DEF Scan
      <4>2. /\ scans[n].scope \in SUBSET Transports
            /\ scans[n].waiting \ {p} \in SUBSET Providers
            /\ scans[n].seen \cup found \in SUBSET Bricks
        BY <3>1 DEF Scan
      <4> QED BY <4>1, <4>2, Zenon DEF Scan, Answered
    <3>3. scans' = [scans EXCEPT ![n] = after]
      BY <2>4 DEF Answers
    <3> QED BY <2>1, <3>2, <3>3
  <2>5. ASSUME NEW p \in Providers, DiscoverRejects(n, p)
        PROVE  scans' \in [Scans -> Scan]
    <3>1. NoScan \in Scan
      BY DEF NoScan, Scan
    <3> QED BY <2>1, <2>5, <3>1 DEF DiscoverRejects
  <2>6. \A p \in Providers : Visible(p) \in SUBSET Bricks /\ {} \in SUBSET Bricks
    BY DEF Visible, IInv, TypeOK
  <2> QED BY <2>2, <2>3, <2>4, <2>5, <2>6 DEF DiscoverAnswers, DiscoverFails
<1>5. TypeOK'
  BY <1>1, <1>3, <1>4 DEF IInv, TypeOK
<1> QED BY <1>2, <1>5 DEF IInv

\* The aggregator's own operations never touch a tracked brick's presence.
LEMMA AggregatorIInv ==
    ASSUME IInv, \/ \E b \in Bricks, remembered \in BOOLEAN : UpdateBrick(b, remembered)
                 \/ \E stored \in SUBSET Bricks : MergeRemembered(stored)
    PROVE  IInv'
<1>1. UNCHANGED <<inRange, faults, providers, retired, polling, timers, tracked, scans,
                  announced, deactivated>>
  BY DEF UpdateBrick, MergeRemembered, worldVars, registryVars, schedulerVars
<1>2. MissesCounted' /\ EventsComplete' /\ TimersFollow'
  BY <1>1 DEF IInv, MissesCounted, EventsComplete, TimersFollow
<1>3. items \in [Bricks -> Item \cup {Absent}]
  BY DEF IInv, TypeOK
<1>4. items' \in [Bricks -> Item \cup {Absent}] /\ ListMatchesTracked'
  <2>1. ASSUME NEW b \in Bricks, NEW remembered \in BOOLEAN, UpdateBrick(b, remembered)
        PROVE  items' \in [Bricks -> Item \cup {Absent}] /\ ListMatchesTracked'
    <3> DEFINE patched == [presence |-> items[b].presence, remembered |-> remembered]
    <3>1. items[b] \in Item
      BY <1>3, <2>1 DEF UpdateBrick
    <3>2. items[b].presence \in {"remembered", "available", "unavailable"}
      BY <3>1 DEF Item
    <3>3. patched \in Item
      BY <3>2, Zenon DEF Item
    <3>4. items' = [items EXCEPT ![b] = patched]
      BY <2>1 DEF UpdateBrick
    <3>5. \A a \in Bricks : items'[a].presence = items[a].presence
      BY <1>3, <3>4
    <3> QED BY <1>1, <1>3, <3>3, <3>4, <3>5 DEF IInv, ListMatchesTracked
  <2>2. ASSUME NEW stored \in SUBSET Bricks, MergeRemembered(stored)
        PROVE  items' \in [Bricks -> Item \cup {Absent}] /\ ListMatchesTracked'
    <3> DEFINE added == [presence |-> "remembered", remembered |-> TRUE]
    <3>1. added \in Item
      BY DEF Item
    <3>2. items' = [b \in Bricks |-> IF b \in stored /\ items[b] = Absent
                                    THEN added ELSE items[b]]
      BY <2>2 DEF MergeRemembered
    <3>3. ASSUME NEW b \in Bricks, ~deactivated, items[b] = Absent
          PROVE  tracked[b] = Absent
      <4>1. items[b].presence = "removed"
        BY <3>3 DEF Absent
      <4>2. tracked[b] \in Tracked \cup {Absent}
        BY DEF IInv, TypeOK
      <4>3. tracked[b] # Absent => tracked[b].presence = "removed"
        BY <3>3, <4>1 DEF IInv, ListMatchesTracked
      <4> QED BY <4>2, <4>3, PresenceOfTracked
    <3>4. ListMatchesTracked'
      <4> SUFFICES ASSUME ~deactivated, NEW b \in Bricks
                   PROVE  IF tracked[b] # Absent
                          THEN items'[b].presence = tracked[b].presence
                          ELSE items'[b].presence \in {"removed", "remembered"}
        BY <1>1 DEF ListMatchesTracked
      <4>1. CASE b \in stored /\ items[b] = Absent
        BY <3>2, <3>3, <4>1
      <4>2. CASE ~(b \in stored /\ items[b] = Absent)
        BY <3>2, <4>2 DEF IInv, ListMatchesTracked
      <4> QED BY <4>1, <4>2
    <3> QED BY <1>3, <3>1, <3>2, <3>4
  <2> QED BY <2>1, <2>2
<1>5. TypeOK'
  BY <1>1, <1>4 DEF IInv, TypeOK
<1> QED BY <1>2, <1>4, <1>5 DEF IInv

LEMMA DeactivateIInv ==
    ASSUME IInv, Deactivate
    PROVE  IInv'
<1>1. Registered \subseteq Providers
  BY DEF Registered, IInv, TypeOK
<1>2. TypeOK'
  BY <1>1 DEF Deactivate, worldVars, IInv, TypeOK
<1> QED BY <1>2 DEF Deactivate, IInv, ListMatchesTracked, MissesCounted, EventsComplete,
                    TimersFollow

LEMMA NextIInv == IInv /\ [Next]_vars => IInv'
<1> SUFFICES ASSUME IInv, [Next]_vars PROVE IInv'
  OBVIOUS
<1>1. CASE UNCHANGED vars
  BY <1>1 DEF vars, worldVars, registryVars, schedulerVars, aggregatorVars, IInv, TypeOK,
     ListMatchesTracked, MissesCounted, EventsComplete, TimersFollow
<1>2. CASE Next
  BY <1>2, WorldIInv, RegistryIInv, ScanIInv, AggregatorIInv, DeactivateIInv,
     ScanCompletesIInv DEF Next, Completes
<1> QED BY <1>1, <1>2

-----------------------------------------------------------------------------
(* Theorems                                                                 *)

\* The inductive invariant holds of every behaviour of the scheduler and the
\* aggregator.
THEOREM Invariance == Spec => []IInv
BY InitIInv, NextIInv, PTL DEF Spec

\* The presence of a listed brick moves along the documented diagram only.
THEOREM PresenceMoves == Spec => PresenceSteps
<1>1. IInv /\ [Next]_vars =>
        [\A b \in Bricks :
          \/ deactivated'
          \/ items'[b].presence = items[b].presence
          \/ <<items[b].presence, items'[b].presence>> \in
                 {<<"removed", "remembered">>, <<"removed", "available">>,
                  <<"remembered", "available">>, <<"available", "unavailable">>,
                  <<"unavailable", "available">>, <<"unavailable", "removed">>}]_vars
  <2> SUFFICES ASSUME IInv, Next, ~deactivated', NEW b \in Bricks,
                      items'[b].presence # items[b].presence
               PROVE  <<items[b].presence, items'[b].presence>> \in
                 {<<"removed", "remembered">>, <<"removed", "available">>,
                  <<"remembered", "available">>, <<"available", "unavailable">>,
                  <<"unavailable", "available">>, <<"unavailable", "removed">>}
    OBVIOUS
  <2>1. ASSUME NEW n \in Scans, ScanCompletes(n)
        PROVE  <<items[b].presence, items'[b].presence>> \in
                 {<<"removed", "remembered">>, <<"removed", "available">>,
                  <<"remembered", "available">>, <<"available", "unavailable">>,
                  <<"unavailable", "available">>, <<"unavailable", "removed">>}
    <3>1. ~deactivated
      BY <2>1 DEF ScanCompletes
    <3>2. IF tracked'[b] # Absent THEN items'[b].presence = tracked'[b].presence
          ELSE \/ items'[b] = items[b]
               \/ items'[b] = Absent /\ tracked[b].presence = "unavailable"
      BY <2>1, <3>1, ScanIsTold
    <3>3. IF tracked[b] # Absent THEN items[b].presence = tracked[b].presence
          ELSE items[b].presence \in {"removed", "remembered"}
      BY <3>1 DEF IInv, ListMatchesTracked
    <3>4. tracked'[b] = AfterScan(scans[n], b).entry
      BY <2>1 DEF ScanCompletes
    <3>5. Faithful(tracked[b], AfterScan(scans[n], b))
      BY AfterScanIsFaithful DEF IInv
    <3>6. /\ tracked[b] \in Tracked \cup {Absent}
          /\ tracked'[b] \in Tracked \cup {Absent}
      BY <3>4, <3>5 DEF IInv, TypeOK, Faithful, Counted
    <3>7. \/ tracked'[b].presence = tracked[b].presence
          \/ <<tracked[b].presence, tracked'[b].presence>> \in
                 {<<"removed", "available">>, <<"unavailable", "available">>,
                  <<"available", "unavailable">>, <<"unavailable", "removed">>}
      BY <3>4, <3>5 DEF Faithful
    <3>8. /\ tracked[b].presence \in {"removed", "available", "unavailable"}
          /\ tracked[b].presence = "removed" <=> tracked[b] = Absent
          /\ tracked'[b].presence \in {"removed", "available", "unavailable"}
          /\ tracked'[b].presence = "removed" <=> tracked'[b] = Absent
      BY <3>6, PresenceOfTracked
    <3>9. CASE tracked'[b] # Absent
      BY <3>2, <3>3, <3>7, <3>8, <3>9
    <3>10. CASE tracked'[b] = Absent
      <4>1. items'[b] = Absent /\ tracked[b].presence = "unavailable"
        BY <3>2, <3>10
      <4>2. items'[b].presence = "removed" /\ items[b].presence = "unavailable"
        BY <3>3, <3>8, <4>1 DEF Absent
      <4> QED BY <4>2
    <3> QED BY <3>9, <3>10
  <2>2. ASSUME NEW stored \in SUBSET Bricks, MergeRemembered(stored)
        PROVE  items[b].presence = "removed" /\ items'[b].presence = "remembered"
    <3>1. items' = [a \in Bricks |-> IF a \in stored /\ items[a] = Absent
                         THEN [presence |-> "remembered", remembered |-> TRUE]
                         ELSE items[a]]
      BY <2>2 DEF MergeRemembered
    <3>2. b \in stored /\ items[b] = Absent
      BY <3>1
    <3> QED BY <3>1, <3>2 DEF Absent
  <2>3. ASSUME NEW a \in Bricks, NEW remembered \in BOOLEAN, UpdateBrick(a, remembered)
        PROVE  items'[b].presence = items[b].presence
    BY <2>3 DEF UpdateBrick, IInv, TypeOK
  <2>4. CASE Deactivate
    BY <2>4 DEF Deactivate
  <2>5. CASE items' = items
    BY <2>5
  <2> QED BY <2>1, <2>2, <2>3, <2>4, <2>5
          DEF Next, Completes, Appears, Vanishes, Register, Unregister, Start, Stop,
              TimerFires, ScanOnce, DiscoverAnswers, DiscoverFails, DiscoverRejects,
              Answers, aggregatorVars
<1> QED BY <1>1, Invariance, PTL DEF Spec, PresenceSteps

\* No scan changes what the user marked.
THEOREM MarksSurvive == Spec => MarksSurviveScans
<1>1. IInv /\ [Next]_vars =>
        [\A b \in Bricks :
          tracked' # tracked /\ items[b] # Absent /\ items'[b] # Absent =>
              items'[b].remembered = items[b].remembered]_vars
  <2> SUFFICES ASSUME IInv, Next, tracked' # tracked, NEW b \in Bricks,
                      items[b] # Absent, items'[b] # Absent
               PROVE  items'[b].remembered = items[b].remembered
    OBVIOUS
  <2>1. ASSUME NEW n \in Scans, ScanCompletes(n)
        PROVE  items'[b].remembered = items[b].remembered
    <3>1. CASE deactivated
      BY <2>1, <3>1 DEF ScanCompletes, aggregatorVars
    <3>2. CASE ~deactivated
      BY <2>1, <3>2, ScanIsTold
    <3> QED BY <3>1, <3>2
  <2>2. ~Deactivate
    BY DEF Deactivate
  <2> QED BY <2>1, <2>2
          DEF Next, Completes, Appears, Vanishes, Register, Unregister, Start, Stop,
              TimerFires, ScanOnce, DiscoverAnswers, DiscoverFails, DiscoverRejects,
              Answers, UpdateBrick, MergeRemembered, schedulerVars
<1> QED BY <1>1, Invariance, PTL DEF Spec, MarksSurviveScans

\* The discovery list and the scheduler's tracked bricks never disagree.
THEOREM ListIsExact == Spec => []ListMatchesTracked
<1>1. IInv => ListMatchesTracked
  BY DEF IInv
<1> QED BY <1>1, Invariance, PTL

\* Miss counts stay between the thresholds however scans overlap.
THEOREM MissesAreCounted == Spec => []MissesCounted
<1>1. IInv => MissesCounted
  BY DEF IInv
<1> QED BY <1>1, Invariance, PTL

\* The presence events of every brick form an unbroken chain, each starting
\* where the last ended, that ends with the presence the scheduler tracks.
THEOREM EventsAreComplete == Spec => []EventsComplete
<1>1. IInv => EventsComplete
  BY DEF IInv
<1> QED BY <1>1, Invariance, PTL

\* No timer outlives the registration of a provider or the polling.
THEOREM TimersAreStopped == Spec => []TimersFollow
<1>1. IInv => TimersFollow
  BY DEF IInv
<1> QED BY <1>1, Invariance, PTL
=============================================================================
