-------------------------- MODULE UsbTransportProofs --------------------------
(***************************************************************************)
(* What UsbTransport guarantees for any number of bricks, adapters and     *)
(* overlapping scans, any message counters and any reports on the way.     *)
(*                                                                         *)
(* HandlesOwned is not stated about one adapter at a time: a scan that     *)
(* goes on closes one adapter and may open another at once.  OwnedAt says  *)
(* it of any sessions, scans, adapters and probes, so that the state       *)
(* between the two has it as well.                                         *)
(***************************************************************************)
EXTENDS UsbTransport, FiniteSetTheorems, SequenceTheorems, WellFoundedInduction,
        TLAPS

-----------------------------------------------------------------------------
(* Types.                                                                   *)

LEMMA Values ==
    /\ Closed \in Adapter /\ Closed.device = None /\ Closed.pendingReply = None
    /\ Idle \in Scan
    /\ 0 \in Counter /\ 1 \in Counter
    /\ \A b \in Bricks, p \in Counter \cup {None} :
           /\ Opened(b, p) \in Adapter
           /\ Opened(b, p).device = b /\ Opened(b, p).isOpen
<1>1. 0 \in Counter /\ 1 \in Counter
  BY UsbAssumption DEF Counter
<1>2. <<>> \in Seq(Packet) /\ <<>> \in Seq(Bricks)
  OBVIOUS
<1> QED
  BY <1>1, <1>2 DEF Closed, Opened, Fields, Adapter, Idle, Scan

\* The first report that matches is there when one matches.
LEMMA LeastNatural ==
    ASSUME NEW S \in SUBSET Nat, S # {}
    PROVE  \E i \in S : \A j \in S : i <= j
<1> DEFINE R == OpToRel(<, Nat)
<1>1. IsWellFoundedOn(R, Nat)
  BY NatLessThanWellFounded
<1>2. \A i, j \in Nat : i < j => <<i, j>> \in R
  BY DEF OpToRel
<1> HIDE DEF R
<1>3. PICK i \in S : \A j \in S : <<j, i>> \notin R
  BY <1>1, WFMin
<1>4. \A j \in S : ~(j < i)
  BY <1>2, <1>3
<1>5. \A j \in S : i <= j
  BY <1>4
<1> QED BY <1>5

\* drainPendingReply() keeps the device, and settles the request or leaves it.
LEMMA DrainedKeeps ==
    ASSUME NEW d \in Adapter, NEW pending \in Counter \cup {None}, NEW buffer \in Seq(Packet)
    PROVE  /\ Drained(d, pending, buffer) \in Adapter
           /\ Drained(d, pending, buffer).device = d.device
           /\ Drained(d, pending, buffer).isOpen = d.isOpen
           /\ Drained(d, pending, buffer).pendingReply \in {pending, None}
<1> DEFINE matches == {i \in 1..Len(buffer) : CounterRead(d, buffer, i) = pending}
           first == CHOOSE i \in matches : \A j \in matches : i <= j
           rest == SubSeq(buffer, first + 1, Len(buffer))
           padded == d.padded \/ buffer # <<>>
<1>1. padded \in BOOLEAN /\ <<>> \in Seq(Packet)
  BY DEF Adapter
<1>2. matches # {} => rest \in Seq(Packet)
  <2> SUFFICES ASSUME matches # {} PROVE rest \in Seq(Packet)
    OBVIOUS
  <2>1. matches \in SUBSET Nat
    OBVIOUS
  <2>2. \E i \in matches : \A j \in matches : i <= j
    <3> HIDE DEF matches
    <3> QED BY <2>1, LeastNatural
  <2>3. first \in matches
    BY <2>2
  <2>4. first \in 1..Len(buffer) /\ Len(buffer) \in Nat
    BY <2>3
  <2>5. \A i \in (first + 1)..Len(buffer) : buffer[i] \in Packet
    BY <2>4
  <2> QED BY <2>4, <2>5, SubSeqProperties
<1> HIDE DEF rest, padded
<1>3. Drained(d, pending, buffer) =
        IF pending = None THEN Fields(d.device, d.isOpen, None, buffer, d.padded)
        ELSE IF matches = {} THEN Fields(d.device, d.isOpen, pending, <<>>, padded)
        ELSE Fields(d.device, d.isOpen, None, rest, TRUE)
  BY DEF Drained, rest, padded
<1> HIDE DEF matches
<1> QED
  BY <1>1, <1>2, <1>3 DEF Fields, Adapter

LEMMA GoesOnTyped ==
    ASSUME TypeOK, NEW s \in Scans, NEW devices \in Seq(Bricks),
           NEW d \in [Adapters -> Adapter], NEW busy \in SUBSET Bricks,
           GoesOn(s, devices, d, busy)
    PROVE  /\ scan' \in [Scans -> Scan] /\ adapter' \in [Adapters -> Adapter]
           /\ probing' \subseteq Bricks /\ owed' \in [Bricks -> Seq(Counter)]
<1>1. CASE /\ probing' = busy /\ scan' = [scan EXCEPT ![s] = Idle]
           /\ adapter' = d /\ owed' = owed
  BY <1>1, Values DEF TypeOK
<1>2. ASSUME NEW i \in 1..Len(devices), NEW a, a = NewAdapter(d),
             \E free \in Adapters : d[free] = Closed,
             probing' = busy \cup {devices[i]},
             scan' = [scan EXCEPT ![s] = [at |-> devices[i], by |-> a,
                                          left |-> SubSeq(devices, i + 1, Len(devices))]],
             adapter' = [d EXCEPT ![a] = Opened(devices[i], 1)],
             owed' = [owed EXCEPT ![devices[i]] = Append(@, 1)]
      PROVE  /\ scan' \in [Scans -> Scan] /\ adapter' \in [Adapters -> Adapter]
             /\ probing' \subseteq Bricks /\ owed' \in [Bricks -> Seq(Counter)]
  <2>1. a \in Adapters /\ devices[i] \in Bricks
    BY <1>2 DEF NewAdapter
  <2>2. SubSeq(devices, i + 1, Len(devices)) \in Seq(Bricks)
    <3>1. \A j \in (i + 1)..Len(devices) : devices[j] \in Bricks
      BY <1>2
    <3> QED BY <1>2, <3>1, SubSeqProperties
  <2>3. Append(owed[devices[i]], 1) \in Seq(Counter)
    BY <2>1, Values, AppendProperties DEF TypeOK
  <2> QED BY <1>2, <2>1, <2>2, <2>3, Values DEF TypeOK, Scan
<1> QED BY <1>1, <1>2 DEF GoesOn

\* A device list is a sequence of bricks.
LEMMA Listed ==
    ASSUME plugged \subseteq Bricks,
           NEW devices \in Bijection(1..Cardinality(plugged), plugged)
    PROVE  devices \in Seq(Bricks)
<1>1. Cardinality(plugged) \in Nat
  BY UsbAssumption, FS_Subset, FS_CardinalityType
<1>2. devices \in [1..Cardinality(plugged) -> plugged]
  BY DEF Bijection, Injection
<1>3. devices \in [1..Cardinality(plugged) -> Bricks]
  BY <1>2
<1> QED BY <1>1, <1>3

LEMMA ProbeEndsTyped ==
    ASSUME TypeOK, NEW s \in Scans, ProbeEnds(s)
    PROVE  TypeOK'
<1> DEFINE d == [adapter EXCEPT ![scan[s].by] = Closed]
<1>1. d \in [Adapters -> Adapter] /\ scan[s].left \in Seq(Bricks)
  BY Values DEF TypeOK, Scan
<1>2. probing \ {scan[s].at} \in SUBSET Bricks
  BY DEF TypeOK
<1>3. GoesOn(s, scan[s].left, d, probing \ {scan[s].at})
  BY DEF ProbeEnds
<1>4. /\ scan' \in [Scans -> Scan] /\ adapter' \in [Adapters -> Adapter]
      /\ probing' \subseteq Bricks /\ owed' \in [Bricks -> Seq(Counter)]
  <2> HIDE DEF d
  <2> QED BY <1>1, <1>2, <1>3, GoesOnTyped
<1>5. wire' \in [Adapters -> Seq(Packet)]
  BY DEF ProbeEnds, Carry, TypeOK
<1> QED BY <1>4, <1>5 DEF ProbeEnds, TypeOK

LEMMA NextType == TypeOK /\ [Next]_vars => TypeOK'
<1> SUFFICES ASSUME TypeOK, [Next]_vars PROVE TypeOK'
  OBVIOUS
<1>c. \A b \in Bricks : NextCounter(b) \in Counter
  BY UsbAssumption DEF NextCounter, Counter, TypeOK
<1>1. ASSUME NEW s \in Scans, StartScan(s) PROVE TypeOK'
  <2>1. PICK devices \in Bijection(1..Cardinality(plugged), plugged) :
            GoesOn(s, devices, adapter, probing)
    BY <1>1 DEF StartScan
  <2>2. devices \in Seq(Bricks)
    BY Listed DEF TypeOK
  <2>3. /\ scan' \in [Scans -> Scan] /\ adapter' \in [Adapters -> Adapter]
        /\ probing' \subseteq Bricks /\ owed' \in [Bricks -> Seq(Counter)]
    BY <2>1, <2>2, GoesOnTyped DEF TypeOK
  <2> QED BY <1>1, <2>3 DEF StartScan, TypeOK
<1>2. ASSUME NEW s \in Scans, ProbeTimesOut(s) PROVE TypeOK'
  BY <1>2, ProbeEndsTyped DEF ProbeTimesOut
<1>3. ASSUME NEW b \in Bricks, Connect(b) PROVE TypeOK'
  <2>1. NewAdapter(adapter) \in Adapters
    BY <1>3 DEF Connect, NewAdapter
  <2> QED BY <1>3, <2>1, Values DEF Connect, outside, TypeOK
<1>4. ASSUME NEW b \in Bricks, Disconnect(b) PROVE TypeOK'
  BY <1>4, Values DEF Disconnect, Carry, TypeOK
<1>5. ASSUME NEW b \in Bricks, Send(b) PROVE TypeOK'
  <2>1. sessions[b] \in Adapters /\ adapter[sessions[b]] \in Adapter
    BY <1>5 DEF Send, TypeOK
  <2>2. adapter[sessions[b]].receiveBuffer \in Seq(Packet)
    BY <2>1 DEF Adapter
  <2>3. Drained(adapter[sessions[b]], NextCounter(b), adapter[sessions[b]].receiveBuffer) \in Adapter
    BY <1>c, <2>1, <2>2, DrainedKeeps
  <2>4. Append(owed[b], NextCounter(b)) \in Seq(Counter)
    BY <1>c, AppendProperties DEF TypeOK
  <2> QED BY <1>5, <1>c, <2>3, <2>4 DEF Send, TypeOK
<1>6. ASSUME NEW b \in Bricks, SendRejected(b) PROVE TypeOK'
  BY <1>6, <1>c DEF SendRejected, outside, TypeOK
<1>7. CASE Dispose
  BY <1>7, Values DEF Dispose, Carry, TypeOK
<1>8. ASSUME NEW a \in Adapters, DataArrives(a) PROVE TypeOK'
  <2>1. ASSUME NEW s \in Scans, ProbeEnds(s) PROVE TypeOK'
    BY <2>1, ProbeEndsTyped
  <2>2. /\ Head(wire[a]) \in Packet /\ Tail(wire[a]) \in Seq(Packet)
        /\ Append(adapter[a].receiveBuffer, Head(wire[a])) \in Seq(Packet)
        /\ adapter[a].pendingReply \in Counter \cup {None}
    BY <1>8, HeadTailProperties, AppendProperties DEF DataArrives, TypeOK, Adapter
  <2>3. Drained(adapter[a], adapter[a].pendingReply,
                Append(adapter[a].receiveBuffer, Head(wire[a]))) \in Adapter
    BY <2>2, DrainedKeeps DEF TypeOK
  <2> QED BY <1>8, <2>1, <2>2, <2>3 DEF DataArrives, TypeOK
<1>9. ASSUME NEW a \in Adapters, AdapterFails(a) PROVE TypeOK'
  <2>1. ASSUME NEW s \in Scans, ProbeEnds(s) PROVE TypeOK'
    BY <2>1, ProbeEndsTyped
  <2>2. Failed(adapter[a]) \in Adapter
    BY DEF Failed, Fields, Adapter, TypeOK
  <2> QED BY <1>9, <2>1, <2>2 DEF AdapterFails, outside, TypeOK
<1>10. ASSUME NEW b \in Bricks, BrickAnswers(b) PROVE TypeOK'
  <2>1. Head(owed[b]) \in Counter /\ Tail(owed[b]) \in Seq(Counter)
    BY <1>10, HeadTailProperties DEF BrickAnswers, TypeOK
  <2>2. \A short \in Lengths : [counter |-> Head(owed[b]), short |-> short] \in Packet
    BY <2>1, UsbAssumption DEF Packet
  <2>3. \A short \in Lengths, a \in Adapters :
            Append(wire[a], [counter |-> Head(owed[b]), short |-> short]) \in Seq(Packet)
    BY <2>2, AppendProperties DEF TypeOK
  <2>4. wire' \in [Adapters -> Seq(Packet)]
    BY <1>10, <2>3 DEF BrickAnswers, TypeOK
  <2> QED BY <1>10, <2>1, <2>4 DEF BrickAnswers, TypeOK
<1>11. ASSUME NEW b \in Bricks, Unplug(b) \/ Plug(b) PROVE TypeOK'
  <2>1. <<>> \in Seq(Counter)
    OBVIOUS
  <2>2. CASE Unplug(b)
    BY <2>1, <2>2 DEF Unplug, TypeOK
  <2>3. CASE Plug(b)
    BY <2>3 DEF Plug, TypeOK
  <2> QED BY <1>11, <2>2, <2>3
<1>12. CASE UNCHANGED vars
  BY <1>12 DEF vars, outside, TypeOK
<1> QED
  BY <1>1, <1>2, <1>3, <1>4, <1>5, <1>6, <1>7, <1>8, <1>9, <1>10, <1>11, <1>12 DEF Next

-----------------------------------------------------------------------------
(* Owners.                                                                  *)

\* Who owns which adapter, for sessions ss, suspended scans sc, adapters d and
\* probes pr.
OwnedAt(ss, sc, d, pr) ==
    /\ \A b \in Bricks : ss[b] # None => d[ss[b]].device = b
    /\ \A s \in Scans : sc[s] # Idle =>
           /\ sc[s].at \in Bricks /\ sc[s].by \in Adapters
           /\ d[sc[s].by].device = sc[s].at
           /\ \A b \in Bricks : ss[b] # sc[s].by
    /\ \A s, t \in Scans :
           sc[s] # Idle /\ sc[t] # Idle /\ sc[s].at = sc[t].at => s = t
    /\ \A a \in Adapters : d[a].device # None =>
           \/ \E b \in Bricks : ss[b] = a
           \/ \E s \in Scans : sc[s] # Idle /\ sc[s].by = a
    /\ \A b : b \in pr <=> \E s \in Scans : sc[s] # Idle /\ sc[s].at = b
    /\ \A a \in Adapters : d[a].pendingReply # None => d[a].isOpen

UInv == TypeOK /\ OwnedAt(sessions, scan, adapter, probing)

\* `finally` of a probe: its adapter is closed and its brick may be probed again.
LEMMA ReleaseKeeps ==
    ASSUME UInv, NEW s \in Scans, Suspended(s)
    PROVE  OwnedAt(sessions, [scan EXCEPT ![s] = Idle],
                   [adapter EXCEPT ![scan[s].by] = Closed], probing \ {scan[s].at})
<1> DEFINE sc == [scan EXCEPT ![s] = Idle]
           d == [adapter EXCEPT ![scan[s].by] = Closed]
<1>1. /\ sc[s] = Idle /\ scan[s] # Idle
      /\ \A t \in Scans : t # s => sc[t] = scan[t]
      /\ d[scan[s].by] = Closed
      /\ \A a \in Adapters : a # scan[s].by => d[a] = adapter[a]
  BY DEF UInv, TypeOK, OwnedAt, Suspended
<1>2. \A t \in Scans : sc[t] # Idle => t # s /\ scan[t].by # scan[s].by /\ scan[t].at # scan[s].at
  BY <1>1 DEF UInv, OwnedAt
<1>3. \A b \in Bricks : sessions[b] # None => sessions[b] \in Adapters \ {scan[s].by}
  BY <1>1 DEF UInv, OwnedAt, TypeOK
<1> HIDE DEF sc, d
<1>4. OwnedAt(sessions, sc, d, probing \ {scan[s].at})
  BY <1>1, <1>2, <1>3, Values DEF UInv, OwnedAt
<1> QED BY <1>4 DEF sc, d

\* discover() goes on from a state that is owned, with scan s not suspended.
LEMMA GoesOnKeeps ==
    ASSUME NEW s \in Scans, NEW sc, sc = [scan EXCEPT ![s] = Idle],
           scan \in [Scans -> Scan], sessions \in [Bricks -> Adapters \cup {None}],
           NEW devices \in Seq(Bricks),
           NEW d \in [Adapters -> Adapter], NEW busy,
           plugged \subseteq Bricks,
           OwnedAt(sessions, sc, d, busy), GoesOn(s, devices, d, busy)
    PROVE  OwnedAt(sessions, scan', adapter', probing')
<1>1. CASE probing' = busy /\ scan' = [scan EXCEPT ![s] = Idle] /\ adapter' = d
  BY <1>1
<1>2. ASSUME NEW i \in 1..Len(devices), NEW a, a = NewAdapter(d), NEW b, b = devices[i],
             \E free \in Adapters : d[free] = Closed,
             b \in plugged \ busy, sessions[b] = None,
             probing' = busy \cup {b},
             scan' = [scan EXCEPT ![s] =
                 [at |-> b, by |-> a, left |-> SubSeq(devices, i + 1, Len(devices))]],
             adapter' = [d EXCEPT ![a] = Opened(b, 1)]
      PROVE  OwnedAt(sessions, scan', adapter', probing')
  <2>1. a \in Adapters /\ d[a] = Closed /\ b \in Bricks /\ a # None /\ b # None
    BY <1>2, UsbAssumption DEF NewAdapter
  <2>2. /\ scan'[s].at = b /\ scan'[s].by = a /\ scan'[s] # Idle
        /\ sc[s] = Idle
        /\ \A t \in Scans : t # s => scan'[t] = sc[t]
    BY <1>2, <2>1 DEF Idle
  <2>3. /\ adapter'[a].device = b /\ adapter'[a].isOpen
        /\ \A x \in Adapters : x # a => adapter'[x] = d[x]
    BY <1>2, <2>1, Values
  <2>4. d[a].device = None
    BY <2>1, Values
  <2>5. \A x \in Bricks : sessions[x] # None => sessions[x] \in Adapters \ {a}
    BY <2>1, <2>4, UsbAssumption DEF OwnedAt
  <2>6. \A t \in Scans : sc[t] # Idle => sc[t].by # a /\ sc[t].at # b
    BY <1>2, <2>1, <2>4, UsbAssumption DEF OwnedAt
  <2> HIDE <1>2
  <2>7. probing' = busy \cup {b}
    BY <1>2
  <2> QED BY <2>1, <2>2, <2>3, <2>4, <2>5, <2>6, <2>7 DEF OwnedAt
<1> QED BY <1>1, <1>2 DEF GoesOn

LEMMA ProbeEndsOwned ==
    ASSUME UInv, NEW s \in Scans, Suspended(s), ProbeEnds(s)
    PROVE  UInv'
<1> DEFINE d == [adapter EXCEPT ![scan[s].by] = Closed]
           sc == [scan EXCEPT ![s] = Idle]
<1>1. d \in [Adapters -> Adapter] /\ scan[s].left \in Seq(Bricks)
  BY Values DEF UInv, TypeOK, Scan
<1>2. OwnedAt(sessions, sc, d, probing \ {scan[s].at})
  BY ReleaseKeeps
<1>3. GoesOn(s, scan[s].left, d, probing \ {scan[s].at})
  BY DEF ProbeEnds
<1>4. sc = [scan EXCEPT ![s] = Idle] /\ sessions' = sessions
  BY DEF ProbeEnds
<1> HIDE DEF d, sc
<1>5. OwnedAt(sessions, scan', adapter', probing')
  BY <1>1, <1>2, <1>3, <1>4, GoesOnKeeps DEF UInv, TypeOK
<1>6. TypeOK'
  BY ProbeEndsTyped DEF UInv
<1> QED BY <1>4, <1>5, <1>6 DEF UInv

\* An adapter changes its buffer or its request, and owners stay who they are.
LEMMA SameOwners ==
    ASSUME UInv, UNCHANGED <<sessions, scan, probing>>,
           NEW a \in Adapters, NEW v, adapter' = [adapter EXCEPT ![a] = v],
           v.device = adapter[a].device, v.pendingReply # None => v.isOpen
    PROVE  OwnedAt(sessions, scan, adapter, probing)'
<1>1. adapter'[a] = v /\ \A x \in Adapters : x # a => adapter'[x] = adapter[x]
  BY DEF UInv, TypeOK
<1>2. \A x \in Adapters : adapter'[x].device = adapter[x].device
  BY <1>1
<1>3. \A x \in Adapters : adapter'[x].pendingReply # None => adapter'[x].isOpen
  BY <1>1 DEF UInv, OwnedAt
<1>4. \A b \in Bricks : sessions[b] # None => sessions[b] \in Adapters
  BY DEF UInv, TypeOK
<1> QED BY <1>2, <1>3, <1>4 DEF UInv, OwnedAt

LEMMA NextOwned == UInv /\ [Next]_vars => UInv'
<1> SUFFICES ASSUME UInv, [Next]_vars PROVE OwnedAt(sessions, scan, adapter, probing)'
  BY NextType DEF UInv
<1> DEFINE Goal == OwnedAt(sessions, scan, adapter, probing)'
<1>t. /\ adapter \in [Adapters -> Adapter] /\ sessions \in [Bricks -> Adapters \cup {None}]
      /\ \A a \in Adapters : adapter[a].pendingReply \in Counter \cup {None}
  BY DEF UInv, TypeOK, Adapter
<1>u. ASSUME UNCHANGED <<sessions, scan, adapter, probing>> PROVE Goal
  BY <1>u DEF UInv
<1>p. ASSUME NEW s \in Scans, Suspended(s), ProbeEnds(s) PROVE Goal
  BY <1>p, ProbeEndsOwned DEF UInv
<1>q. \A a \in Adapters, s \in Scans : scan[s].by = a => Suspended(s)
  BY UsbAssumption DEF Suspended, Idle
<1>1. ASSUME NEW s \in Scans, StartScan(s) PROVE Goal
  <2>1. PICK devices \in Bijection(1..Cardinality(plugged), plugged) :
            GoesOn(s, devices, adapter, probing)
    BY <1>1 DEF StartScan
  <2>2. devices \in Seq(Bricks)
    BY Listed DEF UInv, TypeOK
  <2>3. scan = [scan EXCEPT ![s] = Idle] /\ sessions' = sessions
    BY <1>1 DEF StartScan, Suspended, UInv, TypeOK
  <2> QED BY <2>1, <2>2, <2>3, GoesOnKeeps DEF UInv, TypeOK
<1>2. ASSUME NEW s \in Scans, ProbeTimesOut(s) PROVE Goal
  BY <1>2, <1>p DEF ProbeTimesOut
<1>3. ASSUME NEW b \in Bricks, Connect(b) PROVE Goal
  <2> DEFINE a == NewAdapter(adapter)
  <2>1. a \in Adapters /\ adapter[a] = Closed /\ adapter[a].device = None /\ a # None
    BY <1>3, Values, UsbAssumption DEF Connect, NewAdapter
  <2> HIDE DEF a
  <2>2. /\ sessions[b] = None /\ sessions'[b] = a
        /\ \A x \in Bricks : x # b => sessions'[x] = sessions[x]
        /\ adapter'[a] = Opened(b, None)
        /\ \A x \in Adapters : x # a => adapter'[x] = adapter[x]
        /\ scan' = scan /\ probing' = probing
    BY <1>3, <1>t, <2>1 DEF Connect, a
  <2>3. adapter'[a].device = b /\ adapter'[a].isOpen
    BY <2>2, Values
  <2>4. \A x \in Bricks : sessions[x] # None => sessions[x] \in Adapters \ {a}
    BY <1>t, <2>1, UsbAssumption DEF UInv, OwnedAt
  <2>5. \A s \in Scans : scan[s] # Idle => scan[s].by # a
    BY <2>1, UsbAssumption DEF UInv, OwnedAt
  <2>6. \A x \in Bricks : sessions'[x] # None => adapter'[sessions'[x]].device = x
    BY <2>2, <2>3, <2>4 DEF UInv, OwnedAt
  <2>7. \A s \in Scans : scan[s] # Idle =>
           /\ scan[s].at \in Bricks /\ scan[s].by \in Adapters
           /\ adapter'[scan[s].by].device = scan[s].at
           /\ \A x \in Bricks : sessions'[x] # scan[s].by
    BY <2>2, <2>5 DEF UInv, OwnedAt
  <2>8. \A x \in Adapters : adapter'[x].device # None =>
           \/ \E y \in Bricks : sessions'[y] = x
           \/ \E s \in Scans : scan[s] # Idle /\ scan[s].by = x
    <3> SUFFICES ASSUME NEW x \in Adapters, x # a, adapter[x].device # None
                 PROVE  \/ \E y \in Bricks : sessions'[y] = x
                        \/ \E s \in Scans : scan[s] # Idle /\ scan[s].by = x
      BY <2>2
    <3>1. CASE \E s \in Scans : scan[s] # Idle /\ scan[s].by = x
      BY <3>1
    <3>2. CASE \E y \in Bricks : sessions[y] = x
      BY <2>2, <3>2, UsbAssumption
    <3> QED BY <3>1, <3>2 DEF UInv, OwnedAt
  <2>9. \A x \in Adapters : adapter'[x].pendingReply # None => adapter'[x].isOpen
    BY <2>2, <2>3 DEF UInv, OwnedAt
  <2> QED BY <2>2, <2>6, <2>7, <2>8, <2>9 DEF UInv, OwnedAt
<1>4. ASSUME NEW b \in Bricks, Disconnect(b) PROVE Goal
  <2>1. /\ sessions[b] \in Adapters /\ sessions'[b] = None
        /\ \A x \in Bricks : x # b => sessions'[x] = sessions[x]
        /\ adapter'[sessions[b]] = Closed
        /\ \A x \in Adapters : x # sessions[b] => adapter'[x] = adapter[x]
        /\ scan' = scan /\ probing' = probing
    BY <1>4, <1>t DEF Disconnect
  <2>2. \A x \in Bricks : x # b /\ sessions[x] # None => sessions[x] \in Adapters \ {sessions[b]}
    BY <1>t, <2>1, UsbAssumption DEF UInv, OwnedAt
  <2>3. adapter[sessions[b]].device = b
    BY <2>1, UsbAssumption DEF UInv, OwnedAt
  <2> QED BY <2>1, <2>2, <2>3, Values, UsbAssumption DEF UInv, OwnedAt
<1>5. ASSUME NEW b \in Bricks, Send(b) PROVE Goal
  <2> DEFINE a == sessions[b]
             v == Drained(adapter[a], NextCounter(b), adapter[a].receiveBuffer)
  <2>1. a \in Adapters /\ adapter[a] \in Adapter /\ adapter[a].isOpen
    BY <1>5, <1>t DEF Send
  <2>2. NextCounter(b) \in Counter /\ adapter[a].receiveBuffer \in Seq(Packet)
    BY <2>1, UsbAssumption DEF NextCounter, Counter, UInv, TypeOK, Adapter
  <2>3. v.device = adapter[a].device /\ v.isOpen
    BY <2>1, <2>2, DrainedKeeps
  <2>4. adapter' = [adapter EXCEPT ![a] = v] /\ UNCHANGED <<sessions, scan, probing>>
    BY <1>5 DEF Send
  <2> HIDE DEF a, v
  <2> QED BY <2>1, <2>3, <2>4, SameOwners
<1>6. CASE Dispose
  <2>1. /\ \A b \in Bricks : sessions'[b] = None
        /\ \A a \in Adapters : adapter'[a] =
               IF \E b \in Bricks : sessions[b] = a THEN Closed ELSE adapter[a]
        /\ scan' = scan /\ probing' = probing
    BY <1>6 DEF Dispose
  <2>2. \A s \in Scans : scan[s] # Idle => adapter'[scan[s].by] = adapter[scan[s].by]
    BY <2>1 DEF UInv, OwnedAt
  <2> QED BY <2>1, <2>2, Values, UsbAssumption DEF UInv, OwnedAt
<1>7. ASSUME NEW a \in Adapters, DataArrives(a) PROVE Goal
  <2> DEFINE v == Drained(adapter[a], adapter[a].pendingReply,
                          Append(adapter[a].receiveBuffer, Head(wire[a])))
  <2>1. /\ Append(adapter[a].receiveBuffer, Head(wire[a])) \in Seq(Packet)
        /\ adapter[a] \in Adapter /\ adapter[a].pendingReply \in Counter \cup {None}
    BY <1>7, <1>t, HeadTailProperties, AppendProperties DEF DataArrives, UInv, TypeOK, Adapter
  <2>2. /\ v.device = adapter[a].device /\ v.isOpen = adapter[a].isOpen
        /\ v.pendingReply \in {adapter[a].pendingReply, None}
    BY <2>1, DrainedKeeps
  <2>3. v.pendingReply # None => v.isOpen
    BY <2>2 DEF UInv, OwnedAt
  <2>4. \/ \E s \in Scans : scan[s].by = a /\ ProbeEnds(s)
        \/ adapter' = [adapter EXCEPT ![a] = v] /\ UNCHANGED <<sessions, scan, probing>>
    BY <1>7 DEF DataArrives
  <2> HIDE DEF v
  <2> QED BY <1>p, <1>q, <2>2, <2>3, <2>4, SameOwners
<1>8. ASSUME NEW a \in Adapters, AdapterFails(a) PROVE Goal
  <2>1. Failed(adapter[a]).device = adapter[a].device /\ Failed(adapter[a]).pendingReply = None
    BY DEF Failed, Fields
  <2>2. \/ \E s \in Scans : scan[s].by = a /\ ProbeEnds(s)
        \/ /\ adapter' = [adapter EXCEPT ![a] = Failed(adapter[a])]
           /\ UNCHANGED <<sessions, scan, probing>>
    BY <1>8 DEF AdapterFails
  <2> QED BY <1>p, <1>q, <2>1, <2>2, SameOwners
<1>9. ASSUME NEW b \in Bricks, SendRejected(b) \/ BrickAnswers(b) \/ Unplug(b) \/ Plug(b)
      PROVE  Goal
  BY <1>9, <1>u DEF SendRejected, BrickAnswers, Unplug, Plug
<1>10. CASE UNCHANGED vars
  BY <1>10, <1>u DEF vars
<1> QED BY <1>1, <1>2, <1>3, <1>4, <1>5, <1>6, <1>7, <1>8, <1>9, <1>10 DEF Next

-----------------------------------------------------------------------------
(* Theorems.                                                                *)

LEMMA InitUInv == Init => UInv
<1> SUFFICES ASSUME Init PROVE UInv
  OBVIOUS
<1>1. TypeOK
  <2>1. <<>> \in Seq(Counter) /\ <<>> \in Seq(Packet)
    OBVIOUS
  <2> QED BY <2>1, Values DEF Init, TypeOK
<1>2. OwnedAt(sessions, scan, adapter, probing)
  BY Values DEF Init, OwnedAt
<1> QED BY <1>1, <1>2 DEF UInv

LEMMA Owned == Spec => []UInv
BY InitUInv, NextOwned, PTL DEF Spec

\* Types, for any device lists, reports and message counters.
THEOREM UsbTypeCorrect == Spec => []TypeOK
<1>1. UInv => TypeOK
  BY DEF UInv
<1> QED BY Owned, <1>1, PTL

\* However scans, probes, connects and failures overlap, every HID handle has
\* exactly one owner and no brick has two probes.
THEOREM HandlesAreOwned == Spec => []HandlesOwned
<1>1. UInv => HandlesOwned
  <2> SUFFICES ASSUME UInv PROVE HandlesOwned
    OBVIOUS
  <2>1. ASSUME NEW a \in Adapters
        PROVE  /\ (adapter[a].device # None) <=> (Owners(a) # {})
               /\ \E x : Owners(a) \subseteq {x}
    <3>1. /\ \A b \in Bricks : sessions[b] = a => adapter[a].device = b
          /\ \A s \in Scans : scan[s].by = a => scan[s] # Idle
      BY UsbAssumption DEF UInv, OwnedAt, Idle
    <3>2. \A s \in Scans : scan[s].by = a =>
             adapter[a].device = scan[s].at /\ scan[s].at \in Bricks
      BY <3>1 DEF UInv, OwnedAt
    <3>3. \A x, y \in Owners(a) : x = y
      BY <3>1, <3>2 DEF Owners, UInv, OwnedAt
    <3>4. (adapter[a].device # None) <=> (Owners(a) # {})
      BY <3>1, <3>2, UsbAssumption DEF Owners, UInv, OwnedAt
    <3> QED BY <3>3, <3>4
  <2>2. \A a \in Adapters : Cardinality(Owners(a)) <= 1
    <3> SUFFICES ASSUME NEW a \in Adapters PROVE Cardinality(Owners(a)) <= 1
      OBVIOUS
    <3>1. PICK x : Owners(a) \subseteq {x}
      BY <2>1
    <3>2. IsFiniteSet({x}) /\ Cardinality({x}) = 1
      BY FS_Singleton
    <3> QED BY <3>1, <3>2, FS_Subset, FS_CardinalityType
  <2>3. probing = {scan[s].at : s \in {s \in Scans : Suspended(s)}}
    BY DEF UInv, OwnedAt, Suspended
  <2>4. \A s, t \in Scans : Suspended(s) /\ scan[s].at = scan[t].at => s = t
    BY UsbAssumption DEF UInv, OwnedAt, Suspended, Idle
  <2> QED BY <2>1, <2>2, <2>3, <2>4 DEF HandlesOwned, UInv, OwnedAt, Suspended
<1> QED BY Owned, <1>1, PTL
-----------------------------------------------------------------------------
(* A scan that waits waits for something: every probe has its request in      *)
(* flight and the timeout that goes with it, and each probe is of a device    *)
(* further down the list.                                                     *)

\* The suspended scans sc wait for `info`, number 1, at their adapters in d.
Asked(sc, d) ==
    \A s \in Scans : sc[s] # Idle => d[sc[s].by].isOpen /\ d[sc[s].by].pendingReply = 1

ProbesAsked == Asked(scan, adapter)

LEMMA GoesOnAsked ==
    ASSUME NEW s \in Scans, NEW sc, sc = [scan EXCEPT ![s] = Idle],
           scan \in [Scans -> Scan],
           NEW devices \in Seq(Bricks),
           NEW d \in [Adapters -> Adapter], NEW busy,
           OwnedAt(sessions, sc, d, busy), Asked(sc, d), GoesOn(s, devices, d, busy)
    PROVE  Asked(scan', adapter')
<1>1. CASE probing' = busy /\ scan' = [scan EXCEPT ![s] = Idle] /\ adapter' = d
  BY <1>1
<1>2. ASSUME NEW i \in 1..Len(devices), NEW a, a = NewAdapter(d),
             \E free \in Adapters : d[free] = Closed,
             scan' = [scan EXCEPT ![s] =
                 [at |-> devices[i], by |-> a, left |-> SubSeq(devices, i + 1, Len(devices))]],
             adapter' = [d EXCEPT ![a] = Opened(devices[i], 1)]
      PROVE  Asked(scan', adapter')
  <2>1. a \in Adapters /\ d[a].device = None /\ a # None
    BY <1>2, Values, UsbAssumption DEF NewAdapter
  <2>2. scan'[s].by = a /\ sc[s] = Idle /\ \A t \in Scans : t # s => scan'[t] = sc[t]
    BY <1>2
  <2>3. /\ adapter'[a].isOpen /\ adapter'[a].pendingReply = 1
        /\ \A x \in Adapters : x # a => adapter'[x] = d[x]
    BY <1>2, <2>1 DEF Opened, Fields
  <2>4. \A t \in Scans : sc[t] # Idle => sc[t].by \in Adapters \ {a}
    BY <2>1, UsbAssumption DEF OwnedAt
  <2> HIDE <1>2
  <2> QED BY <2>2, <2>3, <2>4 DEF Asked
<1> QED BY <1>1, <1>2 DEF GoesOn

LEMMA ProbeEndsAsked ==
    ASSUME UInv, ProbesAsked, NEW s \in Scans, Suspended(s), ProbeEnds(s)
    PROVE  ProbesAsked'
<1> DEFINE d == [adapter EXCEPT ![scan[s].by] = Closed]
           sc == [scan EXCEPT ![s] = Idle]
<1>1. d \in [Adapters -> Adapter] /\ scan[s].left \in Seq(Bricks)
  BY Values DEF UInv, TypeOK, Scan
<1>2. OwnedAt(sessions, sc, d, probing \ {scan[s].at})
  BY ReleaseKeeps
<1>3. GoesOn(s, scan[s].left, d, probing \ {scan[s].at})
  BY DEF ProbeEnds
<1>4. Asked(sc, d)
  <2>1. /\ sc[s] = Idle
        /\ \A t \in Scans : t # s => sc[t] = scan[t]
        /\ \A a \in Adapters : a # scan[s].by => d[a] = adapter[a]
    BY DEF UInv, TypeOK
  <2>2. \A t \in Scans : t # s /\ scan[t] # Idle => scan[t].by \in Adapters \ {scan[s].by}
    BY DEF UInv, OwnedAt, Suspended
  <2> HIDE DEF sc, d
  <2> QED BY <2>1, <2>2 DEF Asked, ProbesAsked
<1>5. sc = [scan EXCEPT ![s] = Idle] /\ scan \in [Scans -> Scan]
  BY DEF UInv, TypeOK
<1> HIDE DEF d, sc
<1> QED BY <1>1, <1>2, <1>3, <1>4, <1>5, GoesOnAsked DEF ProbesAsked

\* An adapter that no probe has may change; one that a probe has keeps its
\* request.
LEMMA AdapterAsked ==
    ASSUME UInv, ProbesAsked, scan' = scan,
           \A s \in Scans : Suspended(s) =>
               /\ adapter'[scan[s].by].isOpen
               /\ adapter'[scan[s].by].pendingReply = adapter[scan[s].by].pendingReply
    PROVE  ProbesAsked'
BY DEF ProbesAsked, Asked, Suspended

LEMMA NextAsked == UInv /\ ProbesAsked /\ [Next]_vars => ProbesAsked'
<1> SUFFICES ASSUME UInv, ProbesAsked, [Next]_vars PROVE ProbesAsked'
  OBVIOUS
<1>t. /\ adapter \in [Adapters -> Adapter] /\ sessions \in [Bricks -> Adapters \cup {None}]
      /\ \A a \in Adapters : adapter[a].pendingReply \in Counter \cup {None}
      /\ scan \in [Scans -> Scan]
  BY DEF UInv, TypeOK, Adapter
<1>s. \A s \in Scans : Suspended(s) =>
          /\ scan[s].by \in Adapters /\ adapter[scan[s].by].device # None
          /\ adapter[scan[s].by].isOpen /\ \A b \in Bricks : sessions[b] # scan[s].by
  BY UsbAssumption DEF UInv, OwnedAt, Suspended, ProbesAsked, Asked
<1>p. ASSUME NEW s \in Scans, Suspended(s), ProbeEnds(s) PROVE ProbesAsked'
  BY <1>p, ProbeEndsAsked
<1>q. \A a \in Adapters, s \in Scans : scan[s].by = a => Suspended(s)
  BY UsbAssumption DEF Suspended, Idle
<1>1. ASSUME NEW s \in Scans, StartScan(s) PROVE ProbesAsked'
  <2>1. PICK devices \in Bijection(1..Cardinality(plugged), plugged) :
            GoesOn(s, devices, adapter, probing)
    BY <1>1 DEF StartScan
  <2>2. devices \in Seq(Bricks)
    BY Listed DEF UInv, TypeOK
  <2>3. scan = [scan EXCEPT ![s] = Idle]
    BY <1>1, <1>t DEF StartScan, Suspended
  <2> QED BY <1>t, <2>1, <2>2, <2>3, GoesOnAsked DEF UInv, ProbesAsked
<1>2. ASSUME NEW s \in Scans, ProbeTimesOut(s) PROVE ProbesAsked'
  BY <1>2, <1>p DEF ProbeTimesOut
<1>3. ASSUME NEW b \in Bricks, Connect(b) PROVE ProbesAsked'
  <2>1. PICK a \in Adapters : adapter[a].device = None /\ scan' = scan
                              /\ \A x \in Adapters : x # a => adapter'[x] = adapter[x]
    BY <1>3, <1>t, Values DEF Connect, NewAdapter
  <2> QED BY <1>s, <2>1, AdapterAsked
<1>4. ASSUME NEW b \in Bricks, Disconnect(b) \/ Send(b) PROVE ProbesAsked'
  <2>1. PICK a \in Adapters : sessions[b] = a /\ scan' = scan
                              /\ \A x \in Adapters : x # a => adapter'[x] = adapter[x]
    BY <1>4, <1>t DEF Disconnect, Send
  <2> QED BY <1>s, <2>1, AdapterAsked
<1>5. CASE Dispose
  <2>1. scan' = scan /\ \A s \in Scans : Suspended(s) => adapter'[scan[s].by] = adapter[scan[s].by]
    BY <1>5, <1>s DEF Dispose
  <2> QED BY <1>s, <2>1, AdapterAsked
<1>6. ASSUME NEW a \in Adapters, DataArrives(a) PROVE ProbesAsked'
  <2>1. PICK v : v = Drained(adapter[a], adapter[a].pendingReply,
                             Append(adapter[a].receiveBuffer, Head(wire[a])))
    OBVIOUS
  <2>2. /\ Append(adapter[a].receiveBuffer, Head(wire[a])) \in Seq(Packet)
        /\ adapter[a] \in Adapter
    BY <1>6, <1>t, HeadTailProperties, AppendProperties DEF DataArrives, UInv, TypeOK, Adapter
  <2>3. v.isOpen = adapter[a].isOpen /\ v.pendingReply \in {adapter[a].pendingReply, None}
    BY <1>t, <2>1, <2>2, DrainedKeeps
  <2>4. CASE \E s \in Scans : scan[s].by = a /\ v.pendingReply = None
    <3>1. \E s \in Scans : scan[s].by = a /\ ProbeEnds(s)
      BY <1>6, <2>1, <2>4 DEF DataArrives
    <3> QED BY <1>p, <1>q, <3>1
  <2>5. CASE ~\E s \in Scans : scan[s].by = a /\ v.pendingReply = None
    <3>1. adapter' = [adapter EXCEPT ![a] = v] /\ scan' = scan
      BY <1>6, <2>1, <2>5 DEF DataArrives
    <3>2. \A s \in Scans : scan[s].by = a => v.pendingReply = adapter[a].pendingReply
      BY <2>3, <2>5
    <3> QED BY <1>s, <1>t, <2>3, <3>1, <3>2, AdapterAsked
  <2> QED BY <2>4, <2>5
<1>7. ASSUME NEW a \in Adapters, AdapterFails(a) PROVE ProbesAsked'
  <2>1. CASE \E s \in Scans : scan[s].by = a /\ ProbeEnds(s)
    BY <1>p, <1>q, <2>1
  <2>2. CASE /\ ~\E s \in Scans : scan[s].by = a
             /\ adapter' = [adapter EXCEPT ![a] = Failed(@)] /\ scan' = scan
    BY <1>s, <1>t, <2>2, AdapterAsked
  <2> QED BY <1>7, <2>1, <2>2 DEF AdapterFails
<1>8. ASSUME NEW b \in Bricks, SendRejected(b) \/ BrickAnswers(b) \/ Unplug(b) \/ Plug(b)
      PROVE  ProbesAsked'
  BY <1>8 DEF SendRejected, BrickAnswers, Unplug, Plug, ProbesAsked, Asked
<1>9. CASE UNCHANGED vars
  BY <1>9 DEF vars, ProbesAsked, Asked
<1> QED BY <1>1, <1>2, <1>3, <1>4, <1>5, <1>6, <1>7, <1>8, <1>9 DEF Next

\* While discover() waits, the adapter of its probe is open with the probe's
\* own request in flight, number 1: whichever sessions come and go meanwhile,
\* no other step of the provider settles, replaces or forgets it, and
\* AbortSignal.timeout() (usbTransportProvider.ts:193) has what to abort.
THEOREM ProbesAreAsked == Spec => []ProbesAsked
<1>1. Init => ProbesAsked
  BY DEF Init, ProbesAsked, Asked
<1> QED BY <1>1, NextAsked, Owned, PTL DEF Spec

\* A discover() that is suspended stays where it is, returns, or goes on with
\* fewer devices before it.
ScansShorten ==
    [][\A s \in Scans : Suspended(s) =>
           \/ scan'[s] = scan[s]
           \/ scan'[s] = Idle
           \/ Len(scan'[s].left) < Len(scan[s].left)]_vars

LEMMA ProbeEndsShortens ==
    ASSUME UInv, NEW s \in Scans, Suspended(s), ProbeEnds(s), NEW t \in Scans
    PROVE  \/ scan'[t] = scan[t]
           \/ scan'[t] = Idle
           \/ Len(scan'[t].left) < Len(scan[t].left)
<1>1. scan \in [Scans -> Scan] /\ scan[s].left \in Seq(Bricks)
  BY DEF UInv, TypeOK, Scan
<1>2. PICK devices : devices = scan[s].left /\ devices \in Seq(Bricks)
  BY <1>1
<1>3. CASE scan' = [scan EXCEPT ![s] = Idle]
  BY <1>1, <1>3
<1>4. ASSUME NEW i \in 1..Len(devices), NEW at, NEW by,
             scan' = [scan EXCEPT ![s] =
                 [at |-> at, by |-> by, left |-> SubSeq(devices, i + 1, Len(devices))]]
      PROVE  scan'[t] = scan[t] \/ Len(scan'[t].left) < Len(scan[t].left)
  <2>1. CASE t # s
    BY <1>1, <1>4, <2>1
  <2>2. CASE t = s
    <3>1. scan'[t].left = SubSeq(devices, i + 1, Len(devices))
      BY <1>1, <1>4, <2>2
    <3>2. i + 1 \in Int /\ Len(devices) \in Nat /\ i \in Nat /\ i >= 1
          /\ \A j \in (i + 1)..Len(devices) : devices[j] \in Bricks
      BY <1>2
    <3>3. Len(SubSeq(devices, i + 1, Len(devices))) =
              IF i + 1 <= Len(devices) THEN Len(devices) - (i + 1) + 1 ELSE 0
      BY ONLY <3>2, SubSeqProperties
    <3>4. Len(SubSeq(devices, i + 1, Len(devices))) < Len(devices)
      BY <3>2, <3>3
    <3> QED BY <1>2, <2>2, <3>1, <3>4
  <2> QED BY <2>1, <2>2
<1>5. GoesOn(s, devices, [adapter EXCEPT ![scan[s].by] = Closed], probing \ {scan[s].at})
  BY <1>2 DEF ProbeEnds
<1> QED BY <1>3, <1>4, <1>5 DEF GoesOn

\* Every step of a scan brings it nearer to its end: plugging, failing probes
\* and other scans never give it a device to probe again.  With the timeouts
\* this is why discover() returns (ScansSettle).
THEOREM ScansGetShorter == Spec => ScansShorten
<1> DEFINE Step == \A s \in Scans : Suspended(s) =>
                       \/ scan'[s] = scan[s]
                       \/ scan'[s] = Idle
                       \/ Len(scan'[s].left) < Len(scan[s].left)
<1>1. UInv /\ [Next]_vars => Step
  <2> SUFFICES ASSUME UInv, [Next]_vars PROVE Step
    OBVIOUS
  <2>p. ASSUME NEW s \in Scans, Suspended(s), ProbeEnds(s) PROVE Step
    BY <2>p, ProbeEndsShortens
  <2>q. \A a \in Adapters, s \in Scans : scan[s].by = a => Suspended(s)
    BY UsbAssumption DEF Suspended, Idle
  <2>1. ASSUME NEW s \in Scans, StartScan(s) PROVE Step
    <3>1. scan \in [Scans -> Scan] /\ ~Suspended(s)
      BY <2>1 DEF StartScan, UInv, TypeOK
    <3>2. \A t \in Scans : t # s => scan'[t] = scan[t]
      BY <2>1, <3>1 DEF StartScan, GoesOn
    <3> QED BY <3>1, <3>2
  <2>2. ASSUME NEW s \in Scans, ProbeTimesOut(s) PROVE Step
    BY <2>2, <2>p DEF ProbeTimesOut
  <2>3. ASSUME NEW a \in Adapters, DataArrives(a) \/ AdapterFails(a) PROVE Step
    <3>1. scan' = scan \/ \E s \in Scans : scan[s].by = a /\ ProbeEnds(s)
      BY <2>3 DEF DataArrives, AdapterFails
    <3> QED BY <2>p, <2>q, <3>1
  <2>4. CASE Dispose \/ UNCHANGED vars
    BY <2>4 DEF Dispose, vars
  <2>5. ASSUME NEW b \in Bricks,
               \/ Connect(b) \/ Disconnect(b) \/ Send(b) \/ SendRejected(b)
               \/ BrickAnswers(b) \/ Unplug(b) \/ Plug(b)
        PROVE  Step
    BY <2>5 DEF Connect, Disconnect, Send, SendRejected, BrickAnswers, Unplug, Plug
  <2> QED BY <2>1, <2>2, <2>3, <2>4, <2>5 DEF Next
<1> QED BY <1>1, Owned, PTL DEF Spec, ScansShorten
=============================================================================
