----------------------------- MODULE UsbTransport -----------------------------
(***************************************************************************)
(* UsbTransportProvider (src/src/transports/usbTransportProvider.ts) with  *)
(* the UsbHidAdapter objects it creates (usbHidAdapter.ts): one per        *)
(* session, and one per name probe of discover().                          *)
(*                                                                         *)
(* Every brick has the generic product name, so that its name is probed.   *)
(* A report is one packet and the zeros that pad it.  Every adapter open   *)
(* on a brick receives every report of it.                                 *)
(*                                                                         *)
(* open() and close() of a HID device wait for microtasks only: each is    *)
(* one step with what follows it.                                          *)
(***************************************************************************)
EXTENDS Naturals, Sequences, FiniteSets, Functions

CONSTANTS
    Bricks,
    Adapters,       \* identities of adapters: bounds how many at once
    Scans,          \* identities of calls of discover()
    None,
    Counters,       \* message counters run from 0 to Counters - 1
    MaxReports,     \* bound: requests, reports on the way, reports received
    Lengths         \* which replies there are: short ones (TRUE), others (FALSE)

ASSUME UsbAssumption ==
    /\ IsFiniteSet(Bricks)
    /\ None \notin Bricks /\ None \notin Adapters /\ None \notin Nat
    /\ Counters \in Nat /\ Counters > 1
    /\ MaxReports \in Nat /\ Lengths \subseteq BOOLEAN

VARIABLES
    sessions,           \* sessions[b]: the adapter of b's session, or None
    messageCounter,     \* messageCounter[b], of the session
    probing,            \* bricks whose name is being probed
    disposed,
    scan,               \* scan[s]: where a discover() is suspended, or Idle
    adapter,            \* adapter[a]: the fields of UsbHidAdapter
    \* the bricks and the reports
    plugged,            \* bricks connected by cable
    owed,               \* owed[b]: requests b has still to answer, in order
    wire                \* wire[a]: reports on the way to a

outside == <<plugged, owed, wire>>
vars == <<sessions, messageCounter, probing, disposed, scan, adapter, outside>>

Counter == 0..(Counters - 1)

\* A reply: its message counter, and whether the low byte of its bodyLength is
\* 1, 2 or 3, which it is for one without payload, as every DIRECT_REPLY_ERROR.
Packet == [counter : Counter, short : BOOLEAN]

\* device: the brick whose HID device is held.  pendingReply: the counter the
\* request in flight waits for.  padded: the buffer begins with a zero, left of
\* the padding of a report whose packet has been taken.
Adapter == [device : Bricks \cup {None}, isOpen : BOOLEAN,
            pendingReply : Counter \cup {None}, receiveBuffer : Seq(Packet), padded : BOOLEAN]
Fields(device, isOpen, pendingReply, receiveBuffer, padded) ==
    [device |-> device, isOpen |-> isOpen, pendingReply |-> pendingReply,
     receiveBuffer |-> receiveBuffer, padded |-> padded]
Closed == Fields(None, FALSE, None, <<>>, FALSE)

\* A discover() suspended in the probe of a brick, and the devices after it.
Scan == [at : Bricks \cup {None}, by : Adapters \cup {None}, left : Seq(Bricks)]
Idle == [at |-> None, by |-> None, left |-> <<>>]
Suspended(s) == scan[s] # Idle

\* Well typed, in every state.
TypeOK ==
    /\ sessions \in [Bricks -> Adapters \cup {None}]
    /\ messageCounter \in [Bricks -> Counter]
    /\ probing \subseteq Bricks
    /\ disposed \in BOOLEAN
    /\ scan \in [Scans -> Scan]
    /\ adapter \in [Adapters -> Adapter]
    /\ plugged \subseteq Bricks
    /\ owed \in [Bricks -> Seq(Counter)]
    /\ wire \in [Adapters -> Seq(Packet)]

Init ==
    /\ sessions = [b \in Bricks |-> None]
    /\ messageCounter = [b \in Bricks |-> 0]
    /\ probing = {}
    /\ disposed = FALSE
    /\ scan = [s \in Scans |-> Idle]
    /\ adapter = [a \in Adapters |-> Closed]
    /\ plugged = Bricks
    /\ owed = [b \in Bricks |-> <<>>]
    /\ wire = [a \in Adapters |-> <<>>]

-----------------------------------------------------------------------------
(* The adapter.                                                             *)

\* open() of a device, with no request yet or at once with one.
Opened(b, pending) == Fields(b, TRUE, pending, <<>>, FALSE)

\* new UsbHidAdapter(): any identity that is not in use.
NewAdapter(d) == CHOOSE a \in Adapters : d[a] = Closed

\* extractNextPacket() of the i-th report in the buffer: the counter it reads,
\* or None where no request has it.  Zeros are skipped while they make a
\* bodyLength below 3 with the byte behind them; the last of them and the low
\* byte of a short packet make 256, 512 or 768, which a report has room for:
\* what is read as counter is then the second byte of its bodyLength, zero, and
\* the first of its counter.
CounterRead(d, buffer, i) ==
    IF ~buffer[i].short \/ (~d.padded /\ i = 1) THEN buffer[i].counter
    ELSE IF buffer[i].counter = 0 THEN 0
    ELSE None

\* drainPendingReply(): packets are taken up to the one that matches; without
\* a request in flight they stay in the buffer.
Drained(d, pending, buffer) ==
    LET matches == {i \in 1..Len(buffer) : CounterRead(d, buffer, i) = pending}
        first == CHOOSE i \in matches : \A j \in matches : i <= j
        padded == d.padded \/ buffer # <<>>
    IN IF pending = None THEN Fields(d.device, d.isOpen, None, buffer, d.padded)
       ELSE IF matches = {} THEN Fields(d.device, d.isOpen, pending, <<>>, padded)
       ELSE Fields(d.device, d.isOpen, None, SubSeq(buffer, first + 1, Len(buffer)), TRUE)

\* handleFailure(): the handle is kept until close().
Failed(d) == Fields(d.device, FALSE, None, d.receiveBuffer, d.padded)

\* The reports on the way to adapters that are closed are lost.
Carry(w) == wire' = [a \in Adapters |-> IF adapter'[a] = Closed THEN <<>> ELSE w[a]]

-----------------------------------------------------------------------------
(* discover() and its probes.                                               *)

\* Scan s goes on with its devices, the adapters being d and the bricks of
\* `busy` being probed: either no device is left to probe, or one is, whose
\* adapter opens and sends `info` with number 1.  Devices before it are being
\* probed already, have a session, or fail to open, which ends their probe.
GoesOn(s, devices, d, busy) ==
    \/ /\ probing' = busy
       /\ scan' = [scan EXCEPT ![s] = Idle]
       /\ adapter' = d
       /\ UNCHANGED owed
    \/ \E i \in 1..Len(devices) :
          LET b == devices[i]
              a == NewAdapter(d)
          IN
          /\ \E free \in Adapters : d[free] = Closed
          /\ b \in plugged \ busy /\ sessions[b] = None
          /\ Len(owed[b]) < MaxReports
          /\ probing' = busy \cup {b}
          /\ scan' = [scan EXCEPT ![s] =
                 [at |-> b, by |-> a, left |-> SubSeq(devices, i + 1, Len(devices))]]
          /\ adapter' = [d EXCEPT ![a] = Opened(b, 1)]
          /\ owed' = [owed EXCEPT ![b] = Append(@, 1)]

\* The devices are listed once, in any order.
StartScan(s) ==
    /\ ~disposed /\ ~Suspended(s)
    /\ \E devices \in Bijection(1..Cardinality(plugged), plugged) :
          GoesOn(s, devices, adapter, probing)
    /\ wire' = wire
    /\ UNCHANGED <<sessions, messageCounter, disposed, plugged>>

\* Mutants: the adapter stays open; a probe that failed is tried again at once.
ProbeEndsOpen(s) ==
    /\ GoesOn(s, scan[s].left, adapter, probing \ {scan[s].at})
    /\ Carry([wire EXCEPT ![scan[s].by] = <<>>])
    /\ UNCHANGED <<sessions, messageCounter, disposed, plugged>>
ProbeEndsAgain(s) ==
    /\ GoesOn(s, <<scan[s].at>> \o scan[s].left,
              [adapter EXCEPT ![scan[s].by] = Closed], probing \ {scan[s].at})
    /\ Carry([wire EXCEPT ![scan[s].by] = <<>>])
    /\ UNCHANGED <<sessions, messageCounter, disposed, plugged>>

\* probeDisplayName() ends, by its reply, a rejection or its timeout: `finally`
\* closes the adapter, and discover() goes on.
ProbeEnds(s) ==
    /\ GoesOn(s, scan[s].left, [adapter EXCEPT ![scan[s].by] = Closed], probing \ {scan[s].at})
    /\ Carry([wire EXCEPT ![scan[s].by] = <<>>])
    /\ UNCHANGED <<sessions, messageCounter, disposed, plugged>>

ProbeTimesOut(s) == Suspended(s) /\ ProbeEnds(s)

-----------------------------------------------------------------------------
(* Sessions.                                                                *)

Connect(b) ==
    LET a == NewAdapter(adapter) IN
    /\ ~disposed /\ sessions[b] = None
    /\ \E free \in Adapters : adapter[free] = Closed
    /\ b \in plugged
    /\ sessions' = [sessions EXCEPT ![b] = a]
    /\ messageCounter' = [messageCounter EXCEPT ![b] = 0]
    /\ adapter' = [adapter EXCEPT ![a] = Opened(b, None)]
    /\ UNCHANGED <<probing, disposed, scan, outside>>

Disconnect(b) ==
    /\ sessions[b] # None
    /\ sessions' = [sessions EXCEPT ![b] = None]
    /\ adapter' = [adapter EXCEPT ![sessions[b]] = Closed]
    /\ Carry(wire)
    /\ UNCHANGED <<messageCounter, probing, disposed, scan, plugged, owed>>

NextCounter(b) == (messageCounter[b] + 1) % Counters

\* send() gives the request its number; the adapter writes it and looks through
\* what it has received so far.
Send(b) ==
    LET a == sessions[b] IN
    /\ ~disposed /\ a # None
    /\ adapter[a].isOpen /\ adapter[a].pendingReply = None
    /\ b \in plugged /\ Len(owed[b]) < MaxReports
    /\ messageCounter' = [messageCounter EXCEPT ![b] = NextCounter(b)]
    /\ adapter' = [adapter EXCEPT ![a] = Drained(@, NextCounter(b), @.receiveBuffer)]
    /\ owed' = [owed EXCEPT ![b] = Append(@, NextCounter(b))]
    /\ UNCHANGED <<sessions, probing, disposed, scan, plugged, wire>>

\* The adapter refuses: it is not open, has a request in flight, or the write
\* throws.  The number is spent all the same.
SendRejected(b) ==
    LET a == sessions[b] IN
    /\ ~disposed /\ a # None
    /\ ~adapter[a].isOpen \/ adapter[a].pendingReply # None \/ b \notin plugged
    /\ messageCounter' = [messageCounter EXCEPT ![b] = NextCounter(b)]
    /\ UNCHANGED <<sessions, probing, disposed, scan, adapter, outside>>

\* dispose() closes the sessions; a suspended probe goes on.
Dispose ==
    /\ ~disposed
    /\ disposed' = TRUE
    /\ sessions' = [b \in Bricks |-> None]
    /\ adapter' = [a \in Adapters |->
           IF \E b \in Bricks : sessions[b] = a THEN Closed ELSE adapter[a]]
    /\ Carry(wire)
    /\ UNCHANGED <<messageCounter, probing, scan, plugged, owed>>

-----------------------------------------------------------------------------
(* HID events, bricks and cables.                                           *)

\* 'data': for a probe, its reply ends it at once.
DataArrives(a) ==
    LET d == Drained(adapter[a], adapter[a].pendingReply,
                     Append(adapter[a].receiveBuffer, Head(wire[a])))
        replied == d.pendingReply = None
    IN
    /\ adapter[a] # Closed /\ wire[a] # <<>>
    /\ Len(adapter[a].receiveBuffer) < MaxReports
    /\ IF \E s \in Scans : scan[s].by = a /\ replied
       THEN \E s \in Scans : scan[s].by = a /\ ProbeEnds(s)
       ELSE /\ adapter' = [adapter EXCEPT ![a] = d]
            /\ wire' = [wire EXCEPT ![a] = Tail(@)]
            /\ UNCHANGED <<sessions, messageCounter, probing, disposed, scan, plugged, owed>>

\* 'error': the request in flight is rejected, which ends a probe.
AdapterFails(a) ==
    /\ adapter[a].isOpen
    /\ IF \E s \in Scans : scan[s].by = a
       THEN \E s \in Scans : scan[s].by = a /\ ProbeEnds(s)
       ELSE /\ adapter' = [adapter EXCEPT ![a] = Failed(@)]
            /\ UNCHANGED <<sessions, messageCounter, probing, disposed, scan, outside>>

\* The brick takes the oldest request and answers it, or never does.
BrickAnswers(b) ==
    LET listening == {a \in Adapters : adapter[a].device = b} IN
    /\ b \in plugged /\ owed[b] # <<>>
    /\ \A a \in listening : Len(wire[a]) < MaxReports
    /\ owed' = [owed EXCEPT ![b] = Tail(@)]
    /\ \/ \E short \in Lengths :
              LET reply == [counter |-> Head(owed[b]), short |-> short] IN
              wire' = [a \in Adapters |->
                  IF a \in listening THEN Append(wire[a], reply) ELSE wire[a]]
       \/ UNCHANGED wire
    /\ UNCHANGED <<sessions, messageCounter, probing, disposed, scan, adapter, plugged>>

Unplug(b) ==
    /\ b \in plugged
    /\ plugged' = plugged \ {b}
    /\ owed' = [owed EXCEPT ![b] = <<>>]
    /\ UNCHANGED <<sessions, messageCounter, probing, disposed, scan, adapter, wire>>

Plug(b) ==
    /\ b \notin plugged
    /\ plugged' = plugged \cup {b}
    /\ UNCHANGED <<sessions, messageCounter, probing, disposed, scan, adapter, owed, wire>>

Next ==
    \/ \E s \in Scans : StartScan(s) \/ ProbeTimesOut(s)
    \/ \E b \in Bricks : Connect(b) \/ Disconnect(b) \/ Send(b) \/ SendRejected(b)
    \/ Dispose
    \/ \E a \in Adapters : DataArrives(a) \/ AdapterFails(a)
    \/ \E b \in Bricks : BrickAnswers(b) \/ Unplug(b) \/ Plug(b)

\* AbortSignal.timeout() of a probe fires; nothing is assumed of the bricks.
Fairness == \A s \in Scans : WF_vars(ProbeTimesOut(s))
Spec == Init /\ [][Next]_vars /\ Fairness

-----------------------------------------------------------------------------
(* Properties.                                                              *)

\* A HID handle is held exactly by the adapters that a session or a suspended
\* probe owns, one owner each, on the owner's brick; no brick has two probes;
\* and a request in flight is one of an adapter that is open, so that close()
\* and a failure leave nobody waiting.  (usbTransportProvider.ts:72 "prevents
\* concurrent probes for the same brick", :181 "The device is closed
\* immediately after".)
Owners(a) == {b \in Bricks : sessions[b] = a} \cup {s \in Scans : scan[s].by = a}
HandlesOwned ==
    /\ \A a \in Adapters : (adapter[a].device # None) <=> (Owners(a) # {})
    /\ \A a \in Adapters : Cardinality(Owners(a)) <= 1
    /\ \A b \in Bricks : sessions[b] # None => adapter[sessions[b]].device = b
    /\ \A s \in Scans : Suspended(s) => adapter[scan[s].by].device = scan[s].at
    /\ probing = {scan[s].at : s \in {s \in Scans : Suspended(s)}}
    /\ \A s, t \in Scans : Suspended(s) /\ scan[s].at = scan[t].at => s = t
    /\ \A a \in Adapters : adapter[a].pendingReply # None => adapter[a].isOpen

\* Every discover() returns, whatever the bricks do and do not answer: its
\* probes time out one after the other.  (usbTransportProvider.ts:53, :193.)
ScansSettle == \A s \in Scans : Suspended(s) ~> ~Suspended(s)

\* A reply that is delivered to the adapter whose request it answers settles
\* that request: padding is told from packets.  (usbHidAdapter.ts:266 "USB HID
\* reports are padded with trailing 0x00 - skip impossible headers".)
RepliesSettle ==
    [][\A a \in Adapters :
          wire[a] # <<>> /\ wire'[a] = Tail(wire[a])
            /\ adapter[a].pendingReply = Head(wire[a]).counter
          => adapter'[a].pendingReply = None]_vars
=============================================================================
