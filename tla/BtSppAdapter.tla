----------------------------- MODULE BtSppAdapter -----------------------------
(***************************************************************************)
(* BtSppAdapter objects (src/src/transports/btSppAdapter.ts), each with    *)
(* the serial port it opens, and the brick at the other end.               *)
(*                                                                         *)
(* Its users open an adapter once and do not close it before open() has    *)
(* returned.  What the brick sends before the listeners are attached stays *)
(* in the port.                                                            *)
(***************************************************************************)
EXTENDS Ev3Protocol

CONSTANTS
    Links,      \* identities of adapters
    Cuts        \* bound: how many bytes may be buffered of a packet that is cut

ASSUME LinkAssumption == None \notin Links /\ None \notin Int /\ Cuts \subseteq Nat \ {0}

VARIABLES
    link,       \* link[l]: the adapter's fields and where open() or close() is
    port,       \* port[l]: "closed", "open", or "lost" once the device is gone
    writing,    \* writing[l]: the callbacks of write() still to come
    asked,      \* asked[l]: packets the brick has still to answer
    incoming    \* incoming[l]: bytes on the way from the brick

lines == <<port, writing, asked, incoming>>
linkVars == <<link, lines>>

\* stage: "new", also once it is closed, when the identity is free for another
\* adapter; "opening", "asserting" (DTR) and "settling" in open(); "ready" with
\* the listeners attached; "closing" in close(); "refused" when the port opened
\* and its DTR could not be set.
Fields(stage, isOpen, receiveBuffer, pendingReply) ==
    [stage |-> stage, isOpen |-> isOpen, receiveBuffer |-> receiveBuffer,
     pendingReply |-> pendingReply]
New == Fields("new", FALSE, <<>>, None)

LinksInit ==
    /\ link = [l \in Links |-> New]
    /\ port = [l \in Links |-> "closed"]
    /\ writing = [l \in Links |-> 0]
    /\ asked = [l \in Links |-> <<>>]
    /\ incoming = [l \in Links |-> <<>>]

At(l, stage) == link[l].stage = stage
Stage(l, stage) == link' = [link EXCEPT ![l].stage = stage]

\* What the adapter tells the send() in flight, in this step: its reply, a
\* rejection, or nothing.
Reply(packet) == [kind |-> "reply", packet |-> packet]
Rejection == [kind |-> "rejection"]
Nothing == [kind |-> "nothing"]

\* doRejectPendingReply()
Rejects(l) == IF link[l].pendingReply = None THEN Nothing ELSE Rejection

\* doDrainPendingReply() of a buffer: the fields after it, and what it tells.
Drained(l, buffer) ==
    LET f == link[l]
        rest == Drain(f.pendingReply, buffer)
    IN IF f.pendingReply = None
       THEN [fields |-> Fields(f.stage, f.isOpen, buffer, None), says |-> Nothing]
       ELSE IF ~HasPacket(rest)
       THEN [fields |-> Fields(f.stage, f.isOpen, rest, f.pendingReply), says |-> Nothing]
       ELSE [fields |-> Fields(f.stage, f.isOpen, AfterFirst(rest), None),
             says |-> Reply(FirstPacket(rest))]

-----------------------------------------------------------------------------
(* open(), to each of its awaits.  assertDtr may be set or not.             *)

Open(l) == At(l, "new") /\ Stage(l, "opening") /\ UNCHANGED lines

\* A serial port has one user at a time.
PortOpens(l) ==
    /\ At(l, "opening") /\ \A other \in Links : port[other] # "open"
    /\ \E stage \in {"asserting", "settling"} : Stage(l, stage)
    /\ port' = [port EXCEPT ![l] = "open"]
    /\ UNCHANGED <<writing, asked, incoming>>

OpenFails(l) == At(l, "opening") /\ Stage(l, "new") /\ UNCHANGED lines

DtrSet(l) == At(l, "asserting") /\ Stage(l, "settling") /\ UNCHANGED lines

\* The port stays open, and nothing refers to it any more.
DtrFails(l) == At(l, "asserting") /\ Stage(l, "refused") /\ UNCHANGED lines

\* The delay is over: the fields are set and the listeners attached, whatever
\* became of the port meanwhile.
Settles(l) ==
    /\ At(l, "settling")
    /\ link' = [link EXCEPT ![l] = Fields("ready", TRUE, <<>>, None)]
    /\ UNCHANGED lines

-----------------------------------------------------------------------------

\* close(): the port is told to close; its callback or the grace period ends
\* the call.
Close(l) ==
    /\ link' = [link EXCEPT ![l] = Fields("closing", FALSE, <<>>, None)]
    /\ UNCHANGED lines

Closes(l) ==
    /\ At(l, "closing")
    /\ link' = [link EXCEPT ![l] = New]
    /\ port' = [port EXCEPT ![l] = "closed"]
    /\ writing' = [writing EXCEPT ![l] = 0]
    /\ asked' = [asked EXCEPT ![l] = <<>>]
    /\ incoming' = [incoming EXCEPT ![l] = <<>>]

\* send() gets past its refusals: port set and open, nothing in flight.
Sends(l) == link[l].isOpen /\ link[l].pendingReply = None

Send(l, counter, packet) ==
    /\ link' = [link EXCEPT ![l].pendingReply = counter]
    /\ writing' = [writing EXCEPT ![l] = @ + 1]
    /\ asked' = [asked EXCEPT ![l] = IF port[l] = "open" THEN Append(@, packet) ELSE @]
    /\ UNCHANGED <<port, incoming>>

-----------------------------------------------------------------------------
(* Callbacks and events, and what each tells the send() in flight.          *)

\* The write's callback: an error if the device is gone, else another look at
\* the buffer.
AfterWrite(l) ==
    IF port[l] = "open" THEN Drained(l, link[l].receiveBuffer)
    ELSE [fields |-> [link[l] EXCEPT !.pendingReply = None], says |-> Rejects(l)]

WriteCompletes(l) ==
    /\ writing[l] > 0 /\ At(l, "ready")
    /\ writing' = [writing EXCEPT ![l] = @ - 1]
    /\ link' = [link EXCEPT ![l] = AfterWrite(l).fields]
    /\ UNCHANGED <<port, asked, incoming>>

\* Mutant of AfterData: what has arrived is looked at only after a write.
AfterDataUnread(l, n) ==
    [fields |-> [link[l] EXCEPT !.receiveBuffer = @ \o SubSeq(incoming[l], 1, n)], says |-> Nothing]

\* 'data', with the next n bytes.
AfterData(l, n) == Drained(l, link[l].receiveBuffer \o SubSeq(incoming[l], 1, n))

DataArrives(l, n) ==
    /\ At(l, "ready") /\ port[l] = "open" /\ n \in 1..Len(incoming[l])
    /\ link' = [link EXCEPT ![l] = AfterData(l, n).fields]
    /\ incoming' = [incoming EXCEPT ![l] = SubSeq(@, n + 1, Len(@))]
    /\ UNCHANGED <<port, writing, asked>>

\* The device goes away: 'error' and 'close' reach handleFailure() if they are
\* listened to.
AfterLoss(l) ==
    IF At(l, "ready")
    THEN [fields |-> [link[l] EXCEPT !.isOpen = FALSE, !.pendingReply = None], says |-> Rejects(l)]
    ELSE [fields |-> link[l], says |-> Nothing]

PortDies(l) ==
    /\ port[l] = "open"
    /\ port' = [port EXCEPT ![l] = "lost"]
    /\ asked' = [asked EXCEPT ![l] = <<>>]
    /\ incoming' = [incoming EXCEPT ![l] = <<>>]
    /\ link' = [link EXCEPT ![l] = AfterLoss(l).fields]
    /\ UNCHANGED writing

\* The brick runs the oldest request and answers it, or refuses it.
BrickAnswers(l) ==
    LET r == DecodePacket(Head(asked[l]))
        direct == r.type = DirectCommandReply
    IN
    /\ asked[l] # <<>> /\ Decodes(Head(asked[l]))
    /\ asked' = [asked EXCEPT ![l] = Tail(@)]
    /\ \/ incoming' = [incoming EXCEPT ![l] = @ \o
              EncodePacket(r.messageCounter, IF direct THEN DirectReply ELSE SystemReply,
                           Answer(r.payload[1]))]
       \/ incoming' = [incoming EXCEPT ![l] = @ \o
              EncodePacket(r.messageCounter, IF direct THEN DirectReplyError ELSE SystemReplyError,
                           IF direct THEN <<>> ELSE <<1>>)]
    /\ UNCHANGED <<link, port, writing>>
=============================================================================
