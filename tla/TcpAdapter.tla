------------------------------ MODULE TcpAdapter ------------------------------
(***************************************************************************)
(* One TcpSocketAdapter (src/src/transports/tcpSocketAdapter.ts): the UDP  *)
(* beacon, the socket, the unlock handshake, the byte stream and the one   *)
(* request in flight, with the packet matching of pendingReply.ts.         *)
(*                                                                         *)
(* Bytes are tokens.  An answer to an unlock request is Accept (the text   *)
(* up to "Accept:EV3") or Deny, then TextEnd, the rest of the text with    *)
(* its blank line; a number is a reply packet with that message counter.   *)
(* A chunk is any number of tokens.  Text at the head of receiveBuffer is  *)
(* read as a packet length so large that no packet is extracted.           *)
(*                                                                         *)
(* Promise continuations run at once.  Sockets are Node's: a destroyed one *)
(* emits 'close' before another connection is set up, and no data.         *)
(***************************************************************************)
EXTENDS Naturals, Sequences, FiniteSets

CONSTANTS
    Sockets,            \* identities, reused once a socket has emitted 'close'
    None,
    Accept, Deny, TextEnd,  \* pieces of the answer to an unlock request
    Unlock,             \* the unlock request
    Counters,           \* message counters run from 0 to Counters - 1
    MaxBuffer,          \* MAX_RECEIVE_BUFFER_SIZE, in tokens
    MaxWire             \* bound: tokens on the way from the brick

ASSUME TcpAssumption ==
    /\ None \notin Sockets /\ None \notin Nat
    /\ {Accept, Deny, TextEnd, Unlock} \cap Nat = {}
    /\ Accept \notin {Deny, TextEnd, Unlock} /\ Deny \notin {TextEnd, Unlock}
    /\ TextEnd # Unlock
    /\ Counters \in Nat \ {0}
    /\ MaxBuffer \in Nat /\ MaxWire \in Nat

VARIABLES
    isOpen,             \* _isOpen
    closing,
    step,               \* where openInternal() is suspended; "none": no openPromise
    opening,            \* the socket openInternal() works on, or None
    socket,             \* this.socket, or None
    pendingReply,       \* expectedMessageCounter of the request in flight, or None
    handshakeBuffer,
    receiveBuffer,
    closeWaits,         \* sockets whose 'close' event a close() awaits
    counter,            \* the caller's message counter
    \* the sockets and the brick
    status,             \* status[s]
    unlocked,           \* sockets on which the brick sent its acceptance
    owed,               \* owed[s]: what the brick has still to answer, in order
    wire                \* wire[s]: tokens on the way to the adapter

adapterVars == <<isOpen, closing, step, opening, socket, pendingReply,
                 handshakeBuffer, receiveBuffer, closeWaits>>
netVars == <<status, unlocked, owed, wire>>
vars == <<adapterVars, counter, netVars>>

Packet == 0..(Counters - 1)
Unlocking == step \in {"unlock1", "unlock2"}

Token == {Accept, Deny, TextEnd} \cup Packet

TypeOK ==
    /\ isOpen \in BOOLEAN /\ closing \in BOOLEAN
    /\ step \in {"none", "beacon", "connecting", "unlock1", "unlock2"}
    /\ opening \in Sockets \cup {None}
    /\ socket \in Sockets \cup {None}
    /\ pendingReply \in Packet \cup {None}
    /\ handshakeBuffer \in Seq({Deny} \cup Packet)
    /\ receiveBuffer \in Seq(Token)
    /\ closeWaits \subseteq Sockets
    /\ counter \in Packet
    /\ status \in [Sockets -> {"free", "connecting", "live", "dead"}]
    /\ unlocked \subseteq Sockets
    /\ owed \in [Sockets -> Seq({Unlock} \cup Packet)]
    /\ wire \in [Sockets -> Seq(Token)]

Init ==
    /\ isOpen = FALSE
    /\ closing = FALSE
    /\ step = "none"
    /\ opening = None
    /\ socket = None
    /\ pendingReply = None
    /\ handshakeBuffer = <<>>
    /\ receiveBuffer = <<>>
    /\ closeWaits = {}
    /\ counter = 0
    /\ status = [s \in Sockets |-> "free"]
    /\ unlocked = {}
    /\ owed = [s \in Sockets |-> <<>>]
    /\ wire = [s \in Sockets |-> <<>>]

-----------------------------------------------------------------------------
(* Sockets and buffers.                                                     *)

Destroyed(st, s) == [st EXCEPT ![s] = IF @ = "live" THEN "dead" ELSE @]

\* Only a live socket carries anything: owed' and wire' are o and w there.
Carry(o, w) ==
    LET alive == {s \in Sockets : status'[s] = "live"}
    IN /\ owed' = [s \in Sockets |-> IF s \in alive THEN o[s] ELSE <<>>]
       /\ wire' = [s \in Sockets |-> IF s \in alive THEN w[s] ELSE <<>>]
       /\ unlocked' = unlocked \cap alive

Contains(tokens, t) == \E i \in 1..Len(tokens) : tokens[i] = t

\* Mutant: any answer unlocks.
IsAnyResponse(tokens) == Contains(tokens, Accept) \/ Contains(tokens, Deny)
IsAcceptResponse(tokens) == Contains(tokens, Accept)

\* Where the first blank line of a text ends, if it has one.
Markers(tokens) ==
    {i \in 1..Len(tokens) :
        tokens[i] = TextEnd /\ \A j \in 1..(i - 1) : tokens[j] # TextEnd}

After(tokens, n) == SubSeq(tokens, n + 1, Len(tokens))

Overflows(buffer) == Len(buffer) > MaxBuffer

\* drainPendingReply(): packets are taken off the buffer up to the one that
\* matches; without a request in flight they stay there.
Packets(buffer) ==
    {i \in 1..Len(buffer) : \A j \in 1..i : buffer[j] \in Packet}
DrainTo(buffer, expected) ==
    LET matches == {i \in Packets(buffer) : buffer[i] = expected}
    IN \/ /\ expected = None
          /\ pendingReply' = None
          /\ receiveBuffer' = buffer
       \/ /\ expected # None /\ matches = {}
          /\ pendingReply' = expected
          /\ receiveBuffer' = After(buffer, Cardinality(Packets(buffer)))
       \/ \E i \in matches :
             /\ \A j \in matches : i <= j
             /\ pendingReply' = None
             /\ receiveBuffer' = After(buffer, i)

-----------------------------------------------------------------------------
(* open().                                                                  *)

\* Mutant: open() does not look at openPromise.
OpenAgain(s) ==
    /\ ~isOpen
    /\ status[s] = "free"
    /\ opening' = s
    /\ status' = [status EXCEPT ![s] = "connecting"]
    /\ step' = "connecting"
    /\ UNCHANGED <<isOpen, closing, socket, pendingReply, handshakeBuffer, receiveBuffer,
                   closeWaits, counter, unlocked, owed, wire>>

StartConnect(s) ==
    /\ status[s] = "free"
    /\ opening' = s
    /\ status' = [status EXCEPT ![s] = "connecting"]
    /\ step' = "connecting"
    /\ UNCHANGED <<isOpen, closing, socket, pendingReply, handshakeBuffer, receiveBuffer,
                   closeWaits, counter, unlocked, owed, wire>>

Open(s) ==
    /\ ~isOpen /\ step = "none"
    /\ StartConnect(s)

\* useDiscovery is set.
OpenWithDiscovery ==
    /\ ~isOpen /\ step = "none"
    /\ step' = "beacon"
    /\ UNCHANGED <<isOpen, closing, opening, socket, pendingReply, handshakeBuffer,
                   receiveBuffer, closeWaits, counter, netVars>>

\* waitForBeaconAndAck() settles: a beacon came, or the host is used.
BeaconEnds(s) == step = "beacon" /\ StartConnect(s)

\* No beacon, and no host is configured.
BeaconFails ==
    /\ step = "beacon"
    /\ step' = "none"
    /\ UNCHANGED <<isOpen, closing, opening, socket, pendingReply, handshakeBuffer,
                   receiveBuffer, closeWaits, counter, netVars>>

Connects ==
    /\ step = "connecting"
    /\ \A s \in Sockets : status[s] # "dead"
    /\ step' = "unlock1"
    /\ socket' = opening
    /\ handshakeBuffer' = <<>>
    /\ receiveBuffer' = <<>>
    /\ status' = [status EXCEPT ![opening] = "live"]
    /\ Carry([owed EXCEPT ![opening] = <<Unlock>>], wire)
    /\ UNCHANGED <<isOpen, closing, opening, pendingReply, closeWaits, counter>>

\* connectSocket() rejects: an error or its timeout.
ConnectFails ==
    /\ step = "connecting"
    /\ step' = "none"
    /\ opening' = None
    /\ status' = [status EXCEPT ![opening] = "free"]
    /\ UNCHANGED <<isOpen, closing, socket, pendingReply, handshakeBuffer, receiveBuffer,
                   closeWaits, counter, unlocked, owed, wire>>

\* Mutant: the first candidate follows the second.
CandidateRepeats(st) ==
    /\ Unlocking
    /\ step' = IF step = "unlock1" THEN "unlock2" ELSE "unlock1"
    /\ status' = st
    /\ Carry(owed, wire)
    /\ UNCHANGED <<opening, socket>>

\* A candidate of performUnlockHandshake() fails: the next one is written, or
\* open() destroys the socket and rejects.  st is the status of the sockets.
CandidateFails(st) ==
    \/ /\ step = "unlock1"
       /\ step' = "unlock2"
       /\ status' = st
       /\ Carry([owed EXCEPT ![opening] = Append(@, Unlock)], wire)
       /\ UNCHANGED <<opening, socket>>
    \/ /\ step = "unlock2"
       /\ step' = "none"
       /\ opening' = None
       /\ socket' = None
       /\ status' = Destroyed(st, opening)
       /\ Carry(owed, wire)

\* The timeout of sendUnlockRequest(), or its write fails.
UnlockFails ==
    /\ CandidateFails(status)
    /\ UNCHANGED <<isOpen, closing, pendingReply, handshakeBuffer, receiveBuffer,
                   closeWaits, counter>>

-----------------------------------------------------------------------------
(* close() and failures.                                                    *)

Closes ==
    LET alive == socket # None /\ status[socket] = "live"
        st == IF alive THEN Destroyed(status, socket) ELSE status
    IN /\ isOpen' = FALSE
       /\ pendingReply' = None
       /\ handshakeBuffer' = <<>>
       /\ receiveBuffer' = <<>>
       /\ closing' = alive
       /\ closeWaits' = IF alive THEN closeWaits \cup {socket} ELSE closeWaits
       /\ socket' = None
       /\ status' = st
       /\ step' = IF step = "unlock1" THEN "unlock2" ELSE IF step = "unlock2" THEN "none" ELSE step
       /\ opening' = IF step = "unlock2" THEN None ELSE opening
       /\ Carry(owed, wire)
       /\ UNCHANGED counter

Close == Closes

\* The grace period of a close() runs out.
CloseGivesUp(s) ==
    /\ s \in closeWaits
    /\ closeWaits' = closeWaits \ {s}
    /\ closing' = FALSE
    /\ UNCHANGED <<isOpen, step, opening, socket, pendingReply, handshakeBuffer,
                   receiveBuffer, counter, netVars>>

\* Mutant: the request in flight is not rejected.
FailureKeepingReply(st) ==
    IF closing THEN /\ status' = st
                    /\ Carry(owed, wire)
                    /\ UNCHANGED <<isOpen, pendingReply, step, opening, socket>>
    ELSE /\ isOpen' = FALSE
         /\ UNCHANGED pendingReply
         /\ IF Unlocking THEN CandidateFails(st)
            ELSE status' = st /\ Carry(owed, wire) /\ UNCHANGED <<step, opening, socket>>

\* handleSocketFailure()
HandleSocketFailure(st) ==
    IF closing THEN /\ status' = st
                    /\ Carry(owed, wire)
                    /\ UNCHANGED <<isOpen, pendingReply, step, opening, socket>>
    ELSE /\ isOpen' = FALSE
         /\ pendingReply' = None
         /\ IF Unlocking THEN CandidateFails(st)
            ELSE status' = st /\ Carry(owed, wire) /\ UNCHANGED <<step, opening, socket>>

\* A live socket breaks; the adapter's listeners hear of it.
SocketFails(s) ==
    /\ status[s] = "live"
    /\ HandleSocketFailure(Destroyed(status, s))
    /\ UNCHANGED <<closing, handshakeBuffer, receiveBuffer, closeWaits, counter>>

\* The 'close' event of a destroyed socket.  A close() that awaits it goes on
\* after the other listeners.
SocketCloses(s) ==
    /\ status[s] = "dead"
    /\ HandleSocketFailure([status EXCEPT ![s] = "free"])
    /\ closing' = (closing /\ s \notin closeWaits)
    /\ closeWaits' = closeWaits \ {s}
    /\ UNCHANGED <<handshakeBuffer, receiveBuffer, counter>>

-----------------------------------------------------------------------------
(* Requests, the brick and the stream.                                      *)

\* The provider numbers the request, the adapter writes it.
Send ==
    /\ isOpen /\ socket # None /\ status[socket] = "live"
    /\ pendingReply = None
    /\ counter' = (counter + 1) % Counters
    /\ pendingReply' = counter'
    /\ owed' = [owed EXCEPT ![socket] = Append(@, counter')]
    /\ Len(owed[socket]) < MaxWire
    /\ UNCHANGED <<isOpen, closing, step, opening, socket, handshakeBuffer, receiveBuffer,
                   closeWaits, status, unlocked, wire>>

\* The write callback of send().
WriteEnds ==
    /\ pendingReply # None
    /\ DrainTo(receiveBuffer, pendingReply)
    /\ UNCHANGED <<isOpen, closing, step, opening, socket, handshakeBuffer, closeWaits,
                   counter, netVars>>

\* The caller aborts, or the write fails.
SendRejected ==
    /\ pendingReply # None
    /\ pendingReply' = None
    /\ UNCHANGED <<isOpen, closing, step, opening, socket, handshakeBuffer, receiveBuffer,
                   closeWaits, counter, netVars>>

\* The brick answers, or never will.
BrickAnswers(s) ==
    /\ status[s] = "live"
    /\ owed[s] # <<>>
    /\ owed' = [owed EXCEPT ![s] = Tail(@)]
    /\ \/ UNCHANGED <<wire, unlocked>>
       \/ /\ Head(owed[s]) = Unlock
          /\ Len(wire[s]) + 2 <= MaxWire
          /\ \/ /\ wire' = [wire EXCEPT ![s] = @ \o <<Accept, TextEnd>>]
                /\ unlocked' = unlocked \cup {s}
             \/ /\ wire' = [wire EXCEPT ![s] = @ \o <<Deny, TextEnd>>]
                /\ UNCHANGED unlocked
       \/ /\ Head(owed[s]) # Unlock
          /\ Len(wire[s]) < MaxWire
          /\ wire' = [wire EXCEPT ![s] = Append(@, Head(owed[s]))]
          /\ UNCHANGED unlocked
    /\ UNCHANGED <<adapterVars, counter, status>>

\* onSocketData() while a handshake waits for text; w is what stays on the way.
HandshakeData(text, w) ==
    /\ Unlocking
    /\ \/ /\ IsAcceptResponse(text)
          /\ handshakeBuffer' = <<>>
          /\ isOpen' = TRUE
          /\ step' = "none"
          /\ opening' = None
          /\ UNCHANGED <<socket, receiveBuffer, status>>
          /\ Carry(owed, w)
       \/ /\ ~IsAcceptResponse(text) /\ ~Contains(text, TextEnd)
          /\ handshakeBuffer' = text
          /\ UNCHANGED <<isOpen, step, opening, socket, receiveBuffer, status>>
          /\ Carry(owed, w)
       \/ /\ ~IsAcceptResponse(text)
          /\ \E i \in Markers(text) : receiveBuffer' = receiveBuffer \o After(text, i)
          /\ handshakeBuffer' = <<>>
          /\ UNCHANGED isOpen
          /\ \/ /\ step = "unlock1"
                /\ step' = "unlock2"
                /\ UNCHANGED <<opening, socket, status>>
                /\ Carry([owed EXCEPT ![opening] = Append(@, Unlock)], w)
             \/ /\ step = "unlock2"
                /\ step' = "none"
                /\ opening' = None
                /\ socket' = None
                /\ status' = Destroyed(status, opening)
                /\ Carry(owed, w)
    /\ UNCHANGED <<closing, pendingReply, closeWaits, counter>>

\* The 'data' event: n tokens that had arrived are handed over as one chunk.
DataArrives(s, n) ==
    LET chunk == SubSeq(wire[s], 1, n)
        rest == [wire EXCEPT ![s] = After(@, n)]
        buffer == receiveBuffer \o chunk
    IN /\ status[s] = "live"
       /\ \/ HandshakeData(handshakeBuffer \o chunk, rest)
          \/ /\ ~Unlocking /\ Overflows(buffer)
             /\ Closes
          \/ /\ ~Unlocking /\ ~Overflows(buffer)
             /\ DrainTo(buffer, pendingReply)
             /\ wire' = rest
             /\ UNCHANGED <<isOpen, closing, step, opening, socket, handshakeBuffer,
                            closeWaits, counter, status, unlocked, owed>>

-----------------------------------------------------------------------------
Next ==
    \/ OpenWithDiscovery
    \/ BeaconFails
    \/ Connects
    \/ ConnectFails
    \/ UnlockFails
    \/ Close
    \/ Send
    \/ WriteEnds
    \/ SendRejected
    \/ \E s \in Sockets :
           \/ Open(s)
           \/ BeaconEnds(s)
           \/ CloseGivesUp(s)
           \/ SocketFails(s)
           \/ SocketCloses(s)
           \/ BrickAnswers(s)
           \/ \E n \in 1..Len(wire[s]) : DataArrives(s, n)

Spec == Init /\ [][Next]_vars

\* The timers of open() and the events of destroyed sockets.  Nothing is
\* assumed of the brick, of the network or of the caller.
Fairness ==
    /\ WF_vars(BeaconFails \/ \E s \in Sockets : BeaconEnds(s))
    /\ WF_vars(ConnectFails)
    /\ WF_vars(UnlockFails)
    /\ \A s \in Sockets : WF_vars(SocketCloses(s))

FairSpec == Spec /\ Fairness

-----------------------------------------------------------------------------
(* Properties.                                                              *)

\* An adapter that says it is open has a live socket on which the brick
\* accepted it: neither a late answer or event of another socket, nor an
\* open() suspended during close(), makes it look open without one.
OpenIsUnlocked ==
    isOpen => /\ socket # None
              /\ status[socket] = "live"
              /\ socket \in unlocked

\* A request is in flight only on an open adapter: close() and every failure
\* reject it, so that no caller waits on a socket that is gone.
NoSendStranded == pendingReply # None => isOpen

\* There is one connection at a time, however open(), close() and failures
\* overlap, and never one the adapter has lost sight of.
OneSocket ==
    \A s \in Sockets :
        status[s] \in {"connecting", "live"} => s = socket \/ s = opening

\* Every open() settles, whatever the brick does and whoever closes meanwhile.
OpenSettles == step # "none" ~> step = "none"
=============================================================================
