--------------------------- MODULE TcpAdapterProofs ---------------------------
(***************************************************************************)
(* What TcpAdapter guarantees for any number of sockets, counters and      *)
(* tokens on the way.                                                      *)
(***************************************************************************)
EXTENDS TcpAdapter, FiniteSetTheorems, TLAPS

\* The sockets: a live one excludes one whose 'close' event is outstanding,
\* is this.socket, and serves the handshake or the open adapter.
Live(s) == status[s] = "live"

SocketsOK ==
    /\ \A s, x \in Sockets : Live(s) => status[x] # "dead"
    /\ \A s \in Sockets :
          Live(s) => socket = s /\ (isOpen \/ (Unlocking /\ opening = s))
    /\ \A s \in Sockets : status[s] = "connecting" => opening = s /\ step = "connecting"

\* Where open() is suspended.
StepsOK ==
    /\ step \in {"none", "beacon"} => opening = None
    /\ step = "connecting" => opening # None /\ status[opening] = "connecting"
    /\ Unlocking => opening # None /\ socket \in {opening, None}
    /\ isOpen => step = "none"

\* close() waits for sockets that are destroyed, and `closing` says so.
ClosingOK ==
    /\ \A s \in closeWaits : status[s] = "dead"
    /\ closing => closeWaits # {}

\* An acceptance on the way is one the brick gave.
StreamOK == \A s \in Sockets : Contains(wire[s], Accept) => s \in unlocked

\* The inductive invariant.
IInv ==
    /\ TypeOK
    /\ SocketsOK
    /\ StepsOK
    /\ ClosingOK
    /\ StreamOK
    /\ OpenIsUnlocked
    /\ NoSendStranded

-----------------------------------------------------------------------------
(* Lemmas.                                                                  *)

\* What is carried on is typed, and an acceptance in it is one the brick gave.
LEMMA CarryFacts ==
    ASSUME NEW o \in [Sockets -> Seq({Unlock} \cup Packet)],
           NEW w \in [Sockets -> Seq(Token)],
           Carry(o, w),
           \A s \in Sockets : Contains(w[s], Accept) => s \in unlocked
    PROVE  /\ owed' \in [Sockets -> Seq({Unlock} \cup Packet)]
           /\ wire' \in [Sockets -> Seq(Token)]
           /\ unlocked' \subseteq Sockets
           /\ \A s \in Sockets : s \in unlocked' <=> s \in unlocked /\ Live(s)'
           /\ StreamOK'
  <1>1. <<>> \in Seq({Unlock} \cup Packet) /\ <<>> \in Seq(Token)
    OBVIOUS
  <1>2. owed' \in [Sockets -> Seq({Unlock} \cup Packet)]
    BY <1>1 DEF Carry
  <1>3. wire' \in [Sockets -> Seq(Token)]
    BY <1>1 DEF Carry
  <1>4. \A s \in Sockets : s \in unlocked' <=> s \in unlocked /\ Live(s)'
    BY DEF Carry, Live
  <1>5. unlocked' \subseteq Sockets
    BY DEF Carry
  <1>6. ASSUME NEW s \in Sockets, Contains(wire'[s], Accept)
        PROVE  s \in unlocked'
    <2>1. ~Contains(<<>>, Accept)
      BY DEF Contains
    <2>2. Live(s)' /\ wire'[s] = w[s]
      BY <1>6, <2>1 DEF Carry, Live
    <2> QED
      BY <1>4, <1>6, <2>2
  <1>7. StreamOK'
    BY <1>6 DEF StreamOK, Contains
  <1> QED
    BY <1>2, <1>3, <1>4, <1>5, <1>7

\* The rest of a sequence of tokens.
LEMMA AfterType ==
    ASSUME NEW T, NEW tokens \in Seq(T), NEW n \in Nat
    PROVE  After(tokens, n) \in Seq(T)
  BY DEF After

LEMMA PacketsCount ==
    ASSUME NEW buffer \in Seq(Token)
    PROVE  Cardinality(Packets(buffer)) \in Nat
  <1>1. Len(buffer) \in Nat
    OBVIOUS
  <1>2. IsFiniteSet(1..Len(buffer))
    BY <1>1, FS_Interval
  <1>3. Packets(buffer) \subseteq 1..Len(buffer)
    BY DEF Packets
  <1> QED
    BY <1>2, <1>3, FS_Subset, FS_CardinalityType

\* drainPendingReply() takes packets off the buffer and answers or keeps the
\* request in flight.
LEMMA DrainFacts ==
    ASSUME NEW buffer \in Seq(Token), NEW expected \in Packet \cup {None},
           DrainTo(buffer, expected)
    PROVE  /\ pendingReply' \in {expected, None}
           /\ receiveBuffer' \in Seq(Token)
  <1>1. CASE expected = None /\ pendingReply' = None /\ receiveBuffer' = buffer
    BY <1>1
  <1>2. CASE /\ pendingReply' = expected
             /\ receiveBuffer' = After(buffer, Cardinality(Packets(buffer)))
    BY <1>2, AfterType, PacketsCount
  <1>3. ASSUME NEW i \in Packets(buffer), pendingReply' = None,
               receiveBuffer' = After(buffer, i)
        PROVE  receiveBuffer' \in Seq(Token)
    <2>1. i \in Nat
      BY DEF Packets
    <2> QED
      BY <1>3, <2>1, AfterType
  <1> QED
    BY <1>1, <1>2, <1>3 DEF DrainTo

LEMMA InitIInv == Init => IInv
  <1> SUFFICES ASSUME Init PROVE IInv
    OBVIOUS
  <1>1. /\ <<>> \in Seq({Unlock} \cup Packet) /\ <<>> \in Seq(Token)
        /\ <<>> \in Seq({Deny} \cup Packet)
    OBVIOUS
  <1>2. 0 \in Packet
    BY TcpAssumption DEF Packet
  <1>3. TypeOK
    BY <1>1, <1>2 DEF Init, TypeOK
  <1>4. StreamOK
    BY DEF Init, StreamOK, Contains
  <1> QED
    BY <1>3, <1>4 DEF Init, IInv, SocketsOK, StepsOK, ClosingOK, OpenIsUnlocked,
                      NoSendStranded, Live, Unlocking

-----------------------------------------------------------------------------
(* Every action keeps the invariant.                                        *)

\* Nothing is live while open() has not set up a connection.
LEMMA NothingLive ==
    ASSUME IInv, ~isOpen, ~Unlocking
    PROVE  \A s \in Sockets : ~Live(s)
  BY DEF IInv, SocketsOK

LEMMA StartConnectKeeps ==
    ASSUME IInv, NEW s \in Sockets, StartConnect(s), ~isOpen,
           step \in {"none", "beacon"}
    PROVE  IInv'
  <1> USE DEF StartConnect
  <1>1. TypeOK'
    BY DEF IInv, TypeOK
  <1>2. \A x \in Sockets : ~Live(x) /\ (Live(x)' => FALSE)
    BY NothingLive DEF IInv, TypeOK, Unlocking, Live
  <1>3. \A x \in Sockets : status'[x] = IF x = s THEN "connecting" ELSE status[x]
    BY DEF IInv, TypeOK
  <1>4. SocketsOK'
    BY <1>2, <1>3 DEF IInv, SocketsOK, Unlocking
  <1>5. StepsOK'
    BY <1>3, TcpAssumption DEF IInv, StepsOK, Unlocking
  <1>6. ClosingOK'
    BY <1>3 DEF IInv, TypeOK, ClosingOK
  <1>7. StreamOK' /\ OpenIsUnlocked' /\ NoSendStranded'
    BY DEF IInv, StreamOK, Contains, OpenIsUnlocked, NoSendStranded
  <1> QED
    BY <1>1, <1>4, <1>5, <1>6, <1>7 DEF IInv

LEMMA BeaconKeeps ==
    ASSUME IInv, OpenWithDiscovery \/ BeaconFails
    PROVE  IInv'
  <1> USE DEF OpenWithDiscovery, BeaconFails, netVars
  <1>1. TypeOK'
    BY DEF IInv, TypeOK
  <1>2. SocketsOK' /\ StepsOK' /\ ClosingOK'
    BY DEF IInv, SocketsOK, StepsOK, ClosingOK, Unlocking, Live
  <1>3. StreamOK' /\ OpenIsUnlocked' /\ NoSendStranded'
    BY DEF IInv, StreamOK, Contains, OpenIsUnlocked, NoSendStranded, StepsOK
  <1> QED
    BY <1>1, <1>2, <1>3 DEF IInv

LEMMA ConnectsKeeps ==
    ASSUME IInv, Connects
    PROVE  IInv'
  <1> DEFINE o == [owed EXCEPT ![opening] = <<Unlock>>]
  <1>0. opening \in Sockets /\ step = "connecting" /\ ~isOpen
    BY DEF Connects, IInv, TypeOK, StepsOK
  <1>1. o \in [Sockets -> Seq({Unlock} \cup Packet)]
    BY <1>0 DEF IInv, TypeOK
  <1>2. Carry(o, wire)
    BY DEF Connects
  <1>3. /\ owed' \in [Sockets -> Seq({Unlock} \cup Packet)]
        /\ wire' \in [Sockets -> Seq(Token)]
        /\ unlocked' \subseteq Sockets
        /\ StreamOK'
    <2> HIDE DEF o
    <2> QED
      BY <1>1, <1>2, CarryFacts DEF IInv, TypeOK, StreamOK
  <1>4. \A x \in Sockets : status'[x] = IF x = opening THEN "live" ELSE status[x]
    BY <1>0 DEF Connects, IInv, TypeOK
  <1>5. <<>> \in Seq({Deny} \cup Packet) /\ <<>> \in Seq(Token)
    OBVIOUS
  <1>6. TypeOK'
    BY <1>0, <1>3, <1>5 DEF Connects, IInv, TypeOK
  <1>7. \A x \in Sockets : ~Live(x)
    BY <1>0, NothingLive DEF Unlocking
  <1>8. SocketsOK'
    BY <1>0, <1>4, <1>7 DEF Connects, IInv, SocketsOK, Unlocking, Live
  <1>9. StepsOK'
    BY <1>0, TcpAssumption DEF Connects, StepsOK, Unlocking
  <1>10. closeWaits = {}
    BY DEF Connects, IInv, TypeOK, ClosingOK
  <1>11. ClosingOK'
    BY <1>10 DEF Connects, IInv, ClosingOK
  <1>12. OpenIsUnlocked' /\ NoSendStranded'
    BY <1>0 DEF Connects, IInv, OpenIsUnlocked, NoSendStranded
  <1> QED
    BY <1>3, <1>6, <1>8, <1>9, <1>11, <1>12 DEF IInv

LEMMA ConnectFailsKeeps ==
    ASSUME IInv, ConnectFails
    PROVE  IInv'
  <1> USE DEF ConnectFails
  <1>0. opening \in Sockets
    BY DEF IInv, TypeOK, StepsOK
  <1>1. TypeOK'
    BY <1>0 DEF IInv, TypeOK
  <1>2. \A x \in Sockets : status'[x] = IF x = opening THEN "free" ELSE status[x]
    BY <1>0 DEF IInv, TypeOK
  <1>3. ~isOpen /\ status[opening] = "connecting"
    BY DEF IInv, StepsOK
  <1>4. SocketsOK' /\ StepsOK'
    BY <1>0, <1>2, <1>3 DEF IInv, SocketsOK, StepsOK, Unlocking, Live
  <1>5. ClosingOK'
    BY <1>0, <1>2, <1>3 DEF IInv, TypeOK, ClosingOK
  <1>6. StreamOK' /\ OpenIsUnlocked' /\ NoSendStranded'
    BY <1>3 DEF IInv, StreamOK, Contains, OpenIsUnlocked, NoSendStranded
  <1> QED
    BY <1>1, <1>4, <1>5, <1>6 DEF IInv

\* The sockets keep their types when one of them is destroyed.
LEMMA DestroyedFacts ==
    ASSUME NEW st \in [Sockets -> {"free", "connecting", "live", "dead"}],
           NEW s \in Sockets
    PROVE  /\ Destroyed(st, s) \in [Sockets -> {"free", "connecting", "live", "dead"}]
           /\ \A x \in Sockets : Destroyed(st, s)[x] =
                  IF x = s /\ st[x] = "live" THEN "dead" ELSE st[x]
  BY DEF Destroyed

\* Nothing on the way changes but what dies with its socket.
LEMMA CarryOn ==
    ASSUME IInv, Carry(owed, wire)
    PROVE  /\ owed' \in [Sockets -> Seq({Unlock} \cup Packet)]
           /\ wire' \in [Sockets -> Seq(Token)]
           /\ unlocked' \subseteq Sockets
           /\ \A s \in Sockets : s \in unlocked' <=> s \in unlocked /\ Live(s)'
           /\ StreamOK'
  BY CarryFacts DEF IInv, TypeOK, StreamOK

\* A failed candidate: the next one is on its way, or the socket is destroyed.
LEMMA CandidateFacts ==
    ASSUME IInv, NEW st \in [Sockets -> {"free", "connecting", "live", "dead"}],
           CandidateFails(st)
    PROVE  /\ owed' \in [Sockets -> Seq({Unlock} \cup Packet)]
           /\ wire' \in [Sockets -> Seq(Token)]
           /\ unlocked' \subseteq Sockets
           /\ StreamOK'
           /\ status' \in [Sockets -> {"free", "connecting", "live", "dead"}]
           /\ opening \in Sockets /\ Unlocking
           /\ \/ step = "unlock1" /\ step' = "unlock2" /\ status' = st
                 /\ opening' = opening /\ socket' = socket
              \/ /\ step = "unlock2" /\ step' = "none"
                 /\ opening' = None /\ socket' = None
                 /\ \A x \in Sockets : status'[x] =
                        IF x = opening /\ st[x] = "live" THEN "dead" ELSE st[x]
  <1>1. opening \in Sockets /\ Unlocking
    BY DEF CandidateFails, IInv, TypeOK, StepsOK, Unlocking
  <1>2. CASE step = "unlock1"
    <2> DEFINE o == [owed EXCEPT ![opening] = Append(@, Unlock)]
    <2>1. o \in [Sockets -> Seq({Unlock} \cup Packet)]
      BY <1>1 DEF IInv, TypeOK
    <2>2. Carry(o, wire) /\ step' = "unlock2" /\ status' = st
          /\ opening' = opening /\ socket' = socket
      BY <1>2 DEF CandidateFails
    <2> HIDE DEF o
    <2> QED
      BY <1>1, <1>2, <2>1, <2>2, CarryFacts DEF IInv, TypeOK, StreamOK
  <1>3. CASE step = "unlock2"
    <2>1. /\ Carry(owed, wire) /\ step' = "none" /\ status' = Destroyed(st, opening)
          /\ opening' = None /\ socket' = None
      BY <1>3 DEF CandidateFails
    <2> QED
      BY <1>1, <1>3, <2>1, CarryOn, DestroyedFacts
  <1> QED
    BY <1>1, <1>2, <1>3 DEF Unlocking

LEMMA UnlockFailsKeeps ==
    ASSUME IInv, UnlockFails
    PROVE  IInv'
  <1> USE DEF UnlockFails
  <1>1. status \in [Sockets -> {"free", "connecting", "live", "dead"}]
    BY DEF IInv, TypeOK
  <1>2. /\ owed' \in [Sockets -> Seq({Unlock} \cup Packet)]
        /\ wire' \in [Sockets -> Seq(Token)]
        /\ unlocked' \subseteq Sockets
        /\ StreamOK'
        /\ status' \in [Sockets -> {"free", "connecting", "live", "dead"}]
        /\ opening \in Sockets /\ Unlocking
        /\ \/ step = "unlock1" /\ step' = "unlock2" /\ status' = status
              /\ opening' = opening /\ socket' = socket
           \/ /\ step = "unlock2" /\ step' = "none"
              /\ opening' = None /\ socket' = None
              /\ \A x \in Sockets : status'[x] =
                     IF x = opening /\ status[x] = "live" THEN "dead" ELSE status[x]
    BY <1>1, CandidateFacts
  <1>3. ~isOpen /\ pendingReply = None
    BY <1>2 DEF IInv, StepsOK, NoSendStranded, Unlocking
  <1>4. TypeOK'
    BY <1>2 DEF IInv, TypeOK
  <1>5. \A x \in Sockets : Live(x) => x = opening
    BY <1>3 DEF IInv, SocketsOK
  <1>6. SocketsOK'
    BY <1>2, <1>3, <1>5 DEF IInv, SocketsOK, Unlocking, Live
  <1>7. StepsOK'
    BY <1>2, <1>3 DEF IInv, StepsOK, Unlocking
  <1>8. ClosingOK'
    BY <1>2 DEF IInv, TypeOK, ClosingOK
  <1>9. OpenIsUnlocked' /\ NoSendStranded'
    BY <1>3 DEF OpenIsUnlocked, NoSendStranded
  <1> QED
    BY <1>2, <1>4, <1>6, <1>7, <1>8, <1>9 DEF IInv

\* handleSocketFailure() when no live socket is left.
LEMMA FailureKeeps ==
    ASSUME IInv, NEW st \in [Sockets -> {"free", "connecting", "live", "dead"}],
           HandleSocketFailure(st),
           closing => ~isOpen,
           \A x \in Sockets : st[x] # "live",
           \A x \in Sockets : st[x] = "connecting" <=> status[x] = "connecting",
           UNCHANGED <<handshakeBuffer, receiveBuffer, counter>>,
           closeWaits' \subseteq closeWaits, closing' \in BOOLEAN
    PROVE  /\ TypeOK' /\ SocketsOK' /\ StepsOK' /\ StreamOK'
           /\ OpenIsUnlocked' /\ NoSendStranded'
           /\ \A x \in Sockets : status'[x] = st[x]
  <1>1. ~isOpen' /\ isOpen' \in BOOLEAN /\ pendingReply' = None
    BY DEF HandleSocketFailure, IInv, TypeOK, NoSendStranded
  <1>2. \/ /\ status' = st /\ Carry(owed, wire) /\ UNCHANGED <<step, opening, socket>>
           /\ closing \/ ~Unlocking
        \/ ~closing /\ CandidateFails(st)
    BY DEF HandleSocketFailure
  <1>3. CASE /\ status' = st /\ Carry(owed, wire) /\ UNCHANGED <<step, opening, socket>>
             /\ closing \/ ~Unlocking
    <2>1. TypeOK' /\ StreamOK'
      BY <1>1, <1>3, CarryOn DEF IInv, TypeOK
    <2>2. SocketsOK'
      BY <1>3 DEF IInv, SocketsOK, Live
    <2>3. StepsOK'
      BY <1>1, <1>3 DEF IInv, StepsOK, TypeOK, Unlocking
    <2> QED
      BY <1>1, <1>3, <2>1, <2>2, <2>3 DEF OpenIsUnlocked, NoSendStranded
  <1>4. CASE ~closing /\ CandidateFails(st)
    <2>1. /\ owed' \in [Sockets -> Seq({Unlock} \cup Packet)]
          /\ wire' \in [Sockets -> Seq(Token)]
          /\ unlocked' \subseteq Sockets
          /\ StreamOK'
          /\ status' \in [Sockets -> {"free", "connecting", "live", "dead"}]
          /\ opening \in Sockets /\ Unlocking
          /\ \/ step = "unlock1" /\ step' = "unlock2" /\ status' = st
                /\ opening' = opening /\ socket' = socket
             \/ /\ step = "unlock2" /\ step' = "none"
                /\ opening' = None /\ socket' = None
                /\ \A x \in Sockets : status'[x] =
                       IF x = opening /\ st[x] = "live" THEN "dead" ELSE st[x]
      BY <1>4, CandidateFacts
    <2>2. \A x \in Sockets : status'[x] = st[x]
      BY <2>1
    <2>3. TypeOK'
      BY <1>1, <2>1 DEF IInv, TypeOK
    <2>4. SocketsOK'
      BY <2>1, <2>2 DEF IInv, SocketsOK, Unlocking, Live
    <2>5. StepsOK'
      BY <1>1, <2>1 DEF IInv, StepsOK, Unlocking
    <2> QED
      BY <1>1, <1>4, <2>1, <2>2, <2>3, <2>4, <2>5 DEF OpenIsUnlocked, NoSendStranded
  <1> QED
    BY <1>2, <1>3, <1>4

LEMMA SocketFailsKeeps ==
    ASSUME IInv, NEW s \in Sockets, SocketFails(s)
    PROVE  IInv'
  <1> DEFINE st == Destroyed(status, s)
  <1>1. /\ st \in [Sockets -> {"free", "connecting", "live", "dead"}]
        /\ \A x \in Sockets : st[x] =
               IF x = s /\ status[x] = "live" THEN "dead" ELSE status[x]
    BY DestroyedFacts DEF IInv, TypeOK
  <1>2. Live(s) /\ \A x \in Sockets : Live(x) => x = s
    BY DEF SocketFails, IInv, SocketsOK, Live
  <1>3. closeWaits = {} /\ ~closing
    BY <1>2 DEF IInv, TypeOK, SocketsOK, ClosingOK
  <1>4. HandleSocketFailure(st)
    BY DEF SocketFails
  <1>5. /\ \A x \in Sockets : st[x] # "live"
        /\ \A x \in Sockets : st[x] = "connecting" <=> status[x] = "connecting"
    BY <1>1, <1>2 DEF Live
  <1> HIDE DEF st
  <1>6. /\ TypeOK' /\ SocketsOK' /\ StepsOK' /\ StreamOK'
        /\ OpenIsUnlocked' /\ NoSendStranded'
    BY <1>1, <1>3, <1>4, <1>5, FailureKeeps DEF SocketFails, IInv, TypeOK
  <1>7. ClosingOK'
    BY <1>3 DEF SocketFails, ClosingOK
  <1> QED
    BY <1>6, <1>7 DEF IInv

LEMMA SocketClosesKeeps ==
    ASSUME IInv, NEW s \in Sockets, SocketCloses(s)
    PROVE  IInv'
  <1> DEFINE st == [status EXCEPT ![s] = "free"]
  <1>1. /\ st \in [Sockets -> {"free", "connecting", "live", "dead"}]
        /\ \A x \in Sockets : st[x] = IF x = s THEN "free" ELSE status[x]
        /\ status[s] = "dead"
    BY DEF IInv, TypeOK, SocketCloses
  <1>2. (\A x \in Sockets : ~Live(x)) /\ ~isOpen
    BY <1>1 DEF IInv, TypeOK, SocketsOK, OpenIsUnlocked, Live
  <1>3. HandleSocketFailure(st)
    BY DEF SocketCloses
  <1>4. /\ \A x \in Sockets : st[x] # "live"
        /\ \A x \in Sockets : st[x] = "connecting" <=> status[x] = "connecting"
    BY <1>1, <1>2 DEF Live
  <1>5. /\ closing' \in BOOLEAN /\ closeWaits' \subseteq closeWaits
        /\ UNCHANGED <<handshakeBuffer, receiveBuffer, counter>>
    BY DEF SocketCloses, IInv, TypeOK
  <1> HIDE DEF st
  <1>6. /\ TypeOK' /\ SocketsOK' /\ StepsOK' /\ StreamOK'
        /\ OpenIsUnlocked' /\ NoSendStranded'
        /\ \A x \in Sockets : status'[x] = st[x]
    BY <1>1, <1>2, <1>3, <1>4, <1>5, FailureKeeps
  <1>7. ClosingOK'
    BY <1>1, <1>6 DEF SocketCloses, IInv, TypeOK, ClosingOK
  <1> QED
    BY <1>6, <1>7 DEF IInv

LEMMA ClosesKeeps ==
    ASSUME IInv, Closes
    PROVE  IInv'
  <1> DEFINE alive == socket # None /\ status[socket] = "live"
  <1>1. <<>> \in Seq({Deny} \cup Packet) /\ <<>> \in Seq(Token)
    OBVIOUS
  <1>2. /\ status' \in [Sockets -> {"free", "connecting", "live", "dead"}]
        /\ \A x \in Sockets : status'[x] =
               IF alive /\ x = socket THEN "dead" ELSE status[x]
    <2>1. CASE alive
      <3>1. socket \in Sockets /\ status' = Destroyed(status, socket)
        BY <2>1 DEF Closes, IInv, TypeOK
      <3> QED
        BY <2>1, <3>1, DestroyedFacts DEF IInv, TypeOK
    <2>2. CASE ~alive
      <3>1. status' = status
        BY <2>2 DEF Closes
      <3> QED
        BY <2>2, <3>1 DEF IInv, TypeOK
    <2> QED
      BY <2>1, <2>2
  <1>3. Carry(owed, wire)
    BY DEF Closes
  <1>4. /\ ~isOpen' /\ isOpen' \in BOOLEAN /\ pendingReply' = None
        /\ handshakeBuffer' = <<>> /\ receiveBuffer' = <<>>
        /\ closing' = alive
        /\ closeWaits' = IF alive THEN closeWaits \cup {socket} ELSE closeWaits
        /\ socket' = None /\ counter' = counter
        /\ step' = IF step = "unlock1" THEN "unlock2"
                   ELSE IF step = "unlock2" THEN "none" ELSE step
        /\ opening' = IF step = "unlock2" THEN None ELSE opening
    BY DEF Closes
  <1>5. closing' \in BOOLEAN
    BY <1>4
  <1>6. alive => socket \in Sockets
    BY DEF IInv, TypeOK
  <1> HIDE DEF alive
  <1>7. StreamOK' /\ TypeOK'
    BY <1>1, <1>2, <1>3, <1>4, <1>5, <1>6, CarryOn DEF IInv, TypeOK
  <1>8. \A x \in Sockets : ~(Live(x)')
    BY <1>2, TcpAssumption DEF alive, IInv, SocketsOK, Live
  <1>9. SocketsOK'
    BY <1>2, <1>4, <1>8 DEF IInv, SocketsOK, StepsOK, Unlocking, Live
  <1>10. step = "connecting" => status'[opening] = "connecting"
    BY <1>2 DEF alive, IInv, TypeOK, StepsOK
  <1>11. StepsOK'
    BY <1>4, <1>10 DEF IInv, StepsOK, TypeOK, Unlocking
  <1>12. ClosingOK'
    BY <1>2, <1>4, <1>6 DEF IInv, TypeOK, ClosingOK
  <1> QED
    BY <1>4, <1>7, <1>9, <1>11, <1>12 DEF IInv, OpenIsUnlocked, NoSendStranded

LEMMA CloseGivesUpKeeps ==
    ASSUME IInv, NEW s \in Sockets, CloseGivesUp(s)
    PROVE  IInv'
  <1> USE DEF CloseGivesUp, netVars
  <1>1. TypeOK'
    BY DEF IInv, TypeOK
  <1>2. SocketsOK' /\ StepsOK' /\ ClosingOK'
    BY DEF IInv, SocketsOK, StepsOK, ClosingOK, Unlocking, Live
  <1>3. StreamOK' /\ OpenIsUnlocked' /\ NoSendStranded'
    BY DEF IInv, StreamOK, Contains, OpenIsUnlocked, NoSendStranded
  <1> QED
    BY <1>1, <1>2, <1>3 DEF IInv

\* A request, or what becomes of it, leaves the connection alone.
LEMMA RequestKeeps ==
    ASSUME IInv, Send \/ WriteEnds \/ SendRejected
    PROVE  IInv'
  <1>1. UNCHANGED <<isOpen, closing, step, opening, socket, handshakeBuffer, closeWaits,
                    status, unlocked, wire>>
    BY DEF Send, WriteEnds, SendRejected, netVars
  <1>2. isOpen
    BY DEF Send, WriteEnds, SendRejected, IInv, NoSendStranded
  <1>3. /\ pendingReply' \in Packet \cup {None} /\ counter' \in Packet
        /\ receiveBuffer' \in Seq(Token)
        /\ owed' \in [Sockets -> Seq({Unlock} \cup Packet)]
    <2>1. CASE Send
      <3>1. (counter + 1) % Counters \in Packet
        BY TcpAssumption DEF IInv, TypeOK, Packet
      <3>2. counter' \in Packet /\ socket \in Sockets /\ pendingReply' = counter'
            /\ receiveBuffer' = receiveBuffer
            /\ owed' = [owed EXCEPT ![socket] = Append(@, counter')]
        BY <2>1, <3>1 DEF Send, IInv, TypeOK
      <3>3. owed' \in [Sockets -> Seq({Unlock} \cup Packet)]
        BY <3>2 DEF IInv, TypeOK
      <3> QED
        BY <3>2, <3>3 DEF IInv, TypeOK
    <2>2. CASE WriteEnds
      <3>1. DrainTo(receiveBuffer, pendingReply) /\ counter' = counter /\ owed' = owed
        BY <2>2 DEF WriteEnds, netVars
      <3> QED
        BY <3>1, DrainFacts DEF IInv, TypeOK
    <2>3. CASE SendRejected
      BY <2>3 DEF SendRejected, netVars, IInv, TypeOK
    <2> QED
      BY <2>1, <2>2, <2>3
  <1>4. TypeOK'
    BY <1>1, <1>3 DEF IInv, TypeOK
  <1>5. SocketsOK' /\ StepsOK' /\ ClosingOK'
    BY <1>1 DEF IInv, SocketsOK, StepsOK, ClosingOK, Unlocking, Live
  <1>6. StreamOK' /\ OpenIsUnlocked' /\ NoSendStranded'
    BY <1>1, <1>2 DEF IInv, StreamOK, Contains, OpenIsUnlocked, NoSendStranded
  <1> QED
    BY <1>4, <1>5, <1>6 DEF IInv

LEMMA BrickAnswersKeeps ==
    ASSUME IInv, NEW s \in Sockets, BrickAnswers(s)
    PROVE  IInv'
  <1>1. UNCHANGED <<isOpen, closing, step, opening, socket, pendingReply, handshakeBuffer,
                    receiveBuffer, closeWaits, counter, status>>
    BY DEF BrickAnswers, adapterVars
  <1>2. Head(owed[s]) \in {Unlock} \cup Packet
    BY DEF BrickAnswers, IInv, TypeOK
  <1>3. Accept \in Token /\ Deny \in Token /\ TextEnd \in Token
    BY DEF Token
  <1>4. owed' \in [Sockets -> Seq({Unlock} \cup Packet)]
    BY DEF BrickAnswers, IInv, TypeOK
  <1>5. \/ UNCHANGED <<wire, unlocked>>
        \/ \E t \in Seq(Token) :
              /\ wire' = [wire EXCEPT ![s] = @ \o t]
              /\ unlocked' \in {unlocked, unlocked \cup {s}}
              /\ Contains(t, Accept) => s \in unlocked'
    <2>1. CASE UNCHANGED <<wire, unlocked>>
      BY <2>1
    <2>2. CASE wire' = [wire EXCEPT ![s] = @ \o <<Accept, TextEnd>>]
               /\ unlocked' = unlocked \cup {s}
      <3>1. <<Accept, TextEnd>> \in Seq(Token)
        BY <1>3
      <3> QED
        BY <2>2, <3>1
    <2>3. CASE wire' = [wire EXCEPT ![s] = @ \o <<Deny, TextEnd>>] /\ UNCHANGED unlocked
      <3>1. <<Deny, TextEnd>> \in Seq(Token)
        BY <1>3
      <3>2. ~Contains(<<Deny, TextEnd>>, Accept)
        BY TcpAssumption DEF Contains
      <3> QED
        BY <2>3, <3>1, <3>2
    <2>4. CASE Head(owed[s]) # Unlock /\ UNCHANGED unlocked
               /\ wire' = [wire EXCEPT ![s] = Append(@, Head(owed[s]))]
      <3> DEFINE p == Head(owed[s])
      <3>1. p \in Packet /\ p \in Token
        BY <1>2, <2>4 DEF Token
      <3> HIDE DEF p
      <3>2. <<p>> \in Seq(Token) /\ ~Contains(<<p>>, Accept)
        BY <3>1, TcpAssumption DEF Contains, Packet
      <3>3. wire[s] \in Seq(Token)
        BY DEF IInv, TypeOK
      <3>4. Append(wire[s], p) = wire[s] \o <<p>>
        BY <3>1, <3>3
      <3>5. wire' = [wire EXCEPT ![s] = @ \o <<p>>]
        BY <2>4, <3>4 DEF p, IInv, TypeOK
      <3> QED
        BY <2>4, <3>2, <3>5
    <2> QED
      BY <2>1, <2>2, <2>3, <2>4 DEF BrickAnswers
  <1>6. /\ wire' \in [Sockets -> Seq(Token)]
        /\ unlocked' \subseteq Sockets /\ unlocked \subseteq unlocked'
        /\ StreamOK'
    <2>1. CASE UNCHANGED <<wire, unlocked>>
      BY <2>1 DEF IInv, TypeOK, StreamOK, Contains
    <2>2. CASE \E t \in Seq(Token) :
              /\ wire' = [wire EXCEPT ![s] = @ \o t]
              /\ unlocked' \in {unlocked, unlocked \cup {s}}
              /\ Contains(t, Accept) => s \in unlocked'
      <3>1. PICK t \in Seq(Token) :
              /\ wire' = [wire EXCEPT ![s] = @ \o t]
              /\ unlocked' \in {unlocked, unlocked \cup {s}}
              /\ Contains(t, Accept) => s \in unlocked'
        BY <2>2
      <3>2. wire' \in [Sockets -> Seq(Token)]
            /\ unlocked' \subseteq Sockets /\ unlocked \subseteq unlocked'
        BY <3>1 DEF IInv, TypeOK
      <3>3. \A x \in Sockets : wire'[x] = IF x = s THEN wire[s] \o t ELSE wire[x]
        BY <3>1 DEF IInv, TypeOK
      <3>4. Contains(wire[s] \o t, Accept) => Contains(wire[s], Accept) \/ Contains(t, Accept)
        <4>1. wire[s] \in Seq(Token)
          BY DEF IInv, TypeOK
        <4> QED
          BY <4>1 DEF Contains
      <3>5. ASSUME NEW x \in Sockets, Contains(wire'[x], Accept)
            PROVE  x \in unlocked'
        BY <3>1, <3>2, <3>3, <3>4, <3>5 DEF IInv, StreamOK
      <3>6. StreamOK'
        BY <3>5 DEF StreamOK, Contains
      <3> QED
        BY <3>2, <3>6
    <2> QED
      BY <1>5, <2>1, <2>2
  <1>7. TypeOK'
    BY <1>1, <1>4, <1>6 DEF IInv, TypeOK
  <1>8. SocketsOK' /\ StepsOK' /\ ClosingOK' /\ OpenIsUnlocked' /\ NoSendStranded'
    BY <1>1, <1>6 DEF IInv, SocketsOK, StepsOK, ClosingOK, OpenIsUnlocked,
                      NoSendStranded, Unlocking, Live
  <1> QED
    BY <1>6, <1>7, <1>8 DEF IInv

\* The chunk that arrives, and what stays on the way, are pieces of the wire.
LEMMA ChunkFacts ==
    ASSUME IInv, NEW s \in Sockets, NEW n \in 1..Len(wire[s])
    PROVE  /\ SubSeq(wire[s], 1, n) \in Seq(Token)
           /\ After(wire[s], n) \in Seq(Token)
           /\ [wire EXCEPT ![s] = After(@, n)] \in [Sockets -> Seq(Token)]
           /\ Contains(SubSeq(wire[s], 1, n), Accept) => Contains(wire[s], Accept)
           /\ \A x \in Sockets : Contains([wire EXCEPT ![s] = After(@, n)][x], Accept)
                                     => x \in unlocked
  <1>1. wire[s] \in Seq(Token)
    BY DEF IInv, TypeOK
  <1>2. SubSeq(wire[s], 1, n) \in Seq(Token) /\ After(wire[s], n) \in Seq(Token)
    BY <1>1 DEF After
  <1>3. [wire EXCEPT ![s] = After(@, n)] \in [Sockets -> Seq(Token)]
    BY <1>2 DEF IInv, TypeOK
  <1>4. Contains(SubSeq(wire[s], 1, n), Accept) => Contains(wire[s], Accept)
    BY <1>1 DEF Contains
  <1>5. Contains(After(wire[s], n), Accept) => Contains(wire[s], Accept)
    BY <1>1 DEF Contains, After
  <1>6. ASSUME NEW x \in Sockets, Contains([wire EXCEPT ![s] = After(@, n)][x], Accept)
        PROVE  x \in unlocked
    BY <1>5, <1>6 DEF IInv, TypeOK, StreamOK
  <1> QED
    BY <1>2, <1>3, <1>4, <1>6

LEMMA ClosesOrDrains ==
    ASSUME IInv, NEW s \in Sockets, NEW n \in 1..Len(wire[s]),
           DataArrives(s, n), ~HandshakeData(handshakeBuffer \o SubSeq(wire[s], 1, n),
                                             [wire EXCEPT ![s] = After(@, n)])
    PROVE  IInv'
  <1> DEFINE chunk == SubSeq(wire[s], 1, n)
             rest == [wire EXCEPT ![s] = After(@, n)]
             buffer == receiveBuffer \o chunk
  <1>1. CASE Closes
    BY <1>1, ClosesKeeps
  <1>2. CASE /\ DrainTo(buffer, pendingReply)
             /\ wire' = rest
             /\ UNCHANGED <<isOpen, closing, step, opening, socket, handshakeBuffer,
                            closeWaits, counter, status, unlocked, owed>>
    <2>1. /\ chunk \in Seq(Token) /\ rest \in [Sockets -> Seq(Token)]
          /\ \A x \in Sockets : Contains(rest[x], Accept) => x \in unlocked
      BY ChunkFacts
    <2> HIDE DEF rest, chunk
    <2>2. buffer \in Seq(Token)
      BY <2>1 DEF IInv, TypeOK
    <2> HIDE DEF buffer
    <2>3. pendingReply' \in {pendingReply, None} /\ receiveBuffer' \in Seq(Token)
      BY <1>2, <2>2, DrainFacts DEF IInv, TypeOK
    <2>4. TypeOK'
      BY <1>2, <2>1, <2>3 DEF IInv, TypeOK
    <2>5. StreamOK'
      BY <1>2, <2>1 DEF StreamOK, Contains
    <2>6. SocketsOK' /\ StepsOK' /\ ClosingOK' /\ OpenIsUnlocked' /\ NoSendStranded'
      BY <1>2, <2>3 DEF IInv, SocketsOK, StepsOK, ClosingOK, OpenIsUnlocked,
                        NoSendStranded, Unlocking, Live
    <2> QED
      BY <2>4, <2>5, <2>6 DEF IInv
  <1> QED
    BY <1>1, <1>2 DEF DataArrives

\* Text without acceptance and without a blank line is what handshakeBuffer
\* may keep.
LEMMA PlainText ==
    ASSUME NEW text \in Seq(Token), ~Contains(text, Accept), ~Contains(text, TextEnd)
    PROVE  text \in Seq({Deny} \cup Packet)
  <1>1. \A i \in 1..Len(text) : text[i] \in {Deny} \cup Packet
    BY DEF Contains, Token
  <1> QED
    BY <1>1

\* The answer to an unlock request: w is what stays on the way.
LEMMA HandshakeKeeps ==
    ASSUME IInv, NEW s \in Sockets, NEW chunk \in Seq(Token),
           NEW w \in [Sockets -> Seq(Token)],
           \A x \in Sockets : Contains(w[x], Accept) => x \in unlocked,
           Contains(chunk, Accept) => s \in unlocked,
           Live(s), HandshakeData(handshakeBuffer \o chunk, w)
    PROVE  IInv'
  <1> DEFINE text == handshakeBuffer \o chunk
  <1>1. handshakeBuffer \in Seq({Deny} \cup Packet)
    BY DEF IInv, TypeOK
  <1>2. text \in Seq(Token)
    <2>1. handshakeBuffer \in Seq(Token)
      BY <1>1 DEF Token
    <2> QED
      BY <2>1
  <1>3. Accept \notin {Deny} \cup Packet
    BY TcpAssumption DEF Packet
  <1>4. Contains(text, Accept) => s \in unlocked
    <2>1. ~Contains(handshakeBuffer, Accept)
      BY <1>1, <1>3 DEF Contains
    <2> QED
      BY <1>1, <2>1 DEF Contains
  <1>5. HandshakeData(text, w)
    OBVIOUS
  <1> HIDE DEF text
  <1>6. /\ Unlocking /\ ~isOpen /\ pendingReply = None
        /\ opening = s /\ socket = s /\ opening \in Sockets
        /\ \A x \in Sockets : Live(x) => x = s
        /\ \A x \in Sockets : status[x] # "connecting"
    BY <1>5 DEF HandshakeData, IInv, SocketsOK, StepsOK, NoSendStranded, Unlocking
  <1>7. UNCHANGED <<closing, pendingReply, closeWaits, counter>>
    BY <1>5 DEF HandshakeData
  <1>8. owed \in [Sockets -> Seq({Unlock} \cup Packet)]
        /\ <<>> \in Seq({Deny} \cup Packet)
    BY DEF IInv, TypeOK
  <1>9. closeWaits = {} /\ ~closing
    BY <1>6 DEF IInv, TypeOK, SocketsOK, ClosingOK
  <1>10. CASE /\ IsAcceptResponse(text)
              /\ handshakeBuffer' = <<>>
              /\ isOpen' = TRUE /\ step' = "none" /\ opening' = None
              /\ UNCHANGED <<socket, receiveBuffer, status>>
              /\ Carry(owed, w)
    <2>1. /\ owed' \in [Sockets -> Seq({Unlock} \cup Packet)]
          /\ wire' \in [Sockets -> Seq(Token)] /\ unlocked' \subseteq Sockets
          /\ StreamOK'
          /\ \A x \in Sockets : x \in unlocked' <=> x \in unlocked /\ Live(x)'
      BY <1>8, <1>10, CarryFacts
    <2>2. TypeOK'
      BY <1>7, <1>8, <1>10, <2>1 DEF IInv, TypeOK
    <2>3. SocketsOK'
      BY <1>6, <1>10 DEF IInv, SocketsOK, Live
    <2>4. StepsOK' /\ ClosingOK' /\ NoSendStranded'
      BY <1>7, <1>9, <1>10 DEF StepsOK, ClosingOK, NoSendStranded, Unlocking
    <2>5. OpenIsUnlocked'
      BY <1>4, <1>6, <1>10, <2>1, TcpAssumption DEF OpenIsUnlocked, IsAcceptResponse, Live
    <2> QED
      BY <2>1, <2>2, <2>3, <2>4, <2>5 DEF IInv
  <1>11. CASE /\ ~IsAcceptResponse(text) /\ ~Contains(text, TextEnd)
              /\ handshakeBuffer' = text
              /\ UNCHANGED <<isOpen, step, opening, socket, receiveBuffer, status>>
              /\ Carry(owed, w)
    <2>1. /\ owed' \in [Sockets -> Seq({Unlock} \cup Packet)]
          /\ wire' \in [Sockets -> Seq(Token)] /\ unlocked' \subseteq Sockets
          /\ StreamOK'
      BY <1>8, <1>11, CarryFacts
    <2>2. text \in Seq({Deny} \cup Packet)
      BY <1>2, <1>11, PlainText DEF IsAcceptResponse
    <2>3. TypeOK'
      BY <1>7, <1>11, <2>1, <2>2 DEF IInv, TypeOK
    <2>4. SocketsOK' /\ StepsOK' /\ ClosingOK' /\ NoSendStranded' /\ OpenIsUnlocked'
      BY <1>6, <1>7, <1>11 DEF IInv, SocketsOK, StepsOK, ClosingOK, NoSendStranded,
                               OpenIsUnlocked, Unlocking, Live
    <2> QED
      BY <2>1, <2>3, <2>4 DEF IInv
  <1>12. ASSUME ~IsAcceptResponse(text),
                NEW i \in Markers(text), receiveBuffer' = receiveBuffer \o After(text, i),
                handshakeBuffer' = <<>>, UNCHANGED isOpen
         PROVE  receiveBuffer' \in Seq(Token)
    <2>1. i \in Nat
      BY DEF Markers
    <2>2. After(text, i) \in Seq(Token)
      BY <1>2, <2>1, AfterType
    <2> QED
      BY <1>12, <2>2 DEF IInv, TypeOK
  <1>13. CASE /\ receiveBuffer' \in Seq(Token) /\ handshakeBuffer' = <<>>
              /\ UNCHANGED <<isOpen, opening, socket, status>>
              /\ step = "unlock1" /\ step' = "unlock2"
              /\ Carry([owed EXCEPT ![opening] = Append(@, Unlock)], w)
    <2> DEFINE o == [owed EXCEPT ![opening] = Append(@, Unlock)]
    <2>1. o \in [Sockets -> Seq({Unlock} \cup Packet)]
      BY <1>6, <1>8
    <2>2. Carry(o, w)
      BY <1>13
    <2> HIDE DEF o
    <2>3. /\ owed' \in [Sockets -> Seq({Unlock} \cup Packet)]
          /\ wire' \in [Sockets -> Seq(Token)] /\ unlocked' \subseteq Sockets
          /\ StreamOK'
      BY <2>1, <2>2, CarryFacts
    <2>4. TypeOK'
      BY <1>7, <1>8, <1>13, <2>3 DEF IInv, TypeOK
    <2>5. SocketsOK' /\ StepsOK' /\ ClosingOK' /\ NoSendStranded' /\ OpenIsUnlocked'
      BY <1>6, <1>7, <1>13 DEF IInv, SocketsOK, StepsOK, ClosingOK, NoSendStranded,
                               OpenIsUnlocked, Unlocking, Live
    <2> QED
      BY <2>3, <2>4, <2>5 DEF IInv
  <1>14. CASE /\ receiveBuffer' \in Seq(Token) /\ handshakeBuffer' = <<>>
              /\ UNCHANGED isOpen
              /\ step' = "none" /\ opening' = None /\ socket' = None
              /\ status' = Destroyed(status, opening)
              /\ Carry(owed, w)
    <2>1. /\ owed' \in [Sockets -> Seq({Unlock} \cup Packet)]
          /\ wire' \in [Sockets -> Seq(Token)] /\ unlocked' \subseteq Sockets
          /\ StreamOK'
      BY <1>8, <1>14, CarryFacts
    <2>2. /\ status' \in [Sockets -> {"free", "connecting", "live", "dead"}]
          /\ \A x \in Sockets : status'[x] =
                 IF x = opening /\ status[x] = "live" THEN "dead" ELSE status[x]
      BY <1>6, <1>14, DestroyedFacts DEF IInv, TypeOK
    <2>3. TypeOK'
      BY <1>7, <1>8, <1>14, <2>1, <2>2 DEF IInv, TypeOK
    <2>4. SocketsOK'
      BY <1>6, <1>14, <2>2 DEF SocketsOK, Live
    <2>5. StepsOK' /\ ClosingOK' /\ NoSendStranded' /\ OpenIsUnlocked'
      BY <1>6, <1>7, <1>9, <1>14 DEF StepsOK, ClosingOK, NoSendStranded,
                                     OpenIsUnlocked, Unlocking
    <2> QED
      BY <2>1, <2>3, <2>4, <2>5 DEF IInv
  <1> QED
    BY <1>5, <1>10, <1>11, <1>12, <1>13, <1>14 DEF HandshakeData

LEMMA DataArrivesKeeps ==
    ASSUME IInv, NEW s \in Sockets, NEW n \in 1..Len(wire[s]), DataArrives(s, n)
    PROVE  IInv'
  <1> DEFINE chunk == SubSeq(wire[s], 1, n)
             rest == [wire EXCEPT ![s] = After(@, n)]
  <1>1. CASE HandshakeData(handshakeBuffer \o chunk, rest)
    <2>1. /\ chunk \in Seq(Token) /\ rest \in [Sockets -> Seq(Token)]
          /\ \A x \in Sockets : Contains(rest[x], Accept) => x \in unlocked
          /\ Contains(chunk, Accept) => s \in unlocked
      BY ChunkFacts DEF IInv, StreamOK
    <2>2. Live(s)
      BY DEF DataArrives, Live
    <2> HIDE DEF chunk, rest
    <2> QED
      BY <1>1, <2>1, <2>2, HandshakeKeeps
  <1>2. CASE ~HandshakeData(handshakeBuffer \o chunk, rest)
    BY <1>2, ClosesOrDrains
  <1> QED
    BY <1>1, <1>2

LEMMA NextKeeps == IInv /\ [Next]_vars => IInv'
  <1> SUFFICES ASSUME IInv, [Next]_vars PROVE IInv'
    OBVIOUS
  <1>1. CASE OpenWithDiscovery \/ BeaconFails
    BY <1>1, BeaconKeeps
  <1>2. CASE Connects
    BY <1>2, ConnectsKeeps
  <1>3. CASE ConnectFails
    BY <1>3, ConnectFailsKeeps
  <1>4. CASE UnlockFails
    BY <1>4, UnlockFailsKeeps
  <1>5. CASE Close
    BY <1>5, ClosesKeeps DEF Close
  <1>6. CASE Send \/ WriteEnds \/ SendRejected
    BY <1>6, RequestKeeps
  <1>7. ASSUME NEW s \in Sockets, Open(s) \/ BeaconEnds(s)
        PROVE  IInv'
    <2>1. StartConnect(s) /\ ~isOpen /\ step \in {"none", "beacon"}
      BY <1>7 DEF Open, BeaconEnds, IInv, StepsOK
    <2> QED
      BY <2>1, StartConnectKeeps
  <1>8. ASSUME NEW s \in Sockets, CloseGivesUp(s) PROVE IInv'
    BY <1>8, CloseGivesUpKeeps
  <1>9. ASSUME NEW s \in Sockets, SocketFails(s) PROVE IInv'
    BY <1>9, SocketFailsKeeps
  <1>10. ASSUME NEW s \in Sockets, SocketCloses(s) PROVE IInv'
    BY <1>10, SocketClosesKeeps
  <1>11. ASSUME NEW s \in Sockets, BrickAnswers(s) PROVE IInv'
    BY <1>11, BrickAnswersKeeps
  <1>12. ASSUME NEW s \in Sockets, NEW n \in 1..Len(wire[s]), DataArrives(s, n)
         PROVE  IInv'
    BY <1>12, DataArrivesKeeps
  <1>13. CASE UNCHANGED vars
    <2> USE <1>13 DEF vars, adapterVars, netVars
    <2>1. TypeOK'
      BY DEF IInv, TypeOK
    <2>2. SocketsOK' /\ StepsOK' /\ ClosingOK'
      BY DEF IInv, SocketsOK, StepsOK, ClosingOK, Unlocking, Live
    <2>3. StreamOK' /\ OpenIsUnlocked' /\ NoSendStranded'
      BY DEF IInv, StreamOK, Contains, OpenIsUnlocked, NoSendStranded
    <2> QED
      BY <2>1, <2>2, <2>3 DEF IInv
  <1> QED
    BY <1>1, <1>2, <1>3, <1>4, <1>5, <1>6, <1>7, <1>8, <1>9, <1>10, <1>11, <1>12,
       <1>13 DEF Next

-----------------------------------------------------------------------------
(* The theorems.                                                            *)

\* IInv holds of every reachable state of the adapter.
THEOREM Invariant == Spec => []IInv
  BY InitIInv, NextKeeps, PTL DEF Spec

\* An adapter that says it is open has a live socket the brick accepted:
\* OpenIsUnlocked, for open(), onSocketData() and every failure path.
THEOREM OpenMeansUnlocked == Spec => []OpenIsUnlocked
  <1>1. IInv => OpenIsUnlocked
    BY DEF IInv
  <1> QED
    BY <1>1, Invariant, PTL

\* No request waits on an adapter that is not open (NoSendStranded): close()
\* and handleSocketFailure() reject the one in flight.
THEOREM SendsAreAnswered == Spec => []NoSendStranded
  <1>1. IInv => NoSendStranded
    BY DEF IInv
  <1> QED
    BY <1>1, Invariant, PTL

\* A connection is the adapter's own: OneSocket, for overlapping open(),
\* close() and failures.
THEOREM OneConnection == Spec => []OneSocket
  <1>1. IInv => OneSocket
    BY DEF IInv, SocketsOK, OneSocket, Live
  <1> QED
    BY <1>1, Invariant, PTL
\* Where open() is on its way.
Stage(at) ==
    IF at = "beacon" THEN 1 ELSE IF at = "connecting" THEN 2
    ELSE IF at = "unlock1" THEN 3 ELSE IF at = "unlock2" THEN 4 ELSE 5

\* A suspended open() never goes back, and keeps the socket it has until it
\* settles.
OpenAdvances ==
    [][step # "none" =>
           /\ Stage(step') >= Stage(step)
           /\ step # "beacon" /\ step' # "none" => opening' = opening]_vars

Advances ==
    \/ step' = step /\ opening' = opening
    \/ step' = "none"
    \/ step = "unlock1" /\ step' = "unlock2" /\ opening' = opening

LEMMA FailureAdvances ==
    ASSUME NEW st, HandleSocketFailure(st) \/ CandidateFails(st)
    PROVE  Advances
BY DEF HandleSocketFailure, CandidateFails, Advances, Unlocking

\* Whoever calls open() or close() again, whichever socket fails, closes or
\* speaks late, and however the candidates of the handshake are refused: a
\* suspended open() goes from one of its waits, each with a timer, to a later
\* one, on the same socket, or settles (openPromise, tcpSocketAdapter.ts:129).
THEOREM OpensAdvance == Spec => OpenAdvances
  <1> DEFINE Forward == step # "none" =>
                            /\ Stage(step') >= Stage(step)
                            /\ step # "beacon" /\ step' # "none" => opening' = opening
  <1>1. Advances => Forward
    BY DEF Advances, Stage
  <1>2. [Next]_vars => Forward
    <2> SUFFICES ASSUME [Next]_vars PROVE Forward
      OBVIOUS
    <2> HIDE DEF Forward
    <2>1. CASE OpenWithDiscovery \/ \E s \in Sockets : Open(s) \/ BeaconEnds(s)
      <3>1. \/ step = "none"
            \/ step = "beacon" /\ step' = "connecting"
        BY <2>1 DEF OpenWithDiscovery, Open, BeaconEnds, StartConnect
      <3> QED BY <3>1 DEF Forward, Stage
    <2>2. CASE Connects
      BY <2>2 DEF Connects, Forward, Stage
    <2>3. CASE BeaconFails \/ ConnectFails
      BY <1>1, <2>3 DEF BeaconFails, ConnectFails, Advances
    <2>4. CASE UnlockFails
      BY <1>1, <2>4, FailureAdvances DEF UnlockFails
    <2>5. ASSUME Closes PROVE Forward
      BY <1>1, <2>5 DEF Closes, Advances
    <2>6. CASE Send \/ WriteEnds \/ SendRejected \/ UNCHANGED vars
      BY <1>1, <2>6 DEF Send, WriteEnds, SendRejected, vars, adapterVars, Advances
    <2>7. ASSUME NEW s \in Sockets, CloseGivesUp(s) \/ BrickAnswers(s) PROVE Forward
      BY <1>1, <2>7 DEF CloseGivesUp, BrickAnswers, adapterVars, Advances
    <2>8. ASSUME NEW s \in Sockets, SocketFails(s) \/ SocketCloses(s) PROVE Forward
      BY <1>1, <2>8, FailureAdvances DEF SocketFails, SocketCloses
    <2>9. ASSUME NEW s \in Sockets, NEW n \in 1..Len(wire[s]), DataArrives(s, n)
          PROVE  Forward
      <3>1. ASSUME NEW text, NEW w, HandshakeData(text, w) PROVE Forward
        BY <1>1, <3>1 DEF HandshakeData, Advances, Unlocking
      <3> QED BY <1>1, <2>5, <2>9, <3>1 DEF DataArrives, Advances
    <2> QED
      BY <2>1, <2>2, <2>3, <2>4, <2>5, <2>6, <2>7, <2>8, <2>9 DEF Next, Close
  <1> QED
    BY <1>2, PTL DEF Spec, OpenAdvances
=============================================================================
