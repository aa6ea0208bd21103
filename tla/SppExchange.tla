----------------------------- MODULE SppExchange -----------------------------
(***************************************************************************)
(* One brick's commands on their whole way: the session's CommandQueue,    *)
(* send() of its provider (btTransportProvider.ts) with                    *)
(* sendCommandViaAdapter() (protocolBridge.ts), a BtSppAdapter, and the    *)
(* brick.  The executor, which CommandQueue leaves open, is the provider's *)
(* send().                                                                 *)
(*                                                                         *)
(* The session is lost, closed and set up again at any time.               *)
(***************************************************************************)
EXTENDS CommandQueue, BtSppAdapter

CONSTANTS
    KindOf,     \* KindOf[c]: the kind of command c
    Counters    \* message counters run from 0 to Counters - 1

ASSUME ExchangeAssumption ==
    /\ KindOf \in [Command -> Kinds]
    /\ Counters \in 2..65536

VARIABLES
    session,        \* the provider's session: its adapter, or None
    connecting,     \* the adapter connect() is opening, or None
    messageCounter, \* of the session
    call,           \* the sendCommandViaAdapter() in flight
    response        \* response[c]: what send(c) resolved with

provider == <<session, connecting, messageCounter>>
exchangeVars == <<vars, linkVars, provider, call, response>>

\* A call waits for the reply with `counter` on link l, or has its result.
NoCall == [state |-> "none"]
Awaiting(l, counter) == [state |-> "waiting", on |-> l, counter |-> counter]
Failed == [state |-> "failed"]
Replied(packet) == [state |-> "replied", packet |-> packet]

ExchangeInit ==
    /\ Init /\ LinksInit
    /\ session = None /\ connecting = None
    /\ messageCounter = 0
    /\ call = NoCall
    /\ response = [c \in Command |-> None]

-----------------------------------------------------------------------------
(* The provider and the bridge.                                             *)

NextCounter == (messageCounter + 1) % Counters

\* The executor is called with command c: the number is spent even if the
\* adapter refuses.
Execute(c) ==
    IF session = None THEN call' = Failed /\ UNCHANGED <<messageCounter, linkVars>>
    ELSE
    /\ messageCounter' = NextCounter
    /\ IF Sends(session) /\ Builds(KindOf[c])
       THEN /\ Send(session, NextCounter,
                    EncodePacket(NextCounter, CommandType(KindOf[c]), Payload(c, KindOf[c])))
            /\ call' = Awaiting(session, NextCounter)
       ELSE UNCHANGED linkVars /\ call' = Failed

\* A step of the queue, which may have called the executor.
Executes ==
    /\ IF running' # running THEN Execute(q'.current)
       ELSE UNCHANGED <<messageCounter, linkVars, call>>
    /\ UNCHANGED <<session, connecting, response>>

\* The rest of sendCommandViaAdapter() with a reply: it is decoded and parsed.
Succeeds(packet, counter) ==
    /\ GetMessageCounter(packet) = counter
    /\ Decodes(packet) /\ Accepted(DecodePacket(packet))

\* The call goes on with what the adapter on link l says.
Hears(l, says) ==
    call' = IF says.kind = "nothing" \/ call.state # "waiting" THEN call
            ELSE IF call.on # l THEN call
            ELSE IF says.kind = "rejection" THEN Failed
            ELSE IF Succeeds(says.packet, call.counter) THEN Replied(says.packet)
            ELSE Failed

-----------------------------------------------------------------------------
(* The queue's steps.                                                       *)

NoExchange == UNCHANGED <<linkVars, provider, call, response>>

SetUp == session # None /\ SetsExecutor /\ NoExchange
Refuse(c) == SendRefused(c) /\ NoExchange
Accept(c) == SendAccepted(c) /\ Executes
Drop == DrainsWith /\ NoExchange
End == Dispose /\ NoExchange
Resume == DrainResumes /\ Executes

\* The executor's promise settles with the call's result.
CallEnds ==
    /\ call.state \in {"failed", "replied"}
    /\ ExecutorSettles
    /\ settled' = IF call.state = "replied" THEN "resolved" ELSE "rejected"
    /\ response' = IF call.state = "replied"
                   THEN [response EXCEPT ![q.current] =
                            Parse(KindOf[q.current], DecodePacket(call.packet))]
                   ELSE response
    /\ call' = NoCall
    /\ UNCHANGED <<linkVars, provider>>

-----------------------------------------------------------------------------
(* The session: connect(), disconnect() and, one after the other, recover(). *)

\* A new adapter: which identity it gets does not matter.
Connect(l) ==
    /\ session = None /\ connecting = None
    /\ Open(l)
    /\ l = CHOOSE free \in Links : At(free, "new")
    /\ connecting' = l
    /\ UNCHANGED <<vars, session, messageCounter, call, response>>

\* open() goes on to its next await.
Opens(l) == PortOpens(l) /\ UNCHANGED <<vars, provider, call, response>>
Asserts(l) == DtrSet(l) /\ UNCHANGED <<vars, provider, call, response>>

ConnectFails(l) ==
    /\ OpenFails(l) \/ DtrFails(l)
    /\ connecting' = None
    /\ UNCHANGED <<vars, session, messageCounter, call, response>>

Connected(l) ==
    /\ Settles(l)
    /\ session' = l /\ connecting' = None /\ messageCounter' = 0
    /\ UNCHANGED <<vars, call, response>>

\* Mutant of Disconnect: close() forgets the request in flight.
DisconnectQuietly ==
    /\ session # None /\ Close(session) /\ session' = None
    /\ UNCHANGED <<vars, connecting, messageCounter, call, response>>

Disconnect ==
    /\ session # None
    /\ Close(session) /\ Hears(session, Rejects(session))
    /\ session' = None
    /\ UNCHANGED <<vars, connecting, messageCounter, response>>

Disconnected(l) == Closes(l) /\ UNCHANGED <<vars, provider, call, response>>

-----------------------------------------------------------------------------
(* Callbacks and events of link l, and what the waiting call hears.         *)

Quiet == UNCHANGED <<vars, provider, response>>

Written(l) == WriteCompletes(l) /\ Hears(l, AfterWrite(l).says) /\ Quiet

\* All that is on the way, or as much as makes one of Cuts in the buffer.
Receive(l) ==
    \E n \in {cut - Len(link[l].receiveBuffer) : cut \in Cuts} \cup {Len(incoming[l])} :
        DataArrives(l, n) /\ Hears(l, AfterData(l, n).says) /\ Quiet

Lose(l) == PortDies(l) /\ Hears(l, AfterLoss(l).says) /\ Quiet

Reach(l) == BrickAnswers(l) /\ UNCHANGED <<vars, provider, call, response>>

ExchangeNext ==
    \/ SetUp \/ Drop \/ End \/ Resume \/ CallEnds \/ Disconnect
    \/ \E c \in Command : Refuse(c) \/ Accept(c)
    \/ \E l \in Links :
        \/ Connect(l) \/ Opens(l) \/ Asserts(l) \/ ConnectFails(l) \/ Connected(l)
        \/ Disconnected(l) \/ Written(l) \/ Receive(l) \/ Lose(l) \/ Reach(l)

\* Promises resume, a brick that hears a request answers it, and what it and
\* the operating system have to say is delivered: as long as some of it is
\* due, some of it happens.
Progress ==
    Resume \/ CallEnds \/ \E l \in Links : Written(l) \/ Receive(l) \/ Reach(l)

Exchange == ExchangeInit /\ [][ExchangeNext]_exchangeVars /\ WF_exchangeVars(Progress)

-----------------------------------------------------------------------------

\* What a command resolves with is what the brick said of that command, field
\* by field: however its reply was cut, whichever sessions, rejected requests
\* and late callbacks came before, and with counters that have wrapped.
AnswersAreOwn ==
    \A c \in Command : response[c] # None => Truthful(response[c], c, KindOf[c])

\* A promise an adapter holds is a call that waits for it on that adapter and
\* with that number: no step leaves one behind, so that no later request
\* meets "already has in-flight send request", and no call waits for nobody.
PromisesMatch ==
    \A l \in Links : \A counter \in 0..(Counters - 1) :
        link[l].pendingReply = counter <=> call = Awaiting(l, counter)
=============================================================================
