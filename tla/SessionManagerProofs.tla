------------------------ MODULE SessionManagerProofs -------------------------
(***************************************************************************)
(* The theorems about SessionManager, for any bricks, any number of        *)
(* session objects and suspended calls, any thresholds and any bounds: its *)
(* inductive invariant and types, the safety invariants, the refinement of *)
(* BrickLife, and the work a session is owed (its queue, its adapter, the  *)
(* end of its reconnecting).                                               *)
(***************************************************************************)
EXTENDS SessionManager, CommandQueueOpsProofs

-----------------------------------------------------------------------------
(* The inductive invariant.                                                 *)

\* A session object that was never created has no timer, no probe, no command
\* and no mode; one that was created belongs to a brick.
BornInv ==
    \A s \in Sessions :
        /\ connectionState[s] # "unborn" => brickKey[s] \in Bricks
        /\ connectionState[s] = "unborn" =>
               /\ ~hbTimer[s] /\ ~reconnectTimer[s]
               /\ probe[s] = "none" /\ sending[s] = "none"
               /\ activeMode[s] = "minimal"

\* A suspended call holds a created session, and the previousState disconnect()
\* read before its await is one for which it will fire an event.
FrameInv ==
    \A c \in Calls :
        /\ calls[c].wait # "none" => calls[c].fn # "idle"
        /\ calls[c].fn # "idle" =>
               calls[c].s \in Sessions /\ connectionState[calls[c].s] # "unborn"
        /\ calls[c].fn = "disconnect" => calls[c].prev \in LiveStates

\* MapExact, split so that its first half also holds after dispose().
MapInv ==
    /\ \A k \in Bricks : sessions[k] # None => Live(sessions[k]) /\ brickKey[sessions[k]] = k
    /\ ~disposed => \A s \in Sessions : Live(s) => sessions[brickKey[s]] = s

IInv ==
    /\ TypeOK
    /\ BornInv
    /\ FrameInv
    /\ MapInv
    /\ ForegroundIsActive
    /\ ObserverAgrees
    /\ SuppressionFollowsExplicit

LEMMA InitIInv == Init => IInv
<1> SUFFICES ASSUME Init PROVE IInv
  OBVIOUS
<1>1. TypeOK
  <2>1. NewQueue \in QueueType(Commands)
    BY NewQueueType
  <2>2. IdleCall \in CallType
    BY DEF IdleCall, Frame, CallType, States
  <2>3. ManagerType /\ EntryType
    BY DEF Init, ManagerType, EntryType
  <2>4. HeartbeatType
    BY DEF Init, HeartbeatType
  <2>5. QueuesType
    BY <2>1 DEF Init, QueuesType
  <2>6. ReconnectType /\ ProviderType
    <3>1. waiters \in [Bricks -> Seq(Calls) \cup {None}]
      BY DEF Init
    <3> QED BY <3>1, ConstantsAssumption DEF Init, ReconnectType, ProviderType
  <2> QED
    BY <2>2, <2>3, <2>4, <2>5, <2>6 DEF Init, TypeOK, States
<1>2. BornInv
  BY DEF Init, BornInv
<1>3. FrameInv
  BY DEF Init, FrameInv, IdleCall, Frame
<1>4. MapInv
  BY DEF Init, MapInv, Live, LiveStates
<1>5. ForegroundIsActive /\ ObserverAgrees /\ SuppressionFollowsExplicit
  BY DEF Init, ForegroundIsActive, ObserverAgrees, SuppressionFollowsExplicit, Live, LiveStates
<1> QED BY <1>1, <1>2, <1>3, <1>4, <1>5 DEF IInv

-----------------------------------------------------------------------------
(* Type correctness.                                                        *)

ProbeStates == {"none", "sent", "ok", "fail"}
SendStates == {"none", "waiting", "adrift", "ok", "fail"}

LEMMA FrameType ==
    ASSUME NEW fn \in {"connect", "attemptReconnect", "disconnect"}, NEW s \in Sessions,
           NEW prev \in States,
           NEW wait \in {"queued", "opening", "closing", "resolved", "rejected"}
    PROVE  Frame(fn, s, prev, wait) \in CallType /\ IdleCall \in CallType
BY DEF Frame, IdleCall, CallType, States

LEMMA HelperTypes ==
    ASSUME TypeOK
    PROVE  /\ \A k \in Bricks : Opening(k, adapter) \in {"queued", "opening", "rejected"}
           /\ \A k : SendsCut(k) \in [Sessions -> SendStates]
           /\ \A k : Transmit(k) \in {"waiting", "fail"}
           /\ \A target, current \in {"unknown", "ok", "missed"} :
                  HeartbeatAfter(target, current) \in {"unknown", "ok", "missed"}
           /\ \A k \in Bricks \cup {None} :
                  Demoted(k) \in [Sessions -> {"minimal", "subscribed", "foreground"}]
<1>1. \A k \in Bricks : Opening(k, adapter) \in {"queued", "opening", "rejected"}
  BY DEF Opening
<1>2. \A k : SendsCut(k) \in [Sessions -> SendStates]
  BY DEF SendsCut, TypeOK, QueuesType, SendStates
<1>3. \A k : Transmit(k) \in {"waiting", "fail"}
  BY DEF Transmit
<1>4. \A target, current \in {"unknown", "ok", "missed"} :
         HeartbeatAfter(target, current) \in {"unknown", "ok", "missed"}
  BY DEF HeartbeatAfter
<1>5. \A k \in Bricks \cup {None} :
         Demoted(k) \in [Sessions -> {"minimal", "subscribed", "foreground"}]
  BY DEF Demoted, TypeOK, ManagerType, EntryType
<1> QED BY <1>1, <1>2, <1>3, <1>4, <1>5

LEMMA ProbeRejectedType ==
    ASSUME NEW probes \in [Sessions -> ProbeStates], NEW s \in Sessions
    PROVE  ProbeRejected(probes, s) \in [Sessions -> ProbeStates]
BY DEF ProbeRejected, ProbeStates

\* Only a call that has a queue to wait in joins it.
LEMMA JoinedType ==
    ASSUME TypeOK, NEW k \in Bricks, NEW c \in Calls, NEW wait,
           wait = "queued" => wait = Opening(k, adapter)
    PROVE  Joined(k, c, wait) \in [Bricks -> Seq(Calls) \cup {None}]
<1>1. waiters \in [Bricks -> Seq(Calls) \cup {None}]
  BY DEF TypeOK, ProviderType
<1>2. CASE wait = "queued"
  <2>1. waiters[k] \in Seq(Calls)
    BY <1>1, <1>2 DEF Opening
  <2>2. Append(waiters[k], c) \in Seq(Calls)
    BY <2>1
  <2> QED BY <1>1, <1>2, <2>2 DEF Joined
<1>3. CASE wait # "queued"
  BY <1>1, <1>3 DEF Joined
<1> QED BY <1>2, <1>3

\* What disconnect() leaves when it reaches its await.
LEMMA DisconnectingType ==
    ASSUME TypeOK, NEW s \in Sessions, brickKey[s] \in Bricks,
           NEW prev \in States, NEW c \in Calls,
           NEW probes \in [Sessions -> ProbeStates],
           NEW timers \in [Sessions -> BOOLEAN],
           Disconnecting(s, prev, c, probes, timers)
    PROVE  /\ hbRunning' \in [Sessions -> BOOLEAN]
           /\ hbTimer' \in [Sessions -> BOOLEAN]
           /\ probe' \in [Sessions -> ProbeStates]
           /\ QueuesType'
           /\ reconnectTimer' \in [Sessions -> BOOLEAN]
           /\ adapter' \in [Bricks -> {"none", "open", "dead"}]
           /\ calls' \in [Calls -> CallType]
<1>1. hbRunning' \in [Sessions -> BOOLEAN] /\ hbTimer' \in [Sessions -> BOOLEAN]
  BY DEF Disconnecting, TypeOK, HeartbeatType
<1>2. probe' \in [Sessions -> ProbeStates]
  BY ProbeRejectedType DEF Disconnecting
<1>3. QueuesType'
  <2>1. DisposeQueue(queue[s]) \in QueueType(Commands)
    BY OperationsType DEF TypeOK, QueuesType
  <2>2. queue' \in [Sessions -> QueueType(Commands)]
    BY <2>1 DEF Disconnecting, TypeOK, QueuesType
  <2>3. sending' \in [Sessions -> SendStates]
    BY HelperTypes DEF Disconnecting, TypeOK, QueuesType, SendStates
  <2> QED BY <2>2, <2>3 DEF QueuesType, SendStates
<1>4. reconnectTimer' \in [Sessions -> BOOLEAN]
  BY DEF Disconnecting
<1>5. adapter' \in [Bricks -> {"none", "open", "dead"}]
  BY DEF Disconnecting, TypeOK, ProviderType
<1>6. calls' \in [Calls -> CallType]
  <2>1. \E wait \in {"closing", "resolved"} :
           calls' = [calls EXCEPT ![c] = Frame("disconnect", s, prev, wait)]
    BY DEF Disconnecting
  <2> QED BY <2>1, FrameType DEF TypeOK
<1> QED BY <1>1, <1>2, <1>3, <1>4, <1>5, <1>6

LEMMA TransitionType ==
    ASSUME TypeOK, NEW s \in Sessions, NEW target \in States, Transition(s, target)
    PROVE  /\ connectionState' \in [Sessions -> States \cup {"unborn"}]
           /\ heartbeatState' \in [Sessions -> {"unknown", "ok", "missed"}]
<1>1. HeartbeatAfter(target, heartbeatState[s]) \in {"unknown", "ok", "missed"}
  BY DEF HeartbeatAfter, TypeOK, EntryType
<1> QED BY <1>1 DEF Transition, TypeOK, EntryType

LEMMA FireType ==
    ASSUME TypeOK, NEW k, NEW state \in States, Fire(k, state)
    PROVE  observed' \in [Bricks -> States]
BY DEF Fire, TypeOK

LEMMA StartType ==
    ASSUME TypeOK, NEW s \in Sessions, HeartbeatStart(s), UNCHANGED probe
    PROVE  HeartbeatType'
<1>1. CASE hbRunning[s]
  <2>1. /\ hbRunning' = hbRunning /\ hbTimer' = hbTimer
        /\ consecutiveMisses' = consecutiveMisses /\ probe' = probe
    BY <1>1 DEF HeartbeatStart
  <2>2. HeartbeatType
    BY DEF TypeOK
  <2> QED BY <2>1, <2>2 DEF HeartbeatType
<1>2. CASE ~hbRunning[s]
  <2>1. /\ hbRunning' = [hbRunning EXCEPT ![s] = TRUE]
        /\ hbTimer' = [hbTimer EXCEPT ![s] = TRUE]
        /\ consecutiveMisses' = [consecutiveMisses EXCEPT ![s] = 0]
        /\ probe' = probe
    BY <1>2 DEF HeartbeatStart
  <2>2. HeartbeatType
    BY DEF TypeOK
  <2> QED BY <2>1, <2>2 DEF HeartbeatType
<1> QED BY <1>1, <1>2

LEMMA ScheduleType ==
    ASSUME TypeOK, NEW s \in Sessions, brickKey[s] \in Bricks, ScheduleReconnect(s)
    PROVE  ReconnectType'
<1>1. attempts[s] + 1 \in 0..MaxAttempts
  BY ConstantsAssumption DEF ScheduleReconnect, TypeOK, ReconnectType
<1> QED BY <1>1 DEF ScheduleReconnect, TypeOK, ReconnectType

LEMMA EnqueueType ==
    ASSUME TypeOK, NEW s \in Sessions, NEW command \in Commands, Enqueue(s, command)
    PROVE  QueuesType'
<1>1. Push(queue[s], command) \in QueueType(Commands)
  BY PushType DEF TypeOK, QueuesType
<1>2. Transmit(brickKey[s]) \in SendStates
  BY HelperTypes DEF SendStates
<1> QED BY <1>1, <1>2 DEF Enqueue, TypeOK, QueuesType, SendStates

\* Actions of the providers and the environment.
LEMMA EnvironmentType ==
    ASSUME IInv, NEW c, NEW s, NEW k,
           \/ c \in Calls /\ ProviderStep(c)
           \/ s \in Sessions /\ (Reply(s) \/ SendFails(s))
           \/ k \in Bricks /\ (AdapterFails(k) \/ UnregisterProvider(k))
    PROVE  TypeOK'
<1> USE DEF IInv
<1>0. ASSUME Fault PROVE faults' \in 0..MaxFaults
  BY <1>0, ConstantsAssumption DEF Fault, TypeOK, ProviderType
<1>w. ASSUME NEW wait \in {"queued", "opening", "closing", "resolved", "rejected"},
             c \in Calls, calls' = [calls EXCEPT ![c].wait = wait]
      PROVE  calls' \in [Calls -> CallType]
  <2>1. [calls[c] EXCEPT !.wait = wait] \in CallType
    BY <1>w DEF TypeOK, CallType
  <2> QED BY <1>w, <2>1 DEF TypeOK
<1>1. CASE c \in Calls /\ AdapterCloses(c)
  <2>1. calls[c].s \in Sessions /\ brickKey[calls[c].s] \in Bricks
    BY <1>1 DEF AdapterCloses, FrameInv, BornInv
  <2>2. AfterClose(calls[c]) \in {"queued", "opening", "resolved", "rejected"}
    BY <2>1, HelperTypes DEF AfterClose
  <2>3. calls' \in [Calls -> CallType]
    BY <1>1, <1>w, <2>2 DEF AdapterCloses
  <2>4. waiters' \in [Bricks -> Seq(Calls) \cup {None}]
    <3>1. AfterClose(calls[c]) = "queued" =>
              AfterClose(calls[c]) = Opening(brickKey[calls[c].s], adapter)
      BY DEF AfterClose
    <3> QED BY <1>1, <2>1, <3>1, JoinedType DEF AdapterCloses
  <2> QED
    BY <1>1, <2>3, <2>4 DEF AdapterCloses, TypeOK, ManagerType, EntryType, HeartbeatType, QueuesType,
       ReconnectType, ProviderType, managerVars, entryVars, heartbeatVars, queueVars,
       reconnectVars, providerVars
<1>2. CASE c \in Calls /\ AdapterOpens(c)
  <2>1. calls' \in [Calls -> CallType]
    BY <1>2, <1>w DEF AdapterOpens
  <2>2. sending' \in [Sessions -> SendStates]
    BY <1>2 DEF AdapterOpens, TypeOK, QueuesType, SendStates
  <2> QED
    BY <1>2, <2>1, <2>2 DEF AdapterOpens, TypeOK, ManagerType, EntryType, HeartbeatType,
       QueuesType, ReconnectType, ProviderType, managerVars, entryVars, heartbeatVars,
       reconnectVars, SendStates
<1>3. CASE c \in Calls /\ OpenFails(c)
  <2>1. calls' \in [Calls -> CallType]
    BY <1>3, <1>w DEF OpenFails
  <2> QED
    BY <1>3, <1>0, <2>1 DEF OpenFails, TypeOK, ManagerType, EntryType, HeartbeatType,
       QueuesType, ReconnectType, ProviderType, managerVars, entryVars, heartbeatVars,
       queueVars, reconnectVars
<1>4. CASE k \in Bricks /\ AdapterFails(k)
  BY <1>4, <1>0, HelperTypes DEF AdapterFails, TypeOK, ManagerType, EntryType, HeartbeatType,
     QueuesType, ReconnectType, ProviderType, managerVars, entryVars, heartbeatVars,
     reconnectVars, SendStates
<1>5. CASE s \in Sessions /\ Reply(s)
  BY <1>5 DEF Reply, TypeOK, ManagerType, EntryType, HeartbeatType, QueuesType, ReconnectType,
     ProviderType, managerVars, entryVars, heartbeatVars, reconnectVars, providerVars
<1>6. CASE s \in Sessions /\ SendFails(s)
  BY <1>6, <1>0 DEF SendFails, TypeOK, ManagerType, EntryType, HeartbeatType, QueuesType,
     ReconnectType, ProviderType, managerVars, entryVars, heartbeatVars, reconnectVars
<1>7. CASE k \in Bricks /\ UnregisterProvider(k)
  <2>1. calls' \in [Calls -> CallType]
    <3>1. \A d \in Calls : [calls[d] EXCEPT !.wait = "rejected"] \in CallType
      BY DEF TypeOK, CallType
    <3> QED BY <1>7, <3>1 DEF UnregisterProvider, WaitersRejected, TypeOK
  <2>2. waiters' \in [Bricks -> Seq(Calls) \cup {None}]
    <3>1. <<>> \in Seq(Calls)
      OBVIOUS
    <3> QED BY <1>7, <3>1 DEF UnregisterProvider, TypeOK, ProviderType
  <2> QED
    BY <1>7, <1>0, <2>1, <2>2, HelperTypes DEF UnregisterProvider, TypeOK, ManagerType,
       EntryType, HeartbeatType, QueuesType, ReconnectType, ProviderType, managerVars,
       entryVars, heartbeatVars, reconnectVars, SendStates
<1>8. CASE c \in Calls /\ SlotGranted(c)
  <2>1. calls' \in [Calls -> CallType]
    BY <1>8, <1>w DEF SlotGranted
  <2>2. waiters' \in [Bricks -> Seq(Calls) \cup {None}]
    <3> DEFINE b == brickKey[calls[c].s]
    <3>1. b \in Bricks
      BY <1>8 DEF SlotGranted, FrameInv, BornInv
    <3>2. waiters \in [Bricks -> Seq(Calls) \cup {None}]
      BY DEF TypeOK, ProviderType
    <3>3. Tail(waiters[b]) \in Seq(Calls)
      BY <1>8, <3>1, <3>2 DEF SlotGranted
    <3> QED BY <1>8, <3>2, <3>3 DEF SlotGranted
  <2> QED
    BY <1>8, <2>1, <2>2 DEF SlotGranted, TypeOK, ManagerType, EntryType, HeartbeatType,
       QueuesType, ReconnectType, ProviderType, managerVars, entryVars, heartbeatVars,
       queueVars, reconnectVars
<1> QED BY <1>1, <1>2, <1>3, <1>4, <1>5, <1>6, <1>7, <1>8 DEF ProviderStep

\* connect() and disconnect().
LEMMA ConnectType ==
    ASSUME IInv, NEW c \in Calls, NEW s, NEW k,
           \/ k \in Bricks /\ s \in Sessions /\ Connect(k, s, c)
           \/ ConnectSucceeds(c) \/ ConnectFails(c) \/ ConnectAborts(c)
    PROVE  TypeOK'
<1> USE DEF IInv
<1>1. CASE k \in Bricks /\ s \in Sessions /\ Connect(k, s, c)
  <2>1. Frame("connect", s, "connecting", Opening(k, adapter)) \in CallType
    BY <1>1, FrameType, HelperTypes DEF States
  <2>2. ManagerType'
    BY <1>1 DEF Connect, Unsuppressed, TypeOK, ManagerType
  <2>3. EntryType'
    BY <1>1 DEF Connect, TypeOK, EntryType, States
  <2>4. waiters' \in [Bricks -> Seq(Calls) \cup {None}]
    BY <1>1, JoinedType DEF Connect
  <2> QED
    BY <1>1, <2>1, <2>2, <2>3, <2>4 DEF Connect, TypeOK, HeartbeatType, QueuesType,
       ReconnectType, ProviderType, heartbeatVars, queueVars, reconnectVars
<1>2. CASE ConnectSucceeds(c)
  <2> DEFINE r == calls[c].s
  <2>1. r \in Sessions
    BY <1>2 DEF ConnectSucceeds, FrameInv
  <2>2. EntryType'
    BY <1>2, <2>1, TransitionType DEF ConnectSucceeds, TypeOK, EntryType, States
  <2>3. observed' \in [Bricks -> States]
    BY <1>2, FireType DEF ConnectSucceeds, States
  <2>4. HeartbeatType'
    BY <1>2, <2>1, StartType DEF ConnectSucceeds
  <2>5. QueuesType'
    BY <1>2, <2>1, OperationsType DEF ConnectSucceeds, TypeOK, QueuesType
  <2>6. ReconnectType'
    <3>1. 0 \in 0..MaxAttempts
      BY ConstantsAssumption
    <3>2. attempts' \in [Sessions -> 0..MaxAttempts]
      BY <1>2, <3>1 DEF ConnectSucceeds, TypeOK, ReconnectType
    <3> QED BY <1>2, <3>2 DEF ConnectSucceeds, TypeOK, ReconnectType
  <2>7. calls' \in [Calls -> CallType]
    BY <1>2 DEF ConnectSucceeds, TypeOK, CallType, IdleCall, Frame, States
  <2> QED
    BY <1>2, <2>2, <2>3, <2>4, <2>5, <2>6, <2>7
    DEF ConnectSucceeds, TypeOK, ManagerType, ProviderType, managerVars, providerVars
<1>3. CASE ConnectFails(c)
  <2> DEFINE r == calls[c].s
  <2>1. r \in Sessions
    BY <1>3 DEF ConnectFails, FrameInv
  <2>2. EntryType'
    BY <1>3, <2>1, TransitionType DEF ConnectFails, TypeOK, EntryType, States
  <2>3. observed' \in [Bricks -> States]
    BY <1>3, FireType DEF ConnectFails, States
  <2>4. ManagerType'
    BY <1>3 DEF ConnectFails, TypeOK, ManagerType
  <2>5. calls' \in [Calls -> CallType]
    BY <1>3 DEF ConnectFails, TypeOK, CallType, IdleCall, Frame, States
  <2> QED
    BY <1>3, <2>2, <2>3, <2>4, <2>5
    DEF ConnectFails, TypeOK, HeartbeatType, QueuesType, ReconnectType, ProviderType,
        heartbeatVars, queueVars, reconnectVars, providerVars
<1>4. CASE ConnectAborts(c)
  <2>1. calls' \in [Calls -> CallType]
    BY <1>4 DEF ConnectAborts, TypeOK, CallType, IdleCall, Frame, States
  <2> QED
    BY <1>4, <2>1 DEF ConnectAborts, TypeOK, ManagerType, EntryType, HeartbeatType, QueuesType,
       ReconnectType, ProviderType, managerVars, entryVars, heartbeatVars, queueVars,
       reconnectVars, providerVars
<1> QED BY <1>1, <1>2, <1>3, <1>4

LEMMA DisconnectType ==
    ASSUME IInv, NEW c \in Calls, NEW k,
           (k \in Bricks /\ Disconnect(k, c)) \/ DisconnectCompletes(c) \/ DisconnectThrows(c)
    PROVE  TypeOK'
<1> USE DEF IInv
<1>1. CASE k \in Bricks /\ Disconnect(k, c)
  <2> DEFINE r == sessions[k]
  <2>1. r \in Sessions /\ brickKey[r] \in Bricks /\ connectionState[r] \in States
    BY <1>1 DEF Disconnect, MapInv, TypeOK, ManagerType, Live, LiveStates, States
  <2>2. probe \in [Sessions -> ProbeStates] /\ reconnectTimer \in [Sessions -> BOOLEAN]
    BY DEF TypeOK, HeartbeatType, ReconnectType, ProbeStates
  <2>3. /\ hbRunning' \in [Sessions -> BOOLEAN]
        /\ hbTimer' \in [Sessions -> BOOLEAN]
        /\ probe' \in [Sessions -> ProbeStates]
        /\ QueuesType'
        /\ reconnectTimer' \in [Sessions -> BOOLEAN]
        /\ adapter' \in [Bricks -> {"none", "open", "dead"}]
        /\ calls' \in [Calls -> CallType]
    BY <1>1, <2>1, <2>2, DisconnectingType DEF Disconnect
  <2>4. ManagerType' /\ EntryType'
    BY <1>1 DEF Disconnect, TypeOK, ManagerType, EntryType
  <2> QED
    BY <1>1, <2>3, <2>4
    DEF Disconnect, TypeOK, HeartbeatType, ReconnectType, ProviderType, ProbeStates
<1>2. CASE DisconnectCompletes(c)
  <2> DEFINE r == calls[c].s
  <2>1. r \in Sessions
    BY <1>2 DEF DisconnectCompletes, FrameInv
  <2>2. EntryType'
    BY <1>2, <2>1, TransitionType DEF DisconnectCompletes, TypeOK, EntryType, States
  <2>3. observed' \in [Bricks -> States]
    BY <1>2, FireType DEF DisconnectCompletes, States, TypeOK
  <2>4. ManagerType'
    BY <1>2 DEF DisconnectCompletes, TypeOK, ManagerType
  <2>5. calls' \in [Calls -> CallType]
    BY <1>2 DEF DisconnectCompletes, TypeOK, CallType, IdleCall, Frame, States
  <2> QED
    BY <1>2, <2>2, <2>3, <2>4, <2>5
    DEF DisconnectCompletes, TypeOK, HeartbeatType, QueuesType, ReconnectType, ProviderType,
        heartbeatVars, queueVars, reconnectVars, providerVars
<1>3. CASE DisconnectThrows(c)
  <2>1. calls' \in [Calls -> CallType]
    BY <1>3 DEF DisconnectThrows, TypeOK, CallType, IdleCall, Frame, States
  <2> QED
    BY <1>3, <2>1 DEF DisconnectThrows, TypeOK, ManagerType, EntryType, HeartbeatType,
       QueuesType, ReconnectType, ProviderType, managerVars, entryVars, heartbeatVars,
       queueVars, reconnectVars, providerVars
<1> QED BY <1>1, <1>2, <1>3

\* The foreground, commands, suppressions and dispose().
LEMMA UserType ==
    ASSUME IInv, NEW k, NEW s,
           \/ k \in Bricks /\ (SetActiveBrick(k) \/ Send(k))
           \/ s \in Sessions /\ DrainResumes(s)
           \/ ClearActiveBrick \/ ClearSuppressions \/ Dispose
    PROVE  TypeOK'
<1> USE DEF IInv
<1>1. CASE k \in Bricks /\ SetActiveBrick(k)
  <2>1. activeMode' \in [Sessions -> {"minimal", "subscribed", "foreground"}]
    BY <1>1, HelperTypes DEF SetActiveBrick, TypeOK, ManagerType
  <2> QED
    BY <1>1, <2>1 DEF SetActiveBrick, TypeOK, ManagerType, EntryType, HeartbeatType,
       QueuesType, ReconnectType, ProviderType, heartbeatVars, queueVars, reconnectVars,
       providerVars
<1>2. CASE ClearActiveBrick
  <2>1. activeMode' \in [Sessions -> {"minimal", "subscribed", "foreground"}]
    BY <1>2, HelperTypes DEF ClearActiveBrick, TypeOK, ManagerType
  <2> QED
    BY <1>2, <2>1 DEF ClearActiveBrick, TypeOK, ManagerType, EntryType, HeartbeatType,
       QueuesType, ReconnectType, ProviderType, heartbeatVars, queueVars, reconnectVars,
       providerVars
<1>3. CASE k \in Bricks /\ Send(k)
  <2>1. QueuesType'
    BY <1>3, EnqueueType DEF Send, TypeOK, ManagerType, Commands
  <2> QED
    BY <1>3, <2>1 DEF Send, TypeOK, ManagerType, EntryType, HeartbeatType, ReconnectType,
       ProviderType, managerVars, entryVars, heartbeatVars, reconnectVars, providerVars
<1>4. CASE s \in Sessions /\ DrainResumes(s)
  <2>1. Advance(queue[s]) \in QueueType(Commands)
    BY <1>4, AdvanceType DEF TypeOK, QueuesType
  <2>2. Transmit(brickKey[s]) \in SendStates
    BY HelperTypes DEF SendStates
  <2>3. QueuesType'
    BY <1>4, <2>1, <2>2 DEF DrainResumes, TypeOK, QueuesType, SendStates
  <2>4. HeartbeatType'
    BY <1>4 DEF DrainResumes, TypeOK, HeartbeatType
  <2> QED
    BY <1>4, <2>3, <2>4 DEF DrainResumes, TypeOK, ManagerType, EntryType, ReconnectType,
       ProviderType, managerVars, entryVars, reconnectVars, providerVars
<1>5. CASE ClearSuppressions
  BY <1>5 DEF ClearSuppressions, TypeOK, ManagerType, EntryType, HeartbeatType, QueuesType,
     ReconnectType, ProviderType, entryVars, heartbeatVars, queueVars, reconnectVars,
     providerVars
<1>6. CASE Dispose
  <2>1. \A z \in Sessions : DisposeQueue(queue[z]) \in QueueType(Commands)
    BY OperationsType DEF TypeOK, QueuesType
  <2>2. QueuesType'
    BY <1>6, <2>1 DEF Dispose, TypeOK, QueuesType
  <2>3. \A z \in Sessions : ProbeRejected(probe, z)[z] \in ProbeStates
    BY ProbeRejectedType DEF TypeOK, HeartbeatType, ProbeStates
  <2>4. HeartbeatType'
    BY <1>6, <2>3 DEF Dispose, TypeOK, HeartbeatType, ProbeStates
  <2> QED
    BY <1>6, <2>2, <2>4 DEF Dispose, TypeOK, ManagerType, EntryType, ReconnectType,
       ProviderType, entryVars, providerVars
<1> QED BY <1>1, <1>2, <1>3, <1>4, <1>5, <1>6

\* The session a lookup by key finds.
LEMMA Holder ==
    ASSUME IInv, NEW k \in Bricks, sessions[k] # None
    PROVE  /\ sessions[k] \in Sessions
           /\ brickKey[sessions[k]] = k
           /\ connectionState[sessions[k]] \in LiveStates
           /\ connectionState[sessions[k]] \in States
BY DEF IInv, MapInv, TypeOK, ManagerType, Live, LiveStates, States

\* A monitor that is active belongs to a session of some brick.
LEMMA Owner ==
    ASSUME IInv, NEW s \in Sessions,
           hbTimer[s] \/ probe[s] # "none" \/ reconnectTimer[s]
    PROVE  brickKey[s] \in Bricks /\ connectionState[s] # "unborn"
BY DEF IInv, BornInv

LEMMA HeartbeatStepType ==
    ASSUME IInv, NEW s \in Sessions, HeartbeatTick(s) \/ HeartbeatOutcome(s)
    PROVE  TypeOK'
<1> USE DEF IInv
<1> DEFINE r == sessions[brickKey[s]]
           idle == [probe EXCEPT ![s] = "none"]
<1>a. brickKey[s] \in Bricks
  BY Owner DEF HeartbeatTick, HeartbeatOutcome, HeartbeatSucceeds, HeartbeatMisses,
     HeartbeatLapses, HeartbeatReconnects, HeartbeatDisconnects, HeartbeatExhausts, Reconnecting,
     ThresholdReached, Missed
<1>b. r # None => /\ r \in Sessions /\ brickKey[r] \in Bricks
                  /\ connectionState[r] \in States
  BY <1>a, Holder
<1>c. idle \in [Sessions -> ProbeStates] /\ reconnectTimer \in [Sessions -> BOOLEAN]
  BY DEF TypeOK, HeartbeatType, ReconnectType, ProbeStates
<1>d. ASSUME Missed(s) PROVE consecutiveMisses' \in [Sessions -> Nat]
  BY <1>d DEF Missed, TypeOK, HeartbeatType
<1>1. CASE HeartbeatTick(s)
  <2>1. QueuesType'
    BY <1>1, EnqueueType DEF HeartbeatTick, TypeOK, QueuesType, queueVars, Commands
  <2>2. HeartbeatType'
    BY <1>1 DEF HeartbeatTick, TypeOK, HeartbeatType
  <2> QED
    BY <1>1, <2>1, <2>2 DEF HeartbeatTick, TypeOK, ManagerType, EntryType, ReconnectType,
       ProviderType, managerVars, entryVars, reconnectVars, providerVars
<1>2. CASE HeartbeatSucceeds(s)
  <2>1. HeartbeatType'
    BY <1>2 DEF HeartbeatSucceeds, TypeOK, HeartbeatType
  <2>2. EntryType'
    BY <1>2 DEF HeartbeatSucceeds, TypeOK, EntryType
  <2> QED
    BY <1>2, <2>1, <2>2 DEF HeartbeatSucceeds, TypeOK, ManagerType, QueuesType, ReconnectType,
       ProviderType, managerVars, queueVars, reconnectVars, providerVars
<1>3. CASE HeartbeatMisses(s)
  <2>1. HeartbeatType'
    BY <1>3, <1>d DEF HeartbeatMisses, TypeOK, HeartbeatType
  <2> QED
    BY <1>3, <2>1 DEF HeartbeatMisses, TypeOK, ManagerType, EntryType, QueuesType,
       ReconnectType, ProviderType, managerVars, entryVars, queueVars, reconnectVars,
       providerVars
<1>4. CASE HeartbeatLapses(s)
  <2>1. HeartbeatType'
    BY <1>4, <1>d DEF HeartbeatLapses, ThresholdReached, TypeOK, HeartbeatType
  <2> QED
    BY <1>4, <2>1 DEF HeartbeatLapses, TypeOK, ManagerType, EntryType, QueuesType,
       ReconnectType, ProviderType, managerVars, entryVars, queueVars, reconnectVars,
       providerVars
<1>5. CASE HeartbeatReconnects(s)
  <2>1. Transition(r, "reconnecting") /\ r \in Sessions /\ brickKey[r] \in Bricks
    BY <1>5, <1>b DEF HeartbeatReconnects, Reconnecting
  <2>2. EntryType'
    BY <1>5, <2>1, TransitionType DEF HeartbeatReconnects, TypeOK, EntryType, States
  <2>3. observed' \in [Bricks -> States]
    BY <1>5, FireType DEF HeartbeatReconnects, Reconnecting, States
  <2>4. HeartbeatType'
    BY <1>5, <1>c, <1>d DEF HeartbeatReconnects, Reconnecting, ThresholdReached, TypeOK,
       HeartbeatType, ProbeStates
  <2>5. ReconnectType'
    BY <1>5, <2>1, ScheduleType DEF HeartbeatReconnects
  <2> QED
    BY <1>5, <2>2, <2>3, <2>4, <2>5 DEF HeartbeatReconnects, TypeOK, ManagerType, QueuesType,
       ProviderType, managerVars, queueVars, providerVars
<1>6. ASSUME NEW c \in Calls, HeartbeatDisconnects(s, c) PROVE TypeOK'
  <2>1. /\ r \in Sessions /\ brickKey[r] \in Bricks /\ connectionState[r] \in States
        /\ Disconnecting(r, connectionState[r], c, idle, reconnectTimer)
        /\ Missed(s)
    BY <1>6, <1>b DEF HeartbeatDisconnects, ThresholdReached
  <2>2. /\ hbRunning' \in [Sessions -> BOOLEAN]
        /\ hbTimer' \in [Sessions -> BOOLEAN]
        /\ probe' \in [Sessions -> ProbeStates]
        /\ QueuesType'
        /\ reconnectTimer' \in [Sessions -> BOOLEAN]
        /\ adapter' \in [Bricks -> {"none", "open", "dead"}]
        /\ calls' \in [Calls -> CallType]
    BY <1>c, <2>1, DisconnectingType
  <2> QED
    BY <1>6, <1>d, <2>1, <2>2 DEF HeartbeatDisconnects, TypeOK, ManagerType, EntryType,
       HeartbeatType, ReconnectType, ProviderType, ProbeStates, managerVars, entryVars
<1>7. ASSUME NEW c \in Calls, HeartbeatExhausts(s, c) PROVE TypeOK'
  <2>1. /\ r \in Sessions /\ brickKey[r] \in Bricks
        /\ Transition(r, "reconnecting") /\ Fire(brickKey[r], "reconnecting")
        /\ Disconnecting(r, "reconnecting", c, idle, reconnectTimer)
        /\ Missed(s)
    BY <1>7, <1>b DEF HeartbeatExhausts, Reconnecting, ThresholdReached
  <2>2. /\ hbRunning' \in [Sessions -> BOOLEAN]
        /\ hbTimer' \in [Sessions -> BOOLEAN]
        /\ probe' \in [Sessions -> ProbeStates]
        /\ QueuesType'
        /\ reconnectTimer' \in [Sessions -> BOOLEAN]
        /\ adapter' \in [Bricks -> {"none", "open", "dead"}]
        /\ calls' \in [Calls -> CallType]
    BY <1>c, <2>1, DisconnectingType DEF States
  <2>3. EntryType'
    BY <1>7, <2>1, TransitionType DEF HeartbeatExhausts, TypeOK, EntryType, States
  <2>4. observed' \in [Bricks -> States]
    BY <2>1, FireType DEF States
  <2> QED
    BY <1>7, <1>d, <2>1, <2>2, <2>3, <2>4 DEF HeartbeatExhausts, TypeOK, ManagerType,
       HeartbeatType, ReconnectType, ProviderType, ProbeStates, managerVars
<1> QED
  BY <1>1, <1>2, <1>3, <1>4, <1>5, <1>6, <1>7 DEF HeartbeatOutcome

\* A timer of scheduleReconnect(), up to the await of the attempt.
LEMMA AttemptType ==
    ASSUME IInv, NEW k \in Bricks, NEW c \in Calls,
           NEW timers \in [Sessions -> BOOLEAN], AttemptReconnect(k, c, timers),
           UNCHANGED <<managerVars, entryVars, attempts, provided, faults, observed>>,
           strayTimers' \in [Bricks -> Nat]
    PROVE  TypeOK'
<1> USE DEF IInv
<1> DEFINE r == sessions[k]
<1>a. ManagerType' /\ EntryType' /\ observed' \in [Bricks -> States]
  BY DEF TypeOK, ManagerType, EntryType, managerVars, entryVars
<1>b. probe \in [Sessions -> ProbeStates]
  BY DEF TypeOK, HeartbeatType, ProbeStates
<1>1. CASE /\ reconnectTimer' = timers
           /\ UNCHANGED <<heartbeatVars, queueVars, calls, adapter, waiters>>
  BY <1>1, <1>a DEF TypeOK, HeartbeatType, QueuesType, ReconnectType, ProviderType,
     heartbeatVars, queueVars
<1>2. CASE /\ r # None
           /\ connectionState[r] = "reconnecting"
           /\ Disconnecting(r, "reconnecting", c, probe, timers)
           /\ UNCHANGED <<consecutiveMisses, waiters>>
  <2>1. r \in Sessions /\ brickKey[r] \in Bricks
    BY <1>2, Holder
  <2>2. /\ hbRunning' \in [Sessions -> BOOLEAN]
        /\ hbTimer' \in [Sessions -> BOOLEAN]
        /\ probe' \in [Sessions -> ProbeStates]
        /\ QueuesType'
        /\ reconnectTimer' \in [Sessions -> BOOLEAN]
        /\ adapter' \in [Bricks -> {"none", "open", "dead"}]
        /\ calls' \in [Calls -> CallType]
    BY <1>2, <1>b, <2>1, DisconnectingType DEF States
  <2> QED
    BY <1>2, <1>a, <2>2 DEF TypeOK, HeartbeatType, ReconnectType, ProviderType, ProbeStates
<1>3. CASE /\ r # None
           /\ adapter' = IF RecoverCloses(k) THEN [adapter EXCEPT ![k] = "none"] ELSE adapter
           /\ sending' = IF RecoverCloses(k) THEN SendsCut(k) ELSE sending
           /\ calls' = [calls EXCEPT ![c] = Frame("attemptReconnect", r, "reconnecting",
                         IF RecoverCloses(k) THEN "closing" ELSE Opening(k, adapter))]
           /\ waiters' = IF RecoverCloses(k) THEN waiters ELSE Joined(k, c, Opening(k, adapter))
           /\ reconnectTimer' = timers
           /\ UNCHANGED <<heartbeatVars, queue>>
  <2>1. r \in Sessions
    BY <1>3, Holder
  <2>2. (IF RecoverCloses(k) THEN "closing" ELSE Opening(k, adapter))
            \in {"queued", "opening", "closing", "resolved", "rejected"}
    BY HelperTypes
  <2>3. calls' \in [Calls -> CallType]
    BY <1>3, <2>1, <2>2, FrameType DEF TypeOK, States
  <2>4. QueuesType'
    BY <1>3, HelperTypes DEF TypeOK, QueuesType, SendStates
  <2>5. waiters' \in [Bricks -> Seq(Calls) \cup {None}]
    BY <1>3, JoinedType DEF TypeOK, ProviderType
  <2> QED
    BY <1>3, <1>a, <2>3, <2>4, <2>5 DEF TypeOK, HeartbeatType, ReconnectType, ProviderType,
       heartbeatVars
<1> QED BY <1>1, <1>2, <1>3 DEF AttemptReconnect

LEMMA ReconnectStepType ==
    ASSUME IInv, NEW c \in Calls, NEW s, NEW k,
           \/ s \in Sessions /\ ReconnectTimerFires(s, c)
           \/ k \in Bricks /\ StrayTimerFires(k, c)
           \/ AttemptSucceeds(c) \/ AttemptFails(c)
    PROVE  TypeOK'
<1> USE DEF IInv
<1>1. CASE s \in Sessions /\ ReconnectTimerFires(s, c)
  <2>1. brickKey[s] \in Bricks
    BY <1>1, Owner DEF ReconnectTimerFires
  <2>2. [reconnectTimer EXCEPT ![s] = FALSE] \in [Sessions -> BOOLEAN]
    BY DEF TypeOK, ReconnectType
  <2>3. strayTimers' \in [Bricks -> Nat]
    BY <1>1 DEF ReconnectTimerFires, TypeOK, ReconnectType
  <2> QED BY <1>1, <2>1, <2>2, <2>3, AttemptType DEF ReconnectTimerFires
<1>2. CASE k \in Bricks /\ StrayTimerFires(k, c)
  <2>1. reconnectTimer \in [Sessions -> BOOLEAN]
    BY DEF TypeOK, ReconnectType
  <2>2. strayTimers' \in [Bricks -> Nat]
    BY <1>2 DEF StrayTimerFires, TypeOK, ReconnectType
  <2> QED BY <1>2, <2>1, <2>2, AttemptType DEF StrayTimerFires
<1>3. CASE AttemptSucceeds(c)
  <2> DEFINE r == calls[c].s
  <2>1. r \in Sessions
    BY <1>3 DEF AttemptSucceeds, FrameInv
  <2>2. EntryType'
    BY <1>3, <2>1, TransitionType DEF AttemptSucceeds, TypeOK, EntryType, States
  <2>3. observed' \in [Bricks -> States]
    BY <1>3, FireType DEF AttemptSucceeds, States
  <2>4. HeartbeatType'
    BY <1>3, <2>1, StartType DEF AttemptSucceeds
  <2>5. QueuesType'
    BY <1>3, <2>1, OperationsType DEF AttemptSucceeds, TypeOK, QueuesType
  <2>6. ReconnectType'
    <3>1. 0 \in 0..MaxAttempts
      BY ConstantsAssumption
    <3>2. attempts' \in [Sessions -> 0..MaxAttempts]
      BY <1>3, <3>1 DEF AttemptSucceeds, TypeOK, ReconnectType
    <3> QED BY <1>3, <3>2 DEF AttemptSucceeds, TypeOK, ReconnectType
  <2>7. calls' \in [Calls -> CallType]
    BY <1>3 DEF AttemptSucceeds, TypeOK, CallType, IdleCall, Frame, States
  <2> QED
    BY <1>3, <2>2, <2>3, <2>4, <2>5, <2>6, <2>7
    DEF AttemptSucceeds, TypeOK, ManagerType, ProviderType, managerVars, providerVars
<1>4. CASE AttemptFails(c)
  <2> DEFINE b == brickKey[calls[c].s]
             r == sessions[b]
  <2>1. b \in Bricks
    BY <1>4 DEF AttemptFails, FrameInv, BornInv
  <2>2. r # None => /\ r \in Sessions /\ brickKey[r] \in Bricks
                    /\ connectionState[r] \in States
    BY <2>1, Holder
  <2>3. ManagerType' /\ EntryType' /\ observed' \in [Bricks -> States]
    BY <1>4 DEF AttemptFails, TypeOK, ManagerType, EntryType, managerVars, entryVars
  <2>4. Reschedule(b, c) /\ UNCHANGED <<provided, waiters, faults>>
    BY <1>4 DEF AttemptFails
  <2>5. IdleCall \in CallType
    BY DEF CallType, IdleCall, Frame, States
  <2>6. CASE /\ calls' = [calls EXCEPT ![c] = IdleCall]
             /\ UNCHANGED <<heartbeatVars, queueVars, reconnectVars, adapter>>
    BY <2>3, <2>4, <2>5, <2>6 DEF TypeOK, HeartbeatType, QueuesType, ReconnectType,
       ProviderType, heartbeatVars, queueVars, reconnectVars
  <2>7. CASE /\ r # None
             /\ ScheduleReconnect(r)
             /\ calls' = [calls EXCEPT ![c] = IdleCall]
             /\ UNCHANGED <<heartbeatVars, queueVars, adapter>>
    <3>1. ReconnectType'
      BY <2>2, <2>7, ScheduleType
    <3> QED
      BY <2>3, <2>4, <2>5, <2>7, <3>1 DEF TypeOK, HeartbeatType, QueuesType, ProviderType,
         heartbeatVars, queueVars
  <2>8. CASE /\ r # None
             /\ Disconnecting(r, connectionState[r], c, probe, reconnectTimer)
             /\ UNCHANGED <<consecutiveMisses, attempts, strayTimers>>
    <3>1. probe \in [Sessions -> ProbeStates] /\ reconnectTimer \in [Sessions -> BOOLEAN]
      BY DEF TypeOK, HeartbeatType, ReconnectType, ProbeStates
    <3>2. /\ hbRunning' \in [Sessions -> BOOLEAN]
          /\ hbTimer' \in [Sessions -> BOOLEAN]
          /\ probe' \in [Sessions -> ProbeStates]
          /\ QueuesType'
          /\ reconnectTimer' \in [Sessions -> BOOLEAN]
          /\ adapter' \in [Bricks -> {"none", "open", "dead"}]
          /\ calls' \in [Calls -> CallType]
      BY <2>2, <2>8, <3>1, DisconnectingType
    <3> QED
      BY <2>3, <2>4, <2>8, <3>2 DEF TypeOK, HeartbeatType, ReconnectType, ProviderType,
         ProbeStates
  <2> QED BY <2>4, <2>6, <2>7, <2>8 DEF Reschedule
<1> QED BY <1>1, <1>2, <1>3, <1>4

LEMMA NextType == IInv /\ [Next]_vars => TypeOK'
<1> SUFFICES ASSUME IInv, [Next]_vars PROVE TypeOK'
  OBVIOUS
<1>1. CASE UserCall
  BY <1>1, UserType, DisconnectType, ConnectType DEF UserCall, SessionCall
<1>2. ASSUME NEW c \in Calls,
             Continuation(c) \/ ProviderStep(c)
      PROVE  TypeOK'
  BY <1>2, ConnectType, DisconnectType, ReconnectStepType, EnvironmentType DEF Continuation
<1>3. ASSUME NEW s \in Sessions,
             \/ HeartbeatTick(s) \/ HeartbeatOutcome(s) \/ DrainResumes(s)
             \/ TimerFires(s) \/ Reply(s) \/ SendFails(s)
      PROVE  TypeOK'
  BY <1>3, HeartbeatStepType, UserType, ReconnectStepType, EnvironmentType DEF TimerFires
<1>4. ASSUME NEW k \in Bricks, StrayFires(k) \/ AdapterFails(k) \/ UnregisterProvider(k)
      PROVE  TypeOK'
  BY <1>4, ReconnectStepType, EnvironmentType DEF StrayFires
<1>5. CASE UNCHANGED vars
  BY <1>5 DEF IInv, TypeOK, ManagerType, EntryType, HeartbeatType, QueuesType, ReconnectType,
     ProviderType, vars, managerVars, entryVars, heartbeatVars, queueVars, reconnectVars,
     providerVars
<1> QED BY <1>1, <1>2, <1>3, <1>4, <1>5 DEF Next, HostStep

-----------------------------------------------------------------------------
(* The core.  Twelve actions touch what the safety invariants speak about;   *)
(* coreVars names those variables, and every other action leaves them        *)
(* unchanged.  Of the twelve, five only move a live session to another live  *)
(* state (Moves) and two end a session and take it out of the map (Ends).    *)

coreVars == <<sessions, activeBrickKey, suppressedBricks, disposed, brickKey,
              connectionState, activeMode, explicitlyDisconnected, observed>>

\* What relates the map, the entries and the observer.
Core == MapInv /\ ForegroundIsActive /\ ObserverAgrees /\ SuppressionFollowsExplicit

LEMMA CalmKeepsCore == IInv /\ UNCHANGED coreVars => Core'
BY DEF IInv, Core, coreVars, MapInv, ForegroundIsActive, ObserverAgrees,
       SuppressionFollowsExplicit, Live

\* entry.transition() from one live state to another, announced.
Moves(s, target) ==
    /\ Transition(s, target)
    /\ Fire(brickKey[s], target)
    /\ UNCHANGED <<managerVars, brickKey, activeMode, explicitlyDisconnected>>

LEMMA MoveKeepsCore ==
    ASSUME IInv, NEW s \in Sessions, brickKey[s] \in Bricks,
           NEW target \in {"connected", "reconnecting"}, Moves(s, target)
    PROVE  Core'
<1> USE DEF IInv
<1>0. /\ sessions' = sessions /\ activeBrickKey' = activeBrickKey
      /\ suppressedBricks' = suppressedBricks /\ disposed' = disposed
      /\ brickKey' = brickKey /\ activeMode' = activeMode
      /\ explicitlyDisconnected' = explicitlyDisconnected
  BY DEF Moves, managerVars
<1>1. /\ connectionState[s] \in LiveStates
      /\ connectionState' = [connectionState EXCEPT ![s] = target]
      /\ connectionState'[s] = target /\ target \in LiveStates
      /\ \A z \in Sessions : z # s => connectionState'[z] = connectionState[z]
  BY DEF Moves, Transition, ValidTransitions, LiveStates, TypeOK, EntryType
<1>2. \A z \in Sessions : Live(z)' <=> Live(z)
  BY <1>1 DEF Live
<1>3. MapInv'
  BY <1>0, <1>2 DEF MapInv, TypeOK, ManagerType
<1>4. ForegroundIsActive'
  BY <1>0, <1>2 DEF ForegroundIsActive
<1>5. ObserverAgrees'
  <2> SUFFICES ASSUME ~disposed, NEW k \in Bricks
               PROVE  observed'[k] =
                   IF sessions[k] # None /\ connectionState'[sessions[k]] # "connecting"
                   THEN connectionState'[sessions[k]] ELSE "disconnected"
    BY <1>0 DEF ObserverAgrees
  <2>1. observed' = [observed EXCEPT ![brickKey[s]] = target]
    BY DEF Moves, Fire
  <2>2. sessions[brickKey[s]] = s /\ s # None
    BY <1>1, ConstantsAssumption DEF MapInv, Live
  <2>3. CASE k = brickKey[s]
    BY <1>1, <2>1, <2>2, <2>3 DEF TypeOK
  <2>4. CASE k # brickKey[s]
    <3>1. observed'[k] = observed[k]
      BY <2>1, <2>4 DEF TypeOK
    <3>2. sessions[k] # None => sessions[k] \in Sessions /\ sessions[k] # s
      BY <2>4 DEF MapInv, TypeOK, ManagerType
    <3> QED BY <1>1, <3>1, <3>2 DEF ObserverAgrees
  <2> QED BY <2>3, <2>4
<1>6. SuppressionFollowsExplicit'
  BY <1>0 DEF SuppressionFollowsExplicit
<1> QED BY <1>3, <1>4, <1>5, <1>6 DEF Core

\* A session ends: its entry is disconnected, its brick leaves the map.
Ends(s) ==
    /\ Transition(s, "disconnected")
    /\ sessions' = [sessions EXCEPT ![brickKey[s]] = None]
    /\ activeBrickKey' = activeBrickKey \/ (activeBrickKey = brickKey[s] /\ activeBrickKey' = None)
    /\ Fire(brickKey[s], "disconnected")
    /\ UNCHANGED <<suppressedBricks, disposed, brickKey, activeMode, explicitlyDisconnected>>

LEMMA EndKeepsCore ==
    ASSUME IInv, NEW s \in Sessions, brickKey[s] \in Bricks, Ends(s)
    PROVE  Core'
<1> USE DEF IInv
<1> DEFINE b == brickKey[s]
<1>0. /\ suppressedBricks' = suppressedBricks /\ disposed' = disposed
      /\ brickKey' = brickKey /\ activeMode' = activeMode
      /\ explicitlyDisconnected' = explicitlyDisconnected
  BY DEF Ends
<1>1. /\ connectionState[s] \in LiveStates
      /\ connectionState'[s] = "disconnected"
      /\ \A z \in Sessions : z # s => connectionState'[z] = connectionState[z]
  BY DEF Ends, Transition, ValidTransitions, LiveStates, TypeOK, EntryType
<1>2. ~Live(s)' /\ \A z \in Sessions : z # s => (Live(z)' <=> Live(z))
  BY <1>1 DEF Live, LiveStates
<1>3. /\ sessions'[b] = None
      /\ \A k \in Bricks : k # b => sessions'[k] = sessions[k]
      /\ \A k \in Bricks : k # b /\ sessions[k] # None => sessions[k] \in Sessions \ {s}
  BY DEF Ends, MapInv, TypeOK, ManagerType
<1>4. \A z \in Sessions : ~disposed /\ z # s /\ Live(z) =>
         brickKey[z] \in Bricks /\ brickKey[z] # b
  BY <1>1 DEF MapInv, BornInv, Live, LiveStates
<1>5. MapInv'
  BY <1>0, <1>2, <1>3, <1>4 DEF MapInv
<1>6. ForegroundIsActive'
  <2>1. \A z \in Sessions : ~disposed /\ Live(z)' => z # s /\ Live(z) /\ brickKey[z] # b
    BY <1>2, <1>4
  <2>2. \A z \in Sessions : ~disposed /\ Live(z)' /\ activeMode[z] = "foreground" =>
           activeBrickKey = brickKey[z] /\ activeBrickKey # b
    BY <2>1 DEF ForegroundIsActive
  <2>3. activeBrickKey' = activeBrickKey \/ activeBrickKey = b
    BY DEF Ends
  <2> QED BY <1>0, <2>2, <2>3 DEF ForegroundIsActive
<1>7. ObserverAgrees'
  <2> SUFFICES ASSUME ~disposed, NEW k \in Bricks
               PROVE  observed'[k] =
                   IF sessions'[k] # None /\ connectionState'[sessions'[k]] # "connecting"
                   THEN connectionState'[sessions'[k]] ELSE "disconnected"
    BY <1>0 DEF ObserverAgrees
  <2>1. observed' = [observed EXCEPT ![b] = "disconnected"]
    BY DEF Ends, Fire
  <2>2. CASE k = b
    BY <1>3, <2>1, <2>2 DEF TypeOK
  <2>3. CASE k # b
    <3>1. observed'[k] = observed[k] /\ sessions'[k] = sessions[k]
      BY <1>3, <2>1, <2>3 DEF TypeOK
    <3>2. sessions[k] # None => connectionState'[sessions[k]] = connectionState[sessions[k]]
      BY <1>1, <1>3, <2>3
    <3> QED BY <3>1, <3>2 DEF ObserverAgrees
  <2> QED BY <2>2, <2>3
<1>8. SuppressionFollowsExplicit'
  BY <1>0, <1>3 DEF SuppressionFollowsExplicit, TypeOK, ManagerType
<1> QED BY <1>5, <1>6, <1>7, <1>8 DEF Core

\* connect() puts a new object under a free key.
LEMMA ConnectKeepsCore ==
    ASSUME IInv, NEW k \in Bricks, NEW s \in Sessions, NEW c \in Calls, Connect(k, s, c)
    PROVE  Core'
<1> USE DEF IInv
<1>0. /\ ~disposed /\ disposed' = disposed /\ sessions[k] = None
      /\ connectionState[s] = "unborn" /\ activeMode[s] = "minimal" /\ s # None
      /\ suppressedBricks' = suppressedBricks \ {k}
      /\ activeBrickKey' = activeBrickKey /\ activeMode' = activeMode
      /\ explicitlyDisconnected' = explicitlyDisconnected /\ observed' = observed
  BY ConstantsAssumption DEF Connect, Unsuppressed, BornInv
<1>1. /\ brickKey'[s] = k /\ connectionState'[s] = "connecting" /\ sessions'[k] = s
      /\ \A z \in Sessions : z # s =>
             brickKey'[z] = brickKey[z] /\ connectionState'[z] = connectionState[z]
      /\ \A b \in Bricks : b # k => sessions'[b] = sessions[b]
  BY DEF Connect, TypeOK, EntryType, ManagerType
<1>2. \A b \in Bricks : b # k /\ sessions[b] # None => sessions[b] \in Sessions \ {s}
  BY <1>0 DEF MapInv, Live, LiveStates, TypeOK, ManagerType
<1>3. Live(s)' /\ \A z \in Sessions : z # s => (Live(z)' <=> Live(z))
  BY <1>1 DEF Live, LiveStates
<1>4. \A z \in Sessions : z # s /\ Live(z) => brickKey[z] \in Bricks \ {k}
  BY <1>0, ConstantsAssumption DEF MapInv, BornInv, Live, LiveStates
<1>5. MapInv'
  <2>1. \A b \in Bricks : sessions'[b] # None =>
           Live(sessions[b])' /\ brickKey'[sessions'[b]] = b
    <3> SUFFICES ASSUME NEW b \in Bricks, sessions'[b] # None
                 PROVE  connectionState'[sessions'[b]] \in LiveStates /\ brickKey'[sessions'[b]] = b
      BY DEF Live
    <3>1. CASE b = k
      BY <1>1, <3>1 DEF LiveStates
    <3>2. CASE b # k
      BY <1>1, <1>2, <3>2 DEF MapInv, Live
    <3> QED BY <3>1, <3>2
  <2>2. \A z \in Sessions : Live(z)' => sessions'[brickKey'[z]] = z
    <3> SUFFICES ASSUME NEW z \in Sessions, Live(z)'
                 PROVE  sessions'[brickKey'[z]] = z
      OBVIOUS
    <3>1. CASE z = s
      BY <1>1, <3>1
    <3>2. CASE z # s
      BY <1>0, <1>1, <1>3, <1>4, <3>2 DEF MapInv
    <3> QED BY <3>1, <3>2
  <2> QED BY <2>1, <2>2 DEF MapInv, Live
<1>6. ForegroundIsActive'
  BY <1>0, <1>1, <1>3 DEF ForegroundIsActive
<1>7. ObserverAgrees'
  BY <1>0, <1>1, <1>2 DEF ObserverAgrees
<1>8. SuppressionFollowsExplicit'
  BY <1>0, <1>1 DEF SuppressionFollowsExplicit, TypeOK, ManagerType
<1> QED BY <1>5, <1>6, <1>7, <1>8 DEF Core

\* The calls of the user that touch the core without moving an entry.
LEMMA UserKeepsCore ==
    ASSUME IInv, NEW k, NEW c,
           \/ k \in Bricks /\ (SetActiveBrick(k) \/ Disconnect(k, c))
           \/ ClearActiveBrick \/ ClearSuppressions \/ Dispose
    PROVE  Core'
<1> USE DEF IInv
<1>1. CASE k \in Bricks /\ SetActiveBrick(k)
  <2> DEFINE r == sessions[k]
  <2>0. /\ ~disposed /\ activeBrickKey' = k /\ r \in Sessions /\ brickKey[r] = k
        /\ activeMode' = [Demoted(activeBrickKey) EXCEPT ![r] = "foreground"]
        /\ sessions' = sessions /\ suppressedBricks' = suppressedBricks /\ disposed' = disposed
        /\ brickKey' = brickKey /\ connectionState' = connectionState
        /\ explicitlyDisconnected' = explicitlyDisconnected /\ observed' = observed
    BY <1>1, Holder DEF SetActiveBrick
  <2>1. MapInv' /\ ObserverAgrees' /\ SuppressionFollowsExplicit'
    BY <2>0 DEF MapInv, ObserverAgrees, SuppressionFollowsExplicit, Live
  <2>2. ForegroundIsActive'
    <3> SUFFICES ASSUME NEW z \in Sessions, Live(z), activeMode'[z] = "foreground"
                 PROVE  brickKey[z] = k
      BY <2>0 DEF ForegroundIsActive, Live
    <3>1. Demoted(activeBrickKey) \in [Sessions -> {"minimal", "subscribed", "foreground"}]
      BY HelperTypes DEF TypeOK, ManagerType
    <3>2. z # r => Demoted(activeBrickKey)[z] = "foreground"
      BY <2>0, <3>1
    <3>3. Demoted(activeBrickKey)[z] = "foreground" => FALSE
      <4> SUFFICES ASSUME Demoted(activeBrickKey)[z] = "foreground" PROVE FALSE
        OBVIOUS
      <4>1. activeMode[z] = "foreground"
        BY DEF Demoted, TypeOK, EntryType
      <4>2. activeBrickKey = brickKey[z] /\ sessions[brickKey[z]] = z
        BY <2>0, <4>1 DEF ForegroundIsActive, MapInv
      <4>3. brickKey[z] # None /\ z # None
        BY ConstantsAssumption DEF BornInv, Live, LiveStates
      <4> QED BY <4>2, <4>3 DEF Demoted, TypeOK, EntryType
    <3> QED BY <2>0, <3>2, <3>3
  <2> QED BY <2>1, <2>2 DEF Core
<1>2. CASE ClearActiveBrick
  <2>0. /\ ~disposed /\ activeMode' = Demoted(activeBrickKey)
        /\ sessions' = sessions /\ suppressedBricks' = suppressedBricks /\ disposed' = disposed
        /\ brickKey' = brickKey /\ connectionState' = connectionState
        /\ explicitlyDisconnected' = explicitlyDisconnected /\ observed' = observed
    BY <1>2 DEF ClearActiveBrick
  <2>1. MapInv' /\ ObserverAgrees' /\ SuppressionFollowsExplicit'
    BY <2>0 DEF MapInv, ObserverAgrees, SuppressionFollowsExplicit, Live
  <2>2. ForegroundIsActive'
    <3> SUFFICES ASSUME NEW z \in Sessions, Live(z), activeMode'[z] = "foreground"
                 PROVE  FALSE
      BY <2>0 DEF ForegroundIsActive, Live
    <3>1. activeMode[z] = "foreground"
      BY <2>0 DEF Demoted, TypeOK, EntryType
    <3>2. activeBrickKey = brickKey[z] /\ sessions[brickKey[z]] = z
      BY <2>0, <3>1 DEF ForegroundIsActive, MapInv
    <3>3. brickKey[z] # None /\ z # None
      BY ConstantsAssumption DEF BornInv, Live, LiveStates
    <3> QED BY <2>0, <3>2, <3>3 DEF Demoted, TypeOK, EntryType
  <2> QED BY <2>1, <2>2 DEF Core
<1>3. CASE ClearSuppressions
  BY <1>3 DEF ClearSuppressions, entryVars, Core, MapInv, ForegroundIsActive, ObserverAgrees,
     SuppressionFollowsExplicit, Live
<1>4. CASE Dispose
  BY <1>4 DEF Dispose, entryVars, Core, MapInv, ForegroundIsActive, ObserverAgrees,
     SuppressionFollowsExplicit, Live
<1>5. CASE k \in Bricks /\ Disconnect(k, c)
  <2>0. /\ explicitlyDisconnected' = [explicitlyDisconnected EXCEPT ![sessions[k]] = TRUE]
        /\ suppressedBricks' = suppressedBricks \cup {k}
        /\ sessions[k] \in Sessions
        /\ sessions' = sessions /\ activeBrickKey' = activeBrickKey /\ disposed' = disposed
        /\ brickKey' = brickKey /\ connectionState' = connectionState
        /\ activeMode' = activeMode /\ observed' = observed
    BY <1>5, Holder DEF Disconnect
  <2>1. MapInv' /\ ObserverAgrees' /\ ForegroundIsActive'
    BY <2>0 DEF MapInv, ObserverAgrees, ForegroundIsActive, Live
  <2>2. SuppressionFollowsExplicit'
    BY <2>0 DEF SuppressionFollowsExplicit, TypeOK, ManagerType, EntryType
  <2> QED BY <2>1, <2>2 DEF Core
<1> QED BY <1>1, <1>2, <1>3, <1>4, <1>5

-----------------------------------------------------------------------------
(* Every step keeps the core.                                               *)

LEMMA ContinuationKeepsCore ==
    ASSUME IInv, NEW c \in Calls, Continuation(c)
    PROVE  Core'
<1> USE DEF IInv
<1> DEFINE s == calls[c].s
<1>0. calls[c].fn # "idle" => s \in Sessions /\ brickKey[s] \in Bricks
  BY DEF FrameInv, BornInv
<1>1. CASE ConnectSucceeds(c)
  BY <1>0, <1>1, MoveKeepsCore DEF ConnectSucceeds, Moves
<1>2. CASE AttemptSucceeds(c)
  BY <1>0, <1>2, MoveKeepsCore DEF AttemptSucceeds, Moves
<1>3. CASE ConnectFails(c)
  BY <1>0, <1>3, EndKeepsCore DEF ConnectFails, Ends
<1>4. CASE DisconnectCompletes(c)
  <2>1. s \in Sessions /\ brickKey[s] \in Bricks /\ calls[c].prev # "disconnected"
    BY <1>0, <1>4 DEF DisconnectCompletes, FrameInv, LiveStates
  <2>2. Ends(s)
    BY <1>4, <2>1 DEF DisconnectCompletes, Ends
  <2> QED BY <2>1, <2>2, EndKeepsCore
<1>5. CASE ConnectAborts(c) \/ DisconnectThrows(c) \/ AttemptFails(c)
  <2>1. UNCHANGED coreVars
    BY <1>5 DEF ConnectAborts, DisconnectThrows, AttemptFails, coreVars, managerVars, entryVars
  <2> QED BY <2>1, CalmKeepsCore
<1> QED BY <1>1, <1>2, <1>3, <1>4, <1>5 DEF Continuation

LEMMA HeartbeatKeepsCore ==
    ASSUME IInv, NEW s \in Sessions, HeartbeatOutcome(s)
    PROVE  Core'
<1> USE DEF IInv
<1> DEFINE r == sessions[brickKey[s]]
<1>1. CASE HeartbeatSucceeds(s) \/ HeartbeatMisses(s) \/ HeartbeatLapses(s)
  <2>1. UNCHANGED coreVars
    BY <1>1 DEF HeartbeatSucceeds, HeartbeatMisses, HeartbeatLapses, coreVars, managerVars,
       entryVars
  <2> QED BY <2>1, CalmKeepsCore
<1>2. ASSUME NEW c \in Calls, HeartbeatDisconnects(s, c) PROVE Core'
  <2>1. UNCHANGED coreVars
    BY <1>2 DEF HeartbeatDisconnects, coreVars, managerVars, entryVars
  <2> QED BY <2>1, CalmKeepsCore
<1>3. ASSUME Reconnecting(s, r), UNCHANGED <<managerVars, brickKey, activeMode,
             explicitlyDisconnected>>
      PROVE  Core'
  <2>1. brickKey[s] \in Bricks
    BY <1>3, Owner DEF Reconnecting, ThresholdReached, Missed
  <2>2. r \in Sessions /\ brickKey[r] \in Bricks
    BY <1>3, <2>1, Holder DEF Reconnecting
  <2>3. Moves(r, "reconnecting")
    BY <1>3 DEF Reconnecting, Moves
  <2> QED BY <2>2, <2>3, MoveKeepsCore
<1>4. CASE HeartbeatReconnects(s)
  BY <1>3, <1>4 DEF HeartbeatReconnects
<1>5. ASSUME NEW c \in Calls, HeartbeatExhausts(s, c) PROVE Core'
  BY <1>3, <1>5 DEF HeartbeatExhausts
<1> QED BY <1>1, <1>2, <1>4, <1>5 DEF HeartbeatOutcome

LEMMA NextCore == IInv /\ [Next]_vars => Core'
<1> SUFFICES ASSUME IInv, [Next]_vars PROVE Core'
  OBVIOUS
<1>a. ASSUME UNCHANGED coreVars PROVE Core'
  BY <1>a, CalmKeepsCore
<1>1. CASE UserCall
  <2>1. ASSUME NEW k \in Bricks, Send(k) PROVE Core'
    BY <1>a, <2>1 DEF Send, coreVars, managerVars, entryVars
  <2> QED BY <1>1, <2>1, UserKeepsCore, ConnectKeepsCore DEF UserCall, SessionCall
<1>2. ASSUME NEW c \in Calls,
             Continuation(c) \/ ProviderStep(c)
      PROVE  Core'
  BY <1>2, <1>a, ContinuationKeepsCore
  DEF ProviderStep, AdapterCloses, SlotGranted, AdapterOpens, OpenFails, coreVars, managerVars, entryVars
<1>3. ASSUME NEW s \in Sessions,
             \/ HeartbeatTick(s) \/ HeartbeatOutcome(s) \/ DrainResumes(s)
             \/ TimerFires(s) \/ Reply(s) \/ SendFails(s)
      PROVE  Core'
  BY <1>3, <1>a, HeartbeatKeepsCore
  DEF HeartbeatTick, DrainResumes, TimerFires, ReconnectTimerFires, Reply, SendFails,
      coreVars, managerVars, entryVars
<1>4. ASSUME NEW k \in Bricks, StrayFires(k) \/ AdapterFails(k) \/ UnregisterProvider(k)
      PROVE  Core'
  BY <1>4, <1>a
  DEF StrayFires, StrayTimerFires, AdapterFails, UnregisterProvider, coreVars, managerVars,
      entryVars
<1>5. CASE UNCHANGED vars
  BY <1>5, <1>a DEF vars, coreVars, managerVars, entryVars
<1> QED BY <1>1, <1>2, <1>3, <1>4, <1>5 DEF Next, HostStep

-----------------------------------------------------------------------------
(* Session objects are born once, and an unborn one has nothing to do.      *)

Born(z) == connectionState[z] # "unborn"

LEMMA BirthIsFinal ==
    ASSUME IInv, [Next]_vars, NEW z \in Sessions
    PROVE  /\ Born(z) => Born(z)'
           /\ Born(z)' => brickKey'[z] \in Bricks
<1> USE DEF IInv
<1> DEFINE Goal == (Born(z) => Born(z)') /\ (Born(z)' => brickKey'[z] \in Bricks)
<1>a. ASSUME connectionState' = connectionState, brickKey' = brickKey PROVE Goal
  BY <1>a DEF Born, BornInv
<1>b. ASSUME NEW s, NEW target \in States, Transition(s, target), brickKey' = brickKey
      PROVE  Goal
  <2>1. connectionState' = [connectionState EXCEPT ![s] = target] /\ connectionState[s] # "unborn"
    BY <1>b DEF Transition, ValidTransitions
  <2> QED BY <1>b, <2>1 DEF Born, BornInv, TypeOK, EntryType, States
<1>1. CASE UserCall
  <2>1. ASSUME NEW k \in Bricks, NEW s \in Sessions, NEW c \in Calls, Connect(k, s, c)
        PROVE  Goal
    BY <2>1 DEF Connect, Born, BornInv, TypeOK, EntryType
  <2>2. ASSUME NEW k \in Bricks, NEW c \in Calls, Disconnect(k, c) PROVE Goal
    BY <1>a, <2>2 DEF Disconnect
  <2> QED
    BY <1>1, <1>a, <2>1, <2>2 DEF UserCall, SessionCall, ClearActiveBrick,
                ClearSuppressions, Dispose,
       SetActiveBrick, Send, entryVars
<1>2. ASSUME NEW c \in Calls, Continuation(c) PROVE Goal
  BY <1>2, <1>a, <1>b DEF Continuation, ConnectSucceeds, ConnectFails, ConnectAborts,
     DisconnectCompletes, DisconnectThrows, AttemptSucceeds, AttemptFails, entryVars, States
<1>3. ASSUME NEW s \in Sessions, HeartbeatOutcome(s) PROVE Goal
  BY <1>3, <1>a, <1>b DEF HeartbeatOutcome, HeartbeatSucceeds, HeartbeatMisses,
     HeartbeatLapses, HeartbeatReconnects, HeartbeatDisconnects, HeartbeatExhausts,
     Reconnecting, entryVars, States
<1>4. ASSUME NEW c \in Calls, ProviderStep(c) PROVE Goal
  BY <1>4, <1>a DEF ProviderStep, AdapterCloses, SlotGranted, AdapterOpens, OpenFails, entryVars
<1>5. ASSUME NEW s \in Sessions,
             HeartbeatTick(s) \/ DrainResumes(s) \/ TimerFires(s) \/ Reply(s) \/ SendFails(s)
      PROVE  Goal
  BY <1>5, <1>a DEF HeartbeatTick, DrainResumes, TimerFires, ReconnectTimerFires, Reply,
     SendFails, entryVars
<1>6. ASSUME NEW k \in Bricks, StrayFires(k) \/ AdapterFails(k) \/ UnregisterProvider(k)
      PROVE  Goal
  BY <1>6, <1>a DEF StrayFires, StrayTimerFires, AdapterFails, UnregisterProvider, entryVars
<1>7. CASE UNCHANGED vars
  BY <1>7, <1>a DEF vars, entryVars
<1> QED BY <1>1, <1>2, <1>3, <1>4, <1>5, <1>6, <1>7 DEF Next, HostStep

Quiet(z) ==
    /\ ~hbTimer[z] /\ ~reconnectTimer[z]
    /\ probe[z] = "none" /\ sending[z] = "none"
    /\ activeMode[z] = "minimal"

\* A disconnect of another session leaves it alone.
LEMMA DisconnectingQuiet ==
    ASSUME IInv, NEW z \in Sessions, ~Born(z),
           NEW s \in Sessions, Born(s), NEW prev, NEW c,
           NEW probes \in [Sessions -> ProbeStates], probes[z] = "none",
           NEW timers \in [Sessions -> BOOLEAN], ~timers[z],
           Disconnecting(s, prev, c, probes, timers)
    PROVE  ~hbTimer'[z] /\ ~reconnectTimer'[z] /\ probe'[z] = "none" /\ sending'[z] = "none"
<1> USE DEF IInv
<1>1. z # s /\ Quiet(z)
  BY DEF Born, BornInv, Quiet
<1>2. ~hbTimer'[z] /\ ~reconnectTimer'[z]
  BY <1>1 DEF Disconnecting, Quiet, TypeOK, HeartbeatType
<1>3. probe'[z] = "none"
  BY <1>1 DEF Disconnecting, ProbeRejected
<1>4. sending'[z] = "none"
  BY <1>1 DEF Disconnecting, SendsCut, Quiet
<1> QED BY <1>2, <1>3, <1>4

\* A timer of another session, up to the await of the attempt.
LEMMA AttemptQuiet ==
    ASSUME IInv, NEW z \in Sessions, ~Born(z), NEW k \in Bricks, NEW c \in Calls,
           NEW timers \in [Sessions -> BOOLEAN], ~timers[z],
           AttemptReconnect(k, c, timers), UNCHANGED entryVars
    PROVE  Quiet(z)'
<1> USE DEF IInv
<1> DEFINE r == sessions[k]
<1>0. Quiet(z) /\ activeMode'[z] = "minimal"
  BY DEF Born, BornInv, Quiet, entryVars
<1>1. CASE /\ reconnectTimer' = timers
           /\ UNCHANGED <<heartbeatVars, queueVars, calls, adapter>>
  BY <1>0, <1>1 DEF Quiet, heartbeatVars, queueVars
<1>2. CASE /\ r # None
           /\ Disconnecting(r, "reconnecting", c, probe, timers)
  <2>1. r \in Sessions /\ Born(r)
    BY <1>2, Holder DEF Born, LiveStates
  <2>2. probe \in [Sessions -> ProbeStates] /\ probe[z] = "none"
    BY <1>0 DEF TypeOK, HeartbeatType, ProbeStates, Quiet
  <2> QED BY <1>0, <1>2, <2>1, <2>2, DisconnectingQuiet DEF Quiet
<1>3. CASE /\ sending' = IF RecoverCloses(k) THEN SendsCut(k) ELSE sending
           /\ reconnectTimer' = timers
           /\ UNCHANGED <<heartbeatVars, queue>>
  BY <1>0, <1>3 DEF Quiet, heartbeatVars, SendsCut
<1> QED BY <1>1, <1>2, <1>3 DEF AttemptReconnect

LEMMA QuietStays ==
    ASSUME IInv, [Next]_vars, NEW z \in Sessions, ~Born(z)
    PROVE  Quiet(z)'
<1> USE DEF IInv
<1>0. /\ Quiet(z)
      /\ \A k \in Bricks : sessions[k] # z
      /\ \A c \in Calls : calls[c].fn # "idle" => calls[c].s # z
      /\ probe \in [Sessions -> ProbeStates] /\ reconnectTimer \in [Sessions -> BOOLEAN]
  <2>1. Quiet(z)
    BY DEF Born, BornInv, Quiet
  <2>2. \A k \in Bricks : sessions[k] # z
    BY Holder, ConstantsAssumption DEF Born, LiveStates
  <2>3. \A c \in Calls : calls[c].fn # "idle" => calls[c].s # z
    BY DEF FrameInv, Born
  <2> QED BY <2>1, <2>2, <2>3 DEF TypeOK, HeartbeatType, ReconnectType, ProbeStates
<1>a. ASSUME UNCHANGED <<hbTimer, reconnectTimer, probe, sending, activeMode>>
      PROVE  Quiet(z)'
  BY <1>0, <1>a DEF Quiet
<1>b. ASSUME NEW s \in Sessions, s # z, HeartbeatStart(s),
             UNCHANGED <<reconnectTimer, probe, sending, activeMode>>
      PROVE  Quiet(z)'
  BY <1>0, <1>b DEF Quiet, HeartbeatStart, TypeOK, HeartbeatType
<1>c. ASSUME NEW s \in Sessions, s # z, ScheduleReconnect(s),
             UNCHANGED <<hbTimer, sending, activeMode>>, probe'[z] = probe[z]
      PROVE  Quiet(z)'
  BY <1>0, <1>c DEF Quiet, ScheduleReconnect, TypeOK, ReconnectType
<1>d. ASSUME NEW k \in Bricks, sessions[k] # None, NEW prev, NEW c,
             NEW probes \in [Sessions -> ProbeStates], probes[z] = "none",
             Disconnecting(sessions[k], prev, c, probes, reconnectTimer),
             activeMode' = activeMode
      PROVE  Quiet(z)'
  <2>1. sessions[k] \in Sessions /\ Born(sessions[k])
    BY <1>d, Holder DEF Born, LiveStates
  <2> QED BY <1>0, <1>d, <2>1, DisconnectingQuiet DEF Quiet
<1>1. CASE UserCall
  <2>1. ASSUME NEW k \in Bricks, SetActiveBrick(k) PROVE Quiet(z)'
    <3>1. activeMode'[z] = Demoted(activeBrickKey)[z]
      BY <1>0, <2>1, HelperTypes DEF SetActiveBrick, TypeOK, ManagerType
    <3>2. activeMode'[z] = "minimal"
      BY <1>0, <3>1 DEF Demoted, Quiet, TypeOK, ManagerType, EntryType
    <3> QED
      BY <1>0, <2>1, <3>2 DEF SetActiveBrick, Quiet, heartbeatVars, queueVars, reconnectVars
  <2>2. CASE ClearActiveBrick
    <3>1. activeMode'[z] = "minimal"
      BY <1>0, <2>2 DEF ClearActiveBrick, Demoted, Quiet, TypeOK, ManagerType, EntryType
    <3> QED
      BY <1>0, <2>2, <3>1 DEF ClearActiveBrick, Quiet, heartbeatVars, queueVars, reconnectVars
  <2>3. CASE ClearSuppressions
    BY <1>a, <2>3 DEF ClearSuppressions, entryVars, heartbeatVars, queueVars, reconnectVars
  <2>4. CASE Dispose
    <3>1. ~InMap(z)
      BY <1>0 DEF InMap
    <3> QED BY <1>0, <2>4, <3>1 DEF Dispose, Quiet, entryVars
  <2>5. ASSUME NEW k \in Bricks, Send(k) PROVE Quiet(z)'
    BY <1>0, <2>5 DEF Send, Enqueue, Quiet, entryVars, heartbeatVars, reconnectVars
  <2>6. ASSUME NEW k \in Bricks, NEW c \in Calls, Disconnect(k, c) PROVE Quiet(z)'
    BY <1>0, <1>d, <2>6 DEF Disconnect, Quiet
  <2>7. ASSUME NEW k \in Bricks, NEW s \in Sessions, NEW c \in Calls, Connect(k, s, c)
        PROVE  Quiet(z)'
    BY <1>a, <2>7 DEF Connect, heartbeatVars, queueVars, reconnectVars
  <2> QED BY <1>1, <2>1, <2>2, <2>3, <2>4, <2>5, <2>6, <2>7 DEF UserCall, SessionCall
<1>2. ASSUME NEW c \in Calls, Continuation(c) PROVE Quiet(z)'
  <2>1. CASE ConnectSucceeds(c) \/ AttemptSucceeds(c)
    BY <1>0, <1>b, <2>1 DEF ConnectSucceeds, AttemptSucceeds, FrameInv
  <2>2. CASE ConnectFails(c) \/ ConnectAborts(c) \/ DisconnectCompletes(c) \/ DisconnectThrows(c)
    BY <1>a, <2>2 DEF ConnectFails, ConnectAborts, DisconnectCompletes, DisconnectThrows,
       entryVars, heartbeatVars, queueVars, reconnectVars
  <2>3. CASE AttemptFails(c)
    <3> DEFINE b == brickKey[calls[c].s]
    <3>1. b \in Bricks /\ Reschedule(b, c) /\ activeMode' = activeMode
      BY <2>3 DEF AttemptFails, FrameInv, BornInv, entryVars
    <3>2. sessions[b] # None => sessions[b] \in Sessions /\ sessions[b] # z
      BY <1>0, <3>1, Holder
    <3>3. CASE UNCHANGED <<heartbeatVars, queueVars, reconnectVars, adapter>>
      BY <1>a, <3>1, <3>3 DEF heartbeatVars, queueVars, reconnectVars
    <3>4. CASE /\ sessions[b] # None /\ ScheduleReconnect(sessions[b])
               /\ UNCHANGED <<heartbeatVars, queueVars, adapter>>
      BY <1>c, <3>1, <3>2, <3>4 DEF heartbeatVars, queueVars
    <3>5. CASE /\ sessions[b] # None
               /\ Disconnecting(sessions[b], connectionState[sessions[b]], c, probe, reconnectTimer)
      BY <1>0, <1>d, <3>1, <3>5 DEF Quiet
    <3> QED BY <3>1, <3>3, <3>4, <3>5 DEF Reschedule
  <2> QED BY <1>2, <2>1, <2>2, <2>3 DEF Continuation
<1>3. ASSUME NEW s \in Sessions, HeartbeatOutcome(s) PROVE Quiet(z)'
  <2> DEFINE r == sessions[brickKey[s]]
  <2>0. s # z /\ brickKey[s] \in Bricks
    BY <1>0, <1>3, Owner DEF Quiet, HeartbeatOutcome, HeartbeatSucceeds, HeartbeatMisses,
       HeartbeatLapses, HeartbeatReconnects, HeartbeatDisconnects, HeartbeatExhausts,
       Reconnecting, ThresholdReached, Missed
  <2>1. /\ [probe EXCEPT ![s] = "none"] \in [Sessions -> ProbeStates]
        /\ [probe EXCEPT ![s] = "none"][z] = "none"
    BY <1>0, <2>0 DEF Quiet, ProbeStates
  <2>2. CASE HeartbeatSucceeds(s) \/ HeartbeatMisses(s) \/ HeartbeatLapses(s)
    <3>1. /\ probe'[z] = "none" /\ hbTimer'[z] = hbTimer[z]
          /\ reconnectTimer' = reconnectTimer /\ sending' = sending /\ activeMode' = activeMode
      BY <1>0, <2>0, <2>2 DEF HeartbeatSucceeds, HeartbeatMisses, HeartbeatLapses, Quiet,
         TypeOK, HeartbeatType, entryVars, queueVars, reconnectVars
    <3> QED BY <1>0, <3>1 DEF Quiet
  <2>3. CASE HeartbeatReconnects(s)
    <3>1. r \in Sessions /\ r # z
      BY <1>0, <2>0, <2>3, Holder DEF HeartbeatReconnects, Reconnecting
    <3> QED BY <1>0, <1>c, <2>1, <2>3, <3>1 DEF HeartbeatReconnects, queueVars, Quiet
  <2>4. ASSUME NEW c \in Calls, HeartbeatDisconnects(s, c) PROVE Quiet(z)'
    BY <1>d, <2>0, <2>1, <2>4 DEF HeartbeatDisconnects, entryVars
  <2>5. ASSUME NEW c \in Calls, HeartbeatExhausts(s, c) PROVE Quiet(z)'
    BY <1>d, <2>0, <2>1, <2>5 DEF HeartbeatExhausts, Reconnecting
  <2> QED BY <1>3, <2>2, <2>3, <2>4, <2>5 DEF HeartbeatOutcome
<1>4. ASSUME NEW c \in Calls, AdapterCloses(c) \/ SlotGranted(c) \/ OpenFails(c)
      PROVE  Quiet(z)'
  BY <1>4, <1>a DEF AdapterCloses, SlotGranted, OpenFails, entryVars, heartbeatVars, queueVars,
     reconnectVars
<1>5. ASSUME NEW c \in Calls, AdapterOpens(c) PROVE Quiet(z)'
  BY <1>0, <1>5 DEF AdapterOpens, Quiet, entryVars, heartbeatVars, reconnectVars
<1>6. ASSUME NEW s \in Sessions, HeartbeatTick(s) PROVE Quiet(z)'
  BY <1>0, <1>6 DEF HeartbeatTick, Enqueue, Quiet, TypeOK, HeartbeatType, QueuesType,
     entryVars, queueVars, reconnectVars
<1>7. ASSUME NEW s \in Sessions, DrainResumes(s) \/ Reply(s) \/ SendFails(s) PROVE Quiet(z)'
  BY <1>0, <1>7 DEF DrainResumes, Reply, SendFails, Quiet, TypeOK, HeartbeatType, QueuesType,
     entryVars, heartbeatVars, reconnectVars
<1>8. ASSUME NEW s \in Sessions, TimerFires(s) PROVE Quiet(z)'
  <2>1. PICK c \in Calls : ReconnectTimerFires(s, c)
    BY <1>8 DEF TimerFires
  <2>2. brickKey[s] \in Bricks
    BY <2>1, Owner DEF ReconnectTimerFires
  <2>3. /\ [reconnectTimer EXCEPT ![s] = FALSE] \in [Sessions -> BOOLEAN]
        /\ ~[reconnectTimer EXCEPT ![s] = FALSE][z]
    BY <1>0 DEF Quiet
  <2> QED BY <2>1, <2>2, <2>3, AttemptQuiet DEF ReconnectTimerFires
<1>9. ASSUME NEW k \in Bricks, StrayFires(k) PROVE Quiet(z)'
  BY <1>0, <1>9, AttemptQuiet DEF StrayFires, StrayTimerFires, Quiet
<1>10. ASSUME NEW k \in Bricks, AdapterFails(k) \/ UnregisterProvider(k) PROVE Quiet(z)'
  BY <1>0, <1>10 DEF AdapterFails, UnregisterProvider, SendsCut, Quiet, entryVars,
     heartbeatVars, reconnectVars
<1>11. CASE UNCHANGED vars
  BY <1>11, <1>a DEF vars, entryVars, heartbeatVars, queueVars, reconnectVars
<1> QED
  BY <1>1, <1>2, <1>3, <1>4, <1>5, <1>6, <1>7, <1>8, <1>9, <1>10, <1>11
  DEF Next, HostStep, ProviderStep

LEMMA NextBorn == IInv /\ [Next]_vars => BornInv'
BY BirthIsFinal, QuietStays DEF BornInv, Born, Quiet

-----------------------------------------------------------------------------
(* Suspended calls.                                                         *)

\* What a step may leave in a slot: the frame that was there, nothing, the
\* same frame with another await, or a new frame of a created session.
Follows(old, new) ==
    \/ new = old
    \/ new = IdleCall
    \/ /\ old.wait # "none"
       /\ new.fn = old.fn /\ new.s = old.s /\ new.prev = old.prev
    \/ /\ new.fn # "idle" /\ new.s \in Sessions /\ connectionState'[new.s] # "unborn"
       /\ new.fn = "disconnect" => new.prev \in LiveStates

LEMMA FollowsKeeps ==
    ASSUME IInv, [Next]_vars, \A d \in Calls : Follows(calls[d], calls'[d])
    PROVE  FrameInv'
<1> SUFFICES ASSUME NEW d \in Calls
             PROVE  /\ calls'[d].wait # "none" => calls'[d].fn # "idle"
                    /\ calls'[d].fn # "idle" =>
                           calls'[d].s \in Sessions /\ connectionState'[calls'[d].s] # "unborn"
                    /\ calls'[d].fn = "disconnect" => calls'[d].prev \in LiveStates
  BY DEF FrameInv, Born
<1>1. \A z \in Sessions : Born(z) => connectionState'[z] # "unborn"
  BY BirthIsFinal DEF Born
<1>2. /\ calls[d].wait # "none" => calls[d].fn # "idle"
      /\ calls[d].fn # "idle" => calls[d].s \in Sessions /\ Born(calls[d].s)
      /\ calls[d].fn = "disconnect" => calls[d].prev \in LiveStates
  BY DEF IInv, FrameInv, Born
<1>3. CASE calls'[d] = IdleCall
  BY <1>3 DEF IdleCall, Frame
<1> QED BY <1>1, <1>2, <1>3 DEF Follows

\* A disconnect is started for a session the map holds.
LEMMA DisconnectingFollows ==
    ASSUME IInv, [Next]_vars, NEW k \in Bricks, sessions[k] # None,
           NEW prev \in LiveStates, NEW c, NEW probes, NEW timers,
           Disconnecting(sessions[k], prev, c, probes, timers)
    PROVE  \A d \in Calls : Follows(calls[d], calls'[d])
<1>1. sessions[k] \in Sessions /\ connectionState'[sessions[k]] # "unborn"
  BY Holder, BirthIsFinal DEF Born, LiveStates
<1>2. \E wait \in {"closing", "resolved"} :
         calls' = [calls EXCEPT ![c] = Frame("disconnect", sessions[k], prev, wait)]
  BY DEF Disconnecting
<1> QED BY <1>1, <1>2 DEF Follows, Frame, IInv, TypeOK

LEMMA AttemptFollows ==
    ASSUME IInv, [Next]_vars, NEW k \in Bricks, NEW c, NEW timers,
           AttemptReconnect(k, c, timers)
    PROVE  \A d \in Calls : Follows(calls[d], calls'[d])
<1> DEFINE r == sessions[k]
<1>1. CASE calls' = calls
  BY <1>1 DEF Follows
<1>2. CASE r # None /\ Disconnecting(r, "reconnecting", c, probe, timers)
  BY <1>2, DisconnectingFollows DEF LiveStates
<1>3. CASE /\ r # None
           /\ calls' = [calls EXCEPT ![c] = Frame("attemptReconnect", r, "reconnecting",
                         IF RecoverCloses(k) THEN "closing" ELSE Opening(k, adapter))]
  <2>1. r \in Sessions /\ connectionState'[r] # "unborn"
    BY <1>3, Holder, BirthIsFinal DEF Born, LiveStates
  <2> QED BY <1>3, <2>1 DEF Follows, Frame, IInv, TypeOK
<1> QED BY <1>1, <1>2, <1>3 DEF AttemptReconnect

LEMMA NextFrame == IInv /\ [Next]_vars => FrameInv'
<1> SUFFICES ASSUME IInv, [Next]_vars PROVE FrameInv'
  OBVIOUS
<1> DEFINE Goal == \A d \in Calls : Follows(calls[d], calls'[d])
<1> SUFFICES Goal
  BY FollowsKeeps
<1>a. ASSUME calls' = calls PROVE Goal
  BY <1>a DEF Follows
<1>b. ASSUME NEW c \in Calls, calls' = [calls EXCEPT ![c] = IdleCall] PROVE Goal
  BY <1>b DEF Follows, IInv, TypeOK
<1>c. ASSUME NEW c \in Calls, calls[c].wait # "none", NEW wait,
             calls' = [calls EXCEPT ![c].wait = wait]
      PROVE  Goal
  <2>1. calls[c] \in CallType
    BY DEF IInv, TypeOK
  <2>2. \A d \in Calls : d # c => calls'[d] = calls[d]
    BY <1>c DEF IInv, TypeOK
  <2>3. calls'[c].fn = calls[c].fn /\ calls'[c].s = calls[c].s /\ calls'[c].prev = calls[c].prev
    BY <1>c, <2>1 DEF IInv, TypeOK, CallType
  <2> QED BY <1>c, <2>2, <2>3 DEF Follows
<1>1. CASE UserCall
  <2>1. ASSUME NEW k \in Bricks, NEW c \in Calls, Disconnect(k, c) PROVE Goal
    BY <2>1, Holder, DisconnectingFollows DEF Disconnect
  <2>2. ASSUME NEW k \in Bricks, NEW s \in Sessions, NEW c \in Calls, Connect(k, s, c) PROVE Goal
    <3>1. connectionState'[s] # "unborn"
      BY <2>2 DEF Connect, IInv, TypeOK, EntryType
    <3> QED BY <2>2, <3>1 DEF Connect, Follows, Frame, IInv, TypeOK
  <2> QED
    BY <1>1, <1>a, <2>1, <2>2 DEF UserCall, SessionCall, ClearActiveBrick,
                ClearSuppressions, Dispose,
       SetActiveBrick, Send
<1>2. ASSUME NEW c \in Calls, Continuation(c) PROVE Goal
  <2>1. CASE AttemptFails(c)
    <3> DEFINE b == brickKey[calls[c].s]
    <3>1. b \in Bricks /\ Reschedule(b, c)
      BY <2>1 DEF AttemptFails, IInv, FrameInv, BornInv
    <3>2. CASE /\ sessions[b] # None
               /\ Disconnecting(sessions[b], connectionState[sessions[b]], c, probe, reconnectTimer)
      BY <3>1, <3>2, Holder, DisconnectingFollows
    <3> QED BY <1>b, <3>1, <3>2 DEF Reschedule
  <2> QED
    BY <1>2, <1>b, <2>1 DEF Continuation, ConnectSucceeds, ConnectFails, ConnectAborts,
       DisconnectCompletes, DisconnectThrows, AttemptSucceeds
<1>3. ASSUME NEW s \in Sessions, HeartbeatOutcome(s) PROVE Goal
  <2> DEFINE r == sessions[brickKey[s]]
  <2>0. brickKey[s] \in Bricks
    BY <1>3, Owner DEF HeartbeatOutcome, HeartbeatSucceeds, HeartbeatMisses,
       HeartbeatLapses, HeartbeatReconnects, HeartbeatDisconnects, HeartbeatExhausts,
       Reconnecting, ThresholdReached, Missed
  <2>1. ASSUME NEW c \in Calls, HeartbeatDisconnects(s, c) PROVE Goal
    BY <2>0, <2>1, Holder, DisconnectingFollows DEF HeartbeatDisconnects
  <2>2. ASSUME NEW c \in Calls, HeartbeatExhausts(s, c) PROVE Goal
    BY <2>0, <2>2, DisconnectingFollows DEF HeartbeatExhausts, Reconnecting, LiveStates
  <2> QED
    BY <1>3, <1>a, <2>1, <2>2 DEF HeartbeatOutcome, HeartbeatSucceeds, HeartbeatMisses,
       HeartbeatLapses, HeartbeatReconnects
<1>4. ASSUME NEW c \in Calls, ProviderStep(c) PROVE Goal
  BY <1>4, <1>c DEF ProviderStep, AdapterCloses, SlotGranted, AdapterOpens, OpenFails
<1>5. ASSUME NEW s \in Sessions, HeartbeatTick(s) \/ DrainResumes(s) \/ Reply(s) \/ SendFails(s)
      PROVE  Goal
  BY <1>5, <1>a DEF HeartbeatTick, DrainResumes, Reply, SendFails
<1>6. ASSUME NEW s \in Sessions, TimerFires(s) PROVE Goal
  BY <1>6, AttemptFollows, Owner DEF TimerFires, ReconnectTimerFires
<1>7. ASSUME NEW k \in Bricks, StrayFires(k) PROVE Goal
  BY <1>7, AttemptFollows DEF StrayFires, StrayTimerFires
<1>8. ASSUME NEW k \in Bricks, AdapterFails(k) \/ UnregisterProvider(k) PROVE Goal
  BY <1>8, <1>a DEF AdapterFails, UnregisterProvider, WaitersRejected, Follows, IInv, TypeOK,
     CallType
<1>9. CASE UNCHANGED vars
  BY <1>9, <1>a DEF vars
<1> QED BY <1>1, <1>2, <1>3, <1>4, <1>5, <1>6, <1>7, <1>8, <1>9 DEF Next, HostStep

-----------------------------------------------------------------------------
(* Theorems.                                                                *)

LEMMA NextIInv == IInv /\ [Next]_vars => IInv'
BY NextType, NextBorn, NextFrame, NextCore DEF IInv, Core

\* IInv holds in every state of every behaviour.
THEOREM Invariance == Spec => []IInv
BY InitIInv, NextIInv, PTL DEF Spec

\* Every variable keeps its type; in particular no sequence of reconnects,
\* timers and late completions schedules more than MaxAttempts attempts.
THEOREM TypeCorrect == Spec => []TypeOK
<1>1. IInv => TypeOK
  BY DEF IInv
<1> QED BY Invariance, <1>1, PTL

\* Until dispose() the map of the manager holds, for each brick, exactly the
\* session object of it that has not ended.
THEOREM MapIsExact == Spec => []MapExact
<1>1. IInv => MapExact
  BY DEF IInv, MapInv, MapExact
<1> QED BY Invariance, <1>1, PTL

\* A session in foreground mode is the active brick's.
THEOREM OneForeground == Spec => []ForegroundIsActive
<1>1. IInv => ForegroundIsActive
  BY DEF IInv
<1> QED BY Invariance, <1>1, PTL

\* The events of onSessionStateChange are enough to know every brick's state.
THEOREM EventsTell == Spec => []ObserverAgrees
<1>1. IInv => ObserverAgrees
  BY DEF IInv
<1> QED BY Invariance, <1>1, PTL

\* A suppressed brick that still has a session was explicitly disconnected.
THEOREM SuppressionMeansExplicit == Spec => []SuppressionFollowsExplicit
<1>1. IInv => SuppressionFollowsExplicit
  BY DEF IInv
<1> QED BY Invariance, <1>1, PTL

\* No late completion of a connect or of an attempt revives an ended session.
THEOREM EndIsFinal == Spec => NoResurrection
<1> DEFINE Final == \A s \in Sessions :
                connectionState[s] = "disconnected" => connectionState'[s] = "disconnected"
<1>1. ASSUME IInv, Next PROVE Final
  <2>a. ASSUME connectionState' = connectionState PROVE Final
    BY <2>a
  <2>b. ASSUME NEW s, NEW target \in {"connected", "reconnecting", "disconnected"},
               Transition(s, target)
        PROVE  Final
    BY <1>1, <2>b DEF Transition, ValidTransitions, IInv, TypeOK, EntryType
  <2>1. CASE UserCall
    <3>1. ASSUME NEW k \in Bricks, NEW s \in Sessions, NEW c \in Calls, Connect(k, s, c)
          PROVE  Final
      BY <1>1, <3>1 DEF Connect, IInv, TypeOK, EntryType
    <3> QED
      BY <2>1, <2>a, <3>1 DEF UserCall, SessionCall, ClearActiveBrick,
                ClearSuppressions, Dispose,
         SetActiveBrick, Send, Disconnect, entryVars
  <2>2. ASSUME NEW c \in Calls, Continuation(c) PROVE Final
    BY <2>2, <2>a, <2>b DEF Continuation, ConnectSucceeds, ConnectFails, ConnectAborts,
       DisconnectCompletes, DisconnectThrows, AttemptSucceeds, AttemptFails, entryVars
  <2>3. ASSUME NEW s \in Sessions, HeartbeatOutcome(s) PROVE Final
    BY <2>3, <2>a, <2>b DEF HeartbeatOutcome, HeartbeatSucceeds, HeartbeatMisses,
       HeartbeatLapses, HeartbeatReconnects, HeartbeatDisconnects, HeartbeatExhausts,
       Reconnecting, entryVars
  <2>4. ASSUME NEW c \in Calls, ProviderStep(c) PROVE Final
    BY <2>4, <2>a DEF ProviderStep, AdapterCloses, SlotGranted, AdapterOpens, OpenFails, entryVars
  <2>5. ASSUME NEW s \in Sessions,
               HeartbeatTick(s) \/ DrainResumes(s) \/ TimerFires(s) \/ Reply(s) \/ SendFails(s)
        PROVE  Final
    BY <2>5, <2>a DEF HeartbeatTick, DrainResumes, TimerFires, ReconnectTimerFires, Reply,
       SendFails, entryVars
  <2>6. ASSUME NEW k \in Bricks, StrayFires(k) \/ AdapterFails(k) \/ UnregisterProvider(k)
        PROVE  Final
    BY <2>6, <2>a DEF StrayFires, StrayTimerFires, AdapterFails, UnregisterProvider, entryVars
  <2> QED BY <1>1, <2>1, <2>2, <2>3, <2>4, <2>5, <2>6 DEF Next, HostStep
<1>2. IInv /\ [Next]_vars => [Final]_vars
  BY <1>1
<1> QED BY Invariance, <1>2, PTL DEF Spec, NoResurrection

-----------------------------------------------------------------------------
(* The manager implements BrickLife: a step moves a session, ends one,      *)
(* connects a brick, changes the foreground, disposes the manager, or       *)
(* leaves coreVars and so all that the refinement reads as they are.        *)

\* A disposed manager has no sessions: with IInv, all the refinement needs.
Emptied == disposed => \A k \in Bricks : sessions[k] = None
LifeInv == IInv /\ Emptied

LifeStep == [Life!Next]_(Life!lifeVars)

LEMMA CalmShowsNothing == UNCHANGED coreVars => UNCHANGED Life!lifeVars
BY DEF coreVars, Life!lifeVars, Lives, Shown, InFront

\* A live session that moves is shown by its brick alone.
LEMMA MoveIsAdvance ==
    ASSUME LifeInv, NEW s \in Sessions, brickKey[s] \in Bricks,
           NEW target \in {"connected", "reconnecting"}, Moves(s, target)
    PROVE  LifeStep /\ Emptied'
<1> USE DEF LifeInv, IInv
<1> DEFINE b == brickKey[s]
<1>0. /\ sessions' = sessions /\ disposed' = disposed /\ activeMode' = activeMode
      /\ InFront' = InFront
  BY DEF Moves, managerVars, InFront
<1>1. /\ connectionState[s] \in LiveStates
      /\ <<connectionState[s], target>> \in ValidTransitions
      /\ connectionState'[s] = target
      /\ \A z \in Sessions : z # s => connectionState'[z] = connectionState[z]
  BY DEF Moves, Transition, ValidTransitions, LiveStates, TypeOK, EntryType
<1>2. Emptied'
  BY <1>0 DEF Emptied
<1>3. CASE disposed
  <2>1. Lives' = Lives
    BY <1>0, <1>3 DEF Lives, Shown, Emptied
  <2>2. observed' = observed
    BY <1>3 DEF Moves, Fire
  <2> QED BY <1>0, <1>2, <2>1, <2>2 DEF LifeStep, Life!lifeVars
<1>4. CASE ~disposed
  <2>1. sessions[b] = s /\ s # None
    BY <1>1, <1>4, ConstantsAssumption DEF MapInv, Live
  <2>2. \A k \in Bricks : k # b /\ sessions[k] # None => sessions[k] \in Sessions \ {s}
    BY DEF MapInv, TypeOK, ManagerType
  <2>3. Lives' = [Lives EXCEPT ![b] = target]
    BY <1>0, <1>1, <2>1, <2>2 DEF Lives, Shown
  <2>4. <<Lives[b], target>> \in Life!Stages
    BY <1>1, <2>1 DEF Lives, Shown, Life!Stages, ValidTransitions
  <2>5. observed' = [observed EXCEPT ![b] = target]
    BY <1>4 DEF Moves, Fire
  <2>6. Life!Advance(b, target)
    BY <1>0, <2>3, <2>4, <2>5 DEF Life!Advance
  <2> QED BY <1>2, <2>6 DEF LifeStep, Life!Next
<1> QED BY <1>3, <1>4

\* A session that ends is the life of its brick, and of no other.
LEMMA EndIsEnd ==
    ASSUME LifeInv, NEW s \in Sessions, brickKey[s] \in Bricks, Ends(s)
    PROVE  LifeStep /\ Emptied'
<1> USE DEF LifeInv, IInv
<1> DEFINE b == brickKey[s]
<1>0. disposed' = disposed /\ activeMode' = activeMode
  BY DEF Ends
<1>1. /\ connectionState[s] \in LiveStates
      /\ \A z \in Sessions : z # s => connectionState'[z] = connectionState[z]
  BY DEF Ends, Transition, ValidTransitions, LiveStates, TypeOK, EntryType
<1>2. /\ sessions'[b] = None
      /\ \A k \in Bricks : k # b => sessions'[k] = sessions[k]
      /\ \A k \in Bricks : k # b /\ sessions[k] # None => sessions[k] \in Sessions \ {s}
  BY DEF Ends, MapInv, TypeOK, ManagerType
<1>3. Emptied'
  BY <1>0, <1>2 DEF Emptied
<1>4. Lives' = [Lives EXCEPT ![b] = "none"]
  BY <1>1, <1>2 DEF Lives, Shown
<1>5. InFront' = InFront \ {b}
  BY <1>0, <1>2 DEF InFront
<1>6. CASE disposed
  <2>1. Lives' = Lives /\ InFront' = InFront
    BY <1>4, <1>5, <1>6 DEF Emptied, Lives, Shown, InFront
  <2>2. observed' = observed
    BY <1>6 DEF Ends, Fire
  <2> QED BY <1>0, <1>3, <2>1, <2>2 DEF LifeStep, Life!lifeVars
<1>7. CASE ~disposed
  <2>1. sessions[b] = s /\ s # None
    BY <1>1, <1>7, ConstantsAssumption DEF MapInv, Live
  <2>2. Lives[b] # "none"
    BY <1>1, <2>1 DEF Lives, Shown, LiveStates
  <2>3. observed' = [observed EXCEPT ![b] = "disconnected"]
    BY <1>7 DEF Ends, Fire
  <2>4. Life!End(b)
    BY <1>0, <1>4, <1>5, <2>2, <2>3 DEF Life!End
  <2> QED BY <1>3, <2>4 DEF LifeStep, Life!Next
<1> QED BY <1>6, <1>7

LEMMA ConnectIsBegin ==
    ASSUME LifeInv, NEW k \in Bricks, NEW s \in Sessions, NEW c \in Calls, Connect(k, s, c)
    PROVE  LifeStep /\ Emptied'
<1> USE DEF LifeInv, IInv
<1>0. /\ ~disposed /\ disposed' = disposed /\ sessions[k] = None
      /\ connectionState[s] = "unborn" /\ activeMode[s] = "minimal" /\ s # None
      /\ activeMode' = activeMode /\ observed' = observed
  BY ConstantsAssumption DEF Connect, BornInv
<1>1. /\ connectionState'[s] = "connecting" /\ sessions'[k] = s
      /\ \A z \in Sessions : z # s => connectionState'[z] = connectionState[z]
      /\ \A b \in Bricks : b # k => sessions'[b] = sessions[b]
  BY DEF Connect, TypeOK, EntryType, ManagerType
<1>2. \A b \in Bricks : sessions[b] # None => sessions[b] \in Sessions \ {s}
  BY <1>0 DEF MapInv, Live, LiveStates, TypeOK, ManagerType
<1>3. Lives' = [Lives EXCEPT ![k] = "connecting"]
  BY <1>0, <1>1, <1>2 DEF Lives, Shown
<1>4. InFront' = InFront
  BY <1>0, <1>1 DEF InFront
<1>5. Lives[k] = "none"
  BY <1>0 DEF Lives, Shown
<1>6. Life!Begin(k)
  BY <1>0, <1>3, <1>4, <1>5 DEF Life!Begin
<1> QED BY <1>0, <1>6 DEF LifeStep, Life!Next, Emptied

\* The calls of the user that touch the map or the foreground.
LEMMA UserIsSwitch ==
    ASSUME LifeInv, IInv', NEW k \in Bricks, NEW c,
           \/ SetActiveBrick(k) \/ Disconnect(k, c)
           \/ ClearActiveBrick \/ ClearSuppressions \/ Dispose
    PROVE  LifeStep /\ Emptied'
<1> USE DEF LifeInv
<1>1. CASE SetActiveBrick(k)
  <2>0. /\ ~disposed /\ activeBrickKey' = k
        /\ sessions[k] \in Sessions /\ sessions[k] # None
        /\ connectionState[sessions[k]] \in LiveStates
        /\ activeMode' = [Demoted(activeBrickKey) EXCEPT ![sessions[k]] = "foreground"]
        /\ sessions' = sessions /\ disposed' = disposed
        /\ connectionState' = connectionState /\ observed' = observed
    BY <1>1, Holder DEF SetActiveBrick
  <2>1. activeMode'[sessions[k]] = "foreground"
    BY <2>0 DEF Demoted, IInv, TypeOK, EntryType
  <2>2. \A b \in InFront' : b = k
    BY <2>0 DEF InFront, IInv, ForegroundIsActive, MapInv, TypeOK, ManagerType
  <2>3. InFront' = {k}
    BY <2>0, <2>1, <2>2 DEF InFront
  <2>4. Lives' = Lives /\ Lives[k] # "none"
    BY <2>0 DEF Lives, Shown, LiveStates
  <2>5. Life!TakeFront(k)
    BY <2>0, <2>3, <2>4 DEF Life!TakeFront
  <2> QED BY <2>0, <2>5 DEF LifeStep, Life!Next, Emptied
<1>2. CASE ClearActiveBrick
  <2>0. /\ ~disposed /\ activeBrickKey' = None
        /\ sessions' = sessions /\ disposed' = disposed
        /\ connectionState' = connectionState /\ observed' = observed
    BY <1>2 DEF ClearActiveBrick
  <2>1. \A b \in InFront' : b = None
    BY <2>0 DEF InFront, IInv, ForegroundIsActive, MapInv, TypeOK, ManagerType
  <2>2. InFront' = {}
    BY <2>1, ConstantsAssumption DEF InFront
  <2>3. Lives' = Lives
    BY <2>0 DEF Lives, Shown
  <2>4. Life!LeaveFront
    BY <2>0, <2>2, <2>3 DEF Life!LeaveFront
  <2> QED BY <2>0, <2>4 DEF LifeStep, Life!Next, Emptied
<1>3. CASE Dispose
  <2>0. /\ ~disposed /\ disposed' = TRUE /\ observed' = observed
        /\ \A b \in Bricks : sessions'[b] = None
    BY <1>3 DEF Dispose
  <2>1. Lives' = [b \in Bricks |-> "none"] /\ InFront' = {}
    BY <2>0 DEF Lives, Shown, InFront
  <2>2. Life!Close
    BY <2>0, <2>1 DEF Life!Close
  <2> QED BY <2>0, <2>2 DEF LifeStep, Life!Next, Emptied
<1>4. CASE Disconnect(k, c) \/ ClearSuppressions
  <2>1. UNCHANGED <<sessions, disposed, connectionState, activeMode, observed>>
    BY <1>4 DEF Disconnect, ClearSuppressions, entryVars
  <2> QED BY <2>1 DEF LifeStep, Life!lifeVars, Lives, Shown, InFront, Emptied
<1> QED BY <1>1, <1>2, <1>3, <1>4

LEMMA ContinuationIsLife ==
    ASSUME LifeInv, NEW c \in Calls, Continuation(c)
    PROVE  LifeStep /\ Emptied'
<1> DEFINE s == calls[c].s
<1>0. calls[c].fn # "idle" => s \in Sessions /\ brickKey[s] \in Bricks
  BY DEF LifeInv, IInv, FrameInv, BornInv
<1>1. CASE ConnectSucceeds(c)
  BY <1>0, <1>1, MoveIsAdvance DEF ConnectSucceeds, Moves
<1>2. CASE AttemptSucceeds(c)
  BY <1>0, <1>2, MoveIsAdvance DEF AttemptSucceeds, Moves
<1>3. CASE ConnectFails(c)
  BY <1>0, <1>3, EndIsEnd DEF ConnectFails, Ends
<1>4. CASE DisconnectCompletes(c)
  <2>1. s \in Sessions /\ brickKey[s] \in Bricks /\ calls[c].prev # "disconnected"
    BY <1>0, <1>4 DEF DisconnectCompletes, LifeInv, IInv, FrameInv, LiveStates
  <2>2. Ends(s)
    BY <1>4, <2>1 DEF DisconnectCompletes, Ends
  <2> QED BY <2>1, <2>2, EndIsEnd
<1>5. CASE ConnectAborts(c) \/ DisconnectThrows(c) \/ AttemptFails(c)
  <2>1. UNCHANGED coreVars
    BY <1>5 DEF ConnectAborts, DisconnectThrows, AttemptFails, coreVars, managerVars, entryVars
  <2> QED BY <2>1, CalmShowsNothing DEF LifeStep, LifeInv, Emptied, coreVars
<1> QED BY <1>1, <1>2, <1>3, <1>4, <1>5 DEF Continuation

LEMMA HeartbeatIsLife ==
    ASSUME LifeInv, NEW s \in Sessions, HeartbeatOutcome(s)
    PROVE  LifeStep /\ Emptied'
<1> DEFINE r == sessions[brickKey[s]]
<1>a. ASSUME UNCHANGED coreVars PROVE LifeStep /\ Emptied'
  BY <1>a, CalmShowsNothing DEF LifeStep, LifeInv, Emptied, coreVars
<1>1. CASE HeartbeatSucceeds(s) \/ HeartbeatMisses(s) \/ HeartbeatLapses(s)
  BY <1>1, <1>a DEF HeartbeatSucceeds, HeartbeatMisses, HeartbeatLapses, coreVars,
     managerVars, entryVars
<1>2. ASSUME NEW c \in Calls, HeartbeatDisconnects(s, c) PROVE LifeStep /\ Emptied'
  BY <1>2, <1>a DEF HeartbeatDisconnects, coreVars, managerVars, entryVars
<1>3. ASSUME Reconnecting(s, r), UNCHANGED <<managerVars, brickKey, activeMode,
             explicitlyDisconnected>>
      PROVE  LifeStep /\ Emptied'
  <2>1. brickKey[s] \in Bricks
    BY <1>3, Owner DEF LifeInv, Reconnecting, ThresholdReached, Missed
  <2>2. r \in Sessions /\ brickKey[r] \in Bricks
    BY <1>3, <2>1, Holder DEF LifeInv, Reconnecting
  <2>3. Moves(r, "reconnecting")
    BY <1>3 DEF Reconnecting, Moves
  <2> QED BY <2>2, <2>3, MoveIsAdvance
<1>4. CASE HeartbeatReconnects(s)
  BY <1>3, <1>4 DEF HeartbeatReconnects
<1>5. ASSUME NEW c \in Calls, HeartbeatExhausts(s, c) PROVE LifeStep /\ Emptied'
  BY <1>3, <1>5 DEF HeartbeatExhausts
<1> QED BY <1>1, <1>2, <1>4, <1>5 DEF HeartbeatOutcome

LEMMA StepIsLife == LifeInv /\ [Next]_vars => LifeInv' /\ LifeStep
<1> SUFFICES ASSUME LifeInv, [Next]_vars PROVE LifeStep /\ Emptied'
  BY NextIInv DEF LifeInv
<1>a. ASSUME UNCHANGED coreVars PROVE LifeStep /\ Emptied'
  BY <1>a, CalmShowsNothing DEF LifeStep, LifeInv, Emptied, coreVars
<1>b. IInv'
  BY NextIInv DEF LifeInv
<1>1. CASE UserCall
  <2>1. ASSUME NEW k \in Bricks, Send(k) PROVE LifeStep /\ Emptied'
    BY <1>a, <2>1 DEF Send, coreVars, managerVars, entryVars
  <2>2. CASE ClearActiveBrick \/ ClearSuppressions \/ Dispose
    <3>1. CASE Bricks = {}
      BY <2>2, <3>1
      DEF ClearActiveBrick, ClearSuppressions, Dispose, LifeInv, IInv, TypeOK, ManagerType,
          LifeStep, Life!Next, Life!Close, Life!lifeVars, Lives, Shown, InFront, Emptied
    <3>2. ASSUME NEW k \in Bricks PROVE LifeStep /\ Emptied'
      BY <1>b, <2>2, UserIsSwitch
    <3> QED BY <3>1, <3>2
  <2> QED
    BY <1>1, <1>b, <2>1, <2>2, UserIsSwitch, ConnectIsBegin DEF UserCall, SessionCall
<1>2. ASSUME NEW c \in Calls,
             Continuation(c) \/ ProviderStep(c)
      PROVE  LifeStep /\ Emptied'
  BY <1>2, <1>a, ContinuationIsLife
  DEF ProviderStep, AdapterCloses, SlotGranted, AdapterOpens, OpenFails, coreVars, managerVars, entryVars
<1>3. ASSUME NEW s \in Sessions,
             \/ HeartbeatTick(s) \/ HeartbeatOutcome(s) \/ DrainResumes(s)
             \/ TimerFires(s) \/ Reply(s) \/ SendFails(s)
      PROVE  LifeStep /\ Emptied'
  BY <1>3, <1>a, HeartbeatIsLife
  DEF HeartbeatTick, DrainResumes, TimerFires, ReconnectTimerFires, Reply, SendFails,
      coreVars, managerVars, entryVars
<1>4. ASSUME NEW k \in Bricks, StrayFires(k) \/ AdapterFails(k) \/ UnregisterProvider(k)
      PROVE  LifeStep /\ Emptied'
  BY <1>4, <1>a
  DEF StrayFires, StrayTimerFires, AdapterFails, UnregisterProvider, coreVars, managerVars,
      entryVars
<1>5. CASE UNCHANGED vars
  BY <1>5, <1>a DEF vars, coreVars, managerVars, entryVars
<1> QED BY <1>1, <1>2, <1>3, <1>4, <1>5 DEF Next, HostStep

LEMMA InitLife == Init => LifeInv /\ Life!Init
<1> SUFFICES ASSUME Init PROVE Emptied /\ Life!Init
  BY InitIInv DEF LifeInv
<1>1. Lives = [k \in Bricks |-> "none"] /\ InFront = {}
  BY DEF Init, Lives, Shown, InFront
<1> QED BY <1>1 DEF Init, Emptied, Life!Init

\* The manager implements BrickLife, for any bricks, sessions and suspended
\* calls: every brick's state moves along its diagram, one brick at a time and
\* always announced, and a link lost or recovered moves no foreground.
THEOREM ManagerImplementsLife == Spec => ImplementsLife
<1>1. LifeInv /\ [Next]_vars => LifeInv' /\ [Life!Next]_(Life!lifeVars)
  BY StepIsLife DEF LifeStep
<1> QED BY InitLife, <1>1, PTL DEF Spec, ImplementsLife, Life!Spec

-----------------------------------------------------------------------------
(* The work a session is owed: the commands it holds are answered, the        *)
(* adapter it shows is there, and its reconnecting is pursued.  Each is an    *)
(* invariant of one session z that the map's exactness (MapInv) supports: a   *)
(* method that looks the brick up by key finds z, or z is no longer live.     *)

\* Nothing is queued, no request holds the adapter, and none is taken.
Shut(z) == queue[z].queue = <<>> /\ sending[z] # "waiting" /\ ~Accepts(queue[z])

\* A session that is not connected, or is being disconnected, is shut; the
\* queue of one that is being disconnected stays disposed, also when its own
\* connect() ends meanwhile and sets an executor.
ShutAt(z) ==
    /\ connectionState[z] \notin {"connected", "reconnecting"} \/ InFlight("disconnect", z)
           => Shut(z)
    /\ InFlight("disconnect", z) => queue[z].disposed
    /\ sending[z] = "waiting" => brickKey[z] \in provided /\ adapter[brickKey[z]] = "open"

\* The provider delivered an adapter to a suspended method of z.
Delivered(z) ==
    \E c \in Calls :
        /\ calls[c].fn \in {"connect", "attemptReconnect"}
        /\ calls[c].s = z
        /\ calls[c].wait = "resolved"

\* ConnectedHasAdapter from the moment the adapter is delivered.
LinkAt(z) ==
    /\ ~disposed
    /\ brickKey[z] \in provided
    /\ ~InFlight("disconnect", z)
    /\ \/ connectionState[z] = "connected"
       \/ connectionState[z] \in {"connecting", "reconnecting"} /\ Delivered(z)
    => adapter[brickKey[z]] # "none"

PursuedAt(z) ==
    ~disposed /\ connectionState[z] = "reconnecting" =>
        \/ reconnectTimer[z]
        \/ strayTimers[brickKey[z]] > 0
        \/ InFlight("attemptReconnect", z)
        \/ InFlight("disconnect", z)

\* Only one connect() is suspended for a session.
Single(z) ==
    \A c, d \in Calls :
        /\ calls[c].fn = "connect" /\ calls[c].s = z
        /\ calls[d].fn = "connect" /\ calls[d].s = z
        => c = d

\* A session is connecting while its connect() is suspended, unless it was
\* disconnected, and attempts start later: whoever ends as "connected" knows
\* that no connect() of the session can fail after it.
PhaseAt(z) ==
    /\ InFlight("connect", z) => connectionState[z] \in {"connecting", "disconnected"}
    /\ InFlight("attemptReconnect", z) => connectionState[z] # "connecting"
    /\ Single(z)

Work(z) == ShutAt(z) /\ LinkAt(z) /\ PursuedAt(z) /\ PhaseAt(z)

WorkInv == IInv /\ \A z \in Sessions : Work(z)

\* What the operations leave of the parts ShutAt speaks about.
LEMMA QueueFacts ==
    ASSUME NEW q \in QueueType(Commands), NEW command \in Commands
    PROVE  /\ DisposeQueue(q).queue = <<>> /\ DisposeQueue(q).disposed
           /\ ~Accepts(DisposeQueue(q))
           /\ SetExecutor(q).queue = q.queue /\ SetExecutor(q).disposed = q.disposed
           /\ q.disposed => ~Accepts(SetExecutor(q))
           /\ Advance(q).disposed = q.disposed /\ Advance(q).executor = q.executor
           /\ q.queue = <<>> => Advance(q).queue = <<>> /\ Advance(q).current = Idle
           /\ Push(q, command).disposed = q.disposed
<1>1. \A p \in QueueType(Commands) :
         /\ Advance(p).disposed = p.disposed /\ Advance(p).executor = p.executor
         /\ p.queue = <<>> => Advance(p).queue = <<>> /\ Advance(p).current = Idle
  BY DEF Advance, QueueType
<1>2. [q EXCEPT !.queue = Append(q.queue, command)] \in QueueType(Commands)
  BY DEF QueueType
<1>3. Push(q, command).disposed = q.disposed
  BY <1>1, <1>2 DEF Push, QueueType
<1>4. /\ DisposeQueue(q).queue = <<>> /\ DisposeQueue(q).disposed
      /\ ~Accepts(DisposeQueue(q))
  BY DEF DisposeQueue, DrainWith, Accepts, QueueType
<1>5. /\ SetExecutor(q).queue = q.queue /\ SetExecutor(q).disposed = q.disposed
      /\ q.disposed => ~Accepts(SetExecutor(q))
  BY DEF SetExecutor, Accepts, QueueType
<1> QED BY <1>1, <1>3, <1>4, <1>5

\* What a step that writes one slot does to the frames of z.
Turned(c, f, z) ==
    /\ InFlight("disconnect", z)' =>
           InFlight("disconnect", z) \/ (f.fn = "disconnect" /\ f.s = z)
    /\ InFlight("disconnect", z) =>
           InFlight("disconnect", z)' \/ (calls[c].fn = "disconnect" /\ calls[c].s = z)
    /\ f.fn = "disconnect" /\ f.s = z => InFlight("disconnect", z)'
    /\ InFlight("attemptReconnect", z) =>
           \/ InFlight("attemptReconnect", z)'
           \/ calls[c].fn = "attemptReconnect" /\ calls[c].s = z
    /\ f.fn = "attemptReconnect" /\ f.s = z => InFlight("attemptReconnect", z)'
    /\ Delivered(z)' =>
           \/ Delivered(z)
           \/ f.fn \in {"connect", "attemptReconnect"} /\ f.s = z /\ f.wait = "resolved"
    /\ InFlight("connect", z)' => InFlight("connect", z) \/ (f.fn = "connect" /\ f.s = z)
    /\ InFlight("attemptReconnect", z)' =>
           InFlight("attemptReconnect", z) \/ (f.fn = "attemptReconnect" /\ f.s = z)
    /\ Single(z) /\ f.fn # "connect" => Single(z)'
    /\ ~InFlight("connect", z) => Single(z)'
    /\ Single(z) /\ calls[c].fn = "connect" /\ calls[c].s = z /\ f.fn # "connect" =>
           ~InFlight("connect", z)'

LEMMA SlotTurned ==
    ASSUME IInv, NEW c \in Calls, NEW f, calls' = [calls EXCEPT ![c] = f], NEW z
    PROVE  Turned(c, f, z)
<1>1. calls'[c] = f /\ \A d \in Calls : d # c => calls'[d] = calls[d]
  BY DEF IInv, TypeOK
<1>2. ASSUME NEW fn
      PROVE  /\ InFlight(fn, z)' => InFlight(fn, z) \/ (f.fn = fn /\ f.s = z)
             /\ InFlight(fn, z) => InFlight(fn, z)' \/ (calls[c].fn = fn /\ calls[c].s = z)
             /\ f.fn = fn /\ f.s = z => InFlight(fn, z)'
  BY <1>1 DEF InFlight
<1>3. Delivered(z)' =>
           \/ Delivered(z)
           \/ f.fn \in {"connect", "attemptReconnect"} /\ f.s = z /\ f.wait = "resolved"
  BY <1>1 DEF Delivered
<1>4. /\ Single(z) /\ f.fn # "connect" => Single(z)'
      /\ ~InFlight("connect", z) => Single(z)'
  BY <1>1 DEF Single, InFlight
<1>5. Single(z) /\ calls[c].fn = "connect" /\ calls[c].s = z /\ f.fn # "connect" =>
         ~InFlight("connect", z)'
  BY <1>1 DEF Single, InFlight
<1> QED BY <1>2, <1>3, <1>4, <1>5 DEF Turned

\* A frame that is not a connect's is written, and z keeps its state, ends, or
\* loses its link.
LEMMA PhaseKept ==
    ASSUME NEW z, NEW c, NEW f, Turned(c, f, z), PhaseAt(z), f.fn # "connect",
           f.fn = "attemptReconnect" /\ f.s = z => connectionState[z] = "reconnecting",
           \/ connectionState'[z] \in {connectionState[z], "disconnected"}
           \/ connectionState[z] = "connected" /\ connectionState'[z] = "reconnecting"
    PROVE  PhaseAt(z)'
BY DEF Turned, PhaseAt

workVars == <<disposed, brickKey, connectionState, queueVars, calls, provided, adapter,
              reconnectTimer, strayTimers>>

LEMMA CalmKeepsWork ==
    ASSUME NEW z \in Sessions, Work(z), UNCHANGED workVars
    PROVE  Work(z)'
<1>1. PhaseAt(z)'
  BY DEF Work, PhaseAt, InFlight, Single, workVars
<1>2. ShutAt(z)' /\ LinkAt(z)' /\ PursuedAt(z)'
  BY DEF Work, ShutAt, Shut, LinkAt, PursuedAt, InFlight, Delivered, workVars, queueVars
<1> QED BY <1>1, <1>2 DEF Work

\* The map holds every live session under its own key, until dispose().
LEMMA Alone ==
    ASSUME IInv, NEW k \in Bricks, NEW z \in Sessions, ~disposed,
           connectionState[z] \in LiveStates, brickKey[z] = k
    PROVE  sessions[k] = z
BY DEF IInv, MapInv, Live

\* z is still pursued when timers replaces reconnectTimer and the frame c goes.
Kept(z, c, timers) ==
    ~disposed /\ connectionState[z] = "reconnecting" =>
        \/ timers[z]
        \/ strayTimers'[brickKey[z]] > 0
        \/ /\ InFlight("attemptReconnect", z) \/ InFlight("disconnect", z)
           /\ ~(calls[c].fn = "attemptReconnect" /\ calls[c].s = z)

LEMMA KeptAsItWas ==
    ASSUME NEW z \in Sessions, Work(z), strayTimers' = strayTimers,
           NEW c, ~(calls[c].fn = "attemptReconnect" /\ calls[c].s = z)
    PROVE  Kept(z, c, reconnectTimer)
BY DEF Kept, Work, PursuedAt

\* disconnect() of the session r in the map, up to its await: r is shut, and
\* its adapter is the only one that may go.
LEMMA DisconnectingKeepsWork ==
    ASSUME WorkInv, NEW z \in Sessions, NEW k \in Bricks, sessions[k] # None,
           NEW prev, NEW c \in Calls, calls[c].fn # "disconnect",
           NEW probes, NEW timers \in [Sessions -> BOOLEAN],
           Disconnecting(sessions[k], prev, c, probes, timers),
           disposed' = disposed, brickKey' = brickKey, provided' = provided,
           z # sessions[k] => connectionState'[z] = connectionState[z] /\ Kept(z, c, timers),
           \/ connectionState'[z] = connectionState[z]
           \/ connectionState[z] = "connected" /\ connectionState'[z] = "reconnecting"
    PROVE  Work(z)'
<1> DEFINE r == sessions[k]
           open == k \in provided /\ adapter[k] # "none"
           f == Frame("disconnect", r, prev, IF open THEN "closing" ELSE "resolved")
<1>0. /\ r \in Sessions /\ brickKey[r] = k /\ IInv /\ TypeOK /\ Work(z)
      /\ connectionState[r] \in LiveStates /\ Work(r)
  BY Holder DEF WorkInv, IInv, MapInv, Live
<1>1. Turned(c, f, z) /\ f.fn = "disconnect" /\ f.s = r
  <2>1. calls' = [calls EXCEPT ![c] = f]
    BY <1>0 DEF Disconnecting
  <2> QED BY <1>0, <2>1, SlotTurned DEF Frame
<1>2. /\ queue' = [queue EXCEPT ![r] = DisposeQueue(queue[r])]
      /\ sending' = IF open THEN SendsCut(k) ELSE sending
      /\ adapter' = IF open THEN [adapter EXCEPT ![k] = "none"] ELSE adapter
      /\ reconnectTimer' = [timers EXCEPT ![r] = FALSE]
  BY <1>0 DEF Disconnecting
<1>3. /\ queue \in [Sessions -> QueueType(Commands)]
      /\ adapter \in [Bricks -> {"none", "open", "dead"}]
      /\ provided \subseteq Bricks
  BY <1>0 DEF TypeOK, QueuesType, ProviderType
<1>4. sending'[z] = "waiting" =>
         brickKey[z] \in provided /\ adapter'[brickKey[z]] = "open"
  <2>1. sending[z] = "waiting" => brickKey[z] \in provided /\ adapter[brickKey[z]] = "open"
    BY <1>0 DEF Work, ShutAt
  <2>2. sending'[z] = "waiting" => sending[z] = "waiting" /\ (open => brickKey[z] # k)
    BY <1>2 DEF SendsCut
  <2> QED BY <1>2, <1>3, <2>1, <2>2
<1> HIDE DEF f
<1>a. PhaseAt(z)'
  BY <1>0, <1>1, PhaseKept DEF Work
<1>5. CASE z = r
  <2>1. /\ queue'[z] = DisposeQueue(queue[z]) /\ queue[z] \in QueueType(Commands)
    BY <1>2, <1>3, <1>5
  <2>2. queue'[z].queue = <<>> /\ queue'[z].disposed /\ ~Accepts(queue'[z])
    BY <2>1, QueueFacts DEF Commands
  <2>3. sending'[z] # "waiting"
    <3>1. sending[z] = "waiting" => open
      BY <1>0, <1>5 DEF Work, ShutAt
    <3> QED BY <1>0, <1>2, <1>5, <3>1 DEF SendsCut
  <2>4. InFlight("disconnect", z)'
    BY <1>1, <1>5 DEF Turned
  <2>5. ShutAt(z)'
    BY <2>2, <2>3 DEF ShutAt, Shut
  <2> QED BY <1>a, <2>4, <2>5 DEF Work, LinkAt, PursuedAt
<1>6. CASE z # r
  <2>1. /\ queue'[z] = queue[z] /\ connectionState'[z] = connectionState[z]
        /\ sending'[z] = "waiting" => sending[z] = "waiting"
    BY <1>2, <1>3, <1>6 DEF SendsCut
  <2>2. InFlight("disconnect", z)' <=> InFlight("disconnect", z)
    BY <1>1, <1>6 DEF Turned
  <2>3. ShutAt(z)'
    <3>1. /\ connectionState[z] \notin {"connected", "reconnecting"} \/ InFlight("disconnect", z)
                 => queue[z].queue = <<>> /\ sending[z] # "waiting" /\ ~Accepts(queue[z])
          /\ InFlight("disconnect", z) => queue[z].disposed
      BY <1>0 DEF Work, ShutAt, Shut
    <3> QED BY <1>4, <2>1, <2>2, <3>1 DEF ShutAt, Shut
  <2>4. LinkAt(z)'
    <3>1. Delivered(z)' => Delivered(z)
      BY <1>1 DEF Turned
    <3>2. ~disposed /\ connectionState[z] \in LiveStates /\ brickKey[z] \in Bricks =>
             brickKey[z] # k
      BY <1>0, <1>6, Alone
    <3>3. ~disposed /\ connectionState[z] \in LiveStates /\ brickKey[z] \in provided =>
             adapter'[brickKey[z]] = adapter[brickKey[z]]
      BY <1>2, <1>3, <3>2
    <3> QED BY <1>0, <2>1, <2>2, <3>1, <3>3 DEF Work, LinkAt, LiveStates
  <2>5. PursuedAt(z)'
    <3>1. timers[z] => reconnectTimer'[z]
      BY <1>2, <1>6
    <3>2. InFlight("attemptReconnect", z) /\ ~(calls[c].fn = "attemptReconnect" /\ calls[c].s = z)
             => InFlight("attemptReconnect", z)'
      BY <1>1 DEF Turned
    <3> QED BY <1>6, <2>1, <2>2, <3>1, <3>2 DEF Kept, PursuedAt
  <2> QED BY <1>a, <2>3, <2>4, <2>5 DEF Work
<1> QED BY <1>5, <1>6

\* A timer fires for the brick k: a session that needed it is the one in the
\* map, and the attempt or the disconnect that starts takes its place.
LEMMA AttemptKeepsWork ==
    ASSUME WorkInv, NEW z \in Sessions, NEW k \in Bricks, NEW c \in Calls,
           Quiescent, calls[c] = IdleCall,
           NEW timers \in [Sessions -> BOOLEAN], AttemptReconnect(k, c, timers),
           disposed' = disposed, brickKey' = brickKey, provided' = provided,
           connectionState' = connectionState,
           z # sessions[k] => Kept(z, c, timers)
    PROVE  Work(z)'
<1> DEFINE r == sessions[k]
<1>0. IInv /\ TypeOK /\ Work(z) /\ calls[c].fn = "idle"
  BY DEF WorkInv, IInv, IdleCall, Frame
<1>1. CASE /\ r = None \/ (r # None /\ connectionState[r] # "reconnecting")
           /\ reconnectTimer' = timers
           /\ UNCHANGED <<heartbeatVars, queueVars, calls, adapter>>
  <2>1. ShutAt(z)' /\ LinkAt(z)'
    BY <1>0, <1>1 DEF Work, ShutAt, Shut, LinkAt, InFlight, Delivered, queueVars
  <2>2. PursuedAt(z)'
    <3> SUFFICES ASSUME ~disposed, connectionState[z] = "reconnecting"
                 PROVE  \/ timers[z] \/ strayTimers'[brickKey[z]] > 0
                        \/ InFlight("attemptReconnect", z) \/ InFlight("disconnect", z)
      BY <1>1 DEF PursuedAt, InFlight
    <3>1. z # r
      <4> SUFFICES ASSUME z = r PROVE FALSE
        OBVIOUS
      <4>1. r # None
        BY ConstantsAssumption
      <4> QED BY <1>1, <4>1
    <3> QED BY <3>1 DEF Kept
  <2>3. PhaseAt(z)'
    BY <1>0, <1>1 DEF Work, PhaseAt, InFlight, Single
  <2> QED BY <2>1, <2>2, <2>3 DEF Work
<1>2. CASE r # None /\ Disconnecting(r, "reconnecting", c, probe, timers)
  BY <1>0, <1>2, DisconnectingKeepsWork
<1>3. CASE /\ r # None
           /\ connectionState[r] = "reconnecting"
           /\ k \in provided
           /\ adapter' = IF RecoverCloses(k) THEN [adapter EXCEPT ![k] = "none"] ELSE adapter
           /\ sending' = IF RecoverCloses(k) THEN SendsCut(k) ELSE sending
           /\ calls' = [calls EXCEPT ![c] = Frame("attemptReconnect", r, "reconnecting",
                            IF RecoverCloses(k) THEN "closing" ELSE Opening(k, adapter))]
           /\ reconnectTimer' = timers
           /\ UNCHANGED <<heartbeatVars, queue>>
  <2> DEFINE f == Frame("attemptReconnect", r, "reconnecting",
                        IF RecoverCloses(k) THEN "closing" ELSE Opening(k, adapter))
  <2>1. Turned(c, f, z)
    BY <1>0, <1>3, SlotTurned
  <2>2. f.fn = "attemptReconnect" /\ f.s = r /\ f.wait # "resolved"
    BY DEF Frame, Opening
  <2>3. ~Delivered(z)
    BY DEF Delivered, Quiescent
  <2> HIDE DEF f
  <2>4. /\ InFlight("disconnect", z)' <=> InFlight("disconnect", z)
        /\ ~Delivered(z)'
    BY <1>0, <2>1, <2>2, <2>3 DEF Turned
  <2>5. /\ adapter \in [Bricks -> {"none", "open", "dead"}] /\ provided \subseteq Bricks
        /\ r \in Sessions /\ brickKey[r] = k
    BY <1>0, <1>3, Holder DEF TypeOK, ProviderType
  <2>6. ShutAt(z)'
    <3>1. sending'[z] = "waiting" =>
             sending[z] = "waiting" /\ (RecoverCloses(k) => brickKey[z] # k)
      BY <1>3 DEF SendsCut
    <3>2. sending'[z] = "waiting" =>
             brickKey[z] \in provided /\ adapter'[brickKey[z]] = "open"
      BY <1>0, <1>3, <2>5, <3>1 DEF Work, ShutAt
    <3> QED BY <1>0, <1>3, <2>4, <3>1, <3>2 DEF Work, ShutAt, Shut
  <2>7. LinkAt(z)'
    <3> SUFFICES ASSUME ~disposed, brickKey[z] \in provided, ~InFlight("disconnect", z),
                        connectionState[z] = "connected"
                 PROVE  adapter'[brickKey[z]] # "none"
      BY <2>4 DEF LinkAt
    <3>1. adapter[brickKey[z]] # "none"
      BY <1>0 DEF Work, LinkAt
    <3>2. brickKey[z] # k
      BY <1>0, <1>3, Alone DEF LiveStates
    <3> QED BY <1>3, <2>5, <3>1, <3>2
  <2>8. PursuedAt(z)'
    <3>1. CASE z = r
      BY <2>1, <2>2, <3>1 DEF Turned, PursuedAt
    <3>2. CASE z # r
      BY <1>0, <1>3, <2>1, <3>2 DEF Turned, PursuedAt, Kept
    <3> QED BY <3>1, <3>2
  <2>9. PhaseAt(z)'
    BY <1>0, <1>3, <2>1, <2>2, PhaseKept DEF Work
  <2> QED BY <2>6, <2>7, <2>8, <2>9 DEF Work
<1> QED BY <1>1, <1>2, <1>3 DEF AttemptReconnect

\* A command is accepted: its session is connected and not being disconnected,
\* and it holds the adapter only if that is open.
LEMMA EnqueueKeepsWork ==
    ASSUME WorkInv, NEW z \in Sessions, NEW s \in Sessions, NEW command \in Commands,
           Accepts(queue[s]), Enqueue(s, command),
           UNCHANGED <<disposed, brickKey, connectionState, calls, provided, adapter,
                       reconnectTimer, strayTimers>>
    PROVE  Work(z)'
<1>0. Work(z) /\ queue[s] \in QueueType(Commands) /\ queue \in [Sessions -> QueueType(Commands)]
      /\ sending \in [Sessions -> SendStates]
  BY DEF WorkInv, IInv, TypeOK, QueuesType, SendStates
<1>1. LinkAt(z)' /\ PursuedAt(z)' /\ PhaseAt(z)'
  BY <1>0 DEF Work, LinkAt, PursuedAt, PhaseAt, InFlight, Delivered, Single
<1>2. InFlight("disconnect", z)' <=> InFlight("disconnect", z)
  BY DEF InFlight
<1>3. sending'[z] = "waiting" => brickKey[z] \in provided /\ adapter[brickKey[z]] = "open"
  <2>1. sending'[z] = sending[z] \/ (z = s /\ sending'[z] = Transmit(brickKey[z]))
    BY <1>0 DEF Enqueue
  <2> QED BY <1>0, <2>1 DEF Transmit, Work, ShutAt
<1>4. ShutAt(z)'
  <2>1. CASE z = s
    <3>1. ~Shut(z) /\ queue'[z] = Push(queue[z], command)
      BY <1>0, <2>1 DEF Shut, Enqueue
    <3>2. queue'[z].disposed = queue[z].disposed
      BY <1>0, <2>1, <3>1, QueueFacts
    <3> QED BY <1>0, <1>2, <1>3, <3>1, <3>2 DEF Work, ShutAt
  <2>2. CASE z # s
    <3>1. queue'[z] = queue[z] /\ sending'[z] = sending[z]
      BY <1>0, <2>2 DEF Enqueue
    <3> QED BY <1>0, <1>2, <1>3, <3>1 DEF Work, ShutAt, Shut
  <2> QED BY <2>1, <2>2
<1> QED BY <1>1, <1>4 DEF Work

\* A call of the user.
LEMMA UserKeepsWork ==
    ASSUME WorkInv, [Next]_vars, UserCall, NEW z \in Sessions
    PROVE  Work(z)'
<1>0. IInv /\ TypeOK /\ Work(z) /\ reconnectTimer \in [Sessions -> BOOLEAN]
  BY DEF WorkInv, IInv, TypeOK, ReconnectType
<1>1. CASE ClearSuppressions \/ ClearActiveBrick \/ \E k \in Bricks : SetActiveBrick(k)
  <2>1. UNCHANGED workVars
    BY <1>1 DEF ClearSuppressions, ClearActiveBrick, SetActiveBrick, workVars, entryVars,
       reconnectVars, providerVars
  <2> QED BY <1>0, <2>1, CalmKeepsWork
<1>2. CASE Dispose
  <2>1. queue'[z] = queue[z] \/ queue'[z] = DisposeQueue(queue[z])
    BY <1>2 DEF Dispose
  <2>2. queue[z] \in QueueType(Commands)
    BY <1>0 DEF TypeOK, QueuesType
  <2>3. /\ DisposeQueue(queue[z]).queue = <<>> /\ DisposeQueue(queue[z]).disposed
        /\ ~Accepts(DisposeQueue(queue[z]))
    BY <2>2, QueueFacts DEF Commands
  <2>4. /\ disposed' /\ connectionState' = connectionState /\ brickKey' = brickKey
        /\ sending' = sending /\ calls' = calls /\ provided' = provided /\ adapter' = adapter
    BY <1>2 DEF Dispose, entryVars, providerVars
  <2>5. InFlight("disconnect", z)' <=> InFlight("disconnect", z)
    BY <2>4 DEF InFlight
  <2>6. ShutAt(z)'
    BY <1>0, <2>1, <2>3, <2>4, <2>5 DEF Work, ShutAt, Shut
  <2>7. PhaseAt(z)'
    BY <1>0, <2>4 DEF Work, PhaseAt, InFlight, Single
  <2> QED BY <2>4, <2>6, <2>7 DEF Work, LinkAt, PursuedAt
<1>3. ASSUME NEW k \in Bricks, Send(k) PROVE Work(z)'
  <2>1. sessions[k] \in Sessions /\ Accepts(queue[sessions[k]]) /\ Enqueue(sessions[k], "user")
    BY <1>0, <1>3, Holder DEF Send
  <2>2. UNCHANGED <<disposed, brickKey, connectionState, calls, provided, adapter,
                    reconnectTimer, strayTimers>>
    BY <1>3 DEF Send, managerVars, entryVars, reconnectVars, providerVars
  <2> QED BY <1>0, <2>1, <2>2, EnqueueKeepsWork DEF Commands
<1>4. ASSUME NEW k \in Bricks, NEW c \in Calls, Disconnect(k, c) PROVE Work(z)'
  <2>1. calls[c].fn = "idle" /\ Kept(z, c, reconnectTimer)
    BY <1>0, <1>4, KeptAsItWas DEF Disconnect, Spare, Free, IdleCall, Frame
  <2> QED BY <1>0, <1>4, <2>1, DisconnectingKeepsWork DEF Disconnect
<1>5. ASSUME NEW k \in Bricks, NEW s \in Sessions, NEW c \in Calls, Connect(k, s, c)
      PROVE  Work(z)'
  <2> DEFINE f == Frame("connect", s, "connecting", Opening(k, adapter))
  <2>0. calls' = [calls EXCEPT ![c] = f] /\ calls[c].fn = "idle"
    BY <1>5 DEF Connect, Spare, Free, IdleCall, Frame
  <2>2. f.fn = "connect" /\ f.wait # "resolved" /\ f.s = s
    BY DEF Frame, Opening
  <2> HIDE DEF f
  <2>1. Turned(c, f, z)
    BY <1>0, <2>0, SlotTurned
  <2>3. /\ InFlight("disconnect", z)' <=> InFlight("disconnect", z)
        /\ InFlight("attemptReconnect", z) => InFlight("attemptReconnect", z)'
        /\ Delivered(z)' => Delivered(z)
    BY <2>0, <2>1, <2>2 DEF Turned
  <2>4. UNCHANGED <<disposed, queue, sending, provided, adapter, reconnectTimer, strayTimers>>
    BY <1>5 DEF Connect, queueVars, providerVars, reconnectVars
  <2>5. CASE z = s
    <3>1. /\ connectionState[z] = "unborn" /\ connectionState'[z] = "connecting"
          /\ sending[z] = "none"
      BY <1>0, <1>5, <2>5 DEF Connect, IInv, BornInv, TypeOK, EntryType
    <3>2. /\ ~InFlight("disconnect", z) /\ ~Delivered(z)
          /\ ~InFlight("connect", z) /\ ~InFlight("attemptReconnect", z)
      BY <1>0, <3>1 DEF InFlight, Delivered, IInv, FrameInv
    <3>4. PhaseAt(z)'
      BY <2>1, <2>2, <3>1, <3>2 DEF Turned, PhaseAt
    <3>3. ShutAt(z)'
      BY <1>0, <2>3, <2>4, <3>1, <3>2 DEF Work, ShutAt, Shut
    <3> QED BY <2>3, <3>1, <3>2, <3>3, <3>4 DEF Work, LinkAt, PursuedAt
  <2>6. CASE z # s
    <3>1. connectionState'[z] = connectionState[z] /\ brickKey'[z] = brickKey[z]
      BY <1>0, <1>5, <2>6 DEF Connect, TypeOK, EntryType
    <3>2. /\ InFlight("connect", z)' => InFlight("connect", z)
          /\ InFlight("attemptReconnect", z)' => InFlight("attemptReconnect", z)
      BY <2>1, <2>2, <2>6 DEF Turned
    <3>3. Single(z)'
      <4>1. calls'[c].s # z /\ \A d \in Calls : d # c => calls'[d] = calls[d]
        BY <1>0, <2>0, <2>2, <2>6 DEF TypeOK
      <4> QED BY <1>0, <4>1 DEF Work, PhaseAt, Single
    <3> QED
      BY <1>0, <2>3, <2>4, <3>1, <3>2, <3>3 DEF Work, ShutAt, Shut, LinkAt, PursuedAt, PhaseAt
  <2> QED BY <2>5, <2>6
<1> QED BY <1>1, <1>2, <1>3, <1>4, <1>5 DEF UserCall, SessionCall

\* A frame ends and nothing else of z changes, save perhaps its connection.
LEMMA FrameEndKeepsWork ==
    ASSUME WorkInv, NEW z \in Sessions, NEW c \in Calls, calls' = [calls EXCEPT ![c] = IdleCall],
           UNCHANGED <<disposed, brickKey, queueVars, provided, adapter, reconnectTimer,
                       strayTimers>>,
           \/ /\ connectionState'[z] = connectionState[z]
              /\ calls[c].s = z /\ calls[c].fn # "connect" => connectionState[z] = "disconnected"
           \/ connectionState'[z] = "disconnected" /\ Shut(z)
    PROVE  Work(z)'
<1>1. Turned(c, IdleCall, z) /\ IdleCall.fn = "idle" /\ Work(z)
  BY SlotTurned DEF WorkInv, IdleCall, Frame
<1>2. InFlight("disconnect", z)' => InFlight("disconnect", z) /\ queue[z].disposed
  BY <1>1 DEF Turned, Work, ShutAt
<1>a. PhaseAt(z)'
  BY <1>1, PhaseKept DEF Work
<1>3. CASE /\ connectionState'[z] = connectionState[z]
           /\ calls[c].s = z /\ calls[c].fn # "connect" => connectionState[z] = "disconnected"
  <2>1. ShutAt(z)'
    BY <1>1, <1>2, <1>3 DEF Work, ShutAt, Shut, queueVars
  <2>2. LinkAt(z)' /\ PursuedAt(z)'
    BY <1>1, <1>3 DEF Turned, Work, LinkAt, PursuedAt
  <2> QED BY <1>a, <2>1, <2>2 DEF Work
<1>4. CASE connectionState'[z] = "disconnected" /\ Shut(z)
  <2>1. ShutAt(z)'
    BY <1>1, <1>2, <1>4 DEF Work, ShutAt, Shut, queueVars
  <2> QED BY <1>a, <1>4, <2>1 DEF Work, LinkAt, PursuedAt
<1> QED BY <1>3, <1>4

\* connect() or an attempt succeeds: its session becomes connected, with the
\* adapter that was delivered, and may take commands.
LEMMA SuccessKeepsWork ==
    ASSUME WorkInv, NEW z \in Sessions, NEW c \in Calls,
           calls[c].fn \in {"connect", "attemptReconnect"}, calls[c].wait = "resolved",
           Transition(calls[c].s, "connected"),
           queue' = [queue EXCEPT ![calls[c].s] = SetExecutor(@)],
           calls' = [calls EXCEPT ![c] = IdleCall],
           UNCHANGED <<disposed, brickKey, sending, provided, adapter, reconnectTimer,
                       strayTimers>>
    PROVE  Work(z)'
<1> DEFINE s == calls[c].s
<1>1. Turned(c, IdleCall, z) /\ IdleCall.fn = "idle" /\ Work(z) /\ IInv /\ TypeOK
  BY SlotTurned DEF WorkInv, IdleCall, Frame, IInv
<1>2. /\ InFlight("disconnect", z)' <=> InFlight("disconnect", z)
      /\ Delivered(z)' => Delivered(z)
  BY <1>1 DEF Turned
<1>3. /\ connectionState[s] \in {"connecting", "reconnecting"}
      /\ connectionState' = [connectionState EXCEPT ![s] = "connected"]
  BY <1>1 DEF Transition, ValidTransitions, FrameInv, IInv
<1>4. s \in Sessions /\ queue \in [Sessions -> QueueType(Commands)]
      /\ connectionState \in [Sessions -> States \cup {"unborn"}]
  BY <1>1 DEF IInv, FrameInv, TypeOK, QueuesType, EntryType
<1>5. CASE z = s
  <2>1. connectionState'[z] = "connected" /\ queue'[z] = SetExecutor(queue[z])
    BY <1>3, <1>4, <1>5
  <2>2. /\ SetExecutor(queue[z]).queue = queue[z].queue
        /\ SetExecutor(queue[z]).disposed = queue[z].disposed
        /\ queue[z].disposed => ~Accepts(SetExecutor(queue[z]))
    BY <1>4, QueueFacts DEF Commands
  <2>3. ShutAt(z)'
    BY <1>1, <1>2, <2>1, <2>2 DEF Work, ShutAt, Shut
  <2>4. Delivered(z)
    BY <1>5 DEF Delivered
  <2>5. LinkAt(z)'
    BY <1>1, <1>2, <1>3, <1>5, <2>4 DEF Work, LinkAt
  <2>6. PhaseAt(z)'
    <3>1. CASE calls[c].fn = "connect"
      BY <1>1, <1>5, <2>1, <3>1 DEF Turned, Work, PhaseAt
    <3>2. CASE calls[c].fn = "attemptReconnect"
      <4>1. InFlight("attemptReconnect", z)
        BY <1>5, <3>2 DEF InFlight
      <4>2. ~InFlight("connect", z)
        BY <1>1, <1>3, <1>5, <4>1 DEF Work, PhaseAt
      <4> QED BY <1>1, <2>1, <4>2 DEF Turned, Work, PhaseAt
    <3> QED BY <3>1, <3>2
  <2> QED BY <2>1, <2>3, <2>5, <2>6 DEF Work, PursuedAt
<1>6. CASE z # s
  <2>1. connectionState'[z] = connectionState[z] /\ queue'[z] = queue[z]
    BY <1>3, <1>4, <1>6
  <2>2. InFlight("attemptReconnect", z) => InFlight("attemptReconnect", z)'
    BY <1>1, <1>6 DEF Turned
  <2>3. PhaseAt(z)'
    BY <1>1, <2>1, PhaseKept DEF Work
  <2> QED BY <1>1, <1>2, <2>1, <2>2, <2>3 DEF Work, ShutAt, Shut, LinkAt, PursuedAt
<1> QED BY <1>5, <1>6

\* An attempt failed: the session in the map is pursued further.
LEMMA RescheduleKeepsWork ==
    ASSUME WorkInv, NEW z \in Sessions, NEW c \in Calls,
           calls[c].fn = "attemptReconnect", Reschedule(brickKey[calls[c].s], c),
           UNCHANGED <<managerVars, entryVars, provided>>
    PROVE  Work(z)'
<1> DEFINE s == calls[c].s
           k == brickKey[s]
           r == sessions[k]
<1>0. /\ Work(z) /\ IInv /\ TypeOK /\ s \in Sessions /\ k \in Bricks
      /\ disposed' = disposed /\ brickKey' = brickKey /\ connectionState' = connectionState
      /\ reconnectTimer \in [Sessions -> BOOLEAN] /\ strayTimers \in [Bricks -> Nat]
      /\ IdleCall.fn = "idle"
  BY DEF WorkInv, IInv, FrameInv, BornInv, managerVars, entryVars, TypeOK, ReconnectType,
     IdleCall, Frame
<1>1. ~disposed /\ connectionState[s] = "reconnecting" => r = s /\ s # None
  BY <1>0, Alone, ConstantsAssumption DEF LiveStates
<1>a. ASSUME calls' = [calls EXCEPT ![c] = IdleCall], UNCHANGED <<queueVars, adapter>>
      PROVE  ShutAt(z)' /\ LinkAt(z)' /\ PhaseAt(z)'
  <2>1. Turned(c, IdleCall, z)
    BY <1>0, <1>a, SlotTurned
  <2>2. PhaseAt(z)'
    BY <1>0, <2>1, PhaseKept DEF Work
  <2> QED BY <1>0, <1>a, <2>1, <2>2 DEF Turned, Work, ShutAt, Shut, LinkAt, queueVars
<1>b. ASSUME calls' = [calls EXCEPT ![c] = IdleCall], z # s PROVE
        /\ InFlight("disconnect", z) => InFlight("disconnect", z)'
        /\ InFlight("attemptReconnect", z) => InFlight("attemptReconnect", z)'
  <2>1. Turned(c, IdleCall, z)
    BY <1>0, <1>b, SlotTurned
  <2> QED BY <1>b, <2>1 DEF Turned
<1>2. CASE /\ r = None
           /\ calls' = [calls EXCEPT ![c] = IdleCall]
           /\ UNCHANGED <<heartbeatVars, queueVars, reconnectVars, adapter>>
  <2>1. PursuedAt(z)'
    <3>1. CASE z = s
      BY <1>0, <1>1, <1>2, <3>1 DEF PursuedAt
    <3>2. CASE z # s
      BY <1>0, <1>b, <1>2, <3>2 DEF Work, PursuedAt, reconnectVars
    <3> QED BY <3>1, <3>2
  <2> QED BY <1>2, <1>a, <2>1 DEF Work
<1>3. CASE /\ r # None
           /\ ScheduleReconnect(r)
           /\ calls' = [calls EXCEPT ![c] = IdleCall]
           /\ UNCHANGED <<heartbeatVars, queueVars, adapter>>
  <2>1. PursuedAt(z)'
    <3>1. CASE z = s
      BY <1>0, <1>1, <1>3, <3>1 DEF PursuedAt, ScheduleReconnect
    <3>2. CASE z # s
      <4>1. reconnectTimer[z] => reconnectTimer'[z]
        BY <1>0, <1>3 DEF ScheduleReconnect
      <4>2. brickKey[z] \in Bricks /\ strayTimers[brickKey[z]] > 0 =>
               strayTimers'[brickKey[z]] > 0
        <5>1. r \in Sessions /\ brickKey[r] = k
          BY <1>0, <1>3, Holder
        <5>2. strayTimers' = strayTimers \/ strayTimers' = [strayTimers EXCEPT ![k] = @ + 1]
          BY <1>3, <5>1 DEF ScheduleReconnect
        <5> HIDE DEF k
        <5> QED BY <1>0, <5>2
      <4>3. connectionState[z] = "reconnecting" => brickKey[z] \in Bricks
        BY <1>0 DEF IInv, BornInv
      <4> QED BY <1>0, <1>b, <1>3, <3>2, <4>1, <4>2, <4>3 DEF Work, PursuedAt
    <3> QED BY <3>1, <3>2
  <2> QED BY <1>3, <1>a, <2>1 DEF Work
<1>4. CASE /\ r # None
           /\ Disconnecting(r, connectionState[r], c, probe, reconnectTimer)
           /\ UNCHANGED <<consecutiveMisses, attempts, strayTimers>>
  <2>1. z # r => Kept(z, c, reconnectTimer)
    <3>1. CASE z = s
      BY <1>1, <3>1 DEF Kept
    <3>2. CASE z # s
      BY <1>0, <1>4, <3>2, KeptAsItWas
    <3> QED BY <3>1, <3>2
  <2>2. provided' = provided
    OBVIOUS
  <2> QED BY <1>0, <1>4, <2>1, <2>2, DisconnectingKeepsWork
<1> QED BY <1>2, <1>3, <1>4 DEF Reschedule

LEMMA ContinuationKeepsWork ==
    ASSUME WorkInv, NEW c \in Calls, Continuation(c), NEW z \in Sessions
    PROVE  Work(z)'
<1> DEFINE s == calls[c].s
<1>0. /\ IInv /\ TypeOK /\ Work(z)
      /\ connectionState \in [Sessions -> States \cup {"unborn"}]
      /\ calls[c].fn # "idle" => s \in Sessions /\ connectionState[s] # "unborn"
  BY DEF WorkInv, IInv, FrameInv, TypeOK, EntryType
<1>1. CASE ConnectSucceeds(c) \/ AttemptSucceeds(c)
  BY <1>1, SuccessKeepsWork DEF ConnectSucceeds, AttemptSucceeds, managerVars, providerVars
<1>2. CASE ConnectFails(c)
  <2>1. /\ s \in Sessions /\ InFlight("connect", s)
        /\ connectionState' = [connectionState EXCEPT ![s] = "disconnected"]
    BY <1>0, <1>2 DEF ConnectFails, Transition, InFlight
  <2>2. Shut(s)
    BY <2>1 DEF WorkInv, Work, ShutAt, PhaseAt
  <2>3. z = s => connectionState'[z] = "disconnected"
    BY <1>0, <2>1
  <2>4. z # s => connectionState'[z] = connectionState[z]
    BY <1>0, <2>1
  <2>5. UNCHANGED <<disposed, brickKey, queueVars, provided, adapter, reconnectTimer, strayTimers>>
        /\ calls' = [calls EXCEPT ![c] = IdleCall]
    BY <1>2 DEF ConnectFails, reconnectVars, providerVars
  <2> QED BY <2>2, <2>3, <2>4, <2>5, FrameEndKeepsWork
<1>3. CASE ConnectAborts(c)
  BY <1>0, <1>3, FrameEndKeepsWork DEF ConnectAborts, managerVars, entryVars, providerVars,
     reconnectVars
<1>4. CASE DisconnectCompletes(c)
  <2>1. /\ s \in Sessions /\ InFlight("disconnect", s)
        /\ connectionState' = [connectionState EXCEPT ![s] = "disconnected"]
    BY <1>0, <1>4 DEF DisconnectCompletes, Transition, InFlight
  <2>2. Shut(s)
    BY <2>1 DEF WorkInv, Work, ShutAt
  <2>3. z = s => connectionState'[z] = "disconnected"
    BY <1>0, <2>1
  <2>4. z # s => connectionState'[z] = connectionState[z]
    BY <1>0, <2>1
  <2>5. UNCHANGED <<disposed, brickKey, queueVars, provided, adapter, reconnectTimer, strayTimers>>
        /\ calls' = [calls EXCEPT ![c] = IdleCall]
    BY <1>4 DEF DisconnectCompletes, reconnectVars, providerVars
  <2> QED BY <2>2, <2>3, <2>4, <2>5, FrameEndKeepsWork
<1>5. CASE DisconnectThrows(c)
  <2>1. connectionState[s] = "disconnected"
    BY <1>0, <1>5 DEF DisconnectThrows, ValidTransitions, States
  <2> QED BY <1>0, <1>5, <2>1, FrameEndKeepsWork DEF DisconnectThrows, managerVars, entryVars,
     providerVars, reconnectVars
<1>6. CASE AttemptFails(c)
  BY <1>6, RescheduleKeepsWork DEF AttemptFails
<1> QED BY <1>1, <1>2, <1>3, <1>4, <1>5, <1>6 DEF Continuation

\* The heartbeat's tick() resumes.
LEMMA HeartbeatKeepsWork ==
    ASSUME WorkInv, NEW s \in Sessions, HeartbeatOutcome(s), NEW z \in Sessions
    PROVE  Work(z)'
<1> DEFINE k == brickKey[s]
           r == sessions[k]
<1>0. /\ IInv /\ TypeOK /\ Work(z) /\ reconnectTimer \in [Sessions -> BOOLEAN]
      /\ connectionState \in [Sessions -> States \cup {"unborn"}]
      /\ strayTimers \in [Bricks -> Nat]
  BY DEF WorkInv, IInv, TypeOK, ReconnectType, EntryType
<1>1. CASE HeartbeatSucceeds(s) \/ HeartbeatMisses(s) \/ HeartbeatLapses(s)
  <2>1. UNCHANGED workVars
    BY <1>1 DEF HeartbeatSucceeds, HeartbeatMisses, HeartbeatLapses, workVars, managerVars,
       entryVars, reconnectVars, providerVars
  <2> QED BY <1>0, <2>1, CalmKeepsWork
<1>2. ThresholdReached(s) => k \in Bricks
  BY <1>0, Owner DEF ThresholdReached, Missed
<1>3. CASE HeartbeatReconnects(s)
  <2>1. /\ k \in Bricks /\ r \in Sessions /\ brickKey[r] = k
        /\ connectionState[r] = "connected"
        /\ connectionState' = [connectionState EXCEPT ![r] = "reconnecting"]
    BY <1>0, <1>2, <1>3, Holder DEF HeartbeatReconnects, Reconnecting, Transition
  <2>2. /\ UNCHANGED <<disposed, brickKey, queue, sending, calls, provided, adapter>>
        /\ ScheduleReconnect(r)
    BY <1>3 DEF HeartbeatReconnects, managerVars, queueVars, providerVars
  <2>3. /\ \A fn : InFlight(fn, z)' <=> InFlight(fn, z)
        /\ Delivered(z)' <=> Delivered(z)
        /\ Single(z)' <=> Single(z)
    BY <2>2 DEF InFlight, Delivered, Single
  <2>4. CASE z = r
    <3>1. connectionState[z] = "connected" /\ connectionState'[z] = "reconnecting"
      BY <1>0, <2>1, <2>4
    <3>2. reconnectTimer'[z]
      BY <1>0, <2>1, <2>2, <2>4 DEF ScheduleReconnect
    <3>3. ShutAt(z)'
      BY <1>0, <2>2, <2>3, <3>1 DEF Work, ShutAt, Shut
    <3>4. LinkAt(z)'
      BY <1>0, <2>2, <2>3, <3>1 DEF Work, LinkAt
    <3>5. PhaseAt(z)'
      BY <1>0, <2>3, <3>1 DEF Work, PhaseAt
    <3> QED BY <3>2, <3>3, <3>4, <3>5 DEF Work, PursuedAt
  <2>5. CASE z # r
    <3>1. connectionState'[z] = connectionState[z]
      BY <1>0, <2>1, <2>5
    <3>2. reconnectTimer[z] => reconnectTimer'[z]
      BY <1>0, <2>2 DEF ScheduleReconnect
    <3>3. connectionState[z] = "reconnecting" /\ strayTimers[brickKey[z]] > 0 =>
             strayTimers'[brickKey[z]] > 0
      <4>1. strayTimers' = strayTimers \/ strayTimers' = [strayTimers EXCEPT ![k] = @ + 1]
        BY <2>1, <2>2 DEF ScheduleReconnect
      <4>2. connectionState[z] = "reconnecting" => brickKey[z] \in Bricks
        BY <1>0 DEF IInv, BornInv
      <4> HIDE DEF k
      <4> QED BY <1>0, <4>1, <4>2
    <3>4. ShutAt(z)' /\ LinkAt(z)' /\ PhaseAt(z)'
      BY <1>0, <2>2, <2>3, <3>1 DEF Work, ShutAt, Shut, LinkAt, PhaseAt
    <3>5. PursuedAt(z)'
      BY <1>0, <2>2, <2>3, <3>1, <3>2, <3>3 DEF Work, PursuedAt
    <3> QED BY <3>4, <3>5 DEF Work
  <2> QED BY <2>4, <2>5
<1>4. ASSUME NEW c \in Calls, HeartbeatDisconnects(s, c) PROVE Work(z)'
  <2>1. calls[c].fn = "idle" /\ Kept(z, c, reconnectTimer)
    BY <1>0, <1>4, KeptAsItWas DEF HeartbeatDisconnects, Free, IdleCall, Frame
  <2>2. k \in Bricks /\ r # None
    BY <1>2, <1>4 DEF HeartbeatDisconnects
  <2>3. disposed' = disposed /\ brickKey' = brickKey /\ connectionState' = connectionState
    BY <1>4 DEF HeartbeatDisconnects, managerVars, entryVars
  <2> QED BY <1>0, <1>4, <2>1, <2>2, <2>3, DisconnectingKeepsWork DEF HeartbeatDisconnects
<1>5. ASSUME NEW c \in Calls, HeartbeatExhausts(s, c) PROVE Work(z)'
  <2>1. calls[c].fn = "idle" /\ Kept(z, c, reconnectTimer)
    BY <1>0, <1>5, KeptAsItWas DEF HeartbeatExhausts, Free, IdleCall, Frame
  <2>2. k \in Bricks /\ r \in Sessions
    BY <1>0, <1>2, <1>5, Holder DEF HeartbeatExhausts, Reconnecting
  <2>3. /\ z # r => connectionState'[z] = connectionState[z]
        /\ \/ connectionState'[z] = connectionState[z]
           \/ connectionState[z] = "connected" /\ connectionState'[z] = "reconnecting"
    BY <1>0, <1>5, <2>2 DEF HeartbeatExhausts, Reconnecting, Transition
  <2>4. disposed' = disposed /\ brickKey' = brickKey /\ provided' = provided /\ r # None
    BY <1>5 DEF HeartbeatExhausts, Reconnecting, managerVars
  <2>5. Disconnecting(r, "reconnecting", c, [probe EXCEPT ![s] = "none"], reconnectTimer)
    BY <1>5 DEF HeartbeatExhausts
  <2> QED BY <1>0, <2>1, <2>2, <2>3, <2>4, <2>5, DisconnectingKeepsWork
<1> QED BY <1>1, <1>3, <1>4, <1>5 DEF HeartbeatOutcome

\* An adapter or a reply of it: the pending requests of a brick stay with an
\* adapter that is open.
LEMMA AdapterKeepsWork ==
    ASSUME WorkInv, NEW z \in Sessions, NEW k \in Bricks,
           AdapterFails(k) \/ UnregisterProvider(k)
    PROVE  Work(z)'
<1>0. /\ IInv /\ TypeOK /\ Work(z) /\ provided \subseteq Bricks
      /\ adapter \in [Bricks -> {"none", "open", "dead"}]
  BY DEF WorkInv, IInv, TypeOK, ProviderType
<1>1. /\ UNCHANGED <<disposed, brickKey, connectionState, queue, reconnectTimer, strayTimers>>
      /\ calls' = calls \/ calls' = WaitersRejected(k)
      /\ sending' = SendsCut(k) /\ provided' \subseteq provided
      /\ k \in provided' => adapter'[k] # "none"
      /\ \A b \in Bricks : b # k =>
             adapter'[b] = adapter[b] /\ (b \in provided' <=> b \in provided)
  BY <1>0 DEF AdapterFails, UnregisterProvider, managerVars, entryVars, reconnectVars
<1>2. /\ \A fn : InFlight(fn, z)' <=> InFlight(fn, z)
      /\ Delivered(z)' <=> Delivered(z)
      /\ Single(z)' <=> Single(z)
  <2>1. \A c \in Calls :
           /\ calls'[c].fn = calls[c].fn /\ calls'[c].s = calls[c].s
           /\ calls'[c].wait = "resolved" <=> calls[c].wait = "resolved"
    BY <1>0, <1>1 DEF WaitersRejected, TypeOK, CallType
  <2> QED BY <2>1 DEF InFlight, Delivered, Single
<1>3. sending'[z] = "waiting" => sending[z] = "waiting" /\ brickKey[z] # k
  BY <1>1 DEF SendsCut
<1>4. ShutAt(z)'
  BY <1>0, <1>1, <1>2, <1>3 DEF Work, ShutAt, Shut
<1>5. LinkAt(z)'
  BY <1>0, <1>1, <1>2 DEF Work, LinkAt
<1>6. PursuedAt(z)' /\ PhaseAt(z)'
  BY <1>0, <1>1, <1>2 DEF Work, PursuedAt, PhaseAt
<1> QED BY <1>4, <1>5, <1>6 DEF Work

\* The close or the open that a suspended call awaits ends.
LEMMA AwaitKeepsWork ==
    ASSUME WorkInv, NEW z \in Sessions, NEW c \in Calls,
           ProviderStep(c)
    PROVE  Work(z)'
<1> DEFINE s == calls[c].s
           k == brickKey[s]
<1>0. /\ IInv /\ TypeOK /\ Work(z) /\ provided \subseteq Bricks
      /\ adapter \in [Bricks -> {"none", "open", "dead"}]
      /\ calls[c] \in CallType /\ calls[c].fn # "idle" /\ s \in Sessions /\ k \in Bricks
  <2>1. IInv /\ TypeOK /\ Work(z) /\ provided \subseteq Bricks
        /\ adapter \in [Bricks -> {"none", "open", "dead"}] /\ calls[c] \in CallType
    BY DEF WorkInv, IInv, TypeOK, ProviderType
  <2>2. calls[c].wait # "none"
    BY DEF ProviderStep, AdapterCloses, SlotGranted, AdapterOpens, OpenFails
  <2> QED BY <2>1, <2>2 DEF IInv, FrameInv, BornInv
<1>1. PICK w \in {"queued", "opening", "resolved", "rejected"} :
         /\ calls' = [calls EXCEPT ![c].wait = w]
         /\ w = "resolved" =>
                calls[c].fn = "disconnect" \/ (AdapterOpens(c) /\ adapter'[k] = "open")
  BY <1>0 DEF ProviderStep, AdapterCloses, SlotGranted, AdapterOpens, OpenFails, AfterClose, Opening
<1>2. /\ calls'[c].fn = calls[c].fn /\ calls'[c].s = s /\ calls'[c].wait = w
      /\ \A d \in Calls : d # c => calls'[d] = calls[d]
  BY <1>0, <1>1 DEF TypeOK, CallType
<1>3. /\ \A fn : InFlight(fn, z)' <=> InFlight(fn, z)
      /\ Single(z)' <=> Single(z)
  BY <1>2 DEF InFlight, Single
<1>4. Delivered(z)' => Delivered(z) \/ (z = s /\ AdapterOpens(c) /\ adapter'[k] = "open")
  BY <1>1, <1>2 DEF Delivered
<1>5. /\ UNCHANGED <<disposed, brickKey, connectionState, queue, provided, reconnectTimer,
                     strayTimers>>
      /\ sending'[z] = "waiting" => sending[z] = "waiting"
      /\ \/ adapter' = adapter
         \/ /\ adapter' = [adapter EXCEPT ![k] = "open"]
            /\ sending'[z] = "waiting" => brickKey[z] # k
  BY DEF ProviderStep, AdapterCloses, SlotGranted, AdapterOpens, OpenFails, managerVars, entryVars, queueVars,
     reconnectVars, providerVars
<1>6. ShutAt(z)'
  BY <1>0, <1>3, <1>5 DEF Work, ShutAt, Shut
<1>7. LinkAt(z)'
  <2>1. adapter[brickKey[z]] # "none" /\ brickKey[z] \in Bricks => adapter'[brickKey[z]] # "none"
    BY <1>0, <1>5
  <2> QED BY <1>0, <1>3, <1>4, <1>5, <2>1 DEF Work, LinkAt
<1>8. PursuedAt(z)' /\ PhaseAt(z)'
  BY <1>0, <1>3, <1>5 DEF Work, PursuedAt, PhaseAt
<1> QED BY <1>6, <1>7, <1>8 DEF Work

\* A tick, an answer, or the drain loop after it.
LEMMA CommandKeepsWork ==
    ASSUME WorkInv, NEW z \in Sessions, NEW s \in Sessions,
           HeartbeatTick(s) \/ DrainResumes(s) \/ Reply(s) \/ SendFails(s)
    PROVE  Work(z)'
<1>0. /\ IInv /\ TypeOK /\ Work(z)
      /\ queue \in [Sessions -> QueueType(Commands)] /\ sending \in [Sessions -> SendStates]
  BY DEF WorkInv, IInv, TypeOK, QueuesType, SendStates
<1>1. UNCHANGED <<disposed, brickKey, connectionState, calls, provided, adapter,
                  reconnectTimer, strayTimers>>
  BY DEF HeartbeatTick, DrainResumes, Reply, SendFails, managerVars, entryVars,
     reconnectVars, providerVars
<1>2. CASE HeartbeatTick(s) /\ Accepts(queue[s])
  BY <1>0, <1>1, <1>2, EnqueueKeepsWork DEF HeartbeatTick, Commands
<1>3. CASE HeartbeatTick(s) /\ ~Accepts(queue[s])
  <2>1. UNCHANGED workVars
    BY <1>1, <1>3 DEF HeartbeatTick, workVars
  <2> QED BY <1>0, <2>1, CalmKeepsWork
<1>4. CASE DrainResumes(s) \/ Reply(s) \/ SendFails(s)
  <2>1. LinkAt(z)' /\ PursuedAt(z)' /\ PhaseAt(z)'
    BY <1>0, <1>1 DEF Work, LinkAt, PursuedAt, PhaseAt, InFlight, Delivered, Single
  <2>2. InFlight("disconnect", z)' <=> InFlight("disconnect", z)
    BY <1>1 DEF InFlight
  <2>3. ShutAt(z)'
    <3>1. CASE DrainResumes(s) /\ z = s
      <4>1. /\ queue'[z] = Advance(queue[z]) /\ queue[z] \in QueueType(Commands)
            /\ sending'[z] = IF Advance(queue[z]).current = Idle THEN "none"
                             ELSE Transmit(brickKey[z])
        BY <1>0, <3>1 DEF DrainResumes
      <4>2. /\ Advance(queue[z]).disposed = queue[z].disposed
            /\ Advance(queue[z]).executor = queue[z].executor
            /\ queue[z].queue = <<>> =>
                   Advance(queue[z]).queue = <<>> /\ Advance(queue[z]).current = Idle
        BY <4>1, QueueFacts DEF Commands
      <4>3. sending'[z] = "waiting" => brickKey[z] \in provided /\ adapter[brickKey[z]] = "open"
        BY <4>1 DEF Transmit
      <4> QED BY <1>0, <1>1, <2>2, <4>1, <4>2, <4>3 DEF Work, ShutAt, Shut, Accepts
    <3>2. CASE DrainResumes(s) /\ z # s
      <4>1. queue'[z] = queue[z] /\ sending'[z] = sending[z]
        BY <1>0, <3>2 DEF DrainResumes
      <4> QED BY <1>0, <1>1, <2>2, <4>1 DEF Work, ShutAt, Shut
    <3>3. CASE Reply(s) \/ SendFails(s)
      <4>1. queue' = queue /\ (sending'[z] = "waiting" => sending[z] = "waiting")
        BY <1>0, <3>3 DEF Reply, SendFails
      <4> QED BY <1>0, <1>1, <2>2, <4>1 DEF Work, ShutAt, Shut
    <3> QED BY <1>4, <3>1, <3>2, <3>3
  <2> QED BY <2>1, <2>3 DEF Work
<1> QED BY <1>2, <1>3, <1>4

\* A reconnect timer fires, held by its session or overwritten.
LEMMA TimerKeepsWork ==
    ASSUME WorkInv, NEW z \in Sessions, NEW c \in Calls,
           \/ \E s \in Sessions : ReconnectTimerFires(s, c)
           \/ \E k \in Bricks : StrayTimerFires(k, c)
    PROVE  Work(z)'
<1>0. /\ IInv /\ TypeOK /\ Work(z) /\ reconnectTimer \in [Sessions -> BOOLEAN]
      /\ strayTimers \in [Bricks -> Nat]
      /\ connectionState[z] = "reconnecting" => brickKey[z] \in Bricks
  BY DEF WorkInv, IInv, TypeOK, ReconnectType, BornInv
<1>1. ASSUME NEW s \in Sessions, ReconnectTimerFires(s, c) PROVE Work(z)'
  <2> DEFINE timers == [reconnectTimer EXCEPT ![s] = FALSE]
  <2>1. /\ brickKey[s] \in Bricks /\ timers \in [Sessions -> BOOLEAN]
        /\ calls[c] = IdleCall /\ calls[c].fn = "idle" /\ Quiescent
        /\ AttemptReconnect(brickKey[s], c, timers)
        /\ disposed' = disposed /\ brickKey' = brickKey /\ provided' = provided
        /\ connectionState' = connectionState /\ strayTimers' = strayTimers
    BY <1>0, <1>1, Owner DEF ReconnectTimerFires, Spare, Free, IdleCall, Frame, managerVars,
       entryVars
  <2>2. z # sessions[brickKey[s]] => Kept(z, c, timers)
    <3> SUFFICES ASSUME z # sessions[brickKey[s]], ~disposed,
                        connectionState[z] = "reconnecting"
                 PROVE  Kept(z, c, timers)
      BY DEF Kept
    <3>1. z # s
      BY <1>0, <2>1, Alone DEF LiveStates
    <3>2. timers[z] = reconnectTimer[z]
      BY <1>0, <3>1
    <3>3. Kept(z, c, reconnectTimer)
      BY <1>0, <2>1, KeptAsItWas
    <3> QED BY <3>2, <3>3 DEF Kept
  <2> HIDE DEF timers
  <2> QED BY <2>1, <2>2, AttemptKeepsWork
<1>2. ASSUME NEW k \in Bricks, StrayTimerFires(k, c) PROVE Work(z)'
  <2>1. /\ calls[c] = IdleCall /\ calls[c].fn = "idle" /\ Quiescent
        /\ AttemptReconnect(k, c, reconnectTimer)
        /\ disposed' = disposed /\ brickKey' = brickKey /\ provided' = provided
        /\ connectionState' = connectionState
        /\ strayTimers' = [strayTimers EXCEPT ![k] = @ - 1]
    BY <1>2 DEF StrayTimerFires, Spare, Free, IdleCall, Frame, managerVars, entryVars
  <2>2. z # sessions[k] => Kept(z, c, reconnectTimer)
    <3> SUFFICES ASSUME z # sessions[k], ~disposed, connectionState[z] = "reconnecting"
                 PROVE  Kept(z, c, reconnectTimer)
      BY DEF Kept
    <3>1. brickKey[z] \in Bricks /\ brickKey[z] # k
      BY <1>0, Alone DEF LiveStates
    <3>2. strayTimers'[brickKey[z]] = strayTimers[brickKey[z]]
      BY <1>0, <2>1, <3>1
    <3> QED BY <1>0, <2>1, <3>2 DEF Kept, Work, PursuedAt
  <2> QED BY <1>0, <2>1, <2>2, AttemptKeepsWork
<1> QED BY <1>1, <1>2

LEMMA StepKeepsWork == WorkInv /\ [Next]_vars => WorkInv'
<1> SUFFICES ASSUME WorkInv, [Next]_vars, NEW z \in Sessions PROVE Work(z)'
  BY NextIInv DEF WorkInv
<1>1. CASE UserCall
  BY <1>1, UserKeepsWork
<1>2. ASSUME NEW c \in Calls,
             Continuation(c) \/ ProviderStep(c)
      PROVE  Work(z)'
  BY <1>2, ContinuationKeepsWork, AwaitKeepsWork
<1>3. ASSUME NEW s \in Sessions, HeartbeatOutcome(s) PROVE Work(z)'
  BY <1>3, HeartbeatKeepsWork
<1>4. ASSUME NEW s \in Sessions, HeartbeatTick(s) \/ DrainResumes(s) \/ Reply(s) \/ SendFails(s)
      PROVE  Work(z)'
  BY <1>4, CommandKeepsWork
<1>5. ASSUME NEW s \in Sessions, TimerFires(s) PROVE Work(z)'
  BY <1>5, TimerKeepsWork DEF TimerFires
<1>6. ASSUME NEW k \in Bricks, StrayFires(k) PROVE Work(z)'
  BY <1>6, TimerKeepsWork DEF StrayFires
<1>7. ASSUME NEW k \in Bricks, AdapterFails(k) \/ UnregisterProvider(k) PROVE Work(z)'
  BY <1>7, AdapterKeepsWork
<1>8. CASE UNCHANGED vars
  <2>1. UNCHANGED workVars
    BY <1>8 DEF vars, workVars, managerVars, entryVars, queueVars, reconnectVars, providerVars
  <2> QED BY <2>1, CalmKeepsWork DEF WorkInv
<1> QED BY <1>1, <1>2, <1>3, <1>4, <1>5, <1>6, <1>7, <1>8 DEF Next, HostStep

LEMMA InitWork == Init => WorkInv
<1> SUFFICES ASSUME Init, NEW z \in Sessions PROVE Work(z)
  BY InitIInv DEF WorkInv
<1>1. /\ queue[z] = NewQueue /\ sending[z] = "none" /\ connectionState[z] = "unborn"
      /\ \A c \in Calls : calls[c].fn = "idle"
  BY DEF Init, IdleCall, Frame
<1>2. queue[z].queue = <<>> /\ ~Accepts(queue[z])
  BY <1>1 DEF NewQueue, Accepts
<1> QED
  BY <1>1, <1>2 DEF Work, ShutAt, Shut, LinkAt, PursuedAt, PhaseAt, InFlight, Delivered, Single

\* Every session keeps being owed what it is owed: shut when it is over, with
\* an adapter while it is connected, pursued while it reconnects.
THEOREM WorkInvariance == Spec => []WorkInv
BY InitWork, StepKeepsWork, PTL DEF Spec

\* No caller of send() is left behind by a session that ended, and no request
\* of it holds the adapter of the session that takes its place.
THEOREM TheRetiredAreAnswered == Spec => []RetiredAnswered
<1>1. WorkInv => RetiredAnswered
  BY DEF WorkInv, Work, ShutAt, Shut, RetiredAnswered
<1> QED BY <1>1, WorkInvariance, PTL

\* "reconnecting" is never a dead end: a timer, an attempt or a disconnect is
\* always outstanding, however timers are overwritten and attempts overlap.
THEOREM NobodyIsStuck == Spec => []NoStuckReconnecting
<1>1. WorkInv => NoStuckReconnecting
  BY DEF WorkInv, Work, PursuedAt, NoStuckReconnecting
<1> QED BY <1>1, WorkInvariance, PTL

\* A session shown as connected has an adapter in its provider, unless it is
\* being disconnected or the provider was unregistered.
THEOREM ConnectedIsLinked == Spec => []ConnectedHasAdapter
<1>1. WorkInv => ConnectedHasAdapter
  BY DEF WorkInv, Work, LinkAt, ConnectedHasAdapter
<1> QED BY <1>1, WorkInvariance, PTL
=============================================================================
