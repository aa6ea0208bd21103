---------------------------- MODULE TransportGuard ----------------------------
(***************************************************************************)
(* TransportGuard (src/src/transports/transportGuard.ts): per brick, one   *)
(* transport at a time with a rest between two, at most so many commands   *)
(* per second, and no commands to a brick that fails too often.            *)
(*                                                                         *)
(* Date.now() is the clock, and it only goes forward.  Timestamps are kept *)
(* as ages, up to the longest wait the code derives from them.             *)
(*                                                                         *)
(* The caller opens and closes transports, asks before each command, and   *)
(* records the result of each command it was let through with, in any      *)
(* order and after any delay.                                              *)
(***************************************************************************)
EXTENDS Naturals, Sequences, FiniteSets

CONSTANTS
    Bricks,
    Transports,
    None,
    MaxCommandsPerSec,      \* maxCommandsPerSec
    Window,                 \* the 1000 ms of the sliding window, in ticks
    SwitchCooldown,         \* switchCooldownMs, in ticks
    DegradationThreshold,   \* degradationThreshold
    MaxInFlight,            \* bound: commands let through without a result yet
    MaxForgets              \* bound: forget() calls of a brick within a window

ASSUME GuardAssumption ==
    /\ None \notin Transports /\ None \notin Nat
    /\ MaxCommandsPerSec \in Nat \ {0}
    /\ Window \in Nat \ {0}
    /\ SwitchCooldown \in Nat
    /\ DegradationThreshold \in Nat \ {0}
    /\ MaxInFlight \in Nat /\ MaxForgets \in Nat

VARIABLES
    bricks,     \* bricks[b]: the BrickGuardState of b, or Absent
    inFlight,   \* inFlight[b]: commands let through whose result is not recorded
    \* history
    told,       \* told[b]: what onDegradationChange said last
    failed,     \* failed[b]: how many of the last results were failures in a row,
                \* since the last forget() and up to the threshold
    sent,       \* sent[b]: ages of the commands let through, within the window
    forgotten,  \* forgotten[b]: ages of the forget() calls, within the window
    lastUse     \* lastUse[b]: the transport used last and how long it has rested

history == <<told, failed, sent, forgotten, lastUse>>
vars == <<bricks, inFlight, history>>

Ages == 0..Window

\* sinceClose is None while lastCloseTs is 0; consecutiveFailures stops at the
\* threshold, beyond which the code tells no values apart.
GuardState ==
    [activeTransport : Transports \cup {None},
     sinceClose : 0..SwitchCooldown \cup {None},
     commandTimestamps : Seq(Ages),
     consecutiveFailures : 0..DegradationThreshold,
     degraded : BOOLEAN]
State(active, since, timestamps, failures, degraded) ==
    [activeTransport |-> active, sinceClose |-> since, commandTimestamps |-> timestamps,
     consecutiveFailures |-> failures, degraded |-> degraded]
Fresh == State(None, None, <<>>, 0, FALSE)
Absent == [absent |-> TRUE]

GetOrCreate(b) == IF bricks[b] = Absent THEN Fresh ELSE bricks[b]
IsDegraded(b) == bricks[b] # Absent /\ bricks[b].degraded

Use == [transport : Transports \cup {None}, rested : 0..SwitchCooldown]
NoUse == [transport |-> None, rested |-> SwitchCooldown]

RecordType ==
    /\ bricks \in [Bricks -> GuardState \cup {Absent}]
    /\ inFlight \in [Bricks -> Nat]
    /\ told \in [Bricks -> BOOLEAN]
    /\ sent \in [Bricks -> Seq(Ages)]
    /\ forgotten \in [Bricks -> Seq(Ages)]
    /\ lastUse \in [Bricks -> Use]

TypeOK == RecordType /\ failed \in [Bricks -> 0..DegradationThreshold]

Init ==
    /\ bricks = [b \in Bricks |-> Absent]
    /\ inFlight = [b \in Bricks |-> 0]
    /\ told = [b \in Bricks |-> FALSE]
    /\ failed = [b \in Bricks |-> 0]
    /\ sent = [b \in Bricks |-> <<>>]
    /\ forgotten = [b \in Bricks |-> <<>>]
    /\ lastUse = [b \in Bricks |-> NoUse]

-----------------------------------------------------------------------------
(* Transports.                                                              *)

\* Mutant of MayOpen: the rest after a close is not looked at.
MayOpenAtOnce(s, t) == s.activeTransport \in {None, t}

\* openTransport() gets past its two refusals.
MayOpen(s, t) ==
    \/ s.activeTransport = t
    \/ s.activeTransport = None /\ s.sinceClose \in {None, SwitchCooldown}

OpenTransport(b, t) ==
    LET s == GetOrCreate(b) IN
    /\ MayOpen(s, t)
    /\ bricks' = [bricks EXCEPT ![b] =
           State(t, s.sinceClose, s.commandTimestamps, s.consecutiveFailures, s.degraded)]
    /\ lastUse' = [lastUse EXCEPT ![b] = [transport |-> t, rested |-> 0]]
    /\ UNCHANGED <<inFlight, told, failed, sent, forgotten>>

\* It throws, and may have created the state.
OpenRefused(b, t) ==
    /\ ~MayOpen(GetOrCreate(b), t)
    /\ bricks' = [bricks EXCEPT ![b] = GetOrCreate(b)]
    /\ UNCHANGED <<inFlight, history>>

\* closeTransport() restarts the rest even when nothing was open.
CloseTransport(b) ==
    LET s == bricks[b] IN
    /\ s # Absent
    /\ bricks' = [bricks EXCEPT ![b] =
           State(None, 0, s.commandTimestamps, s.consecutiveFailures, s.degraded)]
    /\ UNCHANGED <<inFlight, history>>

-----------------------------------------------------------------------------
(* Commands.                                                                *)

\* The ages below a limit, in their order.  (SelectSeq, in a form that the
\* provers can expand.)
Within(ages, limit) ==
    LET kept == {i \in DOMAIN ages : ages[i] < limit}
    IN  [n \in 1..Cardinality(kept) |->
            ages[CHOOSE i \in kept : Cardinality({h \in kept : h < i}) = n - 1]]

\* Mutant of Recent: a command sent just now is forgotten with the old ones.
RecentOffByOne(timestamps) == Within(timestamps, Window - 1)

\* commandTimestamps.filter((ts) => ts > windowStart)
Recent(timestamps) == Within(timestamps, Window)

LetThrough(b) ==
    LET s == GetOrCreate(b)
        recent == Recent(s.commandTimestamps)
    IN
    /\ inFlight[b] < MaxInFlight
    /\ ~s.degraded
    /\ Len(recent) < MaxCommandsPerSec
    /\ bricks' = [bricks EXCEPT ![b] =
           State(s.activeTransport, s.sinceClose, Append(recent, 0),
                 s.consecutiveFailures, FALSE)]
    /\ inFlight' = [inFlight EXCEPT ![b] = @ + 1]
    /\ sent' = [sent EXCEPT ![b] = Append(@, 0)]
    /\ UNCHANGED <<told, failed, forgotten, lastUse>>

\* Mutant of Throttle: a refused command counts like one that was sent.
ThrottleCounting(b) ==
    LET s == GetOrCreate(b)
        recent == Recent(s.commandTimestamps)
    IN
    /\ ~s.degraded
    /\ Len(recent) >= MaxCommandsPerSec
    /\ bricks' = [bricks EXCEPT ![b] =
           State(s.activeTransport, s.sinceClose, Append(Tail(recent), 0),
                 s.consecutiveFailures, FALSE)]
    /\ UNCHANGED <<inFlight, history>>

\* checkRateLimit() throws: the window is full, or the brick is degraded.
Throttle(b) ==
    LET s == GetOrCreate(b)
        recent == Recent(s.commandTimestamps)
    IN
    /\ ~s.degraded
    /\ Len(recent) >= MaxCommandsPerSec
    /\ bricks' = [bricks EXCEPT ![b] =
           State(s.activeTransport, s.sinceClose, recent, s.consecutiveFailures, FALSE)]
    /\ UNCHANGED <<inFlight, history>>

\* Mutant of RecordSuccess: only a degraded brick's counter is reset.
RecordSuccessKeeping(b) ==
    LET s == GetOrCreate(b) IN
    /\ inFlight[b] > 0
    /\ inFlight' = [inFlight EXCEPT ![b] = @ - 1]
    /\ bricks' = [bricks EXCEPT ![b] =
           State(s.activeTransport, s.sinceClose, s.commandTimestamps,
                 IF s.degraded THEN 0 ELSE s.consecutiveFailures, FALSE)]
    /\ told' = [told EXCEPT ![b] = IF s.degraded THEN FALSE ELSE @]
    /\ failed' = [failed EXCEPT ![b] = 0]
    /\ UNCHANGED <<sent, forgotten, lastUse>>

RecordSuccess(b) ==
    LET s == GetOrCreate(b) IN
    /\ inFlight[b] > 0
    /\ inFlight' = [inFlight EXCEPT ![b] = @ - 1]
    /\ bricks' = [bricks EXCEPT ![b] =
           State(s.activeTransport, s.sinceClose, s.commandTimestamps, 0, FALSE)]
    /\ told' = [told EXCEPT ![b] = IF s.degraded THEN FALSE ELSE @]
    /\ failed' = [failed EXCEPT ![b] = 0]
    /\ UNCHANGED <<sent, forgotten, lastUse>>

Degrades(s, failures) == ~s.degraded /\ failures >= DegradationThreshold

RecordFailure(b) ==
    LET s == GetOrCreate(b)
        failures == IF s.consecutiveFailures = DegradationThreshold THEN DegradationThreshold
                    ELSE s.consecutiveFailures + 1
    IN
    /\ inFlight[b] > 0
    /\ inFlight' = [inFlight EXCEPT ![b] = @ - 1]
    /\ bricks' = [bricks EXCEPT ![b] =
           State(s.activeTransport, s.sinceClose, s.commandTimestamps, failures,
                 s.degraded \/ Degrades(s, failures))]
    /\ told' = [told EXCEPT ![b] = @ \/ Degrades(s, failures)]
    /\ failed' = [failed EXCEPT ![b] = IF @ = DegradationThreshold THEN @ ELSE @ + 1]
    /\ UNCHANGED <<sent, forgotten, lastUse>>

-----------------------------------------------------------------------------

\* forget() of a brick, or dispose(), which forgets every brick: neither calls
\* onDegradationChange.
ForgetAll(gone) ==
    /\ \A b \in gone : Len(forgotten[b]) < MaxForgets
    /\ bricks' = [b \in Bricks |-> IF b \in gone THEN Absent ELSE bricks[b]]
    /\ forgotten' = [b \in Bricks |->
           IF b \in gone THEN Append(forgotten[b], 0) ELSE forgotten[b]]
    /\ lastUse' = [b \in Bricks |-> IF b \in gone THEN NoUse ELSE lastUse[b]]
    /\ failed' = [b \in Bricks |-> IF b \in gone THEN 0 ELSE failed[b]]
    /\ UNCHANGED <<inFlight, told, sent>>

Forget(b) == ForgetAll({b})
Dispose == ForgetAll(Bricks)

-----------------------------------------------------------------------------

Older(bound, age) == IF age < bound THEN age + 1 ELSE bound
Aged(ages) == [i \in DOMAIN ages |-> Older(Window, ages[i])]

Tick ==
    /\ bricks' = [b \in Bricks |->
           IF bricks[b] = Absent THEN Absent
           ELSE State(bricks[b].activeTransport,
                      IF bricks[b].sinceClose = None THEN None
                      ELSE Older(SwitchCooldown, bricks[b].sinceClose),
                      Aged(bricks[b].commandTimestamps),
                      bricks[b].consecutiveFailures, bricks[b].degraded)]
    /\ sent' = [b \in Bricks |-> Within(Aged(sent[b]), Window)]
    /\ forgotten' = [b \in Bricks |-> Within(Aged(forgotten[b]), Window)]
    /\ lastUse' = [b \in Bricks |->
           IF bricks[b] # Absent /\ bricks[b].activeTransport # None THEN lastUse[b]
           ELSE [lastUse[b] EXCEPT !.rested = Older(SwitchCooldown, @)]]
    /\ UNCHANGED <<inFlight, told, failed>>

Next ==
    \/ \E b \in Bricks, t \in Transports : OpenTransport(b, t) \/ OpenRefused(b, t)
    \/ \E b \in Bricks :
           \/ CloseTransport(b)
           \/ LetThrough(b)
           \/ Throttle(b)
           \/ RecordSuccess(b)
           \/ RecordFailure(b)
           \/ Forget(b)
    \/ Dispose
    \/ Tick

\* Time passes.
Spec == Init /\ [][Next]_vars /\ WF_vars(Tick)
-----------------------------------------------------------------------------
(* Properties.                                                              *)

\* In any window at most MaxCommandsPerSec commands were let through, however
\* the calls fall on its ends; each forget() within it lets as many again
\* ("Command rate limiting (<=10 cmd/s sliding window)", transportGuard.ts:7).
RateHonoured ==
    \A b \in Bricks : Len(sent[b]) <= MaxCommandsPerSec * (1 + Len(forgotten[b]))

\* Between two transports of a brick that was not forgotten lies the cooldown,
\* whatever is closed twice, refused or reopened in between ("One active
\* transport per brick", "Transport switch cooldown", :5-6).
SwitchesRested ==
    [][\A b \in Bricks :
           lastUse'[b].transport \notin {None, lastUse[b].transport} =>
               lastUse[b].rested = SwitchCooldown]_vars

\* A brick is degraded exactly while its last DegradationThreshold results since
\* the last forget() were all failures, whichever commands they answer late and
\* whatever was recorded before, and never without the listener having been told
\* (:24).  failed counts the results on its own, not as the guard does.
DegradedByFailures ==
    \A b \in Bricks :
        /\ IsDegraded(b) <=> failed[b] = DegradationThreshold
        /\ IsDegraded(b) => told[b]

\* A caller that keeps asking while it is throttled is let through again: what
\* was refused does not count.
NeverLockedOut ==
    \A b \in Bricks : []<>(\/ IsDegraded(b)
                          \/ Len(Recent(GetOrCreate(b).commandTimestamps)) < MaxCommandsPerSec)
=============================================================================
