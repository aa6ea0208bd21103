-------------------------- MODULE BtConnectionQueue --------------------------
(***************************************************************************)
(* The queue that serialises RFCOMM connections                            *)
(* (src/src/transports/btConnectionQueue.ts) as operators on a record.     *)
(*                                                                         *)
(* Timestamps are kept as the time since them, up to the longest wait the  *)
(* code derives from them: beyond it computeDelay() returns the same.      *)
(* consecutiveErrors stops at MaxErrors, where the backoff has reached     *)
(* BackoffMax.                                                             *)
(***************************************************************************)
EXTENDS Integers, Sequences

CONSTANTS
    MaxConcurrent,              \* maxConcurrent
    InterConnectionCooldown,    \* interConnectionCooldownMs, in ticks
    ErrorRecoveryCooldown,      \* errorRecoveryCooldownMs
    BackoffMax,                 \* backoffMax
    MaxErrors,                  \* bound: errors after which the backoff is BackoffMax
    None

ASSUME QueueAssumption ==
    /\ MaxConcurrent \in Nat \ {0}
    /\ InterConnectionCooldown \in Nat
    /\ ErrorRecoveryCooldown \in Nat
    /\ BackoffMax \in Nat
    /\ MaxErrors \in Nat \ {0}
    /\ None \notin Nat

ASSUME BackoffAssumption == ErrorRecoveryCooldown * 2 ^ (MaxErrors - 1) >= BackoffMax

AtMost(bound, n) == IF n \in 0..bound THEN n ELSE bound

Record(active, pending, sinceRelease, sinceError, errors, drainIn) ==
    [active |-> active, pending |-> pending, sinceRelease |-> sinceRelease,
     sinceError |-> sinceError, errors |-> errors, drainIn |-> drainIn]

QueueType(Entry) ==
    [active : 0..MaxConcurrent, pending : Seq(Entry),
     sinceRelease : 0..InterConnectionCooldown, sinceError : 0..BackoffMax,
     errors : 0..MaxErrors, drainIn : Nat \cup {None}]

NewQueue == Record(0, <<>>, InterConnectionCooldown, BackoffMax, 0, None)

Backoff(errors) ==
    IF errors = 0 THEN 0
    ELSE AtMost(BackoffMax, ErrorRecoveryCooldown * 2 ^ (errors - 1))

\* Mutant of ComputeDelay: recorded errors are not looked at.
ComputeDelayWithoutBackoff(q) ==
    LET rest == InterConnectionCooldown - q.sinceRelease
    IN IF rest > 0 THEN rest ELSE 0

ComputeDelay(q) ==
    LET rest == InterConnectionCooldown - q.sinceRelease
        penalty == Backoff(q.errors) - q.sinceError
    IN IF rest >= penalty THEN IF rest > 0 THEN rest ELSE 0
       ELSE IF penalty > 0 THEN penalty ELSE 0

ArmTimer(q) == Record(q.active, q.pending, q.sinceRelease, q.sinceError, q.errors,
                      ComputeDelay(q))

\* Mutant of Drain: activeCount <= maxConcurrent.
DrainOneTooMany(q) ==
    LET n == AtMost(MaxConcurrent + 1 - q.active, Len(q.pending))
    IN IF n <= 0 THEN q
       ELSE IF ComputeDelay(q) > 0 THEN ArmTimer(q)
       ELSE Record(q.active + n, SubSeq(q.pending, n + 1, Len(q.pending)),
                   q.sinceRelease, q.sinceError, q.errors, q.drainIn)

\* The loop of drain(): the delay is the same in every round, so the first
\* entries get the free slots or none does.
Drain(q) ==
    LET free == MaxConcurrent - q.active
        n == AtMost(free, Len(q.pending))
    IN IF n <= 0 THEN q
       ELSE IF ComputeDelay(q) > 0 THEN ArmTimer(q)
       ELSE Record(q.active + n, SubSeq(q.pending, n + 1, Len(q.pending)),
                   q.sinceRelease, q.sinceError, q.errors, q.drainIn)

\* Mutant of ScheduleDrain: nothing is scheduled while a delay applies.
ScheduleDrainWithoutTimer(q) ==
    IF q.drainIn # None \/ ComputeDelay(q) > 0 THEN q ELSE Drain(q)

ScheduleDrain(q) ==
    IF q.drainIn # None THEN q
    ELSE IF ComputeDelay(q) <= 0 THEN Drain(q)
    ELSE ArmTimer(q)

Acquire(q, entry) ==
    ScheduleDrain(Record(q.active, Append(q.pending, entry), q.sinceRelease,
                         q.sinceError, q.errors, q.drainIn))

\* Mutant of Release: lastReleaseTs is not set.
ReleaseUndated(q, n) ==
    IF n = 0 THEN q
    ELSE ScheduleDrain(Record(IF q.active > n THEN q.active - n ELSE 0, q.pending,
                              q.sinceRelease, q.sinceError, q.errors, q.drainIn))

\* Mutant of Release: the slot is freed, the queue is not drained.
ReleaseWithoutDrain(q, n) ==
    IF n = 0 THEN q
    ELSE Record(IF q.active > n THEN q.active - n ELSE 0, q.pending,
                0, q.sinceError, q.errors, q.drainIn)

\* n calls of release() in a row: after the first the timer is armed or the
\* free slots are given out, and the others find the same delay.
Release(q, n) ==
    IF n = 0 THEN q
    ELSE ScheduleDrain(Record(IF q.active > n THEN q.active - n ELSE 0, q.pending,
                              0, q.sinceError, q.errors, q.drainIn))

RecordSuccess(q) ==
    Record(q.active, q.pending, q.sinceRelease, q.sinceError, 0, q.drainIn)

RecordError(q) ==
    Record(q.active, q.pending, q.sinceRelease, 0, AtMost(MaxErrors, q.errors + 1), q.drainIn)

DisposeQueue(q) ==
    Record(q.active, <<>>, q.sinceRelease, q.sinceError, q.errors, None)

TimerFires(q) ==
    Drain(Record(q.active, q.pending, q.sinceRelease, q.sinceError, q.errors, None))

\* A tick of the clock.  A timer that is due waits for the event loop.
Later(q) ==
    Record(q.active, q.pending, AtMost(InterConnectionCooldown, q.sinceRelease + 1),
           AtMost(BackoffMax, q.sinceError + 1), q.errors,
           IF q.drainIn = None \/ q.drainIn = 0 THEN q.drainIn ELSE q.drainIn - 1)

\* The entries given a slot on the way from one pending list to a later one.
Granted(before, after) == {before[i] : i \in 1..(Len(before) - Len(after))}
=============================================================================
