-------------------------- MODULE SppExchangeProofs --------------------------
(***************************************************************************)
(* The command queue alone, for any finite set of commands; then the whole *)
(* way of a command, for any adapters, any kinds of commands, and message  *)
(* counters that wrap as early as they like.                               *)
(***************************************************************************)
EXTENDS SppExchange, CommandQueueOpsProofs, SequenceTheorems

-----------------------------------------------------------------------------
(* The inductive invariant.  NobodyForgotten is inductive only if a command  *)
(* is held in one place: Advance() of a queue that held it twice would        *)
(* settle it and keep it.                                                     *)

Queued(p) == {p.queue[i] : i \in 1..Len(p.queue)}

HeldOnce ==
    /\ \A i, j \in 1..Len(q.queue) : q.queue[i] = q.queue[j] => i = j
    /\ q.current \notin Queued(q)

\* drain() is suspended on a settled promise only with a command in hand.
Resumable == settled # "none" => q.current \in Command /\ running = {}

IInv == TypeOK /\ Serialized /\ NobodyForgotten /\ HeldOnce /\ Resumable

\* The queue after Advance: nothing is lost, the head is in hand.
LEMMA AdvanceHolds ==
    ASSUME NEW p \in QueueType(Command),
           \A i, j \in 1..Len(p.queue) : p.queue[i] = p.queue[j] => i = j
    PROVE  LET n == Advance(p) IN
           /\ \A i, j \in 1..Len(n.queue) : n.queue[i] = n.queue[j] => i = j
           /\ n.current \notin Queued(n)
           /\ Queued(p) = IF n.current = Idle THEN Queued(n) ELSE Queued(n) \cup {n.current}
<1> DEFINE n == Advance(p)
<1>1. p.queue \in Seq(Command) /\ Idle \notin Command
  BY CommandAssumption DEF QueueType
<1>2. CASE p.queue # <<>> /\ ~p.disposed
  <2>1. n.current = Head(p.queue) /\ n.queue = Tail(p.queue)
    BY <1>2 DEF Advance, QueueType
  <2>2. /\ Len(p.queue) \in Nat \ {0}
        /\ Len(n.queue) = Len(p.queue) - 1
        /\ n.current = p.queue[1]
        /\ n.current \in Command
    BY <1>1, <1>2, <2>1
  <2>3. \A i \in 1..Len(n.queue) : n.queue[i] = p.queue[i + 1] /\ i + 1 \in 1..Len(p.queue)
    BY <1>1, <1>2, <2>1, <2>2
  <2>4. \A i, j \in 1..Len(n.queue) : n.queue[i] = n.queue[j] => i = j
    BY <2>2, <2>3
  <2>5. n.current \notin Queued(n)
    BY <2>2, <2>3 DEF Queued
  <2>6. \A i \in 1..Len(p.queue) :
           i = 1 \/ (i - 1 \in 1..Len(n.queue) /\ n.queue[i - 1] = p.queue[i])
    BY <2>2, <2>3
  <2>7. 1 \in 1..Len(p.queue)
    BY <2>2
  <2>8. Queued(p) \subseteq Queued(n) \cup {n.current}
    BY <2>2, <2>6 DEF Queued
  <2>9. Queued(n) \cup {n.current} \subseteq Queued(p)
    BY <2>2, <2>3, <2>7 DEF Queued
  <2>10. n.current # Idle
    BY <1>1, <2>2
  <2> QED BY <2>4, <2>5, <2>8, <2>9, <2>10
<1>3. CASE ~(p.queue # <<>> /\ ~p.disposed)
  <2>1. n.current = Idle /\ n.queue = p.queue
    BY <1>3 DEF Advance, QueueType
  <2>2. \A i \in 1..Len(p.queue) : p.queue[i] \in Command
    BY <1>1
  <2> QED BY <1>1, <2>1, <2>2 DEF Queued
<1> QED BY <1>2, <1>3

\* Nothing is held twice and no waiting command is forgotten, expressed with
\* the set of queued commands.
LEMMA ForgottenAsSet ==
    NobodyForgotten <=>
        \A c \in Command : outcome[c] = "pending" <=> c = q.current \/ c \in Queued(q)
BY DEF NobodyForgotten, Queued

\* A queue object with one more command at its end.
LEMMA AppendHolds ==
    ASSUME NEW p \in QueueType(Command), NEW c \in Command, c \notin Queued(p),
           \A i, j \in 1..Len(p.queue) : p.queue[i] = p.queue[j] => i = j
    PROVE  LET n == [p EXCEPT !.queue = Append(p.queue, c)] IN
           /\ n \in QueueType(Command)
           /\ n.current = p.current
           /\ \A i, j \in 1..Len(n.queue) : n.queue[i] = n.queue[j] => i = j
           /\ Queued(n) = Queued(p) \cup {c}
<1> DEFINE n == [p EXCEPT !.queue = Append(p.queue, c)]
<1>1. p.queue \in Seq(Command) /\ Len(p.queue) \in Nat
  BY DEF QueueType
<1>2. n.queue = Append(p.queue, c) /\ n.current = p.current /\ n \in QueueType(Command)
  BY DEF QueueType
<1>3. /\ Len(n.queue) = Len(p.queue) + 1
      /\ n.queue[Len(p.queue) + 1] = c
      /\ \A i \in 1..Len(p.queue) : n.queue[i] = p.queue[i]
  BY <1>1, <1>2
<1>4. \A i \in 1..Len(n.queue) : i \in 1..Len(p.queue) \/ i = Len(p.queue) + 1
  BY <1>1, <1>3
<1>5. \A i \in 1..Len(p.queue) : p.queue[i] # c
  BY DEF Queued
<1>6. \A i, j \in 1..Len(n.queue) : n.queue[i] = n.queue[j] => i = j
  BY <1>3, <1>4, <1>5
<1>7. \A i \in 1..Len(p.queue) : i \in 1..Len(n.queue)
  BY <1>1, <1>3
<1>8. Len(p.queue) + 1 \in 1..Len(n.queue)
  BY <1>1, <1>3
<1>9. Queued(n) \subseteq Queued(p) \cup {c}
  BY <1>3, <1>4 DEF Queued
<1>10. Queued(p) \cup {c} \subseteq Queued(n)
  BY <1>3, <1>7, <1>8 DEF Queued
<1> QED BY <1>2, <1>6, <1>9, <1>10

LEMMA InitIInv == Init => IInv
<1> SUFFICES ASSUME Init PROVE IInv
  OBVIOUS
<1>1. q.queue = <<>> /\ q.current = Idle /\ q \in QueueType(Command)
  BY NewQueueType DEF Init, NewQueue
<1>2. TypeOK
  BY <1>1 DEF Init, TypeOK, Outcomes
<1>3. NobodyForgotten
  BY <1>1, CommandAssumption DEF Init, NobodyForgotten
<1> QED
  BY <1>1, <1>2, <1>3 DEF Init, IInv, Serialized, HeldOnce, Resumable, Queued

\* drainWith() and dispose(): the queue empties, its commands are rejected.
LEMMA EmptyingKeepsIInv ==
    ASSUME IInv,
           q' \in QueueType(Command), q'.queue = <<>>, q'.current = q.current,
           outcome' = RejectQueued(outcome),
           UNCHANGED <<running, settled>>
    PROVE  IInv'
<1> USE DEF IInv
<1>1. TypeOK'
  BY DEF TypeOK, RejectQueued, Outcomes
<1>2. \A c \in Command : outcome'[c] = IF c \in Queued(q) THEN "rejected" ELSE outcome[c]
  BY DEF RejectQueued, Queued
<1>3. \A c \in Command : outcome[c] = "pending" <=> c = q.current \/ c \in Queued(q)
  BY ForgottenAsSet
<1>4. q.current \notin Queued(q)
  BY DEF HeldOnce
<1>5. NobodyForgotten'
  <2>1. \A c \in Command : outcome'[c] = "pending" <=> c = q'.current
    BY <1>2, <1>3, <1>4
  <2> QED BY <2>1 DEF NobodyForgotten
<1>6. HeldOnce'
  BY DEF HeldOnce, Queued
<1> QED BY <1>1, <1>5, <1>6 DEF Serialized, Resumable

LEMMA NextIInv == IInv /\ [Next]_vars => IInv'
<1> SUFFICES ASSUME IInv, [Next]_vars PROVE IInv'
  OBVIOUS
<1>a. /\ q \in QueueType(Command)
      /\ \A i, j \in 1..Len(q.queue) : q.queue[i] = q.queue[j] => i = j
      /\ q.current \notin Queued(q)
      /\ q.current \in Command \cup {Idle}
  BY DEF IInv, TypeOK, HeldOnce, QueueType
<1>b. \A c \in Command : outcome[c] = "pending" <=> c = q.current \/ c \in Queued(q)
  BY ForgottenAsSet DEF IInv
<1>1. CASE SetsExecutor
  <2>1. q' \in QueueType(Command) /\ q'.queue = q.queue /\ q'.current = q.current
    BY <1>1, <1>a, OperationsType DEF SetsExecutor, Becomes, SetExecutor, QueueType
  <2>2. UNCHANGED <<running, outcome, settled>>
    BY <1>1 DEF SetsExecutor, Becomes
  <2> QED BY <2>1, <2>2 DEF IInv, TypeOK, Serialized, NobodyForgotten, HeldOnce, Resumable, Queued
<1>2. CASE DrainsWith
  <2>1. q' \in QueueType(Command) /\ q'.queue = <<>> /\ q'.current = q.current
    BY <1>2, <1>a, OperationsType DEF DrainsWith, Becomes, DrainWith, QueueType
  <2> QED BY <1>2, <2>1, EmptyingKeepsIInv DEF DrainsWith, Becomes
<1>3. CASE Dispose
  <2>1. q' \in QueueType(Command)
    BY <1>3, <1>a, OperationsType DEF Dispose, Becomes
  <2>2. q'.queue = <<>> /\ q'.current = q.current
    BY <1>3, <1>a DEF Dispose, Becomes, DisposeQueue, DrainWith, QueueType
  <2> QED BY <1>3, <2>1, <2>2, EmptyingKeepsIInv DEF Dispose, Becomes
<1>4. CASE ExecutorSettles
  <2>1. q.current \in Command
    BY <1>4 DEF ExecutorSettles, IInv, TypeOK
  <2>2. running' = {}
    BY <1>4 DEF ExecutorSettles, IInv, Serialized
  <2> QED
    BY <1>4, <2>1, <2>2 DEF ExecutorSettles, IInv, TypeOK, Serialized, NobodyForgotten,
                            HeldOnce, Resumable, Queued
<1>5. CASE DrainResumes
  <2> DEFINE n == Advance(q)
  <2>1. q.current \in Command /\ running = {} /\ q.current # Idle
    BY <1>5, CommandAssumption DEF DrainResumes, IInv, Resumable
  <2>2. q' = n /\ n \in QueueType(Command) /\ n.current \in Command \cup {Idle}
    BY <1>5, <1>a, AdvanceType DEF DrainResumes, Becomes, QueueType
  <2>3. /\ running' = IF n.current = Idle THEN {} ELSE {n.current}
        /\ outcome' = [outcome EXCEPT ![q.current] = settled]
        /\ settled' = "none" /\ settled \in {"resolved", "rejected"}
    BY <1>5, <2>1 DEF DrainResumes, Becomes, IInv, TypeOK
  <2>4. /\ \A i, j \in 1..Len(n.queue) : n.queue[i] = n.queue[j] => i = j
        /\ n.current \notin Queued(n)
        /\ Queued(q) = IF n.current = Idle THEN Queued(n) ELSE Queued(n) \cup {n.current}
    BY <1>a, AdvanceHolds
  <2>5. TypeOK'
    <3>1. running' \subseteq Command
      BY <2>2, <2>3 DEF IInv, TypeOK
    <3>2. outcome' \in [Command -> Outcomes]
      BY <2>3 DEF IInv, TypeOK, Outcomes
    <3> QED BY <2>2, <2>3, <3>1, <3>2 DEF IInv, TypeOK
  <2>6. NobodyForgotten'
    <3>1. \A c \in Command : c \in Queued(q) <=> c \in Queued(n) \/ c = n.current
      BY <2>4, CommandAssumption
    <3>2. \A c \in Command : outcome'[c] = "pending" <=> c \in Queued(q)
      BY <1>a, <1>b, <2>1, <2>3 DEF IInv, TypeOK
    <3>3. \A c \in Command : outcome'[c] = "pending" <=> c = n.current \/ c \in Queued(n)
      BY <3>1, <3>2
    <3> QED BY <2>2, <3>3 DEF NobodyForgotten, Queued
  <2> QED
    BY <2>2, <2>3, <2>4, <2>5, <2>6 DEF IInv, Serialized, HeldOnce, Resumable, Queued
<1>6. ASSUME NEW c \in Command, SendRefused(c) PROVE IInv'
  BY <1>6 DEF SendRefused, IInv, TypeOK, Outcomes, Serialized, NobodyForgotten, HeldOnce,
              Resumable, Queued
<1>7. ASSUME NEW c \in Command, SendAccepted(c) PROVE IInv'
  <2> DEFINE pushed == [q EXCEPT !.queue = Append(q.queue, c)]
             n == Push(q, c)
  <2>1. c # q.current /\ c \notin Queued(q) /\ c # Idle
    BY <1>7, <1>b, CommandAssumption DEF SendAccepted
  <2>2. /\ pushed \in QueueType(Command)
        /\ pushed.current = q.current
        /\ \A i, j \in 1..Len(pushed.queue) : pushed.queue[i] = pushed.queue[j] => i = j
        /\ Queued(pushed) = Queued(q) \cup {c}
    BY <1>a, <2>1, AppendHolds
  <2>3. /\ q' = n
        /\ running' = IF q.current = Idle THEN running \cup {n.current} ELSE running
        /\ outcome' = [outcome EXCEPT ![c] = "pending"]
        /\ settled' = settled
    BY <1>7 DEF SendAccepted, Becomes
  <2>4. CASE q.current = Idle
    <3>1. n = Advance(pushed) /\ n \in QueueType(Command)
      BY <2>2, <2>4, AdvanceType DEF Push
    <3>2. /\ \A i, j \in 1..Len(n.queue) : n.queue[i] = n.queue[j] => i = j
          /\ n.current \notin Queued(n)
          /\ Queued(pushed) = IF n.current = Idle THEN Queued(n) ELSE Queued(n) \cup {n.current}
      BY <2>2, <3>1, AdvanceHolds
    <3>3. n.current \in Command
      <4>1. pushed.queue = Append(q.queue, c) /\ q.queue \in Seq(Command)
            /\ pushed.disposed = q.disposed
        BY <1>a DEF QueueType
      <4>2. pushed.queue # <<>> /\ ~pushed.disposed /\ pushed.queue \in Seq(Command)
        BY <1>7, <4>1 DEF SendAccepted, Accepts
      <4>3. n.current = Head(pushed.queue)
        BY <2>2, <3>1, <4>2 DEF Advance, QueueType
      <4> QED BY <4>2, <4>3
    <3>4. running = {} /\ settled = "none"
      BY <2>4, CommandAssumption DEF IInv, Serialized, TypeOK, Resumable
    <3>5. TypeOK'
      BY <2>3, <2>4, <3>1, <3>3, <3>4 DEF IInv, TypeOK, Outcomes
    <3>6. NobodyForgotten'
      <4>1. \A d \in Command : outcome'[d] = "pending" <=> d \in Queued(q) \cup {c}
        BY <1>b, <2>3, <2>4, CommandAssumption DEF IInv, TypeOK
      <4>2. \A d \in Command : outcome'[d] = "pending" <=> d = n.current \/ d \in Queued(n)
        BY <2>2, <3>2, <3>3, <4>1, CommandAssumption
      <4> QED BY <2>3, <4>2 DEF NobodyForgotten, Queued
    <3> QED
      BY <2>3, <2>4, <3>2, <3>3, <3>4, <3>5, <3>6 DEF IInv, Serialized, HeldOnce, Resumable, Queued
  <2>5. CASE q.current # Idle
    <3>1. n = pushed
      BY <2>5 DEF Push
    <3>2. TypeOK'
      BY <2>2, <2>3, <2>5, <3>1 DEF IInv, TypeOK, Outcomes
    <3>3. \A d \in Command : outcome'[d] = "pending" <=> d = n.current \/ d \in Queued(n)
      BY <1>b, <2>2, <2>3, <3>1 DEF IInv, TypeOK
    <3>4. NobodyForgotten'
      BY <2>3, <3>3 DEF NobodyForgotten, Queued
    <3> QED
      BY <1>a, <2>1, <2>2, <2>3, <2>5, <3>1, <3>2, <3>4
      DEF IInv, Serialized, HeldOnce, Resumable, Queued
  <2> QED BY <2>4, <2>5
<1>8. CASE UNCHANGED vars
  BY <1>8 DEF vars, IInv, TypeOK, Serialized, NobodyForgotten, HeldOnce, Resumable, Queued
<1> QED
  BY <1>1, <1>2, <1>3, <1>4, <1>5, <1>6, <1>7, <1>8 DEF Next

\* The executor never has two commands of one brick outstanding, and a
\* caller's promise is unsettled exactly while its command is queued or in
\* flight, for any set of commands.
THEOREM QueueCorrect == Spec => [](TypeOK /\ Serialized /\ NobodyForgotten)
<1>1. IInv => TypeOK /\ Serialized /\ NobodyForgotten
  BY DEF IInv
<1> QED BY InitIInv, NextIInv, <1>1, PTL DEF Spec

-----------------------------------------------------------------------------
(* The refinement of CommandLine.                                            *)

\* A queue at rest is empty, and the command in hand is with the executor
\* until its promise settles.
InHand ==
    /\ q.current = Idle => q.queue = <<>> /\ running = {}
    /\ q.current # Idle /\ settled = "none" => running = {q.current}
Emptied == q.disposed => q.queue = <<>>

LineInv == IInv /\ InHand /\ Emptied

LEMMA Behind ==
    ASSUME NEW S, NEW s \in Seq(S), NEW c \in S
    PROVE  LET t == <<c>> \o s IN
           /\ t # <<>> /\ Len(t) = Len(s) + 1 /\ Len(s) \in Nat
           /\ Head(t) = c /\ Tail(t) = s
           /\ \A i \in 1..Len(s) : t[i + 1] = s[i]
<1> DEFINE t == <<c>> \o s
<1>1. <<c>> \in Seq(S) /\ Len(<<c>>) = 1 /\ <<c>>[1] = c
  OBVIOUS
<1>2. /\ t \in Seq(S) /\ Len(t) = Len(s) + 1 /\ Len(s) \in Nat
      /\ \A i \in 1..(Len(s) + 1) : t[i] = IF i <= 1 THEN c ELSE s[i - 1]
  BY <1>1, ConcatProperties
<1> HIDE DEF t
<1>3. t # <<>> /\ Head(t) = c
  BY <1>2
<1>4. \A i \in 1..Len(s) : t[i + 1] = s[i]
  BY <1>2
<1>5. Tail(t) \in Seq(S) /\ Len(Tail(t)) = Len(s) /\ \A i \in 1..Len(s) : Tail(t)[i] = s[i]
  BY <1>2, <1>3, <1>4, HeadTailProperties
<1>6. Tail(t) = s
  BY <1>5, SeqEqual
<1> QED BY <1>2, <1>3, <1>4, <1>6 DEF t

LEMMA HeadBehind ==
    ASSUME NEW S, NEW s \in Seq(S), s # <<>>
    PROVE  <<Head(s)>> \o Tail(s) = s
<1>1. Head(s) \in S /\ Tail(s) \in Seq(S) /\ Len(Tail(s)) = Len(s) - 1 /\ Len(s) \in Nat
      /\ Head(s) = s[1] /\ \A i \in 1..Len(Tail(s)) : Tail(s)[i] = s[i + 1]
  BY HeadTailProperties, LenProperties
<1> DEFINE t == <<Head(s)>> \o Tail(s)
<1>2. /\ t \in Seq(S) /\ Len(t) = Len(s)
      /\ \A i \in 1..Len(s) : t[i] = IF i <= 1 THEN s[1] ELSE Tail(s)[i - 1]
  <2>1. <<Head(s)>> \in Seq(S) /\ Len(<<Head(s)>>) = 1 /\ <<Head(s)>>[1] = Head(s)
    BY <1>1
  <2> QED BY <1>1, <2>1, ConcatProperties
<1> HIDE DEF t
<1>3. \A i \in 1..Len(t) : t[i] = s[i]
  BY <1>1, <1>2
<1> QED BY <1>2, <1>3, SeqEqual DEF t

LEMMA BehindAppend ==
    ASSUME NEW S, NEW s \in Seq(S), NEW c \in S, NEW d \in S
    PROVE  <<c>> \o Append(s, d) = Append(<<c>> \o s, d)
<1> DEFINE before == <<c>>
           last == <<d>>
           joined == before \o s
<1>1. before \in Seq(S) /\ last \in Seq(S)
  OBVIOUS
<1>2. Append(s, d) = s \o last
  BY AppendIsConcat
<1> HIDE DEF before, last
<1>3. joined \in Seq(S)
  BY <1>1, ConcatProperties
<1>4. before \o (s \o last) = (before \o s) \o last
  BY <1>1, ConcatAssociative
<1> HIDE DEF joined
<1>5. Append(joined, d) = joined \o last
  BY <1>3, AppendIsConcat DEF last
<1> QED BY <1>2, <1>4, <1>5 DEF before, joined

LEMMA InitLine == Init => LineInv /\ Line!Init
<1> SUFFICES ASSUME Init PROVE LineInv /\ Line!Init
  OBVIOUS
<1>1. q.queue = <<>> /\ q.current = Idle /\ running = {}
  BY DEF Init, NewQueue
<1>2. LineInv
  BY <1>1, InitIInv, CommandAssumption DEF LineInv, InHand, Emptied
<1> QED BY <1>1, <1>2 DEF Init, Line!Init, Waiting, Desk

\* drainWith() and dispose(): those behind the command in hand are sent away.
LEMMA EmptyingIsSendAway ==
    ASSUME LineInv,
           q'.queue = <<>>, q'.current = q.current,
           outcome' = RejectQueued(outcome),
           UNCHANGED <<running, settled>>
    PROVE  /\ InHand'
           /\ Line!SendAway \/ UNCHANGED Line!lineVars
<1>1. InHand' /\ Desk' = Desk
  BY DEF LineInv, InHand, Desk
<1>2. q.queue \in Seq(Command) /\ q.current \in Command \cup {Idle} /\ Idle \notin Command
      /\ outcome \in [Command -> Outcomes]
  BY CommandAssumption DEF LineInv, IInv, TypeOK, QueueType
<1>3. CASE q.current = Idle
  <2>1. outcome' = outcome
    <3>1. Len(q.queue) = 0
      BY <1>3 DEF LineInv, InHand
    <3>2. \A c \in Command : RejectQueued(outcome)[c] = outcome[c]
      BY <3>1 DEF RejectQueued
    <3> QED BY <1>2, <3>2 DEF RejectQueued
  <2> QED BY <1>1, <1>3, <2>1 DEF Line!lineVars, Waiting
<1>4. CASE q.current # Idle
  <2> DEFINE t == <<q.current>> \o q.queue
  <2>1. /\ t # <<>> /\ Len(t) = Len(q.queue) + 1 /\ Len(q.queue) \in Nat
        /\ Head(t) = q.current
        /\ \A i \in 1..Len(q.queue) : t[i + 1] = q.queue[i]
    BY <1>2, <1>4, Behind
  <2> HIDE DEF t
  <2>2. Waiting = t /\ Waiting' = <<Head(t)>>
    BY <1>2, <1>4, <2>1 DEF Waiting, t
  <2>3. ASSUME NEW c \in Command
        PROVE  (\E i \in 1..Len(q.queue) : q.queue[i] = c) <=> (\E i \in 2..Len(t) : t[i] = c)
    <3>1. ASSUME NEW i \in 1..Len(q.queue), q.queue[i] = c PROVE \E j \in 2..Len(t) : t[j] = c
      BY <2>1, <3>1
    <3>2. ASSUME NEW j \in 2..Len(t), t[j] = c PROVE \E i \in 1..Len(q.queue) : q.queue[i] = c
      <4>1. j - 1 \in 1..Len(q.queue) /\ q.queue[j - 1] = t[j]
        BY <2>1
      <4> QED BY <3>2, <4>1
    <3> QED BY <3>1, <3>2
  <2>4. outcome' = [c \in Command |->
                       IF \E i \in 2..Len(t) : t[i] = c THEN "rejected" ELSE outcome[c]]
    BY <2>3 DEF RejectQueued
  <2> QED BY <1>1, <2>1, <2>2, <2>4 DEF Line!SendAway
<1> QED BY <1>1, <1>3, <1>4

LEMMA SettlesIsFinish ==
    ASSUME LineInv, ExecutorSettles
    PROVE  InHand' /\ Line!Finish
<1>1. q.current # Idle /\ running = {q.current} /\ settled = "none"
  BY CommandAssumption DEF LineInv, InHand, IInv, TypeOK, ExecutorSettles
<1>2. running' = {} /\ settled' # "none" /\ UNCHANGED <<q, outcome>>
  BY <1>1 DEF ExecutorSettles
<1>3. Desk = "busy" /\ Desk' = "done"
  BY <1>1, <1>2 DEF Desk
<1> QED BY <1>1, <1>2, <1>3 DEF Line!Finish, Waiting, InHand

LEMMA ResumesIsAnswer ==
    ASSUME LineInv, DrainResumes
    PROVE  InHand' /\ Line!Answer(settled)
<1> DEFINE n == Advance(q)
<1>1. /\ q.queue \in Seq(Command) /\ q.current \in Command /\ Idle \notin Command
      /\ q.current # Idle /\ running = {} /\ settled # "none"
      /\ q.disposed => q.queue = <<>>
  BY CommandAssumption DEF LineInv, IInv, TypeOK, QueueType, Resumable, Emptied, DrainResumes
<1>2. q' = n /\ settled' = "none" /\ outcome' = [outcome EXCEPT ![q.current] = settled]
      /\ running' = IF n.current # Idle THEN {n.current} ELSE {}
  BY <1>1 DEF DrainResumes, Becomes
<1>3. Desk = "done"
  BY <1>1 DEF Desk
<1>4. Waiting = <<q.current>> \o q.queue /\ Head(Waiting) = q.current /\ Tail(Waiting) = q.queue
  BY <1>1, Behind DEF Waiting
<1>5. CASE q.queue = <<>>
  <2>1. n.current = Idle /\ n.queue = <<>>
    BY <1>5 DEF Advance, LineInv, IInv, TypeOK, QueueType
  <2>2. Waiting' = <<>> /\ Desk' = "free" /\ InHand'
    BY <1>2, <2>1 DEF Waiting, Desk, InHand
  <2> QED BY <1>2, <1>3, <1>4, <1>5, <2>2 DEF Line!Answer
<1>6. CASE q.queue # <<>>
  <2>1. n.current = Head(q.queue) /\ n.queue = Tail(q.queue) /\ n.current \in Command
    BY <1>1, <1>6 DEF Advance, LineInv, IInv, TypeOK, QueueType
  <2>2. Waiting' = <<Head(q.queue)>> \o Tail(q.queue) /\ Desk' = "busy" /\ InHand'
    BY <1>1, <1>2, <2>1 DEF Waiting, Desk, InHand
  <2>3. Waiting' = q.queue
    BY <1>1, <1>6, <2>2, HeadBehind
  <2> QED BY <1>2, <1>3, <1>4, <1>6, <2>2, <2>3 DEF Line!Answer
<1> QED BY <1>5, <1>6

LEMMA AcceptedIsJoin ==
    ASSUME LineInv, NEW c \in Command, SendAccepted(c)
    PROVE  InHand' /\ Line!Join(c)
<1> DEFINE longer == Append(q.queue, c)
           pushed == [q EXCEPT !.queue = longer]
           n == Push(q, c)
<1>1. /\ q.queue \in Seq(Command) /\ q.current \in Command \cup {Idle}
      /\ c # Idle /\ ~q.disposed /\ q \in QueueType(Command)
  BY CommandAssumption DEF LineInv, IInv, TypeOK, QueueType, SendAccepted, Accepts
<1>2. /\ q' = n /\ settled' = settled /\ outcome' = [outcome EXCEPT ![c] = "pending"]
      /\ running' = IF q.current = Idle THEN running \cup {n.current} ELSE running
      /\ outcome[c] = "unsent"
  BY DEF SendAccepted, Becomes
<1>3. pushed.queue = longer /\ pushed.current = q.current /\ pushed.disposed = q.disposed
  BY <1>1 DEF QueueType
<1>4. CASE q.current = Idle
  <2>1. q.queue = <<>> /\ running = {} /\ settled = "none"
    BY <1>1, <1>4, CommandAssumption DEF LineInv, InHand, IInv, Resumable
  <2>2. longer = <<c>> /\ Head(longer) = c /\ Tail(longer) = <<>> /\ longer # <<>>
    BY <2>1
  <2>3. n = Advance(pushed)
    BY <1>4 DEF Push
  <2>4. n.current = c /\ n.queue = <<>>
    BY <1>1, <1>3, <2>2, <2>3 DEF Advance, QueueType
  <2>5. Waiting = <<>> /\ Waiting' = <<c>> \o <<>> /\ Desk' = "busy" /\ InHand'
    BY <1>1, <1>2, <1>4, <2>1, <2>4 DEF Waiting, Desk, InHand
  <2>6. Waiting' = Append(Waiting, c)
    BY <2>5
  <2> QED BY <1>2, <2>5, <2>6 DEF Line!Join
<1>5. CASE q.current # Idle
  <2>1. n.queue = longer /\ n.current = q.current
    BY <1>3, <1>5 DEF Push
  <2>2. Waiting = <<q.current>> \o q.queue /\ Waiting' = <<q.current>> \o longer
    BY <1>2, <1>5, <2>1 DEF Waiting
  <2>3. Waiting' = Append(Waiting, c) /\ Waiting # <<>>
    <3>1. <<q.current>> \o longer = Append(<<q.current>> \o q.queue, c)
      BY <1>1, <1>5, BehindAppend
    <3>2. <<q.current>> \o q.queue # <<>>
      BY <1>1, <1>5, Behind
    <3> QED BY <2>2, <3>1, <3>2
  <2>4. Desk' = Desk /\ InHand'
    BY <1>2, <1>5, <2>1 DEF Desk, InHand, LineInv
  <2> QED BY <1>2, <2>3, <2>4 DEF Line!Join
<1> QED BY <1>4, <1>5

LEMMA StepIsLineStep ==
    ASSUME LineInv, [Next]_vars
    PROVE  LineInv' /\ [Line!Next]_(Line!lineVars)
<1>1. IInv'
  BY NextIInv DEF LineInv
<1>t. q \in QueueType(Command) /\ q.queue \in Seq(Command)
  BY DEF LineInv, IInv, TypeOK, QueueType
<1>2. Emptied'
  <2>1. CASE SetsExecutor
    BY <1>t, <2>1 DEF LineInv, Emptied, SetsExecutor, Becomes, SetExecutor, QueueType
  <2>2. CASE DrainsWith
    BY <1>t, <2>2 DEF Emptied, DrainsWith, Becomes, DrainWith, QueueType
  <2>3. CASE Dispose
    BY <1>t, <2>3 DEF Emptied, Dispose, Becomes, DisposeQueue, DrainWith, QueueType
  <2>4. CASE ExecutorSettles
    BY <2>4 DEF LineInv, Emptied, ExecutorSettles
  <2>5. CASE DrainResumes
    <3>1. q' = Advance(q)
      BY <2>5 DEF DrainResumes, Becomes
    <3> QED BY <1>t, <3>1 DEF LineInv, Emptied, Advance, QueueType
  <2>6. ASSUME NEW c \in Command, SendRefused(c) PROVE Emptied'
    BY <2>6 DEF LineInv, Emptied, SendRefused
  <2>7. ASSUME NEW c \in Command, SendAccepted(c) PROVE Emptied'
    <3>1. q' = Push(q, c) /\ ~q.disposed
      BY <2>7 DEF SendAccepted, Becomes, Accepts
    <3> QED BY <1>t, <3>1 DEF Emptied, Push, Advance, QueueType
  <2>8. CASE UNCHANGED vars
    BY <2>8 DEF vars, LineInv, Emptied
  <2> QED BY <2>1, <2>2, <2>3, <2>4, <2>5, <2>6, <2>7, <2>8 DEF Next
<1>3. InHand' /\ [Line!Next]_(Line!lineVars)
  <2>1. CASE SetsExecutor
    <3>1. q'.queue = q.queue /\ q'.current = q.current /\ UNCHANGED <<running, outcome, settled>>
      BY <1>t, <2>1 DEF SetsExecutor, Becomes, SetExecutor, QueueType
    <3> QED BY <3>1 DEF LineInv, InHand, Line!lineVars, Waiting, Desk
  <2>2. CASE DrainsWith
    <3>1. q'.queue = <<>> /\ q'.current = q.current /\ UNCHANGED <<running, settled>>
      BY <1>t, <2>2 DEF DrainsWith, Becomes, DrainWith, QueueType
    <3> QED BY <2>2, <3>1, EmptyingIsSendAway DEF DrainsWith, Line!Next
  <2>3. CASE Dispose
    <3>1. q'.queue = <<>> /\ q'.current = q.current /\ UNCHANGED <<running, settled>>
      BY <1>t, <2>3 DEF Dispose, Becomes, DisposeQueue, DrainWith, QueueType
    <3> QED BY <2>3, <3>1, EmptyingIsSendAway DEF Dispose, Line!Next
  <2>4. CASE ExecutorSettles
    BY <2>4, SettlesIsFinish DEF Line!Next
  <2>5. CASE DrainResumes
    <3>1. settled \in {"resolved", "rejected"}
      BY <2>5 DEF LineInv, IInv, TypeOK, DrainResumes
    <3> QED BY <2>5, <3>1, ResumesIsAnswer DEF Line!Next
  <2>6. ASSUME NEW c \in Command, SendRefused(c) PROVE InHand' /\ [Line!Next]_(Line!lineVars)
    <3>1. InHand' /\ Waiting' = Waiting /\ Desk' = Desk
      BY <2>6 DEF LineInv, InHand, SendRefused, Waiting, Desk
    <3>2. Line!TurnAway(c)
      BY <2>6, <3>1 DEF SendRefused, Line!TurnAway
    <3> QED BY <3>1, <3>2 DEF Line!Next
  <2>7. ASSUME NEW c \in Command, SendAccepted(c) PROVE InHand' /\ [Line!Next]_(Line!lineVars)
    BY <2>7, AcceptedIsJoin DEF Line!Next
  <2>8. CASE UNCHANGED vars
    BY <2>8 DEF vars, LineInv, InHand, Line!lineVars, Waiting, Desk
  <2> QED BY <2>1, <2>2, <2>3, <2>4, <2>5, <2>6, <2>7, <2>8 DEF Next
<1> QED BY <1>1, <1>2, <1>3 DEF LineInv

\* The queue implements the line: for any set of commands, however sending,
\* draining and disposing fall between the steps of the drain loop, commands
\* are run one at a time and in order, and each caller gets one answer.
THEOREM QueueImplementsLine == Spec => ImplementsLine
<1>1. LineInv /\ [Next]_vars => LineInv' /\ [Line!Next]_(Line!lineVars)
  BY StepIsLineStep
<1> QED BY InitLine, <1>1, PTL DEF Spec, ImplementsLine, Line!Spec

-----------------------------------------------------------------------------
(* The queue as part of the exchange: the provider's send() and the adapter  *)
(* are its executor.                                                         *)

LEMMA QueueInvariant == Spec => []LineInv
<1>1. LineInv /\ [Next]_vars => LineInv'
  BY StepIsLineStep
<1> QED BY InitLine, <1>1, PTL DEF Spec

LEMMA ExchangeStep == ExchangeNext => [Next]_vars
<1> SUFFICES ASSUME ExchangeNext PROVE [Next]_vars
  OBVIOUS
<1>1. ASSUME SetUp \/ Drop \/ End \/ Resume \/ CallEnds PROVE Next
  BY <1>1 DEF SetUp, Drop, End, Resume, CallEnds, Next
<1>2. ASSUME NEW c \in Command, Refuse(c) \/ Accept(c) PROVE Next
  BY <1>2 DEF Refuse, Accept, Next
<1>3. ASSUME Disconnect PROVE UNCHANGED vars
  BY <1>3 DEF Disconnect
<1>4. ASSUME NEW l \in Links,
             \/ Connect(l) \/ Opens(l) \/ Asserts(l) \/ ConnectFails(l) \/ Connected(l)
             \/ Disconnected(l) \/ Written(l) \/ Receive(l) \/ Lose(l) \/ Reach(l)
      PROVE  UNCHANGED vars
  BY <1>4 DEF Connect, Opens, Asserts, ConnectFails, Connected, Disconnected, Written,
              Receive, Lose, Reach, Quiet
<1> QED BY <1>1, <1>2, <1>3, <1>4 DEF ExchangeNext

\* The exchange is a queue with an executor that is no longer left open.
LEMMA ExchangeIsQueue == Exchange => Spec
<1>1. ExchangeInit => Init
  BY DEF ExchangeInit
<1>2. [ExchangeNext]_exchangeVars => [Next]_vars
  <2>1. UNCHANGED exchangeVars => UNCHANGED vars
    BY DEF exchangeVars
  <2> QED BY <2>1, ExchangeStep
<1> QED BY <1>1, <1>2, PTL DEF Exchange, Spec

\* With sessions that are lost, closed and set up again under it, and whatever
\* becomes of the link, the queue still forgets no caller.
THEOREM NobodyIsForgotten == Exchange => []NobodyForgotten
<1> QED BY ExchangeIsQueue, QueueCorrect, PTL

\* The same of the line its callers see.
THEOREM ExchangeImplementsLine == Exchange => ImplementsLine
<1> QED BY ExchangeIsQueue, QueueImplementsLine, PTL

-----------------------------------------------------------------------------
(* Packets.                                                                  *)

\* Two bytes hold a number below 65536.
Word == {n \in Nat : n < 65536}

LEMMA TwoBytes ==
    ASSUME NEW n \in Word
    PROVE  LowByte(n) \in Nat /\ HighByte(n) \in Nat /\ LowByte(n) + 256 * HighByte(n) = n
<1>1. n \in Nat /\ n < 65536
  BY DEF Word
<1>2. PICK low, high : low = n % 256 /\ high = n \div 256
  OBVIOUS
<1>3. n = 256 * (n \div 256) + (n % 256)
  BY <1>1
<1>4. n % 256 \in 0..255 /\ n \div 256 \in Int /\ n \div 256 >= 0
  BY <1>1
<1>5. low \in 0..255 /\ high \in Nat /\ n = 256 * high + low
  BY <1>2, <1>3, <1>4
<1>6. high \in 0..255
  BY <1>1, <1>5
<1>7. high % 256 = high
  BY <1>6
<1>8. LowByte(n) = low /\ HighByte(n) = high
  BY <1>2, <1>7 DEF LowByte, HighByte
<1> QED BY <1>5, <1>8

\* What a packet of a number, a type and a payload looks like on the wire.
IsPacket(p, n, type, payload) ==
    /\ Len(p) = 5 + Len(payload) /\ Len(payload) \in Nat
    /\ TotalLength(p) = Len(p) /\ Decodes(p)
    /\ GetMessageCounter(p) = n
    /\ DecodePacket(p) = [messageCounter |-> n, type |-> type, payload |-> payload]

LEMMA EncodedIsPacket ==
    ASSUME NEW S, NEW payload \in Seq(S), 3 + Len(payload) \in Word,
           NEW n \in Word, NEW type \in Byte
    PROVE  /\ IsPacket(EncodePacket(n, type, payload), n, type, payload)
           /\ EncodePacket(n, type, payload) \in Seq(S \cup Int)
<1>1. PICK m : m = 3 + Len(payload)
  OBVIOUS
<1>2. m \in Word /\ Len(payload) \in Nat
  BY <1>1
<1>0. LowByte(type) = type /\ type \in Int
  BY DEF LowByte, Byte
<1>3. PICK head, p : /\ head = <<LowByte(m), HighByte(m), LowByte(n), HighByte(n), type>>
                     /\ p = EncodePacket(n, type, payload)
  OBVIOUS
<1>4. /\ LowByte(m) \in Nat /\ HighByte(m) \in Nat /\ LowByte(m) + 256 * HighByte(m) = m
      /\ LowByte(n) \in Nat /\ HighByte(n) \in Nat /\ LowByte(n) + 256 * HighByte(n) = n
  BY <1>2, TwoBytes
<1>5. /\ head \in Seq(Int) /\ Len(head) = 5
      /\ head[1] = LowByte(m) /\ head[2] = HighByte(m)
      /\ head[3] = LowByte(n) /\ head[4] = HighByte(n) /\ head[5] = type
  BY <1>0, <1>3, <1>4
<1>6. p = head \o payload
  BY <1>0, <1>1, <1>3 DEF EncodePacket
<1>7. head \in Seq(S \cup Int) /\ payload \in Seq(S \cup Int)
  BY <1>5
<1>8. /\ p \in Seq(S \cup Int) /\ Len(p) = 5 + Len(payload)
      /\ \A i \in 1..(5 + Len(payload)) : p[i] = IF i <= 5 THEN head[i] ELSE payload[i - 5]
  <2>1. /\ head \o payload \in Seq(S \cup Int) /\ Len(head \o payload) = Len(head) + Len(payload)
        /\ \A i \in 1..(Len(head) + Len(payload)) :
               (head \o payload)[i] = IF i <= Len(head) THEN head[i] ELSE payload[i - Len(head)]
    BY ONLY <1>7, ConcatProperties
  <2>2. Len(head) = 5
    BY <1>5
  <2> QED BY ONLY <1>6, <2>1, <2>2
<1>9. /\ p[1] = head[1] /\ p[2] = head[2] /\ p[3] = head[3] /\ p[4] = head[4] /\ p[5] = type
      /\ \A i \in 1..Len(payload) : p[5 + i] = payload[i]
  BY <1>2, <1>5, <1>8
<1>10. Uint16(p, 1) = m /\ Uint16(p, 3) = n
  BY <1>4, <1>5, <1>9 DEF Uint16
<1>11. SubSeq(p, 6, Len(p)) = payload
  <2>1. PICK s : s = SubSeq(p, 6, Len(p))
    OBVIOUS
  <2>2. /\ s \in Seq(S \cup Int)
        /\ Len(s) = IF 6 <= Len(p) THEN Len(p) - 6 + 1 ELSE 0
        /\ \A i \in 1..(Len(p) - 6 + 1) : s[i] = p[6 + i - 1]
    <3>1. 6 \in Int /\ Len(p) \in Int /\ \A i \in 6..Len(p) : p[i] \in S \cup Int
      BY <1>2, <1>8
    <3>2. /\ SubSeq(p, 6, Len(p)) \in Seq(S \cup Int)
          /\ Len(SubSeq(p, 6, Len(p))) = IF 6 <= Len(p) THEN Len(p) - 6 + 1 ELSE 0
          /\ \A i \in 1..(Len(p) - 6 + 1) : SubSeq(p, 6, Len(p))[i] = p[6 + i - 1]
      BY ONLY <3>1, SubSeqProperties
    <3> QED BY <2>1, <3>2
  <2>3. Len(s) = Len(payload)
    BY <1>2, <1>8, <2>2
  <2>4. \A i \in 1..Len(s) : s[i] = payload[i]
    BY <1>2, <1>8, <1>9, <2>2, <2>3
  <2>5. s = payload
    BY <1>7, <2>2, <2>3, <2>4, SeqEqual
  <2> QED BY <2>1, <2>5
<1>12. Decodes(p) /\ TotalLength(p) = Len(p)
  BY <1>1, <1>2, <1>8, <1>10 DEF Decodes, TotalLength
<1>13. GetMessageCounter(p) = n
  BY <1>2, <1>8, <1>10 DEF GetMessageCounter
<1>14. DecodePacket(p) = [messageCounter |-> n, type |-> type, payload |-> payload]
  BY <1>9, <1>10, <1>11 DEF DecodePacket
<1> QED BY <1>2, <1>3, <1>8, <1>12, <1>13, <1>14 DEF IsPacket

\* decodeEv3Packet() undoes encodeEv3Packet(), for any counter of 16 bits, type
\* of 8, any bytes, and any payload whose length fits the 16 bits it is cut to.
THEOREM PacketsSurvive ==
    \A S : \A payload \in Seq(S) : \A n \in Word : \A type \in Byte :
        3 + Len(payload) \in Word =>
            /\ Decodes(EncodePacket(n, type, payload))
            /\ DecodePacket(EncodePacket(n, type, payload)) =
                   [messageCounter |-> n, type |-> type, payload |-> payload]
<1> SUFFICES ASSUME NEW S, NEW payload \in Seq(S), NEW n \in Word, NEW type \in Byte,
                    3 + Len(payload) \in Word
             PROVE  /\ Decodes(EncodePacket(n, type, payload))
                    /\ DecodePacket(EncodePacket(n, type, payload)) =
                           [messageCounter |-> n, type |-> type, payload |-> payload]
  OBVIOUS
<1>1. IsPacket(EncodePacket(n, type, payload), n, type, payload)
  BY EncodedIsPacket
<1> QED BY <1>1 DEF IsPacket

\* The beginning of a packet is no packet, and nothing of it is dropped.
LEMMA BeginningIsKept ==
    ASSUME NEW S, NEW b \in Seq(S), NEW r \in Seq(S), r # <<>>, NEW expected,
           NEW p, p = b \o r, TotalLength(p) = Len(p)
    PROVE  ~HasPacket(b) /\ Drain(expected, b) = b
<1>1. /\ Len(b) \in Nat /\ Len(r) \in Nat /\ Len(r) # 0
      /\ Len(p) = Len(b) + Len(r)
      /\ \A i \in 1..Len(b) : p[i] = b[i]
  BY ConcatProperties, EmptySeq
<1>2. ~HasPacket(b)
  <2> SUFFICES ASSUME Len(b) >= 2 PROVE ~(Len(b) >= TotalLength(b))
    BY DEF HasPacket
  <2>1. p[1] = b[1] /\ p[2] = b[2]
    BY <1>1
  <2>2. TotalLength(b) = TotalLength(p)
    BY <2>1 DEF TotalLength, Uint16
  <2> QED BY <1>1, <2>2
<1> QED BY <1>2 DEF Drain, Stale

\* A whole packet with the number expected is taken, and it is all there is.
LEMMA WholeIsTaken ==
    ASSUME NEW S, NEW p \in Seq(S), NEW n, NEW type, NEW payload, IsPacket(p, n, type, payload)
    PROVE  /\ HasPacket(p) /\ Drain(n, p) = p
           /\ FirstPacket(p) = p /\ AfterFirst(p) = <<>>
<1>1. TotalLength(p) = Len(p) /\ Len(p) \in Nat /\ Len(p) >= 5 /\ GetMessageCounter(p) = n
  BY DEF IsPacket
<1>2. HasPacket(p)
  BY <1>1 DEF HasPacket
<1>3. SubSeq(p, 1, Len(p)) = p
  BY SubSeqFull
<1>4. SubSeq(p, Len(p) + 1, Len(p)) = <<>>
  <2>1. PICK s : s = SubSeq(p, Len(p) + 1, Len(p))
    OBVIOUS
  <2>2. s \in Seq(S) /\ Len(s) = 0
    BY <1>1, <2>1, SubSeqProperties
  <2> QED BY <2>1, <2>2, EmptySeq
<1> QED BY <1>1, <1>2, <1>3, <1>4 DEF FirstPacket, AfterFirst, Drain, Stale

-----------------------------------------------------------------------------
(* What is read from an answer is where the program put it.                  *)

\* Byte x is one of those that an operation puts.
Covers(put, x) == x \in put.at..(put.at + put.width - 1)

\* No two operations of a program put the same byte.
Disjoint(program) ==
    \A a, b \in program : \A x \in Int : Covers(a, x) /\ Covers(b, x) => a = b

LEMMA PortsPuts ==
    ASSUME NEW a \in PortsProgram
    PROVE  \E i \in 0..3 :
              \/ a = Put(<<"sensorType", i>>, 1, 2 * i, "gv0")
              \/ a = Put(<<"sensorMode", i>>, 1, 2 * i + 1, "gv0")
              \/ a = Put(<<"motorType", i>>, 1, 8 + 2 * i, "gv0")
              \/ a = Put(<<"motorMode", i>>, 1, 8 + 2 * i + 1, "gv0")
              \/ a = Put(<<"sensorValue", i>>, 4, 16 + 4 * i, "gv0")
              \/ a = Put(<<"motorTacho", i>>, 4, 32 + 4 * i, "gv1")
BY DEF PortsProgram

LEMMA PortsDisjoint == Disjoint(PortsProgram)
<1> SUFFICES ASSUME NEW a \in PortsProgram, NEW b \in PortsProgram, NEW x \in Int,
                    Covers(a, x), Covers(b, x)
             PROVE  a = b
  BY DEF Disjoint
<1> DEFINE Fills(p, i) ==
             \/ p = Put(<<"sensorType", i>>, 1, 2 * i, "gv0") /\ x = 2 * i
             \/ p = Put(<<"sensorMode", i>>, 1, 2 * i + 1, "gv0") /\ x = 2 * i + 1
             \/ p = Put(<<"motorType", i>>, 1, 8 + 2 * i, "gv0") /\ x = 8 + 2 * i
             \/ p = Put(<<"motorMode", i>>, 1, 8 + 2 * i + 1, "gv0") /\ x = 8 + 2 * i + 1
             \/ p = Put(<<"sensorValue", i>>, 4, 16 + 4 * i, "gv0")
                /\ 16 + 4 * i <= x /\ x < 20 + 4 * i
             \/ p = Put(<<"motorTacho", i>>, 4, 32 + 4 * i, "gv1")
                /\ 32 + 4 * i <= x /\ x < 36 + 4 * i
<1>1. ASSUME NEW p \in PortsProgram, Covers(p, x) PROVE \E i \in 0..3 : Fills(p, i)
  <2>1. PICK i \in 0..3 :
              \/ p = Put(<<"sensorType", i>>, 1, 2 * i, "gv0")
              \/ p = Put(<<"sensorMode", i>>, 1, 2 * i + 1, "gv0")
              \/ p = Put(<<"motorType", i>>, 1, 8 + 2 * i, "gv0")
              \/ p = Put(<<"motorMode", i>>, 1, 8 + 2 * i + 1, "gv0")
              \/ p = Put(<<"sensorValue", i>>, 4, 16 + 4 * i, "gv0")
              \/ p = Put(<<"motorTacho", i>>, 4, 32 + 4 * i, "gv1")
    BY PortsPuts
  <2> QED BY <1>1, <2>1 DEF Covers, Put
<1>2. PICK i \in 0..3 : Fills(a, i)
  BY <1>1
<1>3. PICK j \in 0..3 : Fills(b, j)
  BY <1>1
<1> QED BY <1>2, <1>3

LEMMA ButtonsDisjoint == Disjoint(ButtonsProgram)
<1>1. ASSUME NEW a \in ButtonsProgram, NEW x \in Int, Covers(a, x)
      PROVE  a = Put(<<"button", x>>, 1, x, "gv0")
  <2>1. PICK i \in 0..5 : a = Put(<<"button", i>>, 1, i, "gv0")
    BY DEF ButtonsProgram
  <2>2. x = i
    BY <1>1, <2>1 DEF Covers, Put
  <2> QED BY <2>1, <2>2
<1> QED BY <1>1 DEF Disjoint

LEMMA BatteryDisjoint == Disjoint(BatteryProgram)
BY DEF Disjoint, BatteryProgram

LEMMA InfoDisjoint == Disjoint(InfoProgram)
<1> SUFFICES ASSUME NEW a \in InfoProgram, NEW b \in InfoProgram, NEW x \in Int,
                    Covers(a, x), Covers(b, x)
             PROVE  a = b
  BY DEF Disjoint
<1>1. ASSUME NEW p \in InfoProgram, Covers(p, x)
      PROVE  \/ p = Put(<<"osVersion">>, 16, 0, "gv0") /\ 0 <= x /\ x < 16
             \/ p = Put(<<"hwVersion">>, 8, 16, "gv0") /\ 16 <= x /\ x < 24
             \/ p = Put(<<"fwVersion">>, 8, 24, "gv0") /\ 24 <= x /\ x < 32
             \/ p = Put(<<"osBuild">>, 12, 32, "gv1") /\ 32 <= x /\ x < 44
             \/ p = Put(<<"fwBuild">>, 12, 44, "gv1") /\ 44 <= x /\ x < 56
  BY <1>1 DEF InfoProgram, Covers, Put
<1> QED BY <1>1

LEMMA Sizes ==
    ASSUME NEW kind \in DirectKinds
    PROVE  GlobalBytes(kind) \in 0..56 /\ Disjoint(Program(kind))
<1>1. CASE kind = "battery"
  BY <1>1, BatteryDisjoint DEF Program, GlobalBytes
<1>2. CASE kind = "ports"
  BY <1>2, PortsDisjoint DEF Program, GlobalBytes
<1>3. CASE kind = "buttons"
  BY <1>3, ButtonsDisjoint DEF Program, GlobalBytes
<1>4. CASE kind = "info"
  BY <1>4, InfoDisjoint DEF Program, GlobalBytes
<1> QED BY <1>1, <1>2, <1>3, <1>4 DEF DirectKinds

\* buildCommand() throws for no kind of command: every offset above 31 is
\* encoded by gv1(), and no operation of a program puts a byte beyond what the
\* program allocates or on a byte of another one.
THEOREM CommandsBuild ==
    \A kind \in Kinds :
        /\ Builds(kind)
        /\ Disjoint(Program(kind))
        /\ \A put \in Program(kind) : put.at + put.width <= GlobalBytes(kind)
<1>1. \A put \in BatteryProgram :
          put.at \in Offsets(put.variable) /\ put.at + put.width <= 4
  BY DEF BatteryProgram, Put, Offsets
<1>2. \A put \in PortsProgram :
          put.at \in Offsets(put.variable) /\ put.at + put.width <= 48
  <2> SUFFICES ASSUME NEW put \in PortsProgram
               PROVE  put.at \in Offsets(put.variable) /\ put.at + put.width <= 48
    OBVIOUS
  <2>1. PICK i \in 0..3 :
              \/ put = Put(<<"sensorType", i>>, 1, 2 * i, "gv0")
              \/ put = Put(<<"sensorMode", i>>, 1, 2 * i + 1, "gv0")
              \/ put = Put(<<"motorType", i>>, 1, 8 + 2 * i, "gv0")
              \/ put = Put(<<"motorMode", i>>, 1, 8 + 2 * i + 1, "gv0")
              \/ put = Put(<<"sensorValue", i>>, 4, 16 + 4 * i, "gv0")
              \/ put = Put(<<"motorTacho", i>>, 4, 32 + 4 * i, "gv1")
    BY PortsPuts
  <2> QED BY <2>1 DEF Put, Offsets
<1>3. \A put \in ButtonsProgram :
          put.at \in Offsets(put.variable) /\ put.at + put.width <= 6
  BY DEF ButtonsProgram, Put, Offsets
<1>4. \A put \in InfoProgram :
          put.at \in Offsets(put.variable) /\ put.at + put.width <= 56
  BY DEF InfoProgram, Put, Offsets
<1> SUFFICES ASSUME NEW kind \in Kinds
             PROVE  /\ Builds(kind)
                    /\ Disjoint(Program(kind))
                    /\ \A put \in Program(kind) : put.at + put.width <= GlobalBytes(kind)
  OBVIOUS
<1>5. CASE kind = "battery"
  BY <1>1, <1>5, BatteryDisjoint DEF Program, GlobalBytes, Builds
<1>6. CASE kind = "ports"
  BY <1>2, <1>6, PortsDisjoint DEF Program, GlobalBytes, Builds
<1>7. CASE kind = "buttons"
  BY <1>3, <1>7, ButtonsDisjoint DEF Program, GlobalBytes, Builds
<1>8. CASE kind = "info"
  BY <1>4, <1>8, InfoDisjoint DEF Program, GlobalBytes, Builds
<1>9. CASE kind \notin DirectKinds
  BY <1>9 DEF DirectKinds, Program, Builds, Disjoint
<1> QED BY <1>5, <1>6, <1>7, <1>8, <1>9 DEF DirectKinds

\* What is read is one of the fields that the program puts, where it puts it.
ReadOf(kind, get, put) ==
    /\ put \in Program(kind)
    /\ put.field = get.field /\ put.width = get.width /\ put.at = get.at
    /\ get.width \in Nat /\ get.at \in Nat /\ get.at + get.width <= GlobalBytes(kind)

LEMMA ReadsArePut ==
    ASSUME NEW kind \in DirectKinds, NEW get \in Reads(kind)
    PROVE  \E put : ReadOf(kind, get, put)
<1>1. CASE kind = "battery"
  <2>1. get = Get(<<"current">>, 4, 0)
    BY <1>1 DEF Reads
  <2>2. ReadOf(kind, get, Put(<<"current">>, 4, 0, "gv0"))
    BY <1>1, <2>1 DEF ReadOf, Program, BatteryProgram, GlobalBytes, Get, Put
  <2> QED BY <2>2
<1>2. CASE kind = "ports"
  <2>1. PICK i \in 0..3 :
            \/ get = Get(<<"sensorType", i>>, 1, 2 * i)
            \/ get = Get(<<"sensorValue", i>>, 4, 16 + 4 * i)
            \/ get = Get(<<"motorType", i>>, 1, 8 + 2 * i)
            \/ get = Get(<<"motorTacho", i>>, 4, 32 + 4 * i)
    BY <1>2 DEF Reads
  <2>2. /\ Put(<<"sensorType", i>>, 1, 2 * i, "gv0") \in PortsProgram
        /\ Put(<<"sensorValue", i>>, 4, 16 + 4 * i, "gv0") \in PortsProgram
        /\ Put(<<"motorType", i>>, 1, 8 + 2 * i, "gv0") \in PortsProgram
        /\ Put(<<"motorTacho", i>>, 4, 32 + 4 * i, "gv1") \in PortsProgram
    BY DEF PortsProgram
  <2>3. Program(kind) = PortsProgram /\ GlobalBytes(kind) = 48
    BY <1>2 DEF Program, GlobalBytes
  <2>4. CASE get = Get(<<"sensorType", i>>, 1, 2 * i)
    <3>1. ReadOf(kind, get, Put(<<"sensorType", i>>, 1, 2 * i, "gv0"))
      BY <2>2, <2>3, <2>4 DEF ReadOf, Get, Put
    <3> QED BY <3>1
  <2>5. CASE get = Get(<<"sensorValue", i>>, 4, 16 + 4 * i)
    <3>1. ReadOf(kind, get, Put(<<"sensorValue", i>>, 4, 16 + 4 * i, "gv0"))
      BY <2>2, <2>3, <2>5 DEF ReadOf, Get, Put
    <3> QED BY <3>1
  <2>6. CASE get = Get(<<"motorType", i>>, 1, 8 + 2 * i)
    <3>1. ReadOf(kind, get, Put(<<"motorType", i>>, 1, 8 + 2 * i, "gv0"))
      BY <2>2, <2>3, <2>6 DEF ReadOf, Get, Put
    <3> QED BY <3>1
  <2>7. CASE get = Get(<<"motorTacho", i>>, 4, 32 + 4 * i)
    <3>1. ReadOf(kind, get, Put(<<"motorTacho", i>>, 4, 32 + 4 * i, "gv1"))
      BY <2>2, <2>3, <2>7 DEF ReadOf, Get, Put
    <3> QED BY <3>1
  <2> QED BY <2>1, <2>4, <2>5, <2>6, <2>7
<1>3. CASE kind = "buttons"
  <2>1. PICK i \in 0..5 : get = Get(<<"button", i>>, 1, i)
    BY <1>3 DEF Reads
  <2>2. ReadOf(kind, get, Put(<<"button", i>>, 1, i, "gv0"))
    BY <1>3, <2>1 DEF ReadOf, Program, ButtonsProgram, GlobalBytes, Get, Put
  <2> QED BY <2>2
<1>4. CASE kind = "info"
  <2>1. get = Get(<<"osVersion">>, 16, 0) \/ get = Get(<<"fwVersion">>, 8, 24)
    BY <1>4 DEF Reads
  <2>2. /\ Put(<<"osVersion">>, 16, 0, "gv0") \in InfoProgram
        /\ Put(<<"fwVersion">>, 8, 24, "gv0") \in InfoProgram
    BY DEF InfoProgram
  <2>3. Program(kind) = InfoProgram /\ GlobalBytes(kind) = 56
    BY <1>4 DEF Program, GlobalBytes
  <2>4. CASE get = Get(<<"osVersion">>, 16, 0)
    <3>1. ReadOf(kind, get, Put(<<"osVersion">>, 16, 0, "gv0"))
      BY <2>2, <2>3, <2>4 DEF ReadOf, Get, Put
    <3> QED BY <3>1
  <2>5. CASE get = Get(<<"fwVersion">>, 8, 24)
    <3>1. ReadOf(kind, get, Put(<<"fwVersion">>, 8, 24, "gv0"))
      BY <2>2, <2>3, <2>5 DEF ReadOf, Get, Put
    <3> QED BY <3>1
  <2> QED BY <2>1, <2>4, <2>5
<1> QED BY <1>1, <1>2, <1>3, <1>4 DEF DirectKinds

\* The operations that put the m-th global byte, and what they make of it.
PutsAt(kind, m) == {put \in Program(kind) : m - 1 \in put.at..(put.at + put.width - 1)}
Held(puts, m) ==
    IF puts = {} THEN <<>>
    ELSE LET put == CHOOSE put \in puts : TRUE IN <<put.field, m - 1 - put.at>>

LEMMA GlobalIsHeld ==
    ASSUME NEW kind \in DirectKinds, NEW m \in 1..GlobalBytes(kind)
    PROVE  Globals[kind][m] = Held(PutsAt(kind, m), m)
<1>1. Globals[kind] = [n \in 1..GlobalBytes(kind) |-> Held(PutsAt(kind, n), n)]
  BY DEF Globals, Held, PutsAt
<1> QED BY <1>1

LEMMA HeldOfOne ==
    ASSUME NEW put, NEW m
    PROVE  Held({put}, m) = <<put.field, m - 1 - put.at>>
<1>1. (CHOOSE p \in {put} : TRUE) = put
  OBVIOUS
<1> QED BY <1>1 DEF Held

LEMMA GlobalIsField ==
    ASSUME NEW kind \in DirectKinds, NEW get, NEW put, ReadOf(kind, get, put),
           NEW n \in 1..get.width
    PROVE  /\ get.at + n \in 1..GlobalBytes(kind)
           /\ Globals[kind][get.at + n] = <<get.field, n - 1>>
<1>1. PICK x, program : x = get.at + n - 1 /\ program = Program(kind)
  OBVIOUS
<1>2. /\ put \in program /\ put.at = get.at /\ put.field = get.field /\ put.width = get.width
      /\ get.at \in Nat /\ get.width \in Nat /\ get.at + get.width <= GlobalBytes(kind)
      /\ GlobalBytes(kind) \in Nat /\ Disjoint(program)
  BY <1>1, Sizes DEF ReadOf
<1>3. get.at + n \in 1..GlobalBytes(kind) /\ x = (get.at + n) - 1 /\ x \in Int
  BY <1>1, <1>2
<1>4. Covers(put, x)
  BY <1>1, <1>2 DEF Covers
<1>5. PutsAt(kind, get.at + n) = {p \in program : Covers(p, x)}
  BY <1>1, <1>3 DEF PutsAt, Covers
<1>6. PutsAt(kind, get.at + n) = {put}
  BY <1>2, <1>3, <1>4, <1>5 DEF Disjoint
<1>7. PICK m : m = get.at + n
  OBVIOUS
<1>8. Globals[kind][m] = Held(PutsAt(kind, m), m)
  BY <1>3, <1>7, GlobalIsHeld
<1>9. Held({put}, m) = <<put.field, m - 1 - put.at>>
  BY HeldOfOne
<1>10. PutsAt(kind, m) = {put}
  BY <1>6, <1>7
<1>11. Globals[kind][m] = <<put.field, m - 1 - put.at>>
  BY ONLY <1>8, <1>9, <1>10
<1>12. m - 1 - put.at = n - 1
  BY <1>2, <1>7
<1>13. Globals[kind][m] = <<get.field, n - 1>>
  BY <1>2, <1>11, <1>12
<1> QED BY <1>3, <1>7, <1>13

\* A command, what it asks, and the packets that ask it and answer it.
Ask(c) == [id |-> c, kind |-> KindOf[c]]
Direct(c) == KindOf[c] \in DirectKinds
Request(c, n) == EncodePacket(n, CommandType(KindOf[c]), Payload(c, KindOf[c]))
Told(c, n) == EncodePacket(n, IF Direct(c) THEN DirectReply ELSE SystemReply, Answer(Ask(c)))
Refusal(c, n) ==
    EncodePacket(n, IF Direct(c) THEN DirectReplyError ELSE SystemReplyError,
                 IF Direct(c) THEN <<>> ELSE <<1>>)

\* What a byte on the wire may stand for.
Datum ==
    Int \cup {Ask(c) : c \in Command} \cup
    {<<c, Globals[kind][n]>> : c \in Command, kind \in DirectKinds, n \in Nat}

LEMMA AnswerFacts ==
    ASSUME NEW c \in Command
    PROVE  /\ Answer(Ask(c)) \in Seq(Datum) /\ 3 + Len(Answer(Ask(c))) \in Word
           /\ Direct(c) =>
                 /\ Len(Answer(Ask(c))) = GlobalBytes(KindOf[c])
                 /\ \A n \in 1..GlobalBytes(KindOf[c]) :
                        Answer(Ask(c))[n] = <<c, Globals[KindOf[c]][n]>>
<1>1. KindOf[c] \in Kinds
  BY ExchangeAssumption
<1>2. CASE Direct(c)
  <2>1. PICK kind, a, size : kind = KindOf[c] /\ a = Answer(Ask(c)) /\ size = GlobalBytes(kind)
    OBVIOUS
  <2>2. kind \in DirectKinds /\ kind \notin SystemKinds
    BY <1>2, <2>1 DEF Direct, DirectKinds, SystemKinds
  <2>3. size \in 0..56
    BY <2>1, <2>2, Sizes
  <2>4. DOMAIN Globals[kind] = 1..size
    BY <2>1, <2>2 DEF Globals
  <2>5. a = [n \in 1..size |-> <<c, Globals[kind][n]>>]
    BY <2>1, <2>2, <2>4 DEF Answer, Ask
  <2>6. \A n \in 1..size : <<c, Globals[kind][n]>> \in Datum
    BY <2>2, <2>3 DEF Datum
  <2>7. a \in Seq(Datum) /\ Len(a) = size
    BY <2>3, <2>5, <2>6
  <2>8. 3 + size \in Word
    BY <2>3 DEF Word
  <2>9. \A n \in 1..size : a[n] = <<c, Globals[kind][n]>>
    BY <2>5
  <2> QED BY <2>1, <2>7, <2>8, <2>9
<1>3. CASE ~Direct(c)
  <2>1. Answer(Ask(c)) = <<0>>
    BY <1>1, <1>3 DEF Direct, Answer, Ask, Kinds
  <2>2. <<0>> \in Seq(Datum) /\ Len(<<0>>) = 1 /\ 4 \in Word
    BY DEF Datum, Word
  <2> QED BY <1>3, <2>1, <2>2
<1> QED BY <1>2, <1>3

\* Numbers that a session gives its messages.
Num == 0..(Counters - 1)

LEMMA NumIsWord == Num \subseteq Word /\ None \notin Num
<1>1. Counters \in Int /\ Counters <= 65536
  BY ExchangeAssumption
<1>2. None \notin Int
  BY LinkAssumption
<1>3. ASSUME NEW n \in Num PROVE n \in Word
  <2>1. n \in Nat /\ n < 65536
    BY <1>1 DEF Num
  <2> QED BY ONLY <2>1 DEF Word
<1>4. None \notin Num
  BY <1>1, <1>2 DEF Num
<1> QED BY <1>3, <1>4

LEMMA RequestFacts ==
    ASSUME NEW c \in Command, NEW n \in Word
    PROVE  /\ IsPacket(Request(c, n), n, CommandType(KindOf[c]), <<Ask(c)>>)
           /\ Request(c, n) \in Seq(Datum)
<1>1. <<Ask(c)>> \in Seq(Datum) /\ Len(<<Ask(c)>>) = 1
  BY DEF Datum
<1>2. 4 \in Word
  BY DEF Word
<1>3. CommandType(KindOf[c]) \in Byte
  BY DEF CommandType, DirectCommandReply, SystemCommandReply, Byte
<1>4. Payload(c, KindOf[c]) = <<Ask(c)>>
  BY DEF Payload, Ask
<1>5. Datum \cup Int = Datum
  BY DEF Datum
<1>6. PICK payload, type : payload = <<Ask(c)>> /\ type = CommandType(KindOf[c])
  OBVIOUS
<1>7. /\ IsPacket(EncodePacket(n, type, payload), n, type, payload)
      /\ EncodePacket(n, type, payload) \in Seq(Datum \cup Int)
  <2>1. payload \in Seq(Datum) /\ 3 + Len(payload) \in Word /\ n \in Word /\ type \in Byte
    BY <1>1, <1>2, <1>3, <1>6
  <2> QED BY ONLY <2>1, EncodedIsPacket
<1> QED BY <1>4, <1>5, <1>6, <1>7 DEF Request

LEMMA ToldFacts ==
    ASSUME NEW c \in Command, NEW n \in Word
    PROVE  /\ \E type \in {DirectReply, SystemReply} : IsPacket(Told(c, n), n, type, Answer(Ask(c)))
           /\ Told(c, n) \in Seq(Datum)
<1>1. PICK payload, type : payload = Answer(Ask(c))
                           /\ type = IF Direct(c) THEN DirectReply ELSE SystemReply
  OBVIOUS
<1>2. type \in {DirectReply, SystemReply} /\ type \in Byte
  BY <1>1 DEF DirectReply, SystemReply, Byte
<1>3. /\ IsPacket(EncodePacket(n, type, payload), n, type, payload)
      /\ EncodePacket(n, type, payload) \in Seq(Datum \cup Int)
  <2>1. payload \in Seq(Datum) /\ 3 + Len(payload) \in Word /\ n \in Word /\ type \in Byte
    BY <1>1, <1>2, AnswerFacts
  <2> QED BY ONLY <2>1, EncodedIsPacket
<1>4. Datum \cup Int = Datum
  BY DEF Datum
<1>5. Told(c, n) = EncodePacket(n, type, payload)
  BY <1>1 DEF Told
<1> QED BY <1>1, <1>2, <1>3, <1>4, <1>5

LEMMA RefusalFacts ==
    ASSUME NEW c \in Command, NEW n \in Word
    PROVE  /\ \E type \in {DirectReplyError, SystemReplyError} : \E payload :
                  IsPacket(Refusal(c, n), n, type, payload)
           /\ Refusal(c, n) \in Seq(Datum)
<1>1. PICK payload, type : /\ payload = IF Direct(c) THEN <<>> ELSE <<1>>
                           /\ type = IF Direct(c) THEN DirectReplyError ELSE SystemReplyError
  OBVIOUS
<1>2. type \in {DirectReplyError, SystemReplyError} /\ type \in Byte
  BY <1>1 DEF DirectReplyError, SystemReplyError, Byte
<1>3. payload \in Seq(Datum) /\ (Len(payload) = 0 \/ Len(payload) = 1)
  <2>1. <<>> \in Seq(Datum) /\ Len(<<>>) = 0
    OBVIOUS
  <2>2. 1 \in Datum
    BY DEF Datum
  <2>3. <<1>> \in Seq(Datum) /\ Len(<<1>>) = 1
    BY <2>2
  <2> QED BY <1>1, <2>1, <2>3
<1>4. 3 + Len(payload) \in Word
  <2>1. 3 \in Word /\ 4 \in Word
    BY DEF Word
  <2>2. 3 + Len(payload) = 3 \/ 3 + Len(payload) = 4
    BY <1>3
  <2> QED BY <2>1, <2>2
<1>5. /\ IsPacket(EncodePacket(n, type, payload), n, type, payload)
      /\ EncodePacket(n, type, payload) \in Seq(Datum \cup Int)
  <2>1. payload \in Seq(Datum) /\ 3 + Len(payload) \in Word /\ n \in Word /\ type \in Byte
    BY <1>2, <1>3, <1>4
  <2> QED BY ONLY <2>1, EncodedIsPacket
<1>6. Datum \cup Int = Datum
  BY DEF Datum
<1>7. Refusal(c, n) = EncodePacket(n, type, payload)
  BY <1>1 DEF Refusal
<1> QED BY <1>2, <1>5, <1>6, <1>7

\* The bridge takes an answer to a request, and no refusal of it.
LEMMA Verdicts ==
    ASSUME NEW c \in Command, NEW n \in Word
    PROVE  Succeeds(Told(c, n), n) /\ ~Succeeds(Refusal(c, n), n)
<1>1. PICK type \in {DirectReply, SystemReply} : IsPacket(Told(c, n), n, type, Answer(Ask(c)))
  BY ToldFacts
<1>2. Succeeds(Told(c, n), n)
  <2>1. DecodePacket(Told(c, n)).type = type
    BY <1>1 DEF IsPacket
  <2>2. Accepted(DecodePacket(Told(c, n)))
    BY <2>1 DEF Accepted, DirectReply, SystemReply, DirectReplyError, SystemReplyError
  <2> QED BY <1>1, <2>2 DEF Succeeds, IsPacket
<1>3. PICK error \in {DirectReplyError, SystemReplyError} :
          \E payload : IsPacket(Refusal(c, n), n, error, payload)
  BY RefusalFacts
<1>4. DecodePacket(Refusal(c, n)).type = error
  BY <1>3 DEF IsPacket
<1>5. ~Accepted(DecodePacket(Refusal(c, n)))
  BY <1>4 DEF Accepted
<1> QED BY <1>2, <1>5 DEF Succeeds

\* What is read from the answer to a command is what was asked for.
LEMMA TruthIsTold ==
    ASSUME NEW c \in Command, NEW n \in Word
    PROVE  Truthful(Parse(KindOf[c], DecodePacket(Told(c, n))), c, KindOf[c])
<1> SUFFICES ASSUME NEW get \in Reads(KindOf[c])
             PROVE  Parse(KindOf[c], DecodePacket(Told(c, n)))[get] =
                        [i \in 1..get.width |-> <<c, <<get.field, i - 1>>>>]
  BY DEF Truthful
<1>1. KindOf[c] \in Kinds
  BY ExchangeAssumption
<1>2. PICK kind, a, size : kind = KindOf[c] /\ a = Answer(Ask(c)) /\ size = GlobalBytes(kind)
  OBVIOUS
<1>3. kind \in DirectKinds /\ Direct(c)
  BY <1>1, <1>2 DEF Kinds, Reads, SystemKinds, DirectKinds, Direct
<1>4. PICK put : ReadOf(kind, get, put)
  BY <1>2, <1>3, ReadsArePut
<1>5. get.width \in Nat /\ get.at \in Nat /\ get.at + get.width <= size
  BY <1>2, <1>4 DEF ReadOf
<1>6. a \in Seq(Datum) /\ Len(a) = size /\ size \in Nat
      /\ \A i \in 1..size : a[i] = <<c, Globals[kind][i]>>
  BY <1>2, <1>3, AnswerFacts, Sizes
<1>7. DecodePacket(Told(c, n)).payload = a
  <2>1. PICK type \in {DirectReply, SystemReply} : IsPacket(Told(c, n), n, type, Answer(Ask(c)))
    BY ToldFacts
  <2> QED BY <1>2, <2>1 DEF IsPacket
<1>8. Parse(KindOf[c], DecodePacket(Told(c, n)))[get] = SubSeq(a, get.at + 1, get.at + get.width)
  <2>1. PICK reply : reply = DecodePacket(Told(c, n))
    OBVIOUS
  <2>2. Parse(kind, reply)[get] =
            IF Len(reply.payload) >= get.at + get.width
            THEN SubSeq(reply.payload, get.at + 1, get.at + get.width)
            ELSE IF kind = "info" THEN SubSeq(reply.payload, get.at + 1, Len(reply.payload))
            ELSE None
    BY <1>2 DEF Parse
  <2>3. reply.payload = a /\ Len(reply.payload) >= get.at + get.width
    BY <1>5, <1>6, <1>7, <2>1
  <2> QED BY <1>2, <2>1, <2>2, <2>3
<1>9. PICK s : s = SubSeq(a, get.at + 1, get.at + get.width)
  OBVIOUS
<1>10. /\ s \in Seq(Datum) /\ Len(s) = get.width
       /\ \A i \in 1..get.width : s[i] = a[get.at + i]
  <2>1. PICK x, y : x = get.at + 1 /\ y = get.at + get.width
    OBVIOUS
  <2>2. x \in Int /\ y \in Int /\ \A i \in x..y : a[i] \in Datum
    BY <1>5, <1>6, <2>1
  <2>3. /\ SubSeq(a, x, y) \in Seq(Datum)
        /\ Len(SubSeq(a, x, y)) = IF x <= y THEN y - x + 1 ELSE 0
        /\ \A i \in 1..(y - x + 1) : SubSeq(a, x, y)[i] = a[x + i - 1]
    BY ONLY <2>2, SubSeqProperties
  <2>4. y - x + 1 = get.width /\ (x <= y <=> get.width > 0)
        /\ \A i \in 1..get.width : x + i - 1 = get.at + i
    BY <1>5, <2>1
  <2>5. s = SubSeq(a, x, y)
    BY <1>9, <2>1
  <2> QED BY <1>5, <2>3, <2>4, <2>5
<1>11. \A i \in 1..get.width : s[i] = <<c, <<get.field, i - 1>>>>
  <2> SUFFICES ASSUME NEW i \in 1..get.width PROVE s[i] = <<c, <<get.field, i - 1>>>>
    OBVIOUS
  <2>1. get.at + i \in 1..size /\ Globals[kind][get.at + i] = <<get.field, i - 1>>
    BY <1>2, <1>3, <1>4, GlobalIsField
  <2> QED BY <1>6, <1>10, <2>1
<1>12. s = [i \in 1..get.width |-> <<c, <<get.field, i - 1>>>>]
  <2>1. s = [i \in 1..get.width |-> s[i]]
    BY <1>10, LenProperties
  <2> QED BY <1>11, <2>1
<1> QED BY <1>8, <1>9, <1>12

-----------------------------------------------------------------------------
(* The inductive invariant of the exchange.  What an adapter's promise waits *)
(* for is in one place: the request with the brick, or a reply to it, part   *)
(* in the buffer and part on the way.  With no promise, both are empty: what *)
(* a rejected request left behind went with the link.                        *)

FieldNames == {"stage", "isOpen", "receiveBuffer", "pendingReply"}

\* Fields f of an adapter, the state p of its port, what is asked of the brick
\* and what comes in, with command c in the queue's hand.
NothingDue(f, p, as, inc) ==
    /\ p = "open" /\ f.pendingReply = None
    /\ as = <<>> /\ inc = <<>>
    /\ f.stage = "ready" => f.receiveBuffer = <<>>

RequestDue(f, p, as, inc, c) ==
    /\ p = "open" /\ f.pendingReply \in Num /\ c \in Command
    /\ as = <<Request(c, f.pendingReply)>>
    /\ f.receiveBuffer = <<>> /\ inc = <<>>

ReplyDue(f, p, as, inc, c) ==
    /\ p = "open" /\ f.pendingReply \in Num /\ c \in Command
    /\ as = <<>> /\ inc # <<>>
    /\ f.receiveBuffer \in Seq(Datum) /\ inc \in Seq(Datum)
    /\ f.receiveBuffer \o inc \in {Told(c, f.pendingReply), Refusal(c, f.pendingReply)}

LinkAt(f, p, as, inc, c) ==
    /\ DOMAIN f = FieldNames
    /\ f.pendingReply \in Num \cup {None}
    /\ f.pendingReply # None => f.stage = "ready"
    /\ \/ f.stage = "closing"
       \/ p # "open" /\ as = <<>> /\ inc = <<>>
       \/ NothingDue(f, p, as, inc)
       \/ RequestDue(f, p, as, inc, c)
       \/ ReplyDue(f, p, as, inc, c)

Domains ==
    DOMAIN link = Links /\ DOMAIN port = Links /\ DOMAIN asked = Links /\ DOMAIN incoming = Links

LinksOK ==
    /\ Domains
    /\ \A l \in Links : LinkAt(link[l], port[l], asked[l], incoming[l], q.current)

ProviderOK ==
    /\ session \in Links \cup {None} /\ messageCounter \in Num
    /\ session # None => At(session, "ready")

\* A call that has its reply has the answer to the command in hand.
CallOK ==
    \/ call = NoCall
    \/ call = Failed
    \/ \E l \in Links, n \in Num : call = Awaiting(l, n)
    \/ q.current \in Command /\ \E n \in Num : call = Replied(Told(q.current, n))

\* The executor has been called exactly while there is a call.
Engaged == running = {} <=> call = NoCall

ResponsesOK == DOMAIN response = Command /\ AnswersAreOwn

ExInv == LinksOK /\ ProviderOK /\ CallOK /\ Engaged /\ PromisesMatch /\ ResponsesOK

LEMMA CallStates ==
    /\ NoCall.state = "none" /\ Failed.state = "failed"
    /\ \A l, n : Awaiting(l, n).state = "waiting" /\ Awaiting(l, n).on = l
                 /\ Awaiting(l, n).counter = n
    /\ \A p : Replied(p).state = "replied" /\ Replied(p).packet = p
    /\ Nothing.kind = "nothing" /\ Rejection.kind = "rejection"
    /\ \A p : Reply(p).kind = "reply" /\ Reply(p).packet = p
BY DEF NoCall, Failed, Awaiting, Replied, Nothing, Rejection, Reply

\* Without a call that waits, no adapter holds a promise; and a link without a
\* promise does not care which command is in hand.
LEMMA NobodyWaits ==
    ASSUME LinksOK, PromisesMatch, call.state # "waiting"
    PROVE  \A l \in Links : link[l].pendingReply = None
<1> SUFFICES ASSUME NEW l \in Links, link[l].pendingReply # None PROVE FALSE
  OBVIOUS
<1>1. link[l].pendingReply \in Num
  BY DEF LinksOK, LinkAt
<1>2. call = Awaiting(l, link[l].pendingReply)
  BY <1>1 DEF PromisesMatch, Num
<1> QED BY <1>2, CallStates

LEMMA FieldsOf ==
    ASSUME NEW stage, NEW isOpen, NEW buffer, NEW pending,
           NEW f, f = Fields(stage, isOpen, buffer, pending)
    PROVE  /\ DOMAIN f = FieldNames /\ f.stage = stage
           /\ f.receiveBuffer = buffer /\ f.pendingReply = pending
BY DEF Fields, FieldNames

LEMMA AnyHand ==
    ASSUME NEW f, NEW p, NEW as, NEW inc, NEW c, NEW d,
           LinkAt(f, p, as, inc, c), f.pendingReply = None
    PROVE  LinkAt(f, p, as, inc, d)
BY NumIsWord DEF LinkAt, RequestDue, ReplyDue

LEMMA ExchangeInitInv == ExchangeInit => ExInv
<1> SUFFICES ASSUME ExchangeInit PROVE ExInv
  OBVIOUS
<1>1. /\ Domains /\ session = None /\ messageCounter = 0 /\ call = NoCall
      /\ response = [c \in Command |-> None] /\ running = {}
  BY DEF ExchangeInit, LinksInit, Domains, Init
<1>2. ASSUME NEW l \in Links
      PROVE  link[l] = New /\ port[l] = "closed" /\ asked[l] = <<>> /\ incoming[l] = <<>>
  BY DEF ExchangeInit, LinksInit
<1>3. DOMAIN New = FieldNames /\ New.pendingReply = None /\ New.stage = "new"
  BY DEF New, Fields, FieldNames
<1>4. LinksOK
  BY <1>1, <1>2, <1>3 DEF LinksOK, LinkAt
<1>5. 0 \in Num
  BY ExchangeAssumption DEF Num
<1>6. PromisesMatch
  <2> SUFFICES ASSUME NEW l \in Links, NEW n \in Num
               PROVE  link[l].pendingReply # n /\ call # Awaiting(l, n)
    BY DEF PromisesMatch, Num
  <2> QED BY <1>1, <1>2, <1>3, NumIsWord, CallStates
<1> QED BY <1>1, <1>4, <1>5, <1>6 DEF ExInv, ProviderOK, CallOK, Engaged, ResponsesOK, AnswersAreOwn

-----------------------------------------------------------------------------
(* Steps of the queue.                                                       *)

\* Nothing but the queue's own affairs changes.
LEMMA SameHand ==
    ASSUME ExInv, q'.current = q.current, running' = running,
           UNCHANGED <<linkVars, provider, call, response>>
    PROVE  ExInv'
<1>1. UNCHANGED <<link, port, asked, incoming, session, messageCounter, call, response>>
  BY DEF linkVars, lines, provider
<1>2. LinksOK' /\ ProviderOK' /\ CallOK'
  BY <1>1 DEF ExInv, LinksOK, Domains, ProviderOK, CallOK, At
<1>3. Engaged' /\ PromisesMatch' /\ ResponsesOK'
  BY <1>1 DEF ExInv, Engaged, PromisesMatch, ResponsesOK, AnswersAreOwn
<1> QED BY <1>2, <1>3 DEF ExInv

\* The executor is called, with no call before it.
Calls(c) ==
    /\ Execute(c) /\ call = NoCall
    /\ c \in Command /\ q'.current = c /\ running' # {}
    /\ UNCHANGED <<session, connecting, response>>

LEMMA CallsQuietly ==
    ASSUME ExInv, NEW c, Calls(c), messageCounter' \in Num, UNCHANGED linkVars, call' = Failed
    PROVE  ExInv'
<1>1. UNCHANGED <<link, port, asked, incoming, session, response>> /\ call.state # "waiting"
  BY CallStates DEF linkVars, lines, Calls
<1>2. \A l \in Links : link[l].pendingReply = None
  BY <1>1, NobodyWaits DEF ExInv
<1>3. LinksOK'
  BY <1>1, <1>2, AnyHand DEF ExInv, LinksOK, Domains
<1>4. ProviderOK' /\ CallOK' /\ ResponsesOK'
  BY <1>1 DEF ExInv, ProviderOK, CallOK, At, ResponsesOK, AnswersAreOwn
<1>5. Engaged'
  BY CallStates DEF Engaged, Calls
<1>6. PromisesMatch'
  <2> SUFFICES ASSUME NEW l \in Links, NEW n \in Num
               PROVE  link'[l].pendingReply # n /\ call' # Awaiting(l, n)
    BY DEF PromisesMatch, Num
  <2> QED BY <1>1, <1>2, NumIsWord, CallStates
<1> QED BY <1>3, <1>4, <1>5, <1>6 DEF ExInv

LEMMA CallsAdapter ==
    ASSUME ExInv, NEW c, Calls(c), NEW n \in Num, messageCounter' = n,
           NEW s \in Links, session = s, link[s].pendingReply = None,
           Send(s, n, Request(c, n)), call' = Awaiting(s, n)
    PROVE  ExInv'
<1>1. call.state # "waiting" /\ c \in Command /\ q'.current = c
      /\ UNCHANGED <<session, response>> /\ running' # {}
  BY CallStates DEF Calls
<1>2. \A l \in Links : link[l].pendingReply = None
  BY <1>1, NobodyWaits DEF ExInv
<1>3. Domains /\ Domains'
  BY DEF ExInv, LinksOK, Domains, Send
<1>4. /\ UNCHANGED <<port, incoming>>
      /\ \A l \in Links \ {s} : link'[l] = link[l] /\ asked'[l] = asked[l]
      /\ asked'[s] = IF port[s] = "open" THEN Append(asked[s], Request(c, n)) ELSE asked[s]
      /\ link'[s] = [link[s] EXCEPT !.pendingReply = n]
  BY <1>3 DEF Domains, Send
<1>5. LinkAt(link[s], port[s], asked[s], incoming[s], q.current) /\ link[s].stage = "ready"
  BY LinkAssumption DEF ExInv, LinksOK, ProviderOK, At
<1>6. /\ DOMAIN link'[s] = FieldNames /\ link'[s].pendingReply = n
      /\ link'[s].stage = "ready" /\ link'[s].receiveBuffer = link[s].receiveBuffer
  BY <1>4, <1>5 DEF LinkAt, FieldNames
<1>7. LinkAt(link'[s], port'[s], asked'[s], incoming'[s], c)
  <2>1. CASE port[s] # "open"
    BY <1>4, <1>5, <1>6, <2>1 DEF LinkAt, NothingDue, RequestDue, ReplyDue
  <2>2. CASE port[s] = "open"
    <3>1. NothingDue(link[s], port[s], asked[s], incoming[s])
      BY <1>5, <2>2, NumIsWord DEF LinkAt, RequestDue, ReplyDue
    <3>2. /\ asked'[s] = <<Request(c, n)>> /\ incoming'[s] = <<>>
          /\ link'[s].receiveBuffer = <<>>
      BY <1>4, <1>5, <1>6, <2>2, <3>1 DEF NothingDue
    <3>3. RequestDue(link'[s], port'[s], asked'[s], incoming'[s], c)
      BY <1>1, <1>4, <1>6, <2>2, <3>2 DEF RequestDue
    <3> QED BY <1>6, <3>3 DEF LinkAt
  <2> QED BY <2>1, <2>2
<1>8. LinksOK'
  <2> SUFFICES ASSUME NEW l \in Links
               PROVE  LinkAt(link'[l], port'[l], asked'[l], incoming'[l], c)
    BY <1>1, <1>3 DEF LinksOK
  <2>1. CASE l # s
    BY <1>2, <1>4, <2>1, AnyHand DEF ExInv, LinksOK
  <2> QED BY <1>7, <2>1
<1>9. ProviderOK' /\ CallOK' /\ ResponsesOK'
  BY <1>1, <1>6 DEF ExInv, ProviderOK, CallOK, At, ResponsesOK, AnswersAreOwn
<1>10. Engaged'
  BY <1>1, CallStates DEF Engaged
<1>11. PromisesMatch'
  <2> SUFFICES ASSUME NEW l \in Links, NEW m \in Num
               PROVE  link'[l].pendingReply = m <=> call' = Awaiting(l, m)
    BY DEF PromisesMatch, Num
  <2>1. CASE l # s
    BY <1>2, <1>4, <2>1, NumIsWord, CallStates
  <2>2. CASE l = s
    BY <1>6, <2>2, CallStates
  <2> QED BY <2>1, <2>2
<1> QED BY <1>8, <1>9, <1>10, <1>11 DEF ExInv

LEMMA ExecuteKeeps ==
    ASSUME ExInv, NEW c, Calls(c)
    PROVE  ExInv'
<1>1. messageCounter \in Num /\ session \in Links \cup {None}
  BY DEF ExInv, ProviderOK
<1>2. NextCounter \in Num
  <2>1. Counters \in Nat /\ Counters > 0
    BY ExchangeAssumption
  <2> QED BY <1>1, <2>1 DEF NextCounter, Num
<1>3. CASE session = None
  BY <1>1, <1>3, CallsQuietly DEF Calls, Execute
<1>4. CASE session # None /\ ~(Sends(session) /\ Builds(KindOf[c]))
  BY <1>2, <1>4, CallsQuietly DEF Calls, Execute
<1>5. CASE session # None /\ Sends(session) /\ Builds(KindOf[c])
  <2>1. PICK n, s : n = NextCounter /\ s = session
    OBVIOUS
  <2>2. /\ n \in Num /\ messageCounter' = n
        /\ s \in Links /\ session = s /\ link[s].pendingReply = None
        /\ Send(s, n, Request(c, n)) /\ call' = Awaiting(s, n)
    BY <1>1, <1>2, <1>5, <2>1 DEF Calls, Execute, Request, Sends
  <2> QED BY <2>2, CallsAdapter
<1> QED BY <1>3, <1>4, <1>5

\* Steps of the queue: each leaves the command in hand where it is, or takes
\* one while there is no call.
LEMMA TakesKeeps ==
    ASSUME ExInv, LineInv, LineInv', Executes,
           running' # running => running = {} /\ running' = {q'.current},
           running' = running => q'.current = q.current \/ running = {}
    PROVE  ExInv'
<1>1. UNCHANGED <<session, connecting, response>>
  BY DEF Executes
<1>2. CASE running' # running
  <2>1. q'.current \in Command
    BY <1>2 DEF LineInv, IInv, TypeOK
  <2>2. Calls(q'.current)
    BY <1>1, <1>2, <2>1 DEF Calls, Executes, ExInv, Engaged
  <2> QED BY <2>2, ExecuteKeeps
<1>3. CASE running' = running
  <2>1. UNCHANGED <<linkVars, provider, call, response>>
    BY <1>1, <1>3 DEF Executes, provider
  <2>2. CASE q'.current = q.current
    BY <1>3, <2>1, <2>2, SameHand
  <2>3. CASE running = {}
    <3>1. call = NoCall /\ call.state # "waiting"
      BY <2>3, CallStates DEF ExInv, Engaged
    <3>2. \A l \in Links : link[l].pendingReply = None
      BY <3>1, NobodyWaits DEF ExInv
    <3>3. UNCHANGED <<link, port, asked, incoming, session, messageCounter, call, response>>
      BY <2>1 DEF linkVars, lines, provider
    <3>4. LinksOK'
      BY <3>2, <3>3, AnyHand DEF ExInv, LinksOK, Domains
    <3>5. ProviderOK' /\ CallOK'
      BY <3>1, <3>3 DEF ExInv, ProviderOK, CallOK, At
    <3>6. Engaged' /\ PromisesMatch' /\ ResponsesOK'
      BY <1>3, <3>3 DEF ExInv, Engaged, PromisesMatch, ResponsesOK, AnswersAreOwn
    <3> QED BY <3>4, <3>5, <3>6 DEF ExInv
  <2> QED BY <1>3, <2>2, <2>3
<1> QED BY <1>2, <1>3

LEMMA AcceptKeeps ==
    ASSUME ExInv, LineInv, LineInv', NEW c \in Command, Accept(c)
    PROVE  ExInv'
<1>1. q \in QueueType(Command) /\ running \subseteq {q.current} /\ running' \subseteq {q'.current}
  BY DEF LineInv, IInv, TypeOK, Serialized
<1>2. Executes /\ q' = Push(q, c)
      /\ running' = IF q.current = Idle THEN running \cup {q'.current} ELSE running
  BY DEF Accept, SendAccepted, Becomes
<1>3. CASE q.current = Idle
  <2>1. running = {} /\ running' = {q'.current}
    BY <1>2, <1>3 DEF LineInv, InHand
  <2> QED BY <1>2, <2>1, TakesKeeps
<1>4. CASE q.current # Idle
  <2>1. running' = running /\ q'.current = q.current
    BY <1>1, <1>2, <1>4 DEF Push, QueueType
  <2> QED BY <1>2, <2>1, TakesKeeps
<1> QED BY <1>3, <1>4

LEMMA ResumeKeeps ==
    ASSUME ExInv, LineInv, LineInv', Resume
    PROVE  ExInv'
<1>1. Executes /\ settled # "none"
      /\ running' = IF Advance(q).current # Idle THEN running \cup {q'.current} ELSE running
  BY DEF Resume, DrainResumes, Becomes
<1>2. running = {}
  BY <1>1 DEF LineInv, IInv, Resumable
<1>3. running' # running => running = {} /\ running' = {q'.current}
  BY <1>1, <1>2
<1> QED BY <1>1, <1>2, <1>3, TakesKeeps

LEMMA QueueAloneKeeps ==
    ASSUME ExInv, LineInv,
           SetUp \/ Drop \/ End \/ \E c \in Command : Refuse(c)
    PROVE  ExInv'
<1>1. q \in QueueType(Command)
  BY DEF LineInv, IInv, TypeOK
<1>2. UNCHANGED <<linkVars, provider, call, response>>
  BY DEF SetUp, Drop, End, Refuse, NoExchange
<1>3. q'.current = q.current /\ running' = running
  <2>1. CASE SetUp
    BY <1>1, <2>1 DEF SetUp, SetsExecutor, Becomes, SetExecutor, QueueType
  <2>2. CASE Drop
    BY <1>1, <2>2 DEF Drop, DrainsWith, Becomes, DrainWith, QueueType
  <2>3. CASE End
    BY <1>1, <2>3 DEF End, Dispose, Becomes, DisposeQueue, DrainWith, QueueType
  <2>4. CASE \E c \in Command : Refuse(c)
    BY <2>4 DEF Refuse, SendRefused
  <2> QED BY <2>1, <2>2, <2>3, <2>4
<1> QED BY <1>2, <1>3, SameHand

LEMMA CallEndsKeeps ==
    ASSUME ExInv, LineInv, CallEnds
    PROVE  ExInv'
<1>1. /\ call.state \in {"failed", "replied"} /\ call' = NoCall /\ q' = q
      /\ running' = running \ {q.current} /\ q.current \in running
      /\ UNCHANGED <<linkVars, provider>>
  BY DEF CallEnds, ExecutorSettles
<1>2. UNCHANGED <<link, port, asked, incoming, session, messageCounter>>
  BY <1>1 DEF linkVars, lines, provider
<1>3. LinksOK' /\ ProviderOK' /\ CallOK'
  BY <1>1, <1>2 DEF ExInv, LinksOK, Domains, ProviderOK, CallOK, At
<1>4. Engaged'
  BY <1>1 DEF Engaged, LineInv, IInv, Serialized
<1>5. PromisesMatch'
  <2>1. \A l \in Links : link[l].pendingReply = None
    BY <1>1, NobodyWaits DEF ExInv
  <2> SUFFICES ASSUME NEW l \in Links, NEW n \in Num
               PROVE  link'[l].pendingReply # n /\ call' # Awaiting(l, n)
    BY DEF PromisesMatch, Num
  <2> QED BY <1>1, <1>2, <2>1, NumIsWord, CallStates
<1>6. ResponsesOK'
  <2>1. PICK c : c = q.current
    OBVIOUS
  <2>2. c \in Command
    BY <1>1, <2>1 DEF LineInv, IInv, TypeOK
  <2>3. CASE call.state = "replied"
    <3>1. PICK n \in Num : call = Replied(Told(c, n))
      BY <2>1, <2>3, CallStates DEF ExInv, CallOK
    <3>2. response' = [response EXCEPT ![c] = Parse(KindOf[c], DecodePacket(Told(c, n)))]
      <4>1. response' = [response EXCEPT ![c] = Parse(KindOf[c], DecodePacket(call.packet))]
        BY <2>1, <2>3 DEF CallEnds
      <4>2. call.packet = Told(c, n)
        BY <3>1, CallStates
      <4> QED BY <4>1, <4>2
    <3>3. Truthful(Parse(KindOf[c], DecodePacket(Told(c, n))), c, KindOf[c])
      BY <2>2, <3>1, NumIsWord, TruthIsTold
    <3>4. PICK answer : answer = Parse(KindOf[c], DecodePacket(Told(c, n)))
      OBVIOUS
    <3>5. /\ DOMAIN response' = Command /\ response'[c] = answer
          /\ \A d \in Command \ {c} : response'[d] = response[d]
      BY <2>2, <3>2, <3>4 DEF ExInv, ResponsesOK
    <3> QED BY <3>3, <3>4, <3>5 DEF ExInv, ResponsesOK, AnswersAreOwn
  <2>4. CASE call.state # "replied"
    BY <2>4 DEF CallEnds, ExInv, ResponsesOK, AnswersAreOwn
  <2> QED BY <2>3, <2>4
<1> QED BY <1>3, <1>4, <1>5, <1>6 DEF ExInv

-----------------------------------------------------------------------------
(* Steps of one link.                                                        *)

\* What an adapter says as its fields go from f to g, with command c in hand:
\* its promise is kept, or is given up as it says why.
Tells(f, g, says, c) ==
    \/ g.pendingReply = f.pendingReply /\ says = Nothing
    \/ f.pendingReply # None /\ g.pendingReply = None /\ says = Rejection
    \/ /\ f.pendingReply \in Num /\ g.pendingReply = None /\ c \in Command
       /\ says \in {Reply(Told(c, f.pendingReply)), Reply(Refusal(c, f.pendingReply))}

\* Link l alone changes, and tells the call something.
LinkSteps(l, says) ==
    /\ Domains'
    /\ \A o \in Links \ {l} : /\ link'[o] = link[o] /\ port'[o] = port[o]
                              /\ asked'[o] = asked[o] /\ incoming'[o] = incoming[o]
    /\ LinkAt(link'[l], port'[l], asked'[l], incoming'[l], q.current)
    /\ Tells(link[l], link'[l], says, q.current)
    /\ Hears(l, says)
    /\ UNCHANGED <<q, running, response>>

\* The session stays, unless it is l and l is no longer ready.
Seated(l) ==
    /\ messageCounter' \in Num
    /\ \/ session' = None
       \/ session' = l /\ link'[l].stage = "ready"
       \/ session' = session /\ session # l

LEMMA LinkStepKeeps ==
    ASSUME ExInv, NEW l \in Links, NEW says, LinkSteps(l, says), Seated(l)
    PROVE  ExInv'
<1>1. UNCHANGED <<q, running, response>> /\ Domains'
  BY DEF LinkSteps
<1>2. LinksOK'
  <2> SUFFICES ASSUME NEW o \in Links
               PROVE  LinkAt(link'[o], port'[o], asked'[o], incoming'[o], q.current)
    BY <1>1 DEF LinksOK
  <2> QED BY DEF LinkSteps, ExInv, LinksOK
<1>3. ProviderOK'
  BY DEF ExInv, ProviderOK, Seated, LinkSteps, At
<1>4. ResponsesOK'
  BY <1>1 DEF ExInv, ResponsesOK, AnswersAreOwn
<1>5. \A o \in Links \ {l} : link'[o] = link[o]
  BY DEF LinkSteps
<1>6. CASE link'[l].pendingReply = link[l].pendingReply /\ says = Nothing
  <2>1. call' = call
    BY <1>6, CallStates DEF LinkSteps, Hears
  <2>2. CallOK' /\ Engaged'
    BY <1>1, <2>1 DEF ExInv, CallOK, Engaged
  <2>3. PromisesMatch'
    BY <1>5, <1>6, <2>1 DEF ExInv, PromisesMatch
  <2> QED BY <1>2, <1>3, <1>4, <2>2, <2>3 DEF ExInv
<1>7. CASE link[l].pendingReply # None /\ link'[l].pendingReply = None /\ says # Nothing
  <2>1. PICK n : n = link[l].pendingReply
    OBVIOUS
  <2>2. n \in Num
    BY <1>7, <2>1 DEF ExInv, LinksOK, LinkAt
  <2>3. call = Awaiting(l, n) /\ call.state = "waiting" /\ call.on = l /\ call.counter = n
    BY <2>1, <2>2, CallStates DEF ExInv, PromisesMatch, Num
  <2>4. CallOK' /\ call' # NoCall /\ call'.state # "waiting"
    <3>1. CASE says = Rejection
      <4>1. call' = Failed
        BY <2>3, <3>1, CallStates DEF LinkSteps, Hears
      <4> QED BY <4>1, CallStates DEF CallOK
    <3>2. CASE q.current \in Command /\ says = Reply(Told(q.current, n))
      <4>1. Succeeds(Told(q.current, n), n)
        BY <2>2, <3>2, NumIsWord, Verdicts
      <4>2. call' = Replied(Told(q.current, n))
        BY <2>3, <3>2, <4>1, CallStates DEF LinkSteps, Hears
      <4> QED BY <1>1, <2>2, <3>2, <4>2, CallStates DEF CallOK
    <3>3. CASE q.current \in Command /\ says = Reply(Refusal(q.current, n))
      <4>1. ~Succeeds(Refusal(q.current, n), n)
        BY <2>2, <3>3, NumIsWord, Verdicts
      <4>2. call' = Failed
        BY <2>3, <3>3, <4>1, CallStates DEF LinkSteps, Hears
      <4> QED BY <4>2, CallStates DEF CallOK
    <3> QED BY <1>7, <2>1, <3>1, <3>2, <3>3 DEF LinkSteps, Tells
  <2>5. Engaged'
    BY <1>1, <2>3, <2>4, CallStates DEF ExInv, Engaged
  <2>6. PromisesMatch'
    <3> SUFFICES ASSUME NEW o \in Links, NEW m \in Num
                 PROVE  link'[o].pendingReply # m /\ call' # Awaiting(o, m)
      BY DEF PromisesMatch, Num
    <3>1. call' # Awaiting(o, m)
      BY <2>4, CallStates
    <3>2. CASE o = l
      BY <1>7, <3>1, <3>2, NumIsWord
    <3>3. CASE o # l
      <4>1. call # Awaiting(o, m)
        BY <2>3, <3>3, CallStates
      <4>2. link[o].pendingReply # m
        BY <4>1 DEF ExInv, PromisesMatch, Num
      <4> QED BY <1>5, <3>1, <3>3, <4>2
    <3> QED BY <3>2, <3>3
  <2> QED BY <1>2, <1>3, <1>4, <2>4, <2>5, <2>6 DEF ExInv
<1> QED
  <2>1. Nothing # Rejection /\ \A p : Nothing # Reply(p)
    BY CallStates
  <2> QED BY <1>6, <1>7, <2>1, NumIsWord DEF LinkSteps, Tells

\* The stages of open() and close(), in which there is no promise.
LEMMA StageKeeps ==
    ASSUME ExInv, NEW l \in Links, link[l].pendingReply = None,
           Domains', NEW g, link' = [link EXCEPT ![l] = g],
           DOMAIN g = FieldNames, g.pendingReply = None,
           \A o \in Links \ {l} :
               port'[o] = port[o] /\ asked'[o] = asked[o] /\ incoming'[o] = incoming[o],
           \/ g.stage = "closing"
           \/ port'[l] # "open" /\ asked'[l] = <<>> /\ incoming'[l] = <<>>
           \/ NothingDue(g, port'[l], asked'[l], incoming'[l]),
           UNCHANGED <<q, running, call, response>>, Seated(l)
    PROVE  ExInv'
<1>1. link'[l] = g /\ \A o \in Links \ {l} : link'[o] = link[o]
  BY DEF ExInv, LinksOK, Domains
<1>2. LinkSteps(l, Nothing)
  BY <1>1, CallStates DEF LinkSteps, LinkAt, Tells, Hears
<1> QED BY <1>2, LinkStepKeeps

\* A link in one of its stages, and not ready: it has no promise.
LEMMA Unready ==
    ASSUME ExInv, NEW l \in Links, link[l].stage # "ready"
    PROVE  /\ link[l].pendingReply = None /\ DOMAIN link[l] = FieldNames
           /\ session # l
           /\ \/ link[l].stage = "closing"
              \/ port[l] # "open" /\ asked[l] = <<>> /\ incoming[l] = <<>>
              \/ port[l] = "open" /\ asked[l] = <<>> /\ incoming[l] = <<>>
<1>1. LinkAt(link[l], port[l], asked[l], incoming[l], q.current)
  BY DEF ExInv, LinksOK
<1>2. link[l].pendingReply = None /\ DOMAIN link[l] = FieldNames
  BY <1>1 DEF LinkAt
<1>3. session # l
  BY LinkAssumption DEF ExInv, ProviderOK, At
<1>4. /\ ~RequestDue(link[l], port[l], asked[l], incoming[l], q.current)
      /\ ~ReplyDue(link[l], port[l], asked[l], incoming[l], q.current)
  BY <1>2, NumIsWord DEF RequestDue, ReplyDue
<1> QED BY <1>1, <1>2, <1>3, <1>4 DEF LinkAt, NothingDue

\* A step from one stage to another, none of them "ready" or "closing".
LEMMA StageStep ==
    ASSUME ExInv, NEW l \in Links, NEW from, NEW to,
           At(l, from), from \notin {"ready", "closing"}, to \notin {"ready", "closing"},
           Stage(l, to),
           UNCHANGED <<asked, incoming>>,
           port' = port \/ port' = [port EXCEPT ![l] = "open"],
           UNCHANGED <<q, running, session, messageCounter, call, response>>
    PROVE  ExInv'
<1>1. PICK g : g = [link[l] EXCEPT !.stage = to]
  OBVIOUS
<1>2. Domains
  BY DEF ExInv, LinksOK
<1>3. link' = [link EXCEPT ![l] = g] /\ Domains'
  BY <1>1, <1>2 DEF Stage, Domains
<1>4. /\ link[l].pendingReply = None /\ DOMAIN link[l] = FieldNames /\ session # l
      /\ asked[l] = <<>> /\ incoming[l] = <<>>
  BY Unready DEF At
<1>5. DOMAIN g = FieldNames /\ g.pendingReply = None /\ g.stage = to
  BY <1>1, <1>4 DEF FieldNames
<1>6. \A o \in Links \ {l} :
          port'[o] = port[o] /\ asked'[o] = asked[o] /\ incoming'[o] = incoming[o]
  BY <1>2 DEF Domains
<1>7. port'[l] # "open" \/ NothingDue(g, port'[l], asked'[l], incoming'[l])
  BY <1>4, <1>5 DEF NothingDue
<1>8. Seated(l)
  BY <1>4 DEF Seated, ExInv, ProviderOK
<1>9. asked'[l] = <<>> /\ incoming'[l] = <<>>
  BY <1>4
<1> QED BY <1>3, <1>4, <1>5, <1>6, <1>7, <1>8, <1>9, StageKeeps

LEMMA OpeningKeeps ==
    ASSUME ExInv, NEW l \in Links,
           Connect(l) \/ Opens(l) \/ Asserts(l) \/ ConnectFails(l)
    PROVE  ExInv'
<1>1. UNCHANGED <<q, running, session, messageCounter, call, response>>
  BY DEF Connect, Opens, Asserts, ConnectFails, vars, provider
<1>2. UNCHANGED <<asked, incoming>>
  BY DEF Connect, Opens, Asserts, ConnectFails, Open, PortOpens, DtrSet, OpenFails, DtrFails, lines
<1>3. CASE Connect(l)
  <2>1. At(l, "new") /\ Stage(l, "opening") /\ port' = port
    BY <1>3 DEF Connect, Open, lines
  <2> QED BY <1>1, <1>2, <2>1, StageStep
<1>4. CASE Opens(l)
  <2>1. PICK stage \in {"asserting", "settling"} : Stage(l, stage)
    BY <1>4 DEF Opens, PortOpens
  <2>2. At(l, "opening") /\ port' = [port EXCEPT ![l] = "open"]
    BY <1>4 DEF Opens, PortOpens
  <2>3. stage \notin {"ready", "closing"}
    OBVIOUS
  <2> QED BY <1>1, <1>2, <2>1, <2>2, <2>3, StageStep
<1>5. CASE Asserts(l)
  <2>1. At(l, "asserting") /\ Stage(l, "settling") /\ port' = port
    BY <1>5 DEF Asserts, DtrSet, lines
  <2> QED BY <1>1, <1>2, <2>1, StageStep
<1>6. CASE ConnectFails(l)
  <2>1. CASE OpenFails(l)
    <3>1. At(l, "opening") /\ Stage(l, "new") /\ port' = port
      BY <2>1 DEF OpenFails, lines
    <3> QED BY <1>1, <1>2, <3>1, StageStep
  <2>2. CASE DtrFails(l)
    <3>1. At(l, "asserting") /\ Stage(l, "refused") /\ port' = port
      BY <2>2 DEF DtrFails, lines
    <3> QED BY <1>1, <1>2, <3>1, StageStep
  <2> QED BY <1>6, <2>1, <2>2 DEF ConnectFails
<1> QED BY <1>3, <1>4, <1>5, <1>6

LEMMA ConnectedKeeps ==
    ASSUME ExInv, NEW l \in Links, Connected(l)
    PROVE  ExInv'
<1>1. PICK g : g = Fields("ready", TRUE, <<>>, None)
  OBVIOUS
<1>2. Domains
  BY DEF ExInv, LinksOK
<1>3. /\ At(l, "settling") /\ link' = [link EXCEPT ![l] = g]
      /\ UNCHANGED <<port, asked, incoming, q, running, call, response>>
      /\ session' = l /\ messageCounter' = 0
  BY <1>1 DEF Connected, Settles, lines, vars
<1>4. DOMAIN g = FieldNames /\ g.pendingReply = None /\ g.stage = "ready" /\ g.receiveBuffer = <<>>
  BY <1>1 DEF Fields, FieldNames
<1>5. link[l].pendingReply = None /\ asked[l] = <<>> /\ incoming[l] = <<>>
  BY <1>3, Unready DEF At
<1>6. 0 \in Num
  BY ExchangeAssumption DEF Num
<1>7. Domains' /\ link'[l] = g
  BY <1>2, <1>3 DEF Domains
<1>8. Seated(l)
  BY <1>3, <1>4, <1>6, <1>7 DEF Seated
<1>9. \/ port'[l] # "open" /\ asked'[l] = <<>> /\ incoming'[l] = <<>>
      \/ NothingDue(g, port'[l], asked'[l], incoming'[l])
  BY <1>3, <1>4, <1>5 DEF NothingDue
<1>10. \A o \in Links \ {l} :
          port'[o] = port[o] /\ asked'[o] = asked[o] /\ incoming'[o] = incoming[o]
  BY <1>3
<1> QED BY <1>3, <1>4, <1>5, <1>7, <1>8, <1>9, <1>10, StageKeeps

LEMMA DisconnectedKeeps ==
    ASSUME ExInv, NEW l \in Links, Disconnected(l)
    PROVE  ExInv'
<1>1. Domains
  BY DEF ExInv, LinksOK
<1>2. /\ At(l, "closing") /\ link' = [link EXCEPT ![l] = New]
      /\ port' = [port EXCEPT ![l] = "closed"]
      /\ asked' = [asked EXCEPT ![l] = <<>>] /\ incoming' = [incoming EXCEPT ![l] = <<>>]
      /\ UNCHANGED <<q, running, session, messageCounter, call, response>>
  BY DEF Disconnected, Closes, vars, provider
<1>3. DOMAIN New = FieldNames /\ New.pendingReply = None
  BY DEF New, Fields, FieldNames
<1>4. link[l].pendingReply = None /\ session # l
  BY <1>2, Unready DEF At
<1>5. /\ Domains'
      /\ port'[l] # "open" /\ asked'[l] = <<>> /\ incoming'[l] = <<>>
      /\ \A o \in Links \ {l} :
            port'[o] = port[o] /\ asked'[o] = asked[o] /\ incoming'[o] = incoming[o]
  BY <1>1, <1>2 DEF Domains
<1>6. Seated(l)
  BY <1>2, <1>4 DEF Seated, ExInv, ProviderOK
<1> QED BY <1>2, <1>3, <1>4, <1>5, <1>6, StageKeeps

LEMMA DisconnectKeeps ==
    ASSUME ExInv, Disconnect
    PROVE  ExInv'
<1>1. PICK l : l = session
  OBVIOUS
<1>2. Domains /\ l \in Links
  BY <1>1 DEF ExInv, LinksOK, ProviderOK, Disconnect
<1>3. PICK g : g = Fields("closing", FALSE, <<>>, None)
  OBVIOUS
<1>4. /\ link' = [link EXCEPT ![l] = g] /\ Hears(l, Rejects(l)) /\ session' = None
      /\ UNCHANGED <<port, asked, incoming, q, running, messageCounter, response>>
  BY <1>1, <1>3 DEF Disconnect, Close, lines, vars
<1>5. DOMAIN g = FieldNames /\ g.pendingReply = None /\ g.stage = "closing"
  BY <1>3 DEF Fields, FieldNames
<1>6. Domains' /\ link'[l] = g /\ \A o \in Links \ {l} : link'[o] = link[o]
  BY <1>2, <1>4 DEF Domains
<1>7. Tells(link[l], link'[l], Rejects(l), q.current)
  BY <1>5, <1>6 DEF Tells, Rejects
<1>8. LinkSteps(l, Rejects(l))
  BY <1>4, <1>5, <1>6, <1>7 DEF LinkSteps, LinkAt
<1>9. Seated(l)
  BY <1>4 DEF Seated, ExInv, ProviderOK
<1> QED BY <1>2, <1>8, <1>9, LinkStepKeeps

LEMMA LoseKeeps ==
    ASSUME ExInv, NEW l \in Links, Lose(l)
    PROVE  ExInv'
<1>1. Domains /\ LinkAt(link[l], port[l], asked[l], incoming[l], q.current)
  BY DEF ExInv, LinksOK
<1>2. PICK g, says : g = AfterLoss(l).fields /\ says = AfterLoss(l).says
  OBVIOUS
<1>3. /\ link' = [link EXCEPT ![l] = g] /\ Hears(l, says)
      /\ port' = [port EXCEPT ![l] = "lost"]
      /\ asked' = [asked EXCEPT ![l] = <<>>] /\ incoming' = [incoming EXCEPT ![l] = <<>>]
      /\ UNCHANGED <<q, running, session, messageCounter, response>>
  BY <1>2 DEF Lose, PortDies, Quiet, vars, provider
<1>4. /\ DOMAIN g = FieldNames /\ g.stage = link[l].stage /\ g.pendingReply = None
      /\ Tells(link[l], g, says, q.current)
  <2>1. CASE At(l, "ready")
    <3>1. g = [link[l] EXCEPT !.isOpen = FALSE, !.pendingReply = None] /\ says = Rejects(l)
      BY <1>2, <2>1 DEF AfterLoss
    <3>2. DOMAIN g = FieldNames /\ g.stage = link[l].stage /\ g.pendingReply = None
      BY <1>1, <3>1 DEF LinkAt, FieldNames
    <3> QED BY <3>1, <3>2 DEF Tells, Rejects
  <2>2. CASE ~At(l, "ready")
    <3>1. g = link[l] /\ says = Nothing
      BY <1>2, <2>2 DEF AfterLoss
    <3> QED BY <1>1, <2>2, <3>1 DEF LinkAt, Tells, At
  <2> QED BY <2>1, <2>2
<1>5. /\ Domains' /\ link'[l] = g
      /\ port'[l] = "lost" /\ asked'[l] = <<>> /\ incoming'[l] = <<>>
      /\ \A o \in Links \ {l} : /\ link'[o] = link[o] /\ port'[o] = port[o]
                                /\ asked'[o] = asked[o] /\ incoming'[o] = incoming[o]
  BY <1>1, <1>3 DEF Domains
<1>6. LinkSteps(l, says)
  BY <1>3, <1>4, <1>5 DEF LinkSteps, LinkAt
<1>7. Seated(l)
  BY <1>3, <1>4, <1>5 DEF Seated, ExInv, ProviderOK, At
<1> QED BY <1>6, <1>7, LinkStepKeeps

\* The answers the brick can give to a request with number n.
LEMMA BrickSays ==
    ASSUME NEW c \in Command, NEW n \in Word, NEW r, r = DecodePacket(Request(c, n))
    PROVE  /\ EncodePacket(r.messageCounter,
                  IF r.type = DirectCommandReply THEN DirectReply ELSE SystemReply,
                  Answer(r.payload[1])) = Told(c, n)
           /\ EncodePacket(r.messageCounter,
                  IF r.type = DirectCommandReply THEN DirectReplyError ELSE SystemReplyError,
                  IF r.type = DirectCommandReply THEN <<>> ELSE <<1>>) = Refusal(c, n)
<1>1. r = [messageCounter |-> n, type |-> CommandType(KindOf[c]), payload |-> <<Ask(c)>>]
  BY RequestFacts DEF IsPacket
<1>2. r.messageCounter = n /\ r.type = CommandType(KindOf[c]) /\ r.payload[1] = Ask(c)
  BY <1>1
<1>3. r.type = DirectCommandReply <=> Direct(c)
  BY <1>2 DEF CommandType, DirectCommandReply, SystemCommandReply, Direct
<1> QED BY <1>2, <1>3 DEF Told, Refusal

\* Neither answer is empty.
LEMMA Answers ==
    ASSUME NEW c \in Command, NEW n \in Word, NEW p \in {Told(c, n), Refusal(c, n)}
    PROVE  /\ p \in Seq(Datum) /\ p # <<>>
           /\ \E type, payload : IsPacket(p, n, type, payload)
<1>1. p \in Seq(Datum)
  BY ToldFacts, RefusalFacts
<1>2. PICK type, payload : IsPacket(p, n, type, payload)
  <2>1. CASE p = Told(c, n)
    BY <2>1, ToldFacts
  <2>2. CASE p = Refusal(c, n)
    BY <2>2, RefusalFacts
  <2> QED BY <2>1, <2>2
<1>3. Len(p) = 5 + Len(payload) /\ Len(payload) \in Nat
  BY <1>2 DEF IsPacket
<1>4. p # <<>>
  <2>1. Len(p) # 0
    BY <1>3
  <2>2. Len(<<>>) = 0
    BY EmptySeq
  <2> QED BY <2>1, <2>2
<1> QED BY <1>1, <1>2, <1>4

LEMMA ReachKeeps ==
    ASSUME ExInv, NEW l \in Links, Reach(l)
    PROVE  ExInv'
<1>1. Domains /\ LinkAt(link[l], port[l], asked[l], incoming[l], q.current)
  BY DEF ExInv, LinksOK
<1>2. /\ asked' = [asked EXCEPT ![l] = Tail(@)] /\ asked[l] # <<>>
      /\ UNCHANGED <<link, port, q, running, session, messageCounter, call, response>>
  BY DEF Reach, BrickAnswers, vars, provider
<1>3. PICK r, direct : r = DecodePacket(Head(asked[l])) /\ direct = (r.type = DirectCommandReply)
  OBVIOUS
<1>4. PICK p : /\ incoming' = [incoming EXCEPT ![l] = @ \o p]
               /\ \/ p = EncodePacket(r.messageCounter,
                           IF r.type = DirectCommandReply THEN DirectReply ELSE SystemReply,
                           Answer(r.payload[1]))
                  \/ p = EncodePacket(r.messageCounter,
                           IF r.type = DirectCommandReply THEN DirectReplyError
                           ELSE SystemReplyError,
                           IF r.type = DirectCommandReply THEN <<>> ELSE <<1>>)
  BY <1>3 DEF Reach, BrickAnswers
<1>5. /\ Domains' /\ incoming'[l] = incoming[l] \o p /\ asked'[l] = Tail(asked[l])
      /\ \A o \in Links \ {l} : /\ link'[o] = link[o] /\ port'[o] = port[o]
                                /\ asked'[o] = asked[o] /\ incoming'[o] = incoming[o]
  BY <1>1, <1>2, <1>4 DEF Domains
<1>6. Seated(l)
  BY <1>2 DEF Seated, ExInv, ProviderOK, At
<1>7. LinkAt(link[l], port[l], asked'[l], incoming'[l], q.current)
  <2>1. CASE link[l].stage = "closing"
    BY <1>1, <2>1 DEF LinkAt
  <2>2. CASE link[l].stage # "closing"
    <3>1. RequestDue(link[l], port[l], asked[l], incoming[l], q.current)
      BY <1>1, <1>2, <2>2 DEF LinkAt, NothingDue, ReplyDue
    <3>2. PICK c, n : c = q.current /\ n = link[l].pendingReply
      OBVIOUS
    <3>3. c \in Command /\ n \in Num /\ n \in Word
      BY <3>1, <3>2, NumIsWord DEF RequestDue
    <3>4. asked[l] = <<Request(c, n)>> /\ incoming[l] = <<>> /\ link[l].receiveBuffer = <<>>
      BY <3>1, <3>2 DEF RequestDue
    <3>5. Head(asked[l]) = Request(c, n) /\ Tail(asked[l]) = <<>>
      BY <3>4
    <3>6. p \in {Told(c, n), Refusal(c, n)}
      BY <1>3, <1>4, <3>3, <3>5, BrickSays
    <3>7. p \in Seq(Datum) /\ p # <<>>
      BY <3>3, <3>6, Answers
    <3>8. <<>> \o p = p /\ <<>> \in Seq(Datum)
      BY <3>7, ConcatEmptySeq, EmptySeq
    <3>9. asked'[l] = <<>> /\ incoming'[l] = p
      BY <1>5, <3>4, <3>5, <3>8
    <3>10. ReplyDue(link[l], port[l], asked'[l], incoming'[l], q.current)
      BY <3>1, <3>2, <3>3, <3>4, <3>6, <3>7, <3>8, <3>9 DEF ReplyDue, RequestDue
    <3> QED BY <1>1, <3>10 DEF LinkAt
  <2> QED BY <2>1, <2>2
<1>8. LinkSteps(l, Nothing)
  <2>1. link'[l] = link[l] /\ port'[l] = port[l] /\ UNCHANGED <<q, running, call, response>>
    BY <1>2
  <2>2. Tells(link[l], link'[l], Nothing, q.current) /\ Hears(l, Nothing)
    BY <2>1, CallStates DEF Tells, Hears
  <2>3. LinkAt(link'[l], port'[l], asked'[l], incoming'[l], q.current)
    BY <1>7, <2>1
  <2> QED BY <1>2, <1>5, <2>2, <2>3 DEF LinkSteps
<1> QED BY <1>6, <1>8, LinkStepKeeps

\* drainPendingReply() of a buffer, while all that is due with it is the reply
\* awaited or a refusal.
DueDrained(l, n, buffer, rest) ==
    IF rest # <<>>
    THEN [fields |-> Fields(link[l].stage, link[l].isOpen, buffer, n), says |-> Nothing]
    ELSE [fields |-> Fields(link[l].stage, link[l].isOpen, <<>>, None),
          says |-> Reply(buffer \o rest)]

LEMMA DrainedOfDue ==
    ASSUME NEW l \in Links, NEW c \in Command, NEW n \in Num, link[l].pendingReply = n,
           NEW buffer \in Seq(Datum), NEW rest \in Seq(Datum),
           buffer \o rest \in {Told(c, n), Refusal(c, n)}
    PROVE  Drained(l, buffer) = DueDrained(l, n, buffer, rest)
<1>1. n \in Word /\ n # None
  BY NumIsWord
<1>2. PICK p : p = buffer \o rest
  OBVIOUS
<1>3. PICK type, payload : IsPacket(p, n, type, payload)
  BY <1>1, <1>2, Answers
<1>4. p \in Seq(Datum) /\ TotalLength(p) = Len(p)
  BY <1>1, <1>2, <1>3, Answers DEF IsPacket
<1>5. CASE rest # <<>>
  <2>1. ~HasPacket(buffer) /\ Drain(n, buffer) = buffer
    BY <1>2, <1>4, <1>5, BeginningIsKept
  <2> QED BY <1>1, <1>5, <2>1 DEF Drained, DueDrained
<1>6. CASE rest = <<>>
  <2>1. buffer = p
    BY <1>2, <1>6, ConcatEmptySeq
  <2>2. HasPacket(p) /\ Drain(n, p) = p /\ FirstPacket(p) = p /\ AfterFirst(p) = <<>>
    BY <1>3, <1>4, WholeIsTaken
  <2> QED BY <1>1, <1>2, <1>6, <2>1, <2>2 DEF Drained, DueDrained
<1> QED BY <1>5, <1>6

\* The buffer is looked at again with some of what comes in.
Looks(l, some, rest, buffer, d) ==
    /\ At(l, "ready") /\ port[l] = "open"
    /\ buffer = link[l].receiveBuffer \o some
    /\ \/ some = <<>> /\ rest = incoming[l] /\ buffer = link[l].receiveBuffer
       \/ /\ incoming[l] # <<>>
          /\ incoming[l] \in Seq(Datum) =>
                some \in Seq(Datum) /\ rest \in Seq(Datum) /\ incoming[l] = some \o rest
    /\ d = Drained(l, buffer)
    /\ link' = [link EXCEPT ![l] = d.fields] /\ Hears(l, d.says)
    /\ DOMAIN incoming' = Links /\ incoming'[l] = rest
    /\ \A o \in Links \ {l} : incoming'[o] = incoming[o]
    /\ UNCHANGED <<port, asked, q, running, session, messageCounter, response>>

LEMMA DrainKeeps ==
    ASSUME ExInv, NEW l \in Links, NEW some, NEW rest, NEW buffer, NEW d,
           Looks(l, some, rest, buffer, d)
    PROVE  ExInv'
<1> USE DEF Looks
<1>1. Domains /\ LinkAt(link[l], port[l], asked[l], incoming[l], q.current)
  BY DEF ExInv, LinksOK
<1>2. /\ Domains' /\ link'[l] = d.fields /\ port'[l] = port[l] /\ asked'[l] = asked[l]
      /\ incoming'[l] = rest
      /\ \A o \in Links \ {l} : /\ link'[o] = link[o] /\ port'[o] = port[o]
                                /\ asked'[o] = asked[o] /\ incoming'[o] = incoming[o]
  BY <1>1 DEF Domains
<1>3. PICK f, g : f = link[l] /\ g = d.fields
  OBVIOUS
<1>4. f.stage = "ready" /\ link'[l] = g
  BY <1>2, <1>3 DEF At
<1> SUFFICES /\ g.stage = "ready"
             /\ Tells(f, g, d.says, q.current)
             /\ LinkAt(g, port[l], asked[l], rest, q.current)
  <2> SUFFICES ASSUME g.stage = "ready", Tells(f, g, d.says, q.current),
                      LinkAt(g, port[l], asked[l], rest, q.current)
               PROVE  ExInv'
    OBVIOUS
  <2>1. LinkSteps(l, d.says)
    BY <1>2, <1>3 DEF LinkSteps
  <2>2. Seated(l)
    BY <1>4 DEF Seated, ExInv, ProviderOK
  <2> QED BY <2>1, <2>2, LinkStepKeeps
<1>6. CASE NothingDue(f, port[l], asked[l], incoming[l])
  <2>1. /\ some = <<>> /\ rest = <<>> /\ buffer = <<>> /\ f.pendingReply = None
        /\ asked[l] = <<>> /\ incoming[l] = <<>> /\ f.receiveBuffer = <<>>
    BY <1>3, <1>4, <1>6 DEF NothingDue
  <2>2. d = [fields |-> Fields("ready", f.isOpen, <<>>, None), says |-> Nothing]
    BY <1>3, <1>4, <2>1 DEF Drained
  <2>3. /\ DOMAIN g = FieldNames /\ g.stage = "ready" /\ g.receiveBuffer = <<>>
        /\ g.pendingReply = None /\ d.says = Nothing
    <3>1. g = Fields("ready", f.isOpen, <<>>, None) /\ d.says = Nothing
      BY <1>3, <2>2
    <3> QED BY <3>1, FieldsOf
  <2>4. NothingDue(g, port[l], asked[l], rest)
    BY <2>1, <2>3 DEF NothingDue
  <2> QED BY <2>1, <2>3, <2>4 DEF Tells, LinkAt
<1>7. CASE RequestDue(f, port[l], asked[l], incoming[l], q.current)
  <2>1. PICK c, n : c = q.current /\ n = f.pendingReply
    OBVIOUS
  <2>2. /\ some = <<>> /\ rest = <<>> /\ buffer = <<>> /\ c \in Command /\ n \in Num
        /\ asked[l] = <<Request(c, n)>> /\ incoming[l] = <<>> /\ f.receiveBuffer = <<>>
    BY <1>3, <1>7, <2>1 DEF RequestDue
  <2>3. n # None
    BY <2>2, NumIsWord
  <2>4. ~HasPacket(<<>>) /\ Drain(n, <<>>) = <<>>
    <3>1. Len(<<>>) = 0
      BY EmptySeq
    <3>2. ~HasPacket(<<>>)
      BY <3>1 DEF HasPacket
    <3> QED BY <3>2 DEF Drain, Stale
  <2>5. d = [fields |-> Fields("ready", f.isOpen, <<>>, n), says |-> Nothing]
    BY <1>3, <1>4, <2>1, <2>2, <2>3, <2>4 DEF Drained
  <2>6. /\ DOMAIN g = FieldNames /\ g.stage = "ready" /\ g.receiveBuffer = <<>>
        /\ g.pendingReply = n /\ d.says = Nothing
    <3>1. g = Fields("ready", f.isOpen, <<>>, n) /\ d.says = Nothing
      BY <1>3, <2>5
    <3> QED BY <3>1, FieldsOf
  <2>7. RequestDue(g, port[l], asked[l], rest, q.current)
    BY <2>1, <2>2, <2>6 DEF RequestDue
  <2> QED BY <2>1, <2>2, <2>6, <2>7 DEF Tells, LinkAt
<1>8. CASE ReplyDue(f, port[l], asked[l], incoming[l], q.current)
  <2>1. PICK c, n, b, inc : /\ c = q.current /\ n = f.pendingReply
                            /\ b = f.receiveBuffer /\ inc = incoming[l]
    OBVIOUS
  <2>2. /\ c \in Command /\ n \in Num /\ asked[l] = <<>> /\ inc # <<>>
        /\ b \in Seq(Datum) /\ inc \in Seq(Datum) /\ b \o inc \in {Told(c, n), Refusal(c, n)}
    BY <1>8, <2>1 DEF ReplyDue
  <2>3. some \in Seq(Datum) /\ rest \in Seq(Datum) /\ inc = some \o rest
    <3>1. <<>> \in Seq(Datum) /\ <<>> \o inc = inc
      BY <2>2, ConcatEmptySeq, EmptySeq
    <3> QED BY <2>1, <2>2, <3>1
  <2>4. buffer \in Seq(Datum) /\ buffer \o rest = b \o inc
    <3>1. buffer = b \o some
      BY <1>3, <2>1
    <3>2. b \o some \in Seq(Datum) /\ (b \o some) \o rest = b \o (some \o rest)
      <4>1. b \in Seq(Datum) /\ some \in Seq(Datum) /\ rest \in Seq(Datum)
        BY <2>2, <2>3
      <4>2. b \o some \in Seq(Datum)
        BY ONLY <4>1, ConcatProperties
      <4>3. (b \o some) \o rest = b \o (some \o rest)
        BY ONLY <4>1, ConcatAssociative
      <4> QED BY <4>2, <4>3
    <3> QED BY <2>3, <3>1, <3>2
  <2>5. d = IF rest # <<>>
            THEN [fields |-> Fields("ready", f.isOpen, buffer, n), says |-> Nothing]
            ELSE [fields |-> Fields("ready", f.isOpen, <<>>, None), says |-> Reply(b \o inc)]
    <3>1. link[l].pendingReply = n /\ buffer \o rest \in {Told(c, n), Refusal(c, n)}
      BY <1>3, <2>1, <2>2, <2>4
    <3>2. Drained(l, buffer) = DueDrained(l, n, buffer, rest)
      <4>1. /\ l \in Links /\ c \in Command /\ n \in Num
            /\ buffer \in Seq(Datum) /\ rest \in Seq(Datum)
        BY <2>2, <2>3, <2>4
      <4> QED BY ONLY <3>1, <4>1, DrainedOfDue
    <3> QED BY <1>3, <1>4, <2>4, <3>2 DEF DueDrained
  <2>6. CASE rest # <<>>
    <3>1. /\ DOMAIN g = FieldNames /\ g.stage = "ready" /\ g.receiveBuffer = buffer
          /\ g.pendingReply = n /\ d.says = Nothing
      <4>1. g = Fields("ready", f.isOpen, buffer, n) /\ d.says = Nothing
        BY <1>3, <2>5, <2>6
      <4> QED BY ONLY <4>1, FieldsOf
    <3>2. ReplyDue(g, port[l], asked[l], rest, q.current)
      BY <2>1, <2>2, <2>3, <2>4, <2>6, <3>1 DEF ReplyDue
    <3> QED BY <2>1, <2>2, <3>1, <3>2 DEF Tells, LinkAt
  <2>7. CASE rest = <<>>
    <3>1. /\ DOMAIN g = FieldNames /\ g.stage = "ready" /\ g.receiveBuffer = <<>>
          /\ g.pendingReply = None /\ d.says = Reply(b \o inc)
      <4>1. g = Fields("ready", f.isOpen, <<>>, None) /\ d.says = Reply(b \o inc)
        BY <1>3, <2>5, <2>7
      <4> QED BY <4>1, FieldsOf
    <3>2. NothingDue(g, port[l], asked[l], rest)
      BY <2>2, <2>7, <3>1 DEF NothingDue
    <3>3. Tells(f, g, d.says, q.current)
      BY <2>1, <2>2, <3>1 DEF Tells
    <3> QED BY <3>1, <3>2, <3>3 DEF LinkAt
  <2> QED BY <2>6, <2>7
<1> QED BY <1>1, <1>3, <1>4, <1>6, <1>7, <1>8 DEF LinkAt

LEMMA WrittenKeeps ==
    ASSUME ExInv, NEW l \in Links, Written(l)
    PROVE  ExInv'
<1>1. Domains /\ LinkAt(link[l], port[l], asked[l], incoming[l], q.current)
  BY DEF ExInv, LinksOK
<1>2. PICK d : d = AfterWrite(l)
  OBVIOUS
<1>3. /\ At(l, "ready") /\ link' = [link EXCEPT ![l] = d.fields] /\ Hears(l, d.says)
      /\ UNCHANGED <<port, asked, incoming, q, running, session, messageCounter, response>>
  BY <1>2 DEF Written, WriteCompletes, Quiet, vars, provider
<1>4. CASE port[l] = "open"
  <2>1. PICK b, rest : b = link[l].receiveBuffer /\ rest = incoming[l]
    OBVIOUS
  <2>2. d = Drained(l, b)
    BY <1>2, <1>4, <2>1 DEF AfterWrite
  <2>3. DOMAIN incoming' = Links /\ incoming'[l] = rest /\ UNCHANGED incoming
    BY <1>1, <1>3, <2>1 DEF Domains
  <2>4. CASE b \in Seq(Datum)
    <3>1. b = b \o <<>>
      BY <2>4, ConcatEmptySeq
    <3>2. Looks(l, <<>>, rest, b, d)
      BY <1>3, <1>4, <2>1, <2>2, <2>3, <3>1 DEF Looks
    <3> QED BY <3>2, DrainKeeps
  <2>5. CASE b \notin Seq(Datum)
    <3>1. FALSE
      <4>1. <<>> \in Seq(Datum)
        BY EmptySeq
      <4> QED BY <1>1, <1>3, <1>4, <2>1, <2>5, <4>1
              DEF LinkAt, At, NothingDue, RequestDue, ReplyDue
    <3> QED BY <3>1
  <2> QED BY <2>4, <2>5
<1>5. CASE port[l] # "open"
  <2>1. PICK g : g = [link[l] EXCEPT !.pendingReply = None]
    OBVIOUS
  <2>2. d.fields = g /\ d.says = Rejects(l)
    BY <1>2, <1>5, <2>1 DEF AfterWrite
  <2>3. /\ DOMAIN g = FieldNames /\ g.stage = "ready" /\ g.pendingReply = None
        /\ link[l].stage = "ready"
    BY <1>1, <1>3, <2>1 DEF LinkAt, At, FieldNames
  <2>4. asked[l] = <<>> /\ incoming[l] = <<>>
    BY <1>1, <1>5, <2>3 DEF LinkAt, NothingDue, RequestDue, ReplyDue
  <2>5. Domains' /\ link'[l] = g /\ \A o \in Links \ {l} : link'[o] = link[o]
    BY <1>1, <1>3, <2>2 DEF Domains
  <2>6. LinkSteps(l, Rejects(l))
    <3>1. Tells(link[l], link'[l], Rejects(l), q.current)
      BY <2>3, <2>5 DEF Tells, Rejects
    <3>2. LinkAt(link'[l], port'[l], asked'[l], incoming'[l], q.current)
      BY <1>3, <1>5, <2>3, <2>4, <2>5 DEF LinkAt
    <3> QED BY <1>3, <2>2, <2>5, <3>1, <3>2 DEF LinkSteps
  <2>7. Seated(l)
    BY <1>3, <2>3, <2>5 DEF Seated, ExInv, ProviderOK
  <2> QED BY <2>6, <2>7, LinkStepKeeps
<1> QED BY <1>4, <1>5

\* Some of a sequence, and the rest of it.
LEMMA Parted ==
    ASSUME NEW S, NEW s \in Seq(S), NEW n \in 1..Len(s)
    PROVE  /\ SubSeq(s, 1, n) \in Seq(S) /\ SubSeq(s, n + 1, Len(s)) \in Seq(S)
           /\ s = SubSeq(s, 1, n) \o SubSeq(s, n + 1, Len(s))
<1>1. PICK m : m = Len(s)
  OBVIOUS
<1>2. m \in Nat /\ n \in 1..m /\ n \in Int /\ n + 1 \in Int /\ m \in Int
      /\ \A i \in 1..m : s[i] \in S
  BY <1>1, LenProperties, ElementOfSeq
<1>3. /\ SubSeq(s, 1, n) \in Seq(S) /\ Len(SubSeq(s, 1, n)) = n
      /\ \A i \in 1..n : SubSeq(s, 1, n)[i] = s[i]
  <2>1. 1 \in Int /\ n \in Int /\ \A i \in 1..n : s[i] \in S
    BY <1>2
  <2>2. /\ SubSeq(s, 1, n) \in Seq(S)
        /\ Len(SubSeq(s, 1, n)) = IF 1 <= n THEN n - 1 + 1 ELSE 0
        /\ \A i \in 1..(n - 1 + 1) : SubSeq(s, 1, n)[i] = s[1 + i - 1]
    BY ONLY <2>1, SubSeqProperties
  <2> QED BY <1>2, <2>2
<1>4. PICK k : k = n + 1
  OBVIOUS
<1>5. /\ SubSeq(s, k, m) \in Seq(S) /\ Len(SubSeq(s, k, m)) = m - n
      /\ \A i \in 1..(m - n) : SubSeq(s, k, m)[i] = s[n + i]
  <2>1. k \in Int /\ m \in Int /\ \A i \in k..m : s[i] \in S
    BY <1>2, <1>4
  <2>2. /\ SubSeq(s, k, m) \in Seq(S)
        /\ Len(SubSeq(s, k, m)) = IF k <= m THEN m - k + 1 ELSE 0
        /\ \A i \in 1..(m - k + 1) : SubSeq(s, k, m)[i] = s[k + i - 1]
    BY ONLY <2>1, SubSeqProperties
  <2> QED BY <1>2, <1>4, <2>2
<1>6. PICK a, b : a = SubSeq(s, 1, n) /\ b = SubSeq(s, k, m)
  OBVIOUS
<1>7. s = a \o b
  <2>1. a \in Seq(S) /\ b \in Seq(S) /\ Len(a) = n /\ Len(b) = m - n
    BY <1>3, <1>5, <1>6
  <2>2. /\ a \o b \in Seq(S) /\ Len(a \o b) = Len(a) + Len(b)
        /\ \A i \in 1..(Len(a) + Len(b)) :
               (a \o b)[i] = IF i <= Len(a) THEN a[i] ELSE b[i - Len(a)]
    BY ONLY <2>1, ConcatProperties
  <2>3. Len(a \o b) = Len(s)
    BY <1>1, <1>2, <2>1, <2>2
  <2>4. ASSUME NEW i \in 1..Len(s) PROVE s[i] = (a \o b)[i]
    <3>1. CASE i <= n
      BY <1>1, <1>2, <1>3, <1>6, <2>1, <2>2, <3>1
    <3>2. CASE i > n
      <4>1. i - n \in 1..(m - n) /\ n + (i - n) = i
        BY <1>1, <1>2, <3>2
      <4>2. b[i - n] = s[i]
        BY <1>5, <1>6, <4>1
      <4> QED BY <1>1, <1>2, <2>1, <2>2, <3>2, <4>2
    <3>3. i <= n \/ i > n
      BY <1>1, <1>2
    <3> QED BY ONLY <3>1, <3>2, <3>3
  <2>5. s \in Seq(S) /\ a \o b \in Seq(S) /\ Len(s) = Len(a \o b)
        /\ \A i \in 1..Len(s) : s[i] = (a \o b)[i]
    BY <2>2, <2>3, <2>4
  <2> QED BY ONLY <2>5, SeqEqual
<1> QED BY <1>1, <1>3, <1>4, <1>5, <1>6, <1>7

LEMMA ReceiveKeeps ==
    ASSUME ExInv, NEW l \in Links, Receive(l)
    PROVE  ExInv'
<1>1. PICK n : DataArrives(l, n) /\ Hears(l, AfterData(l, n).says) /\ Quiet
  BY DEF Receive
<1>2. PICK inc, some, rest, buffer, d :
          /\ inc = incoming[l] /\ some = SubSeq(inc, 1, n) /\ rest = SubSeq(inc, n + 1, Len(inc))
          /\ buffer = link[l].receiveBuffer \o some /\ d = AfterData(l, n)
  OBVIOUS
<1>3. /\ At(l, "ready") /\ port[l] = "open" /\ n \in 1..Len(inc)
      /\ link' = [link EXCEPT ![l] = d.fields] /\ Hears(l, d.says)
      /\ incoming' = [incoming EXCEPT ![l] = rest]
      /\ UNCHANGED <<port, asked, q, running, session, messageCounter, response>>
  BY <1>1, <1>2 DEF DataArrives, Quiet, vars, provider
<1>4. d = Drained(l, buffer)
  BY <1>2 DEF AfterData
<1>5. inc \in Seq(Datum) => some \in Seq(Datum) /\ rest \in Seq(Datum) /\ inc = some \o rest
  <2> SUFFICES ASSUME inc \in Seq(Datum)
               PROVE  some \in Seq(Datum) /\ rest \in Seq(Datum) /\ inc = some \o rest
    OBVIOUS
  <2>1. inc \in Seq(Datum) /\ n \in 1..Len(inc)
    BY <1>3
  <2>2. /\ SubSeq(inc, 1, n) \in Seq(Datum) /\ SubSeq(inc, n + 1, Len(inc)) \in Seq(Datum)
        /\ inc = SubSeq(inc, 1, n) \o SubSeq(inc, n + 1, Len(inc))
    BY ONLY <2>1, Parted
  <2> QED BY <1>2, <2>2
<1>6. inc # <<>>
  <2>1. Len(<<>>) = 0
    BY EmptySeq
  <2> QED BY <1>3, <2>1
<1>7. /\ DOMAIN incoming' = Links /\ incoming'[l] = rest
      /\ \A o \in Links \ {l} : incoming'[o] = incoming[o]
  BY <1>3 DEF ExInv, LinksOK, Domains
<1>8. Looks(l, some, rest, buffer, d)
  BY <1>2, <1>3, <1>4, <1>5, <1>6, <1>7 DEF Looks
<1> QED BY <1>8, DrainKeeps

-----------------------------------------------------------------------------

LEMMA ExchangeStepInv ==
    ASSUME ExInv, LineInv, LineInv', [ExchangeNext]_exchangeVars
    PROVE  ExInv'
<1>1. CASE SetUp \/ Drop \/ End \/ \E c \in Command : Refuse(c)
  BY <1>1, QueueAloneKeeps
<1>2. ASSUME NEW c \in Command, Accept(c) PROVE ExInv'
  BY <1>2, AcceptKeeps
<1>3. CASE Resume
  BY <1>3, ResumeKeeps
<1>4. CASE CallEnds
  BY <1>4, CallEndsKeeps
<1>5. CASE Disconnect
  BY <1>5, DisconnectKeeps
<1>6. ASSUME NEW l \in Links, Connect(l) \/ Opens(l) \/ Asserts(l) \/ ConnectFails(l)
      PROVE  ExInv'
  BY <1>6, OpeningKeeps
<1>7. ASSUME NEW l \in Links, Connected(l) PROVE ExInv'
  BY <1>7, ConnectedKeeps
<1>8. ASSUME NEW l \in Links, Disconnected(l) PROVE ExInv'
  BY <1>8, DisconnectedKeeps
<1>9. ASSUME NEW l \in Links, Written(l) PROVE ExInv'
  BY <1>9, WrittenKeeps
<1>10. ASSUME NEW l \in Links, Receive(l) PROVE ExInv'
  BY <1>10, ReceiveKeeps
<1>11. ASSUME NEW l \in Links, Lose(l) PROVE ExInv'
  BY <1>11, LoseKeeps
<1>12. ASSUME NEW l \in Links, Reach(l) PROVE ExInv'
  BY <1>12, ReachKeeps
<1>13. CASE UNCHANGED exchangeVars
  BY <1>13, SameHand DEF exchangeVars, vars
<1> QED BY <1>1, <1>2, <1>3, <1>4, <1>5, <1>6, <1>7, <1>8, <1>9, <1>10, <1>11, <1>12, <1>13
        DEF ExchangeNext

\* A promise that an adapter holds always has its own reply before it: one
\* place, with the brick, on the way or in the buffer, holds all that is due.
THEOREM ExchangeInvariant == Exchange => []ExInv
<1>1. Exchange => []LineInv
  BY ExchangeIsQueue, QueueInvariant, PTL
<1>2. ExInv /\ LineInv /\ LineInv' /\ [ExchangeNext]_exchangeVars => ExInv'
  BY ExchangeStepInv
<1> QED BY <1>1, <1>2, ExchangeInitInv, PTL DEF Exchange

\* send() of a BtSppAdapter and the reply that settles it stay in step through
\* every loss, close() and late callback: for any adapters and any counters, a
\* promise that an adapter holds is the call that waits for it, so that no
\* request meets the promise of an earlier one.
THEOREM PromisesAreMatched == Exchange => []PromisesMatch
<1>1. ExInv => PromisesMatch
  BY DEF ExInv
<1> QED BY <1>1, ExchangeInvariant, PTL

\* What send() resolves with is what the brick said of that very command, field
\* by field: for any commands and kinds, any cuts of the stream into chunks,
\* and message counters that wrap as early as after two.
THEOREM AnswersAreTheirOwn == Exchange => []AnswersAreOwn
<1>1. ExInv => AnswersAreOwn
  BY DEF ExInv, ResponsesOK
<1> QED BY <1>1, ExchangeInvariant, PTL

\* "already has in-flight send request" (btSppAdapter.ts:189) is never thrown:
\* whenever the queue may call its executor, no adapter holds a promise, not
\* even one that is closing or whose port is gone.
THEOREM NoRequestInTheWay ==
    Exchange => [](running = {} => \A l \in Links : link[l].pendingReply = None)
<1>1. ExInv => (running = {} => \A l \in Links : link[l].pendingReply = None)
  <2> SUFFICES ASSUME ExInv, running = {} PROVE \A l \in Links : link[l].pendingReply = None
    OBVIOUS
  <2>1. call.state # "waiting"
    BY CallStates DEF ExInv, Engaged
  <2> QED BY <2>1, NobodyWaits DEF ExInv
<1> QED BY <1>1, ExchangeInvariant, PTL

-----------------------------------------------------------------------------
(* Nobody waits for what will never come.                                    *)

\* What is left to come of the request with number n that adapter l holds: the
\* callback of a write to a dead port, which rejects it; or the brick has still
\* to answer this request, of the command in hand; or the rest of a whole packet
\* with this number, which is all the buffer will then hold, is on the way.
RejectionDue(l) == port[l] # "open" /\ writing[l] > 0
AnswerDue(l, n) ==
    /\ port[l] = "open" /\ asked[l] # <<>>
    /\ LET request == Head(asked[l]) IN
       /\ Decodes(request) /\ GetMessageCounter(request) = n
       /\ DecodePacket(request).payload = Payload(q.current, KindOf[q.current])
RestDue(l, n) ==
    /\ port[l] = "open" /\ incoming[l] # <<>>
    /\ LET packet == link[l].receiveBuffer \o incoming[l] IN
       Decodes(packet) /\ GetMessageCounter(packet) = n

\* Its adapter listens, holds its promise, and something is left to come of it.
Due(l, n) ==
    /\ At(l, "ready") /\ link[l].pendingReply = n
    /\ RejectionDue(l) \/ AnswerDue(l, n) \/ RestDue(l, n)

SomebodyWaits == \E c \in Command : outcome[c] = "pending"
SomethingComes ==
    \/ settled # "none"
    \/ call.state \in {"failed", "replied"}
    \/ call.state = "waiting" /\ Due(call.on, call.counter)

\* A request that was written to a dead port has its write's callback to come.
WriteAt(l) ==
    /\ writing[l] \in Nat
    /\ link[l].pendingReply # None /\ port[l] # "open" => writing[l] > 0
WriteInv == DOMAIN writing = Links /\ \A l \in Links : WriteAt(l)

\* Writes of link l alone change, if any, and what is written to a dead port is
\* called back for.
LEMMA WriteStep ==
    ASSUME WriteInv, ExInv, NEW l \in Links, DOMAIN writing' = Links,
           \A o \in Links \ {l} :
               link'[o] = link[o] /\ port'[o] = port[o] /\ writing'[o] = writing[o],
           WriteAt(l)'
    PROVE  WriteInv'
BY DEF WriteInv, WriteAt

LEMMA ExecuteWrites ==
    ASSUME ExInv, WriteInv, NEW c, Execute(c)
    PROVE  WriteInv'
<1>1. CASE UNCHANGED linkVars
  BY <1>1 DEF WriteInv, WriteAt, linkVars, lines
<1>2. CASE ~UNCHANGED linkVars
  <2>1. PICK s, n, p : s = session /\ n = NextCounter /\ Send(s, n, p)
    BY <1>2 DEF Execute
  <2>2. s \in Links
    BY <1>2, <2>1 DEF Execute, ExInv, ProviderOK
  <2>3. /\ writing' = [writing EXCEPT ![s] = @ + 1] /\ port' = port
        /\ link' = [link EXCEPT ![s].pendingReply = n]
    BY <2>1 DEF Send
  <2>4. WriteAt(s)' /\ DOMAIN writing' = Links
    BY <2>2, <2>3 DEF WriteInv, WriteAt
  <2>5. \A o \in Links \ {s} :
            link'[o] = link[o] /\ port'[o] = port[o] /\ writing'[o] = writing[o]
    BY <2>3 DEF ExInv, LinksOK, Domains, WriteInv
  <2> QED BY <2>2, <2>4, <2>5, WriteStep
<1> QED BY <1>1, <1>2

LEMMA WritesKept ==
    ASSUME ExInv, ExInv', WriteInv, [ExchangeNext]_exchangeVars
    PROVE  WriteInv'
<1>1. CASE UNCHANGED linkVars
  BY <1>1 DEF WriteInv, WriteAt, linkVars, lines
<1>2. CASE SetUp \/ Drop \/ End \/ CallEnds \/ (\E c \in Command : Refuse(c))
           \/ UNCHANGED exchangeVars
  <2>1. UNCHANGED linkVars
    BY <1>2 DEF SetUp, Drop, End, CallEnds, Refuse, NoExchange, exchangeVars
  <2> QED BY <1>1, <2>1
<1>3. CASE Resume \/ \E c \in Command : Accept(c)
  BY <1>1, <1>3, ExecuteWrites DEF Resume, Accept, Executes
<1>4. ASSUME NEW l \in Links, UNCHANGED writing, DOMAIN writing = Links,
             link'[l].pendingReply = None,
             \A o \in Links \ {l} : link'[o] = link[o] /\ port'[o] = port[o]
      PROVE  WriteInv'
  BY <1>4, WriteStep DEF WriteInv, WriteAt
<1>5. DOMAIN writing = Links /\ Domains /\ Domains'
  BY DEF WriteInv, ExInv, LinksOK
<1>6. CASE Disconnect
  <2>1. /\ session \in Links /\ UNCHANGED <<writing, port>>
        /\ link' = [link EXCEPT ![session] = Fields("closing", FALSE, <<>>, None)]
    BY <1>6 DEF Disconnect, Close, lines, ExInv, ProviderOK
  <2>2. link'[session].pendingReply = None /\ \A o \in Links \ {session} : link'[o] = link[o]
    BY <1>5, <2>1 DEF Domains, Fields
  <2> QED BY <1>4, <1>5, <2>1, <2>2
<1>7. ASSUME NEW l \in Links, Connect(l) \/ Opens(l) \/ Asserts(l) \/ ConnectFails(l) \/ Lose(l)
      PROVE  WriteInv'
  <2>1. UNCHANGED writing
    BY <1>7 DEF Connect, Opens, Asserts, ConnectFails, Lose, Open, PortOpens, DtrSet,
                OpenFails, DtrFails, PortDies, lines
  <2>2. \A o \in Links \ {l} : link'[o] = link[o] /\ port'[o] = port[o]
    BY <1>5, <1>7 DEF Connect, Opens, Asserts, ConnectFails, Lose, Open, PortOpens, DtrSet,
                OpenFails, DtrFails, PortDies, lines, Stage, Domains
  <2>3. CASE Lose(l)
    <3>1. port'[l] = "lost" /\ LinkAt(link'[l], port'[l], asked'[l], incoming'[l], q'.current)
      BY <1>5, <2>3 DEF Lose, PortDies, Domains, ExInv, LinksOK
    <3>2. link' = [link EXCEPT ![l] = AfterLoss(l).fields]
      BY <2>3 DEF Lose, PortDies
    <3>3. CASE At(l, "ready")
      <4>1. link'[l] = [link[l] EXCEPT !.isOpen = FALSE, !.pendingReply = None]
        BY <1>5, <3>2, <3>3 DEF AfterLoss, Domains
      <4>2. DOMAIN link[l] = FieldNames
        BY DEF ExInv, LinksOK, LinkAt
      <4>3. link'[l].pendingReply = None
        BY <4>1, <4>2 DEF FieldNames
      <4> QED BY <1>4, <1>5, <2>1, <2>2, <4>3
    <3>4. CASE ~At(l, "ready")
      <4>1. link'[l] = link[l]
        BY <1>5, <3>2, <3>4 DEF AfterLoss, Domains
      <4>2. link'[l].pendingReply = None
        BY <3>4, <4>1, Unready DEF At
      <4> QED BY <1>4, <1>5, <2>1, <2>2, <4>2
    <3> QED BY <3>3, <3>4
  <2>4. CASE ~Lose(l)
    <3>1. PICK from, to : At(l, from) /\ from # "ready" /\ Stage(l, to)
      BY <1>7, <2>4 DEF Connect, Opens, Asserts, ConnectFails, Open, PortOpens, DtrSet,
                        OpenFails, DtrFails
    <3>2. link[l].pendingReply = None /\ DOMAIN link[l] = FieldNames
      BY <3>1, Unready DEF At
    <3>3. link'[l] = [link[l] EXCEPT !.stage = to]
      BY <1>5, <3>1 DEF Stage, Domains
    <3>4. link'[l].pendingReply = None
      BY <3>2, <3>3 DEF FieldNames
    <3> QED BY <1>4, <1>5, <2>1, <2>2, <3>4
  <2> QED BY <2>3, <2>4
<1>8. ASSUME NEW l \in Links, Connected(l) PROVE WriteInv'
  <2>1. /\ UNCHANGED <<writing, port>>
        /\ link' = [link EXCEPT ![l] = Fields("ready", TRUE, <<>>, None)]
    BY <1>8 DEF Connected, Settles, lines
  <2>2. link'[l].pendingReply = None /\ \A o \in Links \ {l} : link'[o] = link[o]
    BY <1>5, <2>1 DEF Domains, Fields
  <2> QED BY <1>4, <1>5, <2>1, <2>2
<1>9. ASSUME NEW l \in Links, Disconnected(l) PROVE WriteInv'
  <2>1. /\ link' = [link EXCEPT ![l] = New] /\ port' = [port EXCEPT ![l] = "closed"]
        /\ writing' = [writing EXCEPT ![l] = 0]
    BY <1>9 DEF Disconnected, Closes
  <2>2. WriteAt(l)'
    BY <1>5, <2>1 DEF Domains, New, WriteAt, Fields
  <2>3. DOMAIN writing' = Links /\ \A o \in Links \ {l} :
            link'[o] = link[o] /\ port'[o] = port[o] /\ writing'[o] = writing[o]
    BY <1>5, <2>1 DEF Domains
  <2> QED BY <2>2, <2>3, WriteStep
<1>10. ASSUME NEW l \in Links, Written(l) PROVE WriteInv'
  <2>1. /\ writing' = [writing EXCEPT ![l] = @ - 1] /\ port' = port /\ writing[l] > 0
        /\ link' = [link EXCEPT ![l] = AfterWrite(l).fields]
    BY <1>10 DEF Written, WriteCompletes
  <2>2. writing'[l] \in Nat
    BY <1>5, <2>1 DEF WriteInv, WriteAt
  <2>3. port[l] # "open" => link'[l].pendingReply = None
    <3> SUFFICES ASSUME port[l] # "open" PROVE link'[l].pendingReply = None
      OBVIOUS
    <3>1. link'[l] = [link[l] EXCEPT !.pendingReply = None]
      BY <1>5, <2>1 DEF AfterWrite, Domains
    <3>2. DOMAIN link[l] = FieldNames
      BY DEF ExInv, LinksOK, LinkAt
    <3> QED BY <3>1, <3>2 DEF FieldNames
  <2>4. WriteAt(l)'
    BY <2>1, <2>2, <2>3 DEF WriteAt
  <2>5. DOMAIN writing' = Links /\ \A o \in Links \ {l} :
            link'[o] = link[o] /\ port'[o] = port[o] /\ writing'[o] = writing[o]
    BY <1>5, <2>1 DEF Domains
  <2> QED BY <2>4, <2>5, WriteStep
<1>11. ASSUME NEW l \in Links, Receive(l) PROVE WriteInv'
  <2>1. PICK n : DataArrives(l, n)
    BY <1>11 DEF Receive
  <2>2. /\ UNCHANGED <<port, writing>> /\ port[l] = "open"
        /\ link' = [link EXCEPT ![l] = AfterData(l, n).fields]
    BY <2>1 DEF DataArrives
  <2>3. WriteAt(l)'
    BY <2>2 DEF WriteInv, WriteAt
  <2>4. DOMAIN writing' = Links /\ \A o \in Links \ {l} :
            link'[o] = link[o] /\ port'[o] = port[o] /\ writing'[o] = writing[o]
    BY <1>5, <2>2 DEF Domains
  <2> QED BY <2>3, <2>4, WriteStep
<1>12. ASSUME NEW l \in Links, Reach(l) PROVE WriteInv'
  <2>1. UNCHANGED <<link, port, writing>>
    BY <1>12 DEF Reach, BrickAnswers
  <2> QED BY <2>1 DEF WriteInv, WriteAt
<1> QED BY <1>2, <1>3, <1>6, <1>7, <1>8, <1>9, <1>10, <1>11, <1>12 DEF ExchangeNext

LEMMA PromisesAreDue ==
    ASSUME ExInv, WriteInv, NEW l \in Links, NEW n \in Num, link[l].pendingReply = n
    PROVE  Due(l, n)
<1>1. LinkAt(link[l], port[l], asked[l], incoming[l], q.current) /\ WriteAt(l)
  BY DEF ExInv, LinksOK, WriteInv
<1>2. link[l].pendingReply # None /\ n \in Word
  BY NumIsWord
<1>3. At(l, "ready")
  BY <1>1, <1>2 DEF LinkAt, At
<1>4. CASE port[l] # "open"
  BY <1>1, <1>2, <1>3, <1>4 DEF WriteAt, Due, RejectionDue
<1>5. CASE RequestDue(link[l], port[l], asked[l], incoming[l], q.current)
  <2>1. PICK c, r : c = q.current /\ r = Request(c, n)
    OBVIOUS
  <2>2. c \in Command /\ asked[l] = <<r>> /\ port[l] = "open"
    BY <1>5, <2>1 DEF RequestDue
  <2>3. IsPacket(r, n, CommandType(KindOf[c]), <<Ask(c)>>)
    BY <1>2, <2>1, <2>2, RequestFacts
  <2>4. Decodes(r) /\ GetMessageCounter(r) = n /\ DecodePacket(r).payload = <<Ask(c)>>
    BY <2>3 DEF IsPacket
  <2>5. Payload(q.current, KindOf[q.current]) = <<Ask(c)>>
    BY <2>1 DEF Payload, Ask
  <2>6. asked[l] # <<>> /\ Head(asked[l]) = r
    BY <2>2
  <2> QED BY <1>3, <2>2, <2>4, <2>5, <2>6 DEF Due, AnswerDue
<1>6. CASE ReplyDue(link[l], port[l], asked[l], incoming[l], q.current)
  <2>1. PICK c, p : c = q.current /\ p = link[l].receiveBuffer \o incoming[l]
    OBVIOUS
  <2>2. /\ c \in Command /\ incoming[l] # <<>> /\ port[l] = "open"
        /\ p = Told(c, n) \/ p = Refusal(c, n)
    BY <1>6, <2>1 DEF ReplyDue
  <2>3. Decodes(p) /\ GetMessageCounter(p) = n
    BY <1>2, <2>2, ToldFacts, RefusalFacts DEF IsPacket
  <2> QED BY <1>3, <2>1, <2>2, <2>3 DEF Due, RestDue
<1> QED BY <1>1, <1>2, <1>3, <1>4, <1>5, <1>6 DEF LinkAt, NothingDue, At

\* Whoever waits for an answer waits for something that is still to come: the
\* drain loop is to resume, the call has its result, or the very adapter the
\* call waits on listens, holds its promise, and this request is still with the
\* brick, the rest of the packet that answers it is on the way, or the callback
\* that rejects it is due, as after a write to a port that was already dead.
THEOREM NobodyWaitsInVain == Exchange => [](SomebodyWaits => SomethingComes)
<1>1. ExchangeInit => WriteInv
  <2> SUFFICES ASSUME ExchangeInit PROVE WriteInv
    OBVIOUS
  <2>1. writing = [l \in Links |-> 0] /\ link = [l \in Links |-> New]
    BY DEF ExchangeInit, LinksInit
  <2>2. New.pendingReply = None
    BY DEF New, Fields
  <2> QED BY <2>1, <2>2 DEF WriteInv, WriteAt
<1>2. ExInv /\ ExInv' /\ WriteInv /\ [ExchangeNext]_exchangeVars => WriteInv'
  BY WritesKept
<1>3. ExInv /\ WriteInv /\ LineInv => (SomebodyWaits => SomethingComes)
  <2> SUFFICES ASSUME ExInv, WriteInv, LineInv, SomebodyWaits, settled = "none"
               PROVE  \/ call.state \in {"failed", "replied"}
                      \/ call.state = "waiting" /\ Due(call.on, call.counter)
    BY DEF SomethingComes
  <2>1. PICK c \in Command : outcome[c] = "pending"
    BY DEF SomebodyWaits
  <2>2. q.current # Idle
    <3>1. c = q.current \/ \E i \in 1..Len(q.queue) : q.queue[i] = c
      BY <2>1 DEF LineInv, IInv, NobodyForgotten
    <3>2. CASE q.current = Idle
      <4>1. q.queue = <<>> /\ c # q.current
        BY <3>2, CommandAssumption DEF LineInv, InHand
      <4>2. Len(<<>>) = 0
        BY EmptySeq
      <4> QED BY <3>1, <4>1, <4>2
    <3> QED BY <3>2
  <2>3. running # {}
    BY <2>2 DEF LineInv, InHand
  <2>4. CASE call.state # "waiting"
    BY <2>3, <2>4, CallStates DEF ExInv, Engaged, CallOK
  <2>5. CASE call.state = "waiting"
    <3>1. PICK l \in Links, n \in Num : call = Awaiting(l, n)
      BY <2>5, CallStates DEF ExInv, CallOK
    <3>2. link[l].pendingReply = n
      BY <3>1 DEF ExInv, PromisesMatch, Num
    <3>3. Due(l, n)
      BY <3>2, PromisesAreDue
    <3>4. call.on = l /\ call.counter = n
      BY <3>1, CallStates
    <3> QED BY <2>5, <3>3, <3>4
  <2> QED BY <2>4, <2>5
<1>4. Exchange => []LineInv
  BY ExchangeIsQueue, QueueInvariant, PTL
<1> QED BY <1>1, <1>2, <1>3, <1>4, ExchangeInvariant, PTL DEF Exchange
=============================================================================
