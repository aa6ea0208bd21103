----------------------- MODULE CommandQueueOpsProofs -----------------------
(***************************************************************************)
(* What the operations of the command queue preserve; cited by the proofs  *)
(* about CommandQueue and about SessionManager.                            *)
(***************************************************************************)
EXTENDS CommandQueueOps, TLAPS

\* Every operation on a queue object yields a queue object: what the session
\* manager's own type invariant rests on.
LEMMA NewQueueType ==
    ASSUME NEW C PROVE NewQueue \in QueueType(C)
BY DEF NewQueue, QueueType

LEMMA AdvanceType ==
    ASSUME NEW C, NEW p \in QueueType(C)
    PROVE  Advance(p) \in QueueType(C)
<1>1. p.queue \in Seq(C) /\ p.executor \in BOOLEAN /\ p.disposed \in BOOLEAN
  BY DEF QueueType
<1>2. CASE p.queue # <<>> /\ ~p.disposed
  <2>1. Head(p.queue) \in C /\ Tail(p.queue) \in Seq(C)
    BY <1>1, <1>2
  <2>2. Advance(p) = [queue |-> Tail(p.queue), current |-> Head(p.queue),
                      executor |-> p.executor, disposed |-> p.disposed]
    BY <1>2 DEF Advance, QueueType
  <2> QED BY <1>1, <2>1, <2>2 DEF QueueType
<1>3. CASE ~(p.queue # <<>> /\ ~p.disposed)
  BY <1>3 DEF Advance, QueueType
<1> QED BY <1>2, <1>3

LEMMA PushType ==
    ASSUME NEW C, NEW p \in QueueType(C), NEW command \in C
    PROVE  Push(p, command) \in QueueType(C)
<1> DEFINE pushed == [p EXCEPT !.queue = Append(p.queue, command)]
<1>1. pushed \in QueueType(C)
  BY DEF QueueType
<1>2. Advance(pushed) \in QueueType(C)
  BY <1>1, AdvanceType
<1> QED BY <1>1, <1>2 DEF Push

LEMMA OperationsType ==
    ASSUME NEW C, NEW p \in QueueType(C)
    PROVE  /\ SetExecutor(p) \in QueueType(C)
           /\ DrainWith(p) \in QueueType(C)
           /\ DisposeQueue(p) \in QueueType(C)
<1>1. <<>> \in Seq(C)
  OBVIOUS
<1>2. SetExecutor(p) \in QueueType(C)
  BY DEF SetExecutor, QueueType
<1>3. DrainWith(p) \in QueueType(C)
  BY <1>1 DEF DrainWith, QueueType
<1>4. DisposeQueue(p) \in QueueType(C)
  BY <1>3 DEF DisposeQueue, QueueType
<1> QED BY <1>2, <1>3, <1>4
=============================================================================
