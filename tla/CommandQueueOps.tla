--------------------------- MODULE CommandQueueOps ---------------------------
(***************************************************************************)
(* The data structure of src/src/runtime/commandQueue.ts as a value.  A    *)
(* queue is a record: the commands waiting in `queue`, the one the drain   *)
(* loop has handed to the executor (`current`, Idle when no loop runs,     *)
(* that is when `processing` is false), whether an executor is set and     *)
(* whether the queue is disposed.  CommandQueue and SessionManager both    *)
(* hold such records; every operator below is one synchronous piece of     *)
(* the class, from its call to its return or to its next await.            *)
(***************************************************************************)
EXTENDS Naturals, Sequences

Idle == "idle"

NewQueue ==
    [queue |-> <<>>, current |-> Idle, executor |-> FALSE, disposed |-> FALSE]

QueueType(Command) ==
    [queue : Seq(Command), current : Command \cup {Idle},
     executor : BOOLEAN, disposed : BOOLEAN]

\* send() gets past its two early rejections.
Accepts(q) == ~q.disposed /\ q.executor

\* One test of drain()'s while condition: take the next command or stop.
Advance(q) ==
    IF q.queue # <<>> /\ ~q.disposed
    THEN [q EXCEPT !.current = Head(q.queue), !.queue = Tail(q.queue)]
    ELSE [q EXCEPT !.current = Idle]

\* Mutant: drain() does not test `processing`.
PushUnserialized(q, command) == Advance([q EXCEPT !.queue = Append(q.queue, command)])

\* The body of send()'s promise: push, then drain(), which returns at once
\* when a drain loop is already running.
Push(q, command) ==
    LET pushed == [q EXCEPT !.queue = Append(q.queue, command)]
    IN  IF q.current = Idle THEN Advance(pushed) ELSE pushed

SetExecutor(q) == [q EXCEPT !.executor = TRUE]

DrainWith(q) == [q EXCEPT !.queue = <<>>]

\* Mutant: the queued commands are kept, neither run nor rejected.
DisposeKeeping(q) == [q EXCEPT !.disposed = TRUE, !.executor = FALSE]

\* The command in flight is not touched: only its executor settles it.
DisposeQueue(q) ==
    [DrainWith(q) EXCEPT !.disposed = TRUE, !.executor = FALSE]
=============================================================================
