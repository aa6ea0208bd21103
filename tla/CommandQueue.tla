---------------------------- MODULE CommandQueue ----------------------------
(***************************************************************************)
(* The per-brick FIFO command queue, src/src/runtime/commandQueue.ts.      *)
(*                                                                         *)
(* A command is submitted at most once and stands for one call of send();  *)
(* outcome[c] is the promise that call returned.  The executor is the      *)
(* environment: it settles the promise it returned whenever and however it *)
(* likes, and the drain loop resumes in a later microtask, so every other  *)
(* method may run between the two.                                         *)
(***************************************************************************)
EXTENDS CommandQueueOps, FiniteSets

CONSTANT Command

ASSUME CommandAssumption == Idle \notin Command /\ IsFiniteSet(Command)

VARIABLES
    q,          \* the queue object
    outcome,    \* outcome[c]: the promise send(c) returned
    running,    \* commands whose executor promise is not settled
    settled     \* the settled executor promise drain() is about to resume on

vars == <<q, outcome, running, settled>>

Outcomes == {"unsent", "pending", "resolved", "rejected"}

TypeOK ==
    /\ q \in QueueType(Command)
    /\ outcome \in [Command -> Outcomes]
    /\ running \subseteq Command
    /\ settled \in {"none", "resolved", "rejected"}

Init ==
    /\ q = NewQueue
    /\ outcome = [c \in Command |-> "unsent"]
    /\ running = {}
    /\ settled = "none"

\* The queue object becomes next; if its drain loop took a command, the
\* executor is called with it before control returns.
Becomes(next, taken) ==
    /\ q' = next
    /\ running' = IF taken THEN running \cup {next.current} ELSE running

\* Mutant: drained commands are dropped without an answer.
DropQueued(promises) == promises

\* The promises of the commands still in the queue are rejected.
RejectQueued(promises) ==
    [c \in Command |->
        IF \E i \in 1..Len(q.queue) : q.queue[i] = c THEN "rejected" ELSE promises[c]]

-----------------------------------------------------------------------------

SetsExecutor ==
    /\ Becomes(SetExecutor(q), FALSE)
    /\ UNCHANGED <<outcome, settled>>

\* send(c): an immediate rejection, or push and drain.
SendRefused(c) ==
    /\ outcome[c] = "unsent"
    /\ ~Accepts(q)
    /\ outcome' = [outcome EXCEPT ![c] = "rejected"]
    /\ UNCHANGED <<q, running, settled>>

SendAccepted(c) ==
    /\ outcome[c] = "unsent"
    /\ Accepts(q)
    /\ Becomes(Push(q, c), q.current = Idle)
    /\ outcome' = [outcome EXCEPT ![c] = "pending"]
    /\ UNCHANGED settled

DrainsWith ==
    /\ Becomes(DrainWith(q), FALSE)
    /\ outcome' = RejectQueued(outcome)
    /\ UNCHANGED settled

Dispose ==
    /\ Becomes(DisposeQueue(q), FALSE)
    /\ outcome' = RejectQueued(outcome)
    /\ UNCHANGED settled

\* The executor's promise settles; drain() resumes later.
ExecutorSettles ==
    /\ settled = "none"
    /\ q.current \in running
    /\ settled' \in {"resolved", "rejected"}
    /\ running' = running \ {q.current}
    /\ UNCHANGED <<q, outcome>>

\* drain() resumes after its await: settle the caller's promise, then loop.
DrainResumes ==
    /\ settled # "none"
    /\ outcome' = [outcome EXCEPT ![q.current] = settled]
    /\ settled' = "none"
    /\ Becomes(Advance(q), Advance(q).current # Idle)

Next ==
    \/ SetsExecutor
    \/ DrainsWith
    \/ Dispose
    \/ ExecutorSettles
    \/ DrainResumes
    \/ \E c \in Command : SendRefused(c) \/ SendAccepted(c)

Spec == Init /\ [][Next]_vars

-----------------------------------------------------------------------------

\* "Serializes commands to a single brick to ensure firmware safety": never
\* two executor calls outstanding at once, and the one outstanding is the one
\* the drain loop waits for.
Serialized == running \subseteq {q.current}

\* A caller's promise is unsettled exactly while its command is in the queue
\* or in flight: drainWith() and dispose() forget no one, and nobody is told
\* of an outcome while the executor still works for them.
NobodyForgotten ==
    \A c \in Command :
        outcome[c] = "pending" <=>
            \/ c = q.current
            \/ \E i \in 1..Len(q.queue) : q.queue[i] = c

\* The queue implements CommandLine: the line is the command in flight and
\* those waiting behind it.
Waiting == IF q.current = Idle THEN <<>> ELSE <<q.current>> \o q.queue
Desk ==
    IF q.current = Idle /\ running = {} THEN "free"
    ELSE IF running = {q.current} /\ settled = "none" THEN "busy"
    ELSE IF running = {} /\ settled # "none" THEN "done"
    ELSE "confused"

Line == INSTANCE CommandLine WITH line <- Waiting, desk <- Desk

\* Whatever is sent, drained and disposed while the drain loop is suspended,
\* a caller sees one line: commands are run one at a time in the order they
\* were sent, and each promise is settled once, by its own command's end.
ImplementsLine == Line!Spec

\* Every accepted command is answered, whatever is drained or disposed: as
\* each is sent once, it is enough that there are always times when nobody waits.
EverySendSettles == []<>(\A c \in Command : outcome[c] # "pending")
=============================================================================
