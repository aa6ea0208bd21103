----------------------------- MODULE CommandLine -----------------------------
(***************************************************************************)
(* What a brick's command queue promises: its callers stand in one line,   *)
(* only the first is worked for, and each leaves with one answer.  Those   *)
(* behind the first may be sent away together.                             *)
(***************************************************************************)
EXTENDS Naturals, Sequences

CONSTANT Command

VARIABLES
    line,       \* the callers waiting, the one worked for first
    desk,       \* "free", "busy", or "done" with the first in the line
    outcome     \* outcome[c]: what c was told

lineVars == <<line, desk, outcome>>

Init ==
    /\ line = <<>>
    /\ desk = "free"
    /\ outcome = [c \in Command |-> "unsent"]

Join(c) ==
    /\ outcome[c] = "unsent"
    /\ line' = Append(line, c)
    /\ desk' = IF line = <<>> THEN "busy" ELSE desk
    /\ outcome' = [outcome EXCEPT ![c] = "pending"]

TurnAway(c) ==
    /\ outcome[c] = "unsent"
    /\ outcome' = [outcome EXCEPT ![c] = "rejected"]
    /\ UNCHANGED <<line, desk>>

Finish ==
    /\ desk = "busy"
    /\ desk' = "done"
    /\ UNCHANGED <<line, outcome>>

Answer(o) ==
    /\ desk = "done"
    /\ outcome' = [outcome EXCEPT ![Head(line)] = o]
    /\ line' = Tail(line)
    /\ desk' = IF Tail(line) = <<>> THEN "free" ELSE "busy"

SendAway ==
    /\ line # <<>>
    /\ line' = <<Head(line)>>
    /\ outcome' = [c \in Command |->
                      IF \E i \in 2..Len(line) : line[i] = c THEN "rejected" ELSE outcome[c]]
    /\ UNCHANGED desk

Next ==
    \/ \E c \in Command : Join(c) \/ TurnAway(c)
    \/ Finish
    \/ \E o \in {"resolved", "rejected"} : Answer(o)
    \/ SendAway

Spec == Init /\ [][Next]_lineVars
=============================================================================
