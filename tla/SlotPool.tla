------------------------------- MODULE SlotPool -------------------------------
(***************************************************************************)
(* What the Bluetooth connection queue promises those who share it: at     *)
(* most Slots of them hold a slot, those who wait are served in the order  *)
(* they came, and what is given back is free again, no more and no less.   *)
(* Those who wait may be sent away together.                               *)
(***************************************************************************)
EXTENDS Integers, Sequences, FiniteSets

CONSTANTS Users, Slots

VARIABLES
    waiting,    \* those who wait for a slot, in the order they came
    holders,    \* those who hold one
    free        \* how many slots are free

poolVars == <<waiting, holders, free>>

Init ==
    /\ waiting = <<>>
    /\ holders = {}
    /\ free = Slots

\* The first n of a line get a slot beside those who keep theirs, the others
\* wait.
Give(n, line, keeping) ==
    /\ holders' = keeping \cup {line[i] : i \in 1..n}
    /\ free' = Slots - Cardinality(holders')
    /\ free' >= 0
    /\ waiting' = SubSeq(line, n + 1, Len(line))

\* Some are served, once they have waited long enough.
ServeLater == \E n \in 1..Len(waiting) : Give(n, waiting, holders)

Ask(a) ==
    /\ a \notin holders
    /\ \E n \in 0..(Len(waiting) + 1) : Give(n, Append(waiting, a), holders)

GiveBack(a) ==
    /\ a \in holders
    /\ \E n \in 0..Len(waiting) : Give(n, waiting, holders \ {a})

\* A slot is given back by one who waits for the next at once.
AskAgain(a) ==
    /\ a \in holders
    /\ \E n \in 0..(Len(waiting) + 1) : Give(n, Append(waiting, a), holders \ {a})

\* Several are given back; who is not served then is sent away.
GiveBackAll(back) ==
    \E n \in 0..Len(waiting) :
        /\ holders' = (holders \ back) \cup {waiting[i] : i \in 1..n}
        /\ free' = Slots - Cardinality(holders')
        /\ free' >= 0
        /\ waiting' = <<>>

Next ==
    \/ ServeLater
    \/ \E a \in Users : Ask(a) \/ GiveBack(a) \/ AskAgain(a)
    \/ \E back \in SUBSET holders : GiveBackAll(back)

Spec == Init /\ [][Next]_poolVars
=============================================================================
