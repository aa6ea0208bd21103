------------------------------ MODULE BrickLife ------------------------------
(***************************************************************************)
(* What the session manager promises whoever looks at its bricks: each has *)
(* one life at a time, which goes from connecting over connected and       *)
(* reconnecting to its end; one brick changes at a time, every change is   *)
(* told at once, and at most one brick is in the foreground, which it      *)
(* keeps until another takes it or its life ends.                          *)
(***************************************************************************)
CONSTANTS Bricks

VARIABLES
    life,       \* life[k]: its connection state, "none" without a session
    told,       \* told[k]: the state announced last
    front,      \* the bricks in the foreground
    over        \* the manager is disposed

lifeVars == <<life, told, front, over>>

Init ==
    /\ life = [k \in Bricks |-> "none"]
    /\ told = [k \in Bricks |-> "disconnected"]
    /\ front = {}
    /\ over = FALSE

\* Nothing is told yet: the brick was disconnected and is not connected.
Begin(k) ==
    /\ ~over
    /\ life[k] = "none"
    /\ life' = [life EXCEPT ![k] = "connecting"]
    /\ UNCHANGED <<told, front, over>>

Stages == {<<"connecting", "connected">>, <<"connected", "reconnecting">>,
           <<"reconnecting", "connected">>}

Advance(k, stage) ==
    /\ <<life[k], stage>> \in Stages
    /\ life' = [life EXCEPT ![k] = stage]
    /\ told' = [told EXCEPT ![k] = stage]
    /\ UNCHANGED <<front, over>>

End(k) ==
    /\ life[k] # "none"
    /\ life' = [life EXCEPT ![k] = "none"]
    /\ told' = [told EXCEPT ![k] = "disconnected"]
    /\ front' = front \ {k}
    /\ UNCHANGED over

\* A brick that is alive takes the foreground from whoever had it.
TakeFront(k) ==
    /\ life[k] # "none"
    /\ front' = {k}
    /\ UNCHANGED <<life, told, over>>

LeaveFront ==
    /\ front' = {}
    /\ UNCHANGED <<life, told, over>>

\* Nobody is told of a life that ends with the manager.
Close ==
    /\ ~over
    /\ over' = TRUE
    /\ life' = [k \in Bricks |-> "none"]
    /\ front' = {}
    /\ UNCHANGED told

Next ==
    \/ \E k \in Bricks : Begin(k) \/ End(k) \/ TakeFront(k)
    \/ \E k \in Bricks : Advance(k, "connected") \/ Advance(k, "reconnecting")
    \/ LeaveFront
    \/ Close

Spec == Init /\ [][Next]_lifeVars
=============================================================================
