----------------------------- MODULE MCLiveness -----------------------------
(* Liveness of the manager on one brick, whose provider has a connection     *)
(* queue or not.  The foreground, the suppressions and dispose() play no part *)
(* in it and are left out of the behaviours to keep them few.                *)
EXTENDS SessionManager

LiveNext ==
    \/ \E k \in Bricks, c \in Calls :
           Disconnect(k, c) \/ \E s \in Sessions : Connect(k, s, c)
    \/ HostStep

LiveSpec == Init /\ [][LiveNext]_vars /\ HostFairness
=============================================================================
