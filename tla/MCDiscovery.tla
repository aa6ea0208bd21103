----------------------------- MODULE MCDiscovery -----------------------------
(* One brick, the provider of its transport and the one that replaces it, a *)
(* provider of another transport for scanOnce() to wait for, and two scans. *)
EXTENDS Discovery

CONSTANTS b1, t1, t2, p1, p2, q

MCTransportOf == [b \in Bricks |-> t1]
MCServes == [p \in Providers |-> IF p = q THEN t2 ELSE t1]
=============================================================================
