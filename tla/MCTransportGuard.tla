--------------------------- MODULE MCTransportGuard ---------------------------
(* One brick, two transports, two commands per window of two ticks.  Bricks   *)
(* share nothing but dispose().                                               *)
EXTENDS TransportGuard
=============================================================================
