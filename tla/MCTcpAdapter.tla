---------------------------- MODULE MCTcpAdapter ----------------------------
(* Two sockets, three message counters, and up to three tokens on the way.  *)
EXTENDS TcpAdapter
=============================================================================
