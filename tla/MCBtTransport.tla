---------------------------- MODULE MCBtTransport ----------------------------
(* A brick, two backends, a provider and the one that replaces it, and      *)
(* three attempts for one slot.                                             *)
EXTENDS BtTransport
MCBackends == <<"winrt", "spp">>
=============================================================================
