-------------------------- MODULE MCSessionManager --------------------------
(* Two session objects are what a late completion needs: the one that ended  *)
(* and the one that took its place in the map.                               *)
EXTENDS SessionManager, TLC

Symmetry ==
    Permutations(Calls) \cup Permutations(Sessions) \cup Permutations(Bricks)
=============================================================================
