----------------------------- MODULE MCTracker -------------------------------
(* Peers that may be exchanged for one another. *)
EXTENDS Tracker, TLC

Symmetry == Permutations(Peers)
=============================================================================
