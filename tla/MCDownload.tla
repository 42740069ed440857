----------------------------- MODULE MCDownload ------------------------------
(* A file of two blocks that one of the peers has at the beginning.  MaxPeers is
   1, so that one download exhausts the throughput a peer announces. *)
EXTENDS Download

CONSTANTS b1, b2, p1

MCOriginals == {<<b1, b2>>}

MCInit == Init /\ disk = [p \in Peers |-> IF p = p1 THEN <<b1, b2>> ELSE Absent]

MCSpec == MCInit /\ [][Next]_vars
MCFairSpec == MCSpec /\ Fairness
=============================================================================
