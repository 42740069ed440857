------------------------------ MODULE MCQuorum -------------------------------
(* A post at server 1; a post, a reply to the first article and a READ at
   server 0. *)
EXTENDS QuorumProtocol, FiniteSets

CONSTANTS
  post, own, reply, read,
  MaxEvents  \* bound of the model: requests and faults together

MCEntry  == [h \in Requests |-> IF h = post THEN 1 ELSE 0]
MCParent == [w \in Writes |-> IF w = reply THEN 0 ELSE NoParent]

Events == Cardinality({h \in Requests : client[h] # "idle"}) + faults

MCSpec == Init /\ [][Next /\ Events' <= MaxEvents]_vars
MCFairSpec == MCSpec /\ Fairness
=============================================================================
