-------------------------- MODULE MCReadYourWrite ----------------------------
(* Two posts and a reply to the first article; one post enters at server 1. *)
EXTENDS ReadYourWrite

CONSTANTS p1, p2, re

MCEntry  == [r \in Requests |-> IF r = p2 THEN 1 ELSE 0]
MCParent == [r \in Requests |-> IF r = re THEN 0 ELSE NoParent]
=============================================================================
