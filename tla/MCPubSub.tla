------------------------------ MODULE MCPubSub -------------------------------
(* A subscription to one originator and one to one organisation; an article for
   each of them alone, and one the server rejects. *)
EXTENDS PubSub, TLC

MCHeader(o, org) == [type |-> "Sports", originator |-> o, org |-> org]

MCPatterns == {MCHeader("Tom", ""), MCHeader("", "ESPN")}
MCArticles == {MCHeader("Tom", "BBC"), MCHeader("Ann", "ESPN"), MCHeader("Tom", "")}

Symmetry == Permutations(Clients)
=============================================================================
