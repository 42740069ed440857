---------------------------- MODULE MCSequential -----------------------------
(* Two posts and a reply to the first article, entering at different servers. *)
EXTENDS Sequential

CONSTANTS p1, p2, re

MCEntry  == [r \in Requests |-> IF r = p2 THEN 1 ELSE 0]
MCParent == [r \in Requests |-> IF r = re THEN 0 ELSE NoParent]

\* Somebody has built a response in the buffer of s and not sent it yet.
Unsent(s) ==
  \/ s = 0 /\ \E r \in Requests : pc[r] \in {"sendSuccess", "sendError"}
  \/ s # 0 /\ \E r \in Requests : (Entry[r] = s /\ fwd[r] = "send") \/ pushes[r][s] = "built"

\* READs that overwrite a response; others leave nothing that anybody looks at,
\* as every handler builds its response before it sends.
ReadsMatter ==
  \A s \in Servers :
    response'[s] = "ReadResponse" /\ response[s] # "ReadResponse" => Unsent(s)

MCFairSpec == Init /\ [][Next /\ ReadsMatter]_vars /\ Fairness
=============================================================================
