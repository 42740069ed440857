---------------------------- MODULE ReadYourWrite ----------------------------
(***************************************************************************)
(* The read-your-write protocol of the bulletin board                      *)
(* (project_2/server/protocol_readyourwrite.c) with the connection         *)
(* handling below it (shared/net.c, server/msg_handler.c).                 *)
(*                                                                         *)
(* Server 0 is the coordinator and the others forward writes to it.  It    *)
(* commits a write, takes a snapshot, pushes the snapshot to one server    *)
(* after the other and only then answers; a push that fails ends the loop  *)
(* with an error response.  The loop of a POST runs from server 0 to       *)
(* server N-2, so that the coordinator pushes to itself over TCP and the   *)
(* last server is left out; that of a REPLY runs from 1 to N-1.            *)
(*                                                                         *)
(* Databases are sequences of writes and `response' is one buffer for all  *)
(* threads of a server, as in Sequential.                                  *)
(***************************************************************************)
EXTENDS Integers, Sequences

CONSTANTS
  N,            \* server_count
  Requests,     \* the POST and REPLY requests clients make
  Entry,        \* Entry[r] : the server the client of r talks to
  Parent,       \* Parent[r] : the article a REPLY answers, NoParent for a POST
  MaxArticles,  \* MAX_ARTICLES
  MaxFaults     \* bound of the model: waits given up, connections lost, restarts

NoParent == -1
Servers  == 0 .. N - 1

ASSUME SizeAssumption == N \in Nat \ {0} /\ MaxArticles \in Nat \ {0} /\ MaxFaults \in Nat
ASSUME RequestAssumption ==
  /\ Entry \in [Requests -> Servers]
  /\ Parent \in [Requests -> Nat \cup {NoParent}]

VARIABLES
  db,        \* db[s] : the database of server s
  response,  \* response[s] : the global response buffer of server s
  client,    \* client[r] : what the client of r knows
  fwd,       \* fwd[r] : the forwarding handler of r, if it enters elsewhere than at 0
  pc,        \* pc[r] : the coordinator's handler of r
  snap,      \* snap[r] : db_snapshot of that handler, and what its pushes carry
  next,      \* next[r] : i of its push loop
  pushes,    \* pushes[r][i] : the DB-PUSH handler at server i serving it
  faults,    \* how many faults there were
  taken      \* taken[r] : the servers that took over the snapshot of r

vars == <<db, response, client, fwd, pc, snap, next, pushes, faults, taken>>

Messages    == {"PostResponse", "ReplyResponse", "DbPushResponse", "ErrorResponse",
                "ReadResponse"}
ClientState == {"idle", "wait", "ok", "error"}
FwdState    == {"none", "call", "wait", "ok", "error", "send", "over"}
PcState     == {"idle", "commit", "snapshot", "push", "wait", "success", "error", "send", "done"}
PushState   == {"none", "sent", "restored", "built"}

IsReply(r)  == Parent[r] # NoParent

\* net_SendRecv accepts only the response type that belongs to the request.
Expected(r) == IF IsReply(r) THEN "ReplyResponse" ELSE "PostResponse"
Outcome(r, msg) == IF msg = Expected(r) THEN "ok" ELSE "error"

-----------------------------------------------------------------------------
Init ==
  /\ db = [s \in Servers |-> << >>]
  /\ response = [s \in Servers |-> "ErrorResponse"]
  /\ client = [r \in Requests |-> "idle"]
  /\ fwd = [r \in Requests |-> "none"]
  /\ pc = [r \in Requests |-> "idle"]
  /\ snap = [r \in Requests |-> << >>]
  /\ next = [r \in Requests |-> 0]
  /\ pushes = [r \in Requests |-> [i \in Servers |-> "none"]]
  /\ faults = 0
  /\ taken = [r \in Requests |-> {}]

Fault == faults < MaxFaults /\ faults' = faults + 1

(* The client. *)

Send(r) ==
  /\ client[r] = "idle"
  /\ client' = [client EXCEPT ![r] = "wait"]
  /\ IF Entry[r] = 0 THEN pc' = [pc EXCEPT ![r] = "commit"] /\ UNCHANGED fwd
                     ELSE fwd' = [fwd EXCEPT ![r] = "call"] /\ UNCHANGED pc
  /\ UNCHANGED <<db, response, snap, next, pushes, faults, taken>>

\* The handler that would answer the client has ended.
Unanswered(r) == IF Entry[r] = 0 THEN pc[r] = "done" ELSE fwd[r] = "over"

\* The connection broke, or tcp_Recv gives up after 5 seconds.
ClientFails(r) ==
  /\ client[r] = "wait"
  /\ IF Unanswered(r) THEN UNCHANGED faults ELSE Fault
  /\ client' = [client EXCEPT ![r] = "error"]
  /\ UNCHANGED <<db, response, fwd, pc, snap, next, pushes, taken>>

\* READ and CHOOSE list the local database; their response is built in the
\* buffer of the server as well.
Read(s) ==
  /\ response' = [response EXCEPT ![s] = "ReadResponse"]
  /\ UNCHANGED <<db, client, fwd, pc, snap, next, pushes, faults, taken>>

(* A server that is not the coordinator. *)

Forward(r) ==
  /\ fwd[r] = "call"
  /\ fwd' = [fwd EXCEPT ![r] = "wait"]
  /\ pc' = [pc EXCEPT ![r] = "commit"]
  /\ UNCHANGED <<db, response, client, snap, next, pushes, faults, taken>>

\* net_Post or net_Reply fails: no connection, no response in time, or the
\* coordinator's handler has ended without one.
ForwardFails(r) ==
  /\ fwd[r] \in {"call", "wait"}
  /\ IF fwd[r] = "wait" /\ pc[r] = "done" THEN UNCHANGED faults ELSE Fault
  /\ fwd' = [fwd EXCEPT ![r] = "error"]
  /\ UNCHANGED <<db, response, client, pc, snap, next, pushes, taken>>

\* The error response of a POST is built and then replaced by that of success.
ForwardError(r) ==
  /\ fwd[r] = "error"
  /\ response' = [response EXCEPT ![Entry[r]] = "ErrorResponse"]
  /\ fwd' = [fwd EXCEPT ![r] = IF IsReply(r) THEN "send" ELSE "ok"]
  /\ UNCHANGED <<db, client, pc, snap, next, pushes, faults, taken>>

ForwardSuccess(r) ==
  /\ fwd[r] = "ok"
  /\ response' = [response EXCEPT ![Entry[r]] = Expected(r)]
  /\ fwd' = [fwd EXCEPT ![r] = "send"]
  /\ UNCHANGED <<db, client, pc, snap, next, pushes, faults, taken>>

ForwardSend(r) ==
  /\ fwd[r] = "send"
  /\ client' = [client EXCEPT ![r] = IF @ = "wait" THEN Outcome(r, response[Entry[r]]) ELSE @]
  /\ fwd' = [fwd EXCEPT ![r] = "over"]
  /\ UNCHANGED <<db, response, pc, snap, next, pushes, faults, taken>>

(* The coordinator. *)

\* Article ids start at 0, so that id Len(d) is not there yet.
ParentExistsBug(d, r) == Parent[r] <= Len(d)
ParentExists(d, r) == Parent[r] < Len(d)

\* The success path of db_Post and db_Reply.
Accepts(d, r) == Len(d) < MaxArticles /\ (IsReply(r) => ParentExists(d, r))

Commit(r) ==
  /\ pc[r] = "commit"
  /\ IF Accepts(db[0], r)
       THEN db' = [db EXCEPT ![0] = Append(@, r)] /\ pc' = [pc EXCEPT ![r] = "snapshot"]
       ELSE pc' = [pc EXCEPT ![r] = "error"] /\ UNCHANGED db
  /\ UNCHANGED <<response, client, fwd, snap, next, pushes, faults, taken>>

\* The servers the push loop of a request goes through.
FirstPush(r) == IF IsReply(r) THEN 1 ELSE 0
LastPush(r)  == IF IsReply(r) THEN N - 1 ELSE N - 2
PushLoopBug(r, i) == IF i <= N THEN "push" ELSE "success"
PushLoop(r, i) == IF i <= LastPush(r) THEN "push" ELSE "success"

Snapshot(r) ==
  /\ pc[r] = "snapshot"
  /\ snap' = [snap EXCEPT ![r] = db[0]]
  /\ next' = [next EXCEPT ![r] = FirstPush(r)]
  /\ pc' = [pc EXCEPT ![r] = PushLoop(r, FirstPush(r))]
  /\ UNCHANGED <<db, response, client, fwd, pushes, faults, taken>>

\* net_DbPush connects to server next[r] and sends the snapshot.
Push(r) ==
  /\ pc[r] = "push"
  /\ pushes' = [pushes EXCEPT ![r][next[r]] = "sent"]
  /\ pc' = [pc EXCEPT ![r] = "wait"]
  /\ UNCHANGED <<db, response, client, fwd, snap, next, faults, taken>>

\* The result of net_DbPush is ignored.
PushReturnsBug(r, failed) ==
  pc' = [pc EXCEPT ![r] = PushLoop(r, next[r] + 1)] /\ next' = [next EXCEPT ![r] = @ + 1]

\* What becomes of the loop when net_DbPush returns.
PushReturns(r, failed) ==
  IF failed
    THEN pc' = [pc EXCEPT ![r] = "error"] /\ UNCHANGED next
    ELSE pc' = [pc EXCEPT ![r] = PushLoop(r, next[r] + 1)] /\ next' = [next EXCEPT ![r] = @ + 1]

\* No connection, no response in time, or the handler there has ended without
\* one.  The server may still restore later.
PushFails(r) ==
  /\ pc[r] \in {"push", "wait"}
  /\ IF pc[r] = "wait" /\ pushes[r][next[r]] = "none" THEN UNCHANGED faults ELSE Fault
  /\ PushReturns(r, TRUE)
  /\ UNCHANGED <<db, response, client, fwd, snap, pushes, taken>>

Build(r) ==
  /\ pc[r] \in {"success", "error"}
  /\ response' = [response EXCEPT ![0] = IF pc[r] = "success" THEN Expected(r) ELSE "ErrorResponse"]
  /\ pc' = [pc EXCEPT ![r] = "send"]
  /\ UNCHANGED <<db, client, fwd, snap, next, pushes, faults, taken>>

\* Whoever called the coordinator gets what the buffer holds now, if it still
\* waits.
SendResponse(r) ==
  /\ pc[r] = "send"
  /\ pc' = [pc EXCEPT ![r] = "done"]
  /\ IF Entry[r] = 0
       THEN /\ client' = [client EXCEPT ![r] = IF @ = "wait" THEN Outcome(r, response[0]) ELSE @]
            /\ UNCHANGED fwd
       ELSE /\ fwd' = [fwd EXCEPT ![r] = IF @ = "wait" THEN Outcome(r, response[0]) ELSE @]
            /\ UNCHANGED client
  /\ UNCHANGED <<db, response, snap, next, pushes, faults, taken>>

(* The DB-PUSH handler of server i, the coordinator included. *)

\* The handlers of the coordinator keep the database locked while they push.
RestoreLockBug(r, i) ==
  /\ pushes[r][i] = "sent"
  /\ i = 0 => \A w \in Requests : pc[w] \notin {"push", "wait"}
  /\ db' = [db EXCEPT ![i] = snap[r]]
  /\ taken' = [taken EXCEPT ![r] = @ \cup {i}]
  /\ pushes' = [pushes EXCEPT ![r][i] = "restored"]
  /\ UNCHANGED <<response, client, fwd, pc, snap, next, faults>>

\* The write of the push is appended to the database that is there.
RestoreBug(r, i) ==
  /\ pushes[r][i] = "sent"
  /\ db' = [db EXCEPT ![i] = Append(@, r)]
  /\ taken' = [taken EXCEPT ![r] = @ \cup {i}]
  /\ pushes' = [pushes EXCEPT ![r][i] = "restored"]
  /\ UNCHANGED <<response, client, fwd, pc, snap, next, faults>>

Restore(r, i) ==
  /\ pushes[r][i] = "sent"
  /\ db' = [db EXCEPT ![i] = snap[r]]
  /\ taken' = [taken EXCEPT ![r] = @ \cup {i}]
  /\ pushes' = [pushes EXCEPT ![r][i] = "restored"]
  /\ UNCHANGED <<response, client, fwd, pc, snap, next, faults>>

BuildAck(r, i) ==
  /\ pushes[r][i] = "restored"
  /\ response' = [response EXCEPT ![i] = "DbPushResponse"]
  /\ pushes' = [pushes EXCEPT ![r][i] = "built"]
  /\ UNCHANGED <<db, client, fwd, pc, snap, next, faults, taken>>

SendAck(r, i) ==
  /\ pushes[r][i] = "built"
  /\ pushes' = [pushes EXCEPT ![r][i] = "none"]
  /\ IF pc[r] = "wait" /\ next[r] = i
       THEN PushReturns(r, response[i] # "DbPushResponse")
       ELSE UNCHANGED <<pc, next>>
  /\ UNCHANGED <<db, response, client, fwd, snap, faults, taken>>

\* Nobody reads the request (server.c:105).
PushLost(r, i) ==
  /\ pushes[r][i] = "sent"
  /\ Fault
  /\ pushes' = [pushes EXCEPT ![r][i] = "none"]
  /\ UNCHANGED <<db, response, client, fwd, pc, snap, next, taken>>

\* A server restarts with an empty database and without its threads.
Restart(s) ==
  /\ Fault
  /\ db' = [db EXCEPT ![s] = << >>]
  /\ response' = [response EXCEPT ![s] = "ErrorResponse"]
  /\ fwd' = [r \in Requests |-> IF Entry[r] = s /\ fwd[r] # "none" THEN "over" ELSE fwd[r]]
  /\ pc' = [r \in Requests |-> IF s = 0 /\ pc[r] # "idle" THEN "done" ELSE pc[r]]
  /\ pushes' = [r \in Requests |-> [pushes[r] EXCEPT ![s] = "none"]]
  /\ UNCHANGED <<client, snap, next, taken>>

-----------------------------------------------------------------------------
Forwarder(r) == Forward(r) \/ ForwardError(r) \/ ForwardSuccess(r) \/ ForwardSend(r)
Coordinator(r) == Commit(r) \/ Snapshot(r) \/ Push(r) \/ Build(r) \/ SendResponse(r)
Pushed(r, i) == Restore(r, i) \/ BuildAck(r, i) \/ SendAck(r, i)

Next ==
  \/ \E r \in Requests :
       \/ Send(r) \/ ClientFails(r)
       \/ Forwarder(r) \/ ForwardFails(r)
       \/ Coordinator(r) \/ PushFails(r)
  \/ \E r \in Requests, i \in Servers : Pushed(r, i) \/ PushLost(r, i)
  \/ \E s \in Servers : Read(s) \/ Restart(s)

Spec == Init /\ [][Next]_vars

\* Handler threads, once started, run, and a wait on a connection that is broken
\* ends; clients may or may not make a request.
Fairness ==
  /\ \A r \in Requests : /\ WF_vars(Forwarder(r))
                         /\ WF_vars(fwd[r] = "wait" /\ pc[r] = "done" /\ ForwardFails(r))
                         /\ WF_vars(Coordinator(r))
                         /\ WF_vars(pc[r] = "wait" /\ pushes[r][next[r]] = "none" /\ PushFails(r))
  /\ \A r \in Requests, i \in Servers : WF_vars(Pushed(r, i))

FairSpec == Spec /\ Fairness

-----------------------------------------------------------------------------
(* Properties *)

TypeOK ==
  /\ db \in [Servers -> Seq(Requests)]
  /\ response \in [Servers -> Messages]
  /\ client \in [Requests -> ClientState]
  /\ fwd \in [Requests -> FwdState]
  /\ pc \in [Requests -> PcState]
  /\ snap \in [Requests -> Seq(Requests)]
  /\ next \in [Requests -> 0 .. N]
  /\ \A r \in Requests : pc[r] \in {"push", "wait"} => next[r] \in Servers
  /\ pushes \in [Requests -> [Servers -> PushState]]
  /\ faults \in 0 .. MaxFaults
  /\ taken \in [Requests -> SUBSET Servers]

\* Although the coordinator's own pushes may take its database back to an older
\* snapshot (protocol_readyourwrite.c:40-42), and servers restart empty, two
\* databases that have an article in common have it under one id and agree on
\* all the articles before it, and none lists an article twice.  It is not said
\* that an id means one article: a coordinator that was taken back or restarted
\* gives an id again that another server still shows for another article.
Agree(d, e) ==
  \A j \in 1 .. Len(d), k \in 1 .. Len(e) :
    d[j] = e[k] => j = k /\ \A l \in 1 .. k : d[l] = e[l]

SharedHistory == \A s, t \in Servers : Agree(db[s], db[t])

\* No server lists a reply without an article of the id that it answers
\* (protocol_readyourwrite.c:99).
RepliesAfterParents ==
  \A s \in Servers : \A k \in 1 .. Len(db[s]) : IsReply(db[s][k]) => Parent[db[s][k]] + 1 < k

\* The coordinator finds that a write succeeded only when every server its push
\* loop goes through has taken over its snapshot (protocol_readyourwrite.c:40-48,
\* 122-130), although acknowledgements of other pushes go through the same
\* buffers, arrive late or get lost.
SuccessIsTaken ==
  \A r \in Requests : pc[r] = "success" => FirstPush(r) .. LastPush(r) \subseteq taken[r]

\* Every handler comes to its end, that of a POST too, which waits for a push to
\* its own process (protocol_readyourwrite.c:40-42).
HandlersFinish ==
  \A r \in Requests : /\ (pc[r] # "idle") ~> (pc[r] = "done")
                      /\ (fwd[r] # "none") ~> (fwd[r] = "over")

\* "Read-your-write consistency using 5 servers" (project_2/README.md:37): when
\* everything is quiet, the server a client posted to lists what the client was
\* told it has written.
Quiescent ==
  /\ \A r \in Requests : client[r] # "wait" /\ pc[r] \in {"idle", "done"}
  /\ \A r \in Requests, i \in Servers : pushes[r][i] = "none"

Lists(s, r) == \E k \in 1 .. Len(db[s]) : db[s][k] = r

OwnWritesListed == Quiescent => \A r \in Requests : client[r] = "ok" => Lists(Entry[r], r)
=============================================================================
