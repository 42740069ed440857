----------------------------- MODULE Sequential ------------------------------
(***************************************************************************)
(* The primary-backup protocol of the bulletin board                       *)
(* (project_2/server/protocol_sequential.c) with the connection handling   *)
(* below it (shared/net.c, server/msg_handler.c).                          *)
(*                                                                         *)
(* Server 0 is the coordinator.  A write that reaches another server is    *)
(* forwarded to it.  The coordinator commits the write to its database,    *)
(* answers, takes a snapshot and pushes the snapshot to servers 1 to N-1   *)
(* one after the other; a replica overwrites its database with whatever is *)
(* pushed to it.  Every connection is served by a thread of its own, and   *)
(* only single database operations are under a lock, so all of these steps *)
(* interleave.                                                             *)
(*                                                                         *)
(* A database is the sequence of the writes applied to it: article id k is *)
(* its element k + 1, and version and article_count are its length.  What  *)
(* a write does to the array of articles is the subject of ArticleDatabase.*)
(*                                                                         *)
(* `response' is a global buffer that all threads of a server process      *)
(* share: a handler builds its response there and then sends what the      *)
(* buffer holds.  Two builds that overlap are taken to leave one of the    *)
(* two messages.                                                           *)
(***************************************************************************)
EXTENDS Integers, Sequences

CONSTANTS
  N,            \* server_count
  Requests,     \* the POST and REPLY requests clients make
  Entry,        \* Entry[r] : the server the client of r talks to
  Parent,       \* Parent[r] : the article a REPLY answers, NoParent for a POST
  MaxArticles,  \* MAX_ARTICLES
  Faults        \* TRUE if connections may fail or time out and replicas restart

NoParent == -1
Servers  == 0 .. N - 1
Replicas == 1 .. N - 1

ASSUME NAssumption == N \in Nat \ {0}
ASSUME RequestAssumption ==
  /\ Entry \in [Requests -> Servers]
  /\ Parent \in [Requests -> Nat \cup {NoParent}]
ASSUME MaxArticlesAssumption == MaxArticles \in Nat \ {0}
ASSUME FaultsAssumption == Faults \in BOOLEAN

VARIABLES
  db,        \* db[s] : the database of server s
  response,  \* response[s] : the global response buffer of server s
  client,    \* client[r] : what the client of r knows
  fwd,       \* fwd[r] : the forwarding handler of r, if it enters at a replica
  pc,        \* pc[r] : the coordinator's handler of r
  snap,      \* snap[r] : db_snapshot of that handler
  next,      \* next[r] : i of its push loop
  pushes     \* pushes[r][i] : the DB-PUSH handler at replica i serving it

vars == <<db, response, client, fwd, pc, snap, next, pushes>>

Messages    == {"PostResponse", "ReplyResponse", "DbPushResponse", "ErrorResponse",
                "ReadResponse"}
ClientState == {"idle", "wait", "ok", "error"}
FwdState    == {"none", "call", "wait", "ok", "error", "send", "over"}
PcState     == {"idle", "commit", "success", "sendSuccess", "snapshot", "push", "wait",
                "error", "sendError", "done"}
PushState   == {"none", "sent", "restored", "built"}

IsReply(r)  == Parent[r] # NoParent

\* net_SendRecv accepts only the response type that belongs to the request.
Expected(r) == IF IsReply(r) THEN "ReplyResponse" ELSE "PostResponse"
Outcome(r, msg) == IF msg = Expected(r) THEN "ok" ELSE "error"

-----------------------------------------------------------------------------
\* A buffer that was never written is zero, which no caller takes for success;
\* an error response stands for that too.
Init ==
  /\ db = [s \in Servers |-> << >>]
  /\ response = [s \in Servers |-> "ErrorResponse"]
  /\ client = [r \in Requests |-> "idle"]
  /\ fwd = [r \in Requests |-> "none"]
  /\ pc = [r \in Requests |-> "idle"]
  /\ snap = [r \in Requests |-> << >>]
  /\ next = [r \in Requests |-> 1]
  /\ pushes = [r \in Requests |-> [i \in Replicas |-> "none"]]

(* The client: net_Post and net_Reply. *)

\* The request reaches the handler of the server it was sent to.
Send(r) ==
  /\ client[r] = "idle"
  /\ client' = [client EXCEPT ![r] = "wait"]
  /\ IF Entry[r] = 0 THEN pc' = [pc EXCEPT ![r] = "commit"] /\ UNCHANGED fwd
                     ELSE fwd' = [fwd EXCEPT ![r] = "call"] /\ UNCHANGED pc
  /\ UNCHANGED <<db, response, snap, next, pushes>>

\* The connection is refused, or server.c:105 overwrites the socket before the
\* thread of the connection has copied it, and nobody reads the request.
RequestLost(r) ==
  /\ Faults
  /\ client[r] = "idle"
  /\ client' = [client EXCEPT ![r] = "error"]
  /\ UNCHANGED <<db, response, fwd, pc, snap, next, pushes>>

\* tcp_Recv gives up after 5 seconds.
ClientTimeout(r) ==
  /\ Faults
  /\ client[r] = "wait"
  /\ client' = [client EXCEPT ![r] = "error"]
  /\ UNCHANGED <<db, response, fwd, pc, snap, next, pushes>>

\* READ and CHOOSE leave the database alone but build their response in the
\* buffer of the server as well.
Read(s) ==
  /\ response' = [response EXCEPT ![s] = "ReadResponse"]
  /\ UNCHANGED <<db, client, fwd, pc, snap, next, pushes>>

(* A server that is not the coordinator. *)

\* net_Post or net_Reply connects to server 0, whose connection handler starts.
Forward(r) ==
  /\ fwd[r] = "call"
  /\ fwd' = [fwd EXCEPT ![r] = "wait"]
  /\ pc' = [pc EXCEPT ![r] = "commit"]
  /\ UNCHANGED <<db, response, client, snap, next, pushes>>

\* The connection is refused, or no response came in time.  In the second case
\* the coordinator's handler runs on.
ForwardFails(r) ==
  /\ Faults
  /\ fwd[r] \in {"call", "wait"}
  /\ fwd' = [fwd EXCEPT ![r] = "error"]
  /\ UNCHANGED <<db, response, client, pc, snap, next, pushes>>

ForwardBuild(r) ==
  /\ fwd[r] \in {"ok", "error"}
  /\ response' = [response EXCEPT ![Entry[r]] = IF fwd[r] = "ok" THEN Expected(r) ELSE "ErrorResponse"]
  /\ fwd' = [fwd EXCEPT ![r] = "send"]
  /\ UNCHANGED <<db, client, pc, snap, next, pushes>>

ForwardSend(r) ==
  /\ fwd[r] = "send"
  /\ client' = [client EXCEPT ![r] = IF @ = "wait" THEN Outcome(r, response[Entry[r]]) ELSE @]
  /\ fwd' = [fwd EXCEPT ![r] = "over"]
  /\ UNCHANGED <<db, response, pc, snap, next, pushes>>

(* The coordinator. *)

\* Article ids start at 0, so that id Len(d) is not there yet.
ParentExistsBug(d, r) == Parent[r] <= Len(d)

\* The parent of a reply must be an article of the database.
ParentExists(d, r) == Parent[r] < Len(d)

\* The success path of db_Post and db_Reply.
Accepts(d, r) == Len(d) < MaxArticles /\ (IsReply(r) => ParentExists(d, r))

Commit(r) ==
  /\ pc[r] = "commit"
  /\ IF Accepts(db[0], r)
       THEN db' = [db EXCEPT ![0] = Append(@, r)] /\ pc' = [pc EXCEPT ![r] = "success"]
       ELSE pc' = [pc EXCEPT ![r] = "error"] /\ UNCHANGED db
  /\ UNCHANGED <<response, client, fwd, snap, next, pushes>>

\* A retry of the commit after the response was built.
BuildSuccessRetryBug(r) ==
  /\ pc[r] = "success"
  /\ response' = [response EXCEPT ![0] = Expected(r)]
  /\ pc' = [pc EXCEPT ![r] = IF Len(db[0]) < MaxArticles THEN "commit" ELSE "sendSuccess"]
  /\ UNCHANGED <<db, client, fwd, snap, next, pushes>>

BuildSuccess(r) ==
  /\ pc[r] = "success"
  /\ response' = [response EXCEPT ![0] = Expected(r)]
  /\ pc' = [pc EXCEPT ![r] = "sendSuccess"]
  /\ UNCHANGED <<db, client, fwd, snap, next, pushes>>

BuildError(r) ==
  /\ pc[r] = "error"
  /\ response' = [response EXCEPT ![0] = "ErrorResponse"]
  /\ pc' = [pc EXCEPT ![r] = "sendError"]
  /\ UNCHANGED <<db, client, fwd, snap, next, pushes>>

\* Whoever called the coordinator gets what the buffer holds now, if it still
\* waits: a second response on the same connection finds nobody.
Respond(r) ==
  IF Entry[r] = 0
    THEN /\ client' = [client EXCEPT ![r] = IF @ = "wait" THEN Outcome(r, response[0]) ELSE @]
         /\ UNCHANGED fwd
    ELSE /\ fwd' = [fwd EXCEPT ![r] = IF @ = "wait" THEN Outcome(r, response[0]) ELSE @]
         /\ UNCHANGED client

SendSuccess(r) ==
  /\ pc[r] = "sendSuccess"
  /\ Respond(r)
  /\ pc' = [pc EXCEPT ![r] = "snapshot"]
  /\ UNCHANGED <<db, response, snap, next, pushes>>

SendError(r) ==
  /\ pc[r] = "sendError"
  /\ Respond(r)
  /\ pc' = [pc EXCEPT ![r] = "done"]
  /\ UNCHANGED <<db, response, snap, next, pushes>>

\* The bounds of the push loop.
FirstPushBug == 2
FirstPush == 1
PushLoopBug(i) == IF i <= N THEN "push" ELSE "done"
PushLoop(i) == IF i < N THEN "push" ELSE "done"

Snapshot(r) ==
  /\ pc[r] = "snapshot"
  /\ snap' = [snap EXCEPT ![r] = db[0]]
  /\ next' = [next EXCEPT ![r] = FirstPush]
  /\ pc' = [pc EXCEPT ![r] = PushLoop(FirstPush)]
  /\ UNCHANGED <<db, response, client, fwd, pushes>>

\* net_DbPush connects to replica next[r] and sends the snapshot.
Push(r) ==
  /\ pc[r] = "push"
  /\ pushes' = [pushes EXCEPT ![r][next[r]] = "sent"]
  /\ pc' = [pc EXCEPT ![r] = "wait"]
  /\ UNCHANGED <<db, response, client, fwd, snap, next>>

\* A failed push is tried again.
PushReturnsBug(r, failed) ==
  IF failed
    THEN pc' = [pc EXCEPT ![r] = "push"] /\ UNCHANGED next
    ELSE pc' = [pc EXCEPT ![r] = PushLoop(next[r] + 1)] /\ next' = [next EXCEPT ![r] = @ + 1]

\* What becomes of the loop when net_DbPush returns: a POST ignores failures,
\* a REPLY stops and sends a second response.
PushReturns(r, failed) ==
  IF failed /\ IsReply(r)
    THEN pc' = [pc EXCEPT ![r] = "error"] /\ UNCHANGED next
    ELSE pc' = [pc EXCEPT ![r] = PushLoop(next[r] + 1)] /\ next' = [next EXCEPT ![r] = @ + 1]

\* No connection, or no response in time; the replica may still restore later.
PushFails(r) ==
  /\ Faults
  /\ pc[r] \in {"push", "wait"}
  /\ PushReturns(r, TRUE)
  /\ UNCHANGED <<db, response, client, fwd, snap, pushes>>

(* The DB-PUSH handler of replica i. *)

\* The replica appends the write of the push instead of taking the snapshot.
RestoreBug(r, i) ==
  /\ pushes[r][i] = "sent"
  /\ db' = [db EXCEPT ![i] = Append(@, r)]
  /\ pushes' = [pushes EXCEPT ![r][i] = "restored"]
  /\ UNCHANGED <<response, client, fwd, pc, snap, next>>

Restore(r, i) ==
  /\ pushes[r][i] = "sent"
  /\ db' = [db EXCEPT ![i] = snap[r]]
  /\ pushes' = [pushes EXCEPT ![r][i] = "restored"]
  /\ UNCHANGED <<response, client, fwd, pc, snap, next>>

BuildAck(r, i) ==
  /\ pushes[r][i] = "restored"
  /\ response' = [response EXCEPT ![i] = "DbPushResponse"]
  /\ pushes' = [pushes EXCEPT ![r][i] = "built"]
  /\ UNCHANGED <<db, client, fwd, pc, snap, next>>

SendAck(r, i) ==
  /\ pushes[r][i] = "built"
  /\ pushes' = [pushes EXCEPT ![r][i] = "none"]
  /\ IF pc[r] = "wait" /\ next[r] = i
       THEN PushReturns(r, response[i] # "DbPushResponse")
       ELSE UNCHANGED <<pc, next>>
  /\ UNCHANGED <<db, response, client, fwd, snap>>

\* The replica's connection handler fails to read the request.
PushLost(r, i) ==
  /\ Faults
  /\ pushes[r][i] = "sent"
  /\ pushes' = [pushes EXCEPT ![r][i] = "none"]
  /\ UNCHANGED <<db, response, client, fwd, pc, snap, next>>

\* A replica restarts with an empty database and without its threads.
Restart(i) ==
  /\ Faults
  /\ db' = [db EXCEPT ![i] = << >>]
  /\ response' = [response EXCEPT ![i] = "ErrorResponse"]
  /\ fwd' = [r \in Requests |-> IF Entry[r] = i /\ fwd[r] # "none" THEN "over" ELSE fwd[r]]
  /\ pushes' = [r \in Requests |-> [pushes[r] EXCEPT ![i] = "none"]]
  /\ UNCHANGED <<client, pc, snap, next>>

-----------------------------------------------------------------------------
Forwarder(r) == Forward(r) \/ ForwardFails(r) \/ ForwardBuild(r) \/ ForwardSend(r)

Coordinator(r) ==
  \/ Commit(r) \/ BuildSuccess(r) \/ BuildError(r) \/ SendSuccess(r) \/ SendError(r)
  \/ Snapshot(r) \/ Push(r) \/ PushFails(r)

Replica(r, i) == Restore(r, i) \/ BuildAck(r, i) \/ SendAck(r, i) \/ PushLost(r, i)

Next ==
  \/ \E r \in Requests : Send(r) \/ RequestLost(r) \/ ClientTimeout(r) \/ Forwarder(r) \/ Coordinator(r)
  \/ \E r \in Requests, i \in Replicas : Replica(r, i)
  \/ \E s \in Servers : Read(s)
  \/ \E i \in Replicas : Restart(i)

Spec == Init /\ [][Next]_vars

\* A handler thread of the coordinator runs once it is started, and its waits on a
\* socket end after 5 seconds at most (PushFails).  Nothing is assumed of clients
\* and of the other servers.
Fairness == \A r \in Requests : WF_vars(Coordinator(r))

FairSpec == Spec /\ Fairness

-----------------------------------------------------------------------------
(* Properties *)

TypeOK ==
  /\ db \in [Servers -> Seq(Requests)]
  /\ response \in [Servers -> Messages]
  /\ client \in [Requests -> ClientState]
  /\ fwd \in [Requests -> FwdState]
  /\ pc \in [Requests -> PcState]
  /\ snap \in [Requests -> Seq(Requests)]
  /\ next \in [Requests -> 1 .. N]
  /\ pushes \in [Requests -> [Replicas -> PushState]]

Prefix(s, t) == Len(s) <= Len(t) /\ \A k \in 1 .. Len(s) : s[k] = t[k]

Committed(r) == \E k \in 1 .. Len(db[0]) : db[0][k] = r

\* However handlers interleave, pushes overtake one another, arrive after the
\* coordinator gave up on them or find a replica that restarted, what a replica
\* serves to READ and CHOOSE (protocol_sequential.c:79-94) is always a state
\* the coordinator was in: all servers list the writes in one order.
OneHistory == \A i \in Servers : Prefix(db[i], db[0])

\* No replica shows a reply without the article it answers
\* (protocol_sequential.c:108, database.c:118-132).
RepliesAfterParents ==
  \A i \in Servers : \A k \in 1 .. Len(db[i]) : IsReply(db[i][k]) => Parent[db[i][k]] + 1 < k

\* A write is committed at most once and never more than MAX_ARTICLES are, on
\* any path a handler can take (protocol_sequential.c:29, 108).
CommittedOnce ==
  /\ Len(db[0]) <= MaxArticles
  /\ \A j, k \in 1 .. Len(db[0]) : db[0][j] = db[0][k] => j = k

\* Every handler at the coordinator comes to its end, also when replicas do not
\* answer or restart (protocol_sequential.c:50-53, 139-147).  Every request is
\* made once, so in the end no handler is under way.
HandlersFinish == <>[](\A r \in Requests : pc[r] \in {"idle", "done"})

\* The push loop of a committed post gets to every replica, whatever becomes of
\* the pushes to the replicas before it (protocol_sequential.c:50-53).
PostsPushedToAll ==
  \A r \in {q \in Requests : ~IsReply(q)}, i \in Replicas :
    (pc[r] = "success") ~> (pc[r] = "push" /\ next[r] = i)

\* A client that is told its write succeeded (client/main.c:153, 268) has
\* written.
AckedIsCommitted == \A r \in Requests : client[r] = "ok" => Committed(r)

\* "push updated database to all other replicas" (protocol_sequential.c:49):
\* once all handlers are done and no push is under way, the replicas agree
\* with the coordinator.
Quiescent ==
  /\ \A r \in Requests : client[r] # "wait" /\ pc[r] \in {"idle", "done"}
  /\ \A r \in Requests, i \in Replicas : pushes[r][i] = "none"

ReplicasUpToDate == Quiescent => \A i \in Replicas : db[i] = db[0]
=============================================================================
