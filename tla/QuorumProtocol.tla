--------------------------- MODULE QuorumProtocol ----------------------------
(***************************************************************************)
(* The quorum protocol of the bulletin board                               *)
(* (project_2/server/protocol_quorum.c) with DB-PULL below it              *)
(* (shared/net.c, server/msg_handler.c).                                   *)
(*                                                                         *)
(* `from_server' is 1 from the start and nothing makes it 0, so a write is *)
(* only ever applied to the database of the server the client talks to,    *)
(* and Nw plays no part.  A thread of every server goes around all servers *)
(* (itself included), pulls their databases and takes over one that has a  *)
(* higher version than its own had.  A READ pulls from servers until Nr of *)
(* them have answered and then lists the local database.                   *)
(*                                                                         *)
(* As in Sequential, a database is the sequence of the writes applied to   *)
(* it, its length being both version and article_count, and `response' is  *)
(* one buffer for all threads of a server.                                 *)
(***************************************************************************)
EXTENDS Integers, Sequences

CONSTANTS
  N,            \* server_count
  Nr,           \* nr, the size of a read quorum
  Writes,       \* the POST and REPLY requests clients make
  Reads,        \* their READ requests
  Entry,        \* Entry[h] : the server the client of request h talks to
  Parent,       \* Parent[w] : the article a REPLY answers, NoParent for a POST
  MaxArticles,  \* MAX_ARTICLES
  MaxFaults     \* bound of the model: waits given up, connections lost, restarts

NoParent == -1
Servers  == 0 .. N - 1
Requests == Writes \cup Reads

\* Whoever calls net_DbPull: the sync thread of a server or a READ handler.
Pullers == Servers \cup Reads

ASSUME SizeAssumption == N \in Nat \ {0} /\ Nr \in Nat /\ MaxArticles \in Nat \ {0} /\ MaxFaults \in Nat
ASSUME RequestAssumption ==
  /\ Writes \cap Reads = {} /\ Servers \cap Requests = {}
  /\ Entry \in [Requests -> Servers]
  /\ Parent \in [Writes -> Nat \cup {NoParent}]

VARIABLES
  db,        \* db[s] : the database of server s
  response,  \* response[s] : the global response buffer of server s
  client,    \* client[h] : what the client of request h knows
  pc,        \* pc[h] : the handler of request h
  success,   \* success[r] : the pulls of READ handler r that succeeded
  pos,       \* pos[q] : i in the loop of puller q
  pull,      \* pull[q] : where q is with net_DbPull
  version,   \* version[s] : local_db.version of the sync thread of s; 0 when it has
             \* no more use for it
  rcvd,      \* rcvd[s] : rcvd_db of the sync thread of s
  serving,   \* serving[q][x] : the DB-PULL handler at x that serves q
  snapshot,  \* snapshot[q][x] : db_snapshot of that handler
  faults     \* how many faults there were

requests == <<client, pc, success>>
sync     == <<version, rcvd>>
vars == <<db, response, requests, pos, pull, sync, serving, snapshot, faults>>

ClientState == {"idle", "wait", "ok", "error"}
PcState     == {"idle", "write", "invalid", "written", "read", "answer", "send", "done"}
PullState   == {"idle", "wait", "back"}
ServeState  == {"none", "asked", "copied", "built"}

IsReply(w) == w \in Writes /\ Parent[w] # NoParent

Message(type, d) == [type |-> type, db |-> d]
ErrorResponse    == Message("ErrorResponse", << >>)

\* The response type that belongs to a request; net_SendRecv rejects any other.
Expected(h) == IF h \in Reads THEN "ReadResponse"
               ELSE IF IsReply(h) THEN "ReplyResponse" ELSE "PostResponse"

MessageType == {"ErrorResponse", "ReadResponse", "ReplyResponse", "PostResponse", "DbPullResponse"}

-----------------------------------------------------------------------------
\* The stack of a new thread is zero: rcvd_db has version 0 before the first pull.
Init ==
  /\ db = [s \in Servers |-> << >>]
  /\ response = [s \in Servers |-> ErrorResponse]
  /\ client = [h \in Requests |-> "idle"]
  /\ pc = [h \in Requests |-> "idle"]
  /\ success = [r \in Reads |-> 0]
  /\ pos = [q \in Pullers |-> 0]
  /\ pull = [q \in Pullers |-> "idle"]
  /\ version = [s \in Servers |-> 0]
  /\ rcvd = [s \in Servers |-> << >>]
  /\ serving = [q \in Pullers |-> [x \in Servers |-> "none"]]
  /\ snapshot = [q \in Pullers |-> [x \in Servers |-> << >>]]
  /\ faults = 0

Fault == faults < MaxFaults /\ faults' = faults + 1

(* Clients. *)

Send(h) ==
  /\ client[h] = "idle"
  /\ client' = [client EXCEPT ![h] = "wait"]
  /\ pc' = [pc EXCEPT ![h] = IF h \in Writes THEN "write" ELSE "read"]
  /\ UNCHANGED <<db, response, success, pos, pull, sync, serving, snapshot, faults>>

\* The handler ended without a response, or takes longer than 5 seconds.
ClientTimeout(h) ==
  /\ client[h] = "wait"
  /\ IF pc[h] = "done" THEN UNCHANGED faults ELSE Fault
  /\ client' = [client EXCEPT ![h] = "error"]
  /\ UNCHANGED <<db, response, pc, success, pos, pull, sync, serving, snapshot>>

(* POST and REPLY. *)

\* Article ids start at 0, so that id Len(d) is not there yet.
ParentExistsBug(d, w) == Parent[w] <= Len(d)
ParentExists(d, w) == Parent[w] < Len(d)

Full(d) == Len(d) >= MaxArticles

\* db_Post or db_Reply on the local database; a write that is rejected changes
\* nothing.
Apply(w) ==
  IF Full(db[Entry[w]]) \/ (IsReply(w) /\ ~ParentExists(db[Entry[w]], w))
    THEN UNCHANGED db
    ELSE db' = [db EXCEPT ![Entry[w]] = Append(@, w)]

\* Only a reply to an invalid article makes a difference to what follows.
Write(w) ==
  /\ pc[w] = "write"
  /\ Apply(w)
  /\ pc' = [pc EXCEPT ![w] =
       IF IsReply(w) /\ ~Full(db[Entry[w]]) /\ ~ParentExists(db[Entry[w]], w) THEN "invalid" ELSE "written"]
  /\ UNCHANGED <<response, client, success, pos, pull, sync, serving, snapshot, faults>>

\* tcp_GetRemoteAddr fails, as the client has disconnected: no write, no response.
WriteAborted(w) ==
  /\ pc[w] = "write"
  /\ Fault
  /\ pc' = [pc EXCEPT ![w] = "done"]
  /\ UNCHANGED <<db, response, client, success, pos, pull, sync, serving, snapshot>>

\* The error response, which the handler builds only to replace it.
BuildInvalid(w) ==
  /\ pc[w] = "invalid"
  /\ response' = [response EXCEPT ![Entry[w]] = ErrorResponse]
  /\ pc' = [pc EXCEPT ![w] = "written"]
  /\ UNCHANGED <<db, client, success, pos, pull, sync, serving, snapshot, faults>>

BuildWritten(w) ==
  /\ pc[w] = "written"
  /\ response' = [response EXCEPT ![Entry[w]] = Message(Expected(w), << >>)]
  /\ pc' = [pc EXCEPT ![w] = "send"]
  /\ UNCHANGED <<db, client, success, pos, pull, sync, serving, snapshot, faults>>

\* The client gets what the buffer holds now.
SendResponse(h) ==
  /\ pc[h] = "send"
  /\ client' = [client EXCEPT ![h] =
       IF @ # "wait" THEN @ ELSE IF response[Entry[h]].type = Expected(h) THEN "ok" ELSE "error"]
  /\ pc' = [pc EXCEPT ![h] = "done"]
  /\ UNCHANGED <<db, response, success, pos, pull, sync, serving, snapshot, faults>>

(* net_DbPull and the DB-PULL handler at the other end. *)

\* q connects to server pos[q].  Bound of the model: a handler that still serves
\* an earlier pull of q has to end first.
Ask(q) ==
  /\ pull[q] = "idle" /\ serving[q][pos[q]] = "none"
  /\ pull' = [pull EXCEPT ![q] = "wait"]
  /\ serving' = [serving EXCEPT ![q][pos[q]] = "asked"]

Copy(q, x) ==
  /\ serving[q][x] = "asked"
  /\ snapshot' = [snapshot EXCEPT ![q][x] = db[x]]
  /\ serving' = [serving EXCEPT ![q][x] = "copied"]
  /\ UNCHANGED <<db, response, requests, pos, pull, sync, faults>>

Build(q, x) ==
  /\ serving[q][x] = "copied"
  /\ response' = [response EXCEPT ![x] = Message("DbPullResponse", snapshot[q][x])]
  /\ snapshot' = [snapshot EXCEPT ![q][x] = << >>]
  /\ serving' = [serving EXCEPT ![q][x] = "built"]
  /\ UNCHANGED <<db, requests, pos, pull, sync, faults>>

\* A response of another type is passed over, and the puller waits for the next.
PullReturnsBug(q, msg) ==
  IF msg.type # "DbPullResponse" THEN UNCHANGED <<pull, rcvd, success>>
  ELSE /\ pull' = [pull EXCEPT ![q] = "back"]
       /\ IF q \in Reads THEN success' = [success EXCEPT ![q] = @ + 1] /\ UNCHANGED rcvd
                         ELSE rcvd' = [rcvd EXCEPT ![q] = msg.db] /\ UNCHANGED success

\* net_DbPull returns.  The sync thread does not look at the result: after a
\* failure rcvd_db is what it was.
PullReturns(q, msg) ==
  /\ pull' = [pull EXCEPT ![q] = "back"]
  /\ IF msg.type # "DbPullResponse" THEN UNCHANGED <<rcvd, success>>
     ELSE IF q \in Reads THEN success' = [success EXCEPT ![q] = @ + 1] /\ UNCHANGED rcvd
     ELSE rcvd' = [rcvd EXCEPT ![q] = msg.db] /\ UNCHANGED success

\* The puller gets what the buffer holds now, if it still waits for it.
SendPulled(q, x) ==
  /\ serving[q][x] = "built"
  /\ serving' = [serving EXCEPT ![q][x] = "none"]
  /\ IF pull[q] = "wait" /\ pos[q] = x THEN PullReturns(q, response[x])
                                       ELSE UNCHANGED <<pull, rcvd, success>>
  /\ UNCHANGED <<db, response, client, pc, pos, version, snapshot, faults>>

\* The connection broke, or no response came within 5 seconds; in the second
\* case the handler runs on.
PullFails(q) ==
  /\ pull[q] = "wait"
  /\ IF serving[q][pos[q]] = "none" THEN UNCHANGED faults ELSE Fault
  /\ PullReturns(q, ErrorResponse)
  /\ UNCHANGED <<db, response, client, pc, pos, version, serving, snapshot>>

\* Nobody reads the request (server.c:105).
PullLost(q, x) ==
  /\ serving[q][x] = "asked"
  /\ Fault
  /\ serving' = [serving EXCEPT ![q][x] = "none"]
  /\ UNCHANGED <<db, response, requests, pos, pull, sync, snapshot>>

(* READ. *)

ReadPull(r) ==
  /\ pc[r] = "read"
  /\ Ask(r)
  /\ UNCHANGED <<db, response, requests, pos, sync, snapshot, faults>>

ReadPulled(r) ==
  /\ pc[r] = "read" /\ pull[r] = "back"
  /\ pull' = [pull EXCEPT ![r] = "idle"]
  /\ IF success[r] >= Nr \/ pos[r] + 1 = N
       THEN pc' = [pc EXCEPT ![r] = "answer"] /\ UNCHANGED pos
       ELSE pos' = [pos EXCEPT ![r] = @ + 1] /\ UNCHANGED pc
  /\ UNCHANGED <<db, response, client, success, sync, serving, snapshot, faults>>

\* The pulled databases are not looked at; the local one is listed.
ReadAnswer(r) ==
  /\ pc[r] = "answer"
  /\ response' = [response EXCEPT ![Entry[r]] =
       IF success[r] >= Nr THEN Message("ReadResponse", db[Entry[r]]) ELSE ErrorResponse]
  /\ pc' = [pc EXCEPT ![r] = "send"]
  /\ UNCHANGED <<db, client, success, pos, pull, sync, serving, snapshot, faults>>

(* quorumSyncThread. *)

\* The version is read once, before the loop.
SyncPullBug(s) ==
  /\ Ask(s)
  /\ UNCHANGED <<db, response, requests, pos, sync, snapshot, faults>>

SyncPull(s) ==
  /\ version' = [version EXCEPT ![s] = Len(db[s])]
  /\ Ask(s)
  /\ UNCHANGED <<db, response, requests, pos, rcvd, snapshot, faults>>

NextServerBug(i) == i + 1
NextServer(i) == (i + 1) % N

NewerBug(s) == Len(rcvd[s]) > version[s] + 1
Newer(s) == Len(rcvd[s]) > version[s]

\* The articles that were pulled are added to the local database.
TakeOverBug(s) == db' = [db EXCEPT ![s] = @ \o rcvd[s]]
TakeOver(s) == db' = [db EXCEPT ![s] = rcvd[s]]

SyncPulled(s) ==
  /\ pull[s] = "back"
  /\ IF Newer(s) THEN TakeOver(s) ELSE UNCHANGED db
  /\ pull' = [pull EXCEPT ![s] = "idle"]
  /\ pos' = [pos EXCEPT ![s] = NextServer(@)]
  /\ version' = [version EXCEPT ![s] = 0]
  /\ UNCHANGED <<response, requests, rcvd, serving, snapshot, faults>>

\* A server restarts: its threads are gone, its database is empty.
Restart(s) ==
  /\ Fault
  /\ db' = [db EXCEPT ![s] = << >>]
  /\ response' = [response EXCEPT ![s] = ErrorResponse]
  /\ pc' = [h \in Requests |-> IF Entry[h] = s /\ pc[h] # "idle" THEN "done" ELSE pc[h]]
  /\ pull' = [q \in Pullers |-> IF q = s \/ (q \in Reads /\ Entry[q] = s) THEN "idle" ELSE pull[q]]
  /\ pos' = [pos EXCEPT ![s] = 0]
  /\ version' = [version EXCEPT ![s] = 0]
  /\ rcvd' = [rcvd EXCEPT ![s] = << >>]
  /\ serving' = [q \in Pullers |-> [serving[q] EXCEPT ![s] = "none"]]
  /\ snapshot' = [q \in Pullers |-> [snapshot[q] EXCEPT ![s] = << >>]]
  /\ UNCHANGED <<client, success>>

-----------------------------------------------------------------------------
Post(w) == Write(w) \/ BuildInvalid(w) \/ BuildWritten(w) \/ SendResponse(w)
Read(r) == ReadPull(r) \/ ReadPulled(r) \/ ReadAnswer(r) \/ SendResponse(r)
Sync(s) == SyncPull(s) \/ SyncPulled(s)
DbPull(q, x) == Copy(q, x) \/ Build(q, x) \/ SendPulled(q, x)

Next ==
  \/ \E h \in Requests : Send(h) \/ ClientTimeout(h)
  \/ \E w \in Writes : Post(w) \/ WriteAborted(w)
  \/ \E r \in Reads : Read(r)
  \/ \E s \in Servers : Sync(s) \/ Restart(s)
  \/ \E q \in Pullers : PullFails(q) \/ \E x \in Servers : DbPull(q, x) \/ PullLost(q, x)

Spec == Init /\ [][Next]_vars

\* Handler and sync threads run, and a wait on a connection that is broken ends;
\* clients may or may not make a request.
Fairness ==
  /\ \A w \in Writes : WF_vars(Post(w))
  /\ \A r \in Reads : WF_vars(Read(r))
  /\ \A s \in Servers : WF_vars(Sync(s))
  /\ \A q \in Pullers : /\ WF_vars(serving[q][pos[q]] = "none" /\ PullFails(q))
                        /\ \A x \in Servers : WF_vars(DbPull(q, x))

FairSpec == Spec /\ Fairness

-----------------------------------------------------------------------------
(* Properties *)

Databases == Seq(Writes)

TypeOK ==
  /\ db \in [Servers -> Databases]
  /\ response \in [Servers -> [type : MessageType, db : Databases]]
  /\ client \in [Requests -> ClientState] /\ pc \in [Requests -> PcState]
  /\ success \in [Reads -> Nat]
  /\ pos \in [Pullers -> Servers] /\ pull \in [Pullers -> PullState]
  /\ version \in [Servers -> Nat] /\ rcvd \in [Servers -> Databases]
  /\ serving \in [Pullers -> [Servers -> ServeState]]
  /\ snapshot \in [Pullers -> [Servers -> Databases]]
  /\ faults \in 0 .. MaxFaults

\* Whatever was lost by taking over databases (protocol_quorum.c:215-218), two
\* databases that have an article in common have it under one id and agree on
\* all the articles before it, and none lists an article twice.  It is not said
\* that an id means one article: servers that write at the same time give the
\* same id to different articles, until one of them takes over the other.
Agree(d, e) ==
  \A j \in 1 .. Len(d), k \in 1 .. Len(e) :
    d[j] = e[k] => j = k /\ \A l \in 1 .. k : d[l] = e[l]

SharedHistory == \A s, t \in Servers : Agree(db[s], db[t])

\* No server lists a reply without an article of the id that it answers
\* (protocol_quorum.c:174).
RepliesAfterParents ==
  \A s \in Servers : \A k \in 1 .. Len(db[s]) :
    IsReply(db[s][k]) => Parent[db[s][k]] + 1 < k

\* The sync thread ignores the result of net_DbPull and compares whatever is in
\* rcvd_db with the version it read before the pull (protocol_quorum.c:213-218).
\* What an earlier pull left there is never newer than that version, however the
\* database has grown, been replaced or been lost since: after a pull that failed
\* nothing is restored.
FailedPullRestoresNothing == \A s \in Servers : pull[s] = "wait" => ~Newer(s)

\* The sync threads bring all servers to one version once writes and faults have
\* stopped (protocol_quorum.c:211-221), although a sync thread may overwrite
\* local writes made since it read its version, and pulls fail.
VersionsConverge == <>[](\A s, t \in Servers : Len(db[s]) = Len(db[t]))

\* Every handler comes to its end: a READ stops at Nr successes or at the last
\* server (protocol_quorum.c:95-110).  Every request is made once, so in the end
\* no handler is under way.
HandlersFinish == <>[](\A h \in Requests : pc[h] \in {"idle", "done"})
=============================================================================
