---------------------------- MODULE QuorumProofs -----------------------------
(***************************************************************************)
(* Proofs about the quorum protocol, for any number of servers, writes and *)
(* reads and whatever fails.  SharedHistory is about the databases, but a  *)
(* server may take over a copy that was made long ago and has been in a    *)
(* snapshot, a response buffer and rcvd_db since.  The inductive invariant *)
(* is therefore about all copies there are (Held), and adds that a write   *)
(* that has yet to be applied is in none of them.                          *)
(*                                                                         *)
(* That a failed pull restores nothing needs another invariant, which      *)
(* follows one sync thread around its loop.                                *)
(***************************************************************************)
EXTENDS QuorumProtocol, TLAPS

\* All copies of databases in the system.
Held == {db[s] : s \in Servers} \cup {response[s].db : s \in Servers}
          \cup {rcvd[s] : s \in Servers}
          \cup {snapshot[q][x] : q \in Pullers, x \in Servers}

\* Every reply has its parent before it.
Grounded(d) == \A k \in 1 .. Len(d) : IsReply(d[k]) => Parent[d[k]] + 1 < k

Lacks(d, w) == \A k \in 1 .. Len(d) : d[k] # w

CopiesAgree == \A d, e \in Held : Agree(d, e)
CopiesGrounded == \A d \in Held : Grounded(d)

\* A write whose handler has not written yet is nowhere.
NotYetWritten == \A w \in Writes : pc[w] \in {"idle", "write"} => \A d \in Held : Lacks(d, w)

\* A request that was not made has no handler.
Unstarted == \A h \in Requests : client[h] = "idle" => pc[h] = "idle"

IInv == TypeOK /\ CopiesAgree /\ CopiesGrounded /\ NotYetWritten /\ Unstarted

-----------------------------------------------------------------------------
(* Facts about histories. *)

\* The empty database agrees with all others.
LEMMA EmptyCopy ==
  ASSUME NEW d
  PROVE  /\ Agree(<< >>, d) /\ Agree(d, << >>)
         /\ Grounded(<< >>) /\ \A w : Lacks(<< >>, w)
BY DEF Agree, Grounded, Lacks

\* A database with a new write at its end agrees with whatever it agreed with.
LEMMA AppendAgrees ==
  ASSUME NEW d \in Databases, NEW e \in Databases, NEW w \in Writes,
         Agree(d, e), Agree(e, d), Lacks(e, w)
  PROVE  Agree(Append(d, w), e) /\ Agree(e, Append(d, w))
<1> DEFINE a == Append(d, w)
<1>1. Len(d) \in Nat /\ Len(e) \in Nat /\ Len(a) = Len(d) + 1 /\ a[Len(d) + 1] = w
        /\ \A k \in 1 .. Len(d) : a[k] = d[k]
  BY DEF Databases
<1> HIDE DEF a
<1>2. ASSUME NEW j \in 1 .. Len(a), NEW k \in 1 .. Len(e), a[j] = e[k]
      PROVE  j \in 1 .. Len(d) /\ a[j] = d[j]
  BY <1>1, <1>2 DEF Lacks
<1>3. Agree(a, e)
  <2> SUFFICES ASSUME NEW j \in 1 .. Len(a), NEW k \in 1 .. Len(e), a[j] = e[k]
               PROVE  j = k /\ \A l \in 1 .. k : a[l] = e[l]
    BY DEF Agree
  <2>1. j \in 1 .. Len(d) /\ d[j] = e[k]
    BY <1>2
  <2>2. j = k /\ \A l \in 1 .. k : d[l] = e[l]
    BY <2>1 DEF Agree
  <2>3. \A l \in 1 .. k : l \in 1 .. Len(d)
    BY <1>1, <2>1, <2>2
  <2> QED BY <1>1, <2>2, <2>3
<1>4. Agree(e, a)
  <2> SUFFICES ASSUME NEW k \in 1 .. Len(e), NEW j \in 1 .. Len(a), e[k] = a[j]
               PROVE  k = j /\ \A l \in 1 .. j : e[l] = a[l]
    BY DEF Agree
  <2>1. j \in 1 .. Len(d) /\ e[k] = d[j]
    BY <1>2
  <2>2. k = j /\ \A l \in 1 .. j : e[l] = d[l]
    BY <2>1 DEF Agree
  <2>3. \A l \in 1 .. j : l \in 1 .. Len(d)
    BY <1>1, <2>1
  <2> QED BY <1>1, <2>2, <2>3
<1> QED BY <1>3, <1>4 DEF a

\* A database with a new write at its end has no article twice.
LEMMA AppendAgreesWithItself ==
  ASSUME NEW d \in Databases, NEW w \in Writes, Agree(d, d), Lacks(d, w)
  PROVE  Agree(Append(d, w), Append(d, w))
<1> DEFINE a == Append(d, w)
<1>1. Len(d) \in Nat /\ Len(a) = Len(d) + 1 /\ a[Len(d) + 1] = w
        /\ \A k \in 1 .. Len(d) : a[k] = d[k]
  BY DEF Databases
<1> HIDE DEF a
<1>2. ASSUME NEW j \in 1 .. Len(a), NEW k \in 1 .. Len(a), a[j] = a[k] PROVE j = k
  <2>1. CASE j \in 1 .. Len(d) /\ k \in 1 .. Len(d)
    BY <1>1, <1>2, <2>1 DEF Agree
  <2>2. CASE j = Len(d) + 1 \/ k = Len(d) + 1
    BY <1>1, <1>2, <2>2 DEF Lacks
  <2> QED BY <1>1, <2>1, <2>2
<1> QED BY <1>2 DEF Agree, a

-----------------------------------------------------------------------------
(* Copying. *)

\* Copies are databases.
LEMMA HeldTyped == TypeOK => Held \subseteq Databases
BY DEF TypeOK, Held

\* A step that makes no new database, and starts no write over, keeps the
\* invariant.
LEMMA CopyingKeeps ==
  ASSUME IInv, TypeOK', Unstarted', Held' \subseteq Held \cup {<< >>},
         \A w \in Writes : pc'[w] \in {"idle", "write"} => pc[w] \in {"idle", "write"}
  PROVE  IInv'
<1>1. CopiesAgree'
  <2> SUFFICES ASSUME NEW d \in Held', NEW e \in Held' PROVE Agree(d, e)
    BY DEF CopiesAgree
  <2>1. CASE d = << >> \/ e = << >>
    BY <2>1, EmptyCopy
  <2>2. CASE d \in Held /\ e \in Held
    BY <2>2 DEF IInv, CopiesAgree
  <2> QED BY <2>1, <2>2
<1>2. CopiesGrounded'
  <2> SUFFICES ASSUME NEW d \in Held' PROVE Grounded(d)
    BY DEF CopiesGrounded
  <2> QED BY EmptyCopy DEF IInv, CopiesGrounded
<1>3. NotYetWritten'
  <2> SUFFICES ASSUME NEW w \in Writes, pc'[w] \in {"idle", "write"}, NEW d \in Held'
               PROVE  Lacks(d, w)
    BY DEF NotYetWritten
  <2> QED BY EmptyCopy DEF IInv, NotYetWritten
<1> QED BY <1>1, <1>2, <1>3 DEF IInv

\* Where a copy can come from.
LEMMA HeldParts ==
  ASSUME \A s \in Servers : db'[s] \in Held \cup {<< >>},
         \A s \in Servers : response'[s].db \in Held \cup {<< >>},
         \A s \in Servers : rcvd'[s] \in Held \cup {<< >>},
         \A q \in Pullers, x \in Servers : snapshot'[q][x] \in Held \cup {<< >>}
  PROVE  Held' \subseteq Held \cup {<< >>}
<1> DEFINE H == Held \cup {<< >>}
<1>1. Held' = {db'[s] : s \in Servers} \cup {response'[s].db : s \in Servers}
                \cup {rcvd'[s] : s \in Servers} \cup {snapshot'[q][x] : q \in Pullers, x \in Servers}
  BY DEF Held
<1> HIDE DEF H
<1>2. Held' \subseteq H
  BY <1>1 DEF H
<1> QED BY <1>2 DEF H

\* The copies there are.
LEMMA HeldCopies ==
  /\ \A s \in Servers : db[s] \in Held
  /\ \A s \in Servers : response[s].db \in Held
  /\ \A s \in Servers : rcvd[s] \in Held
  /\ \A q \in Pullers, x \in Servers : snapshot[q][x] \in Held
BY DEF Held

\* The steps that copy nothing.
LEMMA NothingCopied ==
  ASSUME IInv, TypeOK', Unstarted', UNCHANGED <<db, response, rcvd, snapshot>>,
         \A w \in Writes : pc'[w] \in {"idle", "write"} => pc[w] \in {"idle", "write"}
  PROVE  IInv'
<1>1. Held' = Held
  BY DEF Held
<1> QED BY <1>1, CopyingKeeps

\* A response that holds a copy, or none, is built at server s.
LEMMA ResponseBuilt ==
  ASSUME IInv, TypeOK', Unstarted', NEW s \in Servers, NEW t, NEW d \in Held \cup {<< >>},
         response' = [response EXCEPT ![s] = Message(t, d)], UNCHANGED <<db, rcvd>>,
         \A q \in Pullers, x \in Servers : snapshot'[q][x] \in {snapshot[q][x], << >>},
         \A w \in Writes : pc'[w] \in {"idle", "write"} => pc[w] \in {"idle", "write"}
  PROVE  IInv'
<1>1. response \in [Servers -> [type : MessageType, db : Databases]]
  BY DEF IInv, TypeOK
<1>2. \A x \in Servers : response'[x].db \in Held \cup {<< >>}
  BY <1>1, HeldCopies DEF Message
<1>3. Held' \subseteq Held \cup {<< >>}
  BY <1>2, HeldParts, HeldCopies
<1> QED BY <1>3, CopyingKeeps

-----------------------------------------------------------------------------
(* The steps. *)

\* A fault is counted within its bound.
LEMMA FaultCounted ==
  ASSUME TypeOK, Fault \/ UNCHANGED faults
  PROVE  faults' \in 0 .. MaxFaults
BY SizeAssumption DEF TypeOK, Fault

\* A handler that goes from a state in which it has written, or is a reader,
\* to another one.
LEMMA HandlerMoves ==
  ASSUME IInv, NEW h \in Requests, NEW p, pc[h] # "idle", p \notin {"idle", "write"},
         pc' = [pc EXCEPT ![h] = p], UNCHANGED client
  PROVE  /\ Unstarted'
         /\ \A w \in Writes : pc'[w] \in {"idle", "write"} => pc[w] \in {"idle", "write"}
<1>1. pc \in [Requests -> PcState] /\ Writes \subseteq Requests
  BY DEF IInv, TypeOK, Requests
<1>2. \A g \in Requests : pc'[g] = IF g = h THEN p ELSE pc[g]
  BY <1>1
<1>3. Unstarted'
  BY <1>2 DEF IInv, Unstarted
<1> QED BY <1>1, <1>2, <1>3

\* The steps of a client.
LEMMA ClientStep ==
  ASSUME IInv, NEW h \in Requests, Send(h) \/ ClientTimeout(h)
  PROVE  IInv'
<1>1. TypeOK /\ Unstarted /\ Writes \subseteq Requests
  BY DEF IInv, Requests
<1>2. CASE Send(h)
  <2>1. TypeOK'
    BY <1>1, <1>2 DEF Send, TypeOK, ClientState, PcState, sync
  <2>2. pc[h] = "idle" /\ \A g \in Requests : g # h => pc'[g] = pc[g] /\ client'[g] = client[g]
    BY <1>1, <1>2 DEF Send, TypeOK, Unstarted
  <2>3. client'[h] = "wait"
    BY <1>1, <1>2 DEF Send, TypeOK
  <2>4. Unstarted'
    BY <1>1, <2>2, <2>3 DEF Unstarted
  <2>5. \A w \in Writes : pc'[w] \in {"idle", "write"} => pc[w] \in {"idle", "write"}
    BY <1>1, <2>2
  <2>6. UNCHANGED <<db, response, rcvd, snapshot>>
    BY <1>2 DEF Send, sync
  <2> QED BY <2>1, <2>4, <2>5, <2>6, NothingCopied
<1>3. CASE ClientTimeout(h)
  <2>1. faults' \in 0 .. MaxFaults
    BY <1>1, <1>3, FaultCounted DEF ClientTimeout
  <2>2. client' = [client EXCEPT ![h] = "error"]
          /\ UNCHANGED <<db, response, pc, success, pos, pull, version, rcvd, serving, snapshot>>
    BY <1>3 DEF ClientTimeout, sync
  <2>3. TypeOK'
    BY <1>1, <2>1, <2>2 DEF TypeOK, ClientState
  <2>4. Unstarted'
    BY <1>1, <2>2 DEF TypeOK, Unstarted
  <2> QED BY <2>2, <2>3, <2>4, NothingCopied
<1> QED BY <1>2, <1>3

\* The steps of a write handler but the write itself
\* (protocol_quorum.c:30-34, 66-80, 175-195).
LEMMA ResponseStep ==
  ASSUME IInv, NEW w \in Writes,
         WriteAborted(w) \/ BuildInvalid(w) \/ BuildWritten(w)
  PROVE  IInv'
<1>1. TypeOK /\ w \in Requests /\ Entry[w] \in Servers
  BY RequestAssumption DEF IInv, Requests
<1>2. CASE WriteAborted(w)
  <2>1. faults' \in 0 .. MaxFaults
    BY <1>1, <1>2, FaultCounted DEF WriteAborted
  <2>2. pc[w] = "write" /\ pc' = [pc EXCEPT ![w] = "done"]
          /\ UNCHANGED <<db, response, client, success, pos, pull, version, rcvd, serving, snapshot>>
    BY <1>2 DEF WriteAborted, sync
  <2>3. TypeOK'
    BY <1>1, <2>1, <2>2 DEF TypeOK, PcState
  <2>4. Unstarted' /\ \A v \in Writes : pc'[v] \in {"idle", "write"} => pc[v] \in {"idle", "write"}
    BY <1>1, <2>2, HandlerMoves
  <2> QED BY <2>2, <2>3, <2>4, NothingCopied
<1>3. CASE BuildInvalid(w)
  <2>1. pc[w] = "invalid" /\ pc' = [pc EXCEPT ![w] = "written"]
          /\ response' = [response EXCEPT ![Entry[w]] = Message("ErrorResponse", << >>)]
          /\ UNCHANGED <<db, client, success, pos, pull, version, rcvd, serving, snapshot, faults>>
    BY <1>3 DEF BuildInvalid, ErrorResponse, sync
  <2>2. Message("ErrorResponse", << >>) \in [type : MessageType, db : Databases]
    BY DEF Message, MessageType, Databases
  <2>3. TypeOK'
    BY <1>1, <2>1, <2>2 DEF TypeOK, PcState
  <2>4. Unstarted' /\ \A v \in Writes : pc'[v] \in {"idle", "write"} => pc[v] \in {"idle", "write"}
    BY <1>1, <2>1, HandlerMoves
  <2> QED BY <1>1, <2>1, <2>3, <2>4, ResponseBuilt
<1>4. CASE BuildWritten(w)
  <2>1. pc[w] = "written" /\ pc' = [pc EXCEPT ![w] = "send"]
          /\ response' = [response EXCEPT ![Entry[w]] = Message(Expected(w), << >>)]
          /\ UNCHANGED <<db, client, success, pos, pull, version, rcvd, serving, snapshot, faults>>
    BY <1>4 DEF BuildWritten, sync
  <2>2. Message(Expected(w), << >>) \in [type : MessageType, db : Databases]
    BY DEF Message, MessageType, Databases, Expected
  <2>3. TypeOK'
    BY <1>1, <2>1, <2>2 DEF TypeOK, PcState
  <2>4. Unstarted' /\ \A v \in Writes : pc'[v] \in {"idle", "write"} => pc[v] \in {"idle", "write"}
    BY <1>1, <2>1, HandlerMoves
  <2> QED BY <1>1, <2>1, <2>3, <2>4, ResponseBuilt
<1> QED BY <1>2, <1>3, <1>4

\* The last step of a handler.
LEMMA SendResponseStep ==
  ASSUME IInv, NEW h \in Requests, SendResponse(h)
  PROVE  IInv'
<1>1. TypeOK /\ Unstarted /\ Writes \subseteq Requests
  BY DEF IInv, Requests
<1>2. pc[h] = "send" /\ pc' = [pc EXCEPT ![h] = "done"]
        /\ UNCHANGED <<db, response, success, pos, pull, version, rcvd, serving, snapshot, faults>>
  BY DEF SendResponse, sync
<1>3. PICK c \in {client[h], "ok", "error"} : client' = [client EXCEPT ![h] = c]
  BY DEF SendResponse
<1>4. TypeOK'
  BY <1>1, <1>2, <1>3 DEF TypeOK, PcState, ClientState
<1>5. Unstarted' /\ \A v \in Writes : pc'[v] \in {"idle", "write"} => pc[v] \in {"idle", "write"}
  BY <1>1, <1>2, <1>3 DEF TypeOK, Unstarted
<1> QED BY <1>2, <1>4, <1>5, NothingCopied

\* The steps that only move a puller or a DB-PULL handler on.
LEMMA PullerMoves ==
  ASSUME IInv, TypeOK', UNCHANGED <<db, response, client, pc, rcvd, snapshot>>
  PROVE  IInv'
<1>1. Unstarted' /\ \A w \in Writes : pc'[w] \in {"idle", "write"} => pc[w] \in {"idle", "write"}
  BY DEF IInv, Unstarted
<1> QED BY <1>1, NothingCopied

\* What net_DbPull leaves behind when it returns.
LEMMA PullReturnsTyped ==
  ASSUME TypeOK, NEW q \in Pullers, NEW msg, msg.db \in Databases, PullReturns(q, msg)
  PROVE  /\ pull' \in [Pullers -> PullState]
         /\ rcvd' \in [Servers -> Databases]
         /\ success' \in [Reads -> Nat]
         /\ \A s \in Servers : rcvd'[s] \in {rcvd[s], msg.db}
<1>1. pull \in [Pullers -> PullState] /\ rcvd \in [Servers -> Databases] /\ success \in [Reads -> Nat]
  BY DEF TypeOK
<1>2. pull' \in [Pullers -> PullState]
  BY <1>1 DEF PullReturns, PullState
<1>3. CASE msg.type # "DbPullResponse"
  BY <1>1, <1>2, <1>3 DEF PullReturns
<1>4. CASE msg.type = "DbPullResponse" /\ q \in Reads
  BY <1>1, <1>2, <1>4 DEF PullReturns
<1>5. CASE msg.type = "DbPullResponse" /\ q \notin Reads
  <2>1. rcvd' = [rcvd EXCEPT ![q] = msg.db] /\ success' = success
    BY <1>5 DEF PullReturns
  <2> QED BY <1>1, <1>2, <2>1
<1> QED BY <1>3, <1>4, <1>5

\* The DB-PULL handler (msg_handler.c:185-200) and what becomes of its response.
LEMMA DbPullStep ==
  ASSUME IInv, NEW q \in Pullers, NEW x \in Servers, DbPull(q, x) \/ PullLost(q, x)
  PROVE  IInv'
<1>1. TypeOK /\ Unstarted
  BY DEF IInv
<1>2. CASE Copy(q, x)
  <2>1. snapshot' = [snapshot EXCEPT ![q][x] = db[x]] /\ serving' = [serving EXCEPT ![q][x] = "copied"]
          /\ UNCHANGED <<db, response, client, pc, success, pos, pull, version, rcvd, faults>>
    BY <1>2 DEF Copy, requests, sync
  <2>2. TypeOK'
    BY <1>1, <2>1 DEF TypeOK, ServeState
  <2>3. \A p \in Pullers, y \in Servers : snapshot'[p][y] \in {snapshot[p][y], db[x]}
    BY <1>1, <2>1 DEF TypeOK
  <2>4. Held' \subseteq Held \cup {<< >>}
    BY <2>1, <2>3, HeldParts, HeldCopies
  <2>5. Unstarted' /\ \A w \in Writes : pc'[w] \in {"idle", "write"} => pc[w] \in {"idle", "write"}
    BY <1>1, <2>1 DEF Unstarted
  <2> QED BY <2>2, <2>4, <2>5, CopyingKeeps
<1>3. CASE Build(q, x)
  <2> DEFINE d == snapshot[q][x]
  <2>1. snapshot' = [snapshot EXCEPT ![q][x] = << >>] /\ serving' = [serving EXCEPT ![q][x] = "built"]
          /\ response' = [response EXCEPT ![x] = Message("DbPullResponse", d)]
          /\ UNCHANGED <<db, client, pc, success, pos, pull, version, rcvd, faults>>
    BY <1>3 DEF Build, requests, sync
  <2>2. d \in Databases /\ << >> \in Databases
    BY <1>1 DEF TypeOK, Databases
  <2>3. d \in Held
    BY HeldCopies
  <2> HIDE DEF d
  <2>4. Message("DbPullResponse", d) \in [type : MessageType, db : Databases]
    BY <2>2 DEF Message, MessageType
  <2>5. snapshot' \in [Pullers -> [Servers -> Databases]] /\ serving' \in [Pullers -> [Servers -> ServeState]]
    BY <1>1, <2>1, <2>2 DEF TypeOK, ServeState
  <2>6. response' \in [Servers -> [type : MessageType, db : Databases]]
    BY <1>1, <2>1, <2>4 DEF TypeOK
  <2>7. TypeOK'
    BY <1>1, <2>1, <2>5, <2>6 DEF TypeOK
  <2>8. \A p \in Pullers, y \in Servers : snapshot'[p][y] \in {snapshot[p][y], << >>}
    BY <1>1, <2>1 DEF TypeOK
  <2>9. Unstarted' /\ \A w \in Writes : pc'[w] \in {"idle", "write"} => pc[w] \in {"idle", "write"}
    BY <1>1, <2>1 DEF Unstarted
  <2> QED BY <2>1, <2>3, <2>7, <2>8, <2>9, ResponseBuilt
<1>4. CASE SendPulled(q, x)
  <2>1. serving' = [serving EXCEPT ![q][x] = "none"]
          /\ UNCHANGED <<db, response, client, pc, pos, version, snapshot, faults>>
    BY <1>4 DEF SendPulled
  <2>2. response[x].db \in Databases
    BY <1>1 DEF TypeOK
  <2>3. /\ pull' \in [Pullers -> PullState] /\ rcvd' \in [Servers -> Databases]
        /\ success' \in [Reads -> Nat]
        /\ \A s \in Servers : rcvd'[s] \in {rcvd[s], response[x].db}
    <3>1. CASE PullReturns(q, response[x])
      BY <1>1, <2>2, <3>1, PullReturnsTyped
    <3>2. CASE UNCHANGED <<pull, rcvd, success>>
      BY <1>1, <3>2 DEF TypeOK
    <3> QED BY <1>4, <3>1, <3>2 DEF SendPulled
  <2>4. TypeOK'
    BY <1>1, <2>1, <2>3 DEF TypeOK, ServeState
  <2>5. Held' \subseteq Held \cup {<< >>}
    BY <2>1, <2>3, HeldParts, HeldCopies
  <2>6. Unstarted' /\ \A w \in Writes : pc'[w] \in {"idle", "write"} => pc[w] \in {"idle", "write"}
    BY <1>1, <2>1 DEF Unstarted
  <2> QED BY <2>4, <2>5, <2>6, CopyingKeeps
<1>5. CASE PullLost(q, x)
  <2>1. faults' \in 0 .. MaxFaults
    BY <1>1, <1>5, FaultCounted DEF PullLost
  <2>2. serving' = [serving EXCEPT ![q][x] = "none"]
          /\ UNCHANGED <<db, response, client, pc, success, pos, pull, version, rcvd, snapshot>>
    BY <1>5 DEF PullLost, requests, sync
  <2>3. TypeOK'
    BY <1>1, <2>1, <2>2 DEF TypeOK, ServeState
  <2> QED BY <2>2, <2>3, PullerMoves
<1> QED BY <1>2, <1>3, <1>4, <1>5 DEF DbPull

\* A puller that gives up keeps what it pulled before.
LEMMA PullFailsStep ==
  ASSUME IInv, NEW q \in Pullers, PullFails(q)
  PROVE  IInv'
<1>1. TypeOK
  BY DEF IInv
<1>2. faults' \in 0 .. MaxFaults
  BY <1>1, FaultCounted DEF PullFails
<1>3. pull' = [pull EXCEPT ![q] = "back"] /\ rcvd' = rcvd /\ success' = success
        /\ UNCHANGED <<db, response, client, pc, pos, version, serving, snapshot>>
  BY DEF PullFails, PullReturns, ErrorResponse, Message
<1>4. TypeOK'
  BY <1>1, <1>2, <1>3 DEF TypeOK, PullState
<1> QED BY <1>3, <1>4, PullerMoves

\* Connecting to the next server.
LEMMA AskTyped ==
  ASSUME TypeOK, NEW q \in Pullers, Ask(q)
  PROVE  pull' \in [Pullers -> PullState] /\ serving' \in [Pullers -> [Servers -> ServeState]]
<1>1. pos[q] \in Servers
  BY DEF TypeOK
<1> QED BY <1>1 DEF TypeOK, Ask, PullState, ServeState

\* The steps of a READ handler (protocol_quorum.c:95-121).
LEMMA ReadStep ==
  ASSUME IInv, NEW r \in Reads, ReadPull(r) \/ ReadPulled(r) \/ ReadAnswer(r)
  PROVE  IInv'
<1>1. TypeOK /\ Unstarted /\ r \in Requests /\ r \in Pullers /\ Entry[r] \in Servers
  BY RequestAssumption DEF IInv, Requests, Pullers
<1>2. CASE ReadPull(r)
  <2>1. UNCHANGED <<db, response, client, pc, success, pos, version, rcvd, snapshot, faults>> /\ Ask(r)
    BY <1>2 DEF ReadPull, requests, sync
  <2>2. TypeOK'
    BY <1>1, <2>1, AskTyped DEF TypeOK
  <2> QED BY <2>1, <2>2, PullerMoves
<1>3. CASE ReadPulled(r)
  <2>1. pull' = [pull EXCEPT ![r] = "idle"]
          /\ UNCHANGED <<db, response, client, success, version, rcvd, serving, snapshot, faults>>
    BY <1>3 DEF ReadPulled, sync
  <2>2. pull' \in [Pullers -> PullState]
    BY <1>1, <2>1 DEF TypeOK, PullState
  <2>3. CASE success[r] >= Nr \/ pos[r] + 1 = N
    <3>1. pc' = [pc EXCEPT ![r] = "answer"] /\ pos' = pos
      BY <1>3, <2>3 DEF ReadPulled
    <3>2. TypeOK'
      BY <1>1, <2>1, <2>2, <3>1 DEF TypeOK, PcState
    <3>3. Unstarted' /\ \A v \in Writes : pc'[v] \in {"idle", "write"} => pc[v] \in {"idle", "write"}
      BY <1>1, <1>3, <2>1, <3>1, HandlerMoves DEF ReadPulled
    <3> QED BY <2>1, <3>2, <3>3, NothingCopied
  <2>4. CASE ~(success[r] >= Nr \/ pos[r] + 1 = N)
    <3>1. pos' = [pos EXCEPT ![r] = pos[r] + 1] /\ pc' = pc
      BY <1>3, <2>4 DEF ReadPulled
    <3>2. pos[r] + 1 \in Servers
      <4>1. pos[r] \in Servers
        BY <1>1 DEF TypeOK
      <4>2. pos[r] + 1 # N
        BY <2>4
      <4> QED BY <4>1, <4>2, SizeAssumption DEF Servers
    <3>3. TypeOK'
      BY <1>1, <2>1, <2>2, <3>1, <3>2 DEF TypeOK
    <3> QED BY <2>1, <3>1, <3>3, PullerMoves
  <2> QED BY <2>3, <2>4
<1>4. CASE ReadAnswer(r)
  <2>1. pc[r] = "answer" /\ pc' = [pc EXCEPT ![r] = "send"]
          /\ UNCHANGED <<db, client, success, pos, pull, version, rcvd, serving, snapshot, faults>>
    BY <1>4 DEF ReadAnswer, sync
  <2>2. PICK t \in MessageType, d \in {db[Entry[r]], << >>} :
          response' = [response EXCEPT ![Entry[r]] = Message(t, d)]
    <3>1. CASE success[r] >= Nr
      BY <1>4, <3>1 DEF ReadAnswer, MessageType
    <3>2. CASE ~(success[r] >= Nr)
      BY <1>4, <3>2 DEF ReadAnswer, ErrorResponse, MessageType
    <3> QED BY <3>1, <3>2
  <2>3. d \in Databases /\ d \in Held \cup {<< >>}
    <3>1. << >> \in Databases
      BY DEF Databases
    <3>2. db[Entry[r]] \in Databases /\ db[Entry[r]] \in Held
      BY <1>1, HeldCopies DEF TypeOK
    <3> QED BY <3>1, <3>2
  <2>4. Message(t, d) \in [type : MessageType, db : Databases]
    BY <2>3 DEF Message
  <2>5. TypeOK'
    BY <1>1, <2>1, <2>2, <2>4 DEF TypeOK, PcState
  <2>6. Unstarted' /\ \A v \in Writes : pc'[v] \in {"idle", "write"} => pc[v] \in {"idle", "write"}
    BY <1>1, <2>1, HandlerMoves
  <2> QED BY <1>1, <2>1, <2>2, <2>3, <2>5, <2>6, ResponseBuilt
<1> QED BY <1>2, <1>3, <1>4

\* The steps of the sync thread (protocol_quorum.c:211-221).
LEMMA SyncStep ==
  ASSUME IInv, NEW s \in Servers, Sync(s)
  PROVE  IInv'
<1>1. TypeOK /\ Unstarted /\ s \in Pullers
  BY DEF IInv, Pullers
<1>2. CASE SyncPull(s)
  <2>1. version' = [version EXCEPT ![s] = Len(db[s])] /\ Ask(s)
          /\ UNCHANGED <<db, response, client, pc, success, pos, rcvd, snapshot, faults>>
    BY <1>2 DEF SyncPull, requests
  <2>2. Len(db[s]) \in Nat
    BY <1>1 DEF TypeOK, Databases
  <2>3. TypeOK'
    BY <1>1, <2>1, <2>2, AskTyped DEF TypeOK
  <2> QED BY <2>1, <2>3, PullerMoves
<1>3. CASE SyncPulled(s)
  <2>1. pull' = [pull EXCEPT ![s] = "idle"] /\ pos' = [pos EXCEPT ![s] = NextServer(pos[s])]
          /\ version' = [version EXCEPT ![s] = 0]
          /\ UNCHANGED <<response, client, pc, success, rcvd, serving, snapshot, faults>>
    BY <1>3 DEF SyncPulled, requests
  <2>2. NextServer(pos[s]) \in Servers
    BY <1>1, SizeAssumption DEF TypeOK, NextServer, Servers
  <2>3. db' \in [Servers -> Databases] /\ \A x \in Servers : db'[x] \in {db[x], rcvd[s]}
    <3>1. CASE Newer(s)
      BY <1>1, <1>3, <3>1 DEF SyncPulled, TakeOver, TypeOK
    <3>2. CASE ~Newer(s)
      BY <1>1, <1>3, <3>2 DEF SyncPulled, TypeOK
    <3> QED BY <3>1, <3>2
  <2>4. TypeOK'
    BY <1>1, <2>1, <2>2, <2>3 DEF TypeOK, PullState
  <2>5. Held' \subseteq Held \cup {<< >>}
    BY <2>1, <2>3, HeldParts, HeldCopies
  <2>6. Unstarted' /\ \A w \in Writes : pc'[w] \in {"idle", "write"} => pc[w] \in {"idle", "write"}
    BY <1>1, <2>1 DEF Unstarted
  <2> QED BY <2>4, <2>5, <2>6, CopyingKeeps
<1> QED BY <1>2, <1>3 DEF Sync

\* A restart drops copies and ends handlers.
LEMMA RestartStep ==
  ASSUME IInv, NEW s \in Servers, Restart(s)
  PROVE  IInv'
<1>1. TypeOK /\ Unstarted /\ s \in Pullers /\ Writes \subseteq Requests
  BY DEF IInv, Pullers, Requests
<1>2. faults' \in 0 .. MaxFaults /\ UNCHANGED <<client, success>>
  BY <1>1, FaultCounted DEF Restart
<1>3. << >> \in Databases /\ 0 \in Servers
  BY SizeAssumption DEF Databases, Servers
<1>4. ErrorResponse \in [type : MessageType, db : Databases] /\ ErrorResponse.db = << >>
  BY <1>3 DEF ErrorResponse, Message, MessageType
<1>5. /\ db' \in [Servers -> Databases] /\ \A x \in Servers : db'[x] \in {db[x], << >>}
      /\ rcvd' \in [Servers -> Databases] /\ \A x \in Servers : rcvd'[x] \in {rcvd[x], << >>}
  BY <1>1, <1>3 DEF Restart, TypeOK
<1>6. response' = [response EXCEPT ![s] = ErrorResponse]
  BY DEF Restart
<1>7. response' \in [Servers -> [type : MessageType, db : Databases]]
        /\ \A x \in Servers : response'[x].db \in {response[x].db, << >>}
  BY <1>1, <1>4, <1>6 DEF TypeOK
<1>8. pc' \in [Requests -> PcState] /\ \A h \in Requests : pc'[h] \in {pc[h], "done"} /\ (pc[h] = "idle" => pc'[h] = "idle")
  BY <1>1 DEF Restart, TypeOK, PcState
<1>9. pull' \in [Pullers -> PullState] /\ pos' \in [Pullers -> Servers] /\ version' \in [Servers -> Nat]
  BY <1>1, <1>3 DEF Restart, TypeOK, PullState
<1>10. serving' \in [Pullers -> [Servers -> ServeState]]
  BY <1>1 DEF Restart, TypeOK, ServeState
<1>11. snapshot' \in [Pullers -> [Servers -> Databases]]
         /\ \A q \in Pullers, x \in Servers : snapshot'[q][x] \in {snapshot[q][x], << >>}
  BY <1>1, <1>3 DEF Restart, TypeOK
<1>12. TypeOK'
  BY <1>1, <1>2, <1>5, <1>7, <1>8, <1>9, <1>10, <1>11 DEF TypeOK
<1>13. Held' \subseteq Held \cup {<< >>}
  BY <1>5, <1>7, <1>11, HeldParts, HeldCopies
<1>14. Unstarted' /\ \A w \in Writes : pc'[w] \in {"idle", "write"} => pc[w] \in {"idle", "write"}
  BY <1>1, <1>2, <1>8 DEF Unstarted
<1> QED BY <1>12, <1>13, <1>14, CopyingKeeps

\* Writing makes one new database: that of the server with a write at its end
\* that no copy has yet, and whose parent, if it has one, is there.
LEMMA WriteStep ==
  ASSUME IInv, NEW w \in Writes, Write(w)
  PROVE  IInv'
<1> DEFINE e == Entry[w]
           a == Append(db[e], w)
<1>1. TypeOK /\ w \in Requests /\ e \in Servers /\ Writes \subseteq Requests
  BY RequestAssumption DEF IInv, Requests
<1>2. PICK p \in {"invalid", "written"} : pc' = [pc EXCEPT ![w] = p]
  BY DEF Write
<1>3. pc[w] = "write"
        /\ UNCHANGED <<response, client, success, pos, pull, version, rcvd, serving, snapshot, faults>>
  BY DEF Write, sync
<1>4. Unstarted' /\ \A v \in Writes : pc'[v] \in {"idle", "write"} => pc[v] \in {"idle", "write"}
  BY <1>1, <1>2, <1>3, HandlerMoves
<1>5. pc' \in [Requests -> PcState] /\ pc'[w] \notin {"idle", "write"}
  BY <1>1, <1>2 DEF TypeOK, PcState
<1>6. CASE UNCHANGED db
  <2>1. TypeOK'
    BY <1>1, <1>3, <1>5, <1>6 DEF TypeOK
  <2> QED BY <1>3, <1>4, <1>6, <2>1, NothingCopied
<1>7. CASE db' # db
  <2>1. db' = [db EXCEPT ![e] = a] /\ (IsReply(w) => Parent[w] < Len(db[e]))
    BY <1>7 DEF Write, Apply, ParentExists
  <2>2. db[e] \in Databases /\ db[e] \in Held
    BY <1>1, HeldCopies DEF TypeOK
  <2>3. a \in Databases /\ Len(a) = Len(db[e]) + 1 /\ a[Len(db[e]) + 1] = w /\ Len(db[e]) \in Nat
          /\ \A k \in 1 .. Len(db[e]) : a[k] = db[e][k]
    BY <2>2 DEF Databases
  <2> HIDE DEF a
  <2>4. TypeOK'
    BY <1>1, <1>3, <1>5, <2>1, <2>3 DEF TypeOK
  <2>5. Held' \subseteq Held \cup {a}
    <3>1. \A s \in Servers : db'[s] \in Held \cup {a}
      BY <1>1, <2>1, HeldCopies DEF TypeOK
    <3>2. Held' = {db'[s] : s \in Servers} \cup {response[s].db : s \in Servers}
                    \cup {rcvd[s] : s \in Servers} \cup {snapshot[q][x] : q \in Pullers, x \in Servers}
      BY <1>3 DEF Held
    <3> QED BY <3>1, <3>2, HeldCopies
  <2>6. \A d \in Held : d \in Databases /\ Lacks(d, w)
    BY <1>1, <1>3, HeldTyped DEF IInv, NotYetWritten
  <2>7. \A d \in Held : Agree(a, d) /\ Agree(d, a)
    <3> TAKE d \in Held
    <3>1. Agree(db[e], d) /\ Agree(d, db[e])
      BY <2>2 DEF IInv, CopiesAgree
    <3> QED BY <2>2, <2>6, <3>1, AppendAgrees DEF a
  <2>8. Agree(a, a)
    <3>1. Agree(db[e], db[e])
      BY <2>2 DEF IInv, CopiesAgree
    <3> QED BY <2>2, <2>6, <3>1, AppendAgreesWithItself DEF a
  <2>9. CopiesAgree'
    <3> SUFFICES ASSUME NEW c \in Held', NEW d \in Held' PROVE Agree(c, d)
      BY DEF CopiesAgree
    <3>1. c \in Held \cup {a} /\ d \in Held \cup {a}
      BY <2>5
    <3>2. CASE c \in Held /\ d \in Held
      BY <3>2 DEF IInv, CopiesAgree
    <3> QED BY <2>7, <2>8, <3>1, <3>2
  <2>10. Grounded(a)
    <3>1. Grounded(db[e])
      BY <2>2 DEF IInv, CopiesGrounded
    <3>2. ASSUME NEW k \in 1 .. Len(a), IsReply(a[k]) PROVE Parent[a[k]] + 1 < k
      <4>1. CASE k \in 1 .. Len(db[e])
        BY <2>3, <3>1, <3>2, <4>1 DEF Grounded
      <4>2. CASE k = Len(db[e]) + 1
        BY <2>1, <2>3, <3>2, <4>2, RequestAssumption DEF IsReply, NoParent
      <4> QED BY <2>3, <4>1, <4>2
    <3> QED BY <3>2 DEF Grounded
  <2>11. CopiesGrounded'
    BY <2>5, <2>10 DEF IInv, CopiesGrounded
  <2>12. ASSUME NEW v \in Writes, pc'[v] \in {"idle", "write"} PROVE Lacks(a, v)
    <3>1. v # w /\ Lacks(db[e], v)
      BY <1>4, <1>5, <2>2, <2>12 DEF IInv, NotYetWritten
    <3> QED BY <2>3, <3>1 DEF Lacks
  <2>13. NotYetWritten'
    <3> SUFFICES ASSUME NEW v \in Writes, pc'[v] \in {"idle", "write"}, NEW d \in Held'
                 PROVE  Lacks(d, v)
      BY DEF NotYetWritten
    <3>1. CASE d \in Held
      BY <1>4, <3>1 DEF IInv, NotYetWritten
    <3>2. CASE d = a
      BY <2>12, <3>2
    <3> QED BY <2>5, <3>1, <3>2
  <2> QED BY <1>4, <2>4, <2>9, <2>11, <2>13 DEF IInv
<1> QED BY <1>6, <1>7

-----------------------------------------------------------------------------
(* The theorems. *)

\* All databases and buffers start empty.
LEMMA InitGood == Init => IInv
<1> SUFFICES ASSUME Init PROVE IInv
  OBVIOUS
<1>1. << >> \in Databases /\ 0 \in Servers /\ 0 \in 0 .. MaxFaults
  BY SizeAssumption DEF Databases, Servers
<1>2. ErrorResponse \in [type : MessageType, db : Databases] /\ ErrorResponse.db = << >>
  BY <1>1 DEF ErrorResponse, Message, MessageType
<1>3. TypeOK
  BY <1>1, <1>2 DEF Init, TypeOK, ClientState, PcState, PullState, ServeState
<1>4. \A d \in Held : d = << >>
  BY <1>2 DEF Init, Held
<1>5. CopiesAgree /\ CopiesGrounded /\ NotYetWritten
  BY <1>4, EmptyCopy DEF CopiesAgree, CopiesGrounded, NotYetWritten
<1>6. Unstarted
  BY DEF Init, Unstarted
<1> QED BY <1>3, <1>5, <1>6 DEF IInv

\* Every step keeps the invariant.
LEMMA NextGood == IInv /\ [Next]_vars => IInv'
<1> SUFFICES ASSUME IInv, [Next]_vars PROVE IInv'
  OBVIOUS
<1>1. CASE UNCHANGED vars
  <2>1. TypeOK'
    BY <1>1 DEF IInv, TypeOK, vars, requests, sync
  <2> QED BY <1>1, <2>1, PullerMoves DEF vars, requests, sync
<1>2. ASSUME NEW h \in Requests, Send(h) \/ ClientTimeout(h) PROVE IInv'
  BY <1>2, ClientStep
<1>3. ASSUME NEW w \in Writes, Post(w) \/ WriteAborted(w) PROVE IInv'
  BY <1>3, WriteStep, ResponseStep, SendResponseStep DEF Post, Requests
<1>4. ASSUME NEW r \in Reads, Read(r) PROVE IInv'
  BY <1>4, ReadStep, SendResponseStep DEF Read, Requests
<1>5. ASSUME NEW s \in Servers, Sync(s) \/ Restart(s) PROVE IInv'
  BY <1>5, SyncStep, RestartStep
<1>6. ASSUME NEW q \in Pullers, PullFails(q) PROVE IInv'
  BY <1>6, PullFailsStep
<1>7. ASSUME NEW q \in Pullers, NEW x \in Servers, DbPull(q, x) \/ PullLost(q, x) PROVE IInv'
  BY <1>7, DbPullStep
<1> QED BY <1>1, <1>2, <1>3, <1>4, <1>5, <1>6, <1>7 DEF Next

\* The invariant holds throughout.
THEOREM QuorumGood == Spec => []IInv
BY InitGood, NextGood, PTL DEF Spec

\* Type correctness, for every number of servers and requests.
THEOREM TypeCorrect == Spec => []TypeOK
<1>1. IInv => TypeOK
  BY DEF IInv
<1> QED BY <1>1, QuorumGood, PTL

\* Databases that have an article in common agree on its id and on all that came
\* before it, however they are pulled and taken over (protocol_quorum.c:198-223).
THEOREM SharedHistoryCorrect == Spec => []SharedHistory
<1>1. IInv => SharedHistory
  BY HeldCopies DEF IInv, CopiesAgree, SharedHistory
<1> QED BY <1>1, QuorumGood, PTL

\* No server lists a reply without an article of the id that it answers.
THEOREM RepliesCorrect == Spec => []RepliesAfterParents
<1>1. IInv => RepliesAfterParents
  BY HeldCopies DEF IInv, CopiesGrounded, Grounded, RepliesAfterParents
<1> QED BY <1>1, QuorumGood, PTL

-----------------------------------------------------------------------------
(* What a pull left in rcvd_db. *)

\* Between two pulls rcvd_db is not longer than the database: either it was taken
\* over or it was not newer.  While a pull is under way it is not longer than the
\* version read before it, and the database does not become shorter.
LoopInv(s) ==
  /\ pull[s] = "idle" => Len(rcvd[s]) <= Len(db[s])
  /\ pull[s] = "wait" => Len(rcvd[s]) <= version[s]
  /\ pull[s] \in {"wait", "back"} => version[s] <= Len(db[s])

StaleInv == \A s \in Servers : LoopInv(s)

\* The numbers that are compared.
LEMMA Lengths ==
  ASSUME TypeOK, NEW s \in Servers
  PROVE  Len(db[s]) \in Nat /\ Len(rcvd[s]) \in Nat /\ version[s] \in Nat
BY DEF TypeOK, Databases

\* Steps that leave the sync thread of s alone and do not shorten its database.
LEMMA LoopKept ==
  ASSUME TypeOK, TypeOK', NEW s \in Servers, LoopInv(s), Len(db[s]) <= Len(db'[s]),
         pull'[s] = pull[s], rcvd'[s] = rcvd[s], version'[s] = version[s]
  PROVE  LoopInv(s)'
<1>1. Len(db[s]) \in Nat /\ Len(rcvd[s]) \in Nat /\ version[s] \in Nat
  BY Lengths
<1>2. db'[s] \in Databases
  BY DEF TypeOK
<1>3. Len(db'[s]) \in Nat
  BY <1>2 DEF Databases
<1> QED BY <1>1, <1>3 DEF LoopInv

\* A step that changes none of the four.
LEMMA LoopUntouched ==
  ASSUME TypeOK, TypeOK', StaleInv, UNCHANGED <<db, rcvd, version>>,
         \A s \in Servers : pull'[s] = pull[s]
  PROVE  StaleInv'
<1> SUFFICES ASSUME NEW s \in Servers PROVE LoopInv(s)'
  BY DEF StaleInv
<1>1. Len(db[s]) <= Len(db'[s])
  BY Lengths
<1> QED BY <1>1, LoopKept DEF StaleInv

\* A write only makes a database longer.
LEMMA StaleWrite ==
  ASSUME TypeOK, TypeOK', StaleInv, NEW w \in Writes, Write(w)
  PROVE  StaleInv'
<1> SUFFICES ASSUME NEW s \in Servers PROVE LoopInv(s)'
  BY DEF StaleInv
<1>1. UNCHANGED <<pull, rcvd, version>>
  BY DEF Write, sync
<1>2. db[s] \in Databases /\ db \in [Servers -> Databases]
  BY DEF TypeOK
<1>3. db'[s] \in {db[s], Append(db[s], w)}
  BY <1>2 DEF Write, Apply
<1>4. Len(Append(db[s], w)) = Len(db[s]) + 1 /\ Len(db[s]) \in Nat
  BY <1>2 DEF Databases
<1>5. Len(db[s]) <= Len(db'[s])
  BY <1>3, <1>4
<1> QED BY <1>1, <1>5, LoopKept DEF StaleInv

\* net_DbPull returns, with a database or without.
LEMMA StaleReturn ==
  ASSUME TypeOK, TypeOK', StaleInv, NEW q \in Pullers, NEW msg, pull[q] = "wait",
         PullReturns(q, msg), UNCHANGED <<db, version>>
  PROVE  StaleInv'
<1> SUFFICES ASSUME NEW s \in Servers PROVE LoopInv(s)'
  BY DEF StaleInv
<1>1. pull \in [Pullers -> PullState] /\ rcvd \in [Servers -> Databases] /\ s \in Pullers
  BY DEF TypeOK, Pullers
<1>2. CASE q = s
  <2>1. pull'[s] = "back" /\ version'[s] <= Len(db'[s])
    BY <1>1, <1>2 DEF PullReturns, StaleInv, LoopInv
  <2> QED BY <2>1 DEF LoopInv
<1>3. CASE q # s
  <2>1. pull'[s] = pull[s]
    BY <1>1, <1>3 DEF PullReturns
  <2>2. rcvd'[s] = rcvd[s]
    BY <1>1, <1>3 DEF PullReturns
  <2>3. Len(db[s]) <= Len(db'[s])
    BY Lengths
  <2> QED BY <2>1, <2>2, <2>3, LoopKept DEF StaleInv
<1> QED BY <1>2, <1>3

\* The sync thread reads the version when rcvd_db is not longer than the database,
\* and ends with one that is at least as long as rcvd_db (protocol_quorum.c:211-219).
LEMMA StaleSync ==
  ASSUME TypeOK, TypeOK', StaleInv, NEW t \in Servers, Sync(t)
  PROVE  StaleInv'
<1> SUFFICES ASSUME NEW s \in Servers PROVE LoopInv(s)'
  BY DEF StaleInv
<1>1. /\ pull \in [Pullers -> PullState] /\ version \in [Servers -> Nat]
      /\ db \in [Servers -> Databases] /\ s \in Pullers /\ t \in Pullers
  BY DEF TypeOK, Pullers
<1>2. Len(db[s]) \in Nat /\ Len(rcvd[s]) \in Nat /\ version[s] \in Nat
  BY Lengths
<1>3. LoopInv(s)
  BY DEF StaleInv
<1>4. CASE SyncPull(t)
  <2>1. pull[t] = "idle" /\ pull' = [pull EXCEPT ![t] = "wait"]
          /\ version' = [version EXCEPT ![t] = Len(db[t])] /\ UNCHANGED <<db, rcvd>>
    BY <1>4 DEF SyncPull, Ask
  <2>2. CASE s = t
    <3>1. pull'[s] = "wait" /\ version'[s] = Len(db[s]) /\ Len(rcvd[s]) <= Len(db[s])
      BY <1>1, <1>3, <2>1, <2>2 DEF LoopInv
    <3> QED BY <1>2, <2>1, <3>1 DEF LoopInv
  <2>3. CASE s # t
    BY <1>1, <1>2, <1>3, <2>1, <2>3, LoopKept
  <2> QED BY <2>2, <2>3
<1>5. CASE SyncPulled(t)
  <2>1. pull[t] = "back" /\ pull' = [pull EXCEPT ![t] = "idle"]
          /\ version' = [version EXCEPT ![t] = 0] /\ UNCHANGED rcvd
    BY <1>5 DEF SyncPulled
  <2>2. db' = IF Newer(t) THEN [db EXCEPT ![t] = rcvd[t]] ELSE db
    BY <1>5 DEF SyncPulled, TakeOver
  <2>3. CASE s = t
    <3>1. pull'[s] = "idle"
      BY <1>1, <2>1, <2>3
    <3>2. Len(rcvd[s]) <= Len(db'[s])
      <4>1. CASE Newer(s)
        BY <1>1, <1>2, <2>2, <2>3, <4>1
      <4>2. CASE ~Newer(s)
        BY <1>2, <1>3, <2>1, <2>2, <2>3, <4>2 DEF LoopInv, Newer
      <4> QED BY <4>1, <4>2
    <3> QED BY <2>1, <3>1, <3>2 DEF LoopInv
  <2>4. CASE s # t
    <3>1. db'[s] = db[s] /\ pull'[s] = pull[s] /\ version'[s] = version[s] /\ rcvd'[s] = rcvd[s]
      BY <1>1, <2>1, <2>2, <2>4
    <3> QED BY <1>2, <1>3, <3>1, LoopKept
  <2> QED BY <2>3, <2>4
<1> QED BY <1>4, <1>5 DEF Sync

\* A restart empties rcvd_db along with the database.
LEMMA StaleRestart ==
  ASSUME TypeOK, TypeOK', StaleInv, NEW t \in Servers, Restart(t)
  PROVE  StaleInv'
<1> SUFFICES ASSUME NEW s \in Servers PROVE LoopInv(s)'
  BY DEF StaleInv
<1>1. /\ pull \in [Pullers -> PullState] /\ version \in [Servers -> Nat] /\ rcvd \in [Servers -> Databases]
      /\ db \in [Servers -> Databases] /\ s \in Pullers /\ s \notin Reads
  BY RequestAssumption DEF TypeOK, Pullers, Requests
<1>2. CASE s = t
  <2>1. pull'[s] = "idle" /\ Len(rcvd'[s]) = 0 /\ Len(db'[s]) = 0
    BY <1>1, <1>2 DEF Restart
  <2> QED BY <2>1 DEF LoopInv
<1>3. CASE s # t
  <2>1. db'[s] = db[s] /\ pull'[s] = pull[s] /\ version'[s] = version[s] /\ rcvd'[s] = rcvd[s]
    BY <1>1, <1>3 DEF Restart
  <2> QED BY <2>1, Lengths, LoopKept DEF StaleInv
<1> QED BY <1>2, <1>3

\* A READ handler is not a sync thread.
LEMMA StaleRead ==
  ASSUME TypeOK, TypeOK', StaleInv, NEW r \in Reads, Read(r)
  PROVE  StaleInv'
<1>1. pull \in [Pullers -> PullState] /\ r \in Requests /\ Servers \subseteq Pullers
  BY DEF TypeOK, Pullers, Requests
<1>2. UNCHANGED <<db, rcvd, version>>
  BY DEF Read, ReadPull, ReadPulled, ReadAnswer, SendResponse, sync
<1>3. pull' = pull \/ pull' = [pull EXCEPT ![r] = "wait"] \/ pull' = [pull EXCEPT ![r] = "idle"]
  BY DEF Read, ReadPull, ReadPulled, ReadAnswer, SendResponse, Ask
<1>4. \A s \in Servers : s # r
  BY <1>1, RequestAssumption
<1>5. \A s \in Servers : pull'[s] = pull[s]
  BY <1>1, <1>3, <1>4
<1> QED BY <1>2, <1>5, LoopUntouched

\* Every step keeps what is known of rcvd_db.
LEMMA NextStale == IInv /\ IInv' /\ StaleInv /\ [Next]_vars => StaleInv'
<1> SUFFICES ASSUME TypeOK, TypeOK', StaleInv, [Next]_vars PROVE StaleInv'
  BY DEF IInv
<1>1. CASE UNCHANGED vars
  BY <1>1, LoopUntouched DEF vars, sync
<1>2. ASSUME NEW h \in Requests, Send(h) \/ ClientTimeout(h) \/ SendResponse(h) PROVE StaleInv'
  BY <1>2, LoopUntouched DEF Send, ClientTimeout, SendResponse, sync
<1>3. ASSUME NEW w \in Writes, WriteAborted(w) \/ BuildInvalid(w) \/ BuildWritten(w) PROVE StaleInv'
  BY <1>3, LoopUntouched DEF WriteAborted, BuildInvalid, BuildWritten, sync
<1>4. ASSUME NEW w \in Writes, Post(w) \/ WriteAborted(w) PROVE StaleInv'
  BY <1>2, <1>3, <1>4, StaleWrite DEF Post, Requests
<1>5. ASSUME NEW r \in Reads, Read(r) PROVE StaleInv'
  BY <1>5, StaleRead
<1>6. ASSUME NEW s \in Servers, Sync(s) \/ Restart(s) PROVE StaleInv'
  BY <1>6, StaleSync, StaleRestart
<1>7. ASSUME NEW q \in Pullers, PullFails(q) PROVE StaleInv'
  BY <1>7, StaleReturn DEF PullFails
<1>8. ASSUME NEW q \in Pullers, NEW x \in Servers, DbPull(q, x) \/ PullLost(q, x) PROVE StaleInv'
  <2>1. CASE Copy(q, x) \/ Build(q, x) \/ PullLost(q, x)
    BY <2>1, LoopUntouched DEF Copy, Build, PullLost, sync
  <2>2. CASE SendPulled(q, x)
    <3>1. CASE pull[q] = "wait" /\ pos[q] = x
      BY <2>2, <3>1, StaleReturn DEF SendPulled
    <3>2. CASE ~(pull[q] = "wait" /\ pos[q] = x)
      BY <2>2, <3>2, LoopUntouched DEF SendPulled
    <3> QED BY <3>1, <3>2
  <2> QED BY <1>8, <2>1, <2>2 DEF DbPull
<1> QED BY <1>1, <1>2, <1>4, <1>5, <1>6, <1>7, <1>8 DEF Next

\* After a pull that failed nothing is restored, whatever was pulled before and
\* whatever became of the database since (protocol_quorum.c:213-218): while the
\* thread waits, rcvd_db is not newer than the version it read.
THEOREM FailedPullCorrect == Spec => []FailedPullRestoresNothing
<1>1. Init => StaleInv
  <2> SUFFICES ASSUME Init, NEW s \in Servers PROVE LoopInv(s)
    BY DEF StaleInv
  <2>1. pull[s] = "idle" /\ Len(rcvd[s]) = 0 /\ Len(db[s]) = 0
    BY DEF Init, Pullers
  <2> QED BY <2>1 DEF LoopInv
<1>2. IInv /\ StaleInv => FailedPullRestoresNothing
  <2> SUFFICES ASSUME TypeOK, StaleInv, NEW s \in Servers, pull[s] = "wait" PROVE ~Newer(s)
    BY DEF IInv, FailedPullRestoresNothing
  <2>1. Len(rcvd[s]) <= version[s]
    BY DEF StaleInv, LoopInv
  <2> QED BY <2>1, Lengths DEF Newer
<1> QED BY <1>1, <1>2, NextStale, QuorumGood, PTL DEF Spec
=============================================================================
