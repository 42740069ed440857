-------------------------- MODULE SequentialProofs ---------------------------
(***************************************************************************)
(* Proofs about the primary-backup protocol, for any number of servers and *)
(* requests and whatever fails.  The safety invariants are not inductive:  *)
(* a replica takes over a snapshot that was made long ago, and a handler   *)
(* commits on the strength of never having committed before.  IInv adds    *)
(* that the snapshots are earlier states of the coordinator too, and which *)
(* handlers can still commit.                                              *)
(*                                                                         *)
(* The last two sections prove two properties that the protocol does not   *)
(* have as it stands, under the discipline whose lack breaks them: a       *)
(* response buffer that is kept until it is sent, and one handler at a     *)
(* time between a commit and its last push.                                *)
(***************************************************************************)
EXTENDS Sequential, TLAPS

\* A snapshot that waits to be pushed is a state the coordinator was in.
SnapshotsAreHistory == \A r \in Requests : Prefix(snap[r], db[0])

\* A handler that has yet to commit has not committed, and there is one handler
\* for each request.
NotYetCommitted ==
  \A r \in Requests :
    /\ client[r] = "idle" => pc[r] = "idle" /\ fwd[r] = "none"
    /\ fwd[r] = "call" => pc[r] = "idle"
    /\ pc[r] \in {"idle", "commit"} => \A k \in 1 .. Len(db[0]) : db[0][k] # r

\* The push loop stays within the array of servers.
InPushLoop == \A r \in Requests : pc[r] \in {"push", "wait"} => next[r] \in Replicas

\* The reply order of the coordinator, from which that of the replicas follows.
CoordinatorReplies ==
  \A k \in 1 .. Len(db[0]) : IsReply(db[0][k]) => Parent[db[0][k]] + 1 < k

IInv ==
  /\ TypeOK
  /\ OneHistory
  /\ SnapshotsAreHistory
  /\ NotYetCommitted
  /\ InPushLoop
  /\ CoordinatorReplies
  /\ CommittedOnce

-----------------------------------------------------------------------------
\* Server 0 is a server and not one of the replicas.
LEMMA ServerZero == 0 \in Servers /\ Replicas \subseteq Servers /\ 0 \notin Replicas
  BY NAssumption DEF Servers, Replicas

\* What is older than an older history is older.
LEMMA PrefixTransitive ==
  ASSUME NEW S, NEW s \in Seq(S), NEW t \in Seq(S), NEW u \in Seq(S),
         Prefix(s, t), Prefix(t, u)
  PROVE  Prefix(s, u)
<1>1. Len(s) \in Nat /\ Len(t) \in Nat /\ Len(u) \in Nat
  OBVIOUS
<1>2. ASSUME NEW k \in 1 .. Len(s) PROVE s[k] = u[k]
  <2>1. k \in 1 .. Len(t)
    BY <1>1 DEF Prefix
  <2> QED BY <2>1 DEF Prefix
<1> QED BY <1>1, <1>2 DEF Prefix

\* A history is older than itself with one more write.
LEMMA PrefixOfAppend ==
  ASSUME NEW S, NEW s \in Seq(S), NEW t \in Seq(S), NEW e \in S, Prefix(s, t)
  PROVE  Prefix(s, Append(t, e))
<1>1. Len(Append(t, e)) = Len(t) + 1 /\ \A k \in 1 .. Len(t) : Append(t, e)[k] = t[k]
  OBVIOUS
<1>2. Len(s) \in Nat /\ Len(t) \in Nat
  OBVIOUS
<1> QED BY <1>1, <1>2 DEF Prefix

\* A history is a prefix of itself.
LEMMA PrefixReflexive ==
  ASSUME NEW S, NEW s \in Seq(S)
  PROVE  Prefix(s, s) /\ Prefix(<< >>, s)
<1>1. Len(s) \in Nat /\ Len(<< >>) = 0
  OBVIOUS
<1> QED BY <1>1 DEF Prefix

-----------------------------------------------------------------------------
(* The initial state. *)
LEMMA InitGood == Init => IInv
<1> SUFFICES ASSUME Init PROVE IInv
  OBVIOUS
<1>1. 0 \in Servers
  BY ServerZero
<1>2. db[0] = << >> /\ Len(db[0]) = 0 /\ 1 .. Len(db[0]) = {}
  BY <1>1 DEF Init
<1>3. 1 \in 1 .. N
  BY NAssumption
<1>4. TypeOK
  BY <1>3 DEF Init, TypeOK, Messages, ClientState, FwdState, PcState, PushState
<1>5. OneHistory
  BY <1>2 DEF Init, OneHistory, Prefix
<1>6. SnapshotsAreHistory
  BY <1>2 DEF Init, SnapshotsAreHistory, Prefix
<1>7. NotYetCommitted /\ InPushLoop
  BY <1>2 DEF Init, NotYetCommitted, InPushLoop
<1>8. CoordinatorReplies /\ CommittedOnce
  BY <1>2, MaxArticlesAssumption DEF CoordinatorReplies, CommittedOnce
<1> QED BY <1>4, <1>5, <1>6, <1>7, <1>8 DEF IInv

-----------------------------------------------------------------------------
(* Types, and the bounds of the push loop. *)

\* The push loop goes on or stops in a state it knows.
LEMMA PushReturnsTyped ==
  ASSUME TypeOK, NEW r \in Requests, NEW failed \in BOOLEAN,
         next[r] \in Replicas, PushReturns(r, failed)
  PROVE  /\ pc' \in [Requests -> PcState]
         /\ next' \in [Requests -> 1 .. N]
         /\ pc'[r] \in {"push", "wait"} => next'[r] \in Replicas
         /\ pc'[r] \notin {"idle", "commit"}
         /\ \A q \in Requests : q # r => pc'[q] = pc[q] /\ next'[q] = next[q]
<1>1. pc \in [Requests -> PcState] /\ next \in [Requests -> 1 .. N]
  BY DEF TypeOK
<1>2. next[r] + 1 \in 1 .. N
  BY NAssumption DEF Replicas
<1>3. CASE failed /\ IsReply(r)
  <2>1. pc' = [pc EXCEPT ![r] = "error"] /\ next' = next
    BY <1>3 DEF PushReturns
  <2> QED BY <1>1, <2>1 DEF PcState
<1>4. CASE ~(failed /\ IsReply(r))
  <2>1. pc' = [pc EXCEPT ![r] = PushLoop(next[r] + 1)]
    BY <1>4 DEF PushReturns
  <2>2. next' = [next EXCEPT ![r] = next[r] + 1]
    BY <1>4 DEF PushReturns
  <2>3. PushLoop(next[r] + 1) \in {"push", "done"}
    BY DEF PushLoop
  <2>4. PushLoop(next[r] + 1) = "push" => next[r] + 1 \in Replicas
    BY <1>2, NAssumption DEF PushLoop, Replicas
  <2>5. pc'[r] = PushLoop(next[r] + 1) /\ next'[r] = next[r] + 1
    BY <1>1, <2>1, <2>2
  <2>6. pc' \in [Requests -> PcState]
    BY <1>1, <2>1, <2>3 DEF PcState
  <2>7. next' \in [Requests -> 1 .. N]
    BY <1>1, <1>2, <2>2
  <2>8. \A q \in Requests : q # r => pc'[q] = pc[q] /\ next'[q] = next[q]
    BY <1>1, <2>1, <2>2
  <2> QED BY <2>3, <2>4, <2>5, <2>6, <2>7, <2>8
<1> QED BY <1>3, <1>4

\* What a caller makes of a response is success or an error.
LEMMA OutcomeTyped ==
  ASSUME NEW r, NEW msg
  PROVE  Outcome(r, msg) \in {"ok", "error"} /\ Expected(r) \in {"PostResponse", "ReplyResponse"}
BY DEF Outcome, Expected

\* A response leaves the callers in states they know.
LEMMA RespondTyped ==
  ASSUME TypeOK, NEW r \in Requests, Respond(r)
  PROVE  /\ client' \in [Requests -> ClientState] /\ fwd' \in [Requests -> FwdState]
         /\ \A q \in Requests : /\ client'[q] = "idle" => client[q] = "idle"
                                /\ fwd'[q] = "call" => fwd[q] = "call"
                                /\ fwd[q] = "none" => fwd'[q] = "none"
<1> DEFINE o == Outcome(r, response[0])
<1>1. o \in {"ok", "error"}
  BY OutcomeTyped
<1>2. client \in [Requests -> ClientState] /\ fwd \in [Requests -> FwdState]
  BY DEF TypeOK
<1>3. CASE Entry[r] = 0
  <2>1. client' = [client EXCEPT ![r] = IF client[r] = "wait" THEN o ELSE client[r]] /\ fwd' = fwd
    BY <1>3 DEF Respond
  <2> HIDE DEF o
  <2> QED BY <1>1, <1>2, <2>1 DEF ClientState
<1>4. CASE Entry[r] # 0
  <2>1. fwd' = [fwd EXCEPT ![r] = IF fwd[r] = "wait" THEN o ELSE fwd[r]] /\ client' = client
    BY <1>4 DEF Respond
  <2> HIDE DEF o
  <2> QED BY <1>1, <1>2, <2>1 DEF FwdState
<1> QED BY <1>3, <1>4

-----------------------------------------------------------------------------
(* Every step but Commit leaves the coordinator's database as it is. *)

\* A step that leaves the coordinator's database alone, and the replicas and the
\* snapshots at states it was in, keeps the invariant.
LEMMA CoordinatorUnchanged ==
  ASSUME IInv, TypeOK', InPushLoop',
         db'[0] = db[0],
         \A i \in Servers : Prefix(db'[i], db[0]),
         \A r \in Requests : Prefix(snap'[r], db[0]),
         \A r \in Requests :
           /\ client'[r] = "idle" => pc'[r] = "idle" /\ fwd'[r] = "none"
           /\ fwd'[r] = "call" => pc'[r] = "idle"
           /\ pc'[r] \in {"idle", "commit"} => pc[r] \in {"idle", "commit"}
  PROVE  IInv'
<1>1. OneHistory' /\ SnapshotsAreHistory'
  BY DEF OneHistory, SnapshotsAreHistory
<1>2. NotYetCommitted'
  BY DEF IInv, NotYetCommitted
<1>3. CoordinatorReplies' /\ CommittedOnce'
  BY DEF IInv, CoordinatorReplies, CommittedOnce
<1> QED BY <1>1, <1>2, <1>3 DEF IInv

\* The steps that change neither a database nor a snapshot.
LEMMA DatabasesUnchanged ==
  ASSUME IInv, TypeOK', InPushLoop', UNCHANGED <<db, snap>>,
         \A r \in Requests :
           /\ client'[r] = "idle" => pc'[r] = "idle" /\ fwd'[r] = "none"
           /\ fwd'[r] = "call" => pc'[r] = "idle"
           /\ pc'[r] \in {"idle", "commit"} => pc[r] \in {"idle", "commit"}
  PROVE  IInv'
<1>1. db'[0] = db[0] /\ (\A i \in Servers : Prefix(db'[i], db[0]))
  BY DEF IInv, OneHistory
<1>2. \A r \in Requests : Prefix(snap'[r], db[0])
  BY DEF IInv, SnapshotsAreHistory
<1> QED BY <1>1, <1>2, CoordinatorUnchanged

\* The steps of a client.
LEMMA ClientStep ==
  ASSUME IInv, NEW r \in Requests, Send(r) \/ RequestLost(r) \/ ClientTimeout(r)
  PROVE  IInv'
<1>1. TypeOK /\ InPushLoop /\ NotYetCommitted
  BY DEF IInv
<1>2. CASE Send(r)
  <2>1. TypeOK'
    <3>1. CASE Entry[r] = 0
      BY <1>1, <1>2, <3>1 DEF Send, TypeOK, ClientState, PcState
    <3>2. CASE Entry[r] # 0
      BY <1>1, <1>2, <3>2 DEF Send, TypeOK, ClientState, FwdState
    <3> QED BY <3>1, <3>2
  <2>2. InPushLoop'
    BY <1>1, <1>2 DEF Send, TypeOK, InPushLoop
  <2>3. \A q \in Requests :
          /\ client'[q] = "idle" => pc'[q] = "idle" /\ fwd'[q] = "none"
          /\ fwd'[q] = "call" => pc'[q] = "idle"
          /\ pc'[q] \in {"idle", "commit"} => pc[q] \in {"idle", "commit"}
    BY <1>1, <1>2 DEF Send, TypeOK, NotYetCommitted
  <2> QED BY <1>2, <2>1, <2>2, <2>3, DatabasesUnchanged DEF Send
<1>3. CASE RequestLost(r) \/ ClientTimeout(r)
  <2>1. client' = [client EXCEPT ![r] = "error"] /\ UNCHANGED <<db, response, fwd, pc, snap, next, pushes>>
    BY <1>3 DEF RequestLost, ClientTimeout
  <2>2. TypeOK' /\ InPushLoop'
    BY <1>1, <2>1 DEF TypeOK, ClientState, InPushLoop
  <2>3. \A q \in Requests : client'[q] = "idle" => client[q] = "idle"
    BY <1>1, <2>1 DEF TypeOK
  <2> QED BY <1>1, <2>1, <2>2, <2>3, DatabasesUnchanged DEF NotYetCommitted
<1> QED BY <1>2, <1>3

\* A read response overwrites the buffer of its server only.
LEMMA ReadStep ==
  ASSUME IInv, NEW s \in Servers, Read(s)
  PROVE  IInv'
<1>1. TypeOK' /\ InPushLoop'
  BY DEF IInv, Read, TypeOK, InPushLoop, Messages
<1> QED BY <1>1, DatabasesUnchanged DEF IInv, Read, NotYetCommitted

\* The steps of a forwarding handler (protocol_sequential.c:57-74, 151-162).
LEMMA ForwarderStep ==
  ASSUME IInv, NEW r \in Requests, Forwarder(r)
  PROVE  IInv'
<1>1. TypeOK /\ InPushLoop /\ NotYetCommitted
  BY DEF IInv
<1>2. CASE Forward(r)
  <2>1. TypeOK'
    BY <1>1, <1>2 DEF Forward, TypeOK, FwdState, PcState
  <2>2. InPushLoop'
    BY <1>1, <1>2 DEF Forward, TypeOK, InPushLoop
  <2>3. \A q \in Requests :
          /\ client'[q] = "idle" => pc'[q] = "idle" /\ fwd'[q] = "none"
          /\ fwd'[q] = "call" => pc'[q] = "idle"
          /\ pc'[q] \in {"idle", "commit"} => pc[q] \in {"idle", "commit"}
    BY <1>1, <1>2 DEF Forward, TypeOK, NotYetCommitted
  <2> QED BY <1>2, <2>1, <2>2, <2>3, DatabasesUnchanged DEF Forward
<1>3. CASE ForwardFails(r)
  <2>1. TypeOK' /\ InPushLoop'
    BY <1>1, <1>3 DEF ForwardFails, TypeOK, FwdState, InPushLoop
  <2>2. \A q \in Requests : (fwd'[q] = "call" => fwd[q] = "call") /\ (fwd[q] = "none" => fwd'[q] = "none")
    BY <1>1, <1>3 DEF ForwardFails, TypeOK
  <2> QED BY <1>1, <1>3, <2>1, <2>2, DatabasesUnchanged DEF ForwardFails, NotYetCommitted
<1>4. CASE ForwardBuild(r)
  <2>1. TypeOK' /\ InPushLoop'
    BY <1>1, <1>4, OutcomeTyped DEF ForwardBuild, TypeOK, FwdState, Messages, InPushLoop
  <2>2. \A q \in Requests : (fwd'[q] = "call" => fwd[q] = "call") /\ (fwd[q] = "none" => fwd'[q] = "none")
    BY <1>1, <1>4 DEF ForwardBuild, TypeOK
  <2> QED BY <1>1, <1>4, <2>1, <2>2, DatabasesUnchanged DEF ForwardBuild, NotYetCommitted
<1>5. CASE ForwardSend(r)
  <2> DEFINE o == Outcome(r, response[Entry[r]])
  <2>1. o \in {"ok", "error"}
    BY OutcomeTyped
  <2>2. client' = [client EXCEPT ![r] = IF client[r] = "wait" THEN o ELSE client[r]]
    BY <1>5 DEF ForwardSend
  <2>3. fwd[r] = "send" /\ fwd' = [fwd EXCEPT ![r] = "over"] /\ UNCHANGED <<db, response, pc, snap, next, pushes>>
    BY <1>5 DEF ForwardSend
  <2> HIDE DEF o
  <2>4. client' \in [Requests -> ClientState] /\ \A q \in Requests : client'[q] = "idle" => client[q] = "idle"
    BY <1>1, <2>1, <2>2 DEF TypeOK, ClientState
  <2>5. TypeOK' /\ InPushLoop'
    BY <1>1, <2>3, <2>4 DEF TypeOK, FwdState, InPushLoop
  <2>6. \A q \in Requests : (fwd'[q] = "call" => fwd[q] = "call") /\ (fwd[q] = "none" => fwd'[q] = "none")
    BY <1>1, <2>3 DEF TypeOK
  <2> QED BY <1>1, <2>3, <2>4, <2>5, <2>6, DatabasesUnchanged DEF NotYetCommitted
<1> QED BY <1>2, <1>3, <1>4, <1>5 DEF Forwarder

\* Committing appends to the coordinator's database a request that is not there
\* and whose parent, if it has one, is.
LEMMA CommitStep ==
  ASSUME IInv, NEW r \in Requests, Commit(r)
  PROVE  IInv' /\ Prefix(db[0], db'[0])
<1>1. TypeOK /\ InPushLoop /\ NotYetCommitted /\ OneHistory /\ SnapshotsAreHistory
        /\ CoordinatorReplies /\ CommittedOnce
  BY DEF IInv
<1>2. db[0] \in Seq(Requests) /\ 0 \in Servers
  BY <1>1, ServerZero DEF TypeOK
<1>3. CASE ~Accepts(db[0], r)
  <2>1. pc[r] = "commit" /\ pc' = [pc EXCEPT ![r] = "error"] /\ UNCHANGED <<db, response, client, fwd, snap, next, pushes>>
    BY <1>3 DEF Commit
  <2>2. TypeOK' /\ InPushLoop'
    BY <1>1, <2>1 DEF TypeOK, PcState, InPushLoop
  <2>3. \A q \in Requests : q # r => pc'[q] = pc[q]
    BY <1>1, <2>1 DEF TypeOK
  <2>4. pc'[r] = "error"
    BY <1>1, <2>1 DEF TypeOK
  <2>5. IInv'
    BY <1>1, <2>1, <2>2, <2>3, <2>4, DatabasesUnchanged DEF NotYetCommitted
  <2> QED BY <1>2, <2>1, <2>5, PrefixReflexive
<1>4. CASE Accepts(db[0], r)
  <2> DEFINE d == db[0]
  <2>1. pc[r] = "commit" /\ pc' = [pc EXCEPT ![r] = "success"] /\ UNCHANGED <<response, client, fwd, snap, next, pushes>>
    BY <1>4 DEF Commit
  <2>2. db' = [db EXCEPT ![0] = Append(d, r)]
    BY <1>4 DEF Commit
  <2>3. Append(d, r) \in Seq(Requests) /\ Len(Append(d, r)) = Len(d) + 1 /\ Append(d, r)[Len(d) + 1] = r
          /\ Len(d) \in Nat /\ \A k \in 1 .. Len(d) : Append(d, r)[k] = d[k]
    BY <1>2
  <2>4. db'[0] = Append(d, r) /\ (\A i \in Servers : i # 0 => db'[i] = db[i]) /\ db' \in [Servers -> Seq(Requests)]
    BY <1>1, <1>2, <2>2, <2>3 DEF TypeOK
  <2>5. TypeOK'
    BY <1>1, <2>1, <2>4 DEF TypeOK, PcState
  <2>6. InPushLoop'
    BY <1>1, <2>1 DEF TypeOK, InPushLoop
  <2>7. Prefix(d, db'[0])
    BY <1>2, <2>4, PrefixReflexive, PrefixOfAppend
  <2>8. OneHistory'
    <3> SUFFICES ASSUME NEW i \in Servers PROVE Prefix(db'[i], db'[0])
      BY DEF OneHistory
    <3>1. CASE i = 0
      BY <3>1, <2>3, <2>4, PrefixReflexive
    <3>2. CASE i # 0
      <4>1. db[i] \in Seq(Requests) /\ Prefix(db[i], d)
        BY <1>1 DEF TypeOK, OneHistory
      <4> QED BY <1>2, <3>2, <4>1, <2>4, PrefixOfAppend
    <3> QED BY <3>1, <3>2
  <2>9. SnapshotsAreHistory'
    <3> SUFFICES ASSUME NEW q \in Requests PROVE Prefix(snap'[q], db'[0])
      BY DEF SnapshotsAreHistory
    <3>1. snap[q] \in Seq(Requests) /\ Prefix(snap[q], d)
      BY <1>1 DEF TypeOK, SnapshotsAreHistory
    <3> QED BY <1>2, <3>1, <2>1, <2>4, PrefixOfAppend
  <2>10. \A k \in 1 .. Len(d) : d[k] # r
    BY <1>1, <2>1 DEF NotYetCommitted
  <2>11. \A k \in 1 .. Len(db'[0]) : (k \in 1 .. Len(d) /\ db'[0][k] = d[k]) \/ (k = Len(d) + 1 /\ db'[0][k] = r)
    BY <2>3, <2>4
  <2>12. NotYetCommitted'
    <3> SUFFICES ASSUME NEW q \in Requests
                 PROVE  /\ client'[q] = "idle" => pc'[q] = "idle" /\ fwd'[q] = "none"
                        /\ fwd'[q] = "call" => pc'[q] = "idle"
                        /\ pc'[q] \in {"idle", "commit"} => \A k \in 1 .. Len(db'[0]) : db'[0][k] # q
      BY DEF NotYetCommitted
    <3>1. CASE q = r
      <4>1. pc'[r] = "success"
        BY <1>1, <2>1 DEF TypeOK
      <4> QED BY <1>1, <2>1, <3>1, <4>1 DEF NotYetCommitted
    <3>2. CASE q # r
      <4>1. pc'[q] = pc[q]
        BY <1>1, <2>1, <3>2 DEF TypeOK
      <4> QED BY <1>1, <2>1, <2>11, <3>2, <4>1 DEF NotYetCommitted
    <3> QED BY <3>1, <3>2
  <2>13. CoordinatorReplies'
    <3> SUFFICES ASSUME NEW k \in 1 .. Len(db'[0]), IsReply(db'[0][k]) PROVE Parent[db'[0][k]] + 1 < k
      BY DEF CoordinatorReplies, IsReply
    <3>1. CASE k \in 1 .. Len(d) /\ db'[0][k] = d[k]
      BY <1>1, <3>1 DEF CoordinatorReplies, IsReply
    <3>2. CASE k = Len(d) + 1 /\ db'[0][k] = r
      <4>1. IsReply(r)
        BY <3>2
      <4>2. Parent[r] \in Nat
        BY <4>1, RequestAssumption DEF IsReply
      <4>3. Parent[r] < Len(d)
        BY <1>4, <4>1 DEF Accepts, ParentExists
      <4> QED BY <2>3, <3>2, <4>2, <4>3
    <3> QED BY <2>11, <3>1, <3>2
  <2>14. CommittedOnce'
    <3>1. Len(d) < MaxArticles /\ Len(db'[0]) = Len(d) + 1
      BY <1>4, <2>3, <2>4 DEF Accepts
    <3>2. Len(db'[0]) <= MaxArticles
      BY <2>3, <3>1, MaxArticlesAssumption
    <3>3. ASSUME NEW j \in 1 .. Len(db'[0]), NEW k \in 1 .. Len(db'[0]), db'[0][j] = db'[0][k]
          PROVE  j = k
      BY <1>1, <2>10, <2>11, <3>3 DEF CommittedOnce
    <3> QED BY <3>2, <3>3 DEF CommittedOnce
  <2> QED BY <2>5, <2>6, <2>7, <2>8, <2>9, <2>12, <2>13, <2>14 DEF IInv
<1> QED BY <1>3, <1>4

\* The coordinator's handler after it committed, and a snapshot it takes.
LEMMA CoordinatorStep ==
  ASSUME IInv, NEW r \in Requests,
         \/ BuildSuccess(r) \/ BuildError(r) \/ SendSuccess(r) \/ SendError(r)
         \/ Snapshot(r) \/ Push(r) \/ PushFails(r)
  PROVE  IInv' /\ db' = db
<1>1. TypeOK /\ InPushLoop /\ NotYetCommitted /\ SnapshotsAreHistory /\ OneHistory
  BY DEF IInv
<1>2. CASE BuildSuccess(r) \/ BuildError(r)
  <2>1. /\ pc[r] \in {"success", "error"} /\ UNCHANGED <<db, client, fwd, snap, next, pushes>>
        /\ response' = [response EXCEPT ![0] = IF pc[r] = "success" THEN Expected(r) ELSE "ErrorResponse"]
        /\ pc' = [pc EXCEPT ![r] = IF pc[r] = "success" THEN "sendSuccess" ELSE "sendError"]
    BY <1>2 DEF BuildSuccess, BuildError
  <2>2. TypeOK' /\ InPushLoop'
    BY <1>1, <2>1, OutcomeTyped DEF TypeOK, Messages, PcState, InPushLoop
  <2>3. \A q \in Requests : pc'[q] = "idle" <=> pc[q] = "idle"
    BY <1>1, <2>1 DEF TypeOK
  <2>4. \A q \in Requests : pc'[q] = "commit" => pc[q] = "commit"
    BY <1>1, <2>1 DEF TypeOK
  <2> QED BY <1>1, <2>1, <2>2, <2>3, <2>4, DatabasesUnchanged DEF NotYetCommitted
<1>3. CASE SendSuccess(r) \/ SendError(r)
  <2>1. /\ pc[r] \in {"sendSuccess", "sendError"} /\ Respond(r) /\ UNCHANGED <<db, response, snap, next, pushes>>
        /\ pc' = [pc EXCEPT ![r] = IF pc[r] = "sendSuccess" THEN "snapshot" ELSE "done"]
    BY <1>3 DEF SendSuccess, SendError
  <2>2. /\ client' \in [Requests -> ClientState] /\ fwd' \in [Requests -> FwdState]
        /\ \A q \in Requests : /\ client'[q] = "idle" => client[q] = "idle"
                               /\ fwd'[q] = "call" => fwd[q] = "call"
                               /\ fwd[q] = "none" => fwd'[q] = "none"
    BY <1>1, <2>1, RespondTyped
  <2>3. TypeOK' /\ InPushLoop'
    BY <1>1, <2>1, <2>2 DEF TypeOK, PcState, InPushLoop
  <2>4. \A q \in Requests : pc'[q] = "idle" <=> pc[q] = "idle"
    BY <1>1, <2>1 DEF TypeOK
  <2>5. \A q \in Requests : pc'[q] = "commit" => pc[q] = "commit"
    BY <1>1, <2>1 DEF TypeOK
  <2> QED BY <1>1, <2>1, <2>2, <2>3, <2>4, <2>5, DatabasesUnchanged DEF NotYetCommitted
<1>4. CASE Snapshot(r)
  <2>1. /\ pc[r] = "snapshot" /\ snap' = [snap EXCEPT ![r] = db[0]] /\ UNCHANGED <<db, response, client, fwd, pushes>>
        /\ next' = [next EXCEPT ![r] = 1] /\ pc' = [pc EXCEPT ![r] = PushLoop(1)]
    BY <1>4 DEF Snapshot, FirstPush
  <2>2. db[0] \in Seq(Requests)
    BY <1>1, ServerZero DEF TypeOK
  <2>3. PushLoop(1) \in {"push", "done"} /\ (PushLoop(1) = "push" => 1 \in Replicas) /\ 1 \in 1 .. N
    BY NAssumption DEF PushLoop, Replicas
  <2>4. TypeOK' /\ InPushLoop'
    BY <1>1, <2>1, <2>2, <2>3 DEF TypeOK, PcState, InPushLoop
  <2>5. \A q \in Requests : pc'[q] = "idle" <=> pc[q] = "idle"
    BY <1>1, <2>1, <2>3 DEF TypeOK
  <2>6. \A q \in Requests : pc'[q] = "commit" => pc[q] = "commit"
    BY <1>1, <2>1, <2>3 DEF TypeOK
  <2>7. \A q \in Requests : Prefix(snap'[q], db[0])
    <3> TAKE q \in Requests
    <3>1. snap'[q] = IF q = r THEN db[0] ELSE snap[q]
      BY <1>1, <2>1 DEF TypeOK
    <3> QED BY <1>1, <2>2, <3>1, PrefixReflexive DEF SnapshotsAreHistory
  <2>8. db'[0] = db[0] /\ (\A i \in Servers : Prefix(db'[i], db[0]))
    BY <1>1, <2>1 DEF OneHistory
  <2> QED BY <1>1, <2>1, <2>4, <2>5, <2>6, <2>7, <2>8, CoordinatorUnchanged DEF NotYetCommitted
<1>5. CASE Push(r)
  <2>1. next[r] \in Replicas
    BY <1>1, <1>5 DEF Push, InPushLoop
  <2>2. TypeOK'
    <3>1. pushes' = [pushes EXCEPT ![r] = [pushes[r] EXCEPT ![next[r]] = "sent"]]
      BY <1>5 DEF Push
    <3>2. pushes' \in [Requests -> [Replicas -> PushState]]
      BY <1>1, <2>1, <3>1 DEF TypeOK, PushState
    <3> QED BY <1>1, <1>5, <3>2 DEF Push, TypeOK, PcState
  <2>3. InPushLoop'
    BY <1>1, <1>5, <2>1 DEF Push, TypeOK, InPushLoop
  <2>4. \A q \in Requests : pc'[q] = "idle" <=> pc[q] = "idle"
    BY <1>1, <1>5 DEF Push, TypeOK
  <2>5. \A q \in Requests : pc'[q] = "commit" => pc[q] = "commit"
    BY <1>1, <1>5 DEF Push, TypeOK
  <2> QED BY <1>1, <1>5, <2>2, <2>3, <2>4, <2>5, DatabasesUnchanged DEF Push, NotYetCommitted
<1>6. CASE PushFails(r)
  <2>1. pc[r] \in {"push", "wait"} /\ PushReturns(r, TRUE) /\ UNCHANGED <<db, response, client, fwd, snap, pushes>>
    BY <1>6 DEF PushFails
  <2>2. next[r] \in Replicas
    BY <1>1, <2>1 DEF InPushLoop
  <2>3. /\ pc' \in [Requests -> PcState]
        /\ next' \in [Requests -> 1 .. N]
        /\ pc'[r] \in {"push", "wait"} => next'[r] \in Replicas
        /\ pc'[r] \notin {"idle", "commit"}
        /\ \A q \in Requests : q # r => pc'[q] = pc[q] /\ next'[q] = next[q]
    BY <1>1, <2>1, <2>2, PushReturnsTyped
  <2>4. TypeOK' /\ InPushLoop'
    BY <1>1, <2>1, <2>3 DEF TypeOK, InPushLoop
  <2>5. \A q \in Requests : (pc'[q] = "idle" <=> pc[q] = "idle") /\ (pc'[q] = "commit" => pc[q] = "commit")
    BY <2>1, <2>3
  <2> QED BY <1>1, <2>1, <2>4, <2>5, DatabasesUnchanged DEF NotYetCommitted
<1> QED BY <1>2, <1>3, <1>4, <1>5, <1>6

\* A replica takes over a snapshot, answers, fails to read a push or restarts.
LEMMA ReplicaStep ==
  ASSUME IInv, NEW r \in Requests, NEW i \in Replicas, Replica(r, i)
  PROVE  IInv' /\ db'[0] = db[0]
<1>1. TypeOK /\ InPushLoop /\ NotYetCommitted /\ SnapshotsAreHistory /\ OneHistory
  BY DEF IInv
<1>2. ASSUME NEW state \in PushState, pushes' = [pushes EXCEPT ![r][i] = state]
      PROVE  pushes' \in [Requests -> [Replicas -> PushState]]
  <2>1. pushes' = [pushes EXCEPT ![r] = [pushes[r] EXCEPT ![i] = state]]
    BY <1>2
  <2>2. [pushes[r] EXCEPT ![i] = state] \in [Replicas -> PushState]
    BY <1>1 DEF TypeOK
  <2> QED BY <1>1, <2>1, <2>2 DEF TypeOK
<1>3. CASE Restore(r, i)
  <2>1. db' = [db EXCEPT ![i] = snap[r]] /\ UNCHANGED <<response, client, fwd, pc, snap, next>>
    BY <1>3 DEF Restore
  <2>2. pushes' \in [Requests -> [Replicas -> PushState]]
    BY <1>2, <1>3 DEF Restore, PushState
  <2>3. snap[r] \in Seq(Requests) /\ Prefix(snap[r], db[0])
    BY <1>1 DEF TypeOK, SnapshotsAreHistory
  <2>4. TypeOK' /\ InPushLoop'
    BY <1>1, <2>1, <2>2, <2>3 DEF TypeOK, InPushLoop
  <2>5. \A j \in Servers : db'[j] = IF j = i THEN snap[r] ELSE db[j]
    BY <1>1, <2>1, ServerZero DEF TypeOK
  <2>6. db'[0] = db[0]
    BY <2>5, ServerZero
  <2>7. \A j \in Servers : Prefix(db'[j], db[0])
    BY <1>1, <2>3, <2>5 DEF OneHistory
  <2>8. \A q \in Requests : Prefix(snap'[q], db[0])
    BY <1>1, <2>1 DEF SnapshotsAreHistory
  <2> QED BY <1>1, <2>1, <2>4, <2>6, <2>7, <2>8, CoordinatorUnchanged DEF NotYetCommitted
<1>4. CASE BuildAck(r, i)
  <2>1. pushes' \in [Requests -> [Replicas -> PushState]]
    BY <1>2, <1>4 DEF BuildAck, PushState
  <2>2. TypeOK' /\ InPushLoop'
    BY <1>1, <1>4, <2>1 DEF BuildAck, TypeOK, Messages, InPushLoop
  <2> QED BY <1>1, <1>4, <2>2, DatabasesUnchanged DEF BuildAck, NotYetCommitted
<1>5. CASE SendAck(r, i)
  <2>1. UNCHANGED <<db, response, client, fwd, snap>>
    BY <1>5 DEF SendAck
  <2>2. pushes' \in [Requests -> [Replicas -> PushState]]
    BY <1>2, <1>5 DEF SendAck, PushState
  <2>3. CASE pc[r] = "wait" /\ next[r] = i
    <3>1. /\ pc' \in [Requests -> PcState]
          /\ next' \in [Requests -> 1 .. N]
          /\ pc'[r] \in {"push", "wait"} => next'[r] \in Replicas
          /\ pc'[r] \notin {"idle", "commit"}
          /\ \A q \in Requests : q # r => pc'[q] = pc[q] /\ next'[q] = next[q]
      BY <1>1, <1>5, <2>3, PushReturnsTyped DEF SendAck
    <3>2. TypeOK' /\ InPushLoop'
      BY <1>1, <2>1, <2>2, <3>1 DEF TypeOK, InPushLoop
    <3>3. \A q \in Requests : (pc'[q] = "idle" <=> pc[q] = "idle") /\ (pc'[q] = "commit" => pc[q] = "commit")
      BY <2>3, <3>1
    <3> QED BY <1>1, <2>1, <3>2, <3>3, DatabasesUnchanged DEF NotYetCommitted
  <2>4. CASE ~(pc[r] = "wait" /\ next[r] = i)
    <3>1. UNCHANGED <<pc, next>>
      BY <1>5, <2>4 DEF SendAck
    <3>2. TypeOK' /\ InPushLoop'
      BY <1>1, <2>1, <2>2, <3>1 DEF TypeOK, InPushLoop
    <3> QED BY <1>1, <2>1, <3>1, <3>2, DatabasesUnchanged DEF NotYetCommitted
  <2> QED BY <2>3, <2>4
<1>6. CASE PushLost(r, i)
  <2>1. pushes' \in [Requests -> [Replicas -> PushState]]
    BY <1>2, <1>6 DEF PushLost, PushState
  <2>2. TypeOK' /\ InPushLoop'
    BY <1>1, <1>6, <2>1 DEF PushLost, TypeOK, InPushLoop
  <2> QED BY <1>1, <1>6, <2>2, DatabasesUnchanged DEF PushLost, NotYetCommitted
<1> QED BY <1>3, <1>4, <1>5, <1>6 DEF Replica

\* A replica that restarts has the empty history.
LEMMA RestartStep ==
  ASSUME IInv, NEW i \in Replicas, Restart(i)
  PROVE  IInv' /\ db'[0] = db[0]
<1>1. TypeOK /\ InPushLoop /\ NotYetCommitted /\ SnapshotsAreHistory /\ OneHistory
  BY DEF IInv
<1>2. /\ db' = [db EXCEPT ![i] = << >>] /\ UNCHANGED <<client, pc, snap, next>>
      /\ response' = [response EXCEPT ![i] = "ErrorResponse"]
      /\ fwd' = [r \in Requests |-> IF Entry[r] = i /\ fwd[r] # "none" THEN "over" ELSE fwd[r]]
      /\ pushes' = [r \in Requests |-> [pushes[r] EXCEPT ![i] = "none"]]
  BY DEF Restart
<1>3. pushes' \in [Requests -> [Replicas -> PushState]]
  <2>1. \A r \in Requests : [pushes[r] EXCEPT ![i] = "none"] \in [Replicas -> PushState]
    BY <1>1 DEF TypeOK, PushState
  <2> QED BY <1>2, <2>1
<1>4. fwd' \in [Requests -> FwdState]
  BY <1>1, <1>2 DEF TypeOK, FwdState
<1>5. db' \in [Servers -> Seq(Requests)] /\ response' \in [Servers -> Messages]
  BY <1>1, <1>2, ServerZero DEF TypeOK, Messages
<1>6. TypeOK' /\ InPushLoop'
  BY <1>1, <1>2, <1>3, <1>4, <1>5 DEF TypeOK, InPushLoop
<1>7. \A j \in Servers : db'[j] = IF j = i THEN << >> ELSE db[j]
  BY <1>1, <1>2, ServerZero DEF TypeOK
<1>8. db'[0] = db[0] /\ db[0] \in Seq(Requests)
  BY <1>1, <1>7, ServerZero DEF TypeOK
<1>9. \A j \in Servers : Prefix(db'[j], db[0])
  BY <1>1, <1>7, <1>8, PrefixReflexive DEF OneHistory
<1>10. \A q \in Requests : Prefix(snap'[q], db[0])
  BY <1>1, <1>2 DEF SnapshotsAreHistory
<1>11. \A q \in Requests : (fwd'[q] = "call" => fwd[q] = "call") /\ (fwd[q] = "none" => fwd'[q] = "none")
  BY <1>2
<1> QED BY <1>1, <1>2, <1>6, <1>8, <1>9, <1>10, <1>11, CoordinatorUnchanged DEF NotYetCommitted

-----------------------------------------------------------------------------
\* Every step keeps the inductive invariant.
LEMMA StepGood ==
  ASSUME IInv, [Next]_vars
  PROVE  IInv' /\ Prefix(db[0], db'[0])
<1>1. db[0] \in Seq(Requests)
  BY ServerZero DEF IInv, TypeOK
<1>2. db'[0] = db[0] => Prefix(db[0], db'[0])
  BY <1>1, PrefixReflexive
<1>3. ASSUME NEW r \in Requests, Send(r) \/ RequestLost(r) \/ ClientTimeout(r) PROVE IInv' /\ db'[0] = db[0]
  BY <1>3, ClientStep DEF Send, RequestLost, ClientTimeout
<1>4. ASSUME NEW r \in Requests, Forwarder(r) PROVE IInv' /\ db'[0] = db[0]
  BY <1>4, ForwarderStep DEF Forwarder, Forward, ForwardFails, ForwardBuild, ForwardSend
<1>5. ASSUME NEW r \in Requests, Coordinator(r) PROVE IInv' /\ Prefix(db[0], db'[0])
  BY <1>2, <1>5, CommitStep, CoordinatorStep DEF Coordinator
<1>6. ASSUME NEW s \in Servers, Read(s) PROVE IInv' /\ db'[0] = db[0]
  BY <1>6, ReadStep DEF Read
<1>7. CASE UNCHANGED vars
  <2>1. TypeOK' /\ InPushLoop'
    BY <1>7 DEF IInv, TypeOK, InPushLoop, vars
  <2>2. IInv'
    BY <1>7, <2>1, DatabasesUnchanged DEF vars, IInv, NotYetCommitted
  <2> QED BY <1>2, <1>7, <2>2 DEF vars
<1>8. CASE Next
  BY <1>2, <1>3, <1>4, <1>5, <1>6, <1>8, ReplicaStep, RestartStep DEF Next
<1> QED BY <1>7, <1>8

(* The inductive invariant holds in every reachable state. *)
THEOREM SequentialGood == Spec => []IInv
<1>1. Init => IInv
  BY InitGood
<1>2. IInv /\ [Next]_vars => IInv'
  BY StepGood
<1> QED BY <1>1, <1>2, PTL DEF Spec

\* The variables have their types; the push loop never indexes the servers out
\* of bounds (protocol_sequential.c:50-53, 139-147).
THEOREM TypeCorrect == Spec => []TypeOK
<1>1. IInv => TypeOK
  BY DEF IInv
<1> QED BY <1>1, SequentialGood, PTL

\* What any server serves is a state the coordinator was in, whatever fails,
\* restarts or overtakes (protocol_sequential.c:46-53, msg_handler.c:172).
THEOREM OneHistoryCorrect == Spec => []OneHistory
<1>1. IInv => OneHistory
  BY DEF IInv
<1> QED BY <1>1, SequentialGood, PTL

\* No server shows a reply without its parent (database.c:118-132): the
\* coordinator does not, and the others show one of its earlier states.
THEOREM RepliesCorrect == Spec => []RepliesAfterParents
<1>1. IInv => RepliesAfterParents
  <2> SUFFICES ASSUME IInv, NEW i \in Servers, NEW k \in 1 .. Len(db[i]), IsReply(db[i][k])
               PROVE  Parent[db[i][k]] + 1 < k
    BY DEF RepliesAfterParents
  <2>1. db[i] \in Seq(Requests) /\ db[0] \in Seq(Requests) /\ Prefix(db[i], db[0])
    BY ServerZero DEF IInv, TypeOK, OneHistory
  <2>2. Len(db[i]) \in Nat /\ Len(db[0]) \in Nat
    BY <2>1
  <2>3. k \in 1 .. Len(db[0]) /\ db[i][k] = db[0][k]
    BY <2>1, <2>2 DEF Prefix
  <2> QED BY <2>3 DEF IInv, CoordinatorReplies, IsReply
<1> QED BY <1>1, SequentialGood, PTL

\* No path through the handlers commits a request twice or overfills the
\* database (protocol_sequential.c:29, 108).
THEOREM CommittedOnceCorrect == Spec => []CommittedOnce
<1>1. IInv => CommittedOnce
  BY DEF IInv
<1> QED BY <1>1, SequentialGood, PTL

-----------------------------------------------------------------------------
(* What the shared response buffer costs.  AckedIsCommitted does not hold, but
   it does of every behaviour in which a response that was built is not
   overwritten before it is sent: nothing else makes a client believe in a
   write that was rejected. *)

\* A step does not touch a buffer whose message waits to be sent.
BuffersKept ==
  /\ \A r \in Requests :
       /\ pc[r] \in {"sendSuccess", "sendError"} /\ pc'[r] = pc[r] => response'[0] = response[0]
       /\ fwd[r] = "send" /\ fwd'[r] = fwd[r] => response'[Entry[r]] = response[Entry[r]]
  /\ \A r \in Requests, i \in Replicas :
       pushes[r][i] = "built" /\ pushes'[r][i] = "built" => response'[i] = response[i]

\* The handler of r has committed and still has replicas to bring up to date.
Busy(r) == pc[r] \in {"success", "sendSuccess", "snapshot", "push", "wait"}

\* Whoever is to tell the client of r of success knows of a commit.
Told(r) ==
  /\ Busy(r) => Committed(r)
  /\ pc[r] = "sendError" => Committed(r) \/ response[0] = "ErrorResponse"
  /\ fwd[r] = "ok" => Committed(r)
  /\ fwd[r] = "send" => Committed(r) \/ response[Entry[r]] # Expected(r)
  /\ client[r] = "ok" => Committed(r)

\* A commit stays (protocol_sequential.c:50, 139).
LEMMA CommittedStays ==
  ASSUME IInv, [Next]_vars, NEW r, Committed(r)
  PROVE  Committed(r)'
<1>1. db[0] \in Seq(Requests) /\ db'[0] \in Seq(Requests) /\ Prefix(db[0], db'[0])
  BY StepGood, ServerZero DEF IInv, TypeOK
<1>2. PICK k \in 1 .. Len(db[0]) : db[0][k] = r
  BY DEF Committed
<1>3. k \in 1 .. Len(db'[0]) /\ db'[0][k] = r
  BY <1>1, <1>2 DEF Prefix
<1> QED BY <1>3 DEF Committed

\* An error response is no success (net.c: net_SendRecv).
LEMMA ErrorIsNoSuccess == \A r : Expected(r) # "ErrorResponse"
BY DEF Expected

\* A request whose handlers do not move, or only stop, has nothing new to tell.
LEMMA OthersTold ==
  ASSUME IInv, [Next]_vars, BuffersKept, NEW r \in Requests, Told(r),
         pc'[r] = pc[r], fwd'[r] \in {fwd[r], "over", "error", "wait"}, client'[r] \in {client[r], "wait", "error"}
  PROVE  Told(r)'
<1>1. Committed(r) => Committed(r)'
  BY CommittedStays
<1>2. pc[r] = "sendError" => response'[0] = response[0]
  BY DEF BuffersKept
<1>3. fwd'[r] = "send" => fwd[r] = "send" /\ response'[Entry[r]] = response[Entry[r]]
  BY DEF BuffersKept
<1> QED BY <1>1, <1>2, <1>3 DEF Told, Busy, Expected

\* What the coordinator sends to the caller of r is a success only if r is
\* committed (protocol_sequential.c:44, 75).
LEMMA RespondTold ==
  ASSUME IInv, NEW r \in Requests, Told(r), pc[r] \in {"sendSuccess", "sendError"}, Respond(r)
  PROVE  /\ client'[r] \in {client[r], "error"} \/ Committed(r)
         /\ fwd'[r] \in {fwd[r], "error"} \/ Committed(r)
<1>1. client \in [Requests -> ClientState] /\ fwd \in [Requests -> FwdState]
  BY DEF IInv, TypeOK
<1>2. Outcome(r, response[0]) = "error" \/ Committed(r)
  BY ErrorIsNoSuccess DEF Told, Busy, Outcome
<1> QED BY <1>1, <1>2 DEF Respond

\* The steps of the coordinator's handler (protocol_sequential.c:26-77, 105-168).
LEMMA CoordinatorTold ==
  ASSUME IInv, [Next]_vars, NEW r \in Requests, Told(r), Coordinator(r)
  PROVE  Told(r)'
<1>1. /\ pc \in [Requests -> PcState] /\ client \in [Requests -> ClientState]
      /\ fwd \in [Requests -> FwdState] /\ response \in [Servers -> Messages] /\ 0 \in Servers
  BY ServerZero DEF IInv, TypeOK
<1>2. Committed(r) => Committed(r)'
  BY CommittedStays
<1>3. CASE Commit(r)
  <2>1. CASE Accepts(db[0], r)
    <3>1. db[0] \in Seq(Requests) /\ db'[0] = Append(db[0], r)
      BY <1>1, <1>3, <2>1 DEF Commit, IInv, TypeOK
    <3>2. Len(db'[0]) = Len(db[0]) + 1 /\ db'[0][Len(db[0]) + 1] = r /\ Len(db[0]) \in Nat
      BY <3>1
    <3>3. Committed(r)'
      BY <3>2 DEF Committed
    <3> QED BY <3>3 DEF Told
  <2>2. CASE ~Accepts(db[0], r)
    BY <1>1, <1>2, <1>3, <2>2 DEF Commit, Told, Busy, Expected
  <2> QED BY <2>1, <2>2
<1>4. CASE BuildSuccess(r)
  <2>1. Committed(r)
    BY <1>4 DEF BuildSuccess, Told, Busy
  <2> QED BY <1>2, <2>1 DEF Told
<1>5. CASE BuildError(r)
  <2>1. pc'[r] = "sendError" /\ response'[0] = "ErrorResponse" /\ UNCHANGED <<client, fwd>>
    BY <1>1, <1>5 DEF BuildError
  <2>2. \A s \in Servers : s # 0 => response'[s] = response[s]
    BY <1>1, <1>5 DEF BuildError
  <2>3. Entry[r] \in Servers
    BY RequestAssumption
  <2> QED BY <1>2, <2>1, <2>2, <2>3, ErrorIsNoSuccess DEF Told, Busy, Expected
<1>6. CASE SendSuccess(r) \/ SendError(r)
  <2>1. /\ pc[r] \in {"sendSuccess", "sendError"} /\ Respond(r) /\ response' = response
        /\ pc'[r] = IF pc[r] = "sendSuccess" THEN "snapshot" ELSE "done"
    BY <1>1, <1>6 DEF SendSuccess, SendError
  <2>2. CASE Committed(r)
    BY <1>2, <2>2 DEF Told
  <2>3. CASE ~Committed(r)
    <3>1. client'[r] \in {client[r], "error"} /\ fwd'[r] \in {fwd[r], "error"}
      BY <2>1, <2>3, RespondTold
    <3> QED BY <2>1, <2>3, <3>1 DEF Told, Busy, Expected
  <2> QED BY <2>2, <2>3
<1>7. CASE Snapshot(r) \/ Push(r) \/ PushFails(r)
  <2>1. Committed(r)
    BY <1>7 DEF Snapshot, Push, PushFails, Told, Busy
  <2> QED BY <1>2, <2>1 DEF Told
<1> QED BY <1>3, <1>4, <1>5, <1>6, <1>7 DEF Coordinator

\* The steps of the handler that forwards (protocol_sequential.c:55-68, 149-160).
LEMMA ForwarderTold ==
  ASSUME IInv, [Next]_vars, BuffersKept, NEW r \in Requests, Told(r), Forwarder(r)
  PROVE  Told(r)'
<1>1. /\ pc \in [Requests -> PcState] /\ client \in [Requests -> ClientState]
      /\ fwd \in [Requests -> FwdState] /\ response \in [Servers -> Messages] /\ Entry[r] \in Servers
  BY RequestAssumption DEF IInv, TypeOK
<1>2. Committed(r) => Committed(r)'
  BY CommittedStays
<1>3. CASE Forward(r)
  BY <1>1, <1>2, <1>3 DEF Forward, Told, Busy
<1>4. CASE ForwardFails(r)
  BY <1>1, <1>4, OthersTold DEF ForwardFails
<1>5. CASE ForwardBuild(r)
  <2>1. /\ fwd[r] \in {"ok", "error"} /\ UNCHANGED <<client, pc>> /\ fwd'[r] = "send"
        /\ response'[Entry[r]] = IF fwd[r] = "ok" THEN Expected(r) ELSE "ErrorResponse"
    BY <1>1, <1>5 DEF ForwardBuild
  <2>2. pc[r] = "sendError" => response'[0] = response[0]
    BY <2>1 DEF BuffersKept
  <2> QED BY <1>2, <2>1, <2>2, ErrorIsNoSuccess DEF Told, Busy, Expected
<1>6. CASE ForwardSend(r)
  <2>1. /\ fwd[r] = "send" /\ UNCHANGED <<response, pc>> /\ fwd'[r] = "over"
        /\ client'[r] = IF client[r] = "wait" THEN Outcome(r, response[Entry[r]]) ELSE client[r]
    BY <1>1, <1>6 DEF ForwardSend
  <2>2. client'[r] \in {client[r], "error"} \/ Committed(r)
    BY <2>1 DEF Told, Outcome
  <2> QED BY <1>2, <2>1, <2>2 DEF Told, Busy
<1> QED BY <1>3, <1>4, <1>5, <1>6 DEF Forwarder

\* The handlers of a request that is not the one that moves stay where they
\* are, unless their server restarts.
LEMMA OthersStay ==
  ASSUME TypeOK, NEW r \in Requests, NEW q \in Requests, q # r,
         \/ Send(r) \/ RequestLost(r) \/ ClientTimeout(r) \/ Forwarder(r) \/ Coordinator(r)
         \/ \E i \in Replicas : Replica(r, i)
  PROVE  pc'[q] = pc[q] /\ fwd'[q] = fwd[q] /\ client'[q] = client[q]
<1>1. pc \in [Requests -> PcState] /\ client \in [Requests -> ClientState] /\ fwd \in [Requests -> FwdState]
  BY DEF TypeOK
<1>2. CASE Send(r) \/ RequestLost(r) \/ ClientTimeout(r)
  BY <1>1, <1>2 DEF Send, RequestLost, ClientTimeout
<1>3. CASE Forwarder(r)
  BY <1>1, <1>3 DEF Forwarder, Forward, ForwardFails, ForwardBuild, ForwardSend
<1>4. CASE Coordinator(r)
  BY <1>1, <1>4 DEF Coordinator, Commit, BuildSuccess, BuildError, SendSuccess, SendError, Respond,
                    Snapshot, Push, PushFails, PushReturns
<1>5. CASE \E i \in Replicas : Replica(r, i)
  BY <1>1, <1>5 DEF Replica, Restore, BuildAck, SendAck, PushLost, PushReturns
<1> QED BY <1>2, <1>3, <1>4, <1>5

\* The client and the DB-PUSH handlers of r tell nobody of success.
LEMMA ClientTold ==
  ASSUME IInv, [Next]_vars, BuffersKept, NEW r \in Requests, Told(r),
         Send(r) \/ RequestLost(r) \/ ClientTimeout(r) \/ \E i \in Replicas : Replica(r, i)
  PROVE  Told(r)'
<1>1. pc \in [Requests -> PcState] /\ client \in [Requests -> ClientState] /\ fwd \in [Requests -> FwdState]
  BY DEF IInv, TypeOK
<1>2. Committed(r) => Committed(r)'
  BY CommittedStays
<1>3. CASE Send(r)
  BY <1>1, <1>3 DEF Send, Told, Busy, IInv, NotYetCommitted
<1>4. CASE RequestLost(r) \/ ClientTimeout(r)
  BY <1>1, <1>4, OthersTold DEF RequestLost, ClientTimeout
<1>5. ASSUME NEW i \in Replicas, Replica(r, i) PROVE Told(r)'
  <2>1. UNCHANGED <<client, fwd>> /\ (pc' = pc \/ pc[r] = "wait")
    BY <1>5 DEF Replica, Restore, BuildAck, SendAck, PushLost
  <2>2. CASE pc' = pc
    BY <2>1, <2>2, OthersTold
  <2>3. CASE pc[r] = "wait"
    BY <1>2, <2>3 DEF Told, Busy
  <2> QED BY <2>1, <2>2, <2>3
<1> QED BY <1>3, <1>4, <1>5

\* Every step that keeps the buffers keeps what requests are told right.
LEMMA ToldStep ==
  ASSUME IInv, [Next]_vars, [BuffersKept]_vars, \A r \in Requests : Told(r)
  PROVE  \A r \in Requests : Told(r)'
<1>1. CASE UNCHANGED vars
  BY <1>1 DEF vars, Told, Busy, Committed, Expected
<1>2. CASE Next /\ BuffersKept
  <2> SUFFICES ASSUME NEW q \in Requests PROVE Told(q)'
    OBVIOUS
  <2>1. Told(q) /\ TypeOK /\ BuffersKept
    BY <1>2 DEF IInv
  <2>2. ASSUME NEW r \in Requests,
               \/ Send(r) \/ RequestLost(r) \/ ClientTimeout(r) \/ Forwarder(r) \/ Coordinator(r)
               \/ \E i \in Replicas : Replica(r, i)
        PROVE  Told(q)'
    <3>1. CASE q = r
      BY <2>1, <2>2, <3>1, ClientTold, ForwarderTold, CoordinatorTold
    <3>2. CASE q # r
      BY <2>1, <2>2, <3>2, OthersStay, OthersTold
    <3> QED BY <3>1, <3>2
  <2>3. ASSUME NEW s \in Servers, Read(s) PROVE Told(q)'
    BY <2>1, <2>3, OthersTold DEF Read
  <2>4. ASSUME NEW i \in Replicas, Restart(i) PROVE Told(q)'
    BY <2>1, <2>4, OthersTold DEF Restart
  <2> QED BY <1>2, <2>2, <2>3, <2>4 DEF Next
<1> QED BY <1>1, <1>2

\* If no response is overwritten before it is sent, a client that is told of
\* success has written, whatever fails, restarts or times out: the buffer that
\* the threads share (protocol_sequential.c:17) is the only cause of an
\* acknowledgement that AckedIsCommitted finds wrong.
THEOREM AckedUnlessOverwritten == Spec /\ [][BuffersKept]_vars => []AckedIsCommitted
<1> DEFINE AllTold == \A r \in Requests : Told(r)
<1>1. Init => AllTold
  BY DEF Init, Told, Busy
<1>2. IInv /\ [Next]_vars /\ [BuffersKept]_vars /\ AllTold => AllTold'
  BY ToldStep
<1>3. AllTold => AckedIsCommitted
  BY DEF Told, AckedIsCommitted
<1> HIDE DEF AllTold
<1> QED BY <1>1, <1>2, <1>3, SequentialGood, PTL DEF Spec

-----------------------------------------------------------------------------
(* What the missing lock costs.  ReplicasUpToDate does not hold either, but it
   does where nothing fails, no response is overwritten, and no two handlers
   are between the commit and the end of the push loop, as if a mutex were held
   over all of that. *)

OneAtATime == \A q, r \in Requests : Busy(q) /\ Busy(r) => q = r

\* A DB-PUSH handler serves the push that the coordinator waits for.
Awaited(r, i) ==
  /\ pushes[r][i] # "none" => pc[r] = "wait" /\ next[r] = i
  /\ pushes[r][i] \in {"restored", "built"} => db[i] = db[0]
  /\ pushes[r][i] = "built" => response[i] = "DbPushResponse"

\* The push loop of r pushes what the coordinator has, and the replicas before
\* the loop counter have it.
Advances(r) ==
  pc[r] \in {"push", "wait"} => snap[r] = db[0] /\ \A i \in Replicas : i < next[r] => db[i] = db[0]

SyncInv ==
  /\ \A r \in Requests : Advances(r)
  /\ \A r \in Requests, i \in Replicas : Awaited(r, i)
  /\ (\A r \in Requests : ~Busy(r)) => \A i \in Replicas : db[i] = db[0]

\* A step that leaves databases, snapshots and pushes alone, and in which no
\* handler gets into the loop or ends it.
LEMMA NothingPushed ==
  ASSUME SyncInv, BuffersKept, UNCHANGED <<db, snap, next, pushes>>,
         \A r \in Requests : /\ pc'[r] \in {"push", "wait"} <=> pc[r] \in {"push", "wait"}
                             /\ pc[r] = "wait" => pc'[r] = "wait"
                             /\ Busy(r) => Busy(r)'
  PROVE  SyncInv'
<1>1. \A r \in Requests : Advances(r)'
  BY DEF SyncInv, Advances
<1>2. ASSUME NEW r \in Requests, NEW i \in Replicas PROVE Awaited(r, i)'
  <2>1. Awaited(r, i)
    BY DEF SyncInv
  <2>2. pushes[r][i] = "built" => response'[i] = response[i]
    BY DEF BuffersKept
  <2> QED BY <2>1, <2>2 DEF Awaited
<1>3. (\A r \in Requests : ~Busy(r)') => \A i \in Replicas : db'[i] = db'[0]
  BY DEF SyncInv
<1> QED BY <1>1, <1>2, <1>3 DEF SyncInv, Busy

\* The steps of clients, forwarders and READs, and those of the coordinator
\* outside of commit and push loop.
LEMMA SyncOutside ==
  ASSUME TypeOK, NotYetCommitted, SyncInv, BuffersKept, ~Faults,
         \/ \E r \in Requests : \/ Send(r) \/ RequestLost(r) \/ ClientTimeout(r) \/ Forwarder(r)
                                \/ BuildSuccess(r) \/ BuildError(r) \/ SendSuccess(r) \/ SendError(r)
         \/ \E s \in Servers : Read(s)
  PROVE  SyncInv'
<1>1. pc \in [Requests -> PcState]
  BY DEF TypeOK
<1>2. ASSUME NEW r \in Requests,
             \/ Send(r) \/ RequestLost(r) \/ ClientTimeout(r) \/ Forwarder(r)
             \/ BuildSuccess(r) \/ BuildError(r) \/ SendSuccess(r) \/ SendError(r)
      PROVE  /\ UNCHANGED <<db, snap, next, pushes>>
             /\ \/ pc' = pc
                \/ pc[r] \in {"idle", "error", "sendError"} /\ pc' = [pc EXCEPT ![r] = pc'[r]] /\ pc'[r] \in {"commit", "sendError", "done"}
                \/ pc[r] \in {"success", "sendSuccess"} /\ pc' = [pc EXCEPT ![r] = pc'[r]] /\ pc'[r] \in {"sendSuccess", "snapshot"}
  <2>1. CASE Send(r)
    BY <1>1, <2>1 DEF Send, NotYetCommitted
  <2>2. CASE RequestLost(r) \/ ClientTimeout(r)
    BY <2>2 DEF RequestLost, ClientTimeout
  <2>3. CASE Forwarder(r)
    BY <1>1, <2>3 DEF Forwarder, Forward, ForwardFails, ForwardBuild, ForwardSend, NotYetCommitted
  <2>4. CASE BuildSuccess(r) \/ BuildError(r) \/ SendSuccess(r) \/ SendError(r)
    BY <1>1, <2>4 DEF BuildSuccess, BuildError, SendSuccess, SendError
  <2> QED BY <1>2, <2>1, <2>2, <2>3, <2>4
<1>3. ASSUME NEW r \in Requests,
             \/ Send(r) \/ RequestLost(r) \/ ClientTimeout(r) \/ Forwarder(r)
             \/ BuildSuccess(r) \/ BuildError(r) \/ SendSuccess(r) \/ SendError(r)
      PROVE  SyncInv'
  <2>1. \A q \in Requests : /\ pc'[q] \in {"push", "wait"} <=> pc[q] \in {"push", "wait"}
                            /\ pc[q] = "wait" => pc'[q] = "wait"
                            /\ Busy(q) => Busy(q)'
    BY <1>1, <1>2, <1>3 DEF Busy
  <2> QED BY <1>2, <1>3, <2>1, NothingPushed
<1>4. ASSUME NEW s \in Servers, Read(s) PROVE SyncInv'
  BY <1>4, NothingPushed DEF Read, Busy
<1> QED BY <1>3, <1>4

\* A handler that commits is the only one that is busy, so that no push is
\* under way (protocol_sequential.c:29, 108).
LEMMA SyncCommit ==
  ASSUME TypeOK, SyncInv, OneAtATime', NEW r \in Requests, Commit(r)
  PROVE  SyncInv'
<1>1. pc \in [Requests -> PcState] /\ UNCHANGED <<snap, next, pushes, response>> /\ pc[r] = "commit"
  BY DEF TypeOK, Commit
<1>2. \A q \in Requests \ {r} : pc'[q] = pc[q]
  BY <1>1 DEF Commit
<1>3. CASE Accepts(db[0], r)
  <2>1. pc'[r] = "success"
    BY <1>1, <1>3 DEF Commit
  <2>2. \A q \in Requests : pc'[q] \notin {"push", "wait"} /\ pc[q] # "wait"
    <3> SUFFICES ASSUME NEW q \in Requests, q # r PROVE pc'[q] \notin {"push", "wait"} /\ pc[q] # "wait"
      BY <1>1, <2>1
    <3>1. ~ (pc'[q] \in {"push", "wait"})
      BY <2>1 DEF OneAtATime, Busy
    <3> QED BY <1>2, <3>1
  <2>3. \A q \in Requests, i \in Replicas : pushes'[q][i] = "none"
    BY <1>1, <2>2 DEF SyncInv, Awaited
  <2> QED BY <2>1, <2>2, <2>3 DEF SyncInv, Advances, Awaited, Busy
<1>4. CASE ~Accepts(db[0], r)
  <2>1. db' = db /\ pc'[r] = "error"
    BY <1>1, <1>4 DEF Commit
  <2>2. \A q \in Requests : /\ pc'[q] \in {"push", "wait"} <=> pc[q] \in {"push", "wait"}
                            /\ pc[q] = "wait" <=> pc'[q] = "wait"
                            /\ Busy(q) <=> Busy(q)'
    BY <1>1, <1>2, <2>1 DEF Busy
  <2> QED BY <1>1, <2>1, <2>2 DEF SyncInv, Advances, Awaited
<1> QED BY <1>3, <1>4

\* The loop starts with the present database (protocol_sequential.c:47, 136).
LEMMA SyncSnapshot ==
  ASSUME TypeOK, SyncInv, NEW r \in Requests, Snapshot(r)
  PROVE  SyncInv'
<1>1. /\ pc \in [Requests -> PcState] /\ snap \in [Requests -> Seq(Requests)] /\ next \in [Requests -> 1 .. N]
      /\ UNCHANGED <<db, pushes, response>> /\ pc[r] = "snapshot"
  BY DEF TypeOK, Snapshot
<1>2. snap'[r] = db'[0] /\ next'[r] = 1 /\ pc'[r] = IF 1 < N THEN "push" ELSE "done"
  BY <1>1 DEF Snapshot, FirstPush, PushLoop
<1>3. \A q \in Requests \ {r} : pc'[q] = pc[q] /\ snap'[q] = snap[q] /\ next'[q] = next[q]
  BY <1>1 DEF Snapshot
<1>4. \A i \in Replicas : ~(i < 1) /\ 1 < N
  BY NAssumption DEF Replicas
<1>5. \A q \in Requests : Advances(q)'
  BY <1>1, <1>2, <1>3, <1>4 DEF SyncInv, Advances
<1>6. \A q \in Requests, i \in Replicas : Awaited(q, i)'
  BY <1>1, <1>2, <1>3 DEF SyncInv, Awaited
<1>7. (\A q \in Requests : ~Busy(q)') => \A i \in Replicas : db'[i] = db'[0]
  BY <1>2, <1>4 DEF Busy
<1> QED BY <1>5, <1>6, <1>7 DEF SyncInv, Busy

\* A push goes out (protocol_sequential.c:52, 141).
LEMMA SyncPush ==
  ASSUME TypeOK, InPushLoop, SyncInv, NEW r \in Requests, Push(r)
  PROVE  SyncInv'
<1>1. /\ pc \in [Requests -> PcState] /\ pushes \in [Requests -> [Replicas -> PushState]]
      /\ UNCHANGED <<db, response, snap, next>> /\ pc[r] = "push" /\ next[r] \in Replicas
  BY DEF TypeOK, Push, InPushLoop
<1>2. /\ pc'[r] = "wait" /\ pushes'[r][next[r]] = "sent"
      /\ \A i \in Replicas \ {next[r]} : pushes'[r][i] = pushes[r][i]
      /\ \A q \in Requests \ {r} : pc'[q] = pc[q] /\ pushes'[q] = pushes[q]
  BY <1>1 DEF Push
<1>3. \A q \in Requests : Advances(q)'
  BY <1>1, <1>2 DEF SyncInv, Advances
<1>4. \A q \in Requests, i \in Replicas : Awaited(q, i)'
  BY <1>1, <1>2 DEF SyncInv, Awaited
<1> QED BY <1>2, <1>3, <1>4 DEF SyncInv, Busy

\* The replica takes the snapshot over and builds its response
\* (msg_handler.c:166-184).
LEMMA SyncRestore ==
  ASSUME TypeOK, SyncInv, BuffersKept, NEW r \in Requests, NEW i \in Replicas, Restore(r, i) \/ BuildAck(r, i)
  PROVE  SyncInv'
<1>1. /\ db \in [Servers -> Seq(Requests)] /\ pushes \in [Requests -> [Replicas -> PushState]]
      /\ response \in [Servers -> Messages] /\ UNCHANGED <<pc, snap, next>> /\ pushes[r][i] # "none"
      /\ i \in Servers /\ i # 0 /\ 0 \in Servers
  BY ServerZero DEF TypeOK, Restore, BuildAck
<1>2. pc[r] = "wait" /\ next[r] = i /\ snap[r] = db[0]
  BY <1>1 DEF SyncInv, Awaited, Advances
<1>3. /\ pushes'[r][i] \in {"restored", "built"} /\ db'[0] = db[0] /\ db'[i] = db[0]
      /\ \A j \in Servers \ {i} : db'[j] = db[j]
  <2>1. CASE Restore(r, i)
    BY <1>1, <1>2, <2>1 DEF Restore
  <2>2. CASE BuildAck(r, i)
    <3>1. db' = db /\ pushes[r][i] = "restored" /\ pushes'[r][i] = "built"
      BY <1>1, <2>2 DEF BuildAck
    <3> QED BY <3>1 DEF SyncInv, Awaited
  <2> QED BY <2>1, <2>2
<1>4. pushes'[r][i] = "built" => response'[i] = "DbPushResponse"
  BY <1>1 DEF Restore, BuildAck
<1>5. \A q \in Requests, j \in Replicas : q # r \/ j # i => pushes'[q][j] = pushes[q][j]
  BY <1>1 DEF Restore, BuildAck
<1>6. \A j \in Replicas : db[j] = db[0] => db'[j] = db'[0]
  BY <1>3, ServerZero
<1>7. \A q \in Requests : Advances(q)'
  BY <1>1, <1>3, <1>6 DEF SyncInv, Advances
<1>8. ASSUME NEW q \in Requests, NEW j \in Replicas PROVE Awaited(q, j)'
  <2>1. CASE q = r /\ j = i
    BY <1>1, <1>2, <1>3, <1>4, <2>1 DEF Awaited
  <2>2. CASE q # r \/ j # i
    <3>1. pushes'[q][j] = pushes[q][j] /\ Awaited(q, j)
      BY <1>5, <2>2 DEF SyncInv
    <3>2. pushes[q][j] = "built" => response'[j] = response[j]
      BY <3>1 DEF BuffersKept
    <3> QED BY <1>1, <1>6, <3>1, <3>2 DEF Awaited
  <2> QED BY <2>1, <2>2
<1>9. Busy(r)'
  BY <1>1, <1>2 DEF Busy
<1> QED BY <1>7, <1>8, <1>9 DEF SyncInv

\* The acknowledgement that the handler reads is the replica's, so the loop
\* goes on, and ends when every replica has the snapshot
\* (protocol_sequential.c:50-53, 139-147).
LEMMA SyncAck ==
  ASSUME TypeOK, SyncInv, NEW r \in Requests, NEW i \in Replicas, SendAck(r, i)
  PROVE  SyncInv'
<1>1. /\ pc \in [Requests -> PcState] /\ next \in [Requests -> 1 .. N]
      /\ pushes \in [Requests -> [Replicas -> PushState]]
      /\ UNCHANGED <<db, response, snap>> /\ pushes[r][i] = "built"
  BY DEF TypeOK, SendAck
<1>2. pc[r] = "wait" /\ next[r] = i /\ snap[r] = db[0] /\ db[i] = db[0] /\ response[i] = "DbPushResponse"
  BY <1>1 DEF SyncInv, Awaited, Advances
<1>3. /\ pc' = [pc EXCEPT ![r] = PushLoop(i + 1)] /\ next' = [next EXCEPT ![r] = i + 1]
      /\ pushes' = [pushes EXCEPT ![r][i] = "none"]
  BY <1>1, <1>2 DEF SendAck, PushReturns
<1>4. /\ pc'[r] = IF i + 1 < N THEN "push" ELSE "done"
      /\ next'[r] = i + 1 /\ pushes'[r][i] = "none"
      /\ \A j \in Replicas \ {i} : pushes'[r][j] = pushes[r][j]
      /\ \A q \in Requests \ {r} : pc'[q] = pc[q] /\ next'[q] = next[q] /\ pushes'[q] = pushes[q]
  BY <1>1, <1>3 DEF PushLoop
<1>5. \A j \in Replicas : j < i + 1 => db[j] = db[0]
  <2>1. \A j \in Replicas : j < i + 1 => j < i \/ j = i
    BY NAssumption DEF Replicas
  <2> QED BY <1>2, <2>1 DEF SyncInv, Advances
<1>6. \A q \in Requests : Advances(q)'
  BY <1>1, <1>2, <1>4, <1>5 DEF SyncInv, Advances
<1>7. ASSUME NEW q \in Requests, NEW j \in Replicas PROVE Awaited(q, j)'
  <2>1. CASE q = r /\ j = i
    BY <1>4, <2>1 DEF Awaited
  <2>2. CASE q = r /\ j # i
    BY <1>2, <1>4, <2>2 DEF SyncInv, Awaited
  <2>3. CASE q # r
    BY <1>1, <1>4, <2>3 DEF SyncInv, Awaited
  <2> QED BY <2>1, <2>2, <2>3
<1>8. ASSUME \A q \in Requests : ~Busy(q)' PROVE \A j \in Replicas : db'[j] = db'[0]
  <2>1. ~(i + 1 < N)
    BY <1>4, <1>8 DEF Busy
  <2>2. \A j \in Replicas : j < i + 1
    BY <2>1, NAssumption DEF Replicas
  <2> QED BY <1>1, <1>5, <2>2
<1> QED BY <1>6, <1>7, <1>8 DEF SyncInv

\* Every step that keeps to the rules keeps the replicas in step.
LEMMA SyncStep ==
  ASSUME IInv, SyncInv, OneAtATime', ~Faults, [Next]_vars, [BuffersKept]_vars
  PROVE  SyncInv'
<1>1. TypeOK /\ NotYetCommitted /\ InPushLoop
  BY DEF IInv
<1>2. CASE UNCHANGED vars
  BY <1>2 DEF vars, SyncInv, Advances, Awaited, Busy
<1>3. CASE Next /\ BuffersKept
  <2>1. ASSUME NEW r \in Requests, Coordinator(r) PROVE SyncInv'
    BY <1>1, <1>3, <2>1, SyncOutside, SyncCommit, SyncSnapshot, SyncPush DEF Coordinator, PushFails
  <2>2. ASSUME NEW r \in Requests, NEW i \in Replicas, Replica(r, i) PROVE SyncInv'
    BY <1>1, <1>3, <2>2, SyncRestore, SyncAck DEF Replica, PushLost
  <2>3. ASSUME \/ \E r \in Requests : Send(r) \/ RequestLost(r) \/ ClientTimeout(r) \/ Forwarder(r)
               \/ \E s \in Servers : Read(s)
        PROVE  SyncInv'
    BY <1>1, <1>3, <2>3, SyncOutside
  <2>4. ASSUME NEW i \in Replicas, Restart(i) PROVE SyncInv'
    BY <2>4 DEF Restart
  <2> QED BY <1>3, <2>1, <2>2, <2>3, <2>4 DEF Next
<1> QED BY <1>2, <1>3

\* The replicas agree with the coordinator whenever all is quiet, for every
\* number of servers and requests, where no connection fails, no response is
\* overwritten, and a handler commits only after the push loop of the one
\* before has ended: the comment "push updated database to all other replicas"
\* (protocol_sequential.c:49) is true of the code but for what it leaves
\* unlocked (lines 17, 29-53).
THEOREM ReplicasOneAtATime ==
  ASSUME ~Faults
  PROVE  Spec /\ []OneAtATime /\ [][BuffersKept]_vars => []ReplicasUpToDate
<1>1. Init => SyncInv
  <2> SUFFICES ASSUME Init PROVE SyncInv
    OBVIOUS
  <2>1. \A i \in Replicas : db[i] = db[0]
    BY ServerZero DEF Init
  <2> QED BY <2>1 DEF Init, SyncInv, Advances, Awaited
<1>2. IInv /\ SyncInv /\ OneAtATime' /\ [Next]_vars /\ [BuffersKept]_vars => SyncInv'
  BY SyncStep
<1>3. SyncInv => ReplicasUpToDate
  BY DEF SyncInv, ReplicasUpToDate, Quiescent, Busy
<1> QED BY <1>1, <1>2, <1>3, SequentialGood, PTL DEF Spec
=============================================================================
