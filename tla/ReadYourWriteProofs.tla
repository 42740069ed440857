-------------------------- MODULE ReadYourWriteProofs ------------------------
(***************************************************************************)
(* Proofs about the read-your-write protocol, for any number of servers    *)
(* and requests and whatever fails.  A push may restore a snapshot that is *)
(* older than what the server has, and at the coordinator too, so that     *)
(* databases shrink.  What is left is a relation between all the copies    *)
(* there are, databases and snapshots (Held): any two agree as far as they *)
(* have an article in common.  That a write is found to be successful only *)
(* when its pushes were taken over follows the loop: everything before     *)
(* next[r] is taken.                                                       *)
(***************************************************************************)
EXTENDS ReadYourWrite, TLAPS

\* All copies of databases in the system.
Held == {db[s] : s \in Servers} \cup {snap[r] : r \in Requests}

\* Every reply has its parent before it.
Grounded(d) == \A k \in 1 .. Len(d) : IsReply(d[k]) => Parent[d[k]] + 1 < k

Lacks(d, r) == \A k \in 1 .. Len(d) : d[k] # r

CopiesAgree == \A d, e \in Held : Agree(d, e)
CopiesGrounded == \A d \in Held : Grounded(d)

\* A request the coordinator has not committed yet is nowhere.
NotYetWritten == \A r \in Requests : pc[r] \in {"idle", "commit"} => \A d \in Held : Lacks(d, r)

\* The coordinator's handler of a request is started once.
Unstarted ==
  \A r \in Requests : client[r] = "idle" \/ fwd[r] = "call" => pc[r] = "idle"
Unforwarded == \A r \in Requests : client[r] = "idle" => fwd[r] = "none"

\* The servers the loop has passed have taken over the snapshot, and so have
\* those whose handler is past the restore.
LoopTaken ==
  \A r \in Requests : pc[r] \in {"push", "wait", "success"} =>
    \A i \in Servers : FirstPush(r) <= i /\ i < next[r] => i \in taken[r]
LoopOver == \A r \in Requests : pc[r] = "success" => LastPush(r) < next[r]
RestoredTaken ==
  \A r \in Requests, i \in Servers : pushes[r][i] \in {"restored", "built"} => i \in taken[r]

Copies == CopiesAgree /\ CopiesGrounded /\ NotYetWritten
Starts == Unstarted /\ Unforwarded
Loops == LoopTaken /\ LoopOver /\ RestoredTaken

IInv == TypeOK /\ Copies /\ Starts /\ Loops

-----------------------------------------------------------------------------
(* Facts about histories. *)

\* The empty database agrees with all others.
LEMMA EmptyCopy ==
  ASSUME NEW d
  PROVE  /\ Agree(<< >>, d) /\ Agree(d, << >>)
         /\ Grounded(<< >>) /\ \A r : Lacks(<< >>, r)
BY DEF Agree, Grounded, Lacks

\* A database with a new write at its end agrees with whatever it agreed with.
LEMMA AppendAgrees ==
  ASSUME NEW d \in Seq(Requests), NEW e \in Seq(Requests), NEW r \in Requests,
         Agree(d, e), Agree(e, d), Lacks(e, r)
  PROVE  Agree(Append(d, r), e) /\ Agree(e, Append(d, r))
<1> DEFINE a == Append(d, r)
<1>1. Len(d) \in Nat /\ Len(e) \in Nat /\ Len(a) = Len(d) + 1 /\ a[Len(d) + 1] = r
        /\ \A k \in 1 .. Len(d) : a[k] = d[k]
  OBVIOUS
<1> HIDE DEF a
<1>2. ASSUME NEW j \in 1 .. Len(a), NEW k \in 1 .. Len(e), a[j] = e[k]
      PROVE  j \in 1 .. Len(d) /\ a[j] = d[j]
  BY <1>1, <1>2 DEF Lacks
<1>3. Agree(a, e)
  <2> SUFFICES ASSUME NEW j \in 1 .. Len(a), NEW k \in 1 .. Len(e), a[j] = e[k]
               PROVE  j = k /\ \A l \in 1 .. k : a[l] = e[l]
    BY DEF Agree
  <2>1. j \in 1 .. Len(d) /\ d[j] = e[k]
    BY <1>2
  <2>2. j = k /\ \A l \in 1 .. k : d[l] = e[l]
    BY <2>1 DEF Agree
  <2>3. \A l \in 1 .. k : l \in 1 .. Len(d)
    BY <1>1, <2>1, <2>2
  <2> QED BY <1>1, <2>2, <2>3
<1>4. Agree(e, a)
  <2> SUFFICES ASSUME NEW k \in 1 .. Len(e), NEW j \in 1 .. Len(a), e[k] = a[j]
               PROVE  k = j /\ \A l \in 1 .. j : e[l] = a[l]
    BY DEF Agree
  <2>1. j \in 1 .. Len(d) /\ e[k] = d[j]
    BY <1>2
  <2>2. k = j /\ \A l \in 1 .. j : e[l] = d[l]
    BY <2>1 DEF Agree
  <2>3. \A l \in 1 .. j : l \in 1 .. Len(d)
    BY <1>1, <2>1
  <2> QED BY <1>1, <2>2, <2>3
<1> QED BY <1>3, <1>4 DEF a

\* A database with a new write at its end has no article twice.
LEMMA AppendAgreesWithItself ==
  ASSUME NEW d \in Seq(Requests), NEW r \in Requests, Agree(d, d), Lacks(d, r)
  PROVE  Agree(Append(d, r), Append(d, r))
<1> DEFINE a == Append(d, r)
<1>1. Len(d) \in Nat /\ Len(a) = Len(d) + 1 /\ a[Len(d) + 1] = r
        /\ \A k \in 1 .. Len(d) : a[k] = d[k]
  OBVIOUS
<1> HIDE DEF a
<1>2. ASSUME NEW j \in 1 .. Len(a), NEW k \in 1 .. Len(a), a[j] = a[k] PROVE j = k
  <2>1. CASE j \in 1 .. Len(d) /\ k \in 1 .. Len(d)
    BY <1>1, <1>2, <2>1 DEF Agree
  <2>2. CASE j = Len(d) + 1 \/ k = Len(d) + 1
    BY <1>1, <1>2, <2>2 DEF Lacks
  <2> QED BY <1>1, <2>1, <2>2
<1> QED BY <1>2 DEF Agree, a

-----------------------------------------------------------------------------
(* Types. *)

\* The range of the push loop.
LEMMA LoopRange ==
  ASSUME NEW r \in Requests
  PROVE  /\ FirstPush(r) \in 0 .. N /\ LastPush(r) \in Int /\ LastPush(r) < N
         /\ \A i \in 0 .. N : /\ PushLoop(r, i) \in {"push", "success"}
                              /\ PushLoop(r, i) = "push" => i \in Servers
                              /\ PushLoop(r, i) = "success" => LastPush(r) < i
BY SizeAssumption DEF FirstPush, LastPush, PushLoop, Servers

\* A fault is counted within its bound.
LEMMA FaultCounted ==
  ASSUME TypeOK, Fault \/ UNCHANGED faults
  PROVE  faults' \in 0 .. MaxFaults
BY SizeAssumption DEF TypeOK, Fault

\* What net_DbPush leaves behind when it returns
\* (protocol_readyourwrite.c:40-48, 122-130).
LEMMA PushReturned ==
  ASSUME TypeOK, NEW r \in Requests, pc[r] \in {"push", "wait"}, NEW failed \in BOOLEAN,
         PushReturns(r, failed)
  PROVE  /\ pc' \in [Requests -> PcState] /\ next' \in [Requests -> 0 .. N]
         /\ \A q \in Requests : q # r => pc'[q] = pc[q] /\ next'[q] = next[q]
         /\ pc'[r] \in {"push", "success", "error"}
         /\ pc'[r] = "push" => next'[r] \in Servers
         /\ pc'[r] = "success" => LastPush(r) < next'[r]
         /\ pc'[r] # "error" => ~failed /\ next'[r] = next[r] + 1
<1>1. pc \in [Requests -> PcState] /\ next \in [Requests -> 0 .. N] /\ next[r] \in Servers
  BY DEF TypeOK
<1>2. CASE failed
  <2>1. pc' = [pc EXCEPT ![r] = "error"] /\ next' = next
    BY <1>2 DEF PushReturns
  <2> QED BY <1>1, <1>2, <2>1 DEF PcState
<1>3. CASE ~failed
  <2> DEFINE p == PushLoop(r, next[r] + 1)
  <2>1. pc' = [pc EXCEPT ![r] = p] /\ next' = [next EXCEPT ![r] = next[r] + 1]
    BY <1>3 DEF PushReturns
  <2>2. next[r] + 1 \in 0 .. N
    BY <1>1, SizeAssumption DEF Servers
  <2>3. p \in {"push", "success"} /\ (p = "push" => next[r] + 1 \in Servers)
          /\ (p = "success" => LastPush(r) < next[r] + 1)
    BY <2>2, LoopRange
  <2> HIDE DEF p
  <2>4. pc'[r] = p /\ next'[r] = next[r] + 1
    BY <1>1, <2>1
  <2>5. pc' \in [Requests -> PcState] /\ next' \in [Requests -> 0 .. N]
    BY <1>1, <2>1, <2>2, <2>3 DEF PcState
  <2> QED BY <1>1, <1>3, <2>1, <2>3, <2>4, <2>5
<1> QED BY <1>2, <1>3

\* The steps outside the coordinator.
LEMMA OutsideTyped ==
  ASSUME TypeOK, NEW r \in Requests,
         Send(r) \/ ClientFails(r) \/ Forwarder(r) \/ ForwardFails(r)
  PROVE  TypeOK'
<1>1. Entry[r] \in Servers /\ Expected(r) \in Messages
  BY RequestAssumption DEF Expected, Messages
<1>2. CASE Send(r)
  BY <1>2 DEF Send, TypeOK, ClientState, FwdState, PcState
<1>3. CASE ClientFails(r)
  <2>1. faults' \in 0 .. MaxFaults
    BY <1>3, FaultCounted DEF ClientFails
  <2> QED BY <1>3, <2>1 DEF ClientFails, TypeOK, ClientState
<1>4. CASE Forward(r)
  BY <1>4 DEF Forward, TypeOK, FwdState, PcState
<1>5. CASE ForwardError(r)
  BY <1>1, <1>5 DEF ForwardError, TypeOK, FwdState, Messages
<1>6. CASE ForwardSuccess(r)
  BY <1>1, <1>6 DEF ForwardSuccess, TypeOK, FwdState
<1>7. CASE ForwardSend(r)
  BY <1>7 DEF ForwardSend, TypeOK, FwdState, ClientState, Outcome
<1>8. CASE ForwardFails(r)
  <2>1. faults' \in 0 .. MaxFaults
    BY <1>8, FaultCounted DEF ForwardFails
  <2> QED BY <1>8, <2>1 DEF ForwardFails, TypeOK, FwdState
<1> QED BY <1>2, <1>3, <1>4, <1>5, <1>6, <1>7, <1>8 DEF Forwarder

\* The steps of the coordinator's handlers.
LEMMA CoordinatorTyped ==
  ASSUME TypeOK, NEW r \in Requests, Coordinator(r) \/ PushFails(r)
  PROVE  TypeOK'
<1>1. 0 \in Servers /\ Expected(r) \in Messages
  BY SizeAssumption DEF Expected, Messages, Servers
<1>2. CASE Commit(r)
  <2>1. db[0] \in Seq(Requests) /\ Append(db[0], r) \in Seq(Requests)
    BY <1>1 DEF TypeOK
  <2>2. db' \in [Servers -> Seq(Requests)]
    BY <1>2, <2>1 DEF Commit, TypeOK
  <2>3. pc' = [pc EXCEPT ![r] = "snapshot"] \/ pc' = [pc EXCEPT ![r] = "error"]
    BY <1>2 DEF Commit
  <2> QED BY <1>2, <2>2, <2>3 DEF Commit, TypeOK, PcState
<1>3. CASE Snapshot(r)
  <2> DEFINE i == FirstPush(r)
             p == PushLoop(r, i)
  <2>1. i \in 0 .. N /\ p \in {"push", "success"} /\ (p = "push" => i \in Servers)
    BY LoopRange
  <2>2. snap' = [snap EXCEPT ![r] = db[0]] /\ next' = [next EXCEPT ![r] = i]
          /\ pc' = [pc EXCEPT ![r] = p]
          /\ UNCHANGED <<db, response, client, fwd, pushes, faults, taken>>
    BY <1>3 DEF Snapshot
  <2> HIDE DEF i, p
  <2> QED BY <1>1, <2>1, <2>2 DEF TypeOK, PcState
<1>4. CASE Push(r)
  <2>1. next[r] \in Servers /\ pushes' = [pushes EXCEPT ![r][next[r]] = "sent"]
    BY <1>4 DEF Push, TypeOK
  <2>2. pushes' \in [Requests -> [Servers -> PushState]]
    BY <2>1 DEF TypeOK, PushState
  <2>3. pc' = [pc EXCEPT ![r] = "wait"] /\ UNCHANGED <<db, response, client, fwd, snap, next, faults, taken>>
    BY <1>4 DEF Push
  <2> QED BY <2>1, <2>2, <2>3 DEF TypeOK, PcState
<1>5. CASE Build(r)
  BY <1>1, <1>5 DEF Build, TypeOK, PcState, Messages
<1>6. CASE SendResponse(r)
  BY <1>6 DEF SendResponse, TypeOK, PcState, ClientState, FwdState, Outcome
<1>7. CASE PushFails(r)
  <2>1. faults' \in 0 .. MaxFaults
    BY <1>7, FaultCounted DEF PushFails
  <2>2. PushReturns(r, TRUE) /\ pc[r] \in {"push", "wait"}
          /\ UNCHANGED <<db, response, client, fwd, snap, pushes, taken>>
    BY <1>7 DEF PushFails
  <2> QED BY <2>1, <2>2, PushReturned DEF TypeOK
<1> QED BY <1>2, <1>3, <1>4, <1>5, <1>6, <1>7 DEF Coordinator

\* The DB-PUSH handlers, and what happens to a server.
LEMMA ServerTyped ==
  ASSUME TypeOK,
         \/ \E r \in Requests, i \in Servers : Pushed(r, i) \/ PushLost(r, i)
         \/ \E s \in Servers : Read(s) \/ Restart(s)
  PROVE  TypeOK'
<1>1. ASSUME NEW r \in Requests, NEW i \in Servers, Restore(r, i) PROVE TypeOK'
  BY <1>1 DEF Restore, TypeOK, PushState
<1>2. ASSUME NEW r \in Requests, NEW i \in Servers, BuildAck(r, i) PROVE TypeOK'
  BY <1>2 DEF BuildAck, TypeOK, PushState, Messages
<1>3. ASSUME NEW r \in Requests, NEW i \in Servers, SendAck(r, i) PROVE TypeOK'
  <2>1. pushes' \in [Requests -> [Servers -> PushState]]
    BY <1>3 DEF SendAck, TypeOK, PushState
  <2>2. UNCHANGED <<db, response, client, fwd, snap, faults, taken>>
    BY <1>3 DEF SendAck
  <2>3. CASE pc[r] = "wait" /\ next[r] = i
    <3>1. PushReturns(r, response[i] # "DbPushResponse") /\ pc[r] \in {"push", "wait"}
      BY <1>3, <2>3 DEF SendAck
    <3> QED BY <2>1, <2>2, <3>1, PushReturned DEF TypeOK
  <2>4. CASE ~(pc[r] = "wait" /\ next[r] = i)
    BY <1>3, <2>1, <2>2, <2>4 DEF SendAck, TypeOK
  <2> QED BY <2>3, <2>4
<1>4. ASSUME NEW r \in Requests, NEW i \in Servers, PushLost(r, i) PROVE TypeOK'
  <2>1. faults' \in 0 .. MaxFaults
    BY <1>4, FaultCounted DEF PushLost
  <2> QED BY <1>4, <2>1 DEF PushLost, TypeOK, PushState
<1>5. ASSUME NEW s \in Servers, Read(s) PROVE TypeOK'
  BY <1>5 DEF Read, TypeOK, Messages
<1>6. ASSUME NEW s \in Servers, Restart(s) PROVE TypeOK'
  <2>1. faults' \in 0 .. MaxFaults
    BY <1>6, FaultCounted DEF Restart
  <2>2. db' \in [Servers -> Seq(Requests)] /\ response' \in [Servers -> Messages]
    BY <1>6 DEF Restart, TypeOK, Messages
  <2>3. fwd' \in [Requests -> FwdState] /\ pc' \in [Requests -> PcState]
          /\ pushes' \in [Requests -> [Servers -> PushState]]
    BY <1>6 DEF Restart, TypeOK, FwdState, PcState, PushState
  <2>4. \A r \in Requests : pc'[r] \in {"push", "wait"} => pc[r] \in {"push", "wait"}
    BY <1>6 DEF Restart, TypeOK
  <2> QED BY <1>6, <2>1, <2>2, <2>3, <2>4 DEF Restart, TypeOK
<1> QED BY <1>1, <1>2, <1>3, <1>4, <1>5, <1>6 DEF Pushed

\* Every step keeps the types.
LEMMA TypeStep == TypeOK /\ Next => TypeOK'
BY OutsideTyped, CoordinatorTyped, ServerTyped DEF Next

-----------------------------------------------------------------------------
(* Copies. *)

\* Copies are databases.
LEMMA HeldTyped == TypeOK => Held \subseteq Seq(Requests)
BY DEF TypeOK, Held

\* The copies there are.
LEMMA HeldCopies ==
  /\ \A s \in Servers : db[s] \in Held
  /\ \A r \in Requests : snap[r] \in Held
BY DEF Held

\* Where a copy can come from.
LEMMA HeldParts ==
  ASSUME NEW H,
         \A s \in Servers : db'[s] \in H,
         \A r \in Requests : snap'[r] \in H
  PROVE  Held' \subseteq H
BY DEF Held

\* A step that makes no new database, and starts no write over, keeps the copies
\* in order.
LEMMA CopyingKeeps ==
  ASSUME Copies, Held' \subseteq Held \cup {<< >>},
         \A r \in Requests : pc'[r] \in {"idle", "commit"} => pc[r] \in {"idle", "commit"}
  PROVE  Copies'
<1>1. CopiesAgree'
  <2> SUFFICES ASSUME NEW d \in Held', NEW e \in Held' PROVE Agree(d, e)
    BY DEF CopiesAgree
  <2>1. CASE d = << >> \/ e = << >>
    BY <2>1, EmptyCopy
  <2>2. CASE d \in Held /\ e \in Held
    BY <2>2 DEF Copies, CopiesAgree
  <2> QED BY <2>1, <2>2
<1>2. CopiesGrounded'
  <2> SUFFICES ASSUME NEW d \in Held' PROVE Grounded(d)
    BY DEF CopiesGrounded
  <2> QED BY EmptyCopy DEF Copies, CopiesGrounded
<1>3. NotYetWritten'
  <2> SUFFICES ASSUME NEW r \in Requests, pc'[r] \in {"idle", "commit"}, NEW d \in Held'
               PROVE  Lacks(d, r)
    BY DEF NotYetWritten
  <2> QED BY EmptyCopy DEF Copies, NotYetWritten
<1> QED BY <1>1, <1>2, <1>3 DEF Copies

\* A commit makes one new database: that of the coordinator with a request at
\* its end that no copy has yet, and whose parent, if it has one, is there
\* (protocol_readyourwrite.c:30, 99).
LEMMA CommitCopies ==
  ASSUME TypeOK, Copies, NEW r \in Requests, Commit(r)
  PROVE  Copies'
<1> DEFINE c == db[0]
           a == Append(c, r)
<1>1. 0 \in Servers
  BY SizeAssumption DEF Servers
<1>2. pc \in [Requests -> PcState] /\ db \in [Servers -> Seq(Requests)] /\ pc[r] = "commit" /\ snap' = snap
  BY DEF Commit, TypeOK
<1>3. pc'[r] \notin {"idle", "commit"} /\ \A q \in Requests : q # r => pc'[q] = pc[q]
  BY <1>2 DEF Commit
<1>4. CASE UNCHANGED db
  <2>1. Held' = Held
    BY <1>2, <1>4 DEF Held
  <2> QED BY <1>3, <2>1, CopyingKeeps
<1>5. CASE db' # db
  <2>1. db' = [db EXCEPT ![0] = a] /\ (IsReply(r) => Parent[r] < Len(c))
    BY <1>5 DEF Commit, Accepts, ParentExists
  <2>2. c \in Seq(Requests) /\ c \in Held
    BY <1>1, <1>2, HeldCopies
  <2>3. Len(a) = Len(c) + 1 /\ a[Len(c) + 1] = r /\ Len(c) \in Nat
          /\ \A k \in 1 .. Len(c) : a[k] = c[k]
    BY <2>2
  <2> HIDE DEF a, c
  <2>4. Held' \subseteq Held \cup {a}
    <3>1. \A s \in Servers : db'[s] \in Held \cup {a}
      BY <1>1, <1>2, <2>1, HeldCopies
    <3>2. \A q \in Requests : snap'[q] \in Held \cup {a}
      BY <1>2, HeldCopies
    <3> QED BY <3>1, <3>2, HeldParts
  <2>5. \A d \in Held : d \in Seq(Requests) /\ Lacks(d, r)
    BY <1>2, HeldTyped DEF Copies, NotYetWritten
  <2>6. \A d \in Held : Agree(a, d) /\ Agree(d, a)
    <3> TAKE d \in Held
    <3>1. Agree(c, d) /\ Agree(d, c)
      BY <2>2 DEF Copies, CopiesAgree
    <3> QED BY <2>2, <2>5, <3>1, AppendAgrees DEF a
  <2>7. Agree(a, a)
    <3>1. Agree(c, c)
      BY <2>2 DEF Copies, CopiesAgree
    <3> QED BY <2>2, <2>5, <3>1, AppendAgreesWithItself DEF a
  <2>8. CopiesAgree'
    <3> SUFFICES ASSUME NEW d \in Held', NEW e \in Held' PROVE Agree(d, e)
      BY DEF CopiesAgree
    <3>1. d \in Held \cup {a} /\ e \in Held \cup {a}
      BY <2>4
    <3>2. CASE d \in Held /\ e \in Held
      BY <3>2 DEF Copies, CopiesAgree
    <3> QED BY <2>6, <2>7, <3>1, <3>2
  <2>9. Grounded(a)
    <3>1. Grounded(c)
      BY <2>2 DEF Copies, CopiesGrounded
    <3>2. ASSUME NEW k \in 1 .. Len(a), IsReply(a[k]) PROVE Parent[a[k]] + 1 < k
      <4>1. CASE k \in 1 .. Len(c)
        BY <2>3, <3>1, <3>2, <4>1 DEF Grounded
      <4>2. CASE k = Len(c) + 1
        BY <2>1, <2>3, <3>2, <4>2, RequestAssumption DEF IsReply, NoParent
      <4> QED BY <2>3, <4>1, <4>2
    <3> QED BY <3>2 DEF Grounded
  <2>10. CopiesGrounded'
    BY <2>4, <2>9 DEF Copies, CopiesGrounded
  <2>11. ASSUME NEW q \in Requests, pc'[q] \in {"idle", "commit"} PROVE Lacks(a, q)
    <3>1. q # r /\ Lacks(c, q)
      BY <1>3, <2>2, <2>11 DEF Copies, NotYetWritten
    <3> QED BY <2>3, <3>1 DEF Lacks
  <2>12. NotYetWritten'
    <3> SUFFICES ASSUME NEW q \in Requests, pc'[q] \in {"idle", "commit"}, NEW d \in Held'
                 PROVE  Lacks(d, q)
      BY DEF NotYetWritten
    <3>1. CASE d \in Held
      BY <1>3, <3>1 DEF Copies, NotYetWritten
    <3>2. CASE d = a
      BY <2>11, <3>2
    <3> QED BY <2>4, <3>1, <3>2
  <2> QED BY <2>8, <2>10, <2>12 DEF Copies
<1> QED BY <1>4, <1>5

-----------------------------------------------------------------------------
(* Frames. *)

\* Databases and snapshots stay, and no handler goes back to before its commit.
LEMMA SameCopies ==
  ASSUME Copies, UNCHANGED <<db, snap>>,
         \A r \in Requests : pc'[r] \in {"idle", "commit"} => pc[r] \in {"idle", "commit"}
  PROVE  Copies'
<1>1. Held' = Held
  BY DEF Held
<1> QED BY <1>1, CopyingKeeps

\* Nothing is started.
LEMMA SameStarts ==
  ASSUME Starts,
         \A r \in Requests : client'[r] = "idle" => client[r] = "idle",
         \A r \in Requests : fwd'[r] = "call" => fwd[r] = "call",
         \A r \in Requests : fwd[r] = "none" => fwd'[r] = "none",
         \A r \in Requests : pc[r] = "idle" => pc'[r] = "idle"
  PROVE  Starts'
<1>1. Unstarted'
  BY DEF Starts, Unstarted
<1>2. Unforwarded'
  BY DEF Starts, Unforwarded
<1> QED BY <1>1, <1>2 DEF Starts

\* No loop goes on, and no push is restored.
LEMMA SameLoops ==
  ASSUME Loops,
         \A r \in Requests : pc'[r] \in {"push", "wait", "success"} =>
           /\ pc[r] \in {"push", "wait", "success"} /\ next'[r] = next[r]
           /\ pc'[r] = "success" => pc[r] = "success",
         \A r \in Requests : taken[r] \subseteq taken'[r],
         \A r \in Requests, i \in Servers :
           pushes'[r][i] \in {"restored", "built"} => pushes[r][i] \in {"restored", "built"}
  PROVE  Loops'
<1>1. LoopTaken'
  BY DEF Loops, LoopTaken, FirstPush
<1>2. LoopOver'
  BY DEF Loops, LoopOver, LastPush
<1>3. RestoredTaken'
  BY DEF Loops, RestoredTaken
<1> QED BY <1>1, <1>2, <1>3 DEF Loops

-----------------------------------------------------------------------------
(* The steps. *)

Good == Copies /\ Starts /\ Loops

\* The client and the forwarding server.
LEMMA OutsideGood ==
  ASSUME TypeOK, Good, NEW r \in Requests,
         Send(r) \/ ClientFails(r) \/ Forwarder(r) \/ ForwardFails(r)
  PROVE  Good'
<1>1. /\ client \in [Requests -> ClientState] /\ fwd \in [Requests -> FwdState]
      /\ pc \in [Requests -> PcState]
  BY DEF TypeOK
<1>2. UNCHANGED <<db, snap, next, pushes, taken>>
  BY DEF Send, ClientFails, Forwarder, ForwardFails, Forward, ForwardError, ForwardSuccess, ForwardSend
<1>3. CASE Send(r)
  <2>1. pc[r] = "idle" /\ fwd[r] = "none" /\ client'[r] = "wait"
          /\ \A q \in Requests : q # r => client'[q] = client[q]
    BY <1>1, <1>3 DEF Send, Good, Starts, Unstarted, Unforwarded
  <2>2. \/ pc'[r] = "commit" /\ fwd' = fwd /\ \A q \in Requests : q # r => pc'[q] = pc[q]
        \/ pc' = pc /\ \A q \in Requests : q # r => fwd'[q] = fwd[q]
    BY <1>1, <1>3 DEF Send
  <2>3. Unstarted' /\ Unforwarded'
    BY <2>1, <2>2 DEF Good, Starts, Unstarted, Unforwarded
  <2>4. \A q \in Requests : pc'[q] \in {"idle", "commit"} \/ pc'[q] = pc[q]
    BY <2>2
  <2>5. Copies'
    BY <1>2, <2>1, <2>2, SameCopies DEF Good
  <2>6. Loops'
    BY <1>2, <2>4, SameLoops DEF Good
  <2> QED BY <2>3, <2>5, <2>6 DEF Good, Starts
<1>4. CASE Forward(r)
  <2>1. fwd[r] = "call" /\ fwd'[r] = "wait" /\ pc'[r] = "commit" /\ client' = client
          /\ \A q \in Requests : q # r => fwd'[q] = fwd[q] /\ pc'[q] = pc[q]
    BY <1>1, <1>4 DEF Forward
  <2>2. pc[r] = "idle" /\ client[r] # "idle"
    BY <2>1 DEF Good, Starts, Unstarted, Unforwarded
  <2>3. Unstarted' /\ Unforwarded'
    BY <2>1, <2>2 DEF Good, Starts, Unstarted, Unforwarded
  <2>4. Copies'
    BY <1>2, <2>1, <2>2, SameCopies DEF Good
  <2>5. Loops'
    BY <1>2, <2>1, SameLoops DEF Good
  <2> QED BY <2>3, <2>4, <2>5 DEF Good, Starts
<1>5. CASE ClientFails(r) \/ ForwardError(r) \/ ForwardSuccess(r) \/ ForwardSend(r) \/ ForwardFails(r)
  <2>1. pc' = pc
    BY <1>5 DEF ClientFails, ForwardError, ForwardSuccess, ForwardSend, ForwardFails
  <2>2. \A q \in Requests : client'[q] = "idle" => client[q] = "idle"
    BY <1>1, <1>5 DEF ClientFails, ForwardError, ForwardSuccess, ForwardSend, ForwardFails, Outcome
  <2>3. \A q \in Requests : (fwd'[q] = "call" => fwd[q] = "call") /\ (fwd[q] = "none" => fwd'[q] = "none")
    BY <1>1, <1>5 DEF ClientFails, ForwardError, ForwardSuccess, ForwardSend, ForwardFails
  <2>4. Starts'
    BY <2>1, <2>2, <2>3, SameStarts DEF Good
  <2>5. Copies' /\ Loops'
    BY <1>2, <2>1, SameCopies, SameLoops DEF Good
  <2> QED BY <2>4, <2>5 DEF Good
<1> QED BY <1>3, <1>4, <1>5 DEF Forwarder

\* The coordinator's handlers.
LEMMA CoordinatorGood ==
  ASSUME TypeOK, Good, NEW r \in Requests, Coordinator(r) \/ PushFails(r)
  PROVE  Good'
<1>1. /\ client \in [Requests -> ClientState] /\ fwd \in [Requests -> FwdState]
      /\ pc \in [Requests -> PcState] /\ next \in [Requests -> 0 .. N]
      /\ snap \in [Requests -> Seq(Requests)] /\ 0 \in Servers
  BY SizeAssumption DEF TypeOK, Servers
<1>2. CASE Commit(r)
  <2>1. UNCHANGED <<client, fwd, next, pushes, taken>> /\ pc[r] = "commit"
          /\ pc'[r] \in {"snapshot", "error"} /\ \A q \in Requests : q # r => pc'[q] = pc[q]
    BY <1>1, <1>2 DEF Commit
  <2>2. Copies'
    BY <1>2, CommitCopies DEF Good
  <2>3. Starts' /\ Loops'
    BY <2>1, SameStarts, SameLoops DEF Good
  <2> QED BY <2>2, <2>3 DEF Good
<1>3. CASE Snapshot(r)
  <2> DEFINE i == FirstPush(r)
             p == PushLoop(r, i)
  <2>1. i \in 0 .. N /\ p \in {"push", "success"} /\ (p = "success" => LastPush(r) < i)
    BY LoopRange
  <2>2. pc[r] = "snapshot" /\ snap' = [snap EXCEPT ![r] = db[0]] /\ next' = [next EXCEPT ![r] = i]
          /\ pc' = [pc EXCEPT ![r] = p] /\ UNCHANGED <<db, client, fwd, pushes, taken>>
    BY <1>3 DEF Snapshot
  <2> HIDE DEF p
  <2>3. pc'[r] = p /\ next'[r] = i /\ \A q \in Requests : q # r => pc'[q] = pc[q] /\ next'[q] = next[q]
    BY <1>1, <2>2
  <2>4. Held' \subseteq Held \cup {<< >>}
    <3>1. \A q \in Requests : snap'[q] \in {snap[q], db[0]}
      BY <1>1, <2>2
    <3>2. \A q \in Requests : snap'[q] \in Held \cup {<< >>}
      BY <1>1, <3>1, HeldCopies
    <3>3. \A s \in Servers : db'[s] \in Held \cup {<< >>}
      BY <2>2, HeldCopies
    <3> QED BY <3>2, <3>3, HeldParts
  <2>5. Copies'
    BY <2>1, <2>3, <2>4, CopyingKeeps DEF Good
  <2>6. Starts'
    BY <2>2, <2>3, SameStarts DEF Good
  <2>7. LoopTaken'
    <3> SUFFICES ASSUME NEW q \in Requests, pc'[q] \in {"push", "wait", "success"}, NEW j \in Servers,
                        FirstPush(q) <= j, j < next'[q]
                 PROVE  j \in taken'[q]
      BY DEF LoopTaken, FirstPush
    <3>1. CASE q = r
      BY <2>1, <2>3, <3>1 DEF Servers
    <3>2. CASE q # r
      BY <2>2, <2>3, <3>2 DEF Good, Loops, LoopTaken
    <3> QED BY <3>1, <3>2
  <2>8. LoopOver'
    <3> SUFFICES ASSUME NEW q \in Requests, pc'[q] = "success" PROVE LastPush(q) < next'[q]
      BY DEF LoopOver, LastPush
    <3> QED BY <2>1, <2>3 DEF Good, Loops, LoopOver
  <2>9. RestoredTaken'
    BY <2>2 DEF Good, Loops, RestoredTaken
  <2> QED BY <2>5, <2>6, <2>7, <2>8, <2>9 DEF Good, Loops
<1>4. CASE Push(r)
  <2>1. pc[r] = "push" /\ pc' = [pc EXCEPT ![r] = "wait"] /\ pushes' = [pushes EXCEPT ![r][next[r]] = "sent"]
          /\ UNCHANGED <<db, client, fwd, snap, next, taken>>
    BY <1>4 DEF Push
  <2>2. next[r] \in Servers /\ pushes \in [Requests -> [Servers -> PushState]]
    BY <2>1 DEF TypeOK
  <2>3. \A q \in Requests, i \in Servers :
          pushes'[q][i] \in {"restored", "built"} => pushes[q][i] \in {"restored", "built"}
    BY <2>1, <2>2
  <2>4. pc'[r] = "wait" /\ \A q \in Requests : q # r => pc'[q] = pc[q]
    BY <1>1, <2>1
  <2> QED BY <2>1, <2>3, <2>4, SameCopies, SameStarts, SameLoops DEF Good
<1>5. CASE Build(r)
  <2>1. pc[r] \in {"success", "error"} /\ pc' = [pc EXCEPT ![r] = "send"]
          /\ UNCHANGED <<db, client, fwd, snap, next, pushes, taken>>
    BY <1>5 DEF Build
  <2>2. pc'[r] = "send" /\ \A q \in Requests : q # r => pc'[q] = pc[q]
    BY <1>1, <2>1
  <2> QED BY <2>1, <2>2, SameCopies, SameStarts, SameLoops DEF Good
<1>6. CASE SendResponse(r)
  <2>1. pc[r] = "send" /\ pc' = [pc EXCEPT ![r] = "done"] /\ UNCHANGED <<db, snap, next, pushes, taken>>
    BY <1>6 DEF SendResponse
  <2>2. pc'[r] = "done" /\ \A q \in Requests : q # r => pc'[q] = pc[q]
    BY <1>1, <2>1
  <2>3. \A q \in Requests : client'[q] = "idle" => client[q] = "idle"
    BY <1>1, <1>6 DEF SendResponse, Outcome
  <2>4. \A q \in Requests : (fwd'[q] = "call" => fwd[q] = "call") /\ (fwd[q] = "none" => fwd'[q] = "none")
    BY <1>1, <1>6 DEF SendResponse, Outcome
  <2>5. Starts'
    BY <2>1, <2>2, <2>3, <2>4, SameStarts DEF Good
  <2> QED BY <2>1, <2>2, <2>5, SameCopies, SameLoops DEF Good
<1>7. CASE PushFails(r)
  <2>1. pc[r] \in {"push", "wait"} /\ PushReturns(r, TRUE)
          /\ UNCHANGED <<db, client, fwd, snap, pushes, taken>>
    BY <1>7 DEF PushFails
  <2>2. pc'[r] = "error" /\ \A q \in Requests : q # r => pc'[q] = pc[q] /\ next'[q] = next[q]
    BY <2>1, PushReturned
  <2> QED BY <2>1, <2>2, SameCopies, SameStarts, SameLoops DEF Good
<1> QED BY <1>2, <1>3, <1>4, <1>5, <1>6, <1>7 DEF Coordinator

\* The DB-PUSH handlers (msg_handler.c:160-182).
LEMMA PushedGood ==
  ASSUME TypeOK, Good, NEW r \in Requests, NEW i \in Servers, Pushed(r, i) \/ PushLost(r, i)
  PROVE  Good'
<1>1. /\ pushes \in [Requests -> [Servers -> PushState]] /\ taken \in [Requests -> SUBSET Servers]
      /\ db \in [Servers -> Seq(Requests)]
  BY DEF TypeOK
<1>2. CASE Restore(r, i)
  <2>1. db' = [db EXCEPT ![i] = snap[r]] /\ taken' = [taken EXCEPT ![r] = taken[r] \cup {i}]
          /\ pushes' = [pushes EXCEPT ![r][i] = "restored"] /\ UNCHANGED <<client, fwd, pc, snap, next>>
    BY <1>2 DEF Restore
  <2>2. Held' \subseteq Held \cup {<< >>}
    <3>1. \A s \in Servers : db'[s] \in {db[s], snap[r]}
      BY <1>1, <2>1
    <3>2. \A s \in Servers : db'[s] \in Held \cup {<< >>}
      BY <3>1, HeldCopies
    <3>3. \A q \in Requests : snap'[q] \in Held \cup {<< >>}
      BY <2>1, HeldCopies
    <3> QED BY <3>2, <3>3, HeldParts
  <2>3. Copies'
    BY <2>1, <2>2, CopyingKeeps DEF Good
  <2>4. Starts'
    BY <2>1, SameStarts DEF Good
  <2>5. \A q \in Requests : taken[q] \subseteq taken'[q]
    BY <1>1, <2>1
  <2>6. LoopTaken'
    BY <2>1, <2>5 DEF Good, Loops, LoopTaken, FirstPush
  <2>7. LoopOver'
    BY <2>1 DEF Good, Loops, LoopOver, LastPush
  <2>8. RestoredTaken'
    <3> SUFFICES ASSUME NEW q \in Requests, NEW j \in Servers, pushes'[q][j] \in {"restored", "built"}
                 PROVE  j \in taken'[q]
      BY DEF RestoredTaken
    <3>1. CASE q = r /\ j = i
      BY <1>1, <2>1, <3>1
    <3>2. CASE ~(q = r /\ j = i)
      <4>1. pushes'[q][j] = pushes[q][j]
        BY <1>1, <2>1, <3>2
      <4> QED BY <2>5, <4>1 DEF Good, Loops, RestoredTaken
    <3> QED BY <3>1, <3>2
  <2> QED BY <2>3, <2>4, <2>6, <2>7, <2>8 DEF Good, Loops
<1>3. CASE BuildAck(r, i)
  <2>1. pushes[r][i] = "restored" /\ pushes' = [pushes EXCEPT ![r][i] = "built"]
          /\ UNCHANGED <<db, client, fwd, pc, snap, next, taken>>
    BY <1>3 DEF BuildAck
  <2>2. \A q \in Requests, j \in Servers :
          pushes'[q][j] \in {"restored", "built"} => pushes[q][j] \in {"restored", "built"}
    BY <1>1, <2>1
  <2> QED BY <2>1, <2>2, SameCopies, SameStarts, SameLoops DEF Good
<1>4. CASE SendAck(r, i)
  <2>1. pushes[r][i] = "built" /\ pushes' = [pushes EXCEPT ![r][i] = "none"]
          /\ UNCHANGED <<db, client, fwd, snap, taken>>
    BY <1>4 DEF SendAck
  <2>2. \A q \in Requests, j \in Servers :
          pushes'[q][j] \in {"restored", "built"} => pushes[q][j] \in {"restored", "built"}
    BY <1>1, <2>1
  <2>3. CASE UNCHANGED <<pc, next>>
    BY <2>1, <2>2, <2>3, SameCopies, SameStarts, SameLoops DEF Good
  <2>4. CASE pc[r] = "wait" /\ next[r] = i /\ PushReturns(r, response[i] # "DbPushResponse")
    <3>1. /\ \A q \in Requests : q # r => pc'[q] = pc[q] /\ next'[q] = next[q]
          /\ pc'[r] \in {"push", "success", "error"}
          /\ pc'[r] = "success" => LastPush(r) < next'[r]
          /\ pc'[r] # "error" => next'[r] = next[r] + 1
      BY <2>4, PushReturned
    <3>2. Copies' /\ Starts'
      BY <2>1, <2>4, <3>1, SameCopies, SameStarts DEF Good
    <3>3. i \in taken[r]
      BY <2>1 DEF Good, Loops, RestoredTaken
    <3>4. LoopTaken'
      <4> SUFFICES ASSUME NEW q \in Requests, pc'[q] \in {"push", "wait", "success"}, NEW j \in Servers,
                          FirstPush(q) <= j, j < next'[q]
                   PROVE  j \in taken'[q]
        BY DEF LoopTaken, FirstPush
      <4>1. CASE q = r
        <5>1. j < i + 1 /\ j \in Int /\ i \in Int
          BY <2>4, <3>1, <4>1 DEF Servers
        <5>2. CASE j = i
          BY <2>1, <3>3, <4>1, <5>2
        <5>3. CASE j < i
          BY <2>1, <2>4, <4>1, <5>3 DEF Good, Loops, LoopTaken
        <5> QED BY <5>1, <5>2, <5>3
      <4>2. CASE q # r
        BY <2>1, <3>1, <4>2 DEF Good, Loops, LoopTaken
      <4> QED BY <4>1, <4>2
    <3>5. LoopOver'
      <4> SUFFICES ASSUME NEW q \in Requests, pc'[q] = "success" PROVE LastPush(q) < next'[q]
        BY DEF LoopOver, LastPush
      <4> QED BY <3>1 DEF Good, Loops, LoopOver
    <3>6. RestoredTaken'
      BY <2>1, <2>2 DEF Good, Loops, RestoredTaken
    <3> QED BY <3>2, <3>4, <3>5, <3>6 DEF Good, Loops
  <2> QED BY <1>4, <2>3, <2>4 DEF SendAck
<1>5. CASE PushLost(r, i)
  <2>1. pushes' = [pushes EXCEPT ![r][i] = "none"] /\ UNCHANGED <<db, client, fwd, pc, snap, next, taken>>
    BY <1>5 DEF PushLost
  <2>2. \A q \in Requests, j \in Servers :
          pushes'[q][j] \in {"restored", "built"} => pushes[q][j] \in {"restored", "built"}
    BY <1>1, <2>1
  <2> QED BY <2>1, <2>2, SameCopies, SameStarts, SameLoops DEF Good
<1> QED BY <1>2, <1>3, <1>4, <1>5 DEF Pushed

\* A restart drops a copy and ends handlers.
LEMMA RestartGood ==
  ASSUME TypeOK, Good, NEW s \in Servers, Restart(s)
  PROVE  Good'
<1>1. UNCHANGED <<client, snap, next, taken>> /\ db' = [db EXCEPT ![s] = << >>]
  BY DEF Restart
<1>2. \A r \in Requests : /\ fwd'[r] = "call" => fwd[r] = "call"
                          /\ fwd[r] = "none" => fwd'[r] = "none"
  BY DEF Restart, TypeOK
<1>3. \A r \in Requests : pc'[r] \in {pc[r], "done"} /\ (pc[r] = "idle" => pc'[r] = "idle")
  BY DEF Restart, TypeOK
<1>4. \A r \in Requests, i \in Servers : pushes'[r][i] \in {pushes[r][i], "none"}
  BY DEF Restart, TypeOK
<1>5. Held' \subseteq Held \cup {<< >>}
  <2>1. \A x \in Servers : db'[x] \in Held \cup {<< >>}
    BY <1>1, HeldCopies DEF TypeOK
  <2>2. \A r \in Requests : snap'[r] \in Held \cup {<< >>}
    BY <1>1, HeldCopies
  <2> QED BY <2>1, <2>2, HeldParts
<1>6. Copies'
  BY <1>3, <1>5, CopyingKeeps DEF Good
<1>7. Starts'
  BY <1>1, <1>2, <1>3, SameStarts DEF Good
<1>8. Loops'
  BY <1>1, <1>3, <1>4, SameLoops DEF Good
<1> QED BY <1>6, <1>7, <1>8 DEF Good

-----------------------------------------------------------------------------
(* The theorems. *)

\* All databases start empty.
LEMMA InitGood == Init => IInv
<1> SUFFICES ASSUME Init PROVE IInv
  OBVIOUS
<1>1. << >> \in Seq(Requests) /\ 0 \in 0 .. N /\ 0 \in 0 .. MaxFaults
  BY SizeAssumption
<1>2. TypeOK
  BY <1>1 DEF Init, TypeOK, Messages, ClientState, FwdState, PcState, PushState
<1>3. \A d \in Held : d = << >>
  BY DEF Init, Held
<1>4. CopiesAgree /\ CopiesGrounded /\ NotYetWritten
  BY <1>3, EmptyCopy DEF CopiesAgree, CopiesGrounded, NotYetWritten
<1>5. Unstarted /\ Unforwarded /\ LoopTaken /\ LoopOver /\ RestoredTaken
  BY DEF Init, Unstarted, Unforwarded, LoopTaken, LoopOver, RestoredTaken
<1> QED BY <1>2, <1>4, <1>5 DEF IInv, Copies, Starts, Loops

\* Every step keeps the invariant.
LEMMA NextGood == IInv /\ [Next]_vars => IInv'
<1> SUFFICES ASSUME IInv, [Next]_vars PROVE IInv'
  OBVIOUS
<1>1. TypeOK /\ Good
  BY DEF IInv, Good
<1>2. CASE UNCHANGED vars
  <2>1. TypeOK'
    BY <1>1, <1>2 DEF TypeOK, vars
  <2>2. Good'
    BY <1>1, <1>2, SameCopies, SameStarts, SameLoops DEF Good, vars
  <2> QED BY <2>1, <2>2 DEF IInv, Good
<1>3. CASE Next
  <2>1. ASSUME NEW r \in Requests, Send(r) \/ ClientFails(r) \/ Forwarder(r) \/ ForwardFails(r)
        PROVE  Good'
    BY <1>1, <2>1, OutsideGood
  <2>2. ASSUME NEW r \in Requests, Coordinator(r) \/ PushFails(r) PROVE Good'
    BY <1>1, <2>2, CoordinatorGood
  <2>3. ASSUME NEW r \in Requests, NEW i \in Servers, Pushed(r, i) \/ PushLost(r, i) PROVE Good'
    BY <1>1, <2>3, PushedGood
  <2>4. ASSUME NEW s \in Servers, Read(s) PROVE Good'
    BY <1>1, <2>4, SameCopies, SameStarts, SameLoops DEF Read, Good
  <2>5. ASSUME NEW s \in Servers, Restart(s) PROVE Good'
    BY <1>1, <2>5, RestartGood
  <2>6. Good'
    BY <1>3, <2>1, <2>2, <2>3, <2>4, <2>5 DEF Next
  <2> QED BY <1>1, <1>3, <2>6, TypeStep DEF IInv, Good
<1> QED BY <1>2, <1>3

\* The invariant holds throughout.
THEOREM ReadYourWriteGood == Spec => []IInv
BY InitGood, NextGood, PTL DEF Spec

\* Type correctness, for every number of servers and requests; the loop counter
\* of a pushing handler names a server.
THEOREM TypeCorrect == Spec => []TypeOK
<1>1. IInv => TypeOK
  BY DEF IInv
<1> QED BY <1>1, ReadYourWriteGood, PTL

\* Databases that have an article in common agree on its id and on all that came
\* before it, although pushes take databases back to older snapshots
\* (protocol_readyourwrite.c:40-42, 122-124).
THEOREM SharedHistoryCorrect == Spec => []SharedHistory
<1>1. IInv => SharedHistory
  BY HeldCopies DEF IInv, Copies, CopiesAgree, SharedHistory
<1> QED BY <1>1, ReadYourWriteGood, PTL

\* No server lists a reply without an article of the id that it answers
\* (protocol_readyourwrite.c:99).
THEOREM RepliesCorrect == Spec => []RepliesAfterParents
<1>1. IInv => RepliesAfterParents
  BY HeldCopies DEF IInv, Copies, CopiesGrounded, Grounded, RepliesAfterParents
<1> QED BY <1>1, ReadYourWriteGood, PTL

\* A write is successful to the coordinator only when every server of its loop
\* has taken over its snapshot (protocol_readyourwrite.c:40-48, 122-130).
THEOREM SuccessCorrect == Spec => []SuccessIsTaken
<1>1. IInv => SuccessIsTaken
  <2> SUFFICES ASSUME IInv, NEW r \in Requests, pc[r] = "success", NEW i \in FirstPush(r) .. LastPush(r)
               PROVE  i \in taken[r]
    BY DEF SuccessIsTaken
  <2>1. LastPush(r) < next[r] /\ next[r] \in 0 .. N
    BY DEF IInv, Loops, LoopOver, TypeOK
  <2>2. FirstPush(r) \in 0 .. N /\ LastPush(r) \in Int /\ LastPush(r) < N
    BY LoopRange
  <2>3. i \in Servers /\ FirstPush(r) <= i /\ i < next[r]
    BY <2>1, <2>2, SizeAssumption DEF Servers
  <2> QED BY <2>3 DEF IInv, Loops, LoopTaken
<1> QED BY <1>1, ReadYourWriteGood, PTL
=============================================================================
