--------------------------- MODULE TrackerProofs -----------------------------
(***************************************************************************)
(* Proofs about Tracker for every set of peers and files, every size of    *)
(* the entry array and every timeout.                                      *)
(*                                                                         *)
(* The inductive invariant has two halves that no step mixes: the entry    *)
(* array (TrackerInv), which only db_AddPeer, db_KeepAlive, the sweep of   *)
(* the timeout monitor, the clock and a restart touch, and the types of    *)
(* everything else (PeersInv).                                             *)
(***************************************************************************)
EXTENDS Tracker, FiniteSetTheorems, WellFoundedInduction, TLAPS

TrackerInv ==
  /\ db \in [Slots -> Entry] /\ peer_count \in 0 .. MaxPeers
  /\ OneEntryPerPeer
  /\ CountIsActive

States == {"sleep", "ping", "broadcast", "update"}

PeersInv ==
  /\ lag \in -1 .. MaxLag
  /\ up \subseteq Peers
  /\ folder \in [Peers -> SUBSET Files]
  /\ prev \in [Peers -> SUBSET Files] /\ curr \in [Peers -> SUBSET Files]
  /\ thread \in [Peers -> [Threads -> States]]
  /\ net \subseteq Request
  /\ changes \in 0 .. MaxChanges /\ faults \in 0 .. MaxFaults

IInv == TrackerInv /\ PeersInv

\* No entry goes from one peer to another.
Keeps == \A i \in Slots : db[i].active /\ db'[i].active => db'[i].peer = db[i].peer

-----------------------------------------------------------------------------
(* The slots. *)

\* The forward scans of database.c:99 and database.c:124 stop at a slot they
\* look for, if there is one.
LEMMA FirstInSet ==
  ASSUME NEW S \in SUBSET Slots, S # {}
  PROVE  First(S) \in S
<1> DEFINE R == OpToRel(<, Nat)
<1>1. S \subseteq Nat
  BY SizeAssumption DEF Slots
<1>2. \A x, y \in Nat : x < y => <<x, y>> \in R
  BY DEF OpToRel
<1> HIDE DEF R
<1>3. \E x \in S : \A y \in S : ~ (<<y, x>> \in R)
  BY <1>1, NatLessThanWellFounded, WFMin DEF R
<1>4. PICK x \in S : \A y \in S : ~ (y < x)
  BY <1>1, <1>2, <1>3
<1>5. \A y \in S : x <= y
  BY <1>1, <1>4
<1> QED
  BY <1>5, Zenon DEF First

\* A set of slots is finite and no larger than the array.
LEMMA SlotsFinite ==
  ASSUME NEW S \in SUBSET Slots
  PROVE  IsFiniteSet(S) /\ Cardinality(S) \in 0 .. MaxPeers
<1>1. IsFiniteSet(Slots) /\ Cardinality(Slots) = MaxPeers
  BY FS_Interval, SizeAssumption DEF Slots
<1>2. IsFiniteSet(S) /\ Cardinality(S) <= Cardinality(Slots)
  BY <1>1, FS_Subset
<1>3. Cardinality(S) \in Nat
  BY <1>2, FS_CardinalityType
<1> QED
  BY <1>1, <1>2, <1>3, SizeAssumption

-----------------------------------------------------------------------------
(* The operations of the database. *)

\* A step that leaves every entry active or inactive, and with its peer, keeps
\* the invariant of the array.
LEMMA SameEntries ==
  ASSUME TrackerInv, db' \in [Slots -> Entry], UNCHANGED peer_count,
         \A i \in Slots : db'[i].active = db[i].active /\ db'[i].peer = db[i].peer
  PROVE  TrackerInv' /\ Keeps /\ Active' = Active
<1>1. Active' = Active
  BY DEF Active
<1>2. OneEntryPerPeer'
  BY <1>1 DEF TrackerInv, OneEntryPerPeer, Active
<1> QED
  BY <1>1, <1>2 DEF TrackerInv, CountIsActive, Keeps

\* Fields of an entry that was overwritten in part.
LEMMA EntryFields ==
  ASSUME NEW e \in Entry, NEW fs \in SUBSET Files
  PROVE  /\ [e EXCEPT !.age = 0] \in Entry
         /\ [e EXCEPT !.age = 0].active = e.active /\ [e EXCEPT !.age = 0].peer = e.peer
         /\ [[e EXCEPT !.files = fs] EXCEPT !.age = 0] \in Entry
         /\ [[e EXCEPT !.files = fs] EXCEPT !.age = 0].active = e.active
         /\ [[e EXCEPT !.files = fs] EXCEPT !.age = 0].peer = e.peer
<1>1. 0 \in 0 .. MaxAge
  BY SizeAssumption DEF MaxAge
<1> QED
  BY <1>1 DEF Entry

\* A keep-alive changes a timestamp only (database.c:156-189).
LEMMA KeepAliveStep ==
  ASSUME TrackerInv, NEW p \in Peers, db_KeepAlive(p)
  PROVE  TrackerInv' /\ Keeps
<1>1. CASE ~Registered(p)
  <2>1. db' = db /\ UNCHANGED peer_count
    BY <1>1 DEF db_KeepAlive, tracker
  <2> QED
    BY <2>1, SameEntries DEF TrackerInv
<1>2. CASE Registered(p)
  <2> DEFINE s == First(EntriesOf(p))
  <2>1. EntriesOf(p) \in SUBSET Slots /\ EntriesOf(p) # {}
    BY <1>2 DEF Registered, EntriesOf, Active
  <2>2. s \in Slots
    BY <2>1, FirstInSet
  <2>3. db' = [db EXCEPT ![s].age = 0] /\ UNCHANGED peer_count
    BY <1>2 DEF db_KeepAlive
  <2> HIDE DEF s
  <2>4. db[s] \in Entry /\ db \in [Slots -> Entry]
    BY <2>2 DEF TrackerInv
  <2>5. db' = [db EXCEPT ![s] = [db[s] EXCEPT !.age = 0]]
    BY <2>3
  <2>6. /\ db' \in [Slots -> Entry]
        /\ \A i \in Slots : db'[i].active = db[i].active /\ db'[i].peer = db[i].peer
    BY <2>2, <2>4, <2>5, EntryFields
  <2> QED
    BY <2>3, <2>6, SameEntries
<1> QED
  BY <1>1, <1>2

\* A broadcast updates the peer's entry, or adds one if there is none and a
\* slot is free (database.c:92-153).
LEMMA AddPeerStep ==
  ASSUME TrackerInv, NEW p \in Peers, NEW fs \in SUBSET Files, db_AddPeer(p, fs)
  PROVE  TrackerInv' /\ Keeps
<1>1. CASE Registered(p)
  <2> DEFINE s == First(EntriesOf(p))
  <2>1. EntriesOf(p) \in SUBSET Slots /\ EntriesOf(p) # {}
    BY <1>1 DEF Registered, EntriesOf, Active
  <2>2. s \in Slots
    BY <2>1, FirstInSet
  <2>3. db' = [db EXCEPT ![s].files = fs, ![s].age = 0] /\ UNCHANGED peer_count
    BY <1>1 DEF db_AddPeer
  <2> HIDE DEF s
  <2>4. db[s] \in Entry /\ db \in [Slots -> Entry]
    BY <2>2 DEF TrackerInv
  <2> DEFINE e == [[db[s] EXCEPT !.files = fs] EXCEPT !.age = 0]
  <2>5. db' = [i \in Slots |-> IF i = s THEN e ELSE db[i]]
    <3> DEFINE d == [db EXCEPT ![s].files = fs]
    <3>1. db' = [d EXCEPT ![s].age = 0]
      BY <2>3
    <3>2. d[s] = [db[s] EXCEPT !.files = fs] /\ DOMAIN d = Slots /\ \A i \in Slots \ {s} : d[i] = db[i]
      BY <2>2, <2>4
    <3> HIDE DEF d
    <3>3. db' = [i \in Slots |-> IF i = s THEN [d[s] EXCEPT !.age = 0] ELSE d[i]]
      BY <2>2, <3>1, <3>2
    <3> QED
      BY <3>2, <3>3
  <2>e. e \in Entry /\ e.active = db[s].active /\ e.peer = db[s].peer
    BY <2>4, EntryFields
  <2> HIDE DEF e
  <2>6. /\ db' \in [Slots -> Entry]
        /\ \A i \in Slots : db'[i].active = db[i].active /\ db'[i].peer = db[i].peer
    BY <2>2, <2>4, <2>5, <2>e
  <2> QED
    BY <2>3, <2>6, SameEntries
<1>2. CASE ~Registered(p) /\ Slots \ Active # {}
  <2> DEFINE s == First(Slots \ Active)
             e == [active |-> TRUE, peer |-> p, files |-> fs, age |-> 0]
  <2>1. s \in Slots /\ s \notin Active
    BY <1>2, FirstInSet
  <2>2. db' = [db EXCEPT ![s] = e] /\ peer_count' = peer_count + 1
    BY <1>2 DEF db_AddPeer
  <2>3. e \in Entry /\ e.active /\ e.peer = p
    <3>1. 0 \in 0 .. MaxAge
      BY SizeAssumption DEF MaxAge
    <3> QED
      BY <3>1 DEF Entry
  <2> HIDE DEF s, e
  <2>4. /\ db' \in [Slots -> Entry]
        /\ db'[s].active /\ db'[s].peer = p
        /\ \A i \in Slots \ {s} : db'[i] = db[i]
    BY <2>1, <2>2, <2>3 DEF TrackerInv
  <2>5. Active' = Active \cup {s}
    BY <2>1, <2>4 DEF Active
  <2>6. \A i \in Active : db[i].peer # p /\ i \in Slots \ {s}
    BY <1>2, <2>1 DEF Registered, EntriesOf, Active
  <2>7. OneEntryPerPeer'
    BY <2>4, <2>5, <2>6 DEF TrackerInv, OneEntryPerPeer
  <2>8. peer_count' = Cardinality(Active') /\ peer_count' \in 0 .. MaxPeers
    <3>1. IsFiniteSet(Active) /\ Cardinality(Active) \in Nat
      BY SlotsFinite DEF Active
    <3>2. Cardinality(Active \cup {s}) = Cardinality(Active) + 1
      BY <2>1, <3>1, FS_AddElement
    <3>3. Active' \in SUBSET Slots
      BY <2>1, <2>5 DEF Active
    <3>4. Cardinality(Active') \in 0 .. MaxPeers
      BY <3>3, SlotsFinite
    <3> QED
      BY <2>2, <2>5, <3>2, <3>4 DEF TrackerInv, CountIsActive
  <2>9. Keeps
    BY <2>1, <2>4 DEF Keeps, Active
  <2> QED
    BY <2>4, <2>7, <2>8, <2>9 DEF TrackerInv, CountIsActive
<1>3. CASE ~Registered(p) /\ Slots \ Active = {}
  <2>1. db' = db /\ UNCHANGED peer_count
    BY <1>3 DEF db_AddPeer, tracker
  <2> QED
    BY <2>1, SameEntries DEF TrackerInv
<1> QED
  BY <1>1, <1>2, <1>3

\* The sweep takes expired entries out of the array and of the count
\* (database.c:43-52).
LEMMA SweepStep ==
  ASSUME TrackerInv, Sweep
  PROVE  TrackerInv' /\ Keeps
<1> DEFINE X == {i \in Slots : Expired(db[i])}
           cleared(i) == IF Expired(db[i]) THEN [db[i] EXCEPT !.active = FALSE] ELSE db[i]
<1>1. db' = [i \in Slots |-> cleared(i)] /\ peer_count' = peer_count - Cardinality(X)
  BY DEF Sweep
<1>2. \A i \in Slots : /\ cleared(i) \in Entry /\ cleared(i).peer = db[i].peer
                       /\ cleared(i).active = (db[i].active /\ i \notin X)
  <2> SUFFICES ASSUME NEW i \in Slots
               PROVE  /\ cleared(i) \in Entry /\ cleared(i).peer = db[i].peer
                      /\ cleared(i).active = (db[i].active /\ i \notin X)
    OBVIOUS
  <2>1. db[i] \in Entry
    BY DEF TrackerInv
  <2> QED
    BY <2>1 DEF Entry
<1> HIDE DEF cleared
<1>3. /\ db' \in [Slots -> Entry]
      /\ \A i \in Slots : db'[i].peer = db[i].peer /\ db'[i].active = (db[i].active /\ i \notin X)
  BY <1>1, <1>2
<1>4. X \in SUBSET Active /\ X \in SUBSET Slots
  BY DEF Expired, Active
<1> HIDE DEF X
<1>5. Active' = Active \ X
  BY <1>3 DEF Active
<1>6. OneEntryPerPeer' /\ Keeps
  BY <1>3, <1>5 DEF TrackerInv, OneEntryPerPeer, Active, Keeps
<1>7. peer_count' = Cardinality(Active')
  <2>1. IsFiniteSet(Active) /\ IsFiniteSet(X)
    BY <1>4, SlotsFinite DEF Active
  <2>2. Cardinality(Active \ X) = Cardinality(Active) - Cardinality(Active \cap X)
    BY <2>1, FS_Difference
  <2>3. Active \cap X = X
    BY <1>4
  <2> QED
    BY <1>1, <1>5, <2>2, <2>3 DEF TrackerInv, CountIsActive
<1>8. Cardinality(Active') \in 0 .. MaxPeers
  <2>1. Active' \in SUBSET Slots
    BY <1>5 DEF Active
  <2> QED
    BY <2>1, SlotsFinite
<1> QED
  BY <1>3, <1>6, <1>7, <1>8 DEF TrackerInv, CountIsActive

\* Time makes entries older.
LEMMA TickStep ==
  ASSUME TrackerInv, Tick
  PROVE  TrackerInv' /\ Keeps
<1> DEFINE older(i) == [db[i] EXCEPT !.age = IF db[i].active /\ @ < MaxAge THEN @ + 1 ELSE @]
<1>1. db' = [i \in Slots |-> older(i)] /\ UNCHANGED peer_count
  BY DEF Tick
<1>2. \A i \in Slots : older(i) \in Entry /\ older(i).active = db[i].active /\ older(i).peer = db[i].peer
  <2> SUFFICES ASSUME NEW i \in Slots
               PROVE  older(i) \in Entry /\ older(i).active = db[i].active /\ older(i).peer = db[i].peer
    OBVIOUS
  <2>1. db[i] \in Entry /\ MaxAge \in Nat
    BY SizeAssumption DEF TrackerInv, MaxAge
  <2> QED
    BY <2>1 DEF Entry
<1> HIDE DEF older
<1>3. /\ db' \in [Slots -> Entry]
      /\ \A i \in Slots : db'[i].active = db[i].active /\ db'[i].peer = db[i].peer
  BY <1>1, <1>2
<1> QED
  BY <1>1, <1>3, SameEntries

\* An array in which no entry is active is in order: the one db_Init leaves
\* (database.c:64-89).
LEMMA EmptyArray ==
  /\ [i \in Slots |-> EmptyEntry] \in [Slots -> Entry]
  /\ \A i \in Slots : ~[j \in Slots |-> EmptyEntry][i].active
<1>1. 0 \in 0 .. MaxAge
  BY SizeAssumption DEF MaxAge
<1>2. EmptyEntry \in Entry /\ ~EmptyEntry.active
  BY <1>1 DEF EmptyEntry, Entry
<1> QED
  BY <1>2

\* A restart of the tracker empties the array.
LEMMA ResetStep ==
  ASSUME TrackerInv, db' = [i \in Slots |-> EmptyEntry], peer_count' = 0
  PROVE  TrackerInv' /\ Keeps
<1>1. db' \in [Slots -> Entry] /\ \A i \in Slots : ~db'[i].active
  BY EmptyArray
<1>2. Active' = {}
  BY <1>1 DEF Active
<1>3. OneEntryPerPeer'
  BY <1>2 DEF OneEntryPerPeer
<1>4. Cardinality(Active') = 0
  BY <1>2, FS_EmptySet
<1>5. peer_count' \in 0 .. MaxPeers
  BY SizeAssumption
<1> QED
  BY <1>1, <1>3, <1>4, <1>5 DEF TrackerInv, CountIsActive, Keeps

\* Every step keeps the invariant of the array.
LEMMA TrackerStep ==
  ASSUME IInv, [Next]_vars
  PROVE  TrackerInv' /\ Keeps
<1> USE DEF IInv
<1>same. ASSUME UNCHANGED tracker PROVE TrackerInv' /\ Keeps
  <2>1. db' = db /\ peer_count' = peer_count
    BY <1>same DEF tracker
  <2> QED
    BY <2>1, SameEntries DEF TrackerInv
<1>1. CASE \E p \in Peers : Start(p) \/ SendPing(p) \/ Poll(p) \/ Stop(p)
  BY <1>1, <1>same DEF Start, SendPing, Poll, Stop
<1>2. CASE \E p \in Peers, t \in Threads : Broadcast(p, t) \/ GiveUp(p, t)
  BY <1>2, <1>same DEF Broadcast, GiveUp
<1>3. CASE \E p \in Peers, f \in Files : Change(p, f)
  BY <1>3, <1>same DEF Change
<1>4. ASSUME NEW m \in net, Serve(m) PROVE TrackerInv' /\ Keeps
  <2>1. m.peer \in Peers /\ m.files \in SUBSET Files
    BY DEF PeersInv, Request
  <2>2. CASE ServePing(m)
    BY <2>1, <2>2, KeepAliveStep DEF ServePing
  <2>3. CASE ServeUpdateList(m)
    BY <2>1, <2>3, AddPeerStep DEF ServeUpdateList
  <2> QED
    BY <1>4, <2>2, <2>3 DEF Serve
<1>5. CASE Crash
  BY <1>5, ResetStep DEF Crash
<1>6. CASE ReadClock
  BY <1>6, <1>same DEF ReadClock
<1>7. CASE Sweep
  BY <1>7, SweepStep
<1>8. CASE Tick
  BY <1>8, TickStep
<1>9. CASE UNCHANGED vars
  BY <1>9, <1>same DEF vars
<1> QED
  BY <1>1, <1>2, <1>3, <1>4, <1>5, <1>6, <1>7, <1>8, <1>9 DEF Next

-----------------------------------------------------------------------------
(* The types of the rest. *)

\* A thread goes to a state that threads have.
LEMMA GotoType ==
  ASSUME PeersInv, NEW p \in Peers, NEW t \in Threads, NEW state \in States, Goto(p, t, state)
  PROVE  thread' \in [Peers -> [Threads -> States]]
<1>1. thread \in [Peers -> [Threads -> States]] /\ thread[p] \in [Threads -> States]
  BY DEF PeersInv
<1>2. [thread[p] EXCEPT ![t] = state] \in [Threads -> States]
  BY <1>1
<1>3. thread' = [thread EXCEPT ![p] = [thread[p] EXCEPT ![t] = state]]
  BY DEF Goto
<1> HIDE DEF States, Threads
<1> QED
  BY <1>1, <1>2, <1>3

\* A thread that is back from a broadcast.
LEMMA BroadcastedType ==
  ASSUME PeersInv, NEW p \in Peers, NEW t \in Threads, Broadcasted(p, t)
  PROVE  thread' \in [Peers -> [Threads -> States]] /\ prev' \in [Peers -> SUBSET Files]
<1>1. "sleep" \in States /\ Goto(p, t, "sleep")
  BY DEF States, Broadcasted
<1>2. prev' \in [Peers -> SUBSET Files]
  BY DEF Broadcasted, PeersInv
<1> QED
  BY <1>1, <1>2, GotoType

\* Requests that were given up on are still requests.
LEMMA LateType ==
  ASSUME PeersInv, NEW ms \in SUBSET net
  PROVE  Late(ms) \subseteq Request
<1>1. \A m \in net : [m EXCEPT !.late = TRUE] \in Request
  BY DEF PeersInv, Request
<1> QED
  BY <1>1 DEF Late, PeersInv

\* The reply to a request of the network.
LEMMA ReplyType ==
  ASSUME PeersInv, NEW m \in net, NEW state \in States, Reply(m, state)
  PROVE  thread' \in [Peers -> [Threads -> States]] /\ prev' \in [Peers -> SUBSET Files]
<1>1. m.peer \in Peers /\ m.thread \in Threads
  BY DEF PeersInv, Request
<1>2. CASE m.late
  BY <1>2 DEF Reply, PeersInv
<1>3. CASE ~m.late /\ m.kind = "ping"
  <2>1. Goto(m.peer, m.thread, state) /\ UNCHANGED prev
    BY <1>3 DEF Reply
  <2> QED
    BY <1>1, <2>1, GotoType DEF PeersInv
<1>4. CASE ~m.late /\ m.kind # "ping"
  <2>1. Broadcasted(m.peer, m.thread)
    BY <1>4 DEF Reply
  <2> QED
    BY <1>1, <2>1, BroadcastedType
<1> QED
  BY <1>2, <1>3, <1>4

\* The steps of a peer keep the types.
LEMMA PeerStep ==
  ASSUME PeersInv, NEW p \in Peers,
         \/ Start(p) \/ SendPing(p) \/ Poll(p) \/ Stop(p)
         \/ \E t \in Threads : Broadcast(p, t) \/ GiveUp(p, t)
         \/ \E f \in Files : Change(p, f)
  PROVE  PeersInv'
<1>states. {"sleep", "ping", "broadcast", "update"} = States
  BY DEF States
<1>1. CASE Start(p)
  BY <1>1 DEF Start, PeersInv
<1>2. CASE SendPing(p)
  <2>1. Goto(p, "ping", "ping") /\ "ping" \in Threads /\ "ping" \in States
    BY <1>2 DEF SendPing, Threads, States
  <2>2. Ping(p) \in Request
    BY DEF Ping, Request, Threads
  <2>3. thread' \in [Peers -> [Threads -> States]]
    BY <2>1, GotoType
  <2> QED
    BY <1>2, <2>2, <2>3 DEF SendPing, PeersInv
<1>3. CASE Poll(p)
  <2>1. Goto(p, "monitor", "broadcast") /\ "monitor" \in Threads /\ "broadcast" \in States
    BY <1>3 DEF Poll, Threads, States
  <2>2. thread' \in [Peers -> [Threads -> States]]
    BY <2>1, GotoType
  <2>3. curr' \in [Peers -> SUBSET Files]
    BY <1>3 DEF Poll, PeersInv
  <2> QED
    BY <1>3, <2>2, <2>3 DEF Poll, PeersInv
<1>4. CASE Stop(p)
  <2>1. {m \in net : m.peer = p} \in SUBSET net
    OBVIOUS
  <2>2. net' \subseteq Request
    BY <1>4, <2>1, LateType DEF Stop
  <2>3. thread' \in [Peers -> [Threads -> States]]
    <3>1. [t \in Threads |-> "sleep"] \in [Threads -> States]
      BY DEF States
    <3> HIDE DEF Threads, States
    <3> QED
      BY <1>4, <3>1 DEF Stop, PeersInv
  <2>4. faults' \in 0 .. MaxFaults /\ up' \subseteq Peers
    BY <1>4, BudgetAssumption DEF Stop, PeersInv
  <2> QED
    BY <1>4, <2>2, <2>3, <2>4 DEF Stop, PeersInv
<1>5. ASSUME NEW t \in Threads, Broadcast(p, t) PROVE PeersInv'
  <2>1. Goto(p, t, "update") /\ "update" \in States
    BY <1>5 DEF Broadcast, States
  <2>2. thread' \in [Peers -> [Threads -> States]]
    BY <2>1, GotoType
  <2>3. folder[p] \in SUBSET Files
    BY DEF PeersInv
  <2>4. UpdateList(p, t, folder[p]) \in Request
    BY <2>3 DEF UpdateList, Request
  <2> QED
    BY <1>5, <2>2, <2>4 DEF Broadcast, PeersInv
<1>6. ASSUME NEW t \in Threads, GiveUp(p, t) PROVE PeersInv'
  <2>1. net' \subseteq Request
    <3>1. Late(Waiting(p, t)) \subseteq Request
      BY LateType DEF Waiting
    <3>2. net \ Waiting(p, t) \subseteq Request
      BY DEF PeersInv
    <3> QED
      BY <1>6, <3>1, <3>2 DEF GiveUp
  <2>2. thread' \in [Peers -> [Threads -> States]] /\ prev' \in [Peers -> SUBSET Files]
    <3>1. CASE At(p, t, "ping")
      <4>1. Goto(p, t, "sleep") /\ UNCHANGED prev /\ "sleep" \in States
        BY <1>6, <3>1 DEF GiveUp, States
      <4> QED
        BY <4>1, GotoType DEF PeersInv
    <3>2. CASE ~At(p, t, "ping")
      BY <1>6, <3>2, BroadcastedType DEF GiveUp
    <3> QED
      BY <3>1, <3>2
  <2>3. faults' \in 0 .. MaxFaults
    BY <1>6, BudgetAssumption DEF GiveUp, PeersInv
  <2> QED
    BY <1>6, <2>1, <2>2, <2>3 DEF GiveUp, PeersInv
<1>7. ASSUME NEW f \in Files, Change(p, f) PROVE PeersInv'
  <2>1. changes' \in 0 .. MaxChanges
    BY <1>7, BudgetAssumption DEF Change, PeersInv
  <2>2. folder' \in [Peers -> SUBSET Files]
    BY <1>7 DEF Change, PeersInv
  <2> QED
    BY <1>7, <2>1, <2>2 DEF Change, PeersInv
<1> QED
  BY <1>1, <1>2, <1>3, <1>4, <1>5, <1>6, <1>7

\* Every step keeps the types.
LEMMA PeersStep ==
  ASSUME IInv, [Next]_vars
  PROVE  PeersInv'
<1> USE DEF IInv
<1>1. CASE \E p \in Peers : Start(p) \/ SendPing(p) \/ Poll(p) \/ Stop(p)
  BY <1>1, PeerStep
<1>2. CASE \E p \in Peers, t \in Threads : Broadcast(p, t) \/ GiveUp(p, t)
  BY <1>2, PeerStep
<1>3. CASE \E p \in Peers, f \in Files : Change(p, f)
  BY <1>3, PeerStep
<1>4. ASSUME NEW m \in net, Serve(m) PROVE PeersInv'
  <2>1. CASE ServePing(m)
    <3> DEFINE state == IF Registered(m.peer) THEN "sleep" ELSE "broadcast"
    <3>1. Reply(m, state) /\ state \in States
      BY <2>1 DEF ServePing, States
    <3> HIDE DEF state
    <3>2. thread' \in [Peers -> [Threads -> States]] /\ prev' \in [Peers -> SUBSET Files]
      BY <3>1, ReplyType
    <3> QED
      BY <2>1, <3>2 DEF ServePing, PeersInv
  <2>2. CASE ServeUpdateList(m)
    <3>1. Reply(m, "sleep") /\ "sleep" \in States
      BY <2>2 DEF ServeUpdateList, States
    <3>2. thread' \in [Peers -> [Threads -> States]] /\ prev' \in [Peers -> SUBSET Files]
      BY <3>1, ReplyType
    <3> QED
      BY <2>2, <3>2 DEF ServeUpdateList, PeersInv
  <2> QED
    BY <1>4, <2>1, <2>2 DEF Serve
<1>lag. MaxLag \in Nat /\ -1 \in -1 .. MaxLag
  BY SizeAssumption
<1>5. CASE Crash
  <2>1. faults' \in 0 .. MaxFaults
    BY <1>5, BudgetAssumption DEF Crash, PeersInv
  <2> QED
    BY <1>5, <1>lag, <2>1 DEF Crash, PeersInv, peers
<1>6. CASE ReadClock
  BY <1>6, <1>lag DEF ReadClock, PeersInv, peers
<1>7. CASE Sweep
  BY <1>7, <1>lag DEF Sweep, PeersInv, peers
<1>8. CASE Tick
  BY <1>8, <1>lag DEF Tick, PeersInv, peers
<1>9. CASE UNCHANGED vars
  BY <1>9 DEF vars, peers, PeersInv
<1> QED
  BY <1>1, <1>2, <1>3, <1>4, <1>5, <1>6, <1>7, <1>8, <1>9 DEF Next

-----------------------------------------------------------------------------
(* The theorems. *)

\* A tracker and peers that were just started are in order.
LEMMA InitGood == Init => IInv
<1> SUFFICES ASSUME Init PROVE IInv
  OBVIOUS
<1>1. TrackerInv
  <2>1. db \in [Slots -> Entry] /\ \A i \in Slots : ~db[i].active
    BY EmptyArray DEF Init
  <2>2. Active = {}
    BY <2>1 DEF Active
  <2>3. Cardinality(Active) = 0 /\ peer_count = 0 /\ 0 \in 0 .. MaxPeers
    BY <2>2, FS_EmptySet, SizeAssumption DEF Init
  <2> QED
    BY <2>1, <2>2, <2>3 DEF TrackerInv, OneEntryPerPeer, CountIsActive
<1>2. PeersInv
  <2>1. -1 \in -1 .. MaxLag /\ 0 \in 0 .. MaxChanges /\ 0 \in 0 .. MaxFaults
    BY SizeAssumption, BudgetAssumption
  <2>2. thread \in [Peers -> [Threads -> States]]
    BY DEF Init, States
  <2> QED
    BY <2>1, <2>2 DEF Init, PeersInv
<1> QED
  BY <1>1, <1>2 DEF IInv

\* The array of the tracker (server/database.c) is always in order, and
\* everything has its type, however requests, timeouts, restarts and late
\* messages interleave.
THEOREM TrackerGood == Spec => []IInv
<1>1. IInv /\ [Next]_vars => IInv'
  BY TrackerStep, PeersStep DEF IInv
<1> QED
  BY <1>1, InitGood, PTL DEF Spec

\* Type correctness; in particular peer_count stays within the array.
THEOREM TypeCorrect == Spec => []TypeOK
<1>1. IInv => TypeOK
  BY DEF IInv, TrackerInv, PeersInv, TypeOK, States
<1> QED
  BY <1>1, TrackerGood, PTL

\* No peer has two entries (database.c:99-143).
THEOREM EntriesCorrect == Spec => []OneEntryPerPeer
<1>1. IInv => OneEntryPerPeer
  BY DEF IInv, TrackerInv
<1> QED
  BY <1>1, TrackerGood, PTL

\* peer_count is the number of active entries (database.c:49, 137).
THEOREM CountCorrect == Spec => []CountIsActive
<1>1. IInv => CountIsActive
  BY DEF IInv, TrackerInv
<1> QED
  BY <1>1, TrackerGood, PTL

\* An entry never goes from one peer to another while it is active
\* (database.c:124-148).
THEOREM DisplacedCorrect == Spec => NobodyDisplaced
<1>1. IInv /\ [Next]_vars =>
        [\A i \in Slots : db[i].active /\ db'[i].active => db'[i].peer = db[i].peer]_vars
  BY TrackerStep DEF Keeps
<1> QED
  BY <1>1, TrackerGood, PTL DEF Spec, NobodyDisplaced

\* The timeout monitor forgets silent peers only, however long it waits for the
\* mutex after it has read the clock (database.c:38-51).
THEOREM ForgottenCorrect == Spec => OnlySilentForgotten
<1> DEFINE Forgets == \A i \in Slots :
             lag >= 0 /\ lag' = -1 /\ db[i].active /\ ~db'[i].active /\ faults' = faults
               => db[i].age > Timeout
<1>1. ASSUME IInv, Next PROVE Forgets
  <2> SUFFICES ASSUME NEW i \in Slots, lag >= 0, lag' = -1, db[i].active, ~db'[i].active,
                      faults' = faults
               PROVE  db[i].age > Timeout
    OBVIOUS
  <2>lag. lag \in Int /\ lag # -1 /\ lag' # lag
    BY <1>1 DEF IInv, PeersInv
  <2>1. faults \in Int /\ faults + 1 # faults
    BY <1>1 DEF IInv, PeersInv
  <2>2. Sweep
    <3>1. ~Crash
      BY <2>1 DEF Crash
    <3>2. ~ReadClock
      BY <2>lag DEF ReadClock
    <3>3. ~Tick
      BY <2>lag DEF Tick
    <3>4. \A p \in Peers : ~Start(p) /\ ~SendPing(p) /\ ~Poll(p) /\ ~Stop(p)
      BY <2>lag DEF Start, SendPing, Poll, Stop
    <3>5. \A p \in Peers, t \in Threads : ~Broadcast(p, t) /\ ~GiveUp(p, t)
      BY <2>lag DEF Broadcast, GiveUp
    <3>6. \A p \in Peers, f \in Files : ~Change(p, f)
      BY <2>lag DEF Change
    <3>7. \A m \in net : ~Serve(m)
      BY <2>lag DEF Serve, ServePing, ServeUpdateList
    <3> QED
      BY <1>1, <3>1, <3>2, <3>3, <3>4, <3>5, <3>6, <3>7 DEF Next
  <2>3. db[i] \in Entry
    BY <1>1 DEF IInv, TrackerInv
  <2>4. db[i].age \in Int
    BY <2>3 DEF Entry
  <2>5. Expired(db[i])
    BY <2>2 DEF Sweep
  <2>6. db[i].age - lag > Timeout
    BY <2>5 DEF Expired
  <2> QED
    BY <2>lag, <2>4, <2>6, SizeAssumption
<1>2. IInv /\ [Next]_vars => [Forgets]_vars
  BY <1>1
<1> QED
  BY <1>2, TrackerGood, PTL DEF Spec, OnlySilentForgotten
=============================================================================
