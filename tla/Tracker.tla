------------------------------ MODULE Tracker --------------------------------
(***************************************************************************)
(* The tracker of the file-sharing network (project_3/server) and the      *)
(* broadcaster of each peer (project_3/peer/broadcaster.c).                *)
(*                                                                         *)
(* The tracker keeps an array of entries, one for each peer it knows, under *)
(* one mutex.  Every request is served by a thread of its own that takes   *)
(* the mutex once, so serving is one atomic step; another thread forgets   *)
(* peers that were silent too long.                                        *)
(*                                                                         *)
(* A peer has two threads that talk to the tracker.  The ping thread pings *)
(* and, if the tracker does not know the peer, broadcasts the list of the  *)
(* peer's files.  The file monitor looks at the folder and broadcasts when *)
(* its names have changed.  A thread waits for the reply, but not forever; *)
(* a request it has given up on may still be served (it is `late').        *)
(***************************************************************************)
EXTENDS Integers, FiniteSets

CONSTANTS
  Peers,       \* listening addresses and ports
  NoPeer,      \* the zeroes of an entry that was never used
  Files,       \* file names
  MaxPeers,    \* MAX_PEERS_IN_NETWORK
  Timeout,     \* TIMEOUT_SEC
  MaxLag,      \* bound of the model: seconds the timeout monitor may be held up
  MaxChanges,  \* bound of the model: changes made to the folders
  MaxFaults    \* bound of the model: replies given up on, peers and trackers killed

Slots   == 0 .. MaxPeers - 1
Threads == {"ping", "monitor"}

ASSUME SizeAssumption == MaxPeers \in Nat \ {0} /\ Timeout \in Nat /\ MaxLag \in Nat
ASSUME BudgetAssumption == MaxChanges \in Nat /\ MaxFaults \in Nat
ASSUME NoPeerAssumption == NoPeer \notin Peers

VARIABLES
  db,          \* db[i] : an entry, with the seconds since its timestamp
  peer_count,
  lag,         \* seconds since the timeout monitor read the clock; -1 while it sleeps
  up,          \* the peers that run
  folder,      \* folder[p] : the names in the shared folder
  prev,        \* prev[p], curr[p] : prev_files and curr_files of the file monitor
  curr,
  thread,      \* thread[p][t] : what thread t of peer p is at
  net,         \* requests under way to the tracker
  changes,     \* how many changes and faults there were
  faults

tracker == <<db, peer_count>>
peers   == <<up, folder, prev, curr, thread>>
vars == <<tracker, lag, peers, net, changes, faults>>

MaxAge == Timeout + MaxLag + 1
Entry  == [active : BOOLEAN, peer : Peers \cup {NoPeer}, files : SUBSET Files, age : 0 .. MaxAge]

Ping(p) == [kind |-> "ping", peer |-> p, thread |-> "ping", files |-> {}, late |-> FALSE]
UpdateList(p, t, fs) == [kind |-> "update", peer |-> p, thread |-> t, files |-> fs, late |-> FALSE]

Request == [kind : {"ping", "update"}, peer : Peers, thread : Threads,
            files : SUBSET Files, late : BOOLEAN]

-----------------------------------------------------------------------------
(* The tracker's database. *)

Active == {i \in Slots : db[i].active}
EntriesOf(p) == {i \in Active : db[i].peer = p}
First(S) == CHOOSE i \in S : \A j \in S : i <= j

Registered(p) == EntriesOf(p) # {}

\* db_FindFile: the peers that have the file.
FindFile(f) == {db[i].peer : i \in {j \in Active : f \in db[j].files}}

\* The search for the peer is left out.
db_AddPeerBug(p, fs) ==
  IF Slots \ Active # {}
    THEN /\ db' = [db EXCEPT ![First(Slots \ Active)] = [active |-> TRUE, peer |-> p, files |-> fs, age |-> 0]]
         /\ peer_count' = peer_count + 1
    ELSE UNCHANGED tracker

\* The peer is counted whether it is new or not.
db_AddPeerCountBug(p, fs) ==
  IF Registered(p)
    THEN /\ db' = [db EXCEPT ![First(EntriesOf(p))].files = fs, ![First(EntriesOf(p))].age = 0]
         /\ peer_count' = peer_count + 1
    ELSE IF Slots \ Active # {}
    THEN /\ db' = [db EXCEPT ![First(Slots \ Active)] = [active |-> TRUE, peer |-> p, files |-> fs, age |-> 0]]
         /\ peer_count' = peer_count + 1
    ELSE UNCHANGED tracker

\* A peer for which there is no slot free takes the first one.
db_AddPeerFullBug(p, fs) ==
  IF Registered(p)
    THEN /\ db' = [db EXCEPT ![First(EntriesOf(p))].files = fs, ![First(EntriesOf(p))].age = 0]
         /\ UNCHANGED peer_count
    ELSE /\ db' = [db EXCEPT ![First(IF Slots \ Active # {} THEN Slots \ Active ELSE Slots)]
                        = [active |-> TRUE, peer |-> p, files |-> fs, age |-> 0]]
         /\ peer_count' = IF Slots \ Active # {} THEN peer_count + 1 ELSE peer_count

\* Updates the entry of a peer that is known, else takes the first free slot.
\* With no slot free nothing changes, and the peer is refused.
db_AddPeer(p, fs) ==
  IF Registered(p)
    THEN /\ db' = [db EXCEPT ![First(EntriesOf(p))].files = fs, ![First(EntriesOf(p))].age = 0]
         /\ UNCHANGED peer_count
    ELSE IF Slots \ Active # {}
    THEN /\ db' = [db EXCEPT ![First(Slots \ Active)] = [active |-> TRUE, peer |-> p, files |-> fs, age |-> 0]]
         /\ peer_count' = peer_count + 1
    ELSE UNCHANGED tracker

db_KeepAlive(p) ==
  IF Registered(p) THEN db' = [db EXCEPT ![First(EntriesOf(p))].age = 0] /\ UNCHANGED peer_count
                   ELSE UNCHANGED tracker

-----------------------------------------------------------------------------
\* The entries of a new tracker are inactive and otherwise zero.
EmptyEntry == [active |-> FALSE, peer |-> NoPeer, files |-> {}, age |-> 0]

Init ==
  /\ db = [i \in Slots |-> EmptyEntry] /\ peer_count = 0
  /\ lag = -1
  /\ up = {}
  /\ folder \in [Peers -> SUBSET Files]
  /\ prev = [p \in Peers |-> {}] /\ curr = [p \in Peers |-> {}]
  /\ thread = [p \in Peers |-> [t \in Threads |-> "sleep"]]
  /\ net = {}
  /\ changes = 0 /\ faults = 0

(* The peer.  A thread sleeps, waits for the reply to a ping, is about to
   broadcast, or waits for the reply to its broadcast. *)

At(p, t, state) == thread[p][t] = state
Goto(p, t, state) == thread' = [thread EXCEPT ![p][t] = state]

\* The shared folder of the new process is any folder.
Start(p) ==
  /\ p \notin up
  /\ up' = up \cup {p}
  /\ prev' = [prev EXCEPT ![p] = {}]
  /\ UNCHANGED <<tracker, lag, folder, curr, thread, net, changes, faults>>

SendPing(p) ==
  /\ p \in up /\ At(p, "ping", "sleep")
  /\ Goto(p, "ping", "ping")
  /\ net' = net \cup {Ping(p)}
  /\ UNCHANGED <<tracker, lag, up, folder, prev, curr, changes, faults>>

\* The file monitor has seen a change.
Poll(p) ==
  /\ p \in up /\ At(p, "monitor", "sleep")
  /\ folder[p] # prev[p]
  /\ curr' = [curr EXCEPT ![p] = folder[p]]
  /\ Goto(p, "monitor", "broadcast")
  /\ UNCHANGED <<tracker, lag, up, folder, prev, net, changes, faults>>

\* The folder is read anew for the broadcast.
Broadcast(p, t) ==
  /\ p \in up /\ At(p, t, "broadcast")
  /\ Goto(p, t, "update")
  /\ net' = net \cup {UpdateList(p, t, folder[p])}
  /\ UNCHANGED <<tracker, lag, up, folder, prev, curr, changes, faults>>

\* A broadcast has returned, with or without success.
Broadcasted(p, t) ==
  /\ Goto(p, t, "sleep")
  /\ prev' = IF t = "monitor" THEN [prev EXCEPT ![p] = curr[p]] ELSE prev

\* The reply to a request reaches the thread that waits for it.
Reply(m, state) ==
  IF m.late THEN UNCHANGED <<thread, prev>>
  ELSE IF m.kind = "ping" THEN Goto(m.peer, m.thread, state) /\ UNCHANGED prev
  ELSE Broadcasted(m.peer, m.thread)

\* The peer is not told that the tracker does not know it.
ServePingBug(m) ==
  /\ m \in net /\ m.kind = "ping"
  /\ net' = net \ {m}
  /\ db_KeepAlive(m.peer)
  /\ Reply(m, "sleep")
  /\ UNCHANGED <<lag, up, folder, curr, changes, faults>>

ServePing(m) ==
  /\ m \in net /\ m.kind = "ping"
  /\ net' = net \ {m}
  /\ db_KeepAlive(m.peer)
  /\ Reply(m, IF Registered(m.peer) THEN "sleep" ELSE "broadcast")
  /\ UNCHANGED <<lag, up, folder, curr, changes, faults>>

ServeUpdateList(m) ==
  /\ m \in net /\ m.kind = "update"
  /\ net' = net \ {m}
  /\ db_AddPeer(m.peer, m.files)
  /\ Reply(m, "sleep")
  /\ UNCHANGED <<lag, up, folder, curr, changes, faults>>

Waiting(p, t) == {m \in net : m.peer = p /\ m.thread = t /\ ~m.late}
Late(ms) == (net \ ms) \cup {[m EXCEPT !.late = TRUE] : m \in ms}

\* send_recv fails: the connection was refused or broke, or there was no reply in
\* 5 seconds.  The request is lost or will be served late.
GiveUp(p, t) ==
  /\ At(p, t, "ping") \/ At(p, t, "update")
  /\ IF Waiting(p, t) = {} THEN UNCHANGED faults
                           ELSE faults < MaxFaults /\ faults' = faults + 1
  /\ net' \in {Late(Waiting(p, t)), net \ Waiting(p, t)}
  /\ IF At(p, t, "ping") THEN Goto(p, t, "sleep") /\ UNCHANGED prev ELSE Broadcasted(p, t)
  /\ UNCHANGED <<tracker, lag, up, folder, curr, changes>>

\* Somebody puts a file into the folder or takes one out.
Change(p, f) ==
  /\ changes < MaxChanges
  /\ changes' = changes + 1
  /\ folder' = [folder EXCEPT ![p] = IF f \in @ THEN @ \ {f} ELSE @ \cup {f}]
  /\ UNCHANGED <<tracker, lag, up, prev, curr, thread, net, faults>>

Stop(p) ==
  /\ p \in up /\ faults < MaxFaults
  /\ faults' = faults + 1
  /\ up' = up \ {p}
  /\ thread' = [thread EXCEPT ![p] = [t \in Threads |-> "sleep"]]
  /\ net' = Late({m \in net : m.peer = p})
  /\ UNCHANGED <<tracker, lag, folder, prev, curr, changes>>

(* The tracker. *)

Crash ==
  /\ faults < MaxFaults
  /\ faults' = faults + 1
  /\ db' = [i \in Slots |-> EmptyEntry] /\ peer_count' = 0
  /\ lag' = -1
  /\ net' = {}
  /\ UNCHANGED <<peers, changes>>

\* The timeout monitor reads the clock, and then waits for the mutex.
ReadClock ==
  /\ lag = -1
  /\ lag' = 0
  /\ UNCHANGED <<tracker, peers, net, changes, faults>>

\* The difference is off by one.
ExpiredBug(e) == e.active /\ e.age - lag >= Timeout
ExpiredNeverBug(e) == e.active /\ e.age - lag > MaxAge

Expired(e) == e.active /\ e.age - lag > Timeout

Sweep ==
  /\ lag >= 0
  /\ lag' = -1
  /\ db' = [i \in Slots |-> IF Expired(db[i]) THEN [db[i] EXCEPT !.active = FALSE] ELSE db[i]]
  /\ peer_count' = peer_count - Cardinality({i \in Slots : Expired(db[i])})
  /\ UNCHANGED <<peers, net, changes, faults>>

\* A second passes.
Tick ==
  /\ lag < MaxLag
  /\ lag' = IF lag = -1 THEN -1 ELSE lag + 1
  /\ db' = [i \in Slots |-> [db[i] EXCEPT !.age = IF db[i].active /\ @ < MaxAge THEN @ + 1 ELSE @]]
  /\ UNCHANGED <<peer_count, peers, net, changes, faults>>

-----------------------------------------------------------------------------
Serve(m) == ServePing(m) \/ ServeUpdateList(m)

Next ==
  \/ \E p \in Peers : Start(p) \/ SendPing(p) \/ Poll(p) \/ Stop(p)
  \/ \E p \in Peers, t \in Threads : Broadcast(p, t) \/ GiveUp(p, t)
  \/ \E p \in Peers, f \in Files : Change(p, f)
  \/ \E m \in net : Serve(m)
  \/ Crash \/ ReadClock \/ Sweep \/ Tick

Spec == Init /\ [][Next]_vars

\* Threads run, what was sent is served, waits end and time passes; peers may
\* or may not start.
Fairness ==
  /\ \A p \in Peers : WF_vars(SendPing(p)) /\ WF_vars(Poll(p))
  /\ \A p \in Peers, t \in Threads : /\ WF_vars(Broadcast(p, t))
                                     /\ WF_vars(Waiting(p, t) = {} /\ GiveUp(p, t))
                                     /\ WF_vars(\E m \in Waiting(p, t) : Serve(m))
  /\ WF_vars(\E m \in net : m.late /\ Serve(m))
  /\ WF_vars(ReadClock \/ Sweep) /\ SF_vars(Tick)

FairSpec == Spec /\ Fairness

-----------------------------------------------------------------------------
(* Properties *)

TypeOK ==
  /\ db \in [Slots -> Entry] /\ peer_count \in 0 .. MaxPeers
  /\ lag \in -1 .. MaxLag
  /\ up \subseteq Peers
  /\ folder \in [Peers -> SUBSET Files]
  /\ prev \in [Peers -> SUBSET Files] /\ curr \in [Peers -> SUBSET Files]
  /\ thread \in [Peers -> [Threads -> {"sleep", "ping", "broadcast", "update"}]]
  /\ net \subseteq Request
  /\ changes \in 0 .. MaxChanges /\ faults \in 0 .. MaxFaults

\* However pings, broadcasts, timeouts and restarts interleave, the tracker has
\* at most one entry for a peer (database.c:100-143).
OneEntryPerPeer == \A i, j \in Active : db[i].peer = db[j].peer => i = j

\* peer_count is the number of active entries (database.c:49, 137).
CountIsActive == peer_count = Cardinality(Active)

\* The timeout monitor forgets only peers that have been silent for longer than
\* TIMEOUT_SEC, although it reads the clock before it has the mutex
\* (database.c:38-51).
OnlySilentForgotten ==
  [][\A i \in Slots : lag >= 0 /\ lag' = -1 /\ db[i].active /\ ~db'[i].active /\ faults' = faults
       => db[i].age > Timeout]_vars

\* A peer that the tracker has no slot for takes none from a peer it knows: an
\* entry stays with its peer until the timeout monitor or a restart of the
\* tracker clears it (database.c:124-148).
NobodyDisplaced ==
  [][\A i \in Slots : db[i].active /\ db'[i].active => db'[i].peer = db[i].peer]_vars

\* A peer that runs is registered again and again, whatever it was forgotten
\* for, silence or a restart of the tracker (broadcaster.c:105), as long as the
\* tracker has a slot for everybody.
RunningPeersRegister == \A p \in Peers : (p \in up) ~> (Registered(p) \/ p \notin up)

\* A peer that has stopped is forgotten (database.c:43-52), late requests of its
\* own notwithstanding.
StoppedPeersForgotten == \A p \in Peers : (p \notin up) ~> (~Registered(p) \/ p \in up)

\* "broadcast files if they have changed" (broadcaster.c:131): the folders change
\* finitely often, so in the end FIND answers for a registered peer with what is
\* in its folder.
FindAnswersSettle ==
  <>[](\A p \in up : Registered(p) => \A f \in Files : f \in folder[p] <=> p \in FindFile(f))
=============================================================================
