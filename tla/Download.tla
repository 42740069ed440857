------------------------------ MODULE Download -------------------------------
(***************************************************************************)
(* Downloading a file from other peers of the file-sharing network: the    *)
(* DOWNLOAD command (project_3/peer/ui.c), the choice of a peer            *)
(* (peer_selection.c), and the handlers that serve GET-LOAD and DOWNLOAD   *)
(* at the other end (connection_handler.c, load_tracker.c, file.c,         *)
(* checksum.c).                                                            *)
(*                                                                         *)
(* There is one file name.  The contents of a file are a sequence of       *)
(* blocks.  A checksum tells any two contents apart; computing one, and    *)
(* reading a file, is one step (a file that grows meanwhile gives a sum    *)
(* that fits nothing, which simulated corruption covers), but writing a    *)
(* file is not: other peers may be served a file that is being written.    *)
(* The tracker's answer to FIND may be any list of peers, as it may be out *)
(* of date (see Tracker).                                                  *)
(***************************************************************************)
EXTENDS Integers, Sequences, FiniteSets

CONSTANTS
  Peers,          \* the peers; each is served by its own process
  Blocks,         \* what contents are made of
  Bad,            \* a block whose first byte was incremented
  Absent,         \* a file that is not there
  Originals,      \* the contents users put into shared folders
  Retry,          \* RETRY_ATTEMPTS_PER_PEER
  MaxPeers,       \* MAX_PEERS_IN_NETWORK
  MaxThroughPut,  \* MAX_THROUGH_PUT
  MaxCommands,    \* bound of the model: DOWNLOAD commands of a user
  MaxFaults       \* bound of the model: connections lost, waits given up, failed
                  \* writes, files put into or taken from folders

Contents == Seq(Blocks \cup {Bad})

ASSUME ContentAssumption ==
  /\ Bad \notin Blocks /\ Absent \notin Contents
  /\ \A v \in Originals : v \in Seq(Blocks)
ASSUME PeersAssumption == IsFiniteSet(Peers)
ASSUME SizeAssumption ==
  /\ {Retry, MaxPeers, MaxThroughPut} \subseteq Nat \ {0}
  /\ {MaxCommands, MaxFaults} \subseteq Nat

VARIABLES
  disk,      \* disk[p] : the file in the shared folder of p
  loads,     \* loads[q] : the load counter of q
  handler,   \* handler[p][q] : the DOWNLOAD handler at q that serves p
  ui,        \* ui[p] : where the UI thread of p is
  found,     \* found[p] : the peers the tracker named
  estimate,  \* estimate[p][q] : the class of the download time from q, 0 before it is known
  queue,     \* queue[p] : the peers still to be tried, the current one first
  attempt,   \* attempt[p] : j
  data,      \* data[p] : downloaded_bytes, once validated
  commands,  \* commands[p] : how many commands the user of p has given
  faults     \* how many faults and edits there were

peer == <<ui, found, estimate, queue, attempt, data>>
vars == <<disk, loads, handler, peer, commands, faults>>

UiState == {"idle", "locate", "load", "try", "wait", "open", "write", "success", "failed"}
HandlerState == {"asked", "summed", "built", "loaded", "sent"}

\* No handler, and one whose connection has just been accepted.  `late' says
\* that the peer has given up waiting for it.
NoHandler == [at |-> "none", late |-> FALSE, ok |-> FALSE, sum |-> << >>, data |-> << >>]
NewHandler == [NoHandler EXCEPT !.at = "asked"]
Handler == [at : HandlerState \cup {"none"}, late : BOOLEAN, ok : BOOLEAN, sum : Contents, data : Contents]

Prefix(d, e) == Len(d) <= Len(e) /\ \A k \in 1 .. Len(d) : d[k] = e[k]

-----------------------------------------------------------------------------
Init ==
  /\ disk \in [Peers -> Originals \cup {Absent}]
  /\ loads = [q \in Peers |-> 0]
  /\ handler = [p \in Peers |-> [q \in Peers |-> NoHandler]]
  /\ ui = [p \in Peers |-> "idle"]
  /\ found = [p \in Peers |-> {}]
  /\ estimate = [p \in Peers |-> [q \in Peers |-> 0]]
  /\ queue = [p \in Peers |-> << >>]
  /\ attempt = [p \in Peers |-> 1]
  /\ data = [p \in Peers |-> << >>]
  /\ commands = [p \in Peers |-> 0]
  /\ faults = 0

Fault == faults < MaxFaults /\ faults' = faults + 1

Goto(p, state) == ui' = [ui EXCEPT ![p] = state]

\* Somebody puts a file into the folder or takes it away.  Bound of the model:
\* not while the peer writes the file itself.
Edit(p, c) ==
  /\ Fault
  /\ ui[p] # "write"
  /\ c # disk[p] /\ disk' = [disk EXCEPT ![p] = c]
  /\ UNCHANGED <<loads, handler, peer, commands>>

(* The UI thread of peer p. *)

Command(p) ==
  /\ ui[p] \in {"idle", "success", "failed"} /\ commands[p] < MaxCommands
  /\ commands' = [commands EXCEPT ![p] = @ + 1]
  /\ Goto(p, "locate")
  /\ found' = [found EXCEPT ![p] = {}]
  /\ UNCHANGED <<disk, loads, handler, estimate, queue, attempt, data, faults>>

\* DISCOVER and FIND.  With no answer, or none that names the file, the command
\* is over.
Locate(p, set) ==
  /\ ui[p] = "locate"
  /\ found' = [found EXCEPT ![p] = set]
  /\ Goto(p, IF set = {} THEN "idle" ELSE "load")
  /\ UNCHANGED <<disk, loads, handler, estimate, queue, attempt, data, commands, faults>>

\* loadTracker_GetThroughPut of peer q.
GetThroughPut(q) == MaxThroughPut - loads[q] * (MaxThroughPut \div MaxPeers)

\* The classes of an estimate, latency_sec + bytes_to_download / bytes_per_sec,
\* in the order of qsort.  A latency is any number, so within a class every order
\* is possible; DBL_MAX is less than a division by zero.  An empty file takes the
\* latency alone, or 0 / 0, which compares with nothing.
Negative == 1
Finite   == 2
DblMax   == 3
Infinite == 4
NaN      == 5

Estimate(throughput, empty) ==
  CASE throughput = 0 -> IF empty THEN NaN ELSE Infinite
    [] throughput > 0 -> Finite
    [] throughput < 0 -> IF empty THEN Finite ELSE Negative

\* GET-LOAD to peer q, answered or not.  The size is the one the tracker gave.
QueryLoad(p, q) ==
  /\ ui[p] = "load" /\ q \in found[p] /\ estimate[p][q] = 0
  /\ \/ /\ \E empty \in BOOLEAN : estimate' = [estimate EXCEPT ![p][q] = Estimate(GetThroughPut(q), empty)]
        /\ UNCHANGED faults
     \/ estimate' = [estimate EXCEPT ![p][q] = DblMax] /\ Fault
  /\ UNCHANGED <<disk, loads, handler, ui, found, queue, attempt, data, commands>>

\* qsort, and the copy back.
Sort(p, order) ==
  /\ ui[p] = "load" /\ \A q \in found[p] : estimate[p][q] # 0
  /\ {order[k] : k \in DOMAIN order} = found[p]
  /\ \/ \E q \in found[p] : estimate[p][q] = NaN
     \/ \A j, k \in DOMAIN order : j < k => estimate[p][order[j]] <= estimate[p][order[k]]
  /\ queue' = [queue EXCEPT ![p] = order]
  /\ estimate' = [estimate EXCEPT ![p] = [q \in Peers |-> 0]]
  /\ Goto(p, "try")
  /\ UNCHANGED <<disk, loads, handler, found, attempt, data, commands, faults>>

\* send_DownloadRequest connects to the current peer.  Bound of the model: a
\* handler there that still serves an attempt given up on has to end first.
Attempt(p) ==
  /\ ui[p] = "try"
  /\ handler[p][Head(queue[p])] = NoHandler
  /\ handler' = [handler EXCEPT ![p][Head(queue[p])] = NewHandler]
  /\ Goto(p, "wait")
  /\ UNCHANGED <<disk, loads, found, estimate, queue, attempt, data, commands, faults>>

\* j starts at 0 for RETRY_ATTEMPTS_PER_PEER + 1 attempts.
NextAttemptMoreBug(p) ==
  /\ UNCHANGED data
  /\ IF attempt[p] <= Retry
       THEN attempt' = [attempt EXCEPT ![p] = @ + 1] /\ Goto(p, "try") /\ UNCHANGED queue
       ELSE /\ attempt' = [attempt EXCEPT ![p] = 1]
            /\ queue' = [queue EXCEPT ![p] = Tail(@)]
            /\ Goto(p, IF Len(queue[p]) = 1 THEN "failed" ELSE "try")

\* The attempt failed: again, or the next peer, or the end.
NextAttempt(p) ==
  /\ UNCHANGED data
  /\ IF attempt[p] < Retry
       THEN attempt' = [attempt EXCEPT ![p] = @ + 1] /\ Goto(p, "try") /\ UNCHANGED queue
       ELSE /\ attempt' = [attempt EXCEPT ![p] = 1]
            /\ queue' = [queue EXCEPT ![p] = Tail(@)]
            /\ Goto(p, IF Len(queue[p]) = 1 THEN "failed" ELSE "try")

\* The size is compared instead of the checksum.
ValidBug(h) == h.ok /\ Len(h.sum) = Len(h.data)
Valid(h) == h.ok /\ h.sum = h.data

\* The response arrives, and its checksum is validated.
Received(p, h) ==
  IF Valid(h)
    THEN /\ data' = [data EXCEPT ![p] = h.data]
         /\ queue' = [queue EXCEPT ![p] = << >>]
         /\ attempt' = [attempt EXCEPT ![p] = 1]
         /\ Goto(p, "open")
    ELSE NextAttempt(p)

\* No connection, or the wait was given up; in the second case the handler runs on.
AttemptFails(p) ==
  /\ ui[p] \in {"try", "wait"}
  /\ Fault
  /\ handler' = [handler EXCEPT ![p][Head(queue[p])].late = (@ \/ ui[p] = "wait")]
  /\ NextAttempt(p)
  /\ UNCHANGED <<disk, loads, found, estimate, commands>>

\* file_writer opens the file, which empties it.
Open(p) ==
  /\ ui[p] = "open"
  /\ disk' = [disk EXCEPT ![p] = << >>]
  /\ Goto(p, "write")
  /\ UNCHANGED <<loads, handler, found, estimate, queue, attempt, data, commands, faults>>

\* fwrite and fclose, block after block.
Write(p) ==
  /\ ui[p] = "write"
  /\ Len(disk[p]) < Len(data[p])
  /\ disk' = [disk EXCEPT ![p] = SubSeq(data[p], 1, Len(@) + 1)]
  /\ UNCHANGED <<loads, handler, peer, commands, faults>>

\* The file is complete, and downloaded_bytes not needed any more.
Close(p) ==
  /\ ui[p] = "write"
  /\ Len(disk[p]) = Len(data[p])
  /\ Goto(p, "success")
  /\ data' = [data EXCEPT ![p] = << >>]
  /\ UNCHANGED <<disk, loads, handler, found, estimate, queue, attempt, commands, faults>>

\* The file cannot be opened or written; the result is not looked at.
WriteFails(p) ==
  /\ ui[p] \in {"open", "write"}
  /\ Fault
  /\ Goto(p, "success")
  /\ data' = [data EXCEPT ![p] = << >>]
  /\ UNCHANGED <<disk, loads, handler, found, estimate, queue, attempt, commands>>

(* The DOWNLOAD handler at q that serves p. *)

Step(p, q, h) == handler' = [handler EXCEPT ![p][q] = h]

Failed(h) == [h EXCEPT !.at = "built", !.ok = FALSE, !.sum = << >>, !.data = << >>]

\* checksum_file.
Checksum(p, q) ==
  /\ handler[p][q].at = "asked"
  /\ Step(p, q, IF disk[q] = Absent THEN Failed(handler[p][q])
                ELSE [handler[p][q] EXCEPT !.at = "summed", !.sum = disk[q]])
  /\ UNCHANGED <<disk, loads, peer, commands, faults>>

\* One block of the contents may be changed by the handler.
Corrupted(d) == IF d = << >> THEN d ELSE [d EXCEPT ![1] = Bad]

\* The rest of file_reader, which opens the file again, and the simulated
\* corruption.
Read(p, q) ==
  /\ handler[p][q].at = "summed"
  /\ LET h == handler[p][q]
         size == Len(h.sum)
     IN  IF disk[q] = Absent THEN Step(p, q, Failed(h))
         ELSE IF Len(disk[q]) < size THEN Step(p, q, Failed(h))
         ELSE \E d \in {SubSeq(disk[q], 1, size), Corrupted(SubSeq(disk[q], 1, size))} :
                Step(p, q, [h EXCEPT !.at = "built", !.ok = TRUE, !.data = d])
  /\ UNCHANGED <<disk, loads, peer, commands, faults>>

Add(p, q) ==
  /\ handler[p][q].at = "built"
  /\ loads' = [loads EXCEPT ![q] = @ + 1]
  /\ Step(p, q, [handler[p][q] EXCEPT !.at = "loaded"])
  /\ UNCHANGED <<disk, peer, commands, faults>>

Send(p, q) ==
  /\ handler[p][q].at = "loaded"
  /\ IF handler[p][q].late THEN UNCHANGED <<ui, queue, attempt, data>>
                           ELSE Received(p, handler[p][q])
  /\ Step(p, q, [NoHandler EXCEPT !.at = "sent"])
  /\ UNCHANGED <<disk, loads, found, estimate, commands, faults>>

\* A handler that could not read the file has nothing to take back.
SubBug(p, q) ==
  /\ handler[p][q].at = "sent"
  /\ loads' = [loads EXCEPT ![q] = IF disk[q] = Absent THEN @ ELSE @ - 1]
  /\ Step(p, q, NoHandler)
  /\ UNCHANGED <<disk, peer, commands, faults>>

Sub(p, q) ==
  /\ handler[p][q].at = "sent"
  /\ loads' = [loads EXCEPT ![q] = @ - 1]
  /\ Step(p, q, NoHandler)
  /\ UNCHANGED <<disk, peer, commands, faults>>

-----------------------------------------------------------------------------
Orders == UNION {{s \in [1 .. n -> Peers] : \A j, k \in 1 .. n : j # k => s[j] # s[k]} :
                 n \in 1 .. Cardinality(Peers)}

Ui(p) ==
  \/ \E set \in SUBSET Peers : Locate(p, set)
  \/ \E q \in Peers : QueryLoad(p, q)
  \/ \E order \in Orders : Sort(p, order)
  \/ Attempt(p) \/ Open(p) \/ Write(p) \/ Close(p)

Serve(p, q) == Checksum(p, q) \/ Read(p, q) \/ Add(p, q) \/ Send(p, q) \/ Sub(p, q)

Next ==
  \/ \E p \in Peers, c \in Originals \cup {Absent} : Edit(p, c)
  \/ \E p \in Peers : Command(p) \/ Ui(p) \/ AttemptFails(p) \/ WriteFails(p)
  \/ \E p, q \in Peers : Serve(p, q)

Spec == Init /\ [][Next]_vars

\* UI and handler threads run; users may or may not do something.
Fairness ==
  /\ \A p \in Peers : WF_vars(Ui(p))
  /\ \A p, q \in Peers : WF_vars(Serve(p, q))

FairSpec == Spec /\ Fairness

-----------------------------------------------------------------------------
(* Properties *)

TypeOK ==
  /\ disk \in [Peers -> Contents \cup {Absent}]
  /\ loads \in [Peers -> Int]
  /\ handler \in [Peers -> [Peers -> Handler]]
  /\ ui \in [Peers -> UiState]
  /\ found \in [Peers -> SUBSET Peers]
  /\ estimate \in [Peers -> [Peers -> 0 .. NaN]]
  /\ queue \in [Peers -> Seq(Peers)]
  /\ \A p \in Peers : ui[p] \in {"try", "wait"} => queue[p] # << >>
  /\ attempt \in [Peers -> 1 .. Retry]
  /\ data \in [Peers -> Contents]
  /\ commands \in [Peers -> 0 .. MaxCommands]
  /\ faults \in 0 .. MaxFaults

Genuine(d) == \E v \in Originals : Prefix(d, v)

\* However responses are corrupted, files are changed between the checksum and
\* the read (file.c:53-68) and copies are served while they are written, no
\* shared folder ever holds anything but an original or a beginning of one: the
\* checksum (ui.c:163) lets nothing else through, from peer to peer.
OnlyGenuineStored == \A p \in Peers : disk[p] # Absent => Genuine(disk[p])

\* A command comes to its end, so that the user can give the next one
\* (ui.c:153-192), and when nobody downloads any more the load counters are back
\* at zero, whatever became of the downloads (connection_handler.c:81-95).
DownloadsEnd ==
  /\ \A p \in Peers : (ui[p] = "locate") ~> (ui[p] \in {"idle", "success", "failed"})
  /\ <>[](\A q \in Peers : loads[q] = 0)

\* "Successfully downloaded" (ui.c:185): the user has the whole file.
WholeFileStored ==
  \A p \in Peers : ui[p] = "success" => disk[p] \in Originals \cup {Absent}
=============================================================================
