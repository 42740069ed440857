--------------------------- MODULE DownloadProofs ----------------------------
(***************************************************************************)
(* Proofs about downloads, for any number of peers and files of any        *)
(* length.  That folders hold only genuine contents is not inductive by    *)
(* itself: what is written has been on its way as the checksum and the     *)
(* data of a response, and before that in another folder.  The invariant   *)
(* adds that a checksum which may still be believed is that of a beginning *)
(* of an original, and so is what has been validated.                      *)
(***************************************************************************)
EXTENDS Download, FiniteSetTheorems, TLAPS

\* What has been validated, and what responses announce, is genuine.
DataGenuine == \A p \in Peers : ui[p] \in {"open", "write"} => Genuine(data[p])
SumsGenuine ==
  \A p, q \in Peers : handler[p][q].at = "summed" \/ handler[p][q].ok => Genuine(handler[p][q].sum)

\* A file that is being written is there.
Writing == \A p \in Peers : ui[p] = "write" => disk[p] # Absent

Good == OnlyGenuineStored /\ DataGenuine /\ SumsGenuine /\ Writing

Sound == TypeOK /\ Good

\* A handler whose response is still waited for serves the peer's current attempt.
Active(h) == h.at \in {"asked", "summed", "built", "loaded"} /\ ~h.late
Awaited == \A p, q \in Peers : Active(handler[p][q]) => ui[p] = "wait" /\ q = Head(queue[p])

IInv == Sound /\ Awaited

-----------------------------------------------------------------------------
(* Facts about contents. *)

\* A beginning of contents is contents, and genuine if they are.
LEMMA Beginning ==
  ASSUME NEW d \in Contents, NEW n \in 0 .. Len(d)
  PROVE  /\ SubSeq(d, 1, n) \in Contents
         /\ Genuine(d) => Genuine(SubSeq(d, 1, n))
<1> DEFINE e == SubSeq(d, 1, n)
<1>1. e \in Contents /\ Len(e) = n /\ \A k \in 1 .. n : e[k] = d[k]
  BY DEF Contents
<1> HIDE DEF e
<1>2. ASSUME Genuine(d) PROVE Genuine(e)
  <2>1. PICK v \in Originals : Len(d) <= Len(v) /\ \A k \in 1 .. Len(d) : d[k] = v[k]
    BY <1>2 DEF Genuine, Prefix
  <2>2. Len(v) \in Nat /\ Len(d) \in Nat
    BY ContentAssumption DEF Contents
  <2>3. Len(e) <= Len(v) /\ \A k \in 1 .. Len(e) : e[k] = v[k]
    BY <1>1, <2>1, <2>2
  <2> QED BY <2>3 DEF Genuine, Prefix
<1> QED BY <1>1, <1>2 DEF e

\* The empty file is a beginning of what is genuine.
LEMMA Emptied ==
  ASSUME NEW d, Genuine(d)
  PROVE  Genuine(<< >>)
<1>1. PICK v \in Originals : TRUE
  BY DEF Genuine
<1>2. Len(v) \in Nat
  BY ContentAssumption
<1> QED BY <1>1, <1>2 DEF Genuine, Prefix

\* Originals are genuine contents.
LEMMA OriginalGenuine ==
  ASSUME NEW v \in Originals
  PROVE  v \in Contents /\ Genuine(v) /\ v # Absent
<1>1. v \in Seq(Blocks) /\ Len(v) \in Nat
  BY ContentAssumption
<1>2. v \in Contents
  BY <1>1 DEF Contents
<1>3. Genuine(v)
  BY <1>1 DEF Genuine, Prefix
<1> QED BY <1>2, <1>3, ContentAssumption

\* The simulated corruption keeps the size.
LEMMA CorruptedTyped ==
  ASSUME NEW d \in Contents
  PROVE  Corrupted(d) \in Contents
BY DEF Corrupted, Contents

\* Handlers.
LEMMA HandlersTyped ==
  /\ NoHandler \in Handler /\ NewHandler \in Handler /\ [NoHandler EXCEPT !.at = "sent"] \in Handler
  /\ NoHandler.ok = FALSE /\ NoHandler.at = "none"
  /\ NewHandler.ok = FALSE /\ NewHandler.at = "asked"
  /\ << >> \in Contents
<1>1. << >> \in Contents
  BY DEF Contents
<1> QED BY <1>1 DEF NoHandler, NewHandler, Handler, HandlerState

-----------------------------------------------------------------------------
(* Parts of steps. *)

\* A fault is counted within its bound.
LEMMA FaultCounted ==
  ASSUME TypeOK, Fault
  PROVE  faults' \in 0 .. MaxFaults
BY SizeAssumption DEF TypeOK, Fault

\* A handler takes a step.
LEMMA Stepped ==
  ASSUME TypeOK, NEW p \in Peers, NEW q \in Peers, NEW h \in Handler, Step(p, q, h)
  PROVE  /\ handler' \in [Peers -> [Peers -> Handler]]
         /\ handler'[p][q] = h
         /\ \A x, y \in Peers : ~(x = p /\ y = q) => handler'[x][y] = handler[x][y]
BY DEF TypeOK, Step

\* What handlers announce stays genuine if what this one announces is.
LEMMA SumsKept ==
  ASSUME TypeOK, SumsGenuine, NEW p \in Peers, NEW q \in Peers, NEW h \in Handler, Step(p, q, h),
         h.at = "summed" \/ h.ok => Genuine(h.sum)
  PROVE  SumsGenuine'
<1> SUFFICES ASSUME NEW x \in Peers, NEW y \in Peers, handler'[x][y].at = "summed" \/ handler'[x][y].ok
             PROVE  Genuine(handler'[x][y].sum)
  BY DEF SumsGenuine, Genuine
<1>1. CASE x = p /\ y = q
  BY <1>1, Stepped
<1>2. CASE ~(x = p /\ y = q)
  <2>1. handler'[x][y] = handler[x][y]
    BY <1>2, Stepped
  <2> QED BY <2>1 DEF SumsGenuine
<1> QED BY <1>1, <1>2

\* The UI thread goes on to another state, in which it tries no peer.
LEMMA Gone ==
  ASSUME TypeOK, NEW p \in Peers, NEW u \in UiState, Goto(p, u)
  PROVE  ui' \in [Peers -> UiState] /\ ui'[p] = u /\ \A x \in Peers : x # p => ui'[x] = ui[x]
BY DEF TypeOK, Goto

\* After an attempt that failed there is a peer to try, or the command is over
\* (ui.c:153-177).
LEMMA NextTyped ==
  ASSUME TypeOK, NEW p \in Peers, ui[p] \in {"try", "wait"}, NextAttempt(p)
  PROVE  /\ ui' \in [Peers -> UiState] /\ queue' \in [Peers -> Seq(Peers)]
         /\ attempt' \in [Peers -> 1 .. Retry] /\ data' = data
         /\ ui'[p] \in {"try", "failed"} /\ \A x \in Peers : x # p => ui'[x] = ui[x]
         /\ \A x \in Peers : ui'[x] \in {"try", "wait"} => queue'[x] # << >>
<1>1. /\ queue \in [Peers -> Seq(Peers)] /\ attempt \in [Peers -> 1 .. Retry] /\ Retry \in Nat \ {0}
      /\ queue[p] \in Seq(Peers) /\ queue[p] # << >> /\ attempt[p] \in 1 .. Retry
      /\ \A x \in Peers : ui[x] \in {"try", "wait"} => queue[x] # << >>
  BY SizeAssumption DEF TypeOK
<1>2. CASE attempt[p] < Retry
  <2>1. attempt' = [attempt EXCEPT ![p] = attempt[p] + 1] /\ Goto(p, "try") /\ queue' = queue /\ data' = data
    BY <1>2 DEF NextAttempt
  <2>2. attempt' \in [Peers -> 1 .. Retry]
    BY <1>1, <1>2, <2>1
  <2>3. ui' \in [Peers -> UiState] /\ ui'[p] = "try" /\ \A x \in Peers : x # p => ui'[x] = ui[x]
    BY <2>1, Gone DEF UiState
  <2> QED BY <1>1, <2>1, <2>2, <2>3
<1>3. CASE ~(attempt[p] < Retry)
  <2> DEFINE u == IF Len(queue[p]) = 1 THEN "failed" ELSE "try"
  <2>1. attempt' = [attempt EXCEPT ![p] = 1] /\ queue' = [queue EXCEPT ![p] = Tail(queue[p])]
          /\ Goto(p, u) /\ data' = data
    BY <1>3 DEF NextAttempt
  <2>2. Tail(queue[p]) \in Seq(Peers) /\ (Len(queue[p]) # 1 => Tail(queue[p]) # << >>)
    <3> DEFINE t == Tail(queue[p])
    <3>1. Len(queue[p]) \in Nat \ {0} /\ t \in Seq(Peers) /\ Len(t) = Len(queue[p]) - 1
      BY <1>1
    <3> HIDE DEF t
    <3>2. Len(queue[p]) # 1 => Len(t) # 0
      BY <3>1
    <3>3. Len(queue[p]) # 1 => t # << >>
      BY <3>2
    <3> QED BY <3>1, <3>3 DEF t
  <2>3. u \in UiState
    BY DEF UiState
  <2>4. ui' \in [Peers -> UiState] /\ ui'[p] = u /\ \A x \in Peers : x # p => ui'[x] = ui[x]
    BY <2>1, <2>3, Gone
  <2>5. attempt' \in [Peers -> 1 .. Retry] /\ queue' \in [Peers -> Seq(Peers)]
          /\ queue'[p] = Tail(queue[p]) /\ \A x \in Peers : x # p => queue'[x] = queue[x]
    BY <1>1, <2>1, <2>2
  <2> QED BY <1>1, <2>1, <2>2, <2>4, <2>5
<1> QED BY <1>2, <1>3

\* The order of the peers is a sequence that is not empty.
LEMMA OrderTyped ==
  ASSUME NEW order \in Orders
  PROVE  order \in Seq(Peers) /\ order # << >>
<1>1. Cardinality(Peers) \in Nat
  BY PeersAssumption, FS_CardinalityType
<1>2. PICK n \in 1 .. Cardinality(Peers) : order \in [1 .. n -> Peers]
  BY DEF Orders
<1>3. n \in Nat \ {0}
  BY <1>1, <1>2
<1>4. order \in Seq(Peers) /\ Len(order) = n
  BY <1>2, <1>3
<1> QED BY <1>3, <1>4

\* The UI thread of p leaves the folder alone.
LEMMA FolderKept ==
  ASSUME Good, NEW p \in Peers, disk' = disk, SumsGenuine',
         \A x \in Peers : x # p => ui'[x] = ui[x] /\ data'[x] = data[x],
         ui'[p] # "write", ui'[p] = "open" => Genuine(data'[p])
  PROVE  Good'
<1>1. OnlyGenuineStored'
  BY DEF Good, OnlyGenuineStored
<1>2. DataGenuine'
  <2> SUFFICES ASSUME NEW x \in Peers, ui'[x] \in {"open", "write"} PROVE Genuine(data'[x])
    BY DEF DataGenuine
  <2>1. CASE x = p
    BY <2>1
  <2>2. CASE x # p
    BY <2>2 DEF Good, DataGenuine
  <2> QED BY <2>1, <2>2
<1>3. Writing'
  BY DEF Good, Writing
<1> QED BY <1>1, <1>2, <1>3 DEF Good

\* Only handlers change.
LEMMA UiKept ==
  ASSUME Good, disk' = disk, ui' = ui, data' = data, SumsGenuine'
  PROVE  Good'
BY DEF Good, OnlyGenuineStored, DataGenuine, Writing

\* Only folders and UI threads change.
LEMMA HandlersKept ==
  ASSUME SumsGenuine, handler' = handler
  PROVE  SumsGenuine'
BY DEF SumsGenuine

-----------------------------------------------------------------------------
(* The steps of UI threads. *)

LEMMA EditGood ==
  ASSUME Sound, NEW p \in Peers, NEW c \in Originals \cup {Absent}, Edit(p, c)
  PROVE  Sound'
<1>1. c \in Contents \cup {Absent} /\ (c # Absent => Genuine(c))
  BY OriginalGenuine
<1>2. faults' \in 0 .. MaxFaults
  BY FaultCounted DEF Sound, Edit
<1>3. TypeOK'
  BY <1>1, <1>2 DEF Sound, TypeOK, Edit, peer
<1>4. OnlyGenuineStored'
  BY <1>1 DEF Sound, TypeOK, Good, OnlyGenuineStored, Edit
<1>5. DataGenuine' /\ SumsGenuine'
  BY DEF Sound, Good, DataGenuine, SumsGenuine, Edit, peer
<1>6. Writing'
  BY DEF Sound, TypeOK, Good, Writing, Edit, peer
<1> QED BY <1>3, <1>4, <1>5, <1>6 DEF Sound, Good

LEMMA CommandGood ==
  ASSUME Sound, NEW p \in Peers, Command(p)
  PROVE  Sound'
<1>1. ui' \in [Peers -> UiState] /\ ui'[p] = "locate" /\ \A x \in Peers : x # p => ui'[x] = ui[x]
  BY Gone DEF Sound, Command, UiState
<1>2. commands' \in [Peers -> 0 .. MaxCommands]
  BY SizeAssumption DEF Sound, TypeOK, Command
<1>3. TypeOK'
  BY <1>1, <1>2 DEF Sound, TypeOK, Command
<1>4. Good'
  BY <1>1, HandlersKept, FolderKept DEF Sound, Good, Command
<1> QED BY <1>3, <1>4 DEF Sound

LEMMA LocateGood ==
  ASSUME Sound, NEW p \in Peers, NEW set \in SUBSET Peers, Locate(p, set)
  PROVE  Sound'
<1> DEFINE u == IF set = {} THEN "idle" ELSE "load"
<1>1. u \in UiState /\ u \in {"idle", "load"} /\ Goto(p, u)
  BY DEF UiState, Locate
<1> HIDE DEF u
<1>2. ui' \in [Peers -> UiState] /\ ui'[p] = u /\ \A x \in Peers : x # p => ui'[x] = ui[x]
  BY <1>1, Gone DEF Sound
<1>3. TypeOK'
  BY <1>1, <1>2 DEF Sound, TypeOK, Locate
<1>4. Good'
  BY <1>1, <1>2, HandlersKept, FolderKept DEF Sound, Good, Locate
<1> QED BY <1>3, <1>4 DEF Sound

LEMMA QueryLoadGood ==
  ASSUME Sound, NEW p \in Peers, NEW q \in Peers, QueryLoad(p, q)
  PROVE  Sound'
<1>1. PICK e \in 0 .. NaN : estimate' = [estimate EXCEPT ![p][q] = e]
  <2>1. GetThroughPut(q) \in Int
    <3>1. MaxThroughPut \in Nat /\ MaxPeers \in Nat /\ MaxPeers > 0
      BY SizeAssumption
    <3>2. MaxThroughPut \div MaxPeers \in Int
      BY <3>1
    <3>3. loads[q] \in Int
      BY DEF Sound, TypeOK
    <3>4. \A x, y, z \in Int : x - y * z \in Int
      OBVIOUS
    <3> QED BY <3>1, <3>2, <3>3, <3>4 DEF GetThroughPut
  <2>2. \A empty \in BOOLEAN : Estimate(GetThroughPut(q), empty) \in 0 .. NaN
    BY <2>1 DEF Estimate, Negative, Finite, DblMax, Infinite, NaN
  <2>3. DblMax \in 0 .. NaN
    BY DEF DblMax, NaN
  <2> QED BY <2>2, <2>3 DEF QueryLoad
<1>2. faults' \in 0 .. MaxFaults
  BY FaultCounted DEF Sound, TypeOK, QueryLoad
<1>3. estimate' \in [Peers -> [Peers -> 0 .. NaN]]
  BY <1>1 DEF Sound, TypeOK
<1>4. TypeOK'
  BY <1>2, <1>3 DEF Sound, TypeOK, QueryLoad
<1>5. Good'
  BY HandlersKept, UiKept DEF Sound, Good, QueryLoad
<1> QED BY <1>4, <1>5 DEF Sound

LEMMA SortGood ==
  ASSUME Sound, NEW p \in Peers, NEW order \in Orders, Sort(p, order)
  PROVE  Sound'
<1>1. ui' \in [Peers -> UiState] /\ ui'[p] = "try" /\ \A x \in Peers : x # p => ui'[x] = ui[x]
  BY Gone DEF Sound, Sort, UiState
<1>2. queue' \in [Peers -> Seq(Peers)] /\ queue'[p] # << >> /\ \A x \in Peers : x # p => queue'[x] = queue[x]
  BY OrderTyped DEF Sound, TypeOK, Sort
<1>3. estimate' \in [Peers -> [Peers -> 0 .. NaN]]
  BY DEF Sound, TypeOK, Sort, NaN
<1>4. \A x \in Peers : ui'[x] \in {"try", "wait"} => queue'[x] # << >>
  BY <1>1, <1>2 DEF Sound, TypeOK
<1>5. TypeOK'
  BY <1>1, <1>2, <1>3, <1>4 DEF Sound, TypeOK, Sort
<1>6. Good'
  BY <1>1, HandlersKept, FolderKept DEF Sound, Good, Sort
<1> QED BY <1>5, <1>6 DEF Sound

\* There is a peer to try.
LEMMA HeadTyped ==
  ASSUME TypeOK, NEW p \in Peers, ui[p] \in {"try", "wait"}
  PROVE  Head(queue[p]) \in Peers
<1>1. queue[p] \in Seq(Peers) /\ queue[p] # << >>
  BY DEF TypeOK
<1> QED BY <1>1

LEMMA AttemptGood ==
  ASSUME Sound, NEW p \in Peers, Attempt(p)
  PROVE  Sound'
<1>1. ui' \in [Peers -> UiState] /\ ui'[p] = "wait" /\ \A x \in Peers : x # p => ui'[x] = ui[x]
  BY Gone DEF Sound, Attempt, UiState
<1>2. Head(queue[p]) \in Peers
  BY HeadTyped DEF Sound, Attempt
<1>3. Step(p, Head(queue[p]), NewHandler)
  BY DEF Attempt, Step
<1>4. handler' \in [Peers -> [Peers -> Handler]] /\ SumsGenuine'
  BY <1>2, <1>3, HandlersTyped, Stepped, SumsKept DEF Sound, Good
<1>5. \A x \in Peers : ui'[x] \in {"try", "wait"} => queue'[x] # << >>
  BY <1>1 DEF Sound, TypeOK, Attempt
<1>6. TypeOK'
  BY <1>1, <1>4, <1>5 DEF Sound, TypeOK, Attempt
<1>7. Good'
  BY <1>1, <1>4, FolderKept DEF Sound, Attempt
<1> QED BY <1>6, <1>7 DEF Sound

LEMMA AttemptFailsGood ==
  ASSUME Sound, NEW p \in Peers, AttemptFails(p)
  PROVE  Sound'
<1> DEFINE q == Head(queue[p])
           h == [handler[p][q] EXCEPT !.late = (handler[p][q].late \/ ui[p] = "wait")]
<1>1. q \in Peers
  BY HeadTyped DEF Sound, AttemptFails
<1>2. handler[p][q] \in Handler
  BY <1>1 DEF Sound, TypeOK
<1>3. h \in Handler /\ h.at = handler[p][q].at /\ h.ok = handler[p][q].ok /\ h.sum = handler[p][q].sum
  BY <1>2 DEF Handler
<1>4. Step(p, q, h)
  BY DEF AttemptFails, Step
<1> HIDE DEF h, q
<1>5. handler' \in [Peers -> [Peers -> Handler]]
  BY <1>1, <1>3, <1>4, Stepped DEF Sound
<1>6. SumsGenuine'
  <2>1. h.at = "summed" \/ h.ok => Genuine(h.sum)
    BY <1>1, <1>3 DEF Sound, Good, SumsGenuine
  <2> QED BY <1>1, <1>3, <1>4, <2>1, SumsKept DEF Sound, Good
<1>7. NextAttempt(p) /\ ui[p] \in {"try", "wait"} /\ Fault
  BY DEF AttemptFails
<1>8. faults' \in 0 .. MaxFaults
  BY <1>7, FaultCounted DEF Sound
<1>9. TypeOK'
  BY <1>5, <1>7, <1>8, NextTyped DEF Sound, TypeOK, AttemptFails
<1>10. Good'
  <2>1. /\ data' = data /\ ui'[p] \in {"try", "failed"}
        /\ \A x \in Peers : x # p => ui'[x] = ui[x]
    BY <1>7, NextTyped DEF Sound
  <2> QED BY <1>6, <2>1, FolderKept DEF Sound, AttemptFails
<1> QED BY <1>9, <1>10 DEF Sound

LEMMA OpenGood ==
  ASSUME Sound, NEW p \in Peers, Open(p)
  PROVE  Sound'
<1>1. ui' \in [Peers -> UiState] /\ ui'[p] = "write" /\ \A x \in Peers : x # p => ui'[x] = ui[x]
  BY Gone DEF Sound, Open, UiState
<1>2. << >> \in Contents /\ << >> # Absent /\ Genuine(<< >>)
  BY HandlersTyped, ContentAssumption, Emptied DEF Sound, Good, DataGenuine, Open
<1>3. TypeOK'
  BY <1>1, <1>2 DEF Sound, TypeOK, Open
<1>4. OnlyGenuineStored'
  BY <1>2 DEF Sound, TypeOK, Good, OnlyGenuineStored, Open
<1>5. DataGenuine'
  BY <1>1 DEF Sound, TypeOK, Good, DataGenuine, Open
<1>6. Writing'
  BY <1>1, <1>2 DEF Sound, TypeOK, Good, Writing, Open
<1>7. SumsGenuine'
  BY HandlersKept DEF Sound, Good, Open
<1> QED BY <1>3, <1>4, <1>5, <1>6, <1>7 DEF Sound, Good

LEMMA WriteGood ==
  ASSUME Sound, NEW p \in Peers, Write(p)
  PROVE  Sound'
<1> DEFINE d == SubSeq(data[p], 1, Len(disk[p]) + 1)
<1>1. disk[p] \in Contents /\ data[p] \in Contents /\ Genuine(data[p])
  BY DEF Sound, TypeOK, Good, Writing, DataGenuine, Write
<1>2. Len(disk[p]) + 1 \in 0 .. Len(data[p])
  <2>1. Len(disk[p]) \in Nat /\ Len(data[p]) \in Nat /\ Len(disk[p]) < Len(data[p])
    BY <1>1 DEF Contents, Write
  <2> QED BY <2>1
<1>3. d \in Contents /\ Genuine(d)
  BY <1>1, <1>2, Beginning
<1>4. d # Absent /\ disk' = [disk EXCEPT ![p] = d]
  BY <1>3, ContentAssumption DEF Write
<1> HIDE DEF d
<1>5. TypeOK'
  BY <1>3, <1>4 DEF Sound, TypeOK, Write, peer
<1>6. OnlyGenuineStored'
  BY <1>3, <1>4 DEF Sound, TypeOK, Good, OnlyGenuineStored
<1>7. DataGenuine' /\ SumsGenuine'
  BY DEF Sound, Good, DataGenuine, SumsGenuine, Write, peer
<1>8. Writing'
  BY <1>4 DEF Sound, TypeOK, Good, Writing, Write, peer
<1> QED BY <1>5, <1>6, <1>7, <1>8 DEF Sound, Good

LEMMA EndGood ==
  ASSUME Sound, NEW p \in Peers, Close(p) \/ WriteFails(p)
  PROVE  Sound'
<1>1. ui' \in [Peers -> UiState] /\ ui'[p] = "success" /\ \A x \in Peers : x # p => ui'[x] = ui[x]
  BY Gone DEF Sound, Close, WriteFails, UiState
<1>2. data' \in [Peers -> Contents] /\ \A x \in Peers : x # p => data'[x] = data[x]
  BY HandlersTyped DEF Sound, TypeOK, Close, WriteFails
<1>3. faults' \in 0 .. MaxFaults
  BY FaultCounted DEF Sound, TypeOK, Close, WriteFails
<1>4. TypeOK'
  BY <1>1, <1>2, <1>3 DEF Sound, TypeOK, Close, WriteFails
<1>5. Good'
  BY <1>1, <1>2, HandlersKept, FolderKept DEF Sound, Good, Close, WriteFails
<1> QED BY <1>4, <1>5 DEF Sound

-----------------------------------------------------------------------------
(* The steps of handlers. *)

\* A step of a handler alone, whose result announces what is genuine.
LEMMA ServedGood ==
  ASSUME Sound, NEW p \in Peers, NEW q \in Peers, NEW h \in Handler, Step(p, q, h),
         h.at = "summed" \/ h.ok => Genuine(h.sum),
         loads' \in [Peers -> Int], UNCHANGED <<disk, peer, commands, faults>>
  PROVE  Sound'
<1>1. handler' \in [Peers -> [Peers -> Handler]]
  BY Stepped DEF Sound
<1>2. SumsGenuine'
  BY SumsKept DEF Sound, Good
<1>3. TypeOK'
  BY <1>1 DEF Sound, TypeOK, peer
<1>4. Good'
  BY <1>2, UiKept DEF Sound, peer
<1> QED BY <1>3, <1>4 DEF Sound

\* A handler that has failed, or is about to say so.
LEMMA FailedTyped ==
  ASSUME NEW h \in Handler
  PROVE  Failed(h) \in Handler /\ Failed(h).at = "built" /\ Failed(h).ok = FALSE
BY HandlersTyped DEF Failed, Handler, HandlerState

LEMMA ChecksumGood ==
  ASSUME Sound, NEW p \in Peers, NEW q \in Peers, Checksum(p, q)
  PROVE  Sound'
<1>1. handler[p][q] \in Handler /\ disk[q] \in Contents \cup {Absent}
  BY DEF Sound, TypeOK
<1>2. loads' \in [Peers -> Int] /\ UNCHANGED <<disk, peer, commands, faults>>
  BY DEF Sound, TypeOK, Checksum
<1>3. CASE disk[q] = Absent
  <2>1. Step(p, q, Failed(handler[p][q]))
    BY <1>3 DEF Checksum
  <2> QED BY <1>1, <1>2, <2>1, FailedTyped, ServedGood
<1>4. CASE disk[q] # Absent
  <2> DEFINE h == [handler[p][q] EXCEPT !.at = "summed", !.sum = disk[q]]
  <2>1. Step(p, q, h)
    BY <1>4 DEF Checksum
  <2>2. h \in Handler /\ h.sum = disk[q]
    BY <1>1, <1>4 DEF Handler, HandlerState
  <2>3. Genuine(disk[q])
    BY <1>4 DEF Sound, Good, OnlyGenuineStored
  <2> HIDE DEF h
  <2> QED BY <1>2, <2>1, <2>2, <2>3, ServedGood
<1> QED BY <1>3, <1>4

LEMMA ReadGood ==
  ASSUME Sound, NEW p \in Peers, NEW q \in Peers, Read(p, q)
  PROVE  Sound'
<1> DEFINE h == handler[p][q]
           part == SubSeq(disk[q], 1, Len(h.sum))
<1>1. h \in Handler /\ h.sum \in Contents /\ disk[q] \in Contents \cup {Absent}
  BY DEF Sound, TypeOK, Handler
<1>2. h.at = "summed" /\ Genuine(h.sum)
  BY DEF Sound, Good, SumsGenuine, Read
<1>3. loads' \in [Peers -> Int] /\ UNCHANGED <<disk, peer, commands, faults>>
  BY DEF Sound, TypeOK, Read
<1>4. CASE Step(p, q, Failed(h))
  BY <1>1, <1>3, <1>4, FailedTyped, ServedGood
<1>5. CASE ~Step(p, q, Failed(h))
  <2>1. /\ disk[q] # Absent /\ ~(Len(disk[q]) < Len(h.sum))
        /\ \E d \in {part, Corrupted(part)} : Step(p, q, [h EXCEPT !.at = "built", !.ok = TRUE, !.data = d])
    BY <1>5 DEF Read
  <2>2. PICK d \in {part, Corrupted(part)} : Step(p, q, [h EXCEPT !.at = "built", !.ok = TRUE, !.data = d])
    BY <2>1
  <2>3. disk[q] \in Contents /\ Len(h.sum) \in 0 .. Len(disk[q])
    <3>1. disk[q] \in Contents /\ Len(h.sum) \in Nat /\ Len(disk[q]) \in Nat
      BY <1>1, <2>1 DEF Contents
    <3> QED BY <2>1, <3>1
  <2>4. part \in Contents
    BY <2>3, Beginning
  <2>5. d \in Contents
    BY <2>2, <2>4, CorruptedTyped
  <2> DEFINE g == [h EXCEPT !.at = "built", !.ok = TRUE, !.data = d]
  <2>6. g \in Handler /\ g.sum = h.sum
    BY <1>1, <2>5 DEF Handler, HandlerState
  <2>7. Step(p, q, g)
    BY <2>2
  <2> HIDE DEF g, h
  <2> QED BY <1>2, <1>3, <2>6, <2>7, ServedGood
<1> QED BY <1>4, <1>5

LEMMA LoadGood ==
  ASSUME Sound, NEW p \in Peers, NEW q \in Peers, Add(p, q) \/ Sub(p, q)
  PROVE  Sound'
<1>1. handler[p][q] \in Handler /\ loads' \in [Peers -> Int] /\ UNCHANGED <<disk, peer, commands, faults>>
  <2>1. handler[p][q] \in Handler /\ loads \in [Peers -> Int]
    BY DEF Sound, TypeOK
  <2>2. \/ loads' = [loads EXCEPT ![q] = loads[q] + 1]
        \/ loads' = [loads EXCEPT ![q] = loads[q] - 1]
    BY DEF Add, Sub
  <2>3. loads' \in [Peers -> Int]
    BY <2>1, <2>2
  <2>4. UNCHANGED <<disk, peer, commands, faults>>
    BY DEF Add, Sub
  <2> QED BY <2>1, <2>3, <2>4
<1>2. CASE Add(p, q)
  <2> DEFINE h == [handler[p][q] EXCEPT !.at = "loaded"]
  <2>1. Step(p, q, h)
    BY <1>2 DEF Add
  <2>2. h \in Handler /\ h.at = "loaded" /\ h.ok = handler[p][q].ok /\ h.sum = handler[p][q].sum
    BY <1>1 DEF Handler, HandlerState
  <2> HIDE DEF h
  <2>3. h.at = "summed" \/ h.ok => Genuine(h.sum)
    BY <2>2 DEF Sound, Good, SumsGenuine
  <2> QED BY <1>1, <2>1, <2>2, <2>3, ServedGood
<1>3. CASE Sub(p, q)
  <2>1. Step(p, q, NoHandler)
    BY <1>3 DEF Sub
  <2> QED BY <1>1, <2>1, HandlersTyped, ServedGood
<1> QED BY <1>2, <1>3

\* A response that is waited for is taken or not, and then the next peer may be
\* tried (ui.c:153-185).
LEMMA ReceivedTyped ==
  ASSUME TypeOK, NEW p \in Peers, ui[p] = "wait", NEW h \in Handler, Received(p, h),
         h.ok => Genuine(h.sum)
  PROVE  /\ ui' \in [Peers -> UiState] /\ queue' \in [Peers -> Seq(Peers)]
         /\ attempt' \in [Peers -> 1 .. Retry] /\ data' \in [Peers -> Contents]
         /\ \A x \in Peers : ui'[x] \in {"try", "wait"} => queue'[x] # << >>
         /\ \A x \in Peers : x # p => ui'[x] = ui[x] /\ data'[x] = data[x] /\ queue'[x] = queue[x]
         /\ ui'[p] # "write" /\ (ui'[p] = "open" => Genuine(data'[p]))
<1>1. CASE Valid(h)
  <2>1. /\ data' = [data EXCEPT ![p] = h.data] /\ queue' = [queue EXCEPT ![p] = << >>]
        /\ attempt' = [attempt EXCEPT ![p] = 1] /\ Goto(p, "open")
    BY <1>1 DEF Received
  <2>2. h.data \in Contents /\ Genuine(h.data)
    BY <1>1 DEF Valid, Handler
  <2>3. ui' \in [Peers -> UiState] /\ ui'[p] = "open" /\ \A x \in Peers : x # p => ui'[x] = ui[x]
    BY <2>1, Gone DEF UiState
  <2>4. /\ data' \in [Peers -> Contents] /\ queue' \in [Peers -> Seq(Peers)]
        /\ data'[p] = h.data /\ attempt' \in [Peers -> 1 .. Retry]
        /\ \A x \in Peers : x # p => data'[x] = data[x] /\ queue'[x] = queue[x]
    <3>1. << >> \in Seq(Peers) /\ 1 \in 1 .. Retry
      BY SizeAssumption
    <3> QED BY <2>1, <2>2, <3>1 DEF TypeOK
  <2>5. \A x \in Peers : ui'[x] \in {"try", "wait"} => queue'[x] # << >>
    BY <2>3, <2>4 DEF TypeOK
  <2> QED BY <2>2, <2>3, <2>4, <2>5
<1>2. CASE ~Valid(h)
  <2>1. NextAttempt(p)
    BY <1>2 DEF Received
  <2>2. \A x \in Peers : x # p => queue'[x] = queue[x]
    BY <2>1 DEF NextAttempt, TypeOK
  <2> QED BY <2>1, <2>2, NextTyped DEF TypeOK
<1> QED BY <1>1, <1>2

LEMMA SendGood ==
  ASSUME IInv, NEW p \in Peers, NEW q \in Peers, Send(p, q)
  PROVE  Sound'
<1> DEFINE h == [NoHandler EXCEPT !.at = "sent"]
<1>1. h \in Handler /\ h.at = "sent" /\ h.ok = FALSE
  BY HandlersTyped DEF NoHandler
<1>2. Step(p, q, h) /\ handler[p][q].at = "loaded"
  BY DEF Send
<1> HIDE DEF h
<1>3. handler' \in [Peers -> [Peers -> Handler]] /\ SumsGenuine'
  BY <1>1, <1>2, Stepped, SumsKept DEF IInv, Sound, Good
<1>4. CASE handler[p][q].late
  <2>1. UNCHANGED <<disk, loads, peer, commands, faults>>
    BY <1>4 DEF Send, peer
  <2>2. TypeOK'
    BY <1>3, <2>1 DEF IInv, Sound, TypeOK, peer
  <2> QED BY <1>3, <2>1, <2>2, UiKept DEF IInv, Sound, peer
<1>5. CASE ~handler[p][q].late
  <2>1. Received(p, handler[p][q]) /\ UNCHANGED <<disk, loads, found, estimate, commands, faults>>
    BY <1>5 DEF Send
  <2>2. handler[p][q] \in Handler /\ (handler[p][q].ok => Genuine(handler[p][q].sum))
    BY DEF IInv, Sound, TypeOK, Good, SumsGenuine
  <2>3. ui[p] = "wait"
    BY <1>2, <1>5 DEF IInv, Awaited, Active
  <2>4. TypeOK'
    BY <1>3, <2>1, <2>2, <2>3, ReceivedTyped DEF IInv, Sound, TypeOK
  <2>5. /\ ui'[p] # "write" /\ (ui'[p] = "open" => Genuine(data'[p]))
        /\ \A x \in Peers : x # p => ui'[x] = ui[x] /\ data'[x] = data[x]
    BY <2>1, <2>2, <2>3, ReceivedTyped DEF IInv, Sound
  <2>6. Good'
    BY <1>3, <2>1, <2>5, FolderKept DEF IInv, Sound
  <2> QED BY <2>4, <2>6 DEF Sound
<1> QED BY <1>4, <1>5

-----------------------------------------------------------------------------
(* What is waited for. *)

\* A peer that does not wait, before or after, goes on.
LEMMA AwaitedUi ==
  ASSUME Awaited, NEW p \in Peers, ui[p] # "wait", handler' = handler,
         \A x \in Peers : x # p => ui'[x] = ui[x] /\ queue'[x] = queue[x]
  PROVE  Awaited'
BY DEF Awaited, Active

\* A handler goes on, and is not waited for unless it was.
LEMMA AwaitedServed ==
  ASSUME TypeOK, Awaited, NEW p \in Peers, NEW q \in Peers, NEW h \in Handler, Step(p, q, h),
         ui' = ui, queue' = queue, Active(h) => Active(handler[p][q])
  PROVE  Awaited'
<1> SUFFICES ASSUME NEW x \in Peers, NEW y \in Peers, Active(handler'[x][y])
             PROVE  ui'[x] = "wait" /\ y = Head(queue'[x])
  BY DEF Awaited, Active
<1>1. CASE x = p /\ y = q
  BY <1>1, Stepped DEF Awaited
<1>2. CASE ~(x = p /\ y = q)
  <2>1. handler'[x][y] = handler[x][y]
    BY <1>2, Stepped
  <2> QED BY <2>1 DEF Awaited
<1> QED BY <1>1, <1>2

LEMMA AwaitedByUi ==
  ASSUME IInv, NEW p \in Peers, Command(p) \/ Ui(p) \/ WriteFails(p)
  PROVE  Awaited'
<1>1. \A u \in UiState : Goto(p, u) => \A x \in Peers : x # p => ui'[x] = ui[x]
  BY Gone DEF IInv, Sound
<1>2. CASE Command(p) \/ Open(p) \/ Close(p) \/ WriteFails(p)
  <2>1. ui[p] # "wait" /\ handler' = handler /\ queue' = queue
    BY <1>2 DEF Command, Open, Close, WriteFails
  <2>2. \A x \in Peers : x # p => ui'[x] = ui[x]
    BY <1>1, <1>2 DEF Command, Open, Close, WriteFails, UiState
  <2> QED BY <2>1, <2>2, AwaitedUi DEF IInv
<1>3. ASSUME NEW set \in SUBSET Peers, Locate(p, set) PROVE Awaited'
  <2>1. ui[p] # "wait" /\ handler' = handler /\ queue' = queue
    BY <1>3 DEF Locate
  <2>2. \A x \in Peers : x # p => ui'[x] = ui[x]
    BY <1>1, <1>3 DEF Locate, UiState
  <2> QED BY <2>1, <2>2, AwaitedUi DEF IInv
<1>4. CASE Write(p) \/ \E q \in Peers : QueryLoad(p, q)
  BY <1>4, AwaitedUi DEF IInv, Write, QueryLoad, peer
<1>5. ASSUME NEW order \in Orders, Sort(p, order) PROVE Awaited'
  <2>1. ui[p] # "wait" /\ handler' = handler
    BY <1>5 DEF Sort
  <2>2. \A x \in Peers : x # p => ui'[x] = ui[x] /\ queue'[x] = queue[x]
    BY <1>1, <1>5 DEF Sort, UiState, IInv, Sound, TypeOK
  <2> QED BY <2>1, <2>2, AwaitedUi DEF IInv
<1>6. CASE Attempt(p)
  <2>1. Head(queue[p]) \in Peers /\ Step(p, Head(queue[p]), NewHandler) /\ queue' = queue /\ ui[p] = "try"
    BY <1>6, HeadTyped DEF IInv, Sound, Attempt, Step
  <2>2. ui'[p] = "wait" /\ \A x \in Peers : x # p => ui'[x] = ui[x]
    BY <1>6, Gone DEF IInv, Sound, Attempt, UiState
  <2>3. \A x, y \in Peers : ~(x = p /\ y = Head(queue[p])) => handler'[x][y] = handler[x][y]
    BY <2>1, HandlersTyped, Stepped DEF IInv, Sound
  <2> QED BY <2>1, <2>2, <2>3 DEF IInv, Awaited, Active
<1> QED BY <1>2, <1>3, <1>4, <1>5, <1>6 DEF Ui

\* A handler that is given up on is not waited for any more.
LEMMA AwaitedFails ==
  ASSUME IInv, NEW p \in Peers, AttemptFails(p)
  PROVE  Awaited'
<1> DEFINE q == Head(queue[p])
           h == [handler[p][q] EXCEPT !.late = (handler[p][q].late \/ ui[p] = "wait")]
<1>1. q \in Peers /\ handler[p][q] \in Handler
  BY HeadTyped DEF IInv, Sound, AttemptFails, TypeOK
<1>2. h \in Handler /\ h.at = handler[p][q].at /\ (h.late <=> handler[p][q].late \/ ui[p] = "wait")
  BY <1>1 DEF Handler
<1>3. Step(p, q, h)
  BY DEF AttemptFails, Step
<1>4. ~Active(h)
  BY <1>1, <1>2 DEF IInv, Awaited, Active
<1> HIDE DEF h
<1>5. /\ handler'[p][q] = h
      /\ \A x, y \in Peers : ~(x = p /\ y = q) => handler'[x][y] = handler[x][y]
  BY <1>1, <1>2, <1>3, Stepped DEF IInv, Sound
<1>6. \A x \in Peers : x # p => ui'[x] = ui[x] /\ queue'[x] = queue[x]
  BY NextTyped DEF IInv, Sound, AttemptFails, NextAttempt, TypeOK
<1> SUFFICES ASSUME NEW x \in Peers, NEW y \in Peers, Active(handler'[x][y])
             PROVE  ui'[x] = "wait" /\ y = Head(queue'[x])
  BY DEF Awaited, Active
<1>7. x # p
  BY <1>4, <1>5 DEF IInv, Awaited
<1> QED BY <1>5, <1>6, <1>7 DEF IInv, Awaited

LEMMA AwaitedServe ==
  ASSUME IInv, NEW p \in Peers, NEW q \in Peers, Serve(p, q)
  PROVE  Awaited'
<1>1. handler[p][q] \in Handler
  BY DEF IInv, Sound, TypeOK
<1>2. CASE Checksum(p, q) \/ Read(p, q) \/ Add(p, q) \/ Sub(p, q)
  <2>1. ui' = ui /\ queue' = queue
    BY <1>2 DEF Checksum, Read, Add, Sub, peer
  <2>2. handler'[p][q] \in Handler /\ Step(p, q, handler'[p][q])
    <3>1. handler' \in [Peers -> [Peers -> Handler]]
      BY <1>2, ChecksumGood, ReadGood, LoadGood DEF IInv, Sound, TypeOK
    <3>2. \E h : handler' = [handler EXCEPT ![p][q] = h]
      BY <1>2 DEF Checksum, Read, Add, Sub, Step
    <3> QED BY <3>1, <3>2 DEF Step, IInv, Sound, TypeOK
  <2>3. Active(handler'[p][q]) => Active(handler[p][q])
    <3>1. CASE Checksum(p, q)
      BY <1>1, <3>1 DEF Checksum, Step, Failed, Active, Handler, IInv, Sound, TypeOK
    <3>2. CASE Read(p, q)
      <4>1. PICK h : Step(p, q, h) /\ (\/ h = Failed(handler[p][q])
                                       \/ \E d : h = [handler[p][q] EXCEPT !.at = "built", !.ok = TRUE, !.data = d])
        BY <3>2 DEF Read
      <4>2. handler'[p][q] = h
        BY <4>1 DEF Step, IInv, Sound, TypeOK
      <4>3. h.late = handler[p][q].late
        BY <1>1, <4>1 DEF Failed, Handler
      <4> QED BY <3>2, <4>2, <4>3 DEF Read, Active
    <3>3. CASE Add(p, q)
      BY <1>1, <3>3 DEF Add, Step, Active, Handler, IInv, Sound, TypeOK
    <3>4. CASE Sub(p, q)
      BY <1>1, <3>4, HandlersTyped DEF Sub, Step, Active, IInv, Sound, TypeOK
    <3> QED BY <1>2, <3>1, <3>2, <3>3, <3>4
  <2> QED BY <2>1, <2>2, <2>3, AwaitedServed DEF IInv, Sound
<1>3. CASE Send(p, q)
  <2> DEFINE h == [NoHandler EXCEPT !.at = "sent"]
  <2>1. h \in Handler /\ ~Active(h)
    BY HandlersTyped DEF NoHandler, Active
  <2>2. Step(p, q, h) /\ handler[p][q].at = "loaded"
    BY <1>3 DEF Send
  <2> HIDE DEF h
  <2>3. CASE handler[p][q].late
    <3>1. ui' = ui /\ queue' = queue
      BY <1>3, <2>3 DEF Send
    <3> QED BY <2>1, <2>2, <3>1, AwaitedServed DEF IInv, Sound
  <2>4. CASE ~handler[p][q].late
    <3>1. q = Head(queue[p]) /\ ui[p] = "wait"
      BY <2>2, <2>4 DEF IInv, Awaited, Active
    <3>2. /\ handler'[p][q] = h
          /\ \A x, y \in Peers : ~(x = p /\ y = q) => handler'[x][y] = handler[x][y]
      BY <2>1, <2>2, Stepped DEF IInv, Sound
    <3>3. Received(p, handler[p][q]) /\ (handler[p][q].ok => Genuine(handler[p][q].sum))
      BY <1>3, <2>4 DEF Send, IInv, Sound, Good, SumsGenuine
    <3>4. \A x \in Peers : x # p => ui'[x] = ui[x] /\ queue'[x] = queue[x]
      BY <1>1, <3>1, <3>3, ReceivedTyped DEF IInv, Sound
    <3> SUFFICES ASSUME NEW x \in Peers, NEW y \in Peers, Active(handler'[x][y])
                 PROVE  ui'[x] = "wait" /\ y = Head(queue'[x])
      BY DEF Awaited, Active
    <3>5. x # p
      BY <2>1, <3>1, <3>2 DEF IInv, Awaited
    <3> QED BY <3>2, <3>4, <3>5 DEF IInv, Awaited
  <2> QED BY <2>3, <2>4
<1> QED BY <1>2, <1>3 DEF Serve

-----------------------------------------------------------------------------
(* The theorems. *)

LEMMA InitGood == Init => IInv
<1> SUFFICES ASSUME Init PROVE IInv
  OBVIOUS
<1>1. disk \in [Peers -> Contents \cup {Absent}] /\ OnlyGenuineStored
  BY OriginalGenuine DEF Init, OnlyGenuineStored
<1>2. << >> \in Seq(Peers) /\ 1 \in 1 .. Retry /\ 0 \in 0 .. MaxFaults /\ 0 \in 0 .. MaxCommands
  BY SizeAssumption
<1>3. TypeOK
  BY <1>1, <1>2, HandlersTyped DEF Init, TypeOK, UiState, NaN
<1>4. DataGenuine /\ SumsGenuine /\ Writing /\ Awaited
  BY HandlersTyped DEF Init, DataGenuine, SumsGenuine, Writing, Awaited, Active
<1> QED BY <1>1, <1>3, <1>4 DEF IInv, Sound, Good

\* Every step keeps the invariant.
LEMMA NextGood == IInv /\ [Next]_vars => IInv'
<1> SUFFICES ASSUME IInv, [Next]_vars PROVE IInv'
  OBVIOUS
<1>1. ASSUME NEW p \in Peers, NEW c \in Originals \cup {Absent}, Edit(p, c) PROVE IInv'
  <2>1. Awaited'
    BY <1>1 DEF IInv, Awaited, Active, Edit, peer
  <2> QED BY <1>1, <2>1, EditGood DEF IInv
<1>2. ASSUME NEW p \in Peers, Command(p) \/ Ui(p) \/ WriteFails(p) PROVE IInv'
  <2>1. Sound'
    BY <1>2, CommandGood, LocateGood, QueryLoadGood, SortGood, AttemptGood, OpenGood, WriteGood, EndGood
       DEF IInv, Ui
  <2> QED BY <1>2, <2>1, AwaitedByUi DEF IInv
<1>3. ASSUME NEW p \in Peers, AttemptFails(p) PROVE IInv'
  BY <1>3, AttemptFailsGood, AwaitedFails DEF IInv
<1>4. ASSUME NEW p \in Peers, NEW q \in Peers, Serve(p, q) PROVE IInv'
  <2>1. Sound'
    BY <1>4, ChecksumGood, ReadGood, LoadGood, SendGood DEF IInv, Serve
  <2> QED BY <1>4, <2>1, AwaitedServe DEF IInv
<1>5. CASE UNCHANGED vars
  BY <1>5 DEF IInv, Sound, TypeOK, Good, OnlyGenuineStored, DataGenuine, SumsGenuine, Writing, Awaited,
              Active, vars, peer
<1> QED BY <1>1, <1>2, <1>3, <1>4, <1>5 DEF Next

\* The invariant holds throughout.
THEOREM DownloadGood == Spec => []IInv
BY InitGood, NextGood, PTL DEF Spec

\* Type correctness, for any number of peers and files of any length; while a
\* peer is tried there is one to try, and no more than RETRY_ATTEMPTS_PER_PEER
\* times (ui.c:153-177).
THEOREM TypeCorrect == Spec => []TypeOK
<1>1. IInv => TypeOK
  BY DEF IInv, Sound
<1> QED BY <1>1, DownloadGood, PTL

\* Folders hold nothing but originals and beginnings of them, although files
\* change between checksum and read and are served half-written (file.c:53-68,
\* ui.c:163).
THEOREM GenuineCorrect == Spec => []OnlyGenuineStored
<1>1. IInv => OnlyGenuineStored
  BY DEF IInv, Sound, Good
<1> QED BY <1>1, DownloadGood, PTL
=============================================================================
