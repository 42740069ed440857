--------------------------- MODULE ArticleDatabase ---------------------------
(***************************************************************************)
(* The article database of one bulletin-board server                       *)
(* (project_2/shared/database.c).  Articles live in an array of nodes; the *)
(* order in which a READ lists them is a linked list threaded through the  *)
(* array by the `next' indices, starting at node 0 and ending at the node  *)
(* whose next is -1.  Every operation runs under db_lock, so each is one   *)
(* atomic action.                                                          *)
(*                                                                         *)
(* Author, title and contents are never inspected by the code and are left *)
(* out.  `snapshot' is the copy db_Backup made last, at this server or at  *)
(* a replica that agreed with it; db_Restore later overwrites the database *)
(* with it, as the DB-PUSH handler and the quorum sync thread do.          *)
(***************************************************************************)
EXTENDS Integers

CONSTANTS MaxArticles,   \* MAX_ARTICLES, the length of the node array
          Garbage        \* nodes an uninitialised array slot may hold

None == -1               \* no next node, no parent

Slots == 0 .. MaxArticles - 1

\* `id' is the article's id, the other fields are those of the same name.
Node == [next : Int, id : Int, parent_id : Int, depth : Int]

ASSUME MaxArticlesAssumption == MaxArticles \in Nat \ {0}
ASSUME GarbageAssumption == Garbage \subseteq Node /\ Garbage # {}

VARIABLES
  db,        \* the static ArticleDatabase of the process
  snapshot   \* the ArticleDatabase of the last db_Backup

vars == <<db, snapshot>>

Database == [version : Nat, article_count : 0 .. MaxArticles, nodes : [Slots -> Node]]

\* A static C object starts as all zeroes.
ZeroNode == [next |-> 0, id |-> 0, parent_id |-> 0, depth |-> 0]
ZeroDatabase == [version |-> 0, article_count |-> 0, nodes |-> [i \in Slots |-> ZeroNode]]

Full(d) == d.article_count >= MaxArticles
Used(d) == 0 .. d.article_count - 1

-----------------------------------------------------------------------------
(* Looking things up: the three linear scans of the code. *)

\* The lowest index among S, and the highest.
First(S) == CHOOSE i \in S : \A j \in S : i <= j
Latest(S) == CHOOSE i \in S : \A j \in S : j <= i

\* The nodes that carry an article id, and the direct replies to an article.
WithId(d, article_id) == {i \in Used(d) : d.nodes[i].id = article_id}
Children(d, article_id) == {i \in Used(d) : d.nodes[i].parent_id = article_id}

\* The scan of db_Post for the current last article.  It runs after
\* article_count was incremented, so it also looks at the slot the new
\* article is about to be stored in.
EndOfList(d) == {i \in 0 .. d.article_count : d.nodes[i].next = None}

\* Scanning forward for a sibling finds the oldest reply, not the newest.
ReplyAnchorForwardBug(d, parent_id) ==
  IF Children(d, parent_id) # {} THEN First(Children(d, parent_id))
                                 ELSE First(WithId(d, parent_id))

\* The node a new reply to parent_id is linked behind: the most recent reply
\* to the same article if there is one, else the article itself.
ReplyAnchor(d, parent_id) ==
  IF Children(d, parent_id) # {} THEN Latest(Children(d, parent_id))
                                 ELSE First(WithId(d, parent_id))

-----------------------------------------------------------------------------
(* What each operation makes of the database.  A definition whose name ends in
   Bug is a plausible slip in the code it precedes; it is used only to see that
   the properties notice it. *)

\* nodes with node i's next set to n.
Link(nodes, i, n) == [nodes EXCEPT ![i].next = n]

\* version++ is forgotten.
StoreVersionBug(d, nodes, node) ==
  [version       |-> d.version,
   article_count |-> d.article_count + 1,
   nodes         |-> [nodes EXCEPT ![d.article_count] = node]]

\* The new node is stored and both counters are incremented.
Store(d, nodes, node) ==
  [version       |-> d.version + 1,
   article_count |-> d.article_count + 1,
   nodes         |-> [nodes EXCEPT ![d.article_count] = node]]

\* db_Post on a database with room.
Posted(d) ==
  LET id   == d.article_count
      node == [next |-> None, id |-> id, parent_id |-> None, depth |-> 0]
  IN  Store(d, IF EndOfList(d) = {} THEN d.nodes ELSE Link(d.nodes, First(EndOfList(d)), id), node)

\* The list behind the anchor is dropped: saved_next is not carried over.
RepliedNextBug(d, parent_id) ==
  LET id     == d.article_count
      anchor == ReplyAnchor(d, parent_id)
      node   == [next |-> None, id |-> id, parent_id |-> parent_id,
                 depth |-> d.nodes[First(WithId(d, parent_id))].depth + 1]
  IN  Store(d, Link(d.nodes, anchor, id), node)

\* The depth is taken from the node the reply is linked behind.
RepliedDepthBug(d, parent_id) ==
  LET id     == d.article_count
      anchor == ReplyAnchor(d, parent_id)
      node   == [next |-> d.nodes[anchor].next, id |-> id, parent_id |-> parent_id,
                 depth |-> d.nodes[anchor].depth + 1]
  IN  Store(d, Link(d.nodes, anchor, id), node)

\* db_Reply on a database with room that holds the parent.
Replied(d, parent_id) ==
  LET id     == d.article_count
      anchor == ReplyAnchor(d, parent_id)
      node   == [next |-> d.nodes[anchor].next, id |-> id, parent_id |-> parent_id,
                 depth |-> d.nodes[First(WithId(d, parent_id))].depth + 1]
  IN  Store(d, Link(d.nodes, anchor, id), node)

\* The nodes db_Read copies out, in its order: node 0, then along next, one
\* node per article counted.
ReadOrder(d) ==
  LET walk[k \in Used(d)] == IF k = 0 THEN 0 ELSE d.nodes[walk[k - 1]].next
  IN  walk

\* What the DB-PUSH and DB-PULL messages make of a database: they carry
\* article_count nodes, and the receiver's buffer holds whatever was on its
\* stack in every other slot.
Transferred(d, junk) ==
  [d EXCEPT !.nodes = [i \in Slots |-> IF i \in Used(d) THEN d.nodes[i] ELSE junk[i]]]

-----------------------------------------------------------------------------
Init == db = ZeroDatabase /\ snapshot = ZeroDatabase

db_Post ==
  /\ ~Full(db)
  /\ db' = Posted(db)
  /\ UNCHANGED snapshot

\* The check for a full database is missing.
db_ReplyFullBug(parent_id) ==
  /\ WithId(db, parent_id) # {}
  /\ db' = Replied(db, parent_id)
  /\ UNCHANGED snapshot

\* A reply to an id the database does not hold, or to a full database, fails
\* and changes nothing.
db_Reply(parent_id) ==
  /\ ~Full(db)
  /\ WithId(db, parent_id) # {}
  /\ db' = Replied(db, parent_id)
  /\ UNCHANGED snapshot

db_Backup ==
  /\ snapshot' = db
  /\ UNCHANGED db

\* Overwrites the database, whatever it holds, with a snapshot that came over
\* the network.
db_Restore ==
  /\ \E junk \in [Slots -> Garbage] : db' = Transferred(snapshot, junk)
  /\ UNCHANGED snapshot

Next == db_Post \/ (\E p \in Slots : db_Reply(p)) \/ db_Backup \/ db_Restore

Spec == Init /\ [][Next]_vars

-----------------------------------------------------------------------------
(* Properties *)

TypeOK == db \in Database /\ snapshot \in Database

\* ord lists the nodes of d in reading order: it starts at node 0, every node
\* is followed by its next, the last one has no next, no node comes twice and
\* none is left out.
IsReadingOrder(d, ord) ==
  /\ ord \in [Used(d) -> Used(d)]
  /\ \A j, k \in Used(d) : ord[j] = ord[k] => j = k
  /\ \A i \in Used(d) : \E k \in Used(d) : ord[k] = i
  /\ \A k \in Used(d) : d.nodes[ord[k]].next = IF k + 1 \in Used(d) THEN ord[k + 1] ELSE None
  /\ 0 \in Used(d) => ord[0] = 0

WellLinked(d) == \E ord \in [Used(d) -> Used(d)] : IsReadingOrder(d, ord)

\* The linked list of the database (database.c:41-48, 158-169) always threads
\* every stored article exactly once, starting at node 0: after any mix of
\* posts, replies and restores of older snapshots with uninitialised tails,
\* db_Read (database.c:76-82) lists each article once and never follows the
\* -1 at the end.
ListThreadsEveryArticle == WellLinked(db) /\ WellLinked(snapshot)

\* Article ids are array indices, so the linear searches of db_Reply and
\* db_Choose (database.c:118-125, 197-205) find exactly one article, also
\* after a restore has taken ids back and later posts have given them out anew.
IdsUnique == \A i \in Used(db) : WithId(db, i) = {i}

\* A reply hangs below an older article that exists, one level deeper
\* (database.c:139-140); an article without a parent is at level 0.  Following
\* parents from any article therefore ends at a posted article.
ParentsOlder ==
  \A i \in Used(db) :
    LET n == db.nodes[i]
    IN  \/ n.parent_id = None /\ n.depth = 0
        \/ n.parent_id \in 0 .. i - 1 /\ n.depth = db.nodes[n.parent_id].depth + 1

\* What db_Read makes of a database: its articles in reading order.
Listed(d) ==
  [k \in 1 .. d.article_count |->
     LET n == d.nodes[ReadOrder(d)[k - 1]]
     IN  [id |-> n.id, parent_id |-> n.parent_id, depth |-> n.depth]]

Board == INSTANCE BulletinBoard WITH board <- Listed(db), saved <- Listed(snapshot)

\* The array of linked nodes implements the bulletin board: what db_Read lists
\* after any db_Post, db_Reply, db_Backup or db_Restore (database.c:12-256) is
\* the sequence the board prescribes.
ImplementsBoard == Board!Spec

\* The articles of a database in the order they were stored.
Stored(d) ==
  [k \in 1 .. d.article_count |-> [id |-> d.nodes[k - 1].id, parent_id |-> d.nodes[k - 1].parent_id]]

Log == INSTANCE WriteLog WITH log <- Stored(db), version <- db.version, copy <- Stored(snapshot)

\* The database is what the replication protocols take it for: a write is
\* appended with the next id, only if there is room and its parent is there,
\* and version, which the quorum protocol compares (protocol_quorum.c:102,
\* 215), counts the articles (database.c:32, 52, 173), also after a restore.
ImplementsLog == Log!Spec
=============================================================================
