------------------------ MODULE ArticleDatabaseProofs ------------------------
(***************************************************************************)
(* Proofs about ArticleDatabase for every array length and every content   *)
(* of the uninitialised slots.                                             *)
(*                                                                         *)
(* The inductive invariant says the same of the database and of the        *)
(* snapshot: each is well typed, its list threads its articles, its ids    *)
(* are indices and its parents are older.  Each operation is shown to      *)
(* preserve that for a single database value (PostedIsGood, RepliedIsGood, *)
(* TransferredIsGood); the theorems about the specification combine those. *)
(* The refinement of BulletinBoard rests on the list having one reading    *)
(* order only, which every operation extends as the board does; that of    *)
(* WriteLog on ids being indices and on the version counting the articles. *)
(***************************************************************************)
EXTENDS ArticleDatabase, Sequences, WellFoundedInduction, TLAPS

\* Ids are indices, and each parent is an older article one level up.
WellNumbered(d) ==
  \A i \in Used(d) :
    LET n == d.nodes[i]
    IN  /\ n.id = i
        /\ \/ n.parent_id = None /\ n.depth = 0
           \/ n.parent_id \in 0 .. i - 1 /\ n.depth = d.nodes[n.parent_id].depth + 1

Good(d) == d \in Database /\ WellLinked(d) /\ WellNumbered(d)

IInv == Good(db) /\ Good(snapshot)

-----------------------------------------------------------------------------
(* First and Latest return the least and the greatest element. *)

\* A least element of a set of integers is what First (the forward scans of
\* database.c:41-48 and 118-125) returns.
LEMMA FirstIsLeast ==
  ASSUME NEW S \in SUBSET Int, NEW m \in S, \A j \in S : m <= j
  PROVE  First(S) = m
<1>1. \E i \in S : \A j \in S : i <= j
  OBVIOUS
<1>2. First(S) \in S /\ \A j \in S : First(S) <= j
  BY <1>1, Zenon DEF First
<1>3. First(S) \in Int /\ m \in Int /\ First(S) <= m /\ m <= First(S)
  BY <1>2
<1> QED
  BY <1>3

\* The greatest element, likewise, is what Latest (the backward scan of
\* database.c:148-155) returns.
LEMMA LatestIsGreatest ==
  ASSUME NEW S \in SUBSET Int, NEW m \in S, \A j \in S : j <= m
  PROVE  Latest(S) = m
<1>1. \E i \in S : \A j \in S : j <= i
  OBVIOUS
<1>2. Latest(S) \in S /\ \A j \in S : j <= Latest(S)
  BY <1>1, Zenon DEF Latest
<1>3. Latest(S) \in Int /\ m \in Int /\ Latest(S) <= m /\ m <= Latest(S)
  BY <1>2
<1> QED
  BY <1>3

\* The backward scan over a non-empty set of used slots stops at one of them.
LEMMA LatestInSet ==
  ASSUME NEW c \in Nat, NEW S \in SUBSET (0 .. c - 1), S # {}
  PROVE  Latest(S) \in S
<1> DEFINE T == {n \in Nat : c - n \in S}
           R == OpToRel(<, Nat)
<1>0. \A j \in S : c - j \in T
  <2> SUFFICES ASSUME NEW j \in S PROVE c - j \in T
    OBVIOUS
  <2>1. j \in 0 .. c - 1 /\ c - j \in Nat /\ c - (c - j) = j
    OBVIOUS
  <2> QED
    BY <2>1
<1>1. T \subseteq Nat /\ T # {}
  BY <1>0
<1>2. \A x, y \in Nat : x < y => <<x, y>> \in R
  BY DEF OpToRel
<1> HIDE DEF R
<1>3. \E x \in T : \A y \in T : ~ (<<y, x>> \in R)
  BY <1>1, NatLessThanWellFounded, WFMin DEF R
<1>4. PICK x \in T : \A y \in T : ~ (y < x)
  BY <1>1, <1>2, <1>3
<1>5. x \in Nat /\ c - x \in S
  OBVIOUS
<1> HIDE DEF T
<1>7. \A j \in S : j <= c - x
  <2> SUFFICES ASSUME NEW j \in S PROVE j <= c - x
    OBVIOUS
  <2>1. ~ (c - j < x) /\ j \in Int
    BY <1>0, <1>4
  <2> QED
    BY <1>5, <2>1
<1> QED
  BY <1>5, <1>7, LatestIsGreatest

-----------------------------------------------------------------------------
(* The order db_Read lists in. *)

\* The walk of db_Read (database.c:76-82) along the next indices is the reading
\* order, if there is one.  Were it not, there would be a first step at which
\* the two differ; it is not the start, and both take it along the same next.
LEMMA ReadOrderIs ==
  ASSUME NEW d, NEW c \in Nat, d.article_count = c, NEW ord, IsReadingOrder(d, ord)
  PROVE  ReadOrder(d) = ord
<1> DEFINE walk == ReadOrder(d)
           R == OpToRel(<, Nat)
<1>1. Used(d) = 0 .. c - 1
  BY DEF Used
<1>2. ord \in [0 .. c - 1 -> 0 .. c - 1]
  BY <1>1 DEF IsReadingOrder
<1>3. \A k \in 0 .. c - 1 : ord[k] = IF k = 0 THEN 0 ELSE d.nodes[ord[k - 1]].next
  <2> SUFFICES ASSUME NEW k \in 0 .. c - 1
               PROVE  ord[k] = IF k = 0 THEN 0 ELSE d.nodes[ord[k - 1]].next
    OBVIOUS
  <2>1. CASE k = 0
    BY <1>1, <2>1 DEF IsReadingOrder
  <2>2. CASE k # 0
    <3>1. k - 1 \in 0 .. c - 1 /\ (k - 1) + 1 = k
      BY <2>2
    <3>2. \A m \in 0 .. c - 1 : d.nodes[ord[m]].next = IF m + 1 \in 0 .. c - 1 THEN ord[m + 1] ELSE None
      BY <1>1, Zenon DEF IsReadingOrder
    <3> QED BY <2>2, <3>1, <3>2
  <2> QED BY <2>1, <2>2
<1>4. ord = [k \in 0 .. c - 1 |-> IF k = 0 THEN 0 ELSE d.nodes[ord[k - 1]].next]
  BY <1>2, <1>3
<1>5. walk = CHOOSE w : w = [k \in 0 .. c - 1 |-> IF k = 0 THEN 0 ELSE d.nodes[w[k - 1]].next]
  BY <1>1, Zenon DEF ReadOrder
<1> HIDE DEF walk
<1>6. walk = [k \in 0 .. c - 1 |-> IF k = 0 THEN 0 ELSE d.nodes[walk[k - 1]].next]
  BY <1>4, <1>5, Zenon
<1> DEFINE T == {k \in 0 .. c - 1 : walk[k] # ord[k]}
<1>7. T = {}
  <2> SUFFICES ASSUME T # {} PROVE FALSE
    OBVIOUS
  <2>1. \A x, y \in Nat : x < y => <<x, y>> \in R
    BY DEF OpToRel
  <2>2. T \subseteq Nat
    OBVIOUS
  <2>3. \E x \in T : \A y \in T : ~ (<<y, x>> \in R)
    BY <2>2, NatLessThanWellFounded, WFMin
  <2> HIDE DEF R
  <2>4. PICK x \in T : \A y \in T : ~ (y < x)
    BY <2>1, <2>2, <2>3
  <2>5. x \in 0 .. c - 1 /\ walk[x] # ord[x]
    OBVIOUS
  <2>6. x # 0
    BY <1>3, <1>6, <2>5
  <2>7. x - 1 \in 0 .. c - 1 /\ x - 1 < x
    BY <2>5, <2>6
  <2>8. walk[x - 1] = ord[x - 1]
    BY <2>4, <2>7
  <2>9. walk[x] = d.nodes[walk[x - 1]].next /\ ord[x] = d.nodes[ord[x - 1]].next
    BY <1>3, <1>6, <2>5, <2>6
  <2> QED BY <2>5, <2>8, <2>9
<1>8. \A k \in 0 .. c - 1 : walk[k] = ord[k]
  BY <1>7
<1> HIDE DEF T
<1>9. walk \in [0 .. c - 1 -> 0 .. c - 1]
  <2>1. walk = [k \in 0 .. c - 1 |-> walk[k]]
    BY <1>6
  <2>2. \A k \in 0 .. c - 1 : walk[k] \in 0 .. c - 1
    BY <1>2, <1>8
  <2> QED BY <2>1, <2>2
<1>10. walk = ord
  BY <1>2, <1>8, <1>9
<1> QED BY <1>10 DEF walk

-----------------------------------------------------------------------------
(* Linking and storing. *)

\* Setting a next index changes that field of that node only.
LEMMA LinkFacts ==
  ASSUME NEW nodes \in [Slots -> Node], NEW i \in Slots, NEW n \in Int
  PROVE  /\ Link(nodes, i, n) \in [Slots -> Node]
         /\ Link(nodes, i, n)[i].next = n
         /\ Link(nodes, i, n)[i].id = nodes[i].id
         /\ Link(nodes, i, n)[i].parent_id = nodes[i].parent_id
         /\ Link(nodes, i, n)[i].depth = nodes[i].depth
         /\ \A j \in Slots \ {i} : Link(nodes, i, n)[j] = nodes[j]
BY DEF Link, Node

\* A reading order of c articles with article c put behind position p.
Inserted(ord, c, p) == [k \in 0 .. c |-> IF k = p + 1 THEN c ELSE ord[IF k <= p THEN k ELSE k - 1]]

\* A database that differs from d in one more article, linked in behind the
\* article at position p of d's reading order, is read in that order with the
\* article put in.
LEMMA InsertBehind ==
  ASSUME NEW d, NEW e, NEW c \in Nat, d.article_count = c, e.article_count = c + 1,
         NEW ord, IsReadingOrder(d, ord), NEW p \in 0 .. c - 1,
         e.nodes[ord[p]].next = c,
         e.nodes[c].next = d.nodes[ord[p]].next,
         \A i \in 0 .. c - 1 : i # ord[p] => e.nodes[i].next = d.nodes[i].next
  PROVE  WellLinked(e) /\ IsReadingOrder(e, Inserted(ord, c, p))
<1>1. Used(d) = 0 .. c - 1 /\ Used(e) = 0 .. c
  BY DEF Used
<1>type. ord \in [0 .. c - 1 -> 0 .. c - 1]
  BY <1>1 DEF IsReadingOrder
<1>inj. \A j, k \in 0 .. c - 1 : ord[j] = ord[k] => j = k
  BY <1>1, Zenon DEF IsReadingOrder
<1>onto. \A i \in 0 .. c - 1 : \E k \in 0 .. c - 1 : ord[k] = i
  BY <1>1, Zenon DEF IsReadingOrder
<1>step. \A k \in 0 .. c - 1 : d.nodes[ord[k]].next = IF k + 1 \in 0 .. c - 1 THEN ord[k + 1] ELSE None
  BY <1>1, Zenon DEF IsReadingOrder
<1>zero. ord[0] = 0
  <2>1. 0 \in 0 .. c - 1
    OBVIOUS
  <2> QED
    BY <1>1, <2>1, Zenon DEF IsReadingOrder
<1>range. \A k \in 0 .. c - 1 : ord[k] \in 0 .. c - 1 /\ ord[k] # c
  <2> SUFFICES ASSUME NEW k \in 0 .. c - 1 PROVE ord[k] \in 0 .. c - 1 /\ ord[k] # c
    OBVIOUS
  <2>1. ord[k] \in 0 .. c - 1
    BY <1>type
  <2> QED
    BY <2>1
<1>next. \A k \in 0 .. c - 2 : d.nodes[ord[k]].next = ord[k + 1]
  <2> SUFFICES ASSUME NEW k \in 0 .. c - 2 PROVE d.nodes[ord[k]].next = ord[k + 1]
    OBVIOUS
  <2>1. k \in 0 .. c - 1 /\ k + 1 \in 0 .. c - 1
    OBVIOUS
  <2> QED
    BY <1>step, <2>1
<1>last. d.nodes[ord[c - 1]].next = None
  <2>1. c - 1 \in 0 .. c - 1 /\ c - 1 + 1 \notin 0 .. c - 1
    OBVIOUS
  <2> QED
    BY <1>step, <2>1
<1> DEFINE old(k) == IF k <= p THEN k ELSE k - 1
           new == [k \in 0 .. c |-> IF k = p + 1 THEN c ELSE ord[old(k)]]
\* Away from the insertion, new repeats ord.
<1>old. \A k \in 0 .. c : k # p + 1 => old(k) \in 0 .. c - 1
  OBVIOUS
<1>2. new[p + 1] = c /\ p + 1 \in 0 .. c
  OBVIOUS
<1>3. \A k \in 0 .. c : k # p + 1 => new[k] = ord[old(k)]
  OBVIOUS
<1>4. new \in [0 .. c -> 0 .. c]
  <2> SUFFICES ASSUME NEW k \in 0 .. c PROVE (IF k = p + 1 THEN c ELSE ord[old(k)]) \in 0 .. c
    OBVIOUS
  <2>1. CASE k = p + 1
    BY <2>1
  <2>2. CASE k # p + 1
    <3>1. ord[old(k)] \in 0 .. c - 1
      BY <1>old, <1>range, <2>2
    <3> QED
      BY <2>2, <3>1
  <2> QED
    BY <2>1, <2>2
<1>new. new = Inserted(ord, c, p)
  BY DEF Inserted
<1> HIDE DEF new
<1>5. \A j, k \in 0 .. c : new[j] = new[k] => j = k
  <2> SUFFICES ASSUME NEW j \in 0 .. c, NEW k \in 0 .. c, new[j] = new[k] PROVE j = k
    OBVIOUS
  <2>1. \A m \in 0 .. c : m # p + 1 => new[m] # c
    <3> SUFFICES ASSUME NEW m \in 0 .. c, m # p + 1 PROVE new[m] # c
      OBVIOUS
    <3>1. old(m) \in 0 .. c - 1 /\ new[m] = ord[old(m)]
      BY <1>old, <1>3
    <3> HIDE DEF old
    <3> QED
      BY <1>range, <3>1
  <2>2. CASE j = p + 1 \/ k = p + 1
    BY <1>2, <2>1, <2>2
  <2>3. CASE j # p + 1 /\ k # p + 1
    <3>1. /\ old(j) \in 0 .. c - 1 /\ new[j] = ord[old(j)]
          /\ old(k) \in 0 .. c - 1 /\ new[k] = ord[old(k)]
      BY <1>old, <1>3, <2>3
    <3>2. old(j) = old(k)
      <4> HIDE DEF old
      <4> QED
        BY <1>inj, <3>1
    <3> QED
      BY <2>3, <3>2
  <2> QED
    BY <2>2, <2>3
<1>6. \A i \in 0 .. c : \E k \in 0 .. c : new[k] = i
  <2> SUFFICES ASSUME NEW i \in 0 .. c PROVE \E k \in 0 .. c : new[k] = i
    OBVIOUS
  <2>1. CASE i = c
    BY <1>2, <2>1
  <2>2. CASE i # c
    <3>0. i \in 0 .. c - 1
      BY <2>2
    <3>1. PICK k \in 0 .. c - 1 : ord[k] = i
      BY <1>onto, <3>0
    <3> DEFINE m == IF k <= p THEN k ELSE k + 1
    <3>2. m \in 0 .. c /\ m # p + 1 /\ old(m) = k
      OBVIOUS
    <3>3. new[m] = ord[old(m)]
      BY <1>3, <3>2
    <3> HIDE DEF m, old
    <3> QED
      BY <3>1, <3>2, <3>3
  <2> QED
    BY <2>1, <2>2
<1>7. ASSUME NEW k \in 0 .. c
      PROVE  e.nodes[new[k]].next = IF k + 1 \in 0 .. c THEN new[k + 1] ELSE None
  <2>1. CASE k = p
    <3>1. new[k] = ord[p] /\ k # p + 1 /\ new[k + 1] = c /\ k + 1 \in 0 .. c
      BY <1>2, <1>3, <2>1
    <3> QED
      BY <3>1
  <2>2. CASE k = p + 1 /\ k < c
    <3>1. p \in 0 .. c - 2 /\ k + 1 \in 0 .. c /\ k + 1 # p + 1 /\ old(k + 1) = p + 1
      BY <2>2
    <3>2. d.nodes[ord[p]].next = ord[p + 1] /\ new[k + 1] = ord[p + 1]
      BY <1>next, <1>3, <3>1
    <3> QED
      BY <1>2, <2>2, <3>1, <3>2
  <2>3. CASE k = p + 1 /\ k = c
    <3>1. p = c - 1 /\ k + 1 \notin 0 .. c
      BY <2>3
    <3> QED
      BY <1>2, <1>last, <2>3, <3>1
  <2>4. CASE k # p /\ k # p + 1
    <3>1. new[k] = ord[old(k)] /\ old(k) \in 0 .. c - 1 /\ old(k) # p
      BY <1>3, <1>old, <2>4
    <3>2. ord[old(k)] # ord[p] /\ ord[old(k)] \in 0 .. c - 1
      <4> HIDE DEF old
      <4> QED
        BY <1>inj, <1>range, <3>1
    <3>3. e.nodes[new[k]].next = d.nodes[ord[old(k)]].next
      <4> HIDE DEF old
      <4> QED
        BY <3>1, <3>2
    <3>4. CASE k = c
      <4>1. old(k) = c - 1 /\ k + 1 \notin 0 .. c
        BY <2>4, <3>4
      <4> HIDE DEF old
      <4> QED
        BY <1>last, <3>3, <4>1
    <3>5. CASE k < c
      <4>1. old(k) \in 0 .. c - 2 /\ k + 1 \in 0 .. c /\ k + 1 # p + 1 /\ old(k + 1) = old(k) + 1
        BY <2>4, <3>5
      <4>2. new[k + 1] = ord[old(k + 1)]
        BY <1>3, <4>1
      <4>3. d.nodes[ord[old(k)]].next = ord[old(k) + 1]
        <5> HIDE DEF old
        <5> QED
          BY <1>next, <4>1
      <4> HIDE DEF old
      <4> QED
        BY <3>3, <4>1, <4>2, <4>3
    <3> QED
      BY <3>4, <3>5
  <2> QED
    BY <2>1, <2>2, <2>3, <2>4
<1>8. new[0] = 0
  BY <1>zero, <1>3
<1>9. IsReadingOrder(e, new)
  BY <1>1, <1>4, <1>5, <1>6, <1>7, <1>8, Zenon DEF IsReadingOrder
<1> QED
  BY <1>1, <1>4, <1>9, <1>new, Zenon DEF WellLinked

-----------------------------------------------------------------------------
(* Each operation keeps a good database good. *)

\* The fields of a good database, and the room a database that is not full
\* still has.
LEMMA GoodFacts ==
  ASSUME NEW d, Good(d)
  PROVE  /\ d.article_count \in Nat /\ d.version \in Nat
         /\ d.nodes \in [Slots -> Node]
         /\ Used(d) = 0 .. d.article_count - 1
         /\ Used(d) \subseteq Slots
         /\ ~Full(d) => d.article_count \in Slots /\ d.article_count + 1 \in 0 .. MaxArticles
BY MaxArticlesAssumption DEF Good, Full, Database, Slots, Used

\* A good database has one reading order, the one db_Read follows.
LEMMA GoodIsRead ==
  ASSUME NEW d, Good(d)
  PROVE  ReadOrder(d) \in [Used(d) -> Used(d)] /\ IsReadingOrder(d, ReadOrder(d))
<1>1. PICK ord \in [Used(d) -> Used(d)] : IsReadingOrder(d, ord)
  BY DEF Good, WellLinked
<1>2. ReadOrder(d) = ord
  BY <1>1, GoodFacts, ReadOrderIs
<1> QED BY <1>1, <1>2

\* e is d with article c behind position p of its reading order; nothing but
\* next indices changes in the others.
Extends(e, d, p) ==
  /\ e.article_count = d.article_count + 1
  /\ \A i \in Used(d) : /\ e.nodes[i].id = d.nodes[i].id
                        /\ e.nodes[i].parent_id = d.nodes[i].parent_id
                        /\ e.nodes[i].depth = d.nodes[i].depth
  /\ e.nodes[d.article_count].id = d.article_count
  /\ IsReadingOrder(e, Inserted(ReadOrder(d), d.article_count, p))

\* A database that stores one more article with a correct id, parent and depth,
\* and touches nothing of the others but next indices, is well numbered.
LEMMA StoredWellNumbered ==
  ASSUME NEW d, Good(d), NEW e, NEW c, c = d.article_count, e.article_count = c + 1,
         \A i \in 0 .. c - 1 : /\ e.nodes[i].id = d.nodes[i].id
                               /\ e.nodes[i].parent_id = d.nodes[i].parent_id
                               /\ e.nodes[i].depth = d.nodes[i].depth,
         e.nodes[c].id = c,
         \/ e.nodes[c].parent_id = None /\ e.nodes[c].depth = 0
         \/ /\ e.nodes[c].parent_id \in 0 .. c - 1
            /\ e.nodes[c].depth = e.nodes[e.nodes[c].parent_id].depth + 1
  PROVE  WellNumbered(e)
<1>1. c \in Nat /\ Used(d) = 0 .. c - 1 /\ Used(e) = 0 .. c
  BY GoodFacts DEF Used
<1> SUFFICES ASSUME NEW i \in 0 .. c
             PROVE  /\ e.nodes[i].id = i
                    /\ \/ e.nodes[i].parent_id = None /\ e.nodes[i].depth = 0
                       \/ /\ e.nodes[i].parent_id \in 0 .. i - 1
                          /\ e.nodes[i].depth = e.nodes[e.nodes[i].parent_id].depth + 1
  BY <1>1 DEF WellNumbered
<1>2. CASE i = c
  BY <1>2
<1>3. CASE i # c
  <2>1. i \in 0 .. c - 1
    BY <1>1, <1>3
  <2>2. /\ d.nodes[i].id = i
        /\ \/ d.nodes[i].parent_id = None /\ d.nodes[i].depth = 0
           \/ /\ d.nodes[i].parent_id \in 0 .. i - 1
              /\ d.nodes[i].depth = d.nodes[d.nodes[i].parent_id].depth + 1
    BY <1>1, <2>1 DEF Good, WellNumbered
  <2>3. d.nodes[i].parent_id \in 0 .. i - 1 => d.nodes[i].parent_id \in 0 .. c - 1
    BY <1>1, <2>1
  <2> QED
    BY <2>1, <2>2, <2>3
<1> QED
  BY <1>2, <1>3

\* Storing a node behind a link keeps the record a database, puts the node in
\* the new slot and leaves the other nodes as linked.
LEMMA StoreFacts ==
  ASSUME NEW d, Good(d), ~Full(d), NEW nodes \in [Slots -> Node], NEW node \in Node
  PROVE  /\ Store(d, nodes, node) \in Database
         /\ Store(d, nodes, node).article_count = d.article_count + 1
         /\ Store(d, nodes, node).nodes[d.article_count] = node
         /\ \A i \in Used(d) : Store(d, nodes, node).nodes[i] = nodes[i]
<1>1. /\ d.article_count \in Slots /\ d.article_count + 1 \in 0 .. MaxArticles
      /\ Used(d) = 0 .. d.article_count - 1 /\ Used(d) \subseteq Slots
      /\ d.version + 1 \in Nat
  BY GoodFacts
<1>2. [nodes EXCEPT ![d.article_count] = node] \in [Slots -> Node]
  OBVIOUS
<1>3. Store(d, nodes, node) \in Database
  BY <1>1, <1>2 DEF Store, Database
<1>4. d.article_count \notin Used(d)
  BY <1>1, GoodFacts
<1> QED
  BY <1>1, <1>3, <1>4 DEF Store

\* The scan of db_Post (database.c:41-48) finds the last article of the list,
\* also when the free slot it looks at last holds a next of -1.
LEMMA EndOfListIsTail ==
  ASSUME NEW d, Good(d), d.article_count > 0,
         NEW ord \in [Used(d) -> Used(d)], IsReadingOrder(d, ord)
  PROVE  /\ EndOfList(d) # {}
         /\ First(EndOfList(d)) = ord[d.article_count - 1]
         /\ d.nodes[ord[d.article_count - 1]].next = None
<1> DEFINE c == d.article_count
<1>1. c \in Nat /\ Used(d) = 0 .. c - 1
  BY GoodFacts
<1>2. c - 1 \in Used(d) /\ (c - 1) + 1 \notin Used(d) /\ ord[c - 1] \in 0 .. c - 1
  BY <1>1
<1>3. d.nodes[ord[c - 1]].next = None
  BY <1>1, <1>2 DEF IsReadingOrder
<1>4. ord[c - 1] \in EndOfList(d)
  BY <1>1, <1>2, <1>3 DEF EndOfList
<1>5. ASSUME NEW j \in EndOfList(d), j < c
      PROVE  j = ord[c - 1]
  <2>1. j \in Used(d) /\ d.nodes[j].next = None
    BY <1>1, <1>5 DEF EndOfList
  <2>2. PICK k \in Used(d) : ord[k] = j
    BY <2>1 DEF IsReadingOrder
  <2>3. CASE k + 1 \in Used(d)
    <3>1. ord[k + 1] = None
      BY <2>1, <2>2, <2>3 DEF IsReadingOrder
    <3> QED
      BY <1>1, <2>3, <3>1 DEF None
  <2>4. CASE k + 1 \notin Used(d)
    BY <1>1, <2>2, <2>4
  <2> QED
    BY <2>3, <2>4
<1>6. EndOfList(d) \in SUBSET Int /\ \A j \in EndOfList(d) : ord[c - 1] <= j
  BY <1>1, <1>2, <1>5 DEF EndOfList
<1> QED
  BY <1>3, <1>4, <1>6, FirstIsLeast

\* db_Post keeps the database good and puts the new article last.
LEMMA PostedIsGood ==
  ASSUME NEW d, Good(d), ~Full(d)
  PROVE  /\ Good(Posted(d))
         /\ Extends(Posted(d), d, d.article_count - 1)
         /\ Posted(d).nodes[d.article_count].parent_id = None
         /\ Posted(d).nodes[d.article_count].depth = 0
<1> DEFINE c == d.article_count
           node == [next |-> None, id |-> c, parent_id |-> None, depth |-> 0]
           linked == IF EndOfList(d) = {} THEN d.nodes ELSE Link(d.nodes, First(EndOfList(d)), c)
           e == Store(d, linked, node)
           ord == ReadOrder(d)
<1>1. /\ c \in Nat /\ c \in Slots /\ d.nodes \in [Slots -> Node]
      /\ Used(d) = 0 .. c - 1 /\ Used(d) \subseteq Slots
  BY GoodFacts
<1>2. ord \in [Used(d) -> Used(d)] /\ IsReadingOrder(d, ord)
  BY GoodIsRead
<1> HIDE DEF ord
<1>3. Posted(d) = e
  BY DEF Posted
<1>4. node \in Node
  BY <1>1 DEF Node, None
<1>5. CASE c = 0
  <2>1. Used(d) = {} /\ EndOfList(d) \subseteq {0} /\ 0 \in Slots
    BY <1>1, <1>5 DEF EndOfList
  <2>2. EndOfList(d) # {} => First(EndOfList(d)) = 0
    <3> SUFFICES ASSUME EndOfList(d) # {} PROVE First(EndOfList(d)) = 0
      OBVIOUS
    <3>1. EndOfList(d) = {0}
      BY <2>1
    <3> QED
      BY <3>1, FirstIsLeast
  <2>3. linked \in [Slots -> Node]
    <3>1. CASE EndOfList(d) = {}
      BY <1>1, <3>1
    <3>2. CASE EndOfList(d) # {}
      BY <1>1, <2>1, <2>2, <3>2, LinkFacts
    <3> QED
      BY <3>1, <3>2
  <2> HIDE DEF linked
  <2>4. e \in Database /\ e.article_count = 1 /\ e.nodes[0] = node
    BY <1>4, <1>5, <2>3, StoreFacts
  <2>5. WellNumbered(e)
    <3> HIDE DEF e
    <3>1. e.nodes[c].id = c /\ e.nodes[c].parent_id = None /\ e.nodes[c].depth = 0
      BY <1>5, <2>4
    <3>2. e.article_count = c + 1 /\ 0 .. c - 1 = {}
      BY <1>5, <2>4
    <3> QED
      BY <3>1, <3>2, StoredWellNumbered
  <2>6. WellLinked(e) /\ IsReadingOrder(e, Inserted(ord, 0, -1))
    <3> DEFINE new == [k \in {0} |-> 0]
    <3> HIDE DEF e
    <3>1. Used(e) = {0}
      BY <2>4 DEF Used
    <3>2. IsReadingOrder(e, new) /\ new \in [{0} -> {0}]
      BY <2>4, <3>1 DEF IsReadingOrder
    <3>3. new = Inserted(ord, 0, -1)
      BY DEF Inserted
    <3> QED
      BY <3>1, <3>2, <3>3 DEF WellLinked
  <2>7. Extends(e, d, c - 1)
    <3> HIDE DEF e
    <3>1. e.nodes[c].id = c /\ e.article_count = c + 1 /\ Used(d) = {} /\ c - 1 = -1
      BY <1>5, <2>1, <2>4
    <3> QED
      BY <1>5, <2>6, <3>1 DEF Extends, ord
  <2>8. e.nodes[c].parent_id = None /\ e.nodes[c].depth = 0
    <3> HIDE DEF e
    <3> QED
      BY <1>5, <2>4
  <2> QED
    BY <1>3, <2>4, <2>5, <2>6, <2>7, <2>8 DEF Good
<1>6. CASE c > 0
  <2> DEFINE tail == ord[c - 1]
  <2>1. /\ linked = Link(d.nodes, tail, c)
        /\ d.nodes[tail].next = None
    BY <1>6, <1>2, EndOfListIsTail
  <2>2. tail \in Used(d) /\ tail \in Slots
    BY <1>1, <1>2, <1>6
  <2> HIDE DEF tail, linked
  <2>3. /\ linked \in [Slots -> Node]
        /\ linked[tail].next = c /\ linked[tail].id = d.nodes[tail].id
        /\ linked[tail].parent_id = d.nodes[tail].parent_id
        /\ linked[tail].depth = d.nodes[tail].depth
        /\ \A j \in Slots \ {tail} : linked[j] = d.nodes[j]
    BY <1>1, <2>1, <2>2, LinkFacts
  <2>4. /\ e \in Database /\ e.article_count = c + 1 /\ e.nodes[c] = node
        /\ \A i \in 0 .. c - 1 : e.nodes[i] = linked[i]
    BY <1>1, <1>4, <2>3, StoreFacts
  <2> HIDE DEF e
  <2>5. \A i \in 0 .. c - 1 : /\ e.nodes[i].id = d.nodes[i].id
                              /\ e.nodes[i].parent_id = d.nodes[i].parent_id
                              /\ e.nodes[i].depth = d.nodes[i].depth
                              /\ i # tail => e.nodes[i].next = d.nodes[i].next
    <3> SUFFICES ASSUME NEW i \in 0 .. c - 1
                 PROVE  /\ linked[i].id = d.nodes[i].id
                        /\ linked[i].parent_id = d.nodes[i].parent_id
                        /\ linked[i].depth = d.nodes[i].depth
                        /\ i # tail => linked[i].next = d.nodes[i].next
      BY <2>4
    <3>1. i \in Slots
      BY <1>1
    <3> QED
      BY <2>3, <3>1
  <2>6. e.nodes[tail].next = c /\ e.nodes[c].next = d.nodes[tail].next
    BY <1>1, <2>1, <2>2, <2>3, <2>4
  <2>7. WellNumbered(e)
    <3>1. e.nodes[c].id = c /\ e.nodes[c].parent_id = None /\ e.nodes[c].depth = 0
      BY <2>4
    <3> QED
      BY <2>4, <2>5, <3>1, StoredWellNumbered
  <2>8. WellLinked(e) /\ IsReadingOrder(e, Inserted(ord, c, c - 1))
    <3>1. c - 1 \in 0 .. c - 1
      BY <1>1, <1>6
    <3>2. /\ e.nodes[ord[c - 1]].next = c
          /\ e.nodes[c].next = d.nodes[ord[c - 1]].next
          /\ \A i \in 0 .. c - 1 : i # ord[c - 1] => e.nodes[i].next = d.nodes[i].next
      BY <2>5, <2>6 DEF tail
    <3>3. d.article_count = c /\ e.article_count = c + 1 /\ c \in Nat
      BY <1>1, <2>4
    <3> HIDE DEF c
    <3> QED
      BY <1>2, <3>1, <3>2, <3>3, InsertBehind
  <2>9. Extends(e, d, c - 1)
    BY <1>1, <2>4, <2>5, <2>8 DEF Extends, ord
  <2>10. e.nodes[c].parent_id = None /\ e.nodes[c].depth = 0
    BY <2>4
  <2> QED
    BY <1>3, <2>4, <2>7, <2>8, <2>9, <2>10 DEF Good
<1> QED
  BY <1>1, <1>5, <1>6

\* In a good database exactly the node with that index carries an article id.
LEMMA WithIdIsIndex ==
  ASSUME NEW d, Good(d), NEW a \in Int
  PROVE  WithId(d, a) = IF a \in Used(d) THEN {a} ELSE {}
BY GoodFacts DEF Good, WellNumbered, WithId

\* db_Reply keeps the database good and puts the reply behind its anchor.
LEMMA RepliedIsGood ==
  ASSUME NEW d, Good(d), ~Full(d), NEW parent_id \in Int, WithId(d, parent_id) # {}
  PROVE  /\ Good(Replied(d, parent_id))
         /\ \E p \in Used(d) : /\ ReadOrder(d)[p] = ReplyAnchor(d, parent_id)
                               /\ Extends(Replied(d, parent_id), d, p)
         /\ Replied(d, parent_id).nodes[d.article_count].parent_id = parent_id
         /\ Replied(d, parent_id).nodes[d.article_count].depth = d.nodes[parent_id].depth + 1
<1> DEFINE c == d.article_count
           anchor == ReplyAnchor(d, parent_id)
           node == [next |-> d.nodes[anchor].next, id |-> c, parent_id |-> parent_id,
                    depth |-> d.nodes[First(WithId(d, parent_id))].depth + 1]
           linked == Link(d.nodes, anchor, c)
           e == Store(d, linked, node)
           ord == ReadOrder(d)
<1>1. /\ c \in Nat /\ c \in Slots /\ d.nodes \in [Slots -> Node]
      /\ Used(d) = 0 .. c - 1 /\ Used(d) \subseteq Slots
  BY GoodFacts
<1>2. ord \in [Used(d) -> Used(d)] /\ IsReadingOrder(d, ord)
  BY GoodIsRead
<1> HIDE DEF ord
<1>3. Replied(d, parent_id) = e
  BY DEF Replied
<1>4. parent_id \in 0 .. c - 1 /\ First(WithId(d, parent_id)) = parent_id
  <2>1. parent_id \in Used(d) /\ WithId(d, parent_id) = {parent_id}
    BY WithIdIsIndex
  <2>2. First({parent_id}) = parent_id
    BY FirstIsLeast
  <2> QED
    BY <1>1, <2>1, <2>2
<1>5. anchor \in 0 .. c - 1
  <2>1. CASE Children(d, parent_id) = {}
    BY <1>4, <2>1 DEF ReplyAnchor
  <2>2. CASE Children(d, parent_id) # {}
    <3>1. Children(d, parent_id) \in SUBSET (0 .. c - 1)
      BY <1>1 DEF Children
    <3>2. Latest(Children(d, parent_id)) \in Children(d, parent_id)
      BY <1>1, <2>2, <3>1, LatestInSet
    <3> QED
      BY <2>2, <3>1, <3>2 DEF ReplyAnchor
  <2> QED
    BY <2>1, <2>2
<1>6. PICK p \in 0 .. c - 1 : ord[p] = anchor
  <2> HIDE DEF anchor
  <2> QED
    BY <1>1, <1>2, <1>5 DEF IsReadingOrder
<1> HIDE DEF anchor
<1>7. node \in Node
  <2>1. d.nodes[anchor].next \in Int /\ d.nodes[parent_id].depth \in Int
    BY <1>1, <1>4, <1>5 DEF Node
  <2>2. c \in Int /\ parent_id \in Int /\ d.nodes[parent_id].depth + 1 \in Int
    BY <1>1, <1>4, <2>1
  <2>3. node = [next |-> d.nodes[anchor].next, id |-> c, parent_id |-> parent_id,
                depth |-> d.nodes[parent_id].depth + 1]
    BY <1>4
  <2> HIDE DEF node
  <2> QED
    BY <2>1, <2>2, <2>3 DEF Node
<1>8. /\ linked \in [Slots -> Node]
      /\ linked[anchor].next = c /\ linked[anchor].id = d.nodes[anchor].id
      /\ linked[anchor].parent_id = d.nodes[anchor].parent_id
      /\ linked[anchor].depth = d.nodes[anchor].depth
      /\ \A j \in Slots \ {anchor} : linked[j] = d.nodes[j]
  BY <1>1, <1>5, LinkFacts
<1> HIDE DEF linked
<1>9. /\ node.next = d.nodes[anchor].next /\ node.id = c /\ node.parent_id = parent_id
      /\ node.depth = d.nodes[parent_id].depth + 1
  BY <1>4
<1> HIDE DEF node
<1>10. /\ e \in Database /\ e.article_count = c + 1 /\ e.nodes[c] = node
       /\ \A i \in 0 .. c - 1 : e.nodes[i] = linked[i]
  BY <1>1, <1>7, <1>8, StoreFacts
<1> HIDE DEF e
<1>11. \A i \in 0 .. c - 1 : /\ e.nodes[i].id = d.nodes[i].id
                             /\ e.nodes[i].parent_id = d.nodes[i].parent_id
                             /\ e.nodes[i].depth = d.nodes[i].depth
                             /\ i # anchor => e.nodes[i].next = d.nodes[i].next
  <2> SUFFICES ASSUME NEW i \in 0 .. c - 1
               PROVE  /\ linked[i].id = d.nodes[i].id
                      /\ linked[i].parent_id = d.nodes[i].parent_id
                      /\ linked[i].depth = d.nodes[i].depth
                      /\ i # anchor => linked[i].next = d.nodes[i].next
    BY <1>10
  <2>1. i \in Slots
    BY <1>1
  <2> QED
    BY <1>8, <2>1
<1>12. WellNumbered(e)
  <2>1. /\ e.nodes[c].id = c /\ e.nodes[c].parent_id \in 0 .. c - 1
        /\ e.nodes[c].depth = e.nodes[e.nodes[c].parent_id].depth + 1
    BY <1>4, <1>9, <1>10, <1>11
  <2> QED
    BY <1>10, <1>11, <2>1, StoredWellNumbered
<1>13. WellLinked(e) /\ IsReadingOrder(e, Inserted(ord, c, p))
  <2>1. /\ e.nodes[ord[p]].next = c
        /\ e.nodes[c].next = d.nodes[ord[p]].next
        /\ \A i \in 0 .. c - 1 : i # ord[p] => e.nodes[i].next = d.nodes[i].next
    BY <1>5, <1>6, <1>8, <1>9, <1>10, <1>11
  <2>2. d.article_count = c /\ e.article_count = c + 1 /\ c \in Nat
    BY <1>1, <1>10
  <2> HIDE DEF c
  <2> QED
    BY <1>2, <2>1, <2>2, InsertBehind
<1>14. Extends(e, d, p)
  BY <1>1, <1>9, <1>10, <1>11, <1>13 DEF Extends, ord
<1>15. e.nodes[c].parent_id = parent_id /\ e.nodes[c].depth = d.nodes[parent_id].depth + 1
  BY <1>9, <1>10
<1>16. p \in Used(d) /\ ReadOrder(d)[p] = ReplyAnchor(d, parent_id)
  BY <1>1, <1>6 DEF ord, anchor
<1> QED
  BY <1>3, <1>10, <1>12, <1>13, <1>14, <1>15, <1>16 DEF Good

\* A transfer over the network keeps the database good, whatever ends up in
\* the slots the message does not carry.
LEMMA TransferredIsGood ==
  ASSUME NEW d, Good(d), NEW junk \in [Slots -> Garbage]
  PROVE  Good(Transferred(d, junk))
<1> DEFINE e == Transferred(d, junk)
<1>1. d \in Database /\ Used(d) = 0 .. d.article_count - 1 /\ Used(d) \subseteq Slots
  BY GoodFacts DEF Good
<1>2. junk \in [Slots -> Node]
  BY GarbageAssumption
<1>3. e.article_count = d.article_count /\ \A i \in Used(d) : e.nodes[i] = d.nodes[i]
  BY <1>1 DEF Transferred, Database
<1>4. e \in Database
  BY <1>1, <1>2 DEF Transferred, Database
<1> HIDE DEF e
<1>5. Used(e) = Used(d)
  BY <1>3 DEF Used
<1>6. WellNumbered(e)
  <2> SUFFICES ASSUME NEW i \in Used(d)
               PROVE  /\ e.nodes[i].id = i
                      /\ \/ e.nodes[i].parent_id = None /\ e.nodes[i].depth = 0
                         \/ /\ e.nodes[i].parent_id \in 0 .. i - 1
                            /\ e.nodes[i].depth = e.nodes[e.nodes[i].parent_id].depth + 1
    BY <1>5 DEF WellNumbered
  <2>1. /\ d.nodes[i].id = i
        /\ \/ d.nodes[i].parent_id = None /\ d.nodes[i].depth = 0
           \/ /\ d.nodes[i].parent_id \in 0 .. i - 1
              /\ d.nodes[i].depth = d.nodes[d.nodes[i].parent_id].depth + 1
    BY DEF Good, WellNumbered
  <2>2. \A q \in 0 .. i - 1 : q \in Used(d)
    BY <1>1, GoodFacts
  <2> QED
    BY <1>3, <2>1, <2>2
<1>7. WellLinked(e)
  <2>1. PICK ord \in [Used(d) -> Used(d)] : IsReadingOrder(d, ord)
    BY DEF Good, WellLinked
  <2>2. \A k \in Used(d) : e.nodes[ord[k]] = d.nodes[ord[k]]
    BY <1>3
  <2>3. IsReadingOrder(e, ord)
    BY <1>5, <2>1, <2>2 DEF IsReadingOrder
  <2> QED
    BY <1>5, <2>3 DEF WellLinked
<1> QED
  BY <1>4, <1>6, <1>7 DEF Good, e

-----------------------------------------------------------------------------
(* The specification. *)

\* The empty, zeroed database is good.
LEMMA ZeroIsGood == Good(ZeroDatabase)
<1>1. ZeroDatabase \in Database /\ Used(ZeroDatabase) = {}
  BY MaxArticlesAssumption DEF ZeroDatabase, ZeroNode, Database, Node, Used
<1>2. WellLinked(ZeroDatabase)
  <2>1. IsReadingOrder(ZeroDatabase, [k \in {} |-> 0])
    BY <1>1 DEF IsReadingOrder
  <2> QED
    BY <1>1, <2>1 DEF WellLinked
<1>3. WellNumbered(ZeroDatabase)
  BY <1>1 DEF WellNumbered
<1> QED
  BY <1>1, <1>2, <1>3 DEF Good

\* Every step keeps the database and the snapshot good.
LEMMA StepKeepsGood == IInv /\ [Next]_vars => IInv'
<1> SUFFICES ASSUME IInv, [Next]_vars PROVE IInv'
  OBVIOUS
<1>1. CASE db_Post
  BY <1>1, PostedIsGood DEF db_Post, IInv
<1>2. ASSUME NEW p \in Slots, db_Reply(p) PROVE IInv'
  <2>1. p \in Int
    BY MaxArticlesAssumption DEF Slots
  <2> QED
    BY <1>2, <2>1, RepliedIsGood DEF db_Reply, IInv
<1>3. CASE db_Backup
  BY <1>3 DEF db_Backup, IInv
<1>4. CASE db_Restore
  BY <1>4, TransferredIsGood DEF db_Restore, IInv
<1>5. CASE UNCHANGED vars
  BY <1>5 DEF vars, IInv
<1> QED
  BY <1>1, <1>2, <1>3, <1>4, <1>5 DEF Next

\* The invariant holds in every state.
THEOREM DatabaseGood == Spec => []IInv
<1>1. Init => IInv
  BY ZeroIsGood DEF Init, IInv
<1> QED
  BY <1>1, StepKeepsGood, PTL DEF Spec

\* The database and the snapshot always have their types: in particular
\* db_Post and db_Reply (database.c:21, 108) never count past MAX_ARTICLES.
THEOREM TypeCorrect == Spec => []TypeOK
<1>1. IInv => TypeOK
  BY DEF IInv, Good, TypeOK
<1> QED
  BY <1>1, DatabaseGood, PTL

\* For every MAX_ARTICLES and every content of uninitialised slots, the list
\* db_Read follows (database.c:76-82) lists every stored article exactly once.
THEOREM ListCorrect == Spec => []ListThreadsEveryArticle
<1>1. IInv => ListThreadsEveryArticle
  BY DEF IInv, Good, ListThreadsEveryArticle
<1> QED
  BY <1>1, DatabaseGood, PTL

\* The searches by article id (database.c:118-125, 197-205) are unambiguous.
THEOREM IdsCorrect == Spec => []IdsUnique
<1>1. IInv => IdsUnique
  BY WithIdIsIndex, GoodFacts DEF IInv, IdsUnique
<1> QED
  BY <1>1, DatabaseGood, PTL

\* Every reply hangs one level below an older article (database.c:139-140).
THEOREM ParentsCorrect == Spec => []ParentsOlder
<1>1. IInv => ParentsOlder
  BY DEF IInv, Good, WellNumbered, ParentsOlder
<1> QED
  BY <1>1, DatabaseGood, PTL

-----------------------------------------------------------------------------
(* The database implements the bulletin board. *)

\* What a reader sees of an article.
Item == [id : Int, parent_id : Int, depth : Int]
Shown(d, i) == [id |-> i, parent_id |-> d.nodes[i].parent_id, depth |-> d.nodes[i].depth]

\* db_Read lists article_count articles in reading order.
LEMMA ListedIs ==
  ASSUME NEW d, Good(d)
  PROVE  /\ Listed(d) \in Seq(Item)
         /\ Len(Listed(d)) = d.article_count
         /\ \A k \in 1 .. d.article_count : Listed(d)[k] = Shown(d, ReadOrder(d)[k - 1])
<1> DEFINE c == d.article_count
           f(k) == d.nodes[ReadOrder(d)[k - 1]]
<1>1. c \in Nat /\ Used(d) = 0 .. c - 1 /\ Used(d) \subseteq Slots /\ d.nodes \in [Slots -> Node]
  BY GoodFacts
<1>2. \A k \in 1 .. c : ReadOrder(d)[k - 1] \in 0 .. c - 1
  <2> SUFFICES ASSUME NEW k \in 1 .. c PROVE ReadOrder(d)[k - 1] \in 0 .. c - 1
    OBVIOUS
  <2>1. k - 1 \in 0 .. c - 1
    BY <1>1
  <2>2. ReadOrder(d) \in [0 .. c - 1 -> 0 .. c - 1]
    BY <1>1, GoodIsRead
  <2> QED BY <2>1, <2>2
<1>3. \A i \in 0 .. c - 1 : d.nodes[i].id = i /\ d.nodes[i] \in Node
  BY <1>1 DEF Good, WellNumbered
<1>4. \A i \in 0 .. c - 1 : Shown(d, i) \in Item
  <2> SUFFICES ASSUME NEW i \in 0 .. c - 1 PROVE Shown(d, i) \in Item
    OBVIOUS
  <2>1. i \in Int /\ d.nodes[i].parent_id \in Int /\ d.nodes[i].depth \in Int
    BY <1>1, <1>3 DEF Node
  <2> QED BY <2>1 DEF Shown, Item
<1>5. \A k \in 1 .. c : [id |-> f(k).id, parent_id |-> f(k).parent_id, depth |-> f(k).depth]
                          = Shown(d, ReadOrder(d)[k - 1])
  BY <1>2, <1>3 DEF Shown
<1>6. Listed(d) = [k \in 1 .. c |-> Shown(d, ReadOrder(d)[k - 1])]
  BY <1>5 DEF Listed
<1>7. Listed(d) \in [1 .. c -> Item]
  BY <1>2, <1>4, <1>6
<1>8. \A l \in [1 .. c -> Item] : l \in Seq(Item) /\ Len(l) = c
  BY <1>1
<1> QED BY <1>6, <1>7, <1>8

\* What InsertAt makes of a sequence.
LEMMA InsertAtIs ==
  ASSUME NEW S, NEW s \in Seq(S), NEW i \in 1 .. Len(s) + 1, NEW x \in S
  PROVE  /\ Board!InsertAt(s, i, x) \in Seq(S)
         /\ Len(Board!InsertAt(s, i, x)) = Len(s) + 1
         /\ \A k \in 1 .. Len(s) + 1 :
              Board!InsertAt(s, i, x)[k] = IF k < i THEN s[k] ELSE IF k = i THEN x ELSE s[k - 1]
<1> DEFINE n == Len(s)
           a == SubSeq(s, 1, i - 1)
           b == SubSeq(s, i, n)
<1>1. n \in Nat /\ i \in Nat /\ i >= 1 /\ i <= n + 1
  OBVIOUS
<1>2. a \in Seq(S) /\ Len(a) = i - 1 /\ \A k \in 1 .. i - 1 : a[k] = s[k]
  BY <1>1
<1>3. b \in Seq(S) /\ Len(b) = n - i + 1 /\ \A k \in 1 .. n - i + 1 : b[k] = s[i + k - 1]
  BY <1>1
<1> HIDE DEF a, b
<1>4. /\ a \o <<x>> \in Seq(S) /\ Len(a \o <<x>>) = i
      /\ \A k \in 1 .. i - 1 : (a \o <<x>>)[k] = a[k]
      /\ (a \o <<x>>)[i] = x
  BY <1>1, <1>2
<1> DEFINE ax == a \o <<x>>
<1>ax. ax \in Seq(S) /\ Len(ax) = i
  BY <1>4
<1> HIDE DEF ax, n
<1>5. /\ ax \o b \in Seq(S) /\ Len(ax \o b) = n + 1
      /\ \A k \in 1 .. i : (ax \o b)[k] = ax[k]
      /\ \A k \in i + 1 .. n + 1 : (ax \o b)[k] = b[k - i]
  <2>1. \A u, v \in Seq(S) : u \o v \in Seq(S) /\ Len(u \o v) = Len(u) + Len(v)
    OBVIOUS
  <2>2. \A u, v \in Seq(S) : \A k \in 1 .. Len(u) : (u \o v)[k] = u[k]
    OBVIOUS
  <2>3. \A u, v \in Seq(S) : \A k \in Len(u) + 1 .. Len(u) + Len(v) : (u \o v)[k] = v[k - Len(u)]
    OBVIOUS
  <2>4. i + (n - i + 1) = n + 1
    BY <1>1
  <2>5. ax \o b \in Seq(S) /\ Len(ax \o b) = n + 1
    BY <1>3, <1>ax, <2>1, <2>4
  <2>6. \A k \in 1 .. i : (ax \o b)[k] = ax[k]
    BY <1>3, <1>ax, <2>2
  <2>7. \A k \in i + 1 .. i + (n - i + 1) : (ax \o b)[k] = b[k - i]
    BY <1>3, <1>ax, <2>3
  <2> QED BY <2>4, <2>5, <2>6, <2>7
<1>6. \A k \in 1 .. n + 1 : (ax \o b)[k] = IF k < i THEN s[k] ELSE IF k = i THEN x ELSE s[k - 1]
  <2> SUFFICES ASSUME NEW k \in 1 .. n + 1
               PROVE  (ax \o b)[k] = IF k < i THEN s[k] ELSE IF k = i THEN x ELSE s[k - 1]
    OBVIOUS
  <2>1. CASE k < i
    BY <1>1, <1>2, <1>4, <1>5, <2>1 DEF ax
  <2>2. CASE k = i
    BY <1>1, <1>4, <1>5, <2>2 DEF ax
  <2>3. CASE k > i
    <3>1. k - i \in 1 .. n - i + 1 /\ i + (k - i) - 1 = k - 1 /\ k \in i + 1 .. n + 1
      BY <1>1, <2>3
    <3> QED BY <1>3, <1>5, <2>3, <3>1
  <2>4. k < i \/ k = i \/ k > i
    BY <1>1
  <2> QED BY <2>1, <2>2, <2>3, <2>4
<1>7. Board!InsertAt(s, i, x) = ax \o b
  BY DEF Board!InsertAt, a, b, ax, n
<1> QED BY <1>5, <1>6, <1>7 DEF n

\* Two lists with the same articles at the same places are equal.
LEMMA SameList ==
  ASSUME NEW s \in Seq(Item), NEW t \in Seq(Item), Len(s) = Len(t),
         \A k \in 1 .. Len(s) : s[k] = t[k]
  PROVE  s = t
OBVIOUS

\* A database that extends d lists the new article right behind position p.
LEMMA ExtendsListed ==
  ASSUME NEW d, Good(d), NEW e, Good(e), NEW p \in -1 .. d.article_count - 1, Extends(e, d, p)
  PROVE  Listed(e) = Board!InsertAt(Listed(d), p + 2, Shown(e, d.article_count))
<1> DEFINE c == d.article_count
           L == Listed(d)
           x == Shown(e, c)
           ord == ReadOrder(d)
           new == Inserted(ord, c, p)
<1>1. c \in Nat /\ Used(d) = 0 .. c - 1 /\ e.article_count = c + 1
  BY GoodFacts DEF Extends
<1>2. ReadOrder(e) = new
  <2>1. c + 1 \in Nat /\ IsReadingOrder(e, new)
    BY <1>1 DEF Extends
  <2> QED BY <1>1, <2>1, ReadOrderIs
<1>3. L \in Seq(Item) /\ Len(L) = c /\ \A k \in 1 .. c : L[k] = Shown(d, ord[k - 1])
  BY ListedIs
<1>4. /\ Listed(e) \in Seq(Item) /\ Len(Listed(e)) = c + 1
      /\ \A k \in 1 .. c + 1 : Listed(e)[k] = Shown(e, new[k - 1])
  BY <1>1, <1>2, ListedIs
<1>5. \A i \in 0 .. c - 1 : Shown(e, i) = Shown(d, i)
  BY <1>1 DEF Shown, Extends
<1>6. \A k \in 0 .. c - 1 : ord[k] \in 0 .. c - 1
  BY <1>1, GoodIsRead
<1>7. x \in Item
  <2>1. c \in Slots /\ e.nodes \in [Slots -> Node]
    <3>1. c \in Used(e)
      BY <1>1 DEF Used
    <3> QED BY <3>1, GoodFacts
  <2>2. e.nodes[c] \in Node /\ c \in Int
    BY <1>1, <2>1
  <2>3. e.nodes[c].parent_id \in Int /\ e.nodes[c].depth \in Int
    BY <2>2 DEF Node
  <2> QED BY <2>2, <2>3 DEF Shown, Item
<1>8. p + 2 \in 1 .. Len(L) + 1
  BY <1>1, <1>3
<1>9. \A k \in 1 .. c + 1 : new[k - 1] = IF k = p + 2 THEN c ELSE ord[IF k < p + 2 THEN k - 1 ELSE k - 2]
  <2> SUFFICES ASSUME NEW k \in 1 .. c + 1
               PROVE  new[k - 1] = IF k = p + 2 THEN c ELSE ord[IF k < p + 2 THEN k - 1 ELSE k - 2]
    OBVIOUS
  <2>1. k - 1 \in 0 .. c /\ (k - 1 = p + 1 <=> k = p + 2) /\ (k - 1 <= p <=> k < p + 2) /\ (k - 1) - 1 = k - 2
    BY <1>1
  <2>2. new[k - 1] = IF k - 1 = p + 1 THEN c ELSE ord[IF k - 1 <= p THEN k - 1 ELSE (k - 1) - 1]
    BY <2>1 DEF Inserted
  <2> QED BY <2>1, <2>2
<1> DEFINE I == Board!InsertAt(L, p + 2, x)
<1>10. /\ I \in Seq(Item) /\ Len(I) = c + 1
       /\ \A k \in 1 .. c + 1 : I[k] = IF k < p + 2 THEN L[k] ELSE IF k = p + 2 THEN x ELSE L[k - 1]
  BY <1>3, <1>7, <1>8, InsertAtIs
<1> HIDE DEF I, L, new, ord
<1>11. \A k \in 1 .. c + 1 : Listed(e)[k] = I[k]
  <2> SUFFICES ASSUME NEW k \in 1 .. c + 1 PROVE Listed(e)[k] = I[k]
    OBVIOUS
  <2>1. CASE k < p + 2
    <3>1. k \in 1 .. c /\ k - 1 \in 0 .. c - 1
      BY <1>1, <2>1
    <3>2. Listed(e)[k] = Shown(e, ord[k - 1]) /\ I[k] = Shown(d, ord[k - 1])
      BY <1>3, <1>4, <1>9, <1>10, <2>1, <3>1
    <3> QED BY <1>5, <1>6, <3>1, <3>2
  <2>2. CASE k = p + 2
    BY <1>4, <1>9, <1>10, <2>2
  <2>3. CASE k > p + 2
    <3>1. k - 1 \in 1 .. c /\ k - 2 \in 0 .. c - 1 /\ (k - 1) - 1 = k - 2 /\ ~ (k < p + 2) /\ k # p + 2
      BY <1>1, <2>3
    <3>2. Listed(e)[k] = Shown(e, ord[k - 2])
      BY <1>4, <1>9, <3>1
    <3>3. I[k] = Shown(d, ord[k - 2])
      BY <1>3, <1>10, <3>1
    <3> QED BY <1>5, <1>6, <3>1, <3>2, <3>3
  <2>4. k < p + 2 \/ k = p + 2 \/ k > p + 2
    BY <1>1
  <2> QED BY <2>1, <2>2, <2>3, <2>4
<1>12. Listed(e) = I
  BY <1>4, <1>10, <1>11, SameList
<1> QED BY <1>12 DEF I, L

\* A post appends to the list.
LEMMA PostedListed ==
  ASSUME NEW d, Good(d), ~Full(d)
  PROVE  Listed(Posted(d)) = Append(Listed(d), [id |-> Len(Listed(d)), parent_id |-> None, depth |-> 0])
<1> DEFINE c == d.article_count
           L == Listed(d)
           x == [id |-> c, parent_id |-> None, depth |-> 0]
<1>1. c \in Nat /\ L \in Seq(Item) /\ Len(L) = c
  BY GoodFacts, ListedIs
<1>2. Good(Posted(d)) /\ Extends(Posted(d), d, c - 1) /\ Shown(Posted(d), c) = x
  BY PostedIsGood DEF Shown
<1>3. Listed(Posted(d)) = Board!InsertAt(L, (c - 1) + 2, x)
  <2>1. c - 1 \in -1 .. c - 1
    BY <1>1
  <2> QED BY <1>2, <2>1, ExtendsListed
<1>4. x \in Item
  BY <1>1 DEF Item, None
<1> HIDE DEF x, L
<1>5. (c - 1) + 2 = c + 1 /\ c + 1 \in 1 .. Len(L) + 1
  BY <1>1
<1> DEFINE I == Board!InsertAt(L, c + 1, x)
<1>6. /\ I \in Seq(Item) /\ Len(I) = c + 1
      /\ \A k \in 1 .. c + 1 : I[k] = IF k < c + 1 THEN L[k] ELSE IF k = c + 1 THEN x ELSE L[k - 1]
  BY <1>1, <1>4, <1>5, InsertAtIs
<1>7. /\ Append(L, x) \in Seq(Item) /\ Len(Append(L, x)) = c + 1
      /\ \A k \in 1 .. c + 1 : Append(L, x)[k] = IF k = c + 1 THEN x ELSE L[k]
  BY <1>1, <1>4
<1> HIDE DEF I
<1>8. \A k \in 1 .. c + 1 : I[k] = Append(L, x)[k]
  BY <1>1, <1>6, <1>7
<1>9. I = Append(L, x)
  BY <1>6, <1>7, <1>8, SameList
<1> QED BY <1>1, <1>3, <1>5, <1>9 DEF I, L, x

\* The list does not show what the slots beyond the last article hold.
LEMMA TransferredListed ==
  ASSUME NEW d, Good(d), NEW junk \in [Slots -> Garbage]
  PROVE  Listed(Transferred(d, junk)) = Listed(d)
<1> DEFINE e == Transferred(d, junk)
           c == d.article_count
<1>1. c \in Nat /\ Used(d) = 0 .. c - 1 /\ Used(d) \subseteq Slots /\ d \in Database
  BY GoodFacts DEF Good
<1>2. Good(e)
  BY TransferredIsGood
<1>3. e.article_count = c /\ \A i \in 0 .. c - 1 : e.nodes[i] = d.nodes[i]
  BY <1>1 DEF Transferred, Database
<1> HIDE DEF e
<1>4. ReadOrder(d) \in [0 .. c - 1 -> 0 .. c - 1] /\ IsReadingOrder(d, ReadOrder(d))
  BY <1>1, GoodIsRead
<1>5. IsReadingOrder(e, ReadOrder(d))
  <2>1. Used(e) = Used(d)
    BY <1>3 DEF Used
  <2>2. \A k \in Used(d) : e.nodes[ReadOrder(d)[k]] = d.nodes[ReadOrder(d)[k]]
    BY <1>1, <1>3, <1>4
  <2> QED BY <1>4, <2>1, <2>2 DEF IsReadingOrder
<1>6. ReadOrder(e) = ReadOrder(d)
  BY <1>1, <1>3, <1>5, ReadOrderIs
<1>7. \A i \in 0 .. c - 1 : Shown(e, i) = Shown(d, i)
  BY <1>3 DEF Shown
<1>8. \A k \in 1 .. c : ReadOrder(d)[k - 1] \in 0 .. c - 1
  BY <1>1, <1>4
<1>9. /\ Listed(d) \in Seq(Item) /\ Len(Listed(d)) = c
      /\ Listed(e) \in Seq(Item) /\ Len(Listed(e)) = c
      /\ \A k \in 1 .. c : Listed(d)[k] = Shown(d, ReadOrder(d)[k - 1]) /\ Listed(e)[k] = Shown(e, ReadOrder(d)[k - 1])
  BY <1>2, <1>3, <1>6, ListedIs
<1>10. \A k \in 1 .. c : Listed(e)[k] = Listed(d)[k]
  BY <1>7, <1>8, <1>9
<1> QED BY <1>9, <1>10, SameList DEF e

\* Every article is listed at one place, with its id.
LEMMA ListedIds ==
  ASSUME NEW d, Good(d)
  PROVE  /\ DOMAIN Listed(d) = 1 .. d.article_count
         /\ \A j \in Used(d) : /\ j + 1 \in DOMAIN Listed(d)
                               /\ Listed(d)[j + 1] = Shown(d, ReadOrder(d)[j])
         /\ \A k \in DOMAIN Listed(d) : \E j \in Used(d) : k = j + 1
<1>1. /\ d.article_count \in Nat /\ Used(d) = 0 .. d.article_count - 1
      /\ Listed(d) \in Seq(Item) /\ Len(Listed(d)) = d.article_count
      /\ \A k \in 1 .. d.article_count : Listed(d)[k] = Shown(d, ReadOrder(d)[k - 1])
  BY GoodFacts, ListedIs
<1>2. DOMAIN Listed(d) = 1 .. d.article_count
  BY <1>1
<1>3. \A j \in Used(d) : j + 1 \in 1 .. d.article_count /\ (j + 1) - 1 = j
  BY <1>1
<1>4. \A k \in 1 .. d.article_count : \E j \in Used(d) : k = j + 1
  <2> SUFFICES ASSUME NEW k \in 1 .. d.article_count PROVE \E j \in Used(d) : k = j + 1
    OBVIOUS
  <2>1. k - 1 \in Used(d) /\ k = (k - 1) + 1
    BY <1>1
  <2> QED BY <2>1
<1> QED BY <1>1, <1>2, <1>3, <1>4

\* The searches of the board find in the list what those of the code find in
\* the array.
LEMMA SearchesAgree ==
  ASSUME Good(db)
  PROVE  /\ Board!ids = Used(db)
         /\ \A j \in Used(db) : Board!Position(ReadOrder(db)[j]) = j + 1
         /\ \A a : Board!Replies(a) = Children(db, a)
<1> DEFINE L == Listed(db)
           ord == ReadOrder(db)
<1>1. /\ \A j \in Used(db) : j + 1 \in DOMAIN L /\ L[j + 1] = Shown(db, ord[j])
      /\ \A k \in DOMAIN L : \E j \in Used(db) : k = j + 1
  BY ListedIds
<1>2. /\ \A j \in Used(db) : ord[j] \in Used(db)
      /\ \A i \in Used(db) : \E j \in Used(db) : ord[j] = i
      /\ \A j, k \in Used(db) : ord[j] = ord[k] => j = k
  BY GoodIsRead DEF IsReadingOrder
<1>3. \A i : Shown(db, i).id = i /\ Shown(db, i).parent_id = db.nodes[i].parent_id
  BY DEF Shown
<1>4. \A j \in Used(db) : L[j + 1].id = ord[j] /\ L[j + 1].parent_id = db.nodes[ord[j]].parent_id
  BY <1>1, <1>3
<1>5. Board!ids = {L[k].id : k \in DOMAIN L}
  BY DEF Board!ids
<1>6. \A a : Board!Position(a) = CHOOSE k \in DOMAIN L : L[k].id = a
  BY DEF Board!Position
<1>7. \A a : Board!Replies(a) = {L[k].id : k \in {j \in DOMAIN L : L[j].parent_id = a}}
  BY DEF Board!Replies
<1> HIDE DEF L, ord
<1>8. Board!ids = Used(db)
  <2>1. ASSUME NEW a \in Board!ids PROVE a \in Used(db)
    <3>1. PICK k \in DOMAIN L : L[k].id = a
      BY <1>5
    <3>2. PICK j \in Used(db) : k = j + 1
      BY <1>1
    <3> QED BY <1>2, <1>4, <3>1, <3>2
  <2>2. ASSUME NEW a \in Used(db) PROVE a \in Board!ids
    <3>1. PICK j \in Used(db) : ord[j] = a
      BY <1>2
    <3>2. j + 1 \in DOMAIN L /\ L[j + 1].id = a
      BY <1>1, <1>4, <3>1
    <3> QED BY <1>5, <3>2
  <2> QED BY <2>1, <2>2
<1>9. ASSUME NEW j \in Used(db) PROVE Board!Position(ord[j]) = j + 1
  <2>1. j + 1 \in DOMAIN L /\ L[j + 1].id = ord[j]
    BY <1>1, <1>4
  <2>2. \A k \in DOMAIN L : L[k].id = ord[j] => k = j + 1
    BY <1>1, <1>2, <1>4
  <2>3. (CHOOSE k \in DOMAIN L : L[k].id = ord[j]) = j + 1
    BY <2>1, <2>2
  <2> QED BY <1>6, <2>3
<1>10. ASSUME NEW a PROVE Board!Replies(a) = Children(db, a)
  <2>1. Children(db, a) = {i \in Used(db) : db.nodes[i].parent_id = a}
    BY DEF Children
  <2>2. \A i \in Children(db, a) : i \in Board!Replies(a)
    <3> SUFFICES ASSUME NEW i \in Children(db, a) PROVE i \in Board!Replies(a)
      OBVIOUS
    <3>1. PICK j \in Used(db) : ord[j] = i
      BY <1>2, <2>1
    <3>2. j + 1 \in DOMAIN L /\ L[j + 1].id = i /\ L[j + 1].parent_id = a
      BY <1>1, <1>4, <2>1, <3>1
    <3> QED BY <1>7, <3>2
  <2>3. \A i \in Board!Replies(a) : i \in Children(db, a)
    <3> SUFFICES ASSUME NEW i \in Board!Replies(a) PROVE i \in Children(db, a)
      OBVIOUS
    <3>1. PICK k \in DOMAIN L : L[k].parent_id = a /\ L[k].id = i
      BY <1>7
    <3>2. PICK j \in Used(db) : k = j + 1
      BY <1>1
    <3> QED BY <1>2, <1>4, <2>1, <3>1, <3>2
  <2> QED BY <2>2, <2>3
<1> QED BY <1>8, <1>9, <1>10 DEF ord

\* A db_Reply that succeeds is a Reply of the board: the reply comes behind the
\* newest reply to the same article, or behind the article.
LEMMA ReplyImplements ==
  ASSUME IInv, NEW a \in Slots, db_Reply(a)
  PROVE  a \in Board!ids /\ Board!Reply(a)
<1> DEFINE c == db.article_count
           anchor == ReplyAnchor(db, a)
<1>1. Good(db) /\ ~Full(db) /\ a \in Int /\ WithId(db, a) # {} /\ db' = Replied(db, a) /\ UNCHANGED snapshot
  BY MaxArticlesAssumption DEF db_Reply, IInv, Slots
<1>2. a \in Used(db) /\ WithId(db, a) = {a} /\ First(WithId(db, a)) = a
  <2>1. a \in Used(db) /\ WithId(db, a) = {a}
    BY <1>1, WithIdIsIndex
  <2>2. First({a}) = a
    BY <1>1, FirstIsLeast
  <2> QED BY <2>1, <2>2
<1>3. c \in Nat /\ Used(db) = 0 .. c - 1 /\ c < MaxArticles /\ Len(Listed(db)) = c
  BY <1>1, GoodFacts, ListedIs, MaxArticlesAssumption DEF Full
<1>4. /\ Board!ids = Used(db)
      /\ \A j \in Used(db) : Board!Position(ReadOrder(db)[j]) = j + 1
      /\ Board!Replies(a) = Children(db, a)
  BY <1>1, SearchesAgree
<1>5. PICK p \in Used(db) : ReadOrder(db)[p] = anchor /\ Extends(db', db, p)
  BY <1>1, RepliedIsGood
<1>6. /\ Good(db') /\ db'.nodes[c].parent_id = a /\ db'.nodes[c].depth = db.nodes[a].depth + 1
  BY <1>1, RepliedIsGood
<1>7. Listed(db') = Board!InsertAt(Listed(db), p + 2, Shown(db', c))
  <2>1. p \in -1 .. c - 1
    BY <1>3
  <2> QED BY <1>1, <1>5, <1>6, <2>1, ExtendsListed
<1>8. anchor = IF Board!Replies(a) # {} THEN Board!Newest(Board!Replies(a)) ELSE a
  BY <1>2, <1>4 DEF ReplyAnchor, Latest, Board!Newest
<1>9. Board!Position(anchor) + 1 = p + 2
  BY <1>3, <1>4, <1>5
<1>10. Listed(db)[Board!Position(a)].depth = db.nodes[a].depth
  <2>1. PICK j \in Used(db) : ReadOrder(db)[j] = a
    BY <1>1, <1>2, GoodIsRead DEF IsReadingOrder
  <2>2. Listed(db)[j + 1] = Shown(db, a)
    BY <1>1, <2>1, ListedIds
  <2> QED BY <1>4, <2>1, <2>2 DEF Shown
<1> DEFINE reply == [id |-> Len(Listed(db)), parent_id |-> a, depth |-> Listed(db)[Board!Position(a)].depth + 1]
<1>11. Shown(db', c) = reply
  BY <1>3, <1>6, <1>10 DEF Shown
<1>12. Listed(db)' = Listed(db') /\ Listed(snapshot)' = Listed(snapshot)
  BY <1>1
<1>13. Listed(db)' = Board!InsertAt(Listed(db), Board!Position(anchor) + 1, reply)
  BY <1>7, <1>9, <1>11, <1>12
<1> HIDE DEF reply, anchor
<1>14. Board!Reply(a)
  BY <1>2, <1>3, <1>4, <1>8, <1>12, <1>13 DEF Board!Reply, reply
<1> QED BY <1>2, <1>4, <1>14

\* Every step of the database is a step of the board or leaves it as it is.
LEMMA StepImplements == IInv /\ [Next]_vars => [Board!Next]_<<Listed(db), Listed(snapshot)>>
<1> SUFFICES ASSUME IInv, [Next]_vars PROVE [Board!Next]_<<Listed(db), Listed(snapshot)>>
  OBVIOUS
<1>1. CASE db_Post
  <2>1. Good(db) /\ ~Full(db) /\ db' = Posted(db) /\ snapshot' = snapshot
    BY <1>1 DEF db_Post, IInv
  <2>2. Len(Listed(db)) < MaxArticles
    BY <2>1, GoodFacts, ListedIs, MaxArticlesAssumption DEF Full
  <2>3. Listed(db') = Append(Listed(db), [id |-> Len(Listed(db)), parent_id |-> Board!NoParent, depth |-> 0])
    BY <2>1, PostedListed DEF None, Board!NoParent
  <2>4. Board!Post
    BY <2>1, <2>2, <2>3 DEF Board!Post
  <2> QED BY <2>4 DEF Board!Next
<1>2. ASSUME NEW a \in Slots, db_Reply(a) PROVE Board!Next
  BY <1>2, ReplyImplements DEF Board!Next
<1>3. CASE db_Backup
  BY <1>3 DEF db_Backup, Board!Next, Board!Save
<1>4. CASE db_Restore
  <2>1. PICK junk \in [Slots -> Garbage] : db' = Transferred(snapshot, junk)
    BY <1>4 DEF db_Restore
  <2>2. Listed(db') = Listed(snapshot) /\ snapshot' = snapshot
    BY <1>4, <2>1, TransferredListed DEF db_Restore, IInv
  <2> QED BY <2>2 DEF Board!Next, Board!Return
<1>5. CASE UNCHANGED vars
  BY <1>5 DEF vars
<1> QED BY <1>1, <1>2, <1>3, <1>4, <1>5 DEF Next

\* The array of linked nodes implements the bulletin board (database.c:12-256)
\* for every MAX_ARTICLES and every content of the uninitialised slots: what
\* db_Read lists evolves as the abstract sequence does.
THEOREM BoardImplemented == Spec => ImplementsBoard
<1>1. Init => Board!Init
  <2> SUFFICES ASSUME Init PROVE Listed(db) = << >> /\ Listed(snapshot) = << >>
    BY DEF Board!Init
  <2>1. Listed(ZeroDatabase) \in Seq(Item) /\ Len(Listed(ZeroDatabase)) = 0
    BY ZeroIsGood, ListedIs DEF ZeroDatabase
  <2>2. Listed(ZeroDatabase) = << >>
    BY <2>1
  <2> QED BY <2>2 DEF Init
<1> QED
  BY <1>1, StepImplements, DatabaseGood, PTL DEF Spec, ImplementsBoard, Board!Spec

-----------------------------------------------------------------------------
(* The database implements the log of writes the protocols keep. *)

\* The version counts the articles.
Counted(d) == d.version = d.article_count

LogInv == IInv /\ Counted(db) /\ Counted(snapshot)

Taken == [id : Int, parent_id : Int]

\* The log of a good database has an element for each article.
LEMMA StoredIs ==
  ASSUME NEW d, Good(d)
  PROVE  /\ Stored(d) \in Seq(Taken) /\ Len(Stored(d)) = d.article_count
         /\ \A k \in 1 .. d.article_count :
              Stored(d)[k] = [id |-> d.nodes[k - 1].id, parent_id |-> d.nodes[k - 1].parent_id]
<1> DEFINE c == d.article_count
           x(k) == [id |-> d.nodes[k - 1].id, parent_id |-> d.nodes[k - 1].parent_id]
<1>1. c \in Nat /\ 0 .. c - 1 \subseteq Slots /\ d.nodes \in [Slots -> Node]
  BY GoodFacts
<1>2. ASSUME NEW k \in 1 .. c PROVE x(k) \in Taken
  <2>1. k - 1 \in 0 .. c - 1
    BY <1>1
  <2>2. d.nodes[k - 1] \in Node
    BY <1>1, <2>1
  <2>3. d.nodes[k - 1].id \in Int /\ d.nodes[k - 1].parent_id \in Int
    BY <2>2 DEF Node
  <2> QED BY <2>3 DEF Taken
<1> HIDE DEF x
<1>3. Stored(d) = [k \in 1 .. c |-> x(k)]
  BY DEF Stored, x
<1>4. Stored(d) \in [1 .. c -> Taken]
  BY <1>2, <1>3
<1>5. \A l \in [1 .. c -> Taken] : l \in Seq(Taken) /\ Len(l) = c
  BY <1>1
<1> QED BY <1>3, <1>4, <1>5 DEF x

\* Two logs with the same elements are equal.
LEMMA SameLog ==
  ASSUME NEW s \in Seq(Taken), NEW t \in Seq(Taken), Len(s) = Len(t),
         \A k \in 1 .. Len(s) : s[k] = t[k]
  PROVE  s = t
OBVIOUS

\* An operation that stores one more article appends it to the log.
LEMMA ExtendsStored ==
  ASSUME NEW d, Good(d), NEW e, Good(e), NEW p, Extends(e, d, p)
  PROVE  Stored(e) = Append(Stored(d), [id |-> d.article_count,
                                        parent_id |-> e.nodes[d.article_count].parent_id])
<1> DEFINE c == d.article_count
           x == [id |-> c, parent_id |-> e.nodes[c].parent_id]
           S == Stored(d)
           T == Stored(e)
<1>1. /\ c \in Nat /\ S \in Seq(Taken) /\ Len(S) = c
      /\ \A k \in 1 .. c : S[k] = [id |-> d.nodes[k - 1].id, parent_id |-> d.nodes[k - 1].parent_id]
  BY GoodFacts, StoredIs
<1>2. /\ e.article_count = c + 1 /\ e.nodes[c].id = c
      /\ \A i \in 0 .. c - 1 : e.nodes[i].id = d.nodes[i].id /\ e.nodes[i].parent_id = d.nodes[i].parent_id
  BY GoodFacts DEF Extends
<1>3. /\ T \in Seq(Taken) /\ Len(T) = c + 1
      /\ \A k \in 1 .. c + 1 : T[k] = [id |-> e.nodes[k - 1].id, parent_id |-> e.nodes[k - 1].parent_id]
  BY <1>2, StoredIs
<1>4. T[c + 1] = x
  <2>1. c + 1 \in 1 .. c + 1 /\ (c + 1) - 1 = c
    BY <1>1
  <2> QED BY <1>2, <1>3, <2>1
<1>5. x \in Taken
  BY <1>1, <1>3, <1>4
<1> HIDE DEF x, S, T
<1>6. ASSUME NEW k \in 1 .. c PROVE T[k] = S[k]
  <2>1. k - 1 \in 0 .. c - 1 /\ k \in 1 .. c + 1
    BY <1>1
  <2> QED BY <1>1, <1>2, <1>3, <2>1
<1>7. /\ Append(S, x) \in Seq(Taken) /\ Len(Append(S, x)) = c + 1
      /\ \A k \in 1 .. c + 1 : Append(S, x)[k] = IF k = c + 1 THEN x ELSE S[k]
  BY <1>1, <1>5
<1>8. \A k \in 1 .. c + 1 : T[k] = Append(S, x)[k]
  BY <1>1, <1>4, <1>6, <1>7
<1>9. T = Append(S, x)
  BY <1>3, <1>7, <1>8, SameLog
<1> QED BY <1>9 DEF S, T, x

\* What a message carries of a database is its log and its version.
LEMMA TransferredStored ==
  ASSUME NEW d, Good(d), NEW junk \in [Slots -> Garbage]
  PROVE  /\ Stored(Transferred(d, junk)) = Stored(d)
         /\ Transferred(d, junk).version = d.version
         /\ Transferred(d, junk).article_count = d.article_count
<1> DEFINE e == Transferred(d, junk)
           c == d.article_count
<1>1. c \in Nat /\ Used(d) = 0 .. c - 1 /\ Used(d) \subseteq Slots /\ d \in Database
  BY GoodFacts DEF Good
<1>2. e.article_count = c /\ e.version = d.version /\ \A i \in 0 .. c - 1 : e.nodes[i] = d.nodes[i]
  BY <1>1 DEF Transferred, Database
<1> HIDE DEF e
<1>3. ASSUME NEW k \in 1 .. c PROVE e.nodes[k - 1] = d.nodes[k - 1]
  <2>1. k - 1 \in 0 .. c - 1
    BY <1>1
  <2> QED BY <1>2, <2>1
<1>4. Stored(e) = Stored(d)
  BY <1>2, <1>3 DEF Stored
<1> QED BY <1>2, <1>4 DEF e

\* A post or a reply is a write the log accepts.
LEMMA WriteImplements ==
  ASSUME Good(db), ~Full(db), Counted(db), NEW parent \in Log!Parents, parent < db.article_count,
         Good(db'), NEW p, Extends(db', db, p), db'.nodes[db.article_count].parent_id = parent,
         db'.version = db.version + 1, snapshot' = snapshot
  PROVE  Log!Write(parent) /\ Counted(db')
<1>1. db.article_count \in Nat /\ Len(Stored(db)) = db.article_count
  BY GoodFacts, StoredIs
<1>2. Log!Accepts(parent)
  BY <1>1, MaxArticlesAssumption DEF Log!Accepts, Full
<1>3. Stored(db') = Append(Stored(db), [id |-> Len(Stored(db)), parent_id |-> parent])
  BY <1>1, ExtendsStored
<1>4. db'.article_count = db.article_count + 1
  BY DEF Extends
<1>5. db'.version = Len(Stored(db)) + 1
  BY <1>1 DEF Counted
<1> QED BY <1>2, <1>3, <1>4, <1>5 DEF Log!Write, Counted

\* Every step of the database is a step of the log or leaves it as it is, and
\* the version goes on counting the articles.
LEMMA StepLogged ==
  ASSUME LogInv, [Next]_vars
  PROVE  /\ [Log!Next]_<<Stored(db), db.version, Stored(snapshot)>>
         /\ Counted(db') /\ Counted(snapshot')
<1>1. Good(db) /\ Good(snapshot) /\ Counted(db) /\ Counted(snapshot)
  BY DEF LogInv, IInv
<1>2. CASE db_Post
  <2>1. ~Full(db) /\ db' = Posted(db) /\ snapshot' = snapshot
    BY <1>2 DEF db_Post
  <2>2. /\ Good(db') /\ Extends(db', db, db.article_count - 1)
        /\ db'.nodes[db.article_count].parent_id = None
    BY <1>1, <2>1, PostedIsGood
  <2>3. db'.version = db.version + 1
    BY <2>1 DEF Posted, Store
  <2>4. None \in Log!Parents /\ None < db.article_count
    BY <1>1, GoodFacts DEF None, Log!Parents, Log!NoParent
  <2>5. Log!Write(None) /\ Counted(db')
    BY <1>1, <2>1, <2>2, <2>3, <2>4, WriteImplements
  <2> QED BY <1>1, <2>1, <2>4, <2>5 DEF Log!Next
<1>3. ASSUME NEW a \in Slots, db_Reply(a) PROVE Log!Next /\ Counted(db') /\ Counted(snapshot')
  <2>1. ~Full(db) /\ WithId(db, a) # {} /\ db' = Replied(db, a) /\ snapshot' = snapshot
    BY <1>3 DEF db_Reply
  <2>2. a \in Int /\ a \in Log!Parents
    BY MaxArticlesAssumption DEF Slots, Log!Parents
  <2>3. Good(db') /\ db'.nodes[db.article_count].parent_id = a
    BY <1>1, <2>1, <2>2, RepliedIsGood
  <2>4. PICK p \in Used(db) : Extends(db', db, p)
    BY <1>1, <2>1, <2>2, RepliedIsGood
  <2>5. db'.version = db.version + 1
    BY <2>1 DEF Replied, Store
  <2>6. a < db.article_count
    <3>1. a \in Used(db)
      BY <1>1, <2>1, <2>2, WithIdIsIndex
    <3> QED BY <1>1, <3>1, GoodFacts
  <2>7. Log!Write(a) /\ Counted(db')
    BY <1>1, <2>1, <2>2, <2>3, <2>4, <2>5, <2>6, WriteImplements
  <2> QED BY <1>1, <2>1, <2>2, <2>7 DEF Log!Next
<1>4. CASE db_Backup
  BY <1>1, <1>4 DEF db_Backup, Log!Next, Log!Copy, Counted
<1>5. CASE db_Restore
  <2>1. PICK junk \in [Slots -> Garbage] : db' = Transferred(snapshot, junk)
    BY <1>5 DEF db_Restore
  <2>2. /\ Stored(db') = Stored(snapshot) /\ db'.version = snapshot.version
        /\ db'.article_count = snapshot.article_count /\ snapshot' = snapshot
    BY <1>1, <1>5, <2>1, TransferredStored DEF db_Restore
  <2>3. db'.version = Len(Stored(snapshot))
    BY <1>1, <2>2, StoredIs DEF Counted
  <2> QED BY <1>1, <2>2, <2>3 DEF Log!Next, Log!Overwrite, Counted
<1>6. CASE UNCHANGED vars
  BY <1>1, <1>6 DEF vars
<1> QED BY <1>2, <1>3, <1>4, <1>5, <1>6 DEF Next

\* The array of linked nodes implements the log of writes (database.c:12-256)
\* for every MAX_ARTICLES and every content of the uninitialised slots: the
\* models of the three protocols may keep that log in the array's place.
THEOREM LogImplemented == Spec => ImplementsLog
<1>1. Init => Log!Init /\ LogInv
  <2> SUFFICES ASSUME Init PROVE Log!Init /\ LogInv
    OBVIOUS
  <2>1. Stored(ZeroDatabase) \in Seq(Taken) /\ Len(Stored(ZeroDatabase)) = 0
    BY ZeroIsGood, StoredIs DEF ZeroDatabase
  <2>2. Stored(ZeroDatabase) = << >>
    BY <2>1
  <2>3. ZeroDatabase.version = 0 /\ Counted(ZeroDatabase)
    BY DEF ZeroDatabase, Counted
  <2> QED BY <2>2, <2>3, ZeroIsGood DEF Init, Log!Init, LogInv, IInv
<1>2. LogInv /\ [Next]_vars => LogInv'
  BY StepKeepsGood, StepLogged DEF LogInv
<1>3. LogInv /\ [Next]_vars => [Log!Next]_<<Stored(db), db.version, Stored(snapshot)>>
  BY StepLogged
<1> QED
  BY <1>1, <1>2, <1>3, PTL DEF Spec, ImplementsLog, Log!Spec
=============================================================================
