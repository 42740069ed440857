---------------------------- MODULE BulletinBoard ----------------------------
(***************************************************************************)
(* What the article database promises a reader: the board is one sequence  *)
(* of articles.  A post goes to the end, a reply is inserted right behind  *)
(* the latest reply to the same article, or behind the article itself when *)
(* it is the first reply (so that replies to an earlier reply end up below *)
(* a later one: the board is not in thread order).  An operator may       *)
(* return the board to the state it was saved in.                          *)
(***************************************************************************)
EXTENDS Integers, Sequences, SequencesExt

CONSTANT MaxArticles

VARIABLES board,   \* the articles in the order a READ lists them
          saved    \* the board as it was when it was last saved

NoParent == -1

ids == {board[k].id : k \in DOMAIN board}

\* Position of the article with this id.
Position(id) == CHOOSE k \in DOMAIN board : board[k].id = id

Replies(id) == {board[k].id : k \in {j \in DOMAIN board : board[j].parent_id = id}}

Newest(S) == CHOOSE i \in S : \A j \in S : j <= i

Init == board = << >> /\ saved = << >>

Post ==
  /\ Len(board) < MaxArticles
  /\ board' = Append(board, [id |-> Len(board), parent_id |-> NoParent, depth |-> 0])
  /\ UNCHANGED saved

Reply(p) ==
  /\ Len(board) < MaxArticles
  /\ p \in ids
  /\ LET behind == IF Replies(p) # {} THEN Newest(Replies(p)) ELSE p
         reply  == [id |-> Len(board), parent_id |-> p, depth |-> board[Position(p)].depth + 1]
     IN  board' = InsertAt(board, Position(behind) + 1, reply)
  /\ UNCHANGED saved

Save == saved' = board /\ UNCHANGED board

Return == board' = saved /\ UNCHANGED saved

Next == Post \/ (\E p \in ids : Reply(p)) \/ Save \/ Return

Spec == Init /\ [][Next]_<<board, saved>>
=============================================================================
