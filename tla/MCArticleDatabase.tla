-------------------------- MODULE MCArticleDatabase --------------------------
(***************************************************************************)
(* A small article database.                                               *)
(***************************************************************************)
EXTENDS ArticleDatabase

\* What an uninitialised slot may hold: it may look like the end of the list,
\* like a child of article 0, or like a link back to the start.
MCGarbage ==
  { [next |-> None, id |-> 0, parent_id |-> 0, depth |-> 7],
    [next |-> 0, id |-> 1, parent_id |-> None, depth |-> 0] }
=============================================================================
