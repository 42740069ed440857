------------------------------ MODULE WriteLog -------------------------------
(***************************************************************************)
(* What the article database promises the replication protocols: it is the *)
(* sequence of the writes it has taken.  Article id k is element k + 1, a  *)
(* write is taken if there is room and the article it answers is there,    *)
(* and the version by which servers compare databases is the length.       *)
(* Sequential, QuorumProtocol and ReadYourWrite keep databases in this     *)
(* form.                                                                   *)
(***************************************************************************)
EXTENDS Integers, Sequences

CONSTANT MaxArticles

VARIABLES log,       \* the writes in the order they were taken
          version,   \* the number a server compares with that of another
          copy       \* the log as it was when it was last copied

NoParent == -1

Parents == {NoParent} \cup 0 .. MaxArticles - 1

Accepts(parent) == Len(log) < MaxArticles /\ parent < Len(log)

Init == log = << >> /\ version = 0 /\ copy = << >>

Write(parent) ==
  /\ Accepts(parent)
  /\ log' = Append(log, [id |-> Len(log), parent_id |-> parent])
  /\ version' = Len(log) + 1
  /\ UNCHANGED copy

Copy == copy' = log /\ UNCHANGED <<log, version>>

Overwrite == log' = copy /\ version' = Len(copy) /\ UNCHANGED copy

Next == (\E parent \in Parents : Write(parent)) \/ Copy \/ Overwrite

Spec == Init /\ [][Next]_<<log, version, copy>>
=============================================================================
