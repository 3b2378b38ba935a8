---------------------------- MODULE MCModelAccess ----------------------------
(* A secret the shell sets as well and one that only the door knows; no     *)
(* retry or one; a stream of up to four fragments of three calls.           *)
EXTENDS ModelAccess

Alike == Permutations(Workers)

Fragment(i, id, name, pieces) == [index |-> i, id |-> id, name |-> name, arguments |-> pieces]
MCFragments ==
  {Fragment(i, id, {"f"}, << >>) : i \in {0, 1, 2}, id \in {NoId, << "a" >>, << "a", 2 >>}}
    \cup {Fragment(0, NoId, {""}, << >>)}
    \cup {Fragment(i, NoId, {}, << p >>) : i \in {0, 1}, p \in {"x", "broken"}}
MCMessages ==
  {[role |-> r, content |-> c, length |-> 2, marked |-> "none"] : r \in {"system", "user"}, c \in Contents}
=============================================================================
