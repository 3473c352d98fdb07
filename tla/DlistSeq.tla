------------------------------ MODULE DlistSeq ------------------------------
(***************************************************************************)
(* util/dlist.c where a list is used as a whole: the nodes behind a fixed  *)
(* head node, as a sequence.  Dlist has the same operations as pointers.   *)
(***************************************************************************)
EXTENDS Naturals, Sequences

\* dlist_insert_before the i-th node; i = Len(s) + 1 is the head node itself.
InsertBefore(s, i, t) ==
    [j \in 1..(Len(s) + 1) |-> IF j < i THEN s[j] ELSE IF j = i THEN t ELSE s[j - 1]]

\* dlist_remove of the i-th node
RemoveNode(s, i) ==
    [j \in 1..(Len(s) - 1) |-> IF j < i THEN s[j] ELSE s[j + 1]]
=============================================================================
