-------------------------------- MODULE Dlist -------------------------------
(***************************************************************************)
(* util/dlist.c: circular doubly-linked lists.  A heap of nodes is a       *)
(* record r with the functions r.next and r.prev.  Each operation first    *)
(* reads the nodes involved and then writes four pointers; it is the       *)
(* sequence of those writes, so that a caller that can be interrupted      *)
(* performs them one by one and any other caller performs all of them.     *)
(***************************************************************************)
EXTENDS Naturals, Sequences, SequencesExt

Write(field, node, to) == [field |-> field, node |-> node, to |-> to]

\* One pointer assignment, and a whole operation.
Perform(r, w) == [r EXCEPT ![w.field][w.node] = w.to]
PerformAll(r, ws) == FoldLeft(Perform, r, ws)

\* Every node of S a one-element list (dlist_init)
dlist_init(S) == [next |-> [n \in S |-> n], prev |-> [n \in S |-> n]]

dlist_insert_after(r, d0, a) ==
    LET d1 == r.next[d0]
        z  == r.prev[a]
    IN  << Write("next", d0, a), Write("prev", a, d0),
           Write("next", z, d1), Write("prev", d1, z) >>

InsertBeforeNoNext(r, d0, a) ==
    LET d999 == r.prev[d0]
        z    == r.prev[a]
    IN  << Write("prev", d0, z), Write("next", z, d0), Write("prev", a, d999) >>
dlist_insert_before(r, d0, a) ==
    LET d999 == r.prev[d0]
        z    == r.prev[a]
    IN  << Write("prev", d0, z), Write("next", z, d0),
           Write("prev", a, d999), Write("next", d999, a) >>

dlist_remove(r, n) ==
    LET d0 == r.prev[n]
        d2 == r.next[n]
    IN  << Write("prev", n, n), Write("next", n, n),
           Write("next", d0, d2), Write("prev", d2, d0) >>

\* The nodes after head, in order, up to the node before head; the whole of
\* S at most, so that the walk of a broken list ends too.
NodesAfter(r, head, S) ==
    LET nth[k \in 0..Cardinality(S)] == IF k = 0 THEN head ELSE r.next[nth[k - 1]]
        ends == {k \in 1..Cardinality(S) : nth[k] = head}
        len  == IF ends = {} THEN Cardinality(S) ELSE Min(ends) - 1
    IN  [i \in 1..len |-> nth[i]]
=============================================================================
