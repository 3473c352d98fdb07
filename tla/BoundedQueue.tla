---------------------------- MODULE BoundedQueue ----------------------------
(***************************************************************************)
(* What a kernel FIFO promises: a queue of at most cap elements that hands *)
(* its elements back in order, refuses to grow beyond its capacity and     *)
(* refuses to read when it is empty.  cap = 0 until the queue is given a   *)
(* buffer.  ret is what the last call returned to its caller.              *)
(***************************************************************************)
EXTENDS Naturals, Sequences

CONSTANTS Data,   \* the values that can be queued
          Caps,   \* the capacities a queue can be initialised with
          EIO,    \* the error a refused call returns
          OK      \* what a successful enqueue returns

VARIABLES q, cap, ret

vars == <<q, cap, ret>>

Init == q = << >> /\ cap = 0 /\ ret = OK

Reset(n) == q' = << >> /\ cap' = n /\ UNCHANGED ret

Enqueue(d) ==
    /\ UNCHANGED cap
    /\ \/ Len(q) < cap /\ q' = Append(q, d) /\ ret' = OK
       \/ Len(q) = cap /\ ret' = EIO /\ UNCHANGED q

Dequeue ==
    /\ UNCHANGED cap
    /\ \/ q # << >> /\ q' = Tail(q) /\ ret' = Head(q)
       \/ q = << >> /\ ret' = EIO /\ UNCHANGED q

Peek ==
    /\ UNCHANGED <<q, cap>>
    /\ ret' = IF q = << >> THEN EIO ELSE Head(q)

Next ==
    \/ \E n \in Caps : Reset(n)
    \/ \E d \in Data : Enqueue(d)
    \/ Dequeue
    \/ Peek

Spec == Init /\ [][Next]_vars
=============================================================================
