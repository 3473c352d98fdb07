------------------------------- MODULE Fifo32 -------------------------------
(***************************************************************************)
(* util/fifo.c: the ring buffer behind every queue of the 32-bit kernel.   *)
(* Each call is atomic here: every caller runs it with interrupts off (an  *)
(* interrupt handler, or a task between cli and sti).                      *)
(***************************************************************************)
EXTENDS Naturals, Sequences

CONSTANTS Data,    \* the values that are enqueued
          Zero,    \* the contents of a fresh buffer: static storage or kzalloc
          BufLens, \* the buffer lengths fifo32_init is called with
          EIO,     \* -EIO
          OK       \* 0, the result of a successful enqueue

ASSUME FifoAssumption ==
    /\ Zero \in Data
    /\ BufLens \subseteq Nat \ {0}
    /\ EIO \notin Data

VARIABLES hasbuf,  \* fifo->buf is not NULL
          buf, buflen, free, next_w, next_r,
          ret      \* what the last call returned

vars == <<hasbuf, buf, buflen, free, next_w, next_r, ret>>

TypeOK ==
    /\ hasbuf \in BOOLEAN
    /\ buflen \in Nat
    /\ buf \in [0..(buflen - 1) -> Data]
    /\ free \in 0..buflen
    /\ next_w \in Nat
    /\ next_r \in Nat
    /\ ret \in Data \cup {OK, EIO}

\* FIFO32 f = {0}
Init ==
    /\ hasbuf = FALSE
    /\ buflen = 0
    /\ buf = [i \in 0..(buflen - 1) |-> Zero]
    /\ free = 0
    /\ next_w = 0
    /\ next_r = 0
    /\ ret = OK

fifo32_init(n) ==
    /\ buflen' = n
    /\ buf' = [i \in 0..(n - 1) |-> Zero]
    /\ hasbuf' = TRUE
    /\ free' = n
    /\ next_w' = 0
    /\ next_r' = 0
    /\ UNCHANGED ret

\* next_w++ and next_r++ wrap to the head of the buffer
Wrap(i) == IF i + 1 = buflen THEN 0 ELSE i + 1

EnqueueNoFullTest(d) ==
    /\ UNCHANGED <<hasbuf, buflen, next_r>>
    /\ hasbuf
    /\ buf' = [buf EXCEPT ![next_w] = d]
    /\ next_w' = Wrap(next_w)
    /\ free' = IF free = 0 THEN 0 ELSE free - 1
    /\ ret' = OK
fifo32_enqueue(d) ==
    /\ UNCHANGED <<hasbuf, buflen, next_r>>
    /\ \/ /\ ~hasbuf \/ free = 0
          /\ ret' = EIO
          /\ UNCHANGED <<buf, free, next_w>>
       \/ /\ hasbuf /\ free # 0
          /\ buf' = [buf EXCEPT ![next_w] = d]
          /\ next_w' = Wrap(next_w)
          /\ free' = free - 1
          /\ ret' = OK

fifo32_dequeue ==
    /\ UNCHANGED <<hasbuf, buf, buflen, next_w>>
    /\ \/ /\ free = buflen
          /\ ret' = EIO
          /\ UNCHANGED <<free, next_r>>
       \/ /\ free # buflen
          /\ ret' = buf[next_r]
          /\ next_r' = Wrap(next_r)
          /\ free' = free + 1

fifo32_peek ==
    /\ ret' = IF free = buflen THEN EIO ELSE buf[next_r]
    /\ UNCHANGED <<hasbuf, buf, buflen, free, next_w, next_r>>

Next ==
    \/ \E n \in BufLens : fifo32_init(n)
    \/ \E d \in Data : fifo32_enqueue(d)
    \/ fifo32_dequeue
    \/ fifo32_peek

Spec == Init /\ [][Next]_vars

-----------------------------------------------------------------------------
\* fifo32_status_getUsageB
Usage == buflen - free

\* The slot that holds the i-th queued element (i from 1).
Slot(i) == IF next_r + i - 1 < buflen THEN next_r + i - 1 ELSE next_r + i - 1 - buflen

\* The elements the buffer holds, oldest first.
Contents == [i \in 1..Usage |-> buf[Slot(i)]]

(***************************************************************************)
(* The cursors stay inside the buffer and next_w is always the slot right  *)
(* after the last queued element: the free counter and the two cursors,    *)
(* which fifo32_enqueue and fifo32_dequeue move independently, never       *)
(* disagree about where the queue ends, also when it is full or empty and  *)
(* next_w = next_r.                                                        *)
(***************************************************************************)
CursorsAgree ==
    /\ buflen > 0 <=> hasbuf
    /\ hasbuf => next_r < buflen /\ next_w < buflen /\ next_w = Slot(Usage + 1)
    /\ ~hasbuf => next_r = 0 /\ next_w = 0

\* The ring buffer is the bounded queue: what is dequeued or peeked is what was
\* enqueued, in order, nothing is overwritten, and a refused call changes
\* nothing (fifo32_enqueue on a full buffer, fifo32_dequeue on an empty one).
Queue == INSTANCE BoundedQueue WITH q <- Contents, cap <- buflen, Caps <- BufLens
ImplementsQueue == Queue!Spec
=============================================================================
