------------------------------ MODULE Allocator -----------------------------
(***************************************************************************)
(* What kmalloc and kfree promise: a successful request gets a block       *)
(* inside the heap and apart from every block that is still held; the      *)
(* block has at least the bytes asked for, unless the request is so large  *)
(* that rounding it up wraps; freeing gives back that one block.           *)
(***************************************************************************)
EXTENDS Naturals

CONSTANTS Requests, \* the sizes that are asked for
          limit,    \* the largest size that is sure to be rounded up rightly
          low, high \* the bounds of the heap

VARIABLES blocks, \* the blocks the callers hold
          req,    \* the size of the last request
          ret     \* the pointer it got, 0 for NULL

Init == blocks = {} /\ req = 0 /\ ret = 0

Apart(b, c) == b.ptr # c.ptr /\ (b.ptr + b.len <= c.ptr \/ c.ptr + c.len <= b.ptr)

Grant(r, b) ==
    /\ req' = r /\ ret' = b.ptr
    /\ r <= limit => b.len >= r
    /\ b.ptr >= low /\ b.ptr + b.len <= high
    /\ \A c \in blocks : Apart(b, c)
    /\ blocks' = blocks \cup {b}

Refuse(r) == req' = r /\ ret' = 0 /\ UNCHANGED blocks

Free(b) == blocks' = blocks \ {b} /\ UNCHANGED <<req, ret>>

Block == [ptr : low..high, len : 0..high]

Next ==
    \/ \E r \in Requests, b \in Block : Grant(r, b)
    \/ \E r \in Requests : Refuse(r)
    \/ \E b \in blocks : Free(b)

Spec == Init /\ [][Next]_<<blocks, req, ret>>
=============================================================================
