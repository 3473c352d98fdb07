------------------------------- MODULE Heapdl -------------------------------
(***************************************************************************)
(* memory/heapdl.c, the kernel heap, and kmalloc and kfree of              *)
(* memory/memory.c on top of it.  The heap is a run of chunks, each with a *)
(* header; an address is an offset from the first header.  The list `all'  *)
(* is kept as its pointers; the list `free' as the sequence of the nodes   *)
(* behind its head node, the first chunk.                                  *)
(* A call is one step: kernel_main allocates before the tasks start, and   *)
(* after that only console_main does.                                      *)
(***************************************************************************)
EXTENDS DlistSeq, Integers

CONSTANTS H,        \* sizeof(CHUNK), which is a multiple of OS_MEMORY_ALIGN
          BLOCK,    \* OS_HEAP_BLOCK_SIZE
          last,     \* the header at the end of the heap
          WORD,     \* the values of size_t
          Requests  \* the sizes kmalloc is called with

ASSUME HeapAssumption ==
    /\ H \in Nat \ {0} /\ BLOCK \in Nat /\ BLOCK >= H
    /\ last \in Nat /\ last >= 2 * H
    /\ WORD \in Nat /\ WORD > last
    /\ Requests \subseteq 0..(WORD - 1)

first  == 0
second == H
Addr   == 0..last

VARIABLES next, prev, \* the list `all'
          size, isUsed,
          free,       \* the nodes behind free_chunk_head
          mem_free,
          req,        \* the argument of the last kmalloc
          ret,        \* the pointer it returned, 0 for NULL
          whole       \* history: how many chunks were handed out whole, modulo WORD

heap == <<next, prev, size, isUsed, free, mem_free>>
vars == <<heap, req, ret, whole>>

TypeOK ==
    /\ next \in [Addr -> Addr] /\ prev \in [Addr -> Addr]
    /\ size \in [Addr -> 0..last]
    /\ isUsed \in [Addr -> BOOLEAN]
    /\ free \in Seq(Addr)
    /\ mem_free \in 0..(WORD - 1)
    /\ req \in Nat /\ ret \in Addr
    /\ whole \in 0..(WORD - 1)

\* k_heapdl_mm_init
Init ==
    /\ next = [a \in Addr |-> IF a = first THEN second ELSE IF a = second THEN last
                              ELSE IF a = last THEN first ELSE a]
    /\ prev = [a \in Addr |-> IF a = first THEN last ELSE IF a = second THEN first
                              ELSE IF a = last THEN second ELSE a]
    /\ size = [a \in Addr |-> IF a = second THEN last - second ELSE H]
    /\ isUsed = [a \in Addr |-> a \in {first, last}]
    /\ free = <<second>>
    /\ mem_free = last - second - H
    /\ req = 0 /\ ret = 0
    /\ whole = 0

\* dlist_insert_after(&c->all, &b->all) of a new node, and dlist_remove(&b->all)
InsertAfter(c, b) ==
    /\ next' = [next EXCEPT ![c] = b, ![b] = next[c]]
    /\ prev' = [prev EXCEPT ![b] = c, ![next[c]] = b]
Unlink(b) ==
    /\ next' = [next EXCEPT ![b] = b, ![prev[b]] = next[b]]
    /\ prev' = [prev EXCEPT ![b] = b, ![next[b]] = prev[b]]

\* align_address_to_upper: a size too close to the end of size_t wraps, to 0 when
\* the alignment divides WORD.
AlignDown(n, align) == n - (n % align)
AlignUp(n, align) == IF n % align = 0 THEN n ELSE (n + (align - (n % align))) % WORD

FreeWithHeader(c) == size[c]
chunk_calc_actual_free(c) == size[c] - H

\* The first chunk of the list `free' that is large enough.
FirstFit(i, s) ==
    /\ i \in DOMAIN free
    /\ chunk_calc_actual_free(free[i]) >= s
    /\ \A j \in 1..(i - 1) : chunk_calc_actual_free(free[j]) < s

Refused(s) ==
    \/ s > mem_free \/ mem_free = 0 \/ free = << >>
    \/ \A i \in DOMAIN free : chunk_calc_actual_free(free[i]) < s

\* chunk_engage
EngageStaysFree(i) ==
    LET c == free[i] IN
    /\ isUsed' = [isUsed EXCEPT ![c] = TRUE]
    /\ mem_free' = (mem_free - size[c]) % WORD
    /\ ret' = c + H
    /\ whole' = (whole + 1) % WORD
    /\ UNCHANGED <<next, prev, size, free>>
EngageWhole(i) ==
    LET c == free[i] IN
    /\ isUsed' = [isUsed EXCEPT ![c] = TRUE]
    /\ free' = RemoveNode(free, i)
    /\ mem_free' = (mem_free - size[c]) % WORD
    /\ ret' = c + H
    /\ whole' = (whole + 1) % WORD
    /\ UNCHANGED <<next, prev, size>>

\* chunk_slice, then chunk_engage: the rest takes the place of the chunk in
\* the list `free'.
SliceKeepsHeader(i, s) ==
    LET c == free[i]
        b == c + H + s
    IN  /\ InsertAfter(c, b)
        /\ size' = [size EXCEPT ![b] = chunk_calc_actual_free(c) - s, ![c] = H + s]
        /\ isUsed' = [isUsed EXCEPT ![b] = FALSE, ![c] = TRUE]
        /\ free' = [free EXCEPT ![i] = b]
        /\ mem_free' = (mem_free - s) % WORD
        /\ ret' = c + H
        /\ UNCHANGED whole
SliceAndEngage(i, s) ==
    LET c == free[i]
        b == c + H + s
    IN  /\ InsertAfter(c, b)
        /\ size' = [size EXCEPT ![b] = chunk_calc_actual_free(c) - s, ![c] = H + s]
        /\ isUsed' = [isUsed EXCEPT ![b] = FALSE, ![c] = TRUE]
        /\ free' = [free EXCEPT ![i] = b]
        /\ mem_free' = (mem_free - (H + s)) % WORD
        /\ ret' = c + H
        /\ UNCHANGED whole

k_heapdl_mm_malloc(s) ==
    \/ Refused(s) /\ ret' = 0 /\ UNCHANGED <<heap, whole>>
    \/ /\ ~Refused(s)
       /\ \E i \in DOMAIN free :
             /\ FirstFit(i, s)
             /\ IF chunk_calc_actual_free(free[i]) - s < BLOCK
                THEN EngageWhole(i) ELSE SliceAndEngage(i, s)

kmalloc(r) == req' = r /\ k_heapdl_mm_malloc(AlignUp(r, BLOCK))

\* chunk_free: the chunk joins a free neighbour, the one before it first
\* (chunk_merge).  The header that goes is not read again before chunk_init
\* writes it; its size is the one chunk_init will write.
chunk_free(c) ==
    /\ isUsed' = [isUsed EXCEPT ![c] = FALSE]
    /\ \/ /\ ~isUsed[prev[c]]
          /\ Unlink(c)
          /\ size' = [size EXCEPT ![prev[c]] = @ + size[c], ![c] = H]
          /\ mem_free' = (mem_free + (size[c] - H) + H) % WORD
          /\ UNCHANGED free
       \/ /\ isUsed[prev[c]] /\ ~isUsed[next[c]]
          /\ Unlink(next[c])
          /\ size' = [size EXCEPT ![c] = @ + size[next[c]], ![next[c]] = H]
          /\ mem_free' = (mem_free + (size[c] - H) + H) % WORD
          /\ \E i \in DOMAIN free : free[i] = next[c] /\ free' = [free EXCEPT ![i] = c]
       \/ /\ isUsed[prev[c]] /\ isUsed[next[c]]
          /\ mem_free' = (mem_free + (size[c] - H)) % WORD
          /\ free' = InsertBefore(free, 1, c)
          /\ UNCHANGED <<next, prev, size>>

\* A node that is in no list points to itself.
Chunks == {c \in Addr : next[c] # c}

\* What a caller holds: the chunks in use but the first and the last.
Held == {c \in Chunks : isUsed[c]} \ {first, last}

\* kfree of a pointer that malloc returned and that was not freed since
k_heapdl_mm_free(c) ==
    /\ c \in Held
    /\ chunk_free(c)
    /\ UNCHANGED <<req, ret, whole>>

Next ==
    \/ \E r \in Requests : kmalloc(r)
    \/ \E c \in Addr : k_heapdl_mm_free(c)

Spec == Init /\ [][Next]_vars

-----------------------------------------------------------------------------
(***************************************************************************)
(* The chunks tile the heap in the order of the list `all': each ends      *)
(* where the next one begins, from the first header to the last, and has   *)
(* room for its header.  No byte is lost or belongs to two chunks, however *)
(* chunks are sliced and merged.                                           *)
(***************************************************************************)
Tiling ==
    /\ {first, last} \subseteq Chunks
    /\ \A c \in Chunks :
          /\ size[c] >= H
          /\ next[c] = IF c = last THEN first ELSE c + size[c]
          /\ next[c] \in Chunks /\ prev[next[c]] = c
          /\ prev[c] \in Chunks /\ next[prev[c]] = c
    /\ \A c, d \in Chunks : c < d => c + size[c] <= d

\* The list `free' holds exactly the chunks that are not in use, each once.
FreeListExact ==
    /\ \A i, j \in DOMAIN free : free[i] = free[j] => i = j
    /\ \A c \in Addr : (\E i \in DOMAIN free : free[i] = c) <=> c \in Chunks /\ ~isUsed[c]

(***************************************************************************)
(* mem_free, which k_heapdl_mm_malloc compares every request with, counts  *)
(* the usable bytes of the free chunks, less one header for each chunk     *)
(* that was ever handed out whole: chunk_engage takes off the header, too, *)
(* and chunk_free does not put it back.                                    *)
(***************************************************************************)
Accounting ==
    LET usable[n \in 0..Len(free)] ==
          IF n = 0 THEN 0 ELSE usable[n - 1] + chunk_calc_actual_free(free[n])
    IN  mem_free = (usable[Len(free)] - H * whole) % WORD

\* The heap keeps the promise of an allocator: every block handed out is large
\* enough for its request, if kmalloc could round that up (a larger one gets a
\* block of any size), and overlaps no other block in use.
Blocks == {[ptr |-> c + H, len |-> size[c] - H] : c \in Held}
Alloc == INSTANCE Allocator WITH blocks <- Blocks, limit <- WORD - BLOCK, low <- 2 * H, high <- last
ImplementsAllocator == Alloc!Spec
=============================================================================
