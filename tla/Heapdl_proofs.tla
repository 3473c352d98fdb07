---------------------------- MODULE Heapdl_proofs ---------------------------
(***************************************************************************)
(* Proofs about Heapdl, for any size of the heap, of the headers and of    *)
(* the blocks, and any requests.                                           *)
(***************************************************************************)
EXTENDS Heapdl, SeqFacts

\* The two end chunks never change hands.
Ends == isUsed[first] /\ isUsed[last] /\ size[first] = H

Inv == TypeOK /\ Tiling /\ FreeListExact /\ Ends

LEMMA InitInv == Init => Inv
<1> SUFFICES ASSUME Init PROVE Inv
  OBVIOUS
<1> USE HeapAssumption
<1>1. first \in Addr /\ second \in Addr /\ last \in Addr /\ first # second /\ second # last /\ first # last
  BY DEF first, second, Addr
<1>2. Chunks = {first, second, last}
  BY <1>1 DEF Chunks, Init
<1>3. TypeOK
  <2>1. next \in [Addr -> Addr] /\ prev \in [Addr -> Addr] /\ isUsed \in [Addr -> BOOLEAN]
    BY <1>1 DEF Init
  <2>2. size \in [Addr -> 0..last]
    BY DEF Init, second
  <2>3. free \in Seq(Addr)
    BY <1>1 DEF Init
  <2>4. mem_free \in 0..(WORD - 1) /\ req \in Nat /\ ret \in Addr /\ whole \in 0..(WORD - 1)
    BY DEF Init, second, Addr
  <2>5. QED
    BY <2>1, <2>2, <2>3, <2>4 DEF TypeOK
<1>4. Tiling
  <2>1. next[first] = second /\ next[second] = last /\ next[last] = first
    BY <1>1 DEF Init
  <2>2. prev[first] = last /\ prev[second] = first /\ prev[last] = second
    BY <1>1 DEF Init
  <2>3. size[first] = H /\ size[second] = last - second /\ size[last] = H
    BY <1>1 DEF Init
  <2>4. \A c \in Chunks : size[c] >= H /\ next[c] = IF c = last THEN first ELSE c + size[c]
    BY <1>1, <1>2, <2>1, <2>3 DEF first, second
  <2>5. \A c, d \in Chunks : c < d => c + size[c] <= d
    BY <1>1, <1>2, <2>3 DEF first, second
  <2>6. QED
    BY <1>2, <2>1, <2>2, <2>4, <2>5 DEF Tiling
<1>5. FreeListExact
  <2>1. \A a \in Addr : isUsed[a] <=> a = first \/ a = last
    BY DEF Init
  <2>2. DOMAIN free = {1} /\ free[1] = second
    BY DEF Init
  <2>3. QED
    BY <1>1, <1>2, <2>1, <2>2 DEF FreeListExact
<1>6. Ends
  BY <1>1 DEF Ends, Init
<1>7. QED
  BY <1>3, <1>4, <1>5, <1>6 DEF Inv

LEMMA ChunkType ==
  ASSUME Inv, NEW x \in Chunks
  PROVE  x \in Addr /\ x \in Nat /\ size[x] \in Nat
<1>1. x \in Addr
  BY DEF Chunks
<1>2. x \in Nat
  BY <1>1, HeapAssumption DEF Addr
<1>3. size[x] \in 0..last
  BY <1>1 DEF Inv, TypeOK
<1>4. QED
  BY <1>1, <1>2, <1>3, HeapAssumption

\* Where a chunk lies, and where its neighbours are.
LEMMA ChunkFacts ==
  ASSUME Inv, NEW c \in Chunks, c # first, c # last
  PROVE  /\ c \in Nat /\ c >= H /\ size[c] \in Nat /\ size[c] >= H
         /\ next[c] = c + size[c] /\ next[c] <= last /\ next[c] \in Chunks /\ prev[next[c]] = c
         /\ prev[c] \in Chunks /\ next[prev[c]] = c
         /\ prev[c] # last /\ prev[c] + size[prev[c]] = c /\ prev[c] < c /\ next[c] # first
         /\ prev[c] # c /\ prev[c] # next[c]
<1> USE HeapAssumption DEF Inv
<1>1. c \in Addr /\ c \in Nat /\ size[c] \in Nat /\ last \in Nat
  BY DEF Chunks, TypeOK, Addr
<1>2. size[c] >= H /\ next[c] = c + size[c] /\ next[c] \in Chunks /\ prev[next[c]] = c /\ prev[c] \in Chunks /\ next[prev[c]] = c
  BY DEF Tiling
<1>3. first \in Chunks /\ first < c
  BY <1>1 DEF Tiling, first
<1>4. c >= H
  BY <1>1, <1>3 DEF Tiling, Ends, first
<1>5. next[c] <= last /\ next[c] # first
  BY <1>1, <1>2 DEF Chunks, Addr, first
<1>6. prev[c] # last
  BY <1>2 DEF Tiling
<1>7. prev[c] + size[prev[c]] = c /\ size[prev[c]] >= H
  BY <1>2, <1>6 DEF Tiling
<1>8. prev[c] \in Nat /\ size[prev[c]] \in Nat
  BY <1>2, ChunkType
<1>9. prev[c] < c /\ prev[c] # c /\ prev[c] # next[c]
  BY <1>1, <1>2, <1>7, <1>8
<1>10. QED
  BY <1>1, <1>2, <1>4, <1>5, <1>6, <1>7, <1>9

\* The free list as a sequence.
LEMMA FreeSeq ==
  ASSUME Inv
  PROVE  free \in Seq(Addr) /\ DOMAIN free = 1..Len(free) /\ Distinct(free)
<1>1. free \in Seq(Addr)
  BY DEF Inv, TypeOK
<1>2. DOMAIN free = 1..Len(free)
  BY <1>1, LenProperties
<1>3. \A i, j \in DOMAIN free : free[i] = free[j] => i = j
  BY DEF Inv, FreeListExact
<1>4. Distinct(free)
  BY <1>2, <1>3 DEF Distinct
<1>5. QED
  BY <1>1, <1>2, <1>4

\* A chunk of the free list is an unused chunk between the ends.
LEMMA FreeNode ==
  ASSUME Inv, NEW i \in DOMAIN free
  PROVE  free[i] \in Chunks /\ ~isUsed[free[i]] /\ free[i] # first /\ free[i] # last
<1>1. free[i] \in Addr
  BY ElementOfSeq, LenProperties DEF Inv, TypeOK
<1>2. QED
  BY <1>1 DEF Inv, FreeListExact, Ends

\* mem_free is a size_t whatever is added to it or taken from it.
LEMMA Wrapped == \A n \in Int : n % WORD \in 0..(WORD - 1)
BY HeapAssumption

\* A chunk is handed out whole.
LEMMA EngageInv ==
  ASSUME Inv, NEW i \in DOMAIN free, EngageWhole(i), req' \in Nat
  PROVE  Inv'
<1> DEFINE c == free[i]
<1>1. c \in Chunks /\ ~isUsed[c] /\ c # first /\ c # last
  BY FreeNode
<1>2. c \in Addr /\ size[c] \in Nat /\ c + size[c] <= last /\ size[c] >= H /\ c \in Nat
  BY <1>1, ChunkFacts DEF Chunks
<1>3. /\ free \in Seq(Addr) /\ i \in 1..Len(free) /\ DOMAIN free = 1..Len(free)
      /\ Distinct(free)
  BY FreeSeq
<1>4. /\ free' \in Seq(Addr)
      /\ \A u : Has(free', u) <=> Has(free, u) /\ u # c
  BY <1>3, RemoveFacts DEF EngageWhole
<1>5. /\ isUsed' = [isUsed EXCEPT ![c] = TRUE]
      /\ next' = next /\ prev' = prev /\ size' = size
      /\ ret' = c + H /\ Chunks' = Chunks
  BY DEF EngageWhole, Chunks
<1> HIDE DEF c
<1>6. mem_free' \in 0..(WORD - 1) /\ whole' \in 0..(WORD - 1)
  <2>1. mem_free - size[c] \in Int /\ whole + 1 \in Int
    BY <1>2, HeapAssumption DEF Inv, TypeOK
  <2>2. mem_free' = (mem_free - size[c]) % WORD /\ whole' = (whole + 1) % WORD
    BY DEF EngageWhole, c
  <2>3. QED
    BY <2>1, <2>2, Wrapped
<1>7. TypeOK'
  <2>1. ret' \in Addr
    BY <1>2, <1>5, HeapAssumption DEF Addr
  <2>2. isUsed' \in [Addr -> BOOLEAN]
    BY <1>5 DEF Inv, TypeOK
  <2>3. QED
    BY <1>4, <1>5, <1>6, <2>1, <2>2 DEF Inv, TypeOK
<1>8. Tiling'
  BY <1>5 DEF Inv, Tiling
<1>9. Distinct(free')
  BY <1>3, RemoveDistinct DEF EngageWhole
<1>10. FreeListExact'
  <2>1. DOMAIN free' = 1..Len(free')
    BY <1>4, LenProperties
  <2>2. \A u \in Addr : Has(free, u) <=> u \in Chunks /\ ~isUsed[u]
    BY <1>3 DEF Inv, FreeListExact, Has
  <2>3. \A u \in Addr : isUsed'[u] <=> isUsed[u] \/ u = c
    BY <1>2, <1>5 DEF Inv, TypeOK
  <2>4. \A u \in Addr : Has(free', u) <=> u \in Chunks' /\ ~isUsed'[u]
    BY <1>4, <1>5, <2>2, <2>3
  <2>5. QED
    BY <1>9, <2>1, <2>4 DEF FreeListExact, Has, Distinct
<1>11. Ends'
  BY <1>1, <1>5 DEF Inv, TypeOK, Ends
<1>12. QED
  BY <1>7, <1>8, <1>10, <1>11 DEF Inv

\* Replacing one node of a list by a new one.
LEMMA ReplaceNode ==
  ASSUME NEW S, NEW s \in Seq(S), NEW k \in 1..Len(s), NEW t \in S,
         Distinct(s), ~Has(s, t)
  PROVE  /\ [s EXCEPT ![k] = t] \in Seq(S)
         /\ Distinct([s EXCEPT ![k] = t])
         /\ \A u : Has([s EXCEPT ![k] = t], u) <=> (Has(s, u) /\ u # s[k]) \/ u = t
<1> DEFINE r == [s EXCEPT ![k] = t]
<1>1. r \in Seq(S) /\ Len(r) = Len(s) /\ \A j \in 1..Len(s) : r[j] = IF j = k THEN t ELSE s[j]
  BY ExceptSeq, LenProperties
<1> HIDE DEF r
<1>2. Distinct(r)
  BY <1>1 DEF Distinct, Has
<1>3. \A u : Has(r, u) <=> (Has(s, u) /\ u # s[k]) \/ u = t
  BY <1>1 DEF Distinct, Has
<1>4. QED
  BY <1>1, <1>2, <1>3 DEF r

\* A chunk is sliced: the part of it that is handed out, and the rest.
LEMMA SliceInv ==
  ASSUME Inv, NEW i \in DOMAIN free, NEW s \in Nat,
         chunk_calc_actual_free(free[i]) - s >= BLOCK, SliceAndEngage(i, s), req' \in Nat
  PROVE  Inv'
<1> USE HeapAssumption
<1> DEFINE c == free[i]
           b == c + H + s
           n == next[c]
<1>1. c \in Chunks /\ ~isUsed[c] /\ c # first /\ c # last
  BY FreeNode
<1>2. /\ c \in Nat /\ c >= H /\ size[c] \in Nat /\ c \in Addr
      /\ n = c + size[c] /\ n <= last /\ n \in Chunks /\ n \in Addr /\ prev[n] = c
  BY <1>1, ChunkFacts DEF Chunks
<1>3. size[c] >= H + s + BLOCK
  BY <1>2 DEF chunk_calc_actual_free
<1>4. b \in Addr /\ c < b /\ b < n /\ b # first /\ b # last
  BY <1>2, <1>3 DEF Addr, first
<1>5. b \notin Chunks
  <2>1. ASSUME b \in Chunks PROVE c + size[c] <= b
    BY <1>1, <1>4, <2>1 DEF Inv, Tiling
  <2>2. QED
    BY <1>2, <1>4, <2>1
<1> HIDE DEF b
<1>n. n = next[c]
  OBVIOUS
<1>e. /\ next' = [next EXCEPT ![c] = b, ![b] = n]
      /\ prev' = [prev EXCEPT ![b] = c, ![n] = b]
      /\ size' = [size EXCEPT ![b] = size[c] - H - s, ![c] = H + s]
      /\ isUsed' = [isUsed EXCEPT ![b] = FALSE, ![c] = TRUE]
      /\ ret' = c + H /\ whole' = whole
  BY DEF SliceAndEngage, InsertAfter, chunk_calc_actual_free, b
<1>6. \A x \in Addr : next'[x] = IF x = b THEN n ELSE IF x = c THEN b ELSE next[x]
  BY <1>2, <1>4, <1>e DEF Inv, TypeOK
<1>7. \A x \in Addr : prev'[x] = IF x = n THEN b ELSE IF x = b THEN c ELSE prev[x]
  BY <1>2, <1>4, <1>e DEF Inv, TypeOK
<1>8. \A x \in Addr : size'[x] = IF x = c THEN H + s ELSE IF x = b THEN size[c] - H - s ELSE size[x]
  BY <1>2, <1>4, <1>e DEF Inv, TypeOK
<1>9. \A x \in Addr : isUsed'[x] <=> x = c \/ (x # b /\ isUsed[x])
  BY <1>2, <1>4, <1>e DEF Inv, TypeOK
<1>10. Chunks' = Chunks \cup {b}
  BY <1>1, <1>2, <1>4, <1>6 DEF Chunks
<1>11. free \in Seq(Addr) /\ i \in 1..Len(free) /\ DOMAIN free = 1..Len(free) /\ Distinct(free)
  BY FreeSeq
<1>12. \A u \in Addr : Has(free, u) <=> u \in Chunks /\ ~isUsed[u]
  BY <1>11 DEF Inv, FreeListExact, Has
<1>13. /\ free' \in Seq(Addr) /\ Distinct(free')
       /\ \A u : Has(free', u) <=> (Has(free, u) /\ u # c) \/ u = b
  <2>1. ~Has(free, b)
    BY <1>4, <1>5, <1>12
  <2>2. free' = [free EXCEPT ![i] = b]
    BY DEF SliceAndEngage, b
  <2>3. QED
    BY <1>4, <1>11, <2>1, <2>2, ReplaceNode
<1>14. mem_free' \in 0..(WORD - 1)
  <2>1. mem_free - (H + s) \in Int
    BY DEF Inv, TypeOK
  <2>2. QED
    BY <2>1, Wrapped DEF SliceAndEngage
<1> HIDE DEF c, n
<1>15. TypeOK'
  <2>1. next' \in [Addr -> Addr] /\ prev' \in [Addr -> Addr] /\ isUsed' \in [Addr -> BOOLEAN]
    BY <1>2, <1>4, <1>e DEF Inv, TypeOK
  <2>2. size[c] - H - s \in 0..last /\ H + s \in 0..last
    BY <1>2, <1>3
  <2>3. size' \in [Addr -> 0..last]
    BY <1>e, <2>2 DEF Inv, TypeOK
  <2>4. c + H \in Addr
    BY <1>2, <1>3 DEF Addr
  <2>5. QED
    BY <1>13, <1>14, <1>e, <2>1, <2>3, <2>4 DEF Inv, TypeOK
<1>16. Tiling'
  <2>0. b \in Nat /\ b = c + H + s
    BY <1>2 DEF b
  <2>1. \A x \in Chunks : x \in Addr /\ x \in Nat /\ size[x] \in Nat /\ x # b
    BY <1>5, ChunkType
  <2>2. {first, last} \subseteq Chunks'
    BY <1>10 DEF Inv, Tiling
  <2>3. ASSUME NEW x \in Chunks'
        PROVE  /\ size'[x] >= H
               /\ next'[x] = IF x = last THEN first ELSE x + size'[x]
               /\ next'[x] \in Chunks' /\ prev'[next'[x]] = x
               /\ prev'[x] \in Chunks' /\ next'[prev'[x]] = x
    <3>1. CASE x = b
      <4>1. size'[b] = size[c] - H - s /\ next'[b] = n /\ prev'[b] = c
        BY <1>2, <1>4, <1>6, <1>7, <1>8
      <4>2. size'[b] >= BLOCK
        BY <1>2, <1>3, <4>1
      <4>3. size'[b] >= H /\ b + size'[b] = n
        BY <1>2, <1>3, <2>0, <4>1
      <4>4. prev'[n] = b /\ next'[c] = b
        BY <1>2, <1>4, <1>6, <1>7
      <4>5. QED
        BY <1>1, <1>2, <1>4, <1>10, <3>1, <4>1, <4>3, <4>4
    <3>2. CASE x = c
      <4>1. size'[c] = H + s /\ next'[c] = b /\ c # n /\ c # b /\ c # last
        BY <1>1, <1>2, <1>3, <1>4, <1>6, <1>8
      <4>2. prev'[c] = prev[c] /\ prev'[b] = c /\ b \in Chunks'
        BY <1>2, <1>4, <1>7, <1>10, <4>1
      <4>3. prev[c] \in Chunks /\ next[prev[c]] = c
        BY <1>1 DEF Inv, Tiling
      <4>4. prev[c] # c /\ prev[c] # b /\ prev[c] \in Addr
        BY <1>2, <1>5, <1>n, <2>1, <4>1, <4>3
      <4>5. next'[prev[c]] = c
        BY <1>6, <4>3, <4>4
      <4>6. size'[c] >= H /\ next'[c] = c + size'[c]
        BY <1>2, <2>0, <4>1
      <4>7. QED
        BY <1>10, <3>2, <4>1, <4>2, <4>3, <4>5, <4>6
    <3>3. CASE x # b /\ x # c
      <4>1. x \in Chunks /\ x \in Addr
        BY <1>10, <2>1, <3>3
      <4>2. next'[x] = next[x] /\ size'[x] = size[x]
        BY <1>6, <1>8, <3>3, <4>1
      <4>3. /\ size[x] >= H
            /\ next[x] = IF x = last THEN first ELSE x + size[x]
            /\ next[x] \in Chunks /\ prev[next[x]] = x
            /\ prev[x] \in Chunks /\ next[prev[x]] = x
        BY <4>1 DEF Inv, Tiling
      <4>4. next[x] # n
        BY <1>2, <3>3, <4>3
      <4>5. prev'[next[x]] = x
        BY <1>7, <2>1, <4>3, <4>4
      <4>6. prev'[x] \in Chunks' /\ next'[prev'[x]] = x
        <5>1. CASE x = n
          BY <1>4, <1>6, <1>7, <1>10, <4>1, <5>1
        <5>2. CASE x # n
          <6>1. prev'[x] = prev[x] /\ prev[x] # c
            BY <1>7, <1>n, <3>3, <4>1, <4>3, <5>2
          <6>2. QED
            BY <1>6, <1>10, <2>1, <4>3, <6>1
        <5>3. QED
          BY <5>1, <5>2
      <4>7. QED
        BY <1>10, <4>2, <4>3, <4>5, <4>6
    <3>4. QED
      BY <3>1, <3>2, <3>3
  <2>4. ASSUME NEW x \in Chunks', NEW y \in Chunks', x < y
        PROVE  x + size'[x] <= y
    <3>1. CASE x = b
      <4>1. y \in Chunks /\ c < y
        BY <1>2, <1>4, <1>10, <2>0, <2>1, <2>4, <3>1
      <4>2. c + size[c] <= y
        BY <1>1, <4>1 DEF Inv, Tiling
      <4>3. QED
        BY <1>2, <1>4, <1>8, <2>0, <2>1, <3>1, <4>1, <4>2
    <3>2. CASE x # b /\ y = b
      <4>1. x \in Chunks /\ size'[x] = (IF x = c THEN H + s ELSE size[x])
        BY <1>8, <1>10, <2>1, <3>2
      <4>2. CASE x = c
        BY <1>2, <2>0, <3>2, <4>1, <4>2
      <4>3. CASE x # c
        <5>1. x < c
          <6>1. ASSUME c < x PROVE FALSE
            BY <1>1, <1>2, <1>4, <2>0, <2>1, <2>4, <3>2, <4>1, <6>1 DEF Inv, Tiling
          <6>2. QED
            BY <1>2, <2>1, <4>1, <4>3, <6>1
        <5>2. x + size[x] <= c
          BY <1>1, <4>1, <5>1 DEF Inv, Tiling
        <5>3. QED
          BY <1>2, <2>0, <2>1, <3>2, <4>1, <4>3, <5>2
      <4>4. QED
        BY <4>2, <4>3
    <3>3. CASE x # b /\ y # b
      <4>1. x \in Chunks /\ y \in Chunks /\ size'[x] = (IF x = c THEN H + s ELSE size[x])
        BY <1>8, <1>10, <2>1, <3>3
      <4>2. x + size[x] <= y
        BY <2>4, <4>1 DEF Inv, Tiling
      <4>3. QED
        BY <1>2, <1>3, <2>1, <4>1, <4>2
    <3>4. QED
      BY <3>1, <3>2, <3>3
  <2>5. QED
    BY <2>2, <2>3, <2>4 DEF Tiling
<1>17. FreeListExact'
  <2>1. DOMAIN free' = 1..Len(free')
    BY <1>13, LenProperties
  <2>2. \A u \in Addr : Has(free', u) <=> u \in Chunks' /\ ~isUsed'[u]
    BY <1>2, <1>4, <1>9, <1>10, <1>12, <1>13
  <2>3. QED
    BY <1>13, <2>1, <2>2 DEF FreeListExact, Has, Distinct
<1>18. Ends'
  BY <1>1, <1>4, <1>8, <1>9 DEF Inv, Ends, Addr, first
<1>19. QED
  BY <1>15, <1>16, <1>17, <1>18 DEF Inv

\* chunk_merge of a chunk A with the chunk B behind it.
LEMMA MergeTiles ==
  ASSUME Inv, NEW A \in Chunks, NEW B \in Chunks, next[A] = B,
         A # first, A # last, B # first, B # last,
         Unlink(B), size' = [size EXCEPT ![A] = size[A] + size[B], ![B] = H]
  PROVE  /\ Chunks' = Chunks \ {B}
         /\ next' \in [Addr -> Addr] /\ prev' \in [Addr -> Addr] /\ size' \in [Addr -> 0..last]
         /\ Tiling'
<1> USE HeapAssumption
<1> DEFINE n == next[B]
<1>1. /\ A \in Nat /\ A >= H /\ size[A] \in Nat /\ size[A] >= H /\ B = A + size[A]
      /\ prev[B] = A /\ A \in Addr
  BY ChunkFacts, ChunkType
<1>2. /\ B \in Nat /\ size[B] \in Nat /\ size[B] >= H /\ n = B + size[B] /\ n <= last
      /\ n \in Chunks /\ prev[n] = B /\ B \in Addr /\ n # first
  BY ChunkFacts, ChunkType
<1>3. n \in Addr /\ n \in Nat /\ A # B /\ A # n /\ B # n /\ A < B /\ B < n
  BY <1>1, <1>2, ChunkType
<1>n. n = next[B]
  OBVIOUS
<1> HIDE DEF n
<1>4. \A x \in Addr : next'[x] = IF x = A THEN n ELSE IF x = B THEN B ELSE next[x]
  <2>1. next' = [next EXCEPT ![B] = B, ![A] = n]
    BY <1>1, <1>n DEF Unlink
  <2>2. QED
    BY <1>1, <1>2, <1>3, <2>1 DEF Inv, TypeOK
<1>5. \A x \in Addr : prev'[x] = IF x = n THEN A ELSE IF x = B THEN B ELSE prev[x]
  <2>1. prev' = [prev EXCEPT ![B] = B, ![n] = A]
    BY <1>1, <1>n DEF Unlink
  <2>2. QED
    BY <1>1, <1>2, <1>3, <2>1 DEF Inv, TypeOK
<1>6. \A x \in Addr : size'[x] = IF x = B THEN H ELSE IF x = A THEN size[A] + size[B] ELSE size[x]
  BY <1>1, <1>2, <1>3 DEF Inv, TypeOK
<1>7. Chunks' = Chunks \ {B}
  BY <1>1, <1>2, <1>3, <1>4 DEF Chunks
<1>8. next' \in [Addr -> Addr] /\ prev' \in [Addr -> Addr]
  BY <1>1, <1>2, <1>3, <1>n DEF Inv, TypeOK, Unlink
<1>9. size' \in [Addr -> 0..last]
  <2>1. size[A] + size[B] \in 0..last /\ H \in 0..last
    BY <1>1, <1>2
  <2>2. QED
    BY <2>1 DEF Inv, TypeOK
<1>10. \A x \in Chunks : x \in Addr /\ x \in Nat /\ size[x] \in Nat
  BY ChunkType
<1>11. {first, last} \subseteq Chunks'
  BY <1>7 DEF Inv, Tiling
<1>12. ASSUME NEW x \in Chunks'
       PROVE  /\ size'[x] >= H
              /\ next'[x] = IF x = last THEN first ELSE x + size'[x]
              /\ next'[x] \in Chunks' /\ prev'[next'[x]] = x
              /\ prev'[x] \in Chunks' /\ next'[prev'[x]] = x
  <2>1. x \in Chunks /\ x # B /\ x \in Addr
    BY <1>7, <1>10
  <2>2. /\ size[x] >= H
        /\ next[x] = IF x = last THEN first ELSE x + size[x]
        /\ next[x] \in Chunks /\ prev[next[x]] = x
        /\ prev[x] \in Chunks /\ next[prev[x]] = x
    BY <2>1 DEF Inv, Tiling
  <2>3. size'[x] >= H /\ next'[x] = IF x = last THEN first ELSE x + size'[x]
    <3>1. CASE x = A
      <4>1. next'[A] = n /\ size'[A] = size[A] + size[B]
        BY <1>1, <1>3, <1>4, <1>6
      <4>2. QED
        BY <1>1, <1>2, <3>1, <4>1
    <3>2. CASE x # A
      <4>1. size'[x] = size[x]
        BY <1>6, <2>1, <3>2
      <4>2. next'[x] = next[x]
        BY <1>4, <2>1, <3>2
      <4>3. QED
        BY <2>2, <4>1, <4>2
    <3>3. QED
      BY <3>1, <3>2
  <2>4. next'[x] \in Chunks' /\ prev'[next'[x]] = x
    <3>1. CASE x = A
      BY <1>1, <1>2, <1>3, <1>4, <1>5, <1>7, <3>1
    <3>2. CASE x # A
      <4>1. next'[x] = next[x] /\ next[x] # B /\ next[x] # n
        BY <1>1, <1>2, <1>4, <2>1, <2>2, <3>2
      <4>2. QED
        BY <1>5, <1>7, <1>10, <2>2, <4>1
    <3>3. QED
      BY <3>1, <3>2
  <2>5. prev'[x] \in Chunks' /\ next'[prev'[x]] = x
    <3>1. CASE x = n
      BY <1>1, <1>3, <1>4, <1>5, <1>7, <2>1, <3>1
    <3>2. CASE x # n
      <4>1. prev'[x] = prev[x] /\ prev[x] # B /\ prev[x] # A
        BY <1>1, <1>5, <1>n, <2>1, <2>2, <3>2
      <4>2. QED
        BY <1>4, <1>7, <1>10, <2>2, <4>1
    <3>3. QED
      BY <3>1, <3>2
  <2>6. QED
    BY <2>3, <2>4, <2>5
<1>13. ASSUME NEW x \in Chunks', NEW y \in Chunks', x < y
       PROVE  x + size'[x] <= y
  <2>1. x \in Chunks /\ y \in Chunks /\ x # B /\ y # B
    BY <1>7
  <2>2. x + size[x] <= y
    BY <1>13, <2>1 DEF Inv, Tiling
  <2>3. CASE x = A
    <3>1. B < y
      BY <1>1, <1>10, <2>1, <2>2, <2>3
    <3>2. B + size[B] <= y
      BY <2>1, <3>1 DEF Inv, Tiling
    <3>3. size'[x] = size[A] + size[B]
      BY <1>1, <1>3, <1>6, <2>3
    <3>4. QED
      BY <1>1, <1>2, <1>10, <2>1, <2>3, <3>2, <3>3
  <2>4. CASE x # A
    BY <1>6, <1>10, <2>1, <2>2, <2>4
  <2>5. QED
    BY <2>3, <2>4
<1>14. Tiling'
  BY <1>11, <1>12, <1>13 DEF Tiling
<1>15. QED
  BY <1>7, <1>8, <1>9, <1>14

\* A chunk is given back, alone or into one of its neighbours.
LEMMA FreeInv ==
  ASSUME Inv, NEW c \in Addr, k_heapdl_mm_free(c)
  PROVE  Inv'
<1> USE HeapAssumption
<1>1. c \in Chunks /\ isUsed[c] /\ c # first /\ c # last /\ c \in Nat /\ size[c] \in Nat
  BY ChunkType DEF k_heapdl_mm_free, Held
<1>2. /\ prev[c] \in Chunks /\ next[prev[c]] = c /\ prev[c] # last
      /\ next[c] \in Chunks /\ next[c] # first /\ next[c] # c
  BY <1>1, ChunkFacts DEF Chunks
<1>3. chunk_free(c) /\ UNCHANGED <<req, ret, whole>>
  BY DEF k_heapdl_mm_free
<1>4. /\ free \in Seq(Addr) /\ DOMAIN free = 1..Len(free) /\ Distinct(free) /\ Len(free) \in Nat
      /\ \A u \in Addr : Has(free, u) <=> u \in Chunks /\ ~isUsed[u]
  BY LenProperties DEF Inv, TypeOK, FreeListExact, Distinct, Has
<1>5. /\ isUsed' \in [Addr -> BOOLEAN]
      /\ \A u \in Addr : isUsed'[u] <=> isUsed[u] /\ u # c
  BY <1>3 DEF chunk_free, Inv, TypeOK
<1>6. first \in Addr /\ last \in Addr
  BY DEF Addr, first
<1>7. mem_free' \in 0..(WORD - 1)
  <2>1. mem_free + (size[c] - H) \in Int /\ mem_free + (size[c] - H) + H \in Int
    BY <1>1 DEF Inv, TypeOK
  <2>2. \/ mem_free' = (mem_free + (size[c] - H) + H) % WORD
        \/ mem_free' = (mem_free + (size[c] - H)) % WORD
    BY <1>3 DEF chunk_free
  <2>3. QED
    BY <2>1, <2>2, Wrapped
<1> DEFINE Kept == /\ next' \in [Addr -> Addr] /\ prev' \in [Addr -> Addr] /\ size' \in [Addr -> 0..last]
                   /\ Tiling' /\ size'[first] = H
           Listed == /\ free' \in Seq(Addr) /\ Distinct(free')
                     /\ \A u \in Addr : Has(free', u) <=> u \in Chunks' /\ ~isUsed'[u]
<1>8. ASSUME ~isUsed[prev[c]], UNCHANGED free, Unlink(c),
             size' = [size EXCEPT ![prev[c]] = size[prev[c]] + size[c], ![c] = H]
      PROVE  Kept /\ Listed
  <2>1. prev[c] # first
    BY <1>8 DEF Inv, Ends
  <2>2. /\ Chunks' = Chunks \ {c}
        /\ next' \in [Addr -> Addr] /\ prev' \in [Addr -> Addr] /\ size' \in [Addr -> 0..last]
        /\ Tiling'
    BY <1>1, <1>2, <1>8, <2>1, MergeTiles
  <2>3. size'[first] = H
    BY <1>1, <1>6, <1>8, <2>1 DEF Inv, TypeOK, Ends
  <2>4. Listed
    BY <1>1, <1>4, <1>5, <1>8, <2>2
  <2>5. QED
    BY <2>2, <2>3, <2>4
<1>9. ASSUME ~isUsed[next[c]], Unlink(next[c]),
             size' = [size EXCEPT ![c] = size[c] + size[next[c]], ![next[c]] = H],
             \E i \in DOMAIN free : free[i] = next[c] /\ free' = [free EXCEPT ![i] = c]
      PROVE  Kept /\ Listed
  <2>1. next[c] # last
    BY <1>9 DEF Inv, Ends
  <2>2. /\ Chunks' = Chunks \ {next[c]}
        /\ next' \in [Addr -> Addr] /\ prev' \in [Addr -> Addr] /\ size' \in [Addr -> 0..last]
        /\ Tiling'
    BY <1>1, <1>2, <1>9, <2>1, MergeTiles
  <2>3. size'[first] = H
    BY <1>1, <1>2, <1>6, <1>9 DEF Inv, TypeOK, Ends
  <2>4. PICK i \in 1..Len(free) : free[i] = next[c] /\ free' = [free EXCEPT ![i] = c]
    BY <1>4, <1>9
  <2>5. ~Has(free, c)
    BY <1>1, <1>4
  <2>6. /\ free' \in Seq(Addr) /\ Distinct(free')
        /\ \A u : Has(free', u) <=> (Has(free, u) /\ u # next[c]) \/ u = c
    <3> DEFINE r == [free EXCEPT ![i] = c]
    <3>1. /\ r \in Seq(Addr) /\ Distinct(r)
          /\ \A u : Has(r, u) <=> (Has(free, u) /\ u # free[i]) \/ u = c
      BY <1>4, <2>5, ReplaceNode
    <3> HIDE DEF r
    <3>2. free' = r /\ free[i] = next[c]
      BY <2>4 DEF r
    <3>3. QED
      BY <3>1, <3>2
  <2>7. Listed
    <3>1. next[c] \in Addr
      BY <1>2, ChunkType
    <3>2. \A u \in Addr : u \in Chunks' <=> u \in Chunks /\ u # next[c]
      BY <2>2
    <3>3. \A u \in Addr : Has(free', u) <=> u \in Chunks' /\ ~isUsed'[u]
      BY <1>1, <1>2, <1>4, <1>5, <2>6, <3>2
    <3>4. QED
      BY <2>6, <3>3
  <2>8. QED
    BY <2>2, <2>3, <2>7
<1>10. ASSUME UNCHANGED <<next, prev, size>>, free' = InsertBefore(free, 1, c)
       PROVE  Kept /\ Listed
  <2>1. Chunks' = Chunks
    BY <1>10 DEF Chunks
  <2>2. Kept
    BY <1>10, <2>1 DEF Inv, TypeOK, Tiling, Ends
  <2>3. ~Has(free, c) /\ 1 \in 1..(Len(free) + 1)
    BY <1>1, <1>4
  <2>4. free' \in Seq(Addr) /\ \A u : Has(free', u) <=> Has(free, u) \/ u = c
    BY <1>4, <1>10, <2>3, InsertFacts
  <2>5. Distinct(free')
    BY <1>4, <1>10, <2>3, InsertDistinct
  <2>6. Listed
    BY <1>1, <1>4, <1>5, <2>1, <2>4, <2>5
  <2>7. QED
    BY <2>2, <2>6
<1>11. Kept /\ Listed
  <2> HIDE DEF Kept, Listed
  <2>1. QED
    BY <1>3, <1>8, <1>9, <1>10 DEF chunk_free
<1>12. TypeOK'
  BY <1>3, <1>5, <1>7, <1>11 DEF Inv, TypeOK
<1>13. FreeListExact'
  <2>1. DOMAIN free' = 1..Len(free')
    BY <1>11, LenProperties
  <2>2. QED
    BY <1>11, <2>1 DEF FreeListExact, Has, Distinct
<1>14. Ends'
  BY <1>1, <1>5, <1>6, <1>11 DEF Inv, Ends
<1>15. QED
  BY <1>11, <1>12, <1>13, <1>14 DEF Inv

\* Rounding up gives no less than the request as long as it does not wrap.
LEMMA AlignFacts ==
  ASSUME NEW n \in 0..(WORD - 1)
  PROVE  AlignUp(n, BLOCK) \in Nat /\ (n <= WORD - BLOCK => AlignUp(n, BLOCK) >= n)
<1>1. BLOCK \in Nat /\ BLOCK > 0 /\ WORD \in Nat /\ WORD > 0
  BY HeapAssumption
<1>2. n % BLOCK \in Nat /\ n % BLOCK < BLOCK
  BY <1>1
<1> DEFINE up == n + (BLOCK - (n % BLOCK))
<1>3. CASE n % BLOCK # 0
  <2>1. AlignUp(n, BLOCK) = up % WORD
    BY <1>3 DEF AlignUp
  <2>2. up \in Nat /\ up >= n /\ (n <= WORD - BLOCK => up < WORD)
    BY <1>1, <1>2, <1>3
  <2> HIDE DEF up
  <2>3. up % WORD \in Nat /\ (up < WORD => up % WORD = up)
    BY <1>1, <2>2
  <2>4. QED
    BY <1>1, <2>1, <2>2, <2>3
<1>4. CASE n % BLOCK = 0
  BY <1>4 DEF AlignUp
<1>5. QED
  BY <1>3, <1>4

LEMMA NextInv == Inv /\ [Next]_vars => Inv'
<1> SUFFICES ASSUME Inv, [Next]_vars PROVE Inv'
  OBVIOUS
<1>1. CASE UNCHANGED heap /\ req' \in Nat /\ ret' \in Addr /\ UNCHANGED whole
  <2>1. /\ UNCHANGED <<next, prev, size, isUsed, free, mem_free, whole>>
        /\ req' \in Nat /\ ret' \in Addr
    BY <1>1 DEF heap
  <2>2. TypeOK'
    BY <2>1 DEF Inv, TypeOK
  <2>3. Tiling' /\ Ends'
    BY <2>1 DEF Inv, Tiling, Ends, Chunks
  <2>4. FreeListExact'
    BY <2>1 DEF Inv, FreeListExact, Chunks
  <2> QED BY <2>2, <2>3, <2>4 DEF Inv
<1>2. ASSUME NEW r \in Requests, kmalloc(r) PROVE Inv'
  <2> DEFINE s == AlignUp(r, BLOCK)
  <2>1. s \in Nat /\ req' \in Nat
    BY <1>2, AlignFacts, HeapAssumption DEF kmalloc
  <2> HIDE DEF s
  <2>2. CASE Refused(s) /\ ret' = 0 /\ UNCHANGED <<heap, whole>>
    <3>1. 0 \in Addr
      BY HeapAssumption DEF Addr
    <3>2. QED
      BY <1>1, <2>1, <2>2, <3>1
  <2>3. ASSUME NEW i \in DOMAIN free, FirstFit(i, s), chunk_calc_actual_free(free[i]) - s < BLOCK, EngageWhole(i)
        PROVE  Inv'
    BY <2>1, <2>3, EngageInv
  <2>4. ASSUME NEW i \in DOMAIN free, ~(chunk_calc_actual_free(free[i]) - s < BLOCK), SliceAndEngage(i, s)
        PROVE  Inv'
    <3>1. free[i] \in Chunks
      BY FreeNode
    <3>2. chunk_calc_actual_free(free[i]) \in Int
      BY <3>1, ChunkType, HeapAssumption DEF chunk_calc_actual_free
    <3>3. chunk_calc_actual_free(free[i]) - s >= BLOCK
      BY <2>1, <2>4, <3>2, HeapAssumption
    <3>4. QED
      BY <2>1, <2>4, <3>3, SliceInv
  <2>5. k_heapdl_mm_malloc(s)
    BY <1>2 DEF kmalloc, s
  <2>6. QED
    BY <2>2, <2>3, <2>4, <2>5 DEF k_heapdl_mm_malloc
<1>3. ASSUME NEW c \in Addr, k_heapdl_mm_free(c) PROVE Inv'
  BY <1>3, FreeInv
<1>4. CASE UNCHANGED vars
  BY <1>1, <1>4 DEF vars, Inv, TypeOK
<1>5. QED
  BY <1>2, <1>3, <1>4 DEF Next

LEMMA SpecInv == Spec => []Inv
BY InitInv, NextInv, PTL DEF Spec

(***************************************************************************)
(* Whatever is allocated and freed, the fields of the headers and the two  *)
(* lists keep their types, for every size of the heap (memory/heapdl.c).   *)
(***************************************************************************)
THEOREM HeapTypes == Spec => []TypeOK
BY SpecInv, PTL DEF Inv

(***************************************************************************)
(* The chunks tile the heap of any size: chunk_slice and chunk_merge       *)
(* neither lose a byte nor give one to two chunks.                         *)
(***************************************************************************)
THEOREM HeapTiled == Spec => []Tiling
BY SpecInv, PTL DEF Inv

(***************************************************************************)
(* The list `free' holds each unused chunk once and no other, through      *)
(* every slice, engagement and merge.                                      *)
(***************************************************************************)
THEOREM HeapFreeList == Spec => []FreeListExact
BY SpecInv, PTL DEF Inv

-----------------------------------------------------------------------------
(***************************************************************************)
(* The refinement.  A chunk in use stands for the block behind its header. *)
(***************************************************************************)
LEMMA HeldFacts ==
  ASSUME Inv, NEW c \in Held
  PROVE  c \in Chunks /\ c \in Addr /\ isUsed[c] /\ c # first /\ c # last /\ c \in Nat /\ size[c] \in Nat
BY ChunkType DEF Held

\* Handing out the first n bytes of an unused chunk is a Grant.
LEMMA GrantStep ==
  ASSUME Inv, NEW r \in Requests, NEW c \in Chunks, c # first, c # last, ~isUsed[c],
         NEW n \in Nat, r <= WORD - BLOCK => n >= r, n + H <= size[c],
         Held' = Held \cup {c}, \A d \in Held : size'[d] = size[d], size'[c] = n + H,
         req' = r, ret' = c + H
  PROVE  Alloc!Next
<1> USE HeapAssumption
<1> DEFINE b == [ptr |-> c + H, len |-> n]
<1>1. c \in Nat /\ c >= H /\ size[c] \in Nat /\ c + size[c] <= last
  BY ChunkFacts
<1>2. b.ptr = c + H /\ b.len = n
  OBVIOUS
<1>3. b \in [ptr : (2 * H)..last, len : 0..last]
  BY <1>1
<1>4. Blocks' = Blocks \cup {b}
  <2>1. (n + H) - H = n
    OBVIOUS
  <2>2. Blocks' = {[ptr |-> d + H, len |-> size'[d] - H] : d \in Held'}
    BY DEF Blocks
  <2>3. QED
    BY <2>1, <2>2 DEF Blocks
<1> HIDE DEF b
<1>5. ASSUME NEW e \in Blocks PROVE Alloc!Apart(b, e)
  <2>1. PICK d \in Held : e = [ptr |-> d + H, len |-> size[d] - H]
    BY DEF Blocks
  <2>2. d \in Chunks /\ d # c /\ d \in Nat /\ size[d] \in Nat
    BY HeldFacts
  <2>3. e.ptr = d + H /\ e.len = size[d] - H
    BY <2>1
  <2>4. (c < d => c + size[c] <= d) /\ (d < c => d + size[d] <= c)
    BY <2>2 DEF Inv, Tiling
  <2>5. QED
    BY <1>1, <1>2, <2>2, <2>3, <2>4 DEF Alloc!Apart
<1>6. (r <= WORD - BLOCK => b.len >= r) /\ b.ptr >= 2 * H /\ b.ptr + b.len <= last /\ ret' = b.ptr
  BY <1>1, <1>2
<1>7. Alloc!Grant(r, b)
  BY <1>4, <1>5, <1>6 DEF Alloc!Grant
<1>8. QED
  BY <1>3, <1>7 DEF Alloc!Next, Alloc!Block


\* Giving back a chunk takes it, and no other, from its holder.
LEMMA FreeHeld ==
  ASSUME Inv, NEW c \in Addr, k_heapdl_mm_free(c)
  PROVE  Held' = Held \ {c} /\ \A d \in Held \ {c} : size'[d] = size[d]
<1>1. c \in Held /\ chunk_free(c)
  BY DEF k_heapdl_mm_free
<1>2. c \in Chunks /\ isUsed[c] /\ c # first /\ c # last
  BY <1>1, HeldFacts
<1>3. \A u \in Addr : isUsed'[u] <=> isUsed[u] /\ u # c
  BY <1>1 DEF chunk_free, Inv, TypeOK
<1>4. /\ prev[c] \in Chunks /\ next[c] \in Chunks /\ prev[c] # last /\ next[c] # first
      /\ prev[c] \in Addr /\ next[c] \in Addr /\ next[prev[c]] = c
  BY <1>2, ChunkFacts DEF Chunks
<1>5. isUsed[first] /\ isUsed[last]
  BY DEF Inv, Ends
<1>6. size \in [Addr -> 0..last]
  BY DEF Inv, TypeOK
<1>7. \A d \in Held : d \in Chunks /\ d \in Addr /\ isUsed[d]
  BY HeldFacts
<1>8. /\ Chunks' \subseteq Chunks
      /\ \A d \in Held \ {c} : d \in Chunks' /\ size'[d] = size[d]
  <2>1. ASSUME ~isUsed[prev[c]], Unlink(c),
               size' = [size EXCEPT ![prev[c]] = size[prev[c]] + size[c], ![c] = H]
        PROVE  /\ Chunks' \subseteq Chunks
               /\ \A d \in Held \ {c} : d \in Chunks' /\ size'[d] = size[d]
    <3>1. Chunks' = Chunks \ {c}
      BY <1>2, <1>4, <1>5, <2>1, MergeTiles
    <3>2. QED
      BY <1>6, <1>7, <2>1, <3>1
  <2>2. ASSUME ~isUsed[next[c]], Unlink(next[c]),
               size' = [size EXCEPT ![c] = size[c] + size[next[c]], ![next[c]] = H]
        PROVE  /\ Chunks' \subseteq Chunks
               /\ \A d \in Held \ {c} : d \in Chunks' /\ size'[d] = size[d]
    <3>1. Chunks' = Chunks \ {next[c]}
      BY <1>2, <1>4, <1>5, <2>2, MergeTiles
    <3>2. QED
      BY <1>6, <1>7, <2>2, <3>1
  <2>3. ASSUME UNCHANGED <<next, prev, size>>
        PROVE  /\ Chunks' \subseteq Chunks
               /\ \A d \in Held \ {c} : d \in Chunks' /\ size'[d] = size[d]
    BY <1>7, <2>3 DEF Chunks
  <2>4. QED
    BY <1>1, <2>1, <2>2, <2>3 DEF chunk_free
<1>9. \A u : u \in Chunks' => u \in Addr
  BY DEF Chunks
<1>10. \A u : u \in Held' <=> u \in Held /\ u # c
  BY <1>3, <1>7, <1>8, <1>9 DEF Held
<1>11. QED
  BY <1>8, <1>10

\* k_heapdl_mm_free is a Free of the block.
LEMMA FreeStep ==
  ASSUME Inv, NEW c \in Addr, k_heapdl_mm_free(c)
  PROVE  Alloc!Next
<1> DEFINE Block(d) == [ptr |-> d + H, len |-> size[d] - H]
<1>1. Held' = Held \ {c} /\ \A d \in Held \ {c} : size'[d] = size[d]
  BY FreeHeld
<1>2. c \in Held /\ req' = req /\ ret' = ret
  BY DEF k_heapdl_mm_free
<1>3. Blocks = {Block(d) : d \in Held}
  BY DEF Blocks
<1>4. Blocks' = {Block(d) : d \in Held \ {c}}
  <2>1. Blocks' = {[ptr |-> d + H, len |-> size'[d] - H] : d \in Held'}
    BY DEF Blocks
  <2>2. QED
    BY <1>1, <2>1
<1>5. \A d \in Held : Block(d) = Block(c) => d = c
  <2> SUFFICES ASSUME NEW d \in Held, Block(d) = Block(c) PROVE d = c
    OBVIOUS
  <2>1. d \in Nat /\ c \in Nat
    BY <1>2, HeldFacts
  <2>2. Block(d).ptr = d + H /\ Block(c).ptr = c + H
    OBVIOUS
  <2>3. d + H = c + H
    BY <2>2
  <2>4. QED
    BY <2>1, <2>3, HeapAssumption
<1> HIDE DEF Block
<1>6. Blocks' = Blocks \ {Block(c)} /\ Block(c) \in Blocks
  BY <1>2, <1>3, <1>4, <1>5
<1>7. QED
  BY <1>2, <1>6 DEF Alloc!Next, Alloc!Free

\* A request that finds a chunk is a Grant, whether the chunk is sliced or not.
LEMMA EngageStep ==
  ASSUME Inv, NEW r \in Requests, NEW i \in DOMAIN free, NEW s \in Nat, r <= WORD - BLOCK => s >= r, req' = r,
         FirstFit(i, s), EngageWhole(i)
  PROVE  Alloc!Next
<1> DEFINE c == free[i]
<1>1. c \in Chunks /\ ~isUsed[c] /\ c # first /\ c # last /\ c \in Addr /\ size[c] \in Nat
  BY FreeNode, ChunkType
<1>2. size[c] - H >= s
  BY DEF FirstFit, chunk_calc_actual_free
<1>3. size' = size /\ ret' = c + H /\ Chunks' = Chunks /\ isUsed' = [isUsed EXCEPT ![c] = TRUE]
  BY DEF EngageWhole, Chunks
<1> HIDE DEF c
<1>4. Held' = Held \cup {c}
  BY <1>1, <1>3 DEF Held, Chunks, Inv, TypeOK
<1> DEFINE n == size[c] - H
<1>5. n \in Nat /\ (r <= WORD - BLOCK => n >= r) /\ n + H <= size[c] /\ size[c] = n + H /\ r \in Nat
  BY <1>1, <1>2, HeapAssumption
<1> HIDE DEF n
<1>6. QED
  BY <1>1, <1>3, <1>4, <1>5, GrantStep

LEMMA SliceStep ==
  ASSUME Inv, NEW r \in Requests, NEW i \in DOMAIN free, NEW s \in Nat, r <= WORD - BLOCK => s >= r, req' = r,
         chunk_calc_actual_free(free[i]) - s >= BLOCK, SliceAndEngage(i, s)
  PROVE  Alloc!Next
<1> USE HeapAssumption
<1> DEFINE c == free[i]
           b == c + H + s
           n == next[c]
<1>1. /\ c \in Chunks /\ ~isUsed[c] /\ c # first /\ c # last
      /\ c \in Addr /\ c \in Nat /\ size[c] \in Nat
  BY FreeNode, ChunkType
<1>2. n = c + size[c] /\ n <= last /\ n \in Chunks
  BY <1>1, ChunkFacts
<1>3. H + s + BLOCK <= size[c]
  BY <1>1 DEF chunk_calc_actual_free
<1>4. /\ size' = [size EXCEPT ![b] = chunk_calc_actual_free(c) - s, ![c] = H + s]
      /\ isUsed' = [isUsed EXCEPT ![b] = FALSE, ![c] = TRUE]
      /\ next' = [next EXCEPT ![c] = b, ![b] = n] /\ ret' = c + H
  BY DEF SliceAndEngage, InsertAfter
<1>b. b = c + H + s
  OBVIOUS
<1> HIDE DEF c, b, n
<1>5. b \in Addr /\ b \in Nat /\ b # c /\ b # n /\ c < b /\ b < c + size[c]
  BY <1>1, <1>2, <1>3, <1>b DEF Addr
<1>6. b \notin Chunks
  BY <1>1, <1>5 DEF Inv, Tiling
<1>7. \A u \in Addr : u \in Chunks' <=> u \in Chunks \/ u = b
  BY <1>1, <1>4, <1>5 DEF Chunks, Inv, TypeOK
<1>8. \A u \in Addr : isUsed'[u] <=> (isUsed[u] \/ u = c) /\ u # b
  BY <1>1, <1>4, <1>5 DEF Inv, TypeOK
<1>9. Held' = Held \cup {c}
  <2>1. \A u : (u \in Chunks' => u \in Addr) /\ (u \in Chunks => u \in Addr)
    BY DEF Chunks
  <2>2. \A u \in Addr : u \in Held' <=> u \in Held \/ u = c
    BY <1>1, <1>5, <1>6, <1>7, <1>8 DEF Held
  <2>3. \A u : (u \in Held' => u \in Addr) /\ (u \in Held => u \in Addr)
    BY <2>1 DEF Held
  <2>4. QED
    BY <1>1, <2>2, <2>3
<1>10. size'[c] = s + H /\ \A d \in Held : size'[d] = size[d]
  <2>1. \A d \in Held : d \in Addr /\ d # c /\ d # b
    BY <1>1, <1>6, HeldFacts
  <2>2. \A d \in Addr : d # c /\ d # b => size'[d] = size[d]
    BY <1>4 DEF Inv, TypeOK
  <2>3. size'[c] = H + s
    BY <1>1, <1>4, <1>5 DEF Inv, TypeOK
  <2>4. QED
    BY <2>1, <2>2, <2>3
<1>11. s + H <= size[c]
  BY <1>1, <1>3
<1>12. QED
  BY <1>1, <1>4, <1>9, <1>10, <1>11, GrantStep

LEMMA StepRefines == Inv /\ [Next]_vars => [Alloc!Next]_<<Blocks, req, ret>>
<1> SUFFICES ASSUME Inv, [Next]_vars PROVE Alloc!Next \/ UNCHANGED <<Blocks, req, ret>>
  OBVIOUS
<1>1. ASSUME NEW r \in Requests, kmalloc(r) PROVE Alloc!Next
  <2> DEFINE s == AlignUp(r, BLOCK)
  <2>1. s \in Nat /\ (r <= WORD - BLOCK => s >= r) /\ req' = r
    BY <1>1, AlignFacts, HeapAssumption DEF kmalloc
  <2> HIDE DEF s
  <2>2. CASE ret' = 0 /\ UNCHANGED <<heap, whole>>
    <3>1. UNCHANGED Blocks
      BY <2>2 DEF heap, Blocks, Held, Chunks
    <3>2. QED
      BY <2>1, <2>2, <3>1 DEF Alloc!Next, Alloc!Refuse
  <2>3. ASSUME NEW i \in DOMAIN free, FirstFit(i, s), EngageWhole(i)
        PROVE  Alloc!Next
    BY <2>1, <2>3, EngageStep
  <2>4. ASSUME NEW i \in DOMAIN free, ~(chunk_calc_actual_free(free[i]) - s < BLOCK), SliceAndEngage(i, s)
        PROVE  Alloc!Next
    <3>1. free[i] \in Chunks
      BY FreeNode
    <3>2. chunk_calc_actual_free(free[i]) \in Int
      BY <3>1, ChunkType, HeapAssumption DEF chunk_calc_actual_free
    <3>3. chunk_calc_actual_free(free[i]) - s >= BLOCK
      BY <2>1, <2>4, <3>2, HeapAssumption
    <3>4. QED
      BY <2>1, <2>4, <3>3, SliceStep
  <2>5. k_heapdl_mm_malloc(s)
    BY <1>1 DEF kmalloc, s
  <2>6. QED
    BY <2>2, <2>3, <2>4, <2>5 DEF k_heapdl_mm_malloc
<1>2. ASSUME NEW c \in Addr, k_heapdl_mm_free(c) PROVE Alloc!Next
  BY <1>2, FreeStep
<1>3. CASE UNCHANGED vars
  <2>1. UNCHANGED heap /\ UNCHANGED <<req, ret>>
    BY <1>3 DEF vars
  <2>2. QED
    BY <2>1 DEF heap, Blocks, Held, Chunks
<1>4. QED
  BY <1>1, <1>2, <1>3 DEF Next

LEMMA InitRefines == Init => Alloc!Init
<1> SUFFICES ASSUME Init PROVE Blocks = {} /\ req = 0 /\ ret = 0
  BY DEF Alloc!Init
<1>1. Held = {}
  BY DEF Init, Held, Chunks
<1>2. QED
  BY <1>1 DEF Blocks, Init

(***************************************************************************)
(* kmalloc and kfree implement the abstract allocator for every heap and   *)
(* every request a size_t can hold: each block that is handed out lies     *)
(* inside the heap and overlaps no block that is still held, and it has    *)
(* the bytes asked for when these are at most WORD - BLOCK, past which     *)
(* align_address_to_upper may wrap; a failed request and a free change     *)
(* nothing else.                                                           *)
(***************************************************************************)
THEOREM HeapImplementsAllocator == Spec => ImplementsAllocator
BY InitRefines, StepRefines, SpecInv, PTL DEF Spec, ImplementsAllocator, Alloc!Spec
=============================================================================
