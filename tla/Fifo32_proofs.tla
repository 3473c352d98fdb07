--------------------------- MODULE Fifo32_proofs ----------------------------
(***************************************************************************)
(* Proofs about Fifo32, for buffers of every length and every data.        *)
(***************************************************************************)
EXTENDS Fifo32, SeqFacts

\* The inductive invariant: the type of the buffer and where its cursors are.
Inv == TypeOK /\ CursorsAgree

LEMMA InitInv == Init => Inv
<1> SUFFICES ASSUME Init PROVE Inv
  OBVIOUS
<1>1. ~hasbuf /\ hasbuf \in BOOLEAN
  BY Zenon DEF Init
<1>2. TypeOK
  BY <1>1, FifoAssumption DEF Init, TypeOK
<1>3. ~(buflen > 0)
  BY DEF Init
<1>4. CursorsAgree
  BY <1>1, <1>3 DEF Init, CursorsAgree
<1>5. QED
  BY <1>2, <1>4 DEF Inv

LEMMA NextInv == Inv /\ [Next]_vars => Inv'
<1> SUFFICES ASSUME Inv, [Next]_vars PROVE Inv'
  OBVIOUS
<1> USE FifoAssumption DEF Inv, TypeOK, CursorsAgree, Slot, Usage
<1>1. ASSUME NEW n \in BufLens, fifo32_init(n) PROVE Inv'
  BY <1>1 DEF fifo32_init
<1>2. ASSUME NEW d \in Data, fifo32_enqueue(d) PROVE Inv'
  <2>1. CASE ~hasbuf \/ free = 0
    BY <1>2, <2>1 DEF fifo32_enqueue
  <2>2. CASE hasbuf /\ free # 0
    <3>1. /\ hasbuf' = hasbuf /\ buflen' = buflen /\ next_r' = next_r
          /\ buf' = [buf EXCEPT ![next_w] = d]
          /\ next_w' = Wrap(next_w) /\ free' = free - 1 /\ ret' = OK
      BY <1>2, <2>2 DEF fifo32_enqueue
    <3>2. TypeOK'
      BY <2>2, <3>1 DEF Wrap
    <3>3. CursorsAgree'
      BY <2>2, <3>1 DEF Wrap
    <3>4. QED
      BY <3>2, <3>3
  <2>3. QED
    BY <2>1, <2>2
<1>3. CASE fifo32_dequeue
  <2>1. CASE ~hasbuf \/ free = buflen
    BY <1>3, <2>1 DEF fifo32_dequeue
  <2>2. CASE hasbuf /\ free # buflen
    <3>1. /\ hasbuf' = hasbuf /\ buflen' = buflen /\ buf' = buf /\ next_w' = next_w
          /\ next_r' = Wrap(next_r) /\ free' = free + 1 /\ ret' = buf[next_r]
      BY <1>3, <2>2 DEF fifo32_dequeue
    <3>2. TypeOK'
      BY <2>2, <3>1 DEF Wrap
    <3>3. CursorsAgree'
      BY <2>2, <3>1 DEF Wrap
    <3>4. QED
      BY <3>2, <3>3
  <2>3. QED
    BY <2>1, <2>2
<1>4. CASE fifo32_peek
  BY <1>4 DEF fifo32_peek
<1>5. CASE UNCHANGED vars
  BY <1>5 DEF vars
<1>6. QED
  BY <1>1, <1>2, <1>3, <1>4, <1>5 DEF Next

\* Type correctness: every index fifo.c computes lies inside the buffer.
THEOREM TypeCorrect == Spec => []TypeOK
<1>1. Inv => TypeOK
  BY DEF Inv
<1>2. QED
  BY <1>1, InitInv, NextInv, PTL DEF Spec

\* The cursors and the free counter agree for every buffer length.
THEOREM CursorsCorrect == Spec => []CursorsAgree
<1>1. Inv => CursorsAgree
  BY DEF Inv
<1>2. QED
  BY <1>1, InitInv, NextInv, PTL DEF Spec

-----------------------------------------------------------------------------
\* What the mapped queue holds: a proper sequence, read from slots of the buffer.
ContentsFacts ==
    /\ Usage \in Nat
    /\ \A i \in 1..Usage : Slot(i) \in 0..(buflen - 1)
    /\ Contents \in Seq(Data)
    /\ Len(Contents) = Usage
    /\ \A i \in 1..Usage : Contents[i] = buf[Slot(i)]

LEMMA ContentsSeq == Inv => ContentsFacts
<1> SUFFICES ASSUME Inv PROVE ContentsFacts
  OBVIOUS
<1>1. Usage \in Nat
  BY DEF Inv, TypeOK, Usage
<1>2. hasbuf \/ buflen = 0
  BY DEF Inv, TypeOK, CursorsAgree
<1>3. \A i \in 1..Usage : Slot(i) \in 0..(buflen - 1)
  BY <1>2 DEF Inv, TypeOK, CursorsAgree, Usage, Slot
<1>4. Contents \in [1..Usage -> Data]
  BY <1>3 DEF Contents, Inv, TypeOK
<1>5. \A i \in 1..Usage : Contents[i] = buf[Slot(i)]
  BY DEF Contents
<1>6. QED
  BY <1>1, <1>3, <1>4, <1>5, FunctionIsSeq DEF ContentsFacts

\* Enqueueing into a buffer with room appends to the contents.
LEMMA EnqueueAppends ==
  ASSUME Inv, Inv', NEW d \in Data, fifo32_enqueue(d), hasbuf, free # 0
  PROVE  Contents' = Append(Contents, d)
<1>a. ContentsFacts /\ ContentsFacts'
  BY ContentsSeq, PTL
<1>b. free' = free - 1 /\ buflen' = buflen /\ buf' = [buf EXCEPT ![next_w] = d] /\ next_r' = next_r
  BY Zenon DEF fifo32_enqueue
<1>1. Usage' = Usage + 1 /\ Usage < buflen /\ Usage \in Nat
  BY <1>b DEF Usage, Inv, TypeOK
<1>2. /\ Append(Contents, d) \in Seq(Data)
      /\ Len(Append(Contents, d)) = Usage + 1
      /\ \A i \in 1..Usage : Append(Contents, d)[i] = buf[Slot(i)]
      /\ Append(Contents, d)[Usage + 1] = d
  BY <1>a, AppendProperties DEF ContentsFacts
<1>3. /\ Contents' \in Seq(Data)
      /\ Len(Contents') = Usage + 1
      /\ \A i \in 1..(Usage + 1) : Contents'[i] = buf'[Slot(i)']
  BY <1>1, <1>a DEF ContentsFacts
<1>4. ASSUME NEW i \in 1..(Usage + 1)
      PROVE  Contents'[i] = Append(Contents, d)[i]
  <2>2. Slot(i)' = Slot(i)
    BY <1>b DEF Slot
  <2>3. next_w = Slot(Usage + 1) /\ next_w \in 0..(buflen - 1)
    <3>1. next_w = Slot(Usage + 1) /\ next_w < buflen
      BY Zenon DEF Inv, CursorsAgree
    <3>2. next_w \in Nat /\ buflen \in Nat
      BY Zenon DEF Inv, TypeOK
    <3>3. QED
      BY <3>1, <3>2
  <2>4. CASE i = Usage + 1
    BY <1>2, <1>3, <1>b, <2>2, <2>3, <2>4 DEF Inv, TypeOK
  <2>5. CASE i \in 1..Usage
    <3>1. Slot(i) # next_w
      BY <1>1, <2>3, <2>5 DEF Slot, Inv, TypeOK, CursorsAgree
    <3>2. Slot(i) \in 0..(buflen - 1)
      BY <2>5, <1>a DEF ContentsFacts
    <3>3. QED
      BY <1>2, <1>3, <1>b, <2>2, <2>5, <3>1, <3>2 DEF Inv, TypeOK
  <2>6. i = Usage + 1 \/ i \in 1..Usage
    BY <1>1
  <2>7. QED
    BY <2>4, <2>5, <2>6
<1>5. QED
  BY <1>2, <1>3, <1>4, SeqEqual

\* Dequeueing from a non-empty buffer drops and returns the oldest element.
LEMMA DequeueTakesHead ==
  ASSUME Inv, Inv', fifo32_dequeue, free # buflen
  PROVE  Contents # << >> /\ Contents' = Tail(Contents) /\ ret' = Head(Contents)
<1>a. ContentsFacts /\ ContentsFacts'
  BY ContentsSeq, PTL
<1>b. buflen \in Nat /\ free \in 0..buflen /\ next_r \in Nat
  BY DEF Inv, TypeOK
<1>d. /\ free' = free + 1 /\ buflen' = buflen /\ buf' = buf
      /\ next_r' = Wrap(next_r) /\ ret' = buf[next_r]
  BY Zenon DEF fifo32_dequeue
<1>1. Usage' = Usage - 1 /\ Usage \in Nat \ {0} /\ buflen > 0
  BY <1>b, <1>d DEF Usage
<1>c. next_r < buflen
  BY <1>1 DEF Inv, CursorsAgree
<1>2. Contents # << >>
  BY <1>1, <1>a DEF ContentsFacts
<1>3. /\ Tail(Contents) \in Seq(Data)
      /\ Len(Tail(Contents)) = Usage - 1
      /\ \A i \in 1..(Usage - 1) : Tail(Contents)[i] = buf[Slot(i + 1)]
      /\ Head(Contents) = Contents[1]
  BY <1>1, <1>2, <1>a, HeadTailProperties DEF ContentsFacts
<1>4. ret' = Head(Contents)
  <2>1. Slot(1) = next_r
    BY <1>b, <1>c DEF Slot
  <2>2. QED
    BY <1>1, <1>3, <1>a, <1>d, <2>1 DEF ContentsFacts
<1>5. /\ Contents' \in Seq(Data)
      /\ Len(Contents') = Usage - 1
      /\ \A i \in 1..(Usage - 1) : Contents'[i] = buf'[Slot(i)']
  BY <1>1, <1>a DEF ContentsFacts
<1>6. \A i \in 1..(Usage - 1) : Slot(i)' = Slot(i + 1)
  BY <1>1, <1>b, <1>c, <1>d DEF Slot, Wrap, Usage
<1>7. \A i \in 1..(Usage - 1) : Contents'[i] = Tail(Contents)[i]
  BY <1>3, <1>5, <1>6, <1>d
<1>8. Contents' = Tail(Contents)
  BY <1>3, <1>5, <1>7, SeqEqual
<1>9. QED
  BY <1>2, <1>4, <1>8

\* Steps that leave the buffer and its cursors alone leave the contents alone.
LEMMA ContentsUnchanged ==
  ASSUME UNCHANGED <<buf, buflen, free, next_r>>
  PROVE  Contents' = Contents
  BY DEF Contents, Usage, Slot

\* Every call of fifo.c is a call of the bounded queue.
LEMMA StepRefines == Inv /\ Inv' /\ [Next]_vars => [Queue!Next]_(Queue!vars)
<1> SUFFICES ASSUME Inv, Inv', [Next]_vars PROVE [Queue!Next]_(Queue!vars)
  OBVIOUS
<1>a. ContentsFacts /\ ContentsFacts'
  BY ContentsSeq, PTL
<1>b. buflen \in Nat /\ free \in 0..buflen
  BY DEF Inv, TypeOK
<1>1. ASSUME NEW n \in BufLens, fifo32_init(n) PROVE Queue!Next
  <2>1. Usage' = 0 /\ buflen' = n /\ ret' = ret
    BY <1>1, FifoAssumption DEF fifo32_init, Usage
  <2>2. Contents' \in Seq(Data) /\ Len(Contents') = Usage'
    BY <1>a DEF ContentsFacts
  <2>3. Contents' = << >>
    BY <2>1, <2>2, EmptySeq
  <2>4. QED
    BY <2>1, <2>3 DEF Queue!Next, Queue!Reset
<1>2. ASSUME NEW d \in Data, fifo32_enqueue(d) PROVE Queue!Next
  <2>1. CASE hasbuf /\ free # 0
    <3>0. free # 0
      BY <2>1, Zenon
    <3>1. Len(Contents) < buflen
      BY <3>0, <1>a, <1>b DEF ContentsFacts, Usage
    <3>2. Contents' = Append(Contents, d) /\ ret' = OK /\ buflen' = buflen
      BY <1>2, <2>1, EnqueueAppends DEF fifo32_enqueue
    <3>3. QED
      BY <3>1, <3>2 DEF Queue!Next, Queue!Enqueue
  <2>2. CASE ~hasbuf \/ free = 0
    <3>1. buflen = 0 \/ free = 0
      BY <2>2 DEF Inv, TypeOK, CursorsAgree
    <3>2. Len(Contents) = buflen
      BY <3>1, <1>a DEF ContentsFacts, Usage, Inv, TypeOK
    <3>3. Contents' = Contents
      BY <1>2, <2>2, ContentsUnchanged DEF fifo32_enqueue
    <3>4. ret' = EIO /\ buflen' = buflen
      BY <1>2, <2>2 DEF fifo32_enqueue
    <3>5. QED
      BY <3>2, <3>3, <3>4 DEF Queue!Next, Queue!Enqueue
  <2>3. QED
    BY <2>1, <2>2
<1>3. CASE fifo32_dequeue
  <2>1. CASE free # buflen
    BY <1>3, <2>1, DequeueTakesHead DEF fifo32_dequeue, Queue!Next, Queue!Dequeue
  <2>2. CASE free = buflen
    <3>1. Contents = << >>
      BY <2>2, <1>a, EmptySeq DEF ContentsFacts, Usage, Inv, TypeOK
    <3>2. Contents' = Contents
      BY <1>3, <2>2, ContentsUnchanged DEF fifo32_dequeue
    <3>3. ret' = EIO /\ buflen' = buflen
      BY <1>3, <2>2 DEF fifo32_dequeue
    <3>4. QED
      BY <3>1, <3>2, <3>3 DEF Queue!Next, Queue!Dequeue
  <2>3. QED
    BY <2>1, <2>2
<1>4. CASE fifo32_peek
  <2>1. Contents' = Contents /\ buflen' = buflen
    BY <1>4, ContentsUnchanged DEF fifo32_peek
  <2>2. CASE free = buflen
    <3>1. Contents = << >>
      BY <2>2, <1>a, EmptySeq DEF ContentsFacts, Usage, Inv, TypeOK
    <3>2. QED
      BY <1>4, <2>1, <2>2, <3>1 DEF fifo32_peek, Queue!Next, Queue!Peek
  <2>3. CASE free # buflen
    <3>1. Usage \in Nat \ {0} /\ hasbuf
      BY <2>3 DEF Usage, Inv, TypeOK, CursorsAgree
    <3>2. Slot(1) = next_r
      BY <3>1 DEF Slot, Inv, TypeOK, CursorsAgree
    <3>3. Contents # << >> /\ Head(Contents) = buf[next_r]
      BY <3>1, <3>2, <1>a DEF ContentsFacts
    <3>4. QED
      BY <1>4, <2>1, <2>3, <3>3 DEF fifo32_peek, Queue!Next, Queue!Peek
  <2>4. QED
    BY <2>2, <2>3
<1>5. CASE UNCHANGED vars
  BY <1>5, ContentsUnchanged DEF vars, Queue!vars
<1>6. QED
  BY <1>1, <1>2, <1>3, <1>4, <1>5 DEF Next

\* util/fifo.c implements the bounded queue, for every buffer length and data.
THEOREM FifoImplementsQueue == Spec => ImplementsQueue
<1>1. Init => Queue!Init
  <2> SUFFICES ASSUME Init PROVE Queue!Init
    OBVIOUS
  <2>1. Inv
    BY InitInv
  <2>2. Contents = << >>
    BY <2>1, ContentsSeq, EmptySeq DEF Init, Usage, ContentsFacts
  <2>3. QED
    BY <2>2 DEF Init, Queue!Init
<1>2. QED
  BY <1>1, InitInv, NextInv, StepRefines, PTL DEF Spec, ImplementsQueue, Queue!Spec
=============================================================================
