---- MODULE Rings_proofs ----
(***************************************************************************)
(* The rings keep their order for every size of the rings, every number of *)
(* commands and events and every interleaving of the kernel, its interrupt *)
(* and the controller.                                                     *)
(***************************************************************************)
EXTENDS Rings, Integers, TLAPS

Slots == 0 .. RingSize - 1
EventSlots == 0 .. EventRingSize - 1
Bit == {0, 1}
Trb == [body : Nat, ctl : Nat, cycle : Bit]

Copying == pc \in {"data012", "data3", "cycle"}
Handling == Copying \/ pc \in {"ring", "pop"}

CommandTypes ==
  /\ buf_ \in [Slots -> Trb]
  /\ write_index_ \in Slots /\ cycle_bit_ \in Bit
  /\ issued \in Nat /\ issued =< MaxCommands
  /\ deq \in Slots /\ ccs \in Bit
  /\ executed \in Seq(Nat \X Nat)

EventTypes ==
  /\ er \in [EventSlots -> [event : Nat, cycle : Bit]]
  /\ enq \in EventSlots /\ pcs \in Bit /\ erdp \in EventSlots /\ er_cycle_bit_ \in Bit
  /\ posted \in Nat /\ seen \in Seq(Nat)

TypeOK ==
  /\ pc \in {"boot", "loop", "test", "idle", "halted", "drain"} \/ Handling
  /\ CommandTypes /\ EventTypes

----
(* The event ring.  The slots before enq carry the controller's cycle bit and
   the others its opposite, and their events count up to posted.  The kernel
   has the controller's cycle bit when it is in the same lap, and is then not
   ahead; otherwise it is a lap behind, and beyond enq. *)
Popped == IF Handling THEN Len(seen) - 1 ELSE Len(seen)

Lap == posted - enq  \* events of the laps before the controller's

EventInv ==
  /\ \A j \in EventSlots :
       /\ er[j].cycle = IF j < enq THEN pcs ELSE 1 - pcs
       /\ j < enq => er[j].event = Lap + j + 1
       /\ j >= enq /\ Lap > 0 => er[j].event = Lap + j + 1 - EventRingSize
  /\ IF er_cycle_bit_ = pcs
       THEN erdp =< enq /\ posted - Popped = enq - erdp
       ELSE enq < erdp /\ posted - Popped = enq + EventRingSize - erdp
  /\ Handling => Len(seen) > 0 /\ HasFront
  /\ \A i \in 1 .. Len(seen) : seen[i] = i

----
(* The command ring.  A slot may be the controller's before CopyToLast is done
   with it: when the cycle bit is 0, data[3] already says so.  Reach, Phase and
   Ready are write_index_, cycle_bit_ and the number of commands stored, as the
   controller can see them. *)
Shown == pc = "cycle" /\ cycle_bit_ = 0
LinkShown == Shown /\ write_index_ = RingSize - 1

Reach == IF LinkShown THEN 0 ELSE IF Shown THEN write_index_ + 1 ELSE write_index_
Phase == IF LinkShown THEN 1 ELSE cycle_bit_
Ready == IF Copying /\ ~Shown /\ write_index_ < RingSize - 1 THEN issued - 1 ELSE issued

(* What CopyToLast is storing. *)
StoreInv ==
  /\ ~Copying => write_index_ < RingSize - 1
  /\ Copying => copying = IF write_index_ < RingSize - 1 THEN <<issued>> ELSE <<Link>>
  /\ Copying /\ write_index_ < RingSize - 1 => issued > 0
  /\ pc \in {"data3", "cycle"} => buf_[write_index_].body = Item
  /\ pc = "cycle" => buf_[write_index_].ctl = Item /\ buf_[write_index_].cycle = 0

(* The slots before r carry the cycle bit ph and the others its opposite; the
   slots before r hold the last r of n commands. *)
Laid(b, r, ph, n) ==
  \A j \in Slots :
    /\ b[j].cycle = IF j < r THEN ph ELSE 1 - ph
    /\ j < r => b[j].body = n - r + j + 1 /\ b[j].ctl = n - r + j + 1

(* A controller in the same lap, with e commands executed, is not beyond r; one
   that is a lap behind has the rest of its lap before it, untouched, and then
   the link. *)
Follows(b, r, ph, n, d, c, e) ==
  /\ c = ph => d =< r /\ n - e = r - d
  /\ c # ph => /\ r < d /\ n - e = r + RingSize - 1 - d
               /\ b[RingSize - 1].ctl = Link
               /\ \A j \in Slots : j >= d /\ j < RingSize - 1 =>
                    b[j].body = e + 1 + j - d /\ b[j].ctl = e + 1 + j - d

CommandInv ==
  /\ Laid(buf_, Reach, Phase, Ready)
  /\ Follows(buf_, Reach, Phase, Ready, deq, ccs, Len(executed))
  /\ issued - Len(executed) =< MaxOutstanding
  /\ \A i \in 1 .. Len(executed) : executed[i] = <<i, i>>

Inv == TypeOK /\ EventInv /\ StoreInv /\ CommandInv

LEMMA Sizes ==
  /\ RingSize \in Nat /\ RingSize >= 3 /\ EventRingSize \in Nat /\ EventRingSize >= 2
  /\ MaxOutstanding \in Nat /\ MaxOutstanding =< RingSize - 2
  /\ QueueSize \in Nat /\ MaxCommands \in Nat /\ MaxEvents \in Nat
BY RingsAssumption

LEMMA InvInit == RingsInit => Inv
<1> SUFFICES ASSUME RingsInit PROVE Inv
  OBVIOUS
<1> USE Sizes
<1> USE DEF RingsInit, CommandRingInit, EventRingInit, None
<1>0. ~Copying /\ ~Handling /\ ~Shown
  BY DEF Copying, Handling, Shown
<1>1. CommandTypes
  BY DEF CommandTypes, Slots, Bit, Trb
<1>2. EventTypes
  BY DEF EventTypes, EventSlots, Bit
<1>3. TypeOK
  BY <1>1, <1>2 DEF TypeOK
<1>4. EventInv
  <2>1. /\ enq = 0 /\ pcs = 1 /\ erdp = 0 /\ er_cycle_bit_ = 1 /\ posted = 0
        /\ Len(seen) = 0 /\ Popped = 0 /\ Lap = 0
        /\ \A j \in EventSlots : er[j].cycle = 0
    BY <1>0 DEF Popped, Lap, EventSlots
  <2> HIDE DEF RingsInit, EventRingInit
  <2> QED BY <1>0, <2>1 DEF EventInv, EventSlots
<1>5. StoreInv
  BY <1>0 DEF StoreInv
<1>6. CommandInv
  <2>1. Reach = 0 /\ Phase = 1 /\ Ready = 0
    BY <1>0 DEF Reach, Phase, Ready, LinkShown
  <2>2. /\ ccs = 1 /\ deq = 0 /\ issued = 0 /\ Len(executed) = 0
        /\ \A j \in Slots : buf_[j].cycle = 0
    BY DEF Slots
  <2> HIDE DEF RingsInit, CommandRingInit
  <2> QED BY <2>1, <2>2 DEF CommandInv, Laid, Follows, Slots
<1> QED BY <1>3, <1>4, <1>5, <1>6 DEF Inv

(* What stands at the head of the event ring is the next event. *)
LEMMA FrontIsNext ==
  ASSUME EventTypes, EventInv, HasFront
  PROVE  Popped < posted /\ er[erdp].event = Popped + 1
<1>0. /\ Popped \in Nat /\ posted \in Nat /\ enq \in EventSlots /\ erdp \in EventSlots
      /\ pcs \in Bit /\ er_cycle_bit_ \in Bit
  BY DEF EventTypes, EventInv, Popped
<1>1. er_cycle_bit_ = IF erdp < enq THEN pcs ELSE 1 - pcs
  BY <1>0 DEF EventInv, HasFront
<1>2. /\ erdp < enq => er[erdp].event = Lap + erdp + 1
      /\ erdp >= enq /\ Lap > 0 => er[erdp].event = Lap + erdp + 1 - EventRingSize
  BY <1>0 DEF EventInv
<1>3. IF er_cycle_bit_ = pcs
        THEN erdp =< enq /\ posted - Popped = enq - erdp
        ELSE enq < erdp /\ posted - Popped = enq + EventRingSize - erdp
  BY DEF EventInv
<1>4. CASE er_cycle_bit_ = pcs
  <2>1. erdp < enq /\ posted - Popped = enq - erdp
    BY <1>0, <1>1, <1>3, <1>4, Sizes DEF EventSlots, Bit
  <2> QED BY <1>0, <1>2, <2>1, Sizes DEF EventSlots, Lap
<1>5. CASE er_cycle_bit_ # pcs
  <2>1. enq < erdp /\ posted - Popped = enq + EventRingSize - erdp
    BY <1>3, <1>5
  <2> QED BY <1>0, <1>2, <2>1, Sizes DEF EventSlots, Lap
<1> QED BY <1>4, <1>5

(* What the controller finds at its dequeue index is the next command, or the
   link at the end of a lap. *)
LEMMA OwnIsNext ==
  ASSUME CommandTypes, CommandInv, Own
  PROVE  \/ /\ deq < RingSize - 1 /\ Len(executed) < Ready
            /\ buf_[deq].body = Len(executed) + 1 /\ buf_[deq].ctl = Len(executed) + 1
         \/ deq = RingSize - 1 /\ ccs # Phase /\ buf_[deq].ctl = Link
<1>0. /\ Ready \in Int /\ Reach \in Slots /\ Phase \in Bit /\ deq \in Slots /\ ccs \in Bit
      /\ Len(executed) \in Nat
  <2>1. deq \in Slots /\ ccs \in Bit /\ Len(executed) \in Nat /\ Ready \in Int
    BY DEF CommandTypes, Ready
  <2>2. Reach \in Slots
    BY Sizes DEF CommandTypes, Reach, LinkShown, Shown, Slots
  <2>3. Phase \in Bit
    BY DEF CommandTypes, Phase, Bit
  <2> QED BY <2>1, <2>2, <2>3
<1>1. ccs = IF deq < Reach THEN Phase ELSE 1 - Phase
  BY <1>0 DEF CommandInv, Laid, Own
<1>2. deq < Reach => /\ buf_[deq].body = Ready - Reach + deq + 1
                     /\ buf_[deq].ctl = Ready - Reach + deq + 1
  BY <1>0 DEF CommandInv, Laid
<1>3. IF ccs = Phase
        THEN deq =< Reach /\ Ready - Len(executed) = Reach - deq
        ELSE /\ Reach < deq /\ Ready - Len(executed) = Reach + RingSize - 1 - deq
             /\ buf_[RingSize - 1].ctl = Link
             /\ deq < RingSize - 1 => /\ buf_[deq].body = Len(executed) + 1
                                      /\ buf_[deq].ctl = Len(executed) + 1
  <2>1. Follows(buf_, Reach, Phase, Ready, deq, ccs, Len(executed))
    BY DEF CommandInv
  <2> HIDE DEF Reach, Phase, Ready
  <2>2. deq < RingSize - 1 /\ ccs # Phase =>
           /\ buf_[deq].body = Len(executed) + 1 + deq - deq
           /\ buf_[deq].ctl = Len(executed) + 1 + deq - deq
    BY <1>0, <2>1, Sizes DEF Follows, Slots
  <2> QED BY <1>0, <2>1, <2>2, Sizes DEF Follows, Slots
<1>4. CASE ccs = Phase
  <2>1. deq < Reach /\ Ready - Len(executed) = Reach - deq
    BY <1>0, <1>1, <1>3, <1>4, Sizes DEF Slots, Bit
  <2> QED BY <1>0, <1>2, <2>1, Sizes DEF Slots
<1>5. CASE ccs # Phase
  BY <1>0, <1>3, <1>5, Sizes DEF Slots
<1> QED BY <1>4, <1>5

(* The next command becomes the controller's. *)
LEMMA ShowCommand ==
  ASSUME NEW b \in [Slots -> Trb], NEW b2 \in [Slots -> Trb], NEW r \in Slots, r < RingSize - 1,
         NEW ph \in Bit, NEW n \in Nat, NEW d \in Slots, NEW c \in Bit, NEW e \in Nat,
         Laid(b, r, ph, n), Follows(b, r, ph, n, d, c, e), n + 1 - e =< RingSize - 2,
         \A j \in Slots : j # r => b2[j] = b[j],
         b2[r].body = n + 1, b2[r].ctl = n + 1, b2[r].cycle = ph
  PROVE  Laid(b2, r + 1, ph, n + 1) /\ Follows(b2, r + 1, ph, n + 1, d, c, e)
<1>1. Laid(b2, r + 1, ph, n + 1)
  <2> SUFFICES ASSUME NEW j \in Slots
               PROVE  /\ b2[j].cycle = IF j < r + 1 THEN ph ELSE 1 - ph
                      /\ j < r + 1 => /\ b2[j].body = (n + 1) - (r + 1) + j + 1
                                      /\ b2[j].ctl = (n + 1) - (r + 1) + j + 1
    BY Zenon DEF Laid
  <2>1. CASE j = r
    BY <2>1 DEF Slots
  <2>2. CASE j # r
    <3>1. b2[j] = b[j]
      BY <2>2
    <3>2. /\ b[j].cycle = IF j < r THEN ph ELSE 1 - ph
          /\ j < r => b[j].body = n - r + j + 1 /\ b[j].ctl = n - r + j + 1
      BY DEF Laid
    <3> QED BY <2>2, <3>1, <3>2, Sizes DEF Slots
  <2> QED BY <2>1, <2>2
<1>2. ASSUME c = ph PROVE d =< r + 1 /\ (n + 1) - e = (r + 1) - d
  BY <1>2, Sizes DEF Follows, Slots
<1>3. ASSUME c # ph
      PROVE  /\ r + 1 < d /\ (n + 1) - e = (r + 1) + RingSize - 1 - d
             /\ b2[RingSize - 1].ctl = Link
             /\ \A j \in Slots : j >= d /\ j < RingSize - 1 =>
                  b2[j].body = e + 1 + j - d /\ b2[j].ctl = e + 1 + j - d
  <2>1. n - e = r + RingSize - 1 - d
    BY <1>3 DEF Follows
  <2>2. r + 1 < d /\ (n + 1) - e = (r + 1) + RingSize - 1 - d
    BY <2>1, Sizes DEF Slots
  <2>3. \A j \in Slots : j >= d => b2[j] = b[j]
    BY <2>2, Sizes DEF Slots
  <2>4. RingSize - 1 \in Slots /\ RingSize - 1 >= d
    BY Sizes DEF Slots
  <2> QED BY <1>3, <2>2, <2>3, <2>4 DEF Follows
<1> QED BY <1>1, <1>2, <1>3, Zenon DEF Follows

(* The link becomes the controller's, and with it the next lap begins. *)
LEMMA ShowLink ==
  ASSUME NEW b \in [Slots -> Trb], NEW b2 \in [Slots -> Trb],
         NEW ph \in Bit, NEW n \in Nat, NEW d \in Slots, NEW c \in Bit, NEW e \in Nat,
         Laid(b, RingSize - 1, ph, n), Follows(b, RingSize - 1, ph, n, d, c, e),
         n - e =< RingSize - 2,
         \A j \in Slots : j # RingSize - 1 => b2[j] = b[j],
         b2[RingSize - 1].ctl = Link, b2[RingSize - 1].cycle = ph
  PROVE  Laid(b2, 0, 1 - ph, n) /\ Follows(b2, 0, 1 - ph, n, d, c, e)
<1>0. c = ph
  <2> SUFFICES ASSUME c # ph PROVE FALSE
    OBVIOUS
  <2> QED BY Sizes DEF Follows, Slots
<1>1. d =< RingSize - 1 /\ n - e = RingSize - 1 - d
  BY <1>0 DEF Follows
<1>2. d > 0
  BY <1>1, Sizes DEF Slots
<1>3. Laid(b2, 0, 1 - ph, n)
  <2> SUFFICES ASSUME NEW j \in Slots PROVE b2[j].cycle = ph
    BY Sizes DEF Laid, Slots, Bit
  <2>1. CASE j = RingSize - 1
    BY <2>1
  <2>2. CASE j # RingSize - 1
    BY <2>2, Sizes DEF Laid, Slots
  <2> QED BY <2>1, <2>2
<1>4. \A j \in Slots : j >= d /\ j < RingSize - 1 =>
         b2[j].body = e + 1 + j - d /\ b2[j].ctl = e + 1 + j - d
  <2> SUFFICES ASSUME NEW j \in Slots, j < RingSize - 1
               PROVE  b2[j].body = e + 1 + j - d /\ b2[j].ctl = e + 1 + j - d
    OBVIOUS
  <2>1. b2[j] = b[j]
    BY Sizes DEF Slots
  <2>2. b[j].body = n - (RingSize - 1) + j + 1 /\ b[j].ctl = n - (RingSize - 1) + j + 1
    BY DEF Laid
  <2> QED BY <1>1, <2>1, <2>2, Sizes DEF Slots
<1>5. c # 1 - ph
  BY <1>0 DEF Bit
<1>6. n - e = 0 + RingSize - 1 - d
  BY <1>1, Sizes DEF Slots
<1> QED BY <1>2, <1>3, <1>4, <1>5, <1>6 DEF Follows

----
(* Steps that leave a ring alone. *)
LEMMA EventQuiet ==
  ASSUME EventTypes, EventInv, UNCHANGED evVars, Handling' <=> Handling
  PROVE  EventTypes' /\ EventInv'
<1>1. /\ er' = er /\ enq' = enq /\ pcs' = pcs /\ erdp' = erdp
      /\ er_cycle_bit_' = er_cycle_bit_ /\ posted' = posted /\ seen' = seen
  BY DEF evVars
<1>2. Popped' = Popped
  BY <1>1 DEF Popped
<1>3. EventTypes'
  BY <1>1 DEF EventTypes
<1>4. EventInv'
  BY <1>1, <1>2 DEF EventInv, HasFront, Lap
<1> QED BY <1>3, <1>4

LEMMA CommandQuiet ==
  ASSUME CommandTypes, StoreInv, CommandInv, UNCHANGED <<cmdVars, deq, ccs, executed>>,
         pc' = pc \/ (~Copying /\ ~Copying')
  PROVE  CommandTypes' /\ StoreInv' /\ CommandInv'
<1>1. /\ buf_' = buf_ /\ write_index_' = write_index_ /\ cycle_bit_' = cycle_bit_
      /\ copying' = copying /\ issued' = issued
      /\ deq' = deq /\ ccs' = ccs /\ executed' = executed
  BY DEF cmdVars
<1>2. CommandTypes'
  BY <1>1 DEF CommandTypes
<1>3. StoreInv'
  BY <1>1 DEF StoreInv, Copying, Item
<1>4. Reach' = Reach /\ Phase' = Phase /\ Ready' = Ready
  BY <1>1 DEF Reach, Phase, Ready, LinkShown, Shown, Copying
<1>5. CommandInv'
  BY <1>1, <1>4 DEF CommandInv, Laid, Follows
<1> QED BY <1>2, <1>3, <1>5

----
(* The event ring. *)
LEMMA PostKeeps ==
  ASSUME EventTypes, EventInv, PostEvent, Handling' <=> Handling
  PROVE  EventTypes' /\ EventInv'
<1>0. /\ posted \in Nat /\ enq \in EventSlots /\ erdp \in EventSlots /\ Popped \in Nat
      /\ pcs \in Bit /\ er_cycle_bit_ \in Bit
  BY DEF EventTypes, EventInv, Popped
<1>1. /\ er' = [er EXCEPT ![enq] = [event |-> posted + 1, cycle |-> pcs]]
      /\ enq' = After(enq) /\ posted' = posted + 1 /\ After(enq) # erdp
      /\ pcs' = IF enq + 1 = EventRingSize THEN 1 - pcs ELSE pcs
      /\ erdp' = erdp /\ er_cycle_bit_' = er_cycle_bit_ /\ seen' = seen
  BY DEF PostEvent, CanPost
<1>2. Popped' = Popped
  BY <1>1 DEF Popped
<1>3. EventTypes'
  BY <1>0, <1>1, Sizes DEF EventTypes, After, EventSlots, Bit
<1>4. IF er_cycle_bit_ = pcs
        THEN erdp =< enq /\ posted - Popped = enq - erdp
        ELSE enq < erdp /\ posted - Popped = enq + EventRingSize - erdp
  BY DEF EventInv
<1>5. ASSUME NEW j \in EventSlots
      PROVE  /\ er'[j].cycle = IF j < enq' THEN pcs' ELSE 1 - pcs'
             /\ j < enq' => er'[j].event = Lap' + j + 1
             /\ j >= enq' /\ Lap' > 0 => er'[j].event = Lap' + j + 1 - EventRingSize
  <2>1. /\ er[j].cycle = IF j < enq THEN pcs ELSE 1 - pcs
        /\ j < enq => er[j].event = Lap + j + 1
        /\ j >= enq /\ Lap > 0 => er[j].event = Lap + j + 1 - EventRingSize
    BY DEF EventInv
  <2>2. er'[j] = IF j = enq THEN [event |-> posted + 1, cycle |-> pcs] ELSE er[j]
    BY <1>1 DEF EventTypes
  <2>3. Lap \in Int /\ Lap + enq = posted
    BY <1>0 DEF Lap, EventSlots
  <2>4. CASE enq + 1 = EventRingSize
    <3>1. enq' = 0 /\ pcs' = 1 - pcs /\ Lap' = Lap + EventRingSize
      <4>1. enq' = 0 /\ pcs' = 1 - pcs
        BY <1>1, <2>4 DEF After
      <4>2. Lap' = posted + 1 /\ Lap = posted - enq
        BY <1>0, <1>1, <4>1 DEF Lap
      <4> QED BY <1>0, <2>4, <4>1, <4>2, Sizes DEF EventSlots
    <3>2. j < enq \/ j = enq
      BY <1>0, <2>4, Sizes DEF EventSlots
    <3> QED BY <1>0, <2>1, <2>2, <2>3, <2>4, <3>1, <3>2, Sizes DEF EventSlots, Bit
  <2>5. CASE enq + 1 # EventRingSize
    <3>1. enq' = enq + 1 /\ pcs' = pcs /\ Lap' = Lap
      BY <1>0, <1>1, <2>3, <2>5, Sizes DEF After, Lap, EventSlots
    <3>2. CASE j = enq
      BY <1>0, <2>2, <2>3, <3>1, <3>2, Sizes DEF EventSlots, Bit
    <3>3. CASE j # enq
      <4>1. er'[j] = er[j] /\ (j < enq' <=> j < enq)
        BY <1>0, <2>2, <3>1, <3>3, Sizes DEF EventSlots
      <4> QED BY <1>0, <2>1, <3>1, <4>1, Sizes DEF EventSlots
    <3> QED BY <3>2, <3>3
  <2> QED BY <2>4, <2>5
<1>6. IF er_cycle_bit_ = pcs'
        THEN erdp =< enq' /\ posted' - Popped = enq' - erdp
        ELSE enq' < erdp /\ posted' - Popped = enq' + EventRingSize - erdp
  <2>1. CASE enq + 1 = EventRingSize
    BY <1>0, <1>1, <1>4, <2>1, Sizes DEF After, EventSlots, Bit
  <2>2. CASE enq + 1 # EventRingSize
    BY <1>0, <1>1, <1>4, <2>2, Sizes DEF After, EventSlots, Bit
  <2> QED BY <2>1, <2>2
<1>7. Handling => Len(seen) > 0 /\ HasFront'
  <2> SUFFICES ASSUME Handling PROVE Len(seen) > 0 /\ HasFront'
    OBVIOUS
  <2>1. Len(seen) > 0 /\ HasFront
    BY DEF EventInv
  <2>2. erdp # enq
    BY <2>1, <1>0, <1>4, FrontIsNext, Sizes DEF EventSlots
  <2> QED BY <1>0, <1>1, <2>1, <2>2 DEF HasFront, EventTypes
<1> QED BY <1>1, <1>2, <1>3, <1>5, <1>6, <1>7 DEF EventInv

LEMMA OnEventKeepsEvents ==
  ASSUME EventTypes, EventInv, OnEvent
  PROVE  EventTypes' /\ EventInv'
<1>1. /\ er' = er /\ enq' = enq /\ pcs' = pcs /\ erdp' = erdp
      /\ er_cycle_bit_' = er_cycle_bit_ /\ posted' = posted
      /\ seen' = Append(seen, er[erdp].event) /\ HasFront
      /\ ~Handling /\ Handling'
  BY DEF OnEvent, evVars, Handling, Copying
<1>2. Popped = Len(seen) /\ er[erdp].event = Len(seen) + 1
  BY <1>1, FrontIsNext DEF Popped
<1>3. seen' \in Seq(Nat) /\ Len(seen') = Len(seen) + 1 /\ Popped' = Popped
  BY <1>1, <1>2 DEF EventTypes, Popped
<1>4. \A i \in 1 .. Len(seen') : seen'[i] = i
  BY <1>1, <1>2, <1>3 DEF EventTypes, EventInv
<1>5. EventTypes'
  BY <1>1, <1>3 DEF EventTypes
<1>6. EventInv'
  BY <1>1, <1>3, <1>4 DEF EventInv, HasFront, Lap, EventTypes
<1> QED BY <1>5, <1>6

LEMMA PopKeepsEvents ==
  ASSUME EventTypes, EventInv, Pop
  PROVE  EventTypes' /\ EventInv'
<1>0. /\ posted \in Nat /\ enq \in EventSlots /\ erdp \in EventSlots /\ Popped \in Nat
      /\ pcs \in Bit /\ er_cycle_bit_ \in Bit
  BY DEF EventTypes, EventInv, Popped
<1>1. /\ er' = er /\ enq' = enq /\ pcs' = pcs /\ erdp' = After(erdp)
      /\ er_cycle_bit_' = IF erdp + 1 = EventRingSize THEN 1 - er_cycle_bit_ ELSE er_cycle_bit_
      /\ posted' = posted /\ seen' = seen
      /\ Handling /\ ~Handling'
  BY DEF Pop, Goto, Handling, Copying
<1>2. HasFront /\ Popped' = Popped + 1
  BY <1>1 DEF EventInv, EventTypes, Popped
<1>3. Popped < posted
  BY <1>2, FrontIsNext
<1>4. IF er_cycle_bit_ = pcs
        THEN erdp =< enq /\ posted - Popped = enq - erdp
        ELSE enq < erdp /\ posted - Popped = enq + EventRingSize - erdp
  BY DEF EventInv
<1>5. IF er_cycle_bit_' = pcs
        THEN erdp' =< enq /\ posted - Popped' = enq - erdp'
        ELSE enq < erdp' /\ posted - Popped' = enq + EventRingSize - erdp'
  <2>1. CASE erdp + 1 = EventRingSize
    BY <1>0, <1>1, <1>2, <1>3, <1>4, <2>1, Sizes DEF After, EventSlots, Bit
  <2>2. CASE erdp + 1 # EventRingSize
    BY <1>0, <1>1, <1>2, <1>3, <1>4, <2>2, Sizes DEF After, EventSlots, Bit
  <2> QED BY <2>1, <2>2
<1>6. EventTypes'
  BY <1>0, <1>1, Sizes DEF EventTypes, After, EventSlots, Bit
<1>7. EventInv'
  BY <1>1, <1>5 DEF EventInv, Lap
<1> QED BY <1>6, <1>7

----
(* The command ring. *)
LEMMA CommandFacts ==
  ASSUME CommandTypes, StoreInv, CommandInv
  PROVE  /\ buf_ \in [Slots -> Trb] /\ write_index_ \in Slots /\ cycle_bit_ \in Bit
         /\ issued \in Nat /\ issued =< MaxCommands /\ deq \in Slots /\ ccs \in Bit
         /\ executed \in Seq(Nat \X Nat) /\ Len(executed) \in Nat
         /\ Ready \in Nat /\ Ready =< issued /\ Reach \in Slots /\ Phase \in Bit
<1>1. /\ buf_ \in [Slots -> Trb] /\ write_index_ \in Slots /\ cycle_bit_ \in Bit
      /\ issued \in Nat /\ issued =< MaxCommands /\ deq \in Slots /\ ccs \in Bit
      /\ executed \in Seq(Nat \X Nat) /\ Len(executed) \in Nat
  BY DEF CommandTypes
<1>2. Ready \in Nat /\ Ready =< issued
  BY <1>1 DEF Ready, StoreInv
<1>3. Reach \in Slots
  BY <1>1, Sizes DEF Reach, LinkShown, Shown, Slots
<1>4. Phase \in Bit
  BY <1>1 DEF Phase, Bit
<1> QED BY <1>1, <1>2, <1>3, <1>4

LEMMA OnEventKeepsCommands ==
  ASSUME CommandTypes, StoreInv, CommandInv, OnEvent, issued' = issued + 1
  PROVE  CommandTypes' /\ StoreInv' /\ CommandInv'
<1>0. /\ issued \in Nat /\ write_index_ \in Slots /\ Len(executed) \in Nat
  BY CommandFacts
<1>1. /\ pc = "drain" /\ pc' = "data012" /\ copying' = <<issued'>>
      /\ issued < MaxCommands /\ issued - Len(executed) < MaxOutstanding
      /\ buf_' = buf_ /\ write_index_' = write_index_ /\ cycle_bit_' = cycle_bit_
      /\ deq' = deq /\ ccs' = ccs /\ executed' = executed
  BY <1>0 DEF OnEvent, xhcVars
<1>2. ~Copying /\ Copying' /\ ~Shown /\ ~Shown' /\ write_index_ < RingSize - 1
  BY <1>1 DEF Copying, Shown, StoreInv
<1>3. CommandTypes'
  BY <1>0, <1>1, Sizes DEF CommandTypes
<1>4. StoreInv'
  BY <1>0, <1>1, <1>2 DEF StoreInv
<1>5. Reach' = Reach /\ Phase' = Phase /\ Ready' = Ready
  BY <1>0, <1>1, <1>2 DEF Reach, Phase, Ready, LinkShown
<1>6. issued' - Len(executed) =< MaxOutstanding
  BY <1>0, <1>1, Sizes
<1>7. CommandInv'
  BY <1>1, <1>5, <1>6 DEF CommandInv, Laid, Follows
<1> QED BY <1>3, <1>4, <1>7

(* The TRB that CopyToLast is storing. *)
LEMMA ItemIs ==
  ASSUME CommandTypes, StoreInv, Copying
  PROVE  /\ Item = IF write_index_ < RingSize - 1 THEN issued ELSE Link
         /\ Item \in Nat
         /\ Item = Link <=> write_index_ = RingSize - 1
<1>0. issued \in Nat /\ issued =< MaxCommands /\ write_index_ \in Slots
  BY DEF CommandTypes
<1>1. copying = IF write_index_ < RingSize - 1 THEN <<issued>> ELSE <<Link>>
  BY DEF StoreInv
<1>2. CASE write_index_ < RingSize - 1
  <2>1. copying = <<issued>>
    BY <1>1, <1>2
  <2>2. Item = issued
    BY <2>1 DEF Item
  <2> QED
    BY <1>0, <1>2, <2>2, Sizes DEF Link, Slots
<1>3. CASE ~(write_index_ < RingSize - 1)
  <2>1. copying = <<Link>>
    BY <1>1, <1>3
  <2>2. Item = Link
    BY <2>1 DEF Item
  <2> QED
    BY <1>0, <1>3, <2>2, Sizes DEF Link, Slots
<1> QED BY <1>2, <1>3

LEMMA CopyDataKeeps ==
  ASSUME CommandTypes, StoreInv, CommandInv, CopyData
  PROVE  CommandTypes' /\ StoreInv' /\ CommandInv'
<1>0. /\ buf_ \in [Slots -> Trb] /\ write_index_ \in Slots /\ issued \in Nat
      /\ deq \in Slots /\ Ready \in Nat /\ Reach \in Slots /\ Len(executed) \in Nat
  BY CommandFacts
<1>1. /\ pc = "data012" /\ pc' = "data3"
      /\ buf_' = [buf_ EXCEPT ![write_index_].body = Item]
      /\ write_index_' = write_index_ /\ cycle_bit_' = cycle_bit_
      /\ copying' = copying /\ issued' = issued
      /\ deq' = deq /\ ccs' = ccs /\ executed' = executed
  BY DEF CopyData, Goto, xhcVars
<1>2. Copying /\ Copying' /\ ~Shown /\ ~Shown'
  BY <1>1 DEF Copying, Shown
<1>3. Item \in Nat
  BY <1>2, ItemIs
<1>4. /\ \A j \in Slots : buf_'[j].cycle = buf_[j].cycle /\ buf_'[j].ctl = buf_[j].ctl
      /\ \A j \in Slots : j # write_index_ => buf_'[j] = buf_[j]
      /\ buf_'[write_index_].body = Item
  BY <1>0, <1>1 DEF Trb
<1>5. CommandTypes'
  BY <1>0, <1>1, <1>3 DEF CommandTypes, Trb
<1>6. StoreInv'
  BY <1>1, <1>2, <1>4 DEF StoreInv, Item
<1>7. Reach' = Reach /\ Phase' = Phase /\ Ready' = Ready /\ Reach = write_index_
  BY <1>1, <1>2 DEF Reach, Phase, Ready, LinkShown
<1>8. Laid(buf_', Reach, Phase, Ready)
  <2> HIDE DEF Reach, Phase, Ready
  <2> QED BY <1>0, <1>4, <1>7 DEF CommandInv, Laid, Slots
<1>9. Follows(buf_', Reach, Phase, Ready, deq, ccs, Len(executed))
  <2>1. Follows(buf_, Reach, Phase, Ready, deq, ccs, Len(executed))
    BY DEF CommandInv
  <2>2. ccs # Phase => \A j \in Slots : j >= deq => buf_'[j] = buf_[j]
    BY <1>0, <1>4, <1>7, <2>1 DEF Follows, Slots
  <2>3. RingSize - 1 \in Slots
    BY Sizes DEF Slots
  <2> QED BY <1>4, <2>1, <2>2, <2>3 DEF Follows
<1>10. CommandInv'
  BY <1>1, <1>7, <1>8, <1>9 DEF CommandInv
<1> QED BY <1>5, <1>6, <1>10

LEMMA CopyControlKeeps ==
  ASSUME CommandTypes, StoreInv, CommandInv, CopyControl
  PROVE  CommandTypes' /\ StoreInv' /\ CommandInv'
<1>0. /\ buf_ \in [Slots -> Trb] /\ write_index_ \in Slots /\ cycle_bit_ \in Bit
      /\ issued \in Nat /\ deq \in Slots /\ ccs \in Bit /\ Len(executed) \in Nat
      /\ Ready \in Nat /\ Reach \in Slots /\ Phase \in Bit
  BY CommandFacts
<1>1. /\ pc = "data3" /\ pc' = "cycle"
      /\ buf_' = [buf_ EXCEPT ![write_index_].ctl = Item, ![write_index_].cycle = 0]
      /\ write_index_' = write_index_ /\ cycle_bit_' = cycle_bit_
      /\ copying' = copying /\ issued' = issued
      /\ deq' = deq /\ ccs' = ccs /\ executed' = executed
  BY DEF CopyControl, Goto, xhcVars
<1>2. Copying /\ Copying' /\ ~Shown
  BY <1>1 DEF Copying, Shown
<1>3. /\ Item \in Nat /\ Item' = Item /\ buf_[write_index_].body = Item
      /\ Item = IF write_index_ < RingSize - 1 THEN issued ELSE Link
  <2>1. Item \in Nat /\ Item = IF write_index_ < RingSize - 1 THEN issued ELSE Link
    BY <1>2, ItemIs
  <2>2. Item' = Item
    BY <1>1 DEF Item
  <2>3. buf_[write_index_].body = Item
    BY <1>1 DEF StoreInv
  <2> QED BY <2>1, <2>2, <2>3
<1>4. /\ \A j \in Slots : j # write_index_ => buf_'[j] = buf_[j]
      /\ buf_'[write_index_].body = Item /\ buf_'[write_index_].ctl = Item
      /\ buf_'[write_index_].cycle = 0
  BY <1>0, <1>1, <1>3 DEF Trb
<1>5. CommandTypes'
  BY <1>0, <1>1, <1>3 DEF CommandTypes, Trb, Bit
<1>6. StoreInv'
  BY <1>1, <1>2, <1>3, <1>4 DEF StoreInv
<1>7. /\ Reach = write_index_ /\ Phase = cycle_bit_
      /\ Ready = IF write_index_ < RingSize - 1 THEN issued - 1 ELSE issued
  BY <1>2 DEF Reach, Phase, Ready, LinkShown
<1>8. /\ Laid(buf_, Reach, Phase, Ready)
      /\ Follows(buf_, Reach, Phase, Ready, deq, ccs, Len(executed))
      /\ issued - Len(executed) =< RingSize - 2
  BY <1>0, Sizes DEF CommandInv
<1>9. buf_' \in [Slots -> Trb]
  BY <1>5 DEF CommandTypes
<1>10. /\ Laid(buf_', Reach', Phase', Ready')
       /\ Follows(buf_', Reach', Phase', Ready', deq, ccs, Len(executed))
  <2>1. CASE cycle_bit_ = 1
    <3>1. Reach' = Reach /\ Phase' = Phase /\ Ready' = Ready
      BY <1>1, <1>2, <1>7, <2>1 DEF Reach, Phase, Ready, LinkShown, Shown
    <3> HIDE DEF Reach, Phase, Ready
    <3>2. \A j \in Slots : buf_'[j].cycle = buf_[j].cycle
      <4>1. buf_[write_index_].cycle = 0
        BY <1>0, <1>7, <1>8, <2>1 DEF Laid, Slots
      <4> QED BY <1>4, <4>1
    <3>3. Laid(buf_', Reach, Phase, Ready)
      <4>1. \A j \in Slots : j < Reach => buf_'[j] = buf_[j]
        BY <1>0, <1>4, <1>7 DEF Slots
      <4> QED BY <1>8, <3>2, <4>1 DEF Laid
    <3>4. ccs # Phase => \A j \in Slots : j >= deq => buf_'[j] = buf_[j]
      BY <1>0, <1>4, <1>7, <1>8 DEF Follows, Slots
    <3>5. RingSize - 1 \in Slots /\ RingSize - 1 >= deq
      BY <1>0, Sizes DEF Slots
    <3>6. Follows(buf_', Reach, Phase, Ready, deq, ccs, Len(executed))
      BY <1>8, <3>4, <3>5 DEF Follows
    <3> QED BY <3>1, <3>3, <3>6
  <2>2. CASE cycle_bit_ = 0 /\ write_index_ < RingSize - 1
    <3>1. Reach' = Reach + 1 /\ Phase' = Phase /\ Ready' = Ready + 1 /\ Ready + 1 = issued
      BY <1>0, <1>1, <1>2, <1>7, <2>2 DEF Reach, Phase, Ready, LinkShown, Shown, Slots
    <3> HIDE DEF Reach, Phase, Ready
    <3>2. /\ \A j \in Slots : j # Reach => buf_'[j] = buf_[j]
          /\ buf_'[Reach].body = Ready + 1 /\ buf_'[Reach].ctl = Ready + 1
          /\ buf_'[Reach].cycle = Phase /\ Reach < RingSize - 1
          /\ Ready + 1 - Len(executed) =< RingSize - 2
      BY <1>0, <1>3, <1>4, <1>7, <1>8, <2>2, <3>1, Sizes
    <3>3. /\ Laid(buf_', Reach + 1, Phase, Ready + 1)
          /\ Follows(buf_', Reach + 1, Phase, Ready + 1, deq, ccs, Len(executed))
      BY <1>0, <1>8, <1>9, <3>2, ShowCommand
    <3> QED BY <3>1, <3>3
  <2>3. CASE cycle_bit_ = 0 /\ write_index_ = RingSize - 1
    <3>1. Reach' = 0 /\ Phase' = 1 - Phase /\ Ready' = Ready /\ Ready = issued
      BY <1>0, <1>1, <1>2, <1>7, <2>3, Sizes DEF Reach, Phase, Ready, LinkShown, Shown, Slots
    <3> HIDE DEF Reach, Phase, Ready
    <3>2. /\ \A j \in Slots : j # RingSize - 1 => buf_'[j] = buf_[j]
          /\ buf_'[RingSize - 1].ctl = Link /\ buf_'[RingSize - 1].cycle = Phase
          /\ Reach = RingSize - 1 /\ Ready - Len(executed) =< RingSize - 2
      <4>1. Item = Link
        BY <1>3, <2>3, Sizes
      <4>2. Ready - Len(executed) =< RingSize - 2
        BY <1>8, <3>1
      <4> QED BY <1>4, <1>7, <2>3, <4>1, <4>2
    <3>3. /\ Laid(buf_', 0, 1 - Phase, Ready)
          /\ Follows(buf_', 0, 1 - Phase, Ready, deq, ccs, Len(executed))
      BY <1>0, <1>8, <1>9, <3>2, ShowLink
    <3> QED BY <3>1, <3>3
  <2> QED BY <1>0, <2>1, <2>2, <2>3, Sizes DEF Bit, Slots
<1>11. CommandInv'
  BY <1>1, <1>10 DEF CommandInv
<1> QED BY <1>5, <1>6, <1>11

LEMMA CopyCycleKeeps ==
  ASSUME CommandTypes, StoreInv, CommandInv, CopyCycle
  PROVE  CommandTypes' /\ StoreInv' /\ CommandInv'
<1>0. /\ buf_ \in [Slots -> Trb] /\ write_index_ \in Slots /\ cycle_bit_ \in Bit
      /\ issued \in Nat /\ issued =< MaxCommands
      /\ deq \in Slots /\ ccs \in Bit /\ Len(executed) \in Nat
      /\ Ready \in Nat /\ Reach \in Slots /\ Phase \in Bit
  BY CommandFacts
<1>1. /\ pc = "cycle" /\ Copying
      /\ buf_' = [buf_ EXCEPT ![write_index_].cycle = cycle_bit_]
      /\ issued' = issued /\ deq' = deq /\ ccs' = ccs /\ executed' = executed
  BY DEF CopyCycle, xhcVars, Copying
<1>2. /\ Item = IF write_index_ < RingSize - 1 THEN issued ELSE Link
      /\ buf_[write_index_].body = Item /\ buf_[write_index_].ctl = Item
      /\ Item = Link <=> write_index_ = RingSize - 1
  <2>1. /\ Item = IF write_index_ < RingSize - 1 THEN issued ELSE Link
        /\ Item = Link <=> write_index_ = RingSize - 1
    BY <1>1, ItemIs
  <2>2. buf_[write_index_].body = Item /\ buf_[write_index_].ctl = Item
    BY <1>1 DEF StoreInv
  <2> QED BY <2>1, <2>2
<1>3. /\ \A j \in Slots : j # write_index_ => buf_'[j] = buf_[j]
      /\ buf_'[write_index_].body = Item /\ buf_'[write_index_].ctl = Item
      /\ buf_'[write_index_].cycle = cycle_bit_
      /\ buf_' \in [Slots -> Trb]
  BY <1>0, <1>1, <1>2 DEF Trb
<1>4. ASSUME write_index_ < RingSize - 1
      PROVE  /\ write_index_' = write_index_ + 1 /\ cycle_bit_' = cycle_bit_
             /\ IF write_index_ + 1 = RingSize - 1
                  THEN copying' = <<Link>> /\ pc' = "data012"
                  ELSE copying' = <<>> /\ pc' = "ring"
  BY <1>0, <1>2, <1>4, Sizes DEF CopyCycle, Slots
<1>5. ASSUME write_index_ = RingSize - 1
      PROVE  write_index_' = 0 /\ cycle_bit_' = 1 - cycle_bit_ /\ pc' = "ring"
  BY <1>2, <1>5 DEF CopyCycle
<1>6. write_index_' \in Slots /\ cycle_bit_' \in Bit
  BY <1>0, <1>4, <1>5, Sizes DEF Slots, Bit
<1>7. CommandTypes'
  BY <1>0, <1>1, <1>3, <1>6 DEF CommandTypes
<1>8. StoreInv'
  <2>1. CASE write_index_ < RingSize - 1 /\ write_index_ + 1 = RingSize - 1
    <3>1. write_index_' = RingSize - 1 /\ copying' = <<Link>> /\ pc' = "data012"
      BY <1>4, <2>1
    <3> QED BY <3>1, Sizes DEF StoreInv, Copying
  <2>2. CASE write_index_ < RingSize - 1 /\ write_index_ + 1 # RingSize - 1
    <3>1. write_index_' < RingSize - 1 /\ pc' = "ring"
      BY <1>0, <1>4, <2>2, Sizes DEF Slots
    <3> QED BY <3>1 DEF StoreInv, Copying
  <2>3. CASE write_index_ = RingSize - 1
    <3>1. write_index_' < RingSize - 1 /\ pc' = "ring"
      BY <1>5, <2>3, Sizes
    <3> QED BY <3>1 DEF StoreInv, Copying
  <2> QED BY <1>0, <2>1, <2>2, <2>3, Sizes DEF Slots
<1>9. /\ Laid(buf_, Reach, Phase, Ready)
      /\ Follows(buf_, Reach, Phase, Ready, deq, ccs, Len(executed))
      /\ issued - Len(executed) =< RingSize - 2
  BY <1>0, Sizes DEF CommandInv
<1>10. /\ Reach' = write_index_' /\ Phase' = cycle_bit_' /\ Ready' = issued
  <2>1. pc' \in {"data012", "ring"} /\ (pc' = "data012" => write_index_' = RingSize - 1)
    <3>1. CASE write_index_ < RingSize - 1
      BY <1>4, <3>1
    <3>2. CASE write_index_ = RingSize - 1
      BY <1>5, <3>2
    <3> QED BY <1>0, <3>1, <3>2, Sizes DEF Slots
  <2>2. ~Shown' /\ (Copying' => write_index_' = RingSize - 1)
    BY <2>1 DEF Shown, Copying
  <2>3. Ready' = issued
    BY <1>1, <2>2, Sizes DEF Ready
  <2> QED BY <2>2, <2>3 DEF Reach, Phase, LinkShown
<1>11. /\ Laid(buf_', Reach', Phase', Ready')
       /\ Follows(buf_', Reach', Phase', Ready', deq, ccs, Len(executed))
  <2>1. CASE cycle_bit_ = 0
    <3>1. Reach' = Reach /\ Phase' = Phase /\ Ready' = Ready
      <4>1. Shown /\ Ready = issued
        BY <1>1, <2>1 DEF Shown, Ready
      <4>2. CASE write_index_ < RingSize - 1
        <5>1. Reach = write_index_ + 1 /\ Phase = 0
          BY <1>0, <2>1, <4>1, <4>2, Sizes DEF Reach, Phase, LinkShown, Slots
        <5> QED BY <1>4, <1>10, <2>1, <4>1, <4>2, <5>1
      <4>3. CASE write_index_ = RingSize - 1
        <5>1. Reach = 0 /\ Phase = 1
          BY <4>1, <4>3 DEF Reach, Phase, LinkShown
        <5> QED BY <1>5, <1>10, <2>1, <4>1, <4>3, <5>1
      <4> QED BY <1>0, <4>2, <4>3, Sizes DEF Slots
    <3>2. buf_' = buf_
      <4>1. buf_[write_index_].cycle = 0
        BY <1>1 DEF StoreInv
      <4> QED BY <1>0, <1>1, <2>1, <4>1 DEF Trb
    <3> QED BY <1>9, <3>1, <3>2
  <2>2. CASE cycle_bit_ = 1 /\ write_index_ < RingSize - 1
    <3>1. /\ Reach = write_index_ /\ Phase = 1 /\ Ready + 1 = issued
          /\ Reach' = Reach + 1 /\ Phase' = Phase /\ Ready' = Ready + 1
      BY <1>0, <1>1, <1>4, <1>10, <2>2 DEF Reach, Phase, Ready, LinkShown, Shown
    <3> HIDE DEF Reach, Phase, Ready
    <3>2. /\ \A j \in Slots : j # Reach => buf_'[j] = buf_[j]
          /\ buf_'[Reach].body = Ready + 1 /\ buf_'[Reach].ctl = Ready + 1
          /\ buf_'[Reach].cycle = Phase /\ Reach < RingSize - 1
          /\ Ready + 1 - Len(executed) =< RingSize - 2
      BY <1>0, <1>2, <1>3, <1>9, <2>2, <3>1, Sizes
    <3>3. /\ Laid(buf_', Reach + 1, Phase, Ready + 1)
          /\ Follows(buf_', Reach + 1, Phase, Ready + 1, deq, ccs, Len(executed))
      BY <1>0, <1>3, <1>9, <3>2, ShowCommand
    <3> QED BY <3>1, <3>3
  <2>3. CASE cycle_bit_ = 1 /\ write_index_ = RingSize - 1
    <3>1. /\ Reach = RingSize - 1 /\ Phase = 1 /\ Ready = issued
          /\ Reach' = 0 /\ Phase' = 1 - Phase /\ Ready' = Ready
      BY <1>0, <1>1, <1>5, <1>10, <2>3 DEF Reach, Phase, Ready, LinkShown, Shown, Slots
    <3> HIDE DEF Reach, Phase, Ready
    <3>2. /\ \A j \in Slots : j # RingSize - 1 => buf_'[j] = buf_[j]
          /\ buf_'[RingSize - 1].ctl = Link /\ buf_'[RingSize - 1].cycle = Phase
          /\ Ready - Len(executed) =< RingSize - 2
      BY <1>0, <1>2, <1>3, <1>9, <2>3, <3>1, Sizes
    <3>3. /\ Laid(buf_', 0, 1 - Phase, Ready)
          /\ Follows(buf_', 0, 1 - Phase, Ready, deq, ccs, Len(executed))
      BY <1>0, <1>3, <1>9, <3>1, <3>2, ShowLink
    <3> QED BY <3>1, <3>3
  <2> QED BY <1>0, <2>1, <2>2, <2>3, Sizes DEF Bit, Slots
<1>12. CommandInv'
  BY <1>1, <1>11 DEF CommandInv
<1> QED BY <1>7, <1>8, <1>12

LEMMA ControllerCommandKeeps ==
  ASSUME CommandTypes, StoreInv, CommandInv, ControllerCommand
  PROVE  CommandTypes' /\ StoreInv' /\ CommandInv'
<1>0. /\ buf_ \in [Slots -> Trb] /\ issued \in Nat /\ issued =< MaxCommands
      /\ deq \in Slots /\ ccs \in Bit
      /\ executed \in Seq(Nat \X Nat) /\ Len(executed) \in Nat
      /\ Ready \in Nat /\ Ready =< issued /\ Reach \in Slots /\ Phase \in Bit
  BY CommandFacts
<1>1. /\ Own /\ buf_[deq].ctl # Link
      /\ executed' = Append(executed, <<buf_[deq].body, buf_[deq].ctl>>)
      /\ deq' = deq + 1 /\ ccs' = ccs
      /\ buf_' = buf_ /\ write_index_' = write_index_ /\ cycle_bit_' = cycle_bit_
      /\ copying' = copying /\ issued' = issued /\ pc' = pc
  BY DEF ControllerCommand, cmdVars
<1>2. /\ deq < RingSize - 1 /\ Len(executed) < Ready
      /\ buf_[deq].body = Len(executed) + 1 /\ buf_[deq].ctl = Len(executed) + 1
  BY <1>1, OwnIsNext
<1>3. /\ executed' \in Seq(Nat \X Nat) /\ Len(executed') = Len(executed) + 1
      /\ \A i \in 1 .. Len(executed') : executed'[i] = <<i, i>>
  <2>1. executed' = Append(executed, <<Len(executed) + 1, Len(executed) + 1>>)
    BY <1>1, <1>2
  <2> QED BY <1>0, <2>1 DEF CommandInv
<1>4. CommandTypes'
  BY <1>0, <1>1, <1>2, <1>3, Sizes DEF CommandTypes, Slots
<1>5. StoreInv'
  BY <1>1 DEF StoreInv, Copying, Item
<1>6. Reach' = Reach /\ Phase' = Phase /\ Ready' = Ready
  BY <1>1 DEF Reach, Phase, Ready, LinkShown, Shown, Copying
<1> HIDE DEF Reach, Phase, Ready
<1>7. /\ Laid(buf_, Reach, Phase, Ready)
      /\ Follows(buf_, Reach, Phase, Ready, deq, ccs, Len(executed))
  BY DEF CommandInv
<1>8. Follows(buf_, Reach, Phase, Ready, deq + 1, ccs, Len(executed) + 1)
  <2>1. ASSUME ccs = Phase
        PROVE  deq + 1 =< Reach /\ Ready - (Len(executed) + 1) = Reach - (deq + 1)
    <3>1. Ready - Len(executed) = Reach - deq
      BY <1>7, <2>1 DEF Follows
    <3> QED BY <1>0, <1>2, <3>1 DEF Slots
  <2>2. ASSUME ccs # Phase
        PROVE  /\ Reach < deq + 1
               /\ Ready - (Len(executed) + 1) = Reach + RingSize - 1 - (deq + 1)
               /\ buf_[RingSize - 1].ctl = Link
    <3>1. Reach < deq /\ Ready - Len(executed) = Reach + RingSize - 1 - deq
      BY <1>7, <2>2 DEF Follows
    <3> QED BY <1>0, <1>7, <2>2, <3>1, Sizes DEF Slots, Follows
  <2>3. ASSUME ccs # Phase, NEW j \in Slots, j >= deq + 1, j < RingSize - 1
        PROVE  /\ buf_[j].body = (Len(executed) + 1) + 1 + j - (deq + 1)
               /\ buf_[j].ctl = (Len(executed) + 1) + 1 + j - (deq + 1)
    <3>1. buf_[j].body = Len(executed) + 1 + j - deq /\ buf_[j].ctl = Len(executed) + 1 + j - deq
      BY <1>0, <1>7, <2>3 DEF Follows, Slots
    <3> QED BY <1>0, <3>1, Sizes DEF Slots
  <2> QED BY <2>1, <2>2, <2>3, Zenon DEF Follows
<1>9. issued - Len(executed') =< MaxOutstanding
  BY <1>0, <1>3, Sizes DEF CommandInv
<1>10. CommandInv'
  BY <1>1, <1>3, <1>6, <1>7, <1>8, <1>9 DEF CommandInv
<1> QED BY <1>4, <1>5, <1>10

LEMMA ControllerLinkKeeps ==
  ASSUME CommandTypes, StoreInv, CommandInv, ControllerLink
  PROVE  CommandTypes' /\ StoreInv' /\ CommandInv'
<1>0. /\ issued \in Nat /\ issued =< MaxCommands /\ deq \in Slots /\ ccs \in Bit
      /\ Len(executed) \in Nat
      /\ Ready \in Nat /\ Ready =< issued /\ Reach \in Slots /\ Phase \in Bit
  BY CommandFacts
<1>1. /\ Own /\ buf_[deq].ctl = Link /\ deq' = 0 /\ ccs' = 1 - ccs
      /\ executed' = executed
      /\ buf_' = buf_ /\ write_index_' = write_index_ /\ cycle_bit_' = cycle_bit_
      /\ copying' = copying /\ issued' = issued /\ pc' = pc
  BY DEF ControllerLink, cmdVars, cpuVars
<1>2. deq = RingSize - 1 /\ ccs # Phase
  <2>1. Len(executed) < Ready => Len(executed) + 1 # Link
    BY <1>0, Sizes DEF Link
  <2> QED BY <1>1, <2>1, OwnIsNext
<1>3. CommandTypes'
  BY <1>0, <1>1, Sizes DEF CommandTypes, Slots, Bit
<1>4. StoreInv'
  BY <1>1 DEF StoreInv, Copying, Item
<1>5. Reach' = Reach /\ Phase' = Phase /\ Ready' = Ready
  BY <1>1 DEF Reach, Phase, Ready, LinkShown, Shown, Copying
<1> HIDE DEF Reach, Phase, Ready
<1>6. /\ Laid(buf_, Reach, Phase, Ready)
      /\ Follows(buf_, Reach, Phase, Ready, deq, ccs, Len(executed))
  BY DEF CommandInv
<1>7. 1 - ccs = Phase
  BY <1>0, <1>2 DEF Bit
<1>8. 0 =< Reach /\ Ready - Len(executed) = Reach - 0
  <2>1. Ready - Len(executed) = Reach + RingSize - 1 - deq
    BY <1>2, <1>6 DEF Follows
  <2> QED BY <1>0, <1>2, <2>1, Sizes DEF Slots
<1>9. Follows(buf_, Reach, Phase, Ready, 0, 1 - ccs, Len(executed))
  BY <1>7, <1>8 DEF Follows
<1>10. CommandInv'
  BY <1>1, <1>5, <1>6, <1>9 DEF CommandInv
<1> QED BY <1>3, <1>4, <1>10

----
LEMMA InvStep == Inv /\ [RingsNext]_ringsVars => Inv'
<1> SUFFICES ASSUME Inv, [RingsNext]_ringsVars PROVE Inv'
  OBVIOUS
<1>0. CommandTypes /\ EventTypes /\ EventInv /\ StoreInv /\ CommandInv
  BY DEF Inv, TypeOK
<1>1. pc' \in {"boot", "loop", "test", "idle", "halted", "drain"} \/ Handling'
  BY DEF Inv, TypeOK, Handling, Copying, RingsNext, KernelThread, ControllerServes, ringsVars,
         cpuVars, EnableInterrupts, Cli, QueueIsEmpty, StiHlt, TakeMessage, Drained, OnEvent,
         CopyData, CopyControl, CopyCycle, RingDoorbell, Pop, IntHandlerXHCI, ControllerEvent,
         ControllerCommand, ControllerLink, ControllerIdle, Goto
<1>2. EventTypes' /\ EventInv'
  <2>1. CASE OnEvent
    BY <1>0, <2>1, OnEventKeepsEvents
  <2>2. CASE Pop
    BY <1>0, <2>2, PopKeepsEvents
  <2>3. CASE ControllerEvent \/ ControllerCommand
    <3>1. PostEvent /\ pc' = pc
      BY <2>3 DEF ControllerEvent, ControllerCommand
    <3> QED BY <1>0, <3>1, PostKeeps DEF Handling, Copying
  <2>4. CASE \/ EnableInterrupts \/ Cli \/ QueueIsEmpty \/ StiHlt \/ TakeMessage \/ Drained
             \/ CopyData \/ CopyControl \/ CopyCycle \/ RingDoorbell \/ IntHandlerXHCI
             \/ ControllerLink \/ ControllerIdle \/ UNCHANGED ringsVars
    <3>1. UNCHANGED evVars /\ (Handling' <=> Handling)
      BY <2>4 DEF EnableInterrupts, Cli, QueueIsEmpty, StiHlt, TakeMessage, Drained, CopyData,
         CopyControl, CopyCycle, RingDoorbell, IntHandlerXHCI, ControllerLink, ControllerIdle,
         ringsVars, cpuVars, Goto, Handling, Copying
    <3> QED BY <1>0, <3>1, EventQuiet
  <2> QED BY <2>1, <2>2, <2>3, <2>4 DEF RingsNext, KernelThread, ControllerServes
<1>3. CommandTypes' /\ StoreInv' /\ CommandInv'
  <2>1. CASE OnEvent /\ issued' = issued + 1
    BY <1>0, <2>1, OnEventKeepsCommands
  <2>2. CASE CopyData
    BY <1>0, <2>2, CopyDataKeeps
  <2>3. CASE CopyControl
    BY <1>0, <2>3, CopyControlKeeps
  <2>4. CASE CopyCycle
    BY <1>0, <2>4, CopyCycleKeeps
  <2>5. CASE ControllerCommand
    BY <1>0, <2>5, ControllerCommandKeeps
  <2>6. CASE ControllerLink
    BY <1>0, <2>6, ControllerLinkKeeps
  <2>7. CASE \/ EnableInterrupts \/ Cli \/ QueueIsEmpty \/ StiHlt \/ TakeMessage \/ Drained
             \/ (OnEvent /\ issued' # issued + 1) \/ RingDoorbell \/ Pop \/ IntHandlerXHCI
             \/ ControllerEvent \/ ControllerIdle \/ UNCHANGED ringsVars
    <3>1. UNCHANGED <<cmdVars, deq, ccs, executed>> /\ (pc' = pc \/ (~Copying /\ ~Copying'))
      BY <2>7 DEF EnableInterrupts, Cli, QueueIsEmpty, StiHlt, TakeMessage, Drained, OnEvent,
         RingDoorbell, Pop, IntHandlerXHCI, ControllerEvent, ControllerIdle,
         ringsVars, cpuVars, cmdVars, xhcVars, Goto, Copying
    <3> QED BY <1>0, <3>1, CommandQuiet
  <2> QED BY <2>1, <2>2, <2>3, <2>4, <2>5, <2>6, <2>7 DEF RingsNext, KernelThread, ControllerServes
<1> QED BY <1>1, <1>2, <1>3 DEF Inv, TypeOK

(* Commands are executed and events processed each once, in order and whole:
   Ring::Push, EventRing::Pop and the controller agree on the cycle bits for
   every size of the rings, as long as the driver has no more commands under
   way than RingSize - 2. *)
THEOREM RingsAlwaysInOrder == RingsSpec => []RingsInOrder
<1>1. Inv => RingsInOrder
  <2> SUFFICES ASSUME Inv PROVE RingsInOrder
    OBVIOUS
  <2>0. CommandTypes /\ EventTypes /\ EventInv /\ StoreInv /\ CommandInv
    BY DEF Inv, TypeOK
  <2>1. executed = [i \in 1 .. Len(executed) |-> <<i, i>>]
    <3>1. executed = [i \in 1 .. Len(executed) |-> executed[i]]
      BY <2>0 DEF CommandTypes
    <3>2. \A i \in 1 .. Len(executed) : executed[i] = <<i, i>>
      BY <2>0 DEF CommandInv
    <3> DEFINE n == Len(executed)
    <3> HIDE DEF n
    <3>3. [i \in 1 .. n |-> executed[i]] = [i \in 1 .. n |-> <<i, i>>]
      BY <3>2 DEF n
    <3> QED BY <3>1, <3>3 DEF n
  <2>2. Len(executed) =< issued
    <3>1. /\ Ready \in Nat /\ Ready =< issued /\ Reach \in Slots /\ deq \in Slots
          /\ Len(executed) \in Nat /\ issued \in Nat
      BY <2>0, CommandFacts
    <3>2. Follows(buf_, Reach, Phase, Ready, deq, ccs, Len(executed))
      BY <2>0 DEF CommandInv
    <3> HIDE DEF Ready, Reach, Phase
    <3> QED BY <3>1, <3>2, Sizes DEF Follows, Slots
  <2>3. seen = [i \in 1 .. Len(seen) |-> i]
    BY <2>0 DEF EventTypes, EventInv
  <2>4. Len(seen) =< posted
    <3>1. CASE Handling
      BY <2>0, <3>1, FrontIsNext DEF EventInv, EventTypes, Popped
    <3>2. CASE ~Handling
      BY <2>0, <3>2, Sizes DEF EventInv, EventTypes, EventSlots, Popped
    <3> QED BY <3>1, <3>2
  <2> QED BY <2>1, <2>2, <2>3, <2>4 DEF RingsInOrder
<1> QED BY <1>1, InvInit, InvStep, PTL DEF RingsSpec

====
