---- MODULE Frames_proofs ----
(***************************************************************************)
(* The frame manager's promises, for every memory map, every number of     *)
(* frames and every sequence of requests.                                  *)
(***************************************************************************)
EXTENDS Frames, TLAPS

Index == 1 .. Len(memoryMap)
Avail(f, k) == memoryMap[k].avail /\ f \in FramesOf(memoryMap[k])

TypeOK ==
  /\ stage \in {"off", "scan", "ready", "search"}
  /\ memoryMap \in Seq(Descriptor) /\ WellFormed(memoryMap)
  /\ iter \in Nat \ {0} /\ available_end \in Nat
  /\ range_begin_ \in Nat /\ range_end_ \in Nat
  /\ num_frames \in Nat /\ start_frame_id \in Nat

(* While the loop runs: a clear bit below available_end is a frame of an
   available region already met, and in a sorted map no frame of an available
   region is marked. *)
Scanned ==
  /\ \A f \in Nat : f < available_end /\ f \notin alloc_map_ =>
                      \E k \in Index : k < iter /\ Avail(f, k)
  /\ Sorted(memoryMap) =>
       \A k \in Index : \A f \in Nat : Avail(f, k) =>
         f \notin alloc_map_ /\ (k < iter => f < available_end)

(* Afterwards: the same of the range, but for the live allocations. *)
Managed ==
  /\ range_begin_ = 1
  /\ \A f \in Nat : f < range_end_ /\ f \notin alloc_map_ => \E k \in Index : Avail(f, k)
  /\ \A run \in live : \A f \in run : /\ f \in Nat \ {0} /\ f < range_end_ /\ f \in alloc_map_
                                      /\ \E k \in Index : Avail(f, k)
  /\ \A a, b \in live : a # b => a \cap b = {}
  /\ Sorted(memoryMap) =>
       \A k \in Index : \A f \in 1 .. FrameCount - 1 : Avail(f, k) =>
         (f < range_end_ /\ f \notin alloc_map_) \/ f \in UNION live

Searching == \A s \in range_begin_ .. start_frame_id - 1 : ~ FreeRun(s, num_frames)
NoneFree == \A s \in range_begin_ .. range_end_ - 1 : ~ FreeRun(s, num_frames)

Inv ==
  /\ TypeOK
  /\ stage \in {"off", "scan"} => live = {}
  /\ stage = "scan" => Scanned
  /\ stage \in {"ready", "search"} => Managed
  /\ stage = "search" => start_frame_id >= 1 /\ Searching
  /\ refused => stage = "ready" /\ NoneFree

(* A region's frames, as numbers. *)
LEMMA InRegion ==
  ASSUME NEW d \in Descriptor, NEW f
  PROVE  f \in FramesOf(d) <=> f \in Nat /\ d.start <= f /\ f < d.start + d.pages
BY DEF Descriptor, FramesOf

LEMMA Entry ==
  ASSUME memoryMap \in Seq(Descriptor), NEW k \in Index
  PROVE  memoryMap[k] \in Descriptor /\ memoryMap[k].start \in Nat /\ memoryMap[k].pages \in Nat
<1>1. memoryMap[k] \in Descriptor
  BY DEF Index
<1>2. QED
  BY <1>1 DEF Descriptor

(* In a sorted map an earlier region ends where a later one begins. *)
LEMMA SortedApart ==
  ASSUME memoryMap \in Seq(Descriptor), WellFormed(memoryMap), Sorted(memoryMap),
         NEW k \in Index, NEW j \in Index, k < j
  PROVE  memoryMap[k].start + memoryMap[k].pages <= memoryMap[j].start
<1>1. memoryMap[k] \in Descriptor /\ memoryMap[j] \in Descriptor
  BY Entry
<1>2. memoryMap[k].start \in Nat /\ memoryMap[k].pages \in Nat /\ memoryMap[j].start \in Nat /\ memoryMap[j].pages \in Nat
  BY Entry
<1>3. memoryMap[k].start <= memoryMap[j].start /\ memoryMap[j].pages > 0
  BY DEF Sorted, WellFormed, Index
<1>4. memoryMap[j].start \in FramesOf(memoryMap[j])
  BY <1>1, <1>2, <1>3, InRegion
<1>5. memoryMap[j].start \notin FramesOf(memoryMap[k])
  <2>1. k # j /\ k \in 1 .. Len(memoryMap) /\ j \in 1 .. Len(memoryMap)
    BY DEF Index
  <2>2. FramesOf(memoryMap[k]) \cap FramesOf(memoryMap[j]) = {}
    BY <2>1, Zenon DEF WellFormed
  <2>3. QED
    BY <1>4, <2>2
<1>6. ~ (memoryMap[k].start <= memoryMap[j].start
         /\ memoryMap[j].start < memoryMap[k].start + memoryMap[k].pages)
  BY <1>1, <1>2, <1>5, InRegion, Zenon
<1>7. QED
  BY <1>2, <1>3, <1>6

LEMMA FramesInitInv == FramesInit => Inv
<1> SUFFICES ASSUME FramesInit PROVE Inv
  OBVIOUS
<1>1. memoryMap \in Seq(Descriptor) /\ Len(memoryMap) = 0
  BY DEF FramesInit
<1>2. WellFormed(memoryMap)
  BY <1>1 DEF WellFormed
<1>3. TypeOK
  BY <1>1, <1>2, FramesAssumption DEF FramesInit, TypeOK
<1>4. stage = "off" /\ live = {} /\ refused = FALSE
  BY DEF FramesInit
<1>5. QED
  BY <1>3, <1>4 DEF Inv

LEMMA StartInv ==
  ASSUME Inv, NEW map \in Maps, StartKernel(map)
  PROVE  Inv'
<1>1. TypeOK'
  BY FramesAssumption DEF Inv, TypeOK, StartKernel, Maps
<1>2. live' = {} /\ iter' = 1 /\ available_end' = 0 /\ stage' = "scan" /\ ~ refused'
  BY DEF Inv, StartKernel
<1>3. Scanned'
  BY <1>2 DEF Scanned, Index, StartKernel
<1>4. QED
  BY <1>1, <1>2, <1>3 DEF Inv

LEMMA ScanInv ==
  ASSUME Inv, ScanDescriptor
  PROVE  Inv'
<1> DEFINE d == memoryMap[iter]
<1>1. /\ stage = "scan" /\ stage' = "scan" /\ iter \in Index /\ iter' = iter + 1
      /\ memoryMap' = memoryMap /\ live' = {} /\ ~ refused'
      /\ alloc_map_' = alloc_map_ \cup GapBefore(d) \cup (IF d.avail THEN {} ELSE FramesOf(d))
      /\ available_end' = IF d.avail THEN d.start + d.pages ELSE available_end
  BY DEF Inv, TypeOK, ScanDescriptor, Index
<1>2. memoryMap \in Seq(Descriptor) /\ WellFormed(memoryMap) /\ iter \in Nat \ {0} /\ available_end \in Nat
      /\ Scanned /\ Index' = Index
  BY <1>1 DEF Inv, TypeOK, Index
<1>3. d \in Descriptor /\ d.start \in Nat /\ d.pages \in Nat
  BY <1>1, <1>2, Entry
<1>4. TypeOK'
  <2>1. iter' \in Nat \ {0} /\ available_end' \in Nat
    <3> HIDE DEF d
    <3>1. iter' = iter + 1 /\ available_end' = IF d.avail THEN d.start + d.pages ELSE available_end
      BY <1>1
    <3>2. iter \in Nat \ {0} /\ available_end \in Nat /\ d.start \in Nat /\ d.pages \in Nat
      BY <1>2, <1>3
    <3>3. QED
      BY <3>1, <3>2
  <2>2. /\ range_begin_' = range_begin_ /\ range_end_' = range_end_
        /\ num_frames' = num_frames /\ start_frame_id' = start_frame_id
    BY DEF ScanDescriptor
  <2>3. QED
    BY <1>1, <1>2, <2>1, <2>2 DEF Inv, TypeOK
<1>5. ASSUME NEW f, NEW k \in Index
      PROVE  Avail(f, k)' <=> Avail(f, k)
  BY <1>1 DEF Avail
<1>6. ASSUME NEW f \in Nat, f < available_end', f \notin alloc_map_'
      PROVE  \E k \in Index : k < iter' /\ Avail(f, k)
  <2>1. CASE d.avail /\ d.start <= f
    <3>1. Avail(f, iter)
      BY <1>1, <1>3, <1>6, <2>1, InRegion DEF Avail
    <3>2. QED
      BY <1>1, <1>2, <3>1
  <2>2. CASE ~ (d.avail /\ d.start <= f)
    <3>1. f \notin alloc_map_ /\ f \notin GapBefore(d)
      BY <1>1, <1>6
    <3>2. f < available_end
      BY <1>1, <1>2, <1>3, <1>6, <2>2, <3>1 DEF GapBefore
    <3>3. PICK k \in Index : k < iter /\ Avail(f, k)
      BY <1>2, <3>1, <3>2 DEF Scanned
    <3>4. QED
      BY <1>1, <1>2, <3>3 DEF Index
  <2>3. QED
    BY <2>1, <2>2
<1>7. ASSUME Sorted(memoryMap), NEW k \in Index, NEW f \in Nat, Avail(f, k)
      PROVE  f \notin alloc_map_' /\ (k < iter' => f < available_end')
  <2>0. k \in Nat /\ memoryMap[k] \in Descriptor /\ memoryMap[k].start \in Nat /\ memoryMap[k].pages \in Nat
    BY <1>2, Entry DEF Index
  <2>1. memoryMap[k].start <= f /\ f < memoryMap[k].start + memoryMap[k].pages
    BY <1>7, <2>0, InRegion DEF Avail
  <2>2. f \notin alloc_map_ /\ (k < iter => f < available_end)
    BY <1>2, <1>7 DEF Scanned
  <2>3. CASE k = iter
    <3>1. d.avail /\ d.start <= f /\ f < d.start + d.pages
      BY <1>7, <2>1, <2>3 DEF Avail
    <3>2. f \notin GapBefore(d) /\ f < available_end'
      BY <1>1, <1>3, <3>1 DEF GapBefore
    <3>3. QED
      BY <1>1, <2>2, <3>1, <3>2
  <2>4. CASE k < iter
    <3>1. f < d.start
      <4>1. memoryMap[k].start + memoryMap[k].pages <= d.start
        BY <1>1, <1>2, <1>7, <2>4, SortedApart, Zenon
      <4>2. QED
        BY <1>3, <2>0, <2>1, <4>1
    <3>2. f \notin GapBefore(d) /\ f \notin FramesOf(d)
      BY <1>2, <1>3, <2>2, <2>4, <3>1, InRegion DEF GapBefore
    <3>3. QED
      BY <1>1, <1>3, <2>2, <2>4, <3>1, <3>2
  <2>5. CASE iter < k
    <3>1. d.start + d.pages <= f
      <4>1. d.start + d.pages <= memoryMap[k].start
        BY <1>1, <1>2, <1>7, <2>5, SortedApart, Zenon
      <4>2. QED
        BY <1>3, <2>0, <2>1, <4>1
    <3>2. f \notin GapBefore(d) /\ f \notin FramesOf(d)
      BY <1>2, <1>3, <3>1, InRegion DEF GapBefore
    <3>3. QED
      BY <1>1, <1>2, <2>0, <2>2, <2>5, <3>2
  <2>6. QED
    BY <1>2, <2>0, <2>3, <2>4, <2>5
<1>8. Scanned'
  BY <1>1, <1>2, <1>5, <1>6, <1>7 DEF Scanned
<1>9. QED
  BY <1>1, <1>4, <1>8 DEF Inv

LEMMA ScanDoneInv ==
  ASSUME Inv, ScanDone
  PROVE  Inv'
<1>1. /\ stage = "scan" /\ stage' = "ready" /\ range_begin_' = 1 /\ range_end_' = available_end
      /\ memoryMap' = memoryMap /\ alloc_map_' = alloc_map_ /\ live' = {} /\ ~ refused'
      /\ iter <= Len(memoryMap) => memoryMap[iter].start > FrameCount
  BY DEF Inv, ScanDone
<1>2. memoryMap \in Seq(Descriptor) /\ iter \in Nat \ {0} /\ available_end \in Nat
      /\ Scanned /\ Index' = Index
  BY <1>1 DEF Inv, TypeOK, Index
<1>3. TypeOK'
  BY <1>1, <1>2 DEF Inv, TypeOK, ScanDone
<1>4. ASSUME NEW f, NEW k \in Index
      PROVE  Avail(f, k)' <=> Avail(f, k)
  BY <1>1 DEF Avail
<1>5. ASSUME NEW f \in Nat, f < available_end, f \notin alloc_map_
      PROVE  \E k \in Index : Avail(f, k)
  BY <1>2, <1>5 DEF Scanned
<1>6. ASSUME Sorted(memoryMap), NEW k \in Index, NEW f \in 1 .. FrameCount - 1, Avail(f, k)
      PROVE  f < available_end /\ f \notin alloc_map_
  <2>1. k \in 1 .. Len(memoryMap) /\ f \in Nat /\ f < FrameCount /\ FrameCount \in Nat
    BY FramesAssumption DEF Index
  <2>2. f \notin alloc_map_ /\ (k < iter => f < available_end)
    BY <1>2, <1>6, <2>1 DEF Scanned
  <2>3. ASSUME iter <= k
        PROVE  FALSE
    <3>1. iter \in Index /\ iter <= Len(memoryMap)
      BY <1>2, <2>1, <2>3 DEF Index
    <3>2. memoryMap[k] \in Descriptor /\ memoryMap[k].start \in Nat /\ memoryMap[k].pages \in Nat
          /\ memoryMap[iter].start \in Nat
      BY <1>2, <3>1, Entry
    <3>3. memoryMap[iter].start <= memoryMap[k].start
      BY <1>2, <1>6, <2>1, <2>3, <3>1, <3>2 DEF Sorted, Index
    <3>4. memoryMap[k].start <= f
      BY <1>6, <3>2, InRegion DEF Avail
    <3>5. QED
      BY <1>1, <2>1, <3>1, <3>2, <3>3, <3>4
  <2>4. QED
    BY <1>2, <2>1, <2>2, <2>3
<1>7. Managed'
  BY <1>1, <1>2, <1>4, <1>5, <1>6 DEF Managed
<1>8. QED
  BY <1>1, <1>3, <1>7 DEF Inv

(* What Managed says does not depend on the request or on the search. *)
LEMMA ManagedKept ==
  ASSUME Managed, UNCHANGED <<memoryMap, alloc_map_, range_begin_, range_end_, live>>
  PROVE  Managed'
BY DEF Managed, Index, Avail, Sorted

LEMMA AllocateInv ==
  ASSUME Inv, NEW n \in 0 .. MaxRequest, Allocate(n)
  PROVE  Inv'
<1>1. stage = "ready" /\ stage' = "search" /\ start_frame_id' = range_begin_ /\ ~ refused'
      /\ range_begin_' = range_begin_ /\ range_begin_ \in Nat
  BY DEF Allocate, Inv, TypeOK
<1>2. TypeOK'
  BY <1>1, FramesAssumption DEF Inv, TypeOK, Allocate
<1>3. Managed'
  BY <1>1, ManagedKept DEF Inv, Allocate
<1>4. start_frame_id' >= 1
  BY <1>1, <1>3 DEF Managed
<1>5. Searching'
  BY <1>1 DEF Searching
<1>6. QED
  BY <1>1, <1>2, <1>3, <1>4, <1>5 DEF Inv

(* A run that takes in a frame that is occupied or outside is not free. *)
LEMMA NotFree ==
  ASSUME NEW s \in Nat, NEW n \in Nat, NEW f \in Nat, s <= f, f < s + n,
         f >= range_end_ \/ f \in alloc_map_, range_end_ \in Nat, range_begin_ \in Nat
  PROVE  ~ FreeRun(s, n)
<1>1. f \in Run(s, n)
  BY DEF Run
<1>2. f \notin Allocatable
  BY DEF Allocatable
<1>3. QED
  BY <1>1, <1>2 DEF FreeRun

LEMMA SearchFailsInv ==
  ASSUME Inv, SearchFails
  PROVE  Inv'
<1>1. stage = "search" /\ stage' = "ready" /\ Searching /\ Managed /\ TypeOK
  BY DEF SearchFails, Inv
<1>2. TypeOK'
  BY <1>1 DEF TypeOK, SearchFails
<1>3. Managed'
  BY <1>1, ManagedKept DEF SearchFails
<1>4. PICK i \in 0 .. num_frames - 1 : StopsAt(i) /\ Outside(i)
  BY DEF SearchFails
<1>5. /\ i \in Nat /\ i < num_frames /\ start_frame_id + i >= range_end_
      /\ num_frames \in Nat /\ start_frame_id \in Nat /\ range_end_ \in Nat /\ range_begin_ \in Nat
  BY <1>1, <1>4 DEF Outside, TypeOK
<1>6. NoneFree
  <2> SUFFICES ASSUME NEW s \in range_begin_ .. range_end_ - 1
               PROVE  ~ FreeRun(s, num_frames)
    BY DEF NoneFree
  <2>1. s \in Nat /\ s < range_end_ /\ range_begin_ <= s
    BY <1>5
  <2>2. CASE s < start_frame_id
    <3>1. s \in range_begin_ .. start_frame_id - 1
      BY <1>5, <2>1, <2>2
    <3>2. QED
      BY <1>1, <3>1 DEF Searching
  <2>3. CASE start_frame_id <= s
    <3>1. start_frame_id + i \in Nat /\ s <= start_frame_id + i /\ start_frame_id + i < s + num_frames
      BY <1>5, <2>1, <2>3
    <3>2. QED
      BY <1>5, <2>1, <3>1, NotFree
  <2>4. QED
    BY <1>5, <2>1, <2>2, <2>3
<1>7. NoneFree'
  BY <1>6 DEF NoneFree, SearchFails, FreeRun, Run, Allocatable
<1>8. QED
  BY <1>1, <1>2, <1>3, <1>7 DEF Inv

LEMMA SearchOnInv ==
  ASSUME Inv, SearchOn
  PROVE  Inv'
<1>1. stage = "search" /\ stage' = "search" /\ Searching /\ Managed /\ TypeOK /\ ~ refused' /\ start_frame_id >= 1
  BY DEF SearchOn, Inv
<1>2. PICK i \in 0 .. num_frames - 1 : /\ StopsAt(i) /\ ~ Outside(i)
                                       /\ start_frame_id' = start_frame_id + i + 1
  BY DEF SearchOn
<1>3. /\ i \in Nat /\ i < num_frames /\ start_frame_id + i \in alloc_map_
      /\ num_frames \in Nat /\ start_frame_id \in Nat /\ range_end_ \in Nat /\ range_begin_ \in Nat
  BY <1>1, <1>2 DEF StopsAt, Occupied, TypeOK
<1>4. TypeOK' /\ start_frame_id' >= 1
  BY <1>1, <1>2, <1>3 DEF TypeOK, SearchOn
<1>5. Managed'
  BY <1>1, ManagedKept DEF SearchOn
<1>6. ASSUME NEW s \in range_begin_ .. start_frame_id + i
      PROVE  ~ FreeRun(s, num_frames)
  <2>1. s \in Nat /\ s <= start_frame_id + i /\ range_begin_ <= s
    BY <1>3
  <2>2. CASE s < start_frame_id
    <3>1. s \in range_begin_ .. start_frame_id - 1
      BY <1>3, <2>1, <2>2
    <3>2. QED
      BY <1>1, <3>1 DEF Searching
  <2>3. CASE start_frame_id <= s
    <3>1. start_frame_id + i \in Nat /\ start_frame_id + i < s + num_frames
      BY <1>3, <2>1, <2>3
    <3>2. QED
      BY <1>3, <2>1, <3>1, NotFree
  <2>4. QED
    BY <1>3, <2>1, <2>2, <2>3
<1>7. Searching'
  <2>1. start_frame_id' - 1 = start_frame_id + i
    BY <1>2, <1>3
  <2>2. QED
    BY <1>6, <2>1 DEF Searching, SearchOn, FreeRun, Run, Allocatable
<1>8. QED
  BY <1>1, <1>4, <1>5, <1>7 DEF Inv

LEMMA SearchFindsInv ==
  ASSUME Inv, SearchFinds
  PROVE  Inv'
<1> DEFINE new == Run(start_frame_id, num_frames)
<1>1. /\ stage = "search" /\ stage' = "ready" /\ Managed /\ TypeOK /\ ~ refused' /\ start_frame_id >= 1
      /\ alloc_map_' = alloc_map_ \cup new /\ live' = live \cup {new}
      /\ memoryMap' = memoryMap /\ Index' = Index /\ range_end_' = range_end_ /\ range_begin_' = range_begin_
  BY DEF SearchFinds, Inv, Index
<1>2. TypeOK'
  BY <1>1 DEF TypeOK, SearchFinds
<1>3. ASSUME NEW f, NEW k \in Index
      PROVE  Avail(f, k)' <=> Avail(f, k)
  BY <1>1 DEF Avail
<1>4. ASSUME NEW f \in new
      PROVE  /\ f \in Nat \ {0} /\ f < range_end_ /\ f \notin alloc_map_
             /\ \E k \in Index : Avail(f, k)
  <2>1. f \in Nat /\ start_frame_id <= f /\ f < start_frame_id + num_frames
        /\ start_frame_id \in Nat /\ num_frames \in Nat /\ range_end_ \in Nat
    BY <1>1 DEF Run, TypeOK
  <2>2. f - start_frame_id \in 0 .. num_frames - 1 /\ start_frame_id + (f - start_frame_id) = f
    BY <2>1
  <2>3. ~ Outside(f - start_frame_id) /\ ~ Occupied(f - start_frame_id)
    BY <2>2 DEF SearchFinds
  <2>4. f < range_end_ /\ f \notin alloc_map_
    BY <2>1, <2>2, <2>3 DEF Outside, Occupied
  <2>5. QED
    BY <1>1, <2>1, <2>4 DEF Managed
<1> HIDE DEF new
<1>5. ASSUME NEW run \in live', NEW f \in run
      PROVE  /\ f \in Nat \ {0} /\ f < range_end_ /\ f \in alloc_map_'
             /\ \E k \in Index : Avail(f, k)
  <2>1. CASE run = new
    BY <1>1, <1>4, <2>1
  <2>2. CASE run \in live
    BY <1>1, <2>2 DEF Managed
  <2>3. QED
    BY <1>1, <2>1, <2>2
<1>6. ASSUME NEW a \in live', NEW b \in live', a # b
      PROVE  a \cap b = {}
  <2>1. ASSUME NEW c \in live PROVE c \cap new = {}
    BY <1>1, <1>4 DEF Managed
  <2>2. ASSUME a \in live, b \in live PROVE a \cap b = {}
    BY <1>1, <1>6, <2>2 DEF Managed
  <2>3. QED
    BY <1>1, <1>6, <2>1, <2>2
<1>7. ASSUME Sorted(memoryMap), NEW k \in Index, NEW f \in 1 .. FrameCount - 1, Avail(f, k)
      PROVE  (f < range_end_ /\ f \notin alloc_map_') \/ f \in UNION live'
  <2>1. (f < range_end_ /\ f \notin alloc_map_) \/ f \in UNION live
    BY <1>1, <1>7 DEF Managed
  <2>2. QED
    BY <1>1, <2>1
<1>8. ASSUME NEW f \in Nat, f < range_end_, f \notin alloc_map_'
      PROVE  \E k \in Index : Avail(f, k)
  BY <1>1, <1>8 DEF Managed
<1>9. Managed'
  BY <1>1, <1>3, <1>5, <1>6, <1>7, <1>8 DEF Managed
<1>10. QED
  BY <1>1, <1>2, <1>9 DEF Inv

LEMMA FreeInv ==
  ASSUME Inv, NEW run \in live, Free(run)
  PROVE  Inv'
<1>1. /\ stage = "ready" /\ stage' = "ready" /\ Managed /\ TypeOK /\ ~ refused'
      /\ alloc_map_' = alloc_map_ \ run /\ live' = live \ {run}
      /\ memoryMap' = memoryMap /\ Index' = Index /\ range_end_' = range_end_ /\ range_begin_' = range_begin_
  BY DEF Free, Inv, Index
<1>2. TypeOK'
  BY <1>1 DEF TypeOK, Free
<1>3. ASSUME NEW f, NEW k \in Index
      PROVE  Avail(f, k)' <=> Avail(f, k)
  BY <1>1 DEF Avail
<1>4. ASSUME NEW f \in run
      PROVE  f < range_end_ /\ f \notin alloc_map_' /\ \E k \in Index : Avail(f, k)
  BY <1>1 DEF Managed
<1>5. ASSUME NEW a \in live', NEW f \in a
      PROVE  /\ f \in Nat \ {0} /\ f < range_end_ /\ f \in alloc_map_'
             /\ \E k \in Index : Avail(f, k)
  <2>1. a \in live /\ a # run
    BY <1>1
  <2>2. a \cap run = {}
    BY <1>1, <2>1 DEF Managed
  <2>3. QED
    BY <1>1, <2>1, <2>2 DEF Managed
<1>6. ASSUME NEW f \in Nat, f < range_end_, f \notin alloc_map_'
      PROVE  \E k \in Index : Avail(f, k)
  <2>1. CASE f \in run
    BY <1>4, <2>1
  <2>2. CASE f \notin run
    BY <1>1, <1>6, <2>2 DEF Managed
  <2>3. QED
    BY <2>1, <2>2
<1>7. ASSUME Sorted(memoryMap), NEW k \in Index, NEW f \in 1 .. FrameCount - 1, Avail(f, k)
      PROVE  (f < range_end_ /\ f \notin alloc_map_') \/ f \in UNION live'
  <2>1. (f < range_end_ /\ f \notin alloc_map_) \/ f \in UNION live
    BY <1>1, <1>7 DEF Managed
  <2>2. CASE f \in run
    BY <1>4, <2>2
  <2>3. CASE f \notin run
    BY <1>1, <2>1, <2>3
  <2>4. QED
    BY <2>2, <2>3
<1>8. \A a, b \in live' : a # b => a \cap b = {}
  BY <1>1 DEF Managed
<1>9. Managed'
  BY <1>1, <1>3, <1>5, <1>6, <1>7, <1>8 DEF Managed
<1>10. QED
  BY <1>1, <1>2, <1>9 DEF Inv

LEMMA StutterInv ==
  ASSUME Inv, UNCHANGED framesVars
  PROVE  Inv'
<1>1. UNCHANGED <<stage, memoryMap, iter, available_end, alloc_map_, range_begin_,
                  range_end_, num_frames, start_frame_id, refused, live>>
  BY DEF framesVars
<1>2. TypeOK'
  BY <1>1 DEF Inv, TypeOK
<1>3. Scanned => Scanned'
  BY <1>1 DEF Scanned, Index, Avail, Sorted
<1>4. Managed => Managed'
  BY <1>1, ManagedKept
<1>5. (Searching => Searching') /\ (NoneFree => NoneFree')
  BY <1>1 DEF Searching, NoneFree, FreeRun, Run, Allocatable
<1>6. QED
  BY <1>1, <1>2, <1>3, <1>4, <1>5 DEF Inv

LEMMA FramesStepInv ==
  ASSUME Inv, [(\E map \in Maps : StartKernel(map)) \/ FramesNext]_framesVars
  PROVE  Inv'
<1>1. CASE \E map \in Maps : StartKernel(map)
  BY <1>1, StartInv
<1>2. CASE ScanDescriptor
  BY <1>2, ScanInv
<1>3. CASE ScanDone
  BY <1>3, ScanDoneInv
<1>4. CASE \E n \in 0 .. MaxRequest : Allocate(n)
  BY <1>4, AllocateInv
<1>5. CASE SearchFails
  BY <1>5, SearchFailsInv
<1>6. CASE SearchOn
  BY <1>6, SearchOnInv
<1>7. CASE SearchFinds
  BY <1>7, SearchFindsInv
<1>8. CASE \E run \in live : Free(run)
  BY <1>8, FreeInv
<1>9. CASE UNCHANGED framesVars
  BY <1>9, StutterInv
<1>10. QED
  BY <1>1, <1>2, <1>3, <1>4, <1>5, <1>6, <1>7, <1>8, <1>9 DEF FramesNext

LEMMA FramesInv == FramesSpec => []Inv
<1>1. QED
  BY FramesInitInv, FramesStepInv, PTL DEF FramesSpec

LEMMA InvOwned == Inv => FramesOwned
<1> SUFFICES ASSUME Inv, stage \in {"ready", "search"}
             PROVE  /\ Allocatable \cup (UNION live) \subseteq (Usable \ Unusable) \ {0}
                    /\ (UNION live) \cap Allocatable = {}
                    /\ \A a, b \in live : a # b => a \cap b = {}
  BY DEF FramesOwned
<1>1. Managed /\ WellFormed(memoryMap) /\ range_end_ \in Nat
  BY DEF Inv, TypeOK
<1>2. ASSUME NEW f, NEW k \in Index, Avail(f, k)
      PROVE  f \in Usable \ Unusable
  <2>1. f \in Usable
    BY <1>2 DEF Usable, Avail, Index
  <2>2. ASSUME NEW j \in 1 .. Len(memoryMap), ~ memoryMap[j].avail, f \in FramesOf(memoryMap[j])
        PROVE  FALSE
    <3>1. j # k /\ k \in 1 .. Len(memoryMap) /\ f \in FramesOf(memoryMap[k])
      BY <1>2, <2>2 DEF Avail, Index
    <3>2. FramesOf(memoryMap[j]) \cap FramesOf(memoryMap[k]) = {}
      BY <1>1, <3>1, Zenon DEF WellFormed
    <3>3. QED
      BY <2>2, <3>1, <3>2
  <2>3. f \notin Unusable
    BY <2>2 DEF Unusable
  <2>4. QED
    BY <2>1, <2>3
<1>3. ASSUME NEW f \in Allocatable
      PROVE  f \in (Usable \ Unusable) \ {0}
  <2>1. f \in Nat /\ f >= 1 /\ f < range_end_ /\ f \notin alloc_map_
    BY <1>1 DEF Allocatable, Managed
  <2>2. PICK k \in Index : Avail(f, k)
    BY <1>1, <2>1 DEF Managed
  <2>3. QED
    BY <1>2, <2>1, <2>2
<1>4. ASSUME NEW f \in UNION live
      PROVE  f \in (Usable \ Unusable) \ {0} /\ f \notin Allocatable
  <2>1. f \in Nat \ {0} /\ f \in alloc_map_ /\ \E k \in Index : Avail(f, k)
    BY <1>1 DEF Managed
  <2>2. QED
    BY <1>2, <2>1 DEF Allocatable
<1>5. QED
  BY <1>1, <1>3, <1>4 DEF Managed

LEMMA InvNothingLost == Inv => NothingLost
<1> SUFFICES ASSUME Inv, stage \in {"ready", "search"}, Sorted(memoryMap),
                    NEW f \in Usable, f \in 1 .. FrameCount - 1
             PROVE  f \in Allocatable \cup (UNION live)
  BY DEF NothingLost
<1>1. PICK k \in Index : Avail(f, k)
  BY DEF Usable, Avail, Index
<1>2. Managed /\ range_end_ \in Nat
  BY DEF Inv, TypeOK
<1>3. (f < range_end_ /\ f \notin alloc_map_) \/ f \in UNION live
  BY <1>1, <1>2 DEF Managed
<1>4. QED
  BY <1>2, <1>3, FramesAssumption DEF Allocatable, Managed

LEMMA InvSearchExact == Inv => SearchExact
BY DEF Inv, SearchExact, Searching, NoneFree

(***************************************************************************)
(* Whatever memory map the firmware returns, in whatever order, Allocate   *)
(* gives out frames the map describes as available only, never frame 0,    *)
(* and each of them once until it is freed.                                *)
(***************************************************************************)
THEOREM FramesAlwaysOwned == FramesSpec => []FramesOwned
<1>1. QED
  BY FramesInv, InvOwned, PTL

(***************************************************************************)
(* The loop over a sorted map and Allocate and Free lose no available      *)
(* frame below the limit.                                                  *)
(***************************************************************************)
THEOREM FramesNeverLost == FramesSpec => []NothingLost
<1>1. QED
  BY FramesInv, InvNothingLost, PTL

(***************************************************************************)
(* Allocate refuses a request only when no free run is long enough, and    *)
(* its skips pass over no run that is.                                     *)
(***************************************************************************)
THEOREM SearchAlwaysExact == FramesSpec => []SearchExact
<1>1. QED
  BY FramesInv, InvSearchExact, PTL
====
