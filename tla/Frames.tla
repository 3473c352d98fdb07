---- MODULE Frames ----
(***************************************************************************)
(* The physical memory manager of the 64-bit kernel: the loop of           *)
(* KernelMainNewStack (src/main.cpp) that turns the memory map handed over *)
(* by the loader into a bitmap of frames, and BitmapMemoryManager          *)
(* (src/memory_manager.cpp), which then allocates runs of frames.          *)
(*                                                                         *)
(* An address is counted in frames: kBytesPerFrame and kUEFIPageSize are   *)
(* both 4096 and UEFI descriptors are page aligned, so every division of   *)
(* the loop is exact.  The bitmap is the set of the frames whose bit is    *)
(* set; a descriptor keeps what the loop reads of it, its start, its       *)
(* number of pages and whether IsAvailable accepts its type.               *)
(***************************************************************************)
EXTENDS Naturals, Sequences

CONSTANTS FrameCount,   \* kFrameCount: the frames the bitmap has a bit for
          MaxRequest    \* the largest num_frames a caller asks for

Descriptor == [start : Nat, pages : Nat, avail : BOOLEAN]

FramesOf(d) == d.start .. d.start + d.pages - 1

(***************************************************************************)
(* A memory map the firmware may return.  Its regions have a page at least *)
(* and do not overlap, in whatever order they come, and none of them       *)
(* reaches over or begins at the 128 GB limit: the loop's test is          *)
(* physical_start > 128 GB, and for a region that is not wholly below or   *)
(* wholly above the limit it would set bits past the end of the bitmap.    *)
(***************************************************************************)
WellFormed(map) ==
  /\ \A i \in 1 .. Len(map) : map[i].pages > 0
  /\ \A i \in 1 .. Len(map) : \/ map[i].start > FrameCount
                              \/ map[i].start + map[i].pages =< FrameCount
  /\ \A i, j \in 1 .. Len(map) :
        i # j => FramesOf(map[i]) \cap FramesOf(map[j]) = {}

ASSUME FramesAssumption == FrameCount \in Nat /\ MaxRequest \in Nat

VARIABLES stage,          \* "off", "scan", "ready" or "search"
          memoryMap,      \* the descriptors the loader passed
          iter,           \* the next descriptor of the loop
          available_end,  \* the end of the last available region met
          alloc_map_,     \* the frames whose bit is set
          range_begin_, range_end_,
          num_frames,     \* the request Allocate is serving
          start_frame_id, \* where its search stands
          refused,        \* the last Allocate returned kNoEnoughMemory
          live            \* the allocations made and not yet freed

framesVars == <<stage, memoryMap, iter, available_end, alloc_map_, range_begin_,
                range_end_, num_frames, start_frame_id, refused, live>>

FramesInit ==
  /\ stage = "off" /\ memoryMap = <<>> /\ iter = 1 /\ available_end = 0
  /\ alloc_map_ = {} /\ range_begin_ = 0 /\ range_end_ = FrameCount
  /\ num_frames = 0 /\ start_frame_id = 0 /\ refused = FALSE /\ live = {}

Run(first, n) == first .. first + n - 1

(* The kernel is entered with a map and constructs its memory manager. *)
StartKernel(map) ==
  /\ stage = "off"
  /\ stage' = "scan" /\ memoryMap' = map /\ iter' = 1 /\ available_end' = 0
  /\ alloc_map_' = {} /\ range_begin_' = 0 /\ range_end_' = FrameCount
  /\ UNCHANGED <<num_frames, start_frame_id, refused, live>>

(* A region is taken as the loop meets it: the gap in front of it (none when
   available_end is past its start) is marked allocated, and so is the region
   itself unless its memory is available. *)
GapWithFirst(d) == available_end .. d.start

GapBefore(d) == available_end .. d.start - 1

ScanIgnoresGaps ==
  /\ stage = "scan" /\ iter =< Len(memoryMap)
  /\ LET d == memoryMap[iter]
     IN /\ d.start =< FrameCount
        /\ alloc_map_' = alloc_map_ \cup (IF d.avail THEN {} ELSE FramesOf(d))
        /\ available_end' = IF d.avail THEN d.start + d.pages ELSE available_end
  /\ iter' = iter + 1
  /\ UNCHANGED <<stage, memoryMap, range_begin_, range_end_, num_frames,
                 start_frame_id, refused, live>>

ScanDescriptor ==
  /\ stage = "scan" /\ iter =< Len(memoryMap)
  /\ LET d == memoryMap[iter]
     IN /\ d.start =< FrameCount
        /\ alloc_map_' = alloc_map_ \cup GapBefore(d)
                                   \cup (IF d.avail THEN {} ELSE FramesOf(d))
        /\ available_end' = IF d.avail THEN d.start + d.pages ELSE available_end
  /\ iter' = iter + 1
  /\ UNCHANGED <<stage, memoryMap, range_begin_, range_end_, num_frames,
                 start_frame_id, refused, live>>

(* The loop is over, by its end or by the break at the limit, and
   SetMemoryRange leaves frame 0 out. *)
ScanDone ==
  /\ stage = "scan"
  /\ iter =< Len(memoryMap) => memoryMap[iter].start > FrameCount
  /\ stage' = "ready" /\ range_begin_' = 1 /\ range_end_' = available_end
  /\ UNCHANGED <<memoryMap, iter, available_end, alloc_map_, num_frames,
                 start_frame_id, refused, live>>

(* Allocate is called and starts its search at the begin of the range. *)
Allocate(n) ==
  /\ stage = "ready"
  /\ stage' = "search" /\ num_frames' = n /\ start_frame_id' = range_begin_
  /\ refused' = FALSE
  /\ UNCHANGED <<memoryMap, iter, available_end, alloc_map_, range_begin_,
                 range_end_, live>>

(* The inner loop of Allocate stops at offset i of the candidate run. *)
Outside(i) == start_frame_id + i >= range_end_
Occupied(i) == start_frame_id + i \in alloc_map_
StopsAt(i) ==
  /\ i \in 0 .. num_frames - 1
  /\ Outside(i) \/ Occupied(i)
  /\ \A j \in 0 .. i - 1 : ~ Outside(j) /\ ~ Occupied(j)

SearchFails ==
  /\ stage = "search"
  /\ \E i \in 0 .. num_frames - 1 : StopsAt(i) /\ Outside(i)
  /\ stage' = "ready" /\ refused' = TRUE
  /\ UNCHANGED <<memoryMap, iter, available_end, alloc_map_, range_begin_,
                 range_end_, num_frames, start_frame_id, live>>

SearchJumps ==
  /\ stage = "search"
  /\ \E i \in 0 .. num_frames - 1 :
        /\ StopsAt(i) /\ ~ Outside(i)
        /\ start_frame_id' = start_frame_id + num_frames
  /\ UNCHANGED <<stage, memoryMap, iter, available_end, alloc_map_,
                 range_begin_, range_end_, num_frames, refused, live>>

SearchOn ==
  /\ stage = "search"
  /\ \E i \in 0 .. num_frames - 1 :
        /\ StopsAt(i) /\ ~ Outside(i)
        /\ start_frame_id' = start_frame_id + i + 1
  /\ UNCHANGED <<stage, memoryMap, iter, available_end, alloc_map_,
                 range_begin_, range_end_, num_frames, refused, live>>

SearchFinds ==
  /\ stage = "search"
  /\ \A i \in 0 .. num_frames - 1 : ~ Outside(i) /\ ~ Occupied(i)
  /\ stage' = "ready"
  /\ alloc_map_' = alloc_map_ \cup Run(start_frame_id, num_frames)
  /\ live' = live \cup {Run(start_frame_id, num_frames)}
  /\ UNCHANGED <<memoryMap, iter, available_end, range_begin_, range_end_,
                 num_frames, start_frame_id, refused>>

(* Free of a run that Allocate returned. *)
Free(run) ==
  /\ stage = "ready" /\ run \in live
  /\ alloc_map_' = alloc_map_ \ run
  /\ live' = live \ {run} /\ refused' = FALSE
  /\ UNCHANGED <<stage, memoryMap, iter, available_end, range_begin_,
                 range_end_, num_frames, start_frame_id>>

FramesNext ==
  \/ ScanDescriptor \/ ScanDone
  \/ \E n \in 0 .. MaxRequest : Allocate(n)
  \/ SearchFails \/ SearchOn \/ SearchFinds
  \/ \E run \in live : Free(run)

(* The manager by itself, entered with any map of that kind. *)
Maps == {map \in Seq(Descriptor) : WellFormed(map)}
FramesSpec ==
  FramesInit /\ [][(\E map \in Maps : StartKernel(map)) \/ FramesNext]_framesVars

----
(* Available memory and the rest, as the descriptors tell them apart. *)
Usable == UNION {FramesOf(memoryMap[i]) : i \in {k \in 1 .. Len(memoryMap) : memoryMap[k].avail}}
Unusable == UNION {FramesOf(memoryMap[i]) : i \in {k \in 1 .. Len(memoryMap) : ~ memoryMap[k].avail}}

Allocatable == {f \in range_begin_ .. range_end_ - 1 : f \notin alloc_map_}

(***************************************************************************)
(* Every frame Allocate can return, and every frame it has returned, is    *)
(* memory the firmware described as available: never a hole of the         *)
(* physical address space, never a region in use, and never frame 0.  A    *)
(* frame belongs to one live allocation at most, and to none while it can  *)
(* be allocated again.  The descriptors may come in any order.             *)
(***************************************************************************)
FramesOwned ==
  stage \in {"ready", "search"} =>
    /\ Allocatable \cup (UNION live) \subseteq (Usable \ Unusable) \ {0}
    /\ (UNION live) \cap Allocatable = {}
    /\ \A a, b \in live : a # b => a \cap b = {}

Sorted(map) == \A i, j \in 1 .. Len(map) : i < j => map[i].start =< map[j].start

(***************************************************************************)
(* When the map is sorted, which main.cpp assumes, no usable memory below  *)
(* the 128 GB limit is lost: every available frame but frame 0 can be      *)
(* allocated or belongs to a live allocation.                              *)
(***************************************************************************)
NothingLost ==
  stage \in {"ready", "search"} /\ Sorted(memoryMap) =>
    (Usable \cap 1 .. FrameCount - 1) \subseteq Allocatable \cup (UNION live)

FreeRun(first, n) == \A f \in Run(first, n) : f \in Allocatable

(***************************************************************************)
(* The search of Allocate skips to the frame after an occupied one, and    *)
(* never over a run that would do: no free run of the requested length     *)
(* begins before start_frame_id, and when the request is refused there is  *)
(* none at all.                                                            *)
(***************************************************************************)
SearchExact ==
  /\ stage = "search" =>
       \A s \in range_begin_ .. start_frame_id - 1 : ~ FreeRun(s, num_frames)
  /\ refused => \A s \in range_begin_ .. range_end_ - 1 : ~ FreeRun(s, num_frames)

====
