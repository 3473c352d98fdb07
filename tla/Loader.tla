---- MODULE Loader ----
(***************************************************************************)
(* The UEFI loader (UnagiLoaderPkg/efimain.c, UefiMain) up to the kernel's *)
(* entry, composed with the kernel's memory manager, which is built from   *)
(* the memory map the loader hands over.                                   *)
(*                                                                         *)
(* The firmware is external.  It types every frame of physical memory, it  *)
(* answers the boot services, it changes its own allocations while the     *)
(* loader runs, and every change invalidates the keys of earlier maps.     *)
(* Loader errors are reported with asm("hlt"), which the next firmware     *)
(* interrupt ends: the loader then goes on with the next statement, and so *)
(* does the model (failed remembers that it happened).                     *)
(***************************************************************************)
EXTENDS Frames, FiniteSets, SequencesExt

CONSTANTS Layouts,     \* initial typings of physical memory
          KernelPages, \* the frames the program headers of kernel.elf name
          FirmwarePages, \* the pages the firmware allocates and frees for itself
          RawPages,    \* the pages the file kernel.elf takes
          MaxChanges   \* how often the firmware changes its allocations

VARIABLES lpc,       \* where UefiMain stands
          memory,    \* the firmware's typing: frame -> type
          changes,   \* how often it changed; the current map key
          memmap,    \* the loader's copy of the map
          map_key,
          raw,       \* the pages holding the raw ELF file
          failed     \* an error was reported and execution went on

loaderVars == <<lpc, memory, changes, memmap, map_key, raw, failed>>

Types == {"conventional", "boot", "loader", "reserved", "hole"}
AvailableTypes == {"conventional", "boot"}

(* The regions of a typing: its maximal runs of one type, holes left out. *)
Regions(m) ==
  LET Uniform(a, b) == \A f \in a .. b : m[f] = m[a]
      Maximal(a, b) == /\ (a - 1) \in DOMAIN m => m[a - 1] # m[a]
                       /\ (b + 1) \in DOMAIN m => m[b + 1] # m[a]
  IN {[start |-> p[1], pages |-> p[2] - p[1] + 1, avail |-> m[p[1]] \in AvailableTypes] :
        p \in {q \in (DOMAIN m) \X (DOMAIN m) :
                 /\ q[1] =< q[2] /\ m[q[1]] # "hole"
                 /\ Uniform(q[1], q[2]) /\ Maximal(q[1], q[2])}}

LoaderInit ==
  /\ lpc = "power" /\ memory = <<>> /\ changes = 0 /\ memmap = <<>>
  /\ map_key = 0 /\ raw = {} /\ failed = FALSE

PowerOn(layout) ==
  /\ lpc = "power" /\ lpc' = "map" /\ memory' = layout
  /\ UNCHANGED <<changes, memmap, map_key, raw, failed>>

Retype(frames, type) == [f \in DOMAIN memory |-> IF f \in frames THEN type ELSE memory[f]]

BootServices == lpc \notin {"power", "stuck", "enter", "kernel"}

(* The firmware allocates or frees a page for itself: on a boot service the
   loader calls (opening files, volumes, the graphics protocol) or on a timer. *)
FirmwareChanges ==
  /\ BootServices /\ changes < MaxChanges
  /\ \E f \in FirmwarePages :
        \/ memory[f] = "conventional" /\ memory' = Retype({f}, "boot")
        \/ memory[f] = "boot" /\ memory' = Retype({f}, "conventional")
  /\ changes' = changes + 1
  /\ UNCHANGED <<lpc, memmap, map_key, raw, failed>>

(* GetMemoryMap: the regions in ascending order, or in another one. *)
GetMemoryMap ==
  /\ LET ascending == SetToSortSeq(Regions(memory), LAMBDA a, b : a.start < b.start)
     IN memmap' \in {ascending, Reverse(ascending)}
  /\ map_key' = changes

FirstMap ==
  /\ lpc = "map" /\ lpc' = "files"
  /\ GetMemoryMap
  /\ UNCHANGED <<memory, changes, raw, failed>>

(* OpenRootDir, \memmap, SaveMemoryMap, OpenGOP and \kernel.elf.  The status
   tested after the second Open is still that of the first. *)
OpenFiles ==
  /\ lpc = "files" /\ lpc' = "raw"
  /\ \E status \in BOOLEAN : failed' = ~ status
  /\ UNCHANGED <<memory, changes, memmap, map_key, raw>>

Conventional == {f \in DOMAIN memory : memory[f] = "conventional"}

(* AllocatePages(AllocateAnyPages) for the file.  Its result is not tested:
   without memory the loader goes on with an address it never set. *)
AllocateRaw ==
  /\ lpc = "raw"
  /\ \/ \E f \in DOMAIN memory :
           /\ Run(f, RawPages) \subseteq Conventional
           /\ raw' = Run(f, RawPages) /\ memory' = Retype(Run(f, RawPages), "loader")
           /\ lpc' = "place"
     \/ /\ \A f \in DOMAIN memory : ~ Run(f, RawPages) \subseteq Conventional
        /\ lpc' = "stuck" /\ UNCHANGED <<raw, memory>>
  /\ changes' = changes + 1
  /\ UNCHANGED <<memmap, map_key, failed>>

(* Read, CalcLoadAddressRange, AllocatePages(AllocateAddress) at the linked
   address, and CopyLoadSegments there whether or not it succeeded. *)
PlaceKernel ==
  /\ lpc = "place" /\ lpc' = "free"
  /\ \/ /\ KernelPages \subseteq Conventional
        /\ memory' = Retype(KernelPages, "loader") /\ changes' = changes + 1
        /\ \E status \in BOOLEAN : failed' = (failed \/ ~ status)
     \/ /\ ~ KernelPages \subseteq Conventional
        /\ failed' = TRUE /\ UNCHANGED <<memory, changes>>
  /\ UNCHANGED <<memmap, map_key, raw>>

FreeRaw ==
  /\ lpc = "free" /\ lpc' = "exit"
  /\ memory' = Retype(raw, "conventional") /\ changes' = changes + 1 /\ raw' = {}
  /\ UNCHANGED <<memmap, map_key, failed>>

(* ExitBootServices with the key of the first map, which is stale by now. *)
ExitFirst ==
  /\ lpc = "exit"
  /\ lpc' = IF map_key = changes THEN "enter" ELSE "remap"
  /\ UNCHANGED <<memory, changes, memmap, map_key, raw, failed>>

SecondMapKeyOnly ==
  /\ lpc = "remap" /\ lpc' = "exit2" /\ map_key' = changes
  /\ UNCHANGED <<memmap, memory, changes, raw, failed>>

(* The map is fetched again; it may have outgrown the buffer. *)
SecondMap ==
  /\ lpc = "remap"
  /\ \/ lpc' = "exit2" /\ GetMemoryMap
     \/ lpc' = "stuck" /\ UNCHANGED <<memmap, map_key>>
  /\ UNCHANGED <<memory, changes, raw, failed>>

ExitSecond ==
  /\ lpc = "exit2"
  /\ lpc' = IF map_key = changes THEN "enter" ELSE "stuck"
  /\ UNCHANGED <<memory, changes, memmap, map_key, raw, failed>>

(* The jump to the entry point, with the map as argument. *)
EnterKernel ==
  /\ lpc = "enter" /\ lpc' = "kernel"
  /\ StartKernel(memmap)
  /\ UNCHANGED <<memory, changes, memmap, map_key, raw, failed>>

LoaderStep ==
  \/ \E layout \in Layouts : PowerOn(layout)
  \/ FirmwareChanges \/ FirstMap \/ OpenFiles \/ AllocateRaw \/ PlaceKernel
  \/ FreeRaw \/ ExitFirst \/ SecondMap \/ ExitSecond

LoaderNext ==
  \/ LoaderStep /\ UNCHANGED framesVars
  \/ EnterKernel
  \/ FramesNext /\ UNCHANGED loaderVars

----
(***************************************************************************)
(* Once the kernel runs without a reported loader error, no frame its      *)
(* memory manager can hand out or has handed out holds the kernel's own    *)
(* image or memory the firmware keeps: the map it was built from is the    *)
(* one in force when ExitBootServices succeeded, not an earlier copy.      *)
(***************************************************************************)
KernelImageKept ==
  stage \in {"ready", "search"} /\ ~ failed =>
    \A f \in Allocatable \cup UNION live :
      f \notin KernelPages /\ memory[f] \in AvailableTypes

====
