---- MODULE HostController ----
(***************************************************************************)
(* How the 64-bit kernel starts the xHCI controller: Controller::          *)
(* Initialize and Run (src/usb/xhci/xhci.cpp), which take the controller   *)
(* from the firmware, halt and reset it, program its registers and let it  *)
(* run, and the pool that their memory comes from (src/usb/memory.cpp).    *)
(*                                                                         *)
(* The controller and the firmware are external: each answers a request in *)
(* its own time, and a reset takes back what was programmed.               *)
(***************************************************************************)
EXTENDS Integers, Sequences, FiniteSets

CONSTANTS PoolBases,  \* where memory_pool may lie, in steps of 64 bytes
          PoolSizes,  \* kMemoryPoolSize, and sizes at which some allocation fails
          PadCounts   \* scratchpad buffers the controller may ask for

ASSUME PoolAssumption == \A b \in PoolBases : b > 0 /\ b % 64 = 0

VARIABLES memory_pool, pool_size, alloc_ptr, \* the pool
          blocks, exhausted,                 \* what was handed out; where a request was refused
          pads, pad_arr,                     \* scratchpad buffers wanted, their array so far
          hw,                                \* the controller's registers
          hpc                                \* where the kernel stands

poolVars == <<memory_pool, pool_size, alloc_ptr, blocks, exhausted>>
hcVars == <<poolVars, pads, pad_arr, hw, hpc>>

Nullptr == 0
kDeviceSize == 8
PageSize == 4096

(* Any state the firmware may leave the controller in, both ownership bits set
   too.  set is the registers that hold what this kernel wrote. *)
HcInit ==
  /\ memory_pool \in PoolBases /\ pool_size \in PoolSizes
  /\ alloc_ptr = memory_pool /\ blocks = {} /\ exhausted = {}
  /\ pads \in PadCounts /\ pad_arr = <<>>
  /\ hw \in [legacy : BOOLEAN, bios : BOOLEAN, os : BOOLEAN, run : BOOLEAN, halted : BOOLEAN,
             reset : {FALSE}, not_ready : {FALSE}, inte : BOOLEAN, set : {{}}]
  /\ hw.halted = ~ hw.run
  /\ hw.bios \/ hw.os => hw.legacy
  /\ hpc = "devices"

----
(* AllocMem: a pointer that only grows.  It is rounded up to the alignment, and
   to the boundary when the block would cross it, also when the pool is then
   exhausted. *)
Ceil(value, alignment) == ((value + alignment - 1) \div alignment) * alignment
Aligned(alignment) == IF alignment > 0 THEN Ceil(alloc_ptr, alignment) ELSE alloc_ptr
Placed(size, alignment, boundary) ==
  LET a == Aligned(alignment)
  IN IF boundary > 0 /\ Ceil(a, boundary) < a + size THEN Ceil(a, boundary) ELSE a
IsRefused(size, alignment, boundary) ==
  memory_pool + pool_size < Placed(size, alignment, boundary) + size

AllocMem(size, alignment, boundary) ==
  LET p == Placed(size, alignment, boundary)
      full == IsRefused(size, alignment, boundary)
  IN /\ alloc_ptr' = IF full THEN p ELSE p + size
     /\ blocks' = IF full THEN blocks
                  ELSE blocks \cup {[from |-> p, size |-> size, alignment |-> alignment, boundary |-> boundary]}
     /\ exhausted' = IF full THEN exhausted \cup {hpc} ELSE exhausted
     /\ UNCHANGED <<memory_pool, pool_size>>

(* An allocation whose failure ends Initialize.  KernelMainNewStack logs the
   error and calls Run all the same. *)
Checked(from, to, size, alignment, boundary) ==
  /\ hpc = from
  /\ AllocMem(size, alignment, boundary)
  /\ hpc' = IF IsRefused(size, alignment, boundary) THEN "run" ELSE to
  /\ UNCHANGED <<pads, pad_arr>>

(* A step that only reads and writes registers. *)
Registers(from, to) == hpc = from /\ hpc' = to /\ UNCHANGED <<poolVars, pads, pad_arr>>
Program(regs) == hw' = [hw EXCEPT !.set = @ \cup regs]

(* DeviceManager::Initialize: devices_, then the device context pointers. *)
AllocDevices == Checked("devices", "contexts", 8 * (kDeviceSize + 1), 0, 0) /\ UNCHANGED hw
AllocContexts == Checked("contexts", "own", 8 * (kDeviceSize + 1), 64, PageSize) /\ UNCHANGED hw

(* RequestHCOwnership: it returns at once when the OS bit is set already, and
   does not look at the other bit then. *)
RequestHCOwnership ==
  /\ hpc = "own"
  /\ IF hw.legacy /\ ~ hw.os
       THEN hw' = [hw EXCEPT !.os = TRUE] /\ hpc' = "owned"
       ELSE hpc' = "halt" /\ UNCHANGED hw
  /\ UNCHANGED <<poolVars, pads, pad_arr>>
Owned == Registers("owned", "halt") /\ ~ hw.bios /\ hw.os /\ UNCHANGED hw

(* USBCMD is written back with run_stop cleared unless the controller stands. *)
HaltController ==
  /\ Registers("halt", "halted")
  /\ hw' = [hw EXCEPT !.inte = FALSE, !.run = @ /\ hw.halted]
IsHalted == Registers("halted", "reset") /\ hw.halted /\ UNCHANGED hw
ResetController == Registers("reset", "resetting") /\ hw' = [hw EXCEPT !.reset = TRUE]
IsReset == Registers("resetting", "ready") /\ ~ hw.reset /\ UNCHANGED hw
IsReadyAnyway == Registers("ready", "config") /\ UNCHANGED hw
IsReady == Registers("ready", "config") /\ ~ hw.not_ready /\ UNCHANGED hw

SetMaxSlots == Registers("config", IF pads > 0 THEN "pads" ELSE "dcbaap") /\ Program({"CONFIG"})

(* The scratchpad buffers: their array, then each of them.  No result is tested:
   Initialize goes on with null pointers, and reports nothing. *)
AllocPads ==
  /\ hpc = "pads" /\ hpc' = "pad"
  /\ AllocMem(8 * pads, 64, PageSize)
  /\ UNCHANGED <<pads, pad_arr, hw>>
AllocPad ==
  /\ hpc = "pad" /\ Len(pad_arr) < pads
  /\ AllocMem(PageSize, PageSize, PageSize)
  /\ pad_arr' = Append(pad_arr, IF IsRefused(PageSize, PageSize, PageSize)
                                  THEN Nullptr ELSE Placed(PageSize, PageSize, PageSize))
  /\ UNCHANGED <<pads, hw, hpc>>
SetPads == Registers("pad", "dcbaap") /\ Len(pad_arr) = pads /\ Program({"SCRATCHPAD"})

SetContexts == Registers("dcbaap", "cr") /\ Program({"DCBAAP"})

(* Ring::Initialize(32) with RegisterCommandRing, and EventRing::Initialize(32). *)
AllocCommandRing == Checked("cr", "crcr", 16 * 32, 64, 16 * PageSize) /\ UNCHANGED hw
RegisterCommandRing == Registers("crcr", "er") /\ Program({"CRCR"})
AllocEventRing == Checked("er", "erst", 16 * 32, 64, 16 * PageSize) /\ UNCHANGED hw
AllocSegmentTable == Checked("erst", "erstba", 16, 64, 16 * PageSize) /\ UNCHANGED hw
SetEventRing == Registers("erstba", "iman") /\ Program({"ERSTSZ", "ERDP", "ERSTBA"})

EnableInterrupter == Registers("iman", "inte") /\ Program({"IMAN"})
EnableController == Registers("inte", "run") /\ hw' = [hw EXCEPT !.inte = TRUE]

(* Controller::Run. *)
StartController == Registers("run", "starting") /\ hw' = [hw EXCEPT !.run = TRUE]
IsRunning == Registers("starting", "up") /\ ~ hw.halted /\ UNCHANGED hw

HcKernel ==
  \/ AllocDevices \/ AllocContexts \/ RequestHCOwnership \/ Owned
  \/ HaltController \/ IsHalted \/ ResetController \/ IsReset \/ IsReady
  \/ SetMaxSlots \/ AllocPads \/ AllocPad \/ SetPads \/ SetContexts
  \/ AllocCommandRing \/ RegisterCommandRing \/ AllocEventRing \/ AllocSegmentTable \/ SetEventRing
  \/ EnableInterrupter \/ EnableController \/ StartController \/ IsRunning

----
(* The firmware and the controller. *)
FirmwareReleases == hw.bios /\ hw.os /\ hw' = [hw EXCEPT !.bios = FALSE]
ControllerHalts == ~ hw.run /\ ~ hw.halted /\ hw' = [hw EXCEPT !.halted = TRUE]
ControllerStarts == hw.run /\ hw.halted /\ ~ hw.reset /\ ~ hw.not_ready /\ hw' = [hw EXCEPT !.halted = FALSE]
ControllerResets ==
  /\ hw.reset
  /\ hw' = [hw EXCEPT !.reset = FALSE, !.not_ready = TRUE, !.run = FALSE, !.halted = TRUE,
                      !.inte = FALSE, !.set = {}]
ControllerReadies == ~ hw.reset /\ hw.not_ready /\ hw' = [hw EXCEPT !.not_ready = FALSE]

HcHardware ==
  /\ FirmwareReleases \/ ControllerHalts \/ ControllerStarts \/ ControllerResets \/ ControllerReadies
  /\ UNCHANGED <<poolVars, pads, pad_arr, hpc>>

HcNext == HcKernel \/ HcHardware

----
Programming ==
  {"config", "pads", "pad", "dcbaap", "cr", "crcr", "er", "erst", "erstba", "iman", "inte"}
Essential == {"CONFIG", "DCBAAP", "CRCR", "ERSTSZ", "ERDP", "ERSTBA", "IMAN"}

(* What AllocMem promises (memory.hpp:19): a block is in the pool, has its
   alignment, and does not cross its boundary if it fits; and no two overlap. *)
BlocksSound ==
  /\ \A b \in blocks :
       /\ memory_pool =< b.from /\ b.from + b.size =< memory_pool + pool_size
       /\ b.alignment > 0 => b.from % b.alignment = 0
       /\ b.boundary > 0 /\ b.size =< b.boundary =>
            b.from \div b.boundary = (b.from + b.size - 1) \div b.boundary
  /\ \A b, c \in blocks : b # c => b.from + b.size =< c.from \/ c.from + c.size =< b.from

(* The allocations whose failure ends Initialize with an error. *)
Reported == {"devices", "contexts", "cr", "er", "erst"}

(***************************************************************************)
(* The controller comes up, whatever state the firmware left it in: it is  *)
(* programmed only while it is halted, reset and ready, and, unless the    *)
(* firmware left both ownership bits set, only after the firmware has let  *)
(* go of it; what it is given lies in the pool, in blocks that do not      *)
(* overlap.  A pool with two pages more than the scratchpads need serves   *)
(* every request.  When the controller runs, every register holds what     *)
(* this kernel wrote, exactly if Initialize reported no failure, and every *)
(* scratchpad buffer is in place if none was refused; and Run returns in   *)
(* the end, also after a failure that its caller passes over.              *)
(***************************************************************************)
ControllerReady ==
  /\ []BlocksSound
  /\ [](hpc \in Programming => hw.halted /\ ~ hw.reset /\ ~ hw.not_ready)
  /\ (hw.bios /\ hw.os) \/ [](hpc \in Programming => ~ hw.bios)
  /\ [](pool_size >= (pads + 2) * PageSize => exhausted = {})
  /\ [](hpc = "up" =>
          /\ (Essential \subseteq hw.set /\ hw.inte) <=> (exhausted \cap Reported = {})
          /\ pads > 0 /\ exhausted = {} =>
               /\ "SCRATCHPAD" \in hw.set /\ Len(pad_arr) = pads
               /\ \A i, j \in 1 .. pads :
                    pad_arr[i] # Nullptr /\ (i # j => pad_arr[i] # pad_arr[j]))
  /\ (hpc # "devices") ~> (hpc = "up")
====
