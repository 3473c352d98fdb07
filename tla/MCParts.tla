---- MODULE MCParts ----
(***************************************************************************)
(* Parts that run one after the other, or share no state, checked side by  *)
(* side: of the 64-bit system the loader with the memory manager, the PCI  *)
(* scan, the start of the controller, and the rings with the event loop;   *)
(* and what the rest of the kernels calls: the queue, the arithmetic,      *)
(* formatted output, paths and the disk.  part says which of them a        *)
(* behaviour exercises; the others stay in their initial state, so that    *)
(* their state spaces add up instead of multiplying.                       *)
(***************************************************************************)
EXTENDS Loader, Pci, Rings, HostController, Fifo32, Arith64, Printf, PathParser, DiskStream

CONSTANT Parts  \* the parts to exercise

VARIABLE part

machineVars == <<framesVars, loaderVars, pciVars, ringsVars, hcVars>>
libraryVars == <<vars, arithVars, printVars, pathVars, diskVars>>
partsVars == <<machineVars, libraryVars, part>>

(* Physical memory: with a hole, with reserved memory in front and between,
   with a device region above the limit of the bitmap, and with firmware data
   where the kernel image belongs. *)
MCLayouts ==
  LET C == "conventional"  B == "boot"  R == "reserved"  H == "hole"
      Layout(s) == [f \in 0 .. Len(s) - 1 |-> s[f + 1]]
  IN {Layout(<<C, C, C, C, H, R>>), Layout(<<R, C, C, H, C, C>>),
      Layout(<<C, R, C, C, C, H, H, H, R>>), Layout(<<B, C, C, C, R, C>>)}
MCKernelPages == {2, 3}
MCFirmwarePages == {1}

(* Machines: a host bridge with or without a second function, and any of a
   bridge, numbered or not, and functions behind it down to bus 2. *)
Msi(wide, maskable) ==
  [id |-> "msi", msi_enable |-> FALSE, multi_msg_capable |-> 1, multi_msg_enable |-> 0,
   addr_64_capable |-> wide, per_vector_mask_capable |-> maskable,
   regs |-> [k \in 1 .. 5 |-> k]]
Function(class, multi, intel, secondary) ==
  [class |-> class, multi |-> multi, intel |-> intel, secondary |-> secondary,
   bar |-> [wide |-> intel, low |-> 1, high |-> 1],
   caps |-> IF intel THEN <<Msi(multi, class = "xhci"), [id |-> "other"], [id |-> "msix"]>>
                     ELSE <<[id |-> "msix"]>>]
Candidates(secondary) ==
  <<0, 0, 1>> :> Function("other", TRUE, TRUE, 0) @@
  <<0, 1, 0>> :> Function("bridge", TRUE, TRUE, secondary) @@
  <<0, 1, 1>> :> Function("xhci", TRUE, FALSE, 0) @@
  <<1, 0, 0>> :> Function("ehci", TRUE, TRUE, 0) @@
  <<1, 0, 1>> :> Function("xhci", TRUE, TRUE, 0) @@
  <<1, 1, 0>> :> Function("bridge", FALSE, TRUE, 2) @@
  <<2, 0, 0>> :> Function("xhci", FALSE, TRUE, 0)
MCMachines ==
  {<<0, 0, 0>> :> Function("other", multi, TRUE, 0) @@ Restrict(Candidates(secondary), S) :
     multi \in BOOLEAN, secondary \in 0 .. 2, S \in SUBSET DOMAIN Candidates(0)}

(* One of the controller's initial states, for the behaviours of other parts. *)
HcAtRest ==
  /\ memory_pool = 64 /\ pool_size = 0 /\ alloc_ptr = 64 /\ blocks = {} /\ exhausted = {}
  /\ pads = 0 /\ pad_arr = <<>> /\ hw = [set |-> {}, bios |-> FALSE] /\ hpc = "devices"

MCValues == {-128, -1, 0, 45, 127}
MCTexts == {<<>>, <<"p">>, <<"p", "q", "r">>}

(* Everything up to five characters behind a drive, and what is not a path. *)
MCPaths ==
  {<<"0", ":", "/">> \o s : s \in SeqOf({"/", "a"}, 5)}
    \cup {<<>>, <<"9", ":">>, <<"a", ":", "/", "a">>, <<"1", "/", "/", "a">>, <<"7", ":", "/", "b">>}

PartsInit ==
  /\ part \in Parts
  /\ FramesInit /\ LoaderInit /\ PciInit /\ RingsInit
  /\ IF part = "controller" THEN HcInit ELSE HcAtRest
  /\ Init /\ ArithInit /\ PrintInit /\ PathInit /\ DiskInit

MachineNext ==
  /\ \/ part = "loader" /\ LoaderNext /\ UNCHANGED <<pciVars, ringsVars, hcVars>>
     \/ part = "pci" /\ PciNext /\ UNCHANGED <<framesVars, loaderVars, ringsVars, hcVars>>
     \/ part = "rings" /\ RingsNext /\ UNCHANGED <<framesVars, loaderVars, pciVars, hcVars>>
     \/ part = "controller" /\ HcNext /\ UNCHANGED <<framesVars, loaderVars, pciVars, ringsVars>>
  /\ UNCHANGED <<libraryVars, part>>

LibraryNext ==
  /\ \/ part = "fifo" /\ Next /\ UNCHANGED <<arithVars, printVars, pathVars, diskVars>>
     \/ part = "arith" /\ ArithNext /\ UNCHANGED <<vars, printVars, pathVars, diskVars>>
     \/ part = "printf" /\ PrintNext /\ UNCHANGED <<vars, arithVars, pathVars, diskVars>>
     \/ part = "path" /\ PathNext /\ UNCHANGED <<vars, arithVars, printVars, diskVars>>
     \/ part = "disk" /\ DiskNext /\ UNCHANGED <<vars, arithVars, printVars, pathVars>>
  /\ UNCHANGED <<machineVars, part>>

(* The scan is sequential code.  The processor keeps executing the main thread
   and takes a pending interrupt once it is enabled; the controller answers the
   register that was written and serves a doorbell, but owes nobody an event
   of its own. *)
PartsFairness ==
  /\ WF_pciVars(part = "pci" /\ PciStep)
  /\ WF_ringsVars(part = "rings" /\ KernelThread)
  /\ WF_ringsVars(part = "rings" /\ IntHandlerXHCI)
  /\ WF_ringsVars(part = "rings" /\ ControllerServes)
  /\ WF_hcVars(part = "controller" /\ HcKernel)
  /\ WF_hcVars(part = "controller" /\ HcHardware)

PartsSpec == PartsInit /\ [][MachineNext \/ LibraryNext]_partsVars /\ PartsFairness
====
