---- MODULE Pci ----
(***************************************************************************)
(* The PCI scan of the 64-bit kernel (src/pci.cpp, ScanAllBus) and what    *)
(* KernelMainNewStack (src/main.cpp) does with its result: it chooses a    *)
(* USB 3 controller, configures its message-signalled interrupt, reads its *)
(* base address and routes the USB 2 ports to it.                          *)
(*                                                                         *)
(* The recursion of ScanBus, ScanDevice and ScanFunction is an explicit    *)
(* stack of the loops under way.  The configuration space is a function    *)
(* from <<bus, device, function>> to what the kernel reads of a function;  *)
(* an address outside its domain reads as all ones.  How firmware numbered *)
(* the buses is external: a bridge it left alone has secondary bus 0.      *)
(***************************************************************************)
EXTENDS Naturals, Sequences, TLC, FiniteSets, FiniteSetsExt, Functions

CONSTANTS Machines,    \* configuration spaces
          NumDevices,  \* devices of a bus, 32
          NumFunctions,\* functions of a device, 8
          MaxDevices   \* devices.size(), 32

VARIABLES space,    \* the machine's configuration space
          ppc,      \* "off", "scan", "select", "msi", "route", "switch" or "done"
          stack,    \* the loops under way, the innermost first
          devices,  \* the functions found
          full,     \* ScanAllBus returned kFull
          xhc_dev,  \* the chosen controller, or <<>>
          mmio,     \* the address its registers are reached at, as <<low, high>>
          msi,      \* its MSI capability as programmed, or <<>>
          routed    \* the USB 2 ports were switched to it

pciVars == <<space, ppc, stack, devices, full, xhc_dev, mmio, msi, routed>>

(* Class codes: 06.04, 0c.03.30, 0c.03.20 and all others. *)
Classes == {"bridge", "xhci", "ehci", "other"}

(* The loops: over the functions of the host bridge, the devices of a bus and
   the functions of a device, each with the index it looks at next. *)
Hosts(f) == [loop |-> "hosts", bus |-> 0, device |-> 0, next |-> f]
Bus(b, d) == [loop |-> "bus", bus |-> b, device |-> 0, next |-> d]
Device(b, d, f) == [loop |-> "device", bus |-> b, device |-> d, next |-> f]

Exists(a) == a \in DOMAIN space            \* ReadVendorId(a) # 0xffff
IsSingleFunctionDevice(b, d) ==            \* bit 7 of the header type is clear
  Exists(<<b, d, 0>>) /\ ~ space[<<b, d, 0>>].multi

PciInit ==
  /\ space = <<>> /\ ppc = "off" /\ stack = <<>> /\ devices = <<>> /\ full = FALSE
  /\ xhc_dev = <<>> /\ mmio = <<>> /\ msi = <<>> /\ routed = FALSE

ScanAllBus(machine) ==
  /\ ppc' = "scan" /\ space' = machine
  /\ devices' = <<>>
  /\ stack' = IF <<0, 0, 0>> \in DOMAIN machine /\ ~ machine[<<0, 0, 0>>].multi
                THEN <<Bus(0, 0)>> ELSE <<Hosts(0)>>
  /\ UNCHANGED <<full, xhc_dev, mmio, msi, routed>>

Scanning(loop) == ppc = "scan" /\ stack # <<>> /\ Head(stack).loop = loop
Top == Head(stack)
Advanced == [Top EXCEPT !.next = @ + 1]

(* A host bridge with several functions: function f heads bus f. *)
ScanHosts ==
  /\ Scanning("hosts") /\ Top.next < NumFunctions
  /\ stack' = (IF Exists(<<0, 0, Top.next>>) THEN <<Bus(Top.next, 0)>> ELSE <<>>)
                \o <<Advanced>> \o Tail(stack)
  /\ UNCHANGED <<space, ppc, devices, full, xhc_dev, mmio, msi, routed>>

ScanBus ==
  /\ Scanning("bus") /\ Top.next < NumDevices
  /\ stack' = (IF Exists(<<Top.bus, Top.next, 0>>) THEN <<Device(Top.bus, Top.next, 0)>> ELSE <<>>)
                \o <<Advanced>> \o Tail(stack)
  /\ UNCHANGED <<space, ppc, devices, full, xhc_dev, mmio, msi, routed>>

(* AddDevice refuses the entry past the array, and every caller passes the
   error up: the whole scan ends. *)
AddDeviceFails == Len(devices) = MaxDevices

(* ScanDevice looks at the next function, and ScanFunction adds it and, for a
   bridge, scans its secondary bus first.  Function 0 decides whether the
   others are looked at. *)
ScanFunction ==
  /\ Scanning("device") /\ Top.next < NumFunctions
  /\ LET a == <<Top.bus, Top.device, Top.next>>
         rest == IF Top.next = 0 /\ IsSingleFunctionDevice(Top.bus, Top.device)
                   THEN Tail(stack) ELSE <<Advanced>> \o Tail(stack)
         below == IF space[a].class = "bridge" THEN <<Bus(space[a].secondary, 0)>> ELSE <<>>
     IN \/ /\ Exists(a) /\ AddDeviceFails
           /\ full' = TRUE /\ stack' = <<>> /\ UNCHANGED devices
        \/ /\ Exists(a) /\ ~ AddDeviceFails
           /\ devices' = Append(devices, a)
           /\ stack' = below \o rest /\ UNCHANGED full
        \/ /\ ~ Exists(a)
           /\ stack' = rest /\ UNCHANGED <<devices, full>>
  /\ UNCHANGED <<space, ppc, xhc_dev, mmio, msi, routed>>

LoopEnds ==
  /\ ppc = "scan" /\ stack # <<>>
  /\ Top.next = IF Top.loop = "bus" THEN NumDevices ELSE NumFunctions
  /\ stack' = Tail(stack)
  /\ UNCHANGED <<space, ppc, devices, full, xhc_dev, mmio, msi, routed>>

ScanReturns ==
  /\ ppc = "scan" /\ stack = <<>> /\ ppc' = "select"
  /\ UNCHANGED <<space, stack, devices, full, xhc_dev, mmio, msi, routed>>

Found(class) == {i \in 1 .. Len(devices) : space[devices[i]].class = class}
Intel(S) == {i \in S : space[devices[i]].intel}

SelectLast ==
  /\ ppc = "select"
  /\ IF Found("xhci") = {} THEN ppc' = "done" /\ UNCHANGED xhc_dev
     ELSE ppc' = "msi" /\ xhc_dev' = devices[Max(Found("xhci"))]
  /\ UNCHANGED <<space, stack, devices, full, mmio, msi, routed>>

(* The loop keeps the last USB 3 controller it meets and stops at one of Intel's. *)
SelectController ==
  /\ ppc = "select"
  /\ LET last == IF Intel(Found("xhci")) # {} THEN Min(Intel(Found("xhci")))
                                              ELSE Max(Found("xhci"))
     IN IF Found("xhci") = {} THEN ppc' = "done" /\ UNCHANGED xhc_dev
                              ELSE ppc' = "msi" /\ xhc_dev' = devices[last]
  /\ UNCHANGED <<space, stack, devices, full, mmio, msi, routed>>

(* The capability list, and in it the MSI capabilities.  Such a capability is
   a header and the registers after it.  Where the message data and the mask
   and pending bits lie depends on whether the address takes two registers. *)
Capabilities == space[xhc_dev].caps
MsiAt == {k \in 1 .. Len(Capabilities) : Capabilities[k].id = "msi"}

MsgData(cap) == IF cap.addr_64_capable THEN 3 ELSE 2

ReadMSICapability(cap) ==
  [multi_msg_enable |-> cap.multi_msg_enable, msi_enable |-> cap.msi_enable,
   msg_addr |-> cap.regs[1],
   msg_upper_addr |-> IF cap.addr_64_capable THEN cap.regs[2] ELSE 0,
   msg_data |-> cap.regs[MsgData(cap)],
   mask_bits |-> IF cap.per_vector_mask_capable THEN cap.regs[MsgData(cap) + 1] ELSE 0,
   pending_bits |-> IF cap.per_vector_mask_capable THEN cap.regs[MsgData(cap) + 2] ELSE 0]

WriteMSICapability(cap, v) ==
  LET upper == IF cap.addr_64_capable THEN 2 :> v.msg_upper_addr ELSE <<>>
      masks == IF cap.per_vector_mask_capable
                 THEN MsgData(cap) + 1 :> v.mask_bits @@ MsgData(cap) + 2 :> v.pending_bits
                 ELSE <<>>
  IN [cap EXCEPT !.multi_msg_enable = v.multi_msg_enable, !.msi_enable = v.msi_enable,
                 !.regs = 1 :> v.msg_addr @@ upper @@ MsgData(cap) :> v.msg_data @@ masks @@ @]

(* The message: the page of the local APICs, with id 0 for the boot processor,
   level-triggered vector kXHCI, and one vector wanted. *)
MsgAddr == 4078                \* 0xfee00000, in pages of 2^20
XhciVector == 49152 + 64       \* 0xc000 | 0x40
NumVectorExponent == 0

ConfigureMSIRegister(cap) ==
  WriteMSICapability(cap,
    [ReadMSICapability(cap) EXCEPT
       !.multi_msg_enable = IF cap.multi_msg_capable =< NumVectorExponent
                              THEN cap.multi_msg_capable ELSE NumVectorExponent,
       !.msi_enable = TRUE, !.msg_addr = MsgAddr, !.msg_data = XhciVector])

(* ConfigureMSIFixedDestination: the last MSI capability of the list is
   programmed.  MSI-X alone is kNotImplemented, no capability is kNoPCIMSI;
   the caller does not look at the error. *)
ConfigureMSI ==
  /\ ppc = "msi" /\ ppc' = "route"
  /\ msi' = IF MsiAt = {} THEN <<>> ELSE <<ConfigureMSIRegister(Capabilities[Max(MsiAt)])>>
  /\ UNCHANGED <<space, stack, devices, full, xhc_dev, mmio, routed>>

(* ReadBar(0): a 64-bit base address takes its upper half from the next
   register; the caller clears the flag bits. *)
ReadBar ==
  /\ ppc = "route" /\ ppc' = "switch"
  /\ mmio' = LET bar == space[xhc_dev].bar
             IN <<bar.low, IF bar.wide THEN bar.high ELSE 0>>
  /\ UNCHANGED <<space, stack, devices, full, xhc_dev, msi, routed>>

(* SwitchEhci2Xhci, for a controller of Intel's. *)
SwitchEhci2Xhci ==
  /\ ppc = "switch" /\ ppc' = "done"
  /\ routed' = (space[xhc_dev].intel /\ Intel(Found("ehci")) # {})
  /\ UNCHANGED <<space, stack, devices, full, xhc_dev, mmio, msi>>

PciStep == ScanHosts \/ ScanBus \/ ScanFunction \/ LoopEnds \/ ScanReturns
           \/ SelectController \/ ConfigureMSI \/ ReadBar \/ SwitchEhci2Xhci

PciNext == PciStep \/ (ppc = "off" /\ \E machine \in Machines : ScanAllBus(machine))

----
(* What a scan should find, defined over the configuration space alone. *)

Hears(b, d, f) ==   \* function f of the device answers, and function 0 announces it
  /\ Exists(<<b, d, 0>>) /\ Exists(<<b, d, f>>)
  /\ f = 0 \/ ~ IsSingleFunctionDevice(b, d)

OnBuses(B) == {a \in DOMAIN space : a[1] \in B /\ Hears(a[1], a[2], a[3])}
Bridges(B) == {a \in OnBuses(B) : space[a].class = "bridge"}

HostBuses == IF IsSingleFunctionDevice(0, 0) THEN {0}
             ELSE {f \in 0 .. NumFunctions - 1 : Exists(<<0, 0, f>>)}

(* The buses reached over at most n bridges. *)
Reached[n \in Nat] ==
  IF n = 0 THEN HostBuses
  ELSE Reached[n - 1] \cup {space[a].secondary : a \in Bridges(Reached[n - 1])}

AllBuses == Reached[Cardinality(DOMAIN space)]
Visible == OnBuses(AllBuses)

(* Firmware numbered the buses: each is behind one bridge or one host. *)
Numbered ==
  /\ \A a, c \in Bridges(AllBuses) : a # c => space[a].secondary # space[c].secondary
  /\ \A a \in Bridges(AllBuses) : space[a].secondary \notin HostBuses

(* What the controller makes of its capability: it sends one vector, to the
   address and with the data it finds where its own layout has them, and no
   vector is masked that was not masked before. *)
Delivers(cap, was) ==
  LET data == IF cap.addr_64_capable THEN 3 ELSE 2
  IN /\ cap.msi_enable /\ cap.multi_msg_enable = 0
     /\ cap.regs[1] = MsgAddr /\ cap.regs[data] = XhciVector
     /\ \A k \in DOMAIN was.regs \ {1, data} : cap.regs[k] = was.regs[k]

(***************************************************************************)
(* The scan and the setup after it come to an end on every machine, one    *)
(* whose bridges lead back to bus 0 included, where only the full array    *)
(* stops the recursion.  The array then holds functions that exist.        *)
(* Unless it overflowed it holds all the functions there are, and on a     *)
(* machine whose buses are numbered each of them once.  An Intel USB 3     *)
(* controller in the array is preferred, and the chosen controller's       *)
(* interrupt is set up, in whatever layout its capability has, whenever it *)
(* has an MSI capability.                                                  *)
(***************************************************************************)
ScanSettles ==
  ppc = "scan" ~>
    /\ ppc = "done"
    /\ Range(devices) \subseteq Visible
    /\ full => Len(devices) = MaxDevices
    /\ ~ full => Range(devices) = Visible
    /\ Numbered /\ Cardinality(Visible) =< MaxDevices =>
         ~ full /\ Len(devices) = Cardinality(Visible)
    /\ Found("xhci") # {} => xhc_dev \in {devices[i] : i \in Found("xhci")}
    /\ Intel(Found("xhci")) # {} => space[xhc_dev].intel
    /\ xhc_dev # <<>> =>
         /\ (msi # <<>>) <=> (MsiAt # {})
         /\ msi # <<>> => Delivers(msi[1], Capabilities[Max(MsiAt)])

====
