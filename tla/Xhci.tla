-------------------------------- MODULE Xhci --------------------------------
(***************************************************************************)
(* The USB driver of the 64-bit kernel: usb/xhci/xhci.cpp, devmgr.cpp,     *)
(* port.cpp and device.cpp, usb/device.cpp and usb/classdriver/hid.cpp,    *)
(* from the port loop of main.cpp to the reports of a configured device.   *)
(* The driver runs in one thread, the main loop, and takes one event of    *)
(* the event ring after the other; the controller and the devices work at  *)
(* the same time.  They are not part of the repository and are modelled    *)
(* from how the driver uses them.                                          *)
(***************************************************************************)
EXTENDS Integers, Sequences, FiniteSets

CONSTANTS MaxPorts,  \* the ports of the root hub
          MaxSlots,  \* kDeviceSize
          Endpoints, \* how many endpoint numbers the HID interface of the device
                     \* in a port has, 0 if it has no interface the driver knows
          Pullable   \* the ports whose device may be unplugged, once each (bound)

Ports == 1..MaxPorts
Slots == 0..MaxSlots

ASSUME XhciAssumption ==
    /\ MaxPorts \in Nat /\ MaxSlots \in Nat
    /\ MaxSlots >= MaxPorts
    /\ Endpoints \in [Ports -> Nat] /\ Pullable \subseteq Ports

VARIABLE x,      \* the state of driver and controller, a record
         i,      \* the next port of the loop in main.cpp
         pulled  \* history: the ports whose device was unplugged

vars == <<x, i, pulled>>

Phase == {"NotConnected", "WaitingAddressed", "ResettingPort", "EnablingSlot",
          "AddressingDevice", "InitializingDevice", "ConfiguringEndpoints", "Configured"}
Addressing == {"ResettingPort", "EnablingSlot", "AddressingDevice"}

\* A slot without Device object, and a new one (DeviceManager::AllocDevice).
\* port is root_hub_port_num of the device context, which the controller
\* writes, input the one of the input context; drivers counts the entries of
\* class_drivers_, all of one driver whose initialize_phase_ is hid.
NoDevice  == [alloc |-> FALSE, input |-> 0, port |-> 0, init |-> 0, drivers |-> 0, hid |-> 0]
NewDevice == [NoDevice EXCEPT !.alloc = TRUE]

Requests == {"GetDevice", "GetConfiguration", "SetConfiguration", "SetProtocol"}
Commands == [issuer : {"EnableSlot", "AddressDevice", "ConfigureEndpoint"}, slot : Slots]
Events   == [type : {"port"}, port : Ports]
       \cup [type : {"command"}, issuer : {"EnableSlot", "AddressDevice", "ConfigureEndpoint"}, slot : Slots]
       \cup [type : {"control"}, slot : Slots, request : Requests, ok : BOOLEAN]
       \cup [type : {"report"}, slot : Slots, ok : BOOLEAN]

TypeOK ==
    /\ x.phase \in [Ports \cup {0} -> Phase]
    /\ x.addressing_port \in Ports \cup {0}
    /\ x.portsc \in [Ports -> [connected : BOOLEAN, enabled : BOOLEAN, csc : BOOLEAN, prc : BOOLEAN]]
    /\ x.devices \in [Slots -> [alloc : BOOLEAN, input : Ports \cup {0}, port : Ports \cup {0},
                                init : 0..4, drivers : Nat, hid : 0..2]]
    /\ x.commands \in Seq(Commands)
    /\ x.control \in [Slots -> Seq(Requests)]
    /\ x.normal \in [Slots -> Nat]
    /\ x.events \in Seq(Events)
    /\ x.slots \in Slots
    /\ i \in 1..(MaxPorts + 1)
    /\ pulled \subseteq Ports

\* The controller runs and no device was seen yet.
Init ==
    /\ x = [phase           |-> [p \in Ports \cup {0} |-> "NotConnected"],
            addressing_port |-> 0,
            portsc   |-> [p \in Ports |-> [connected |-> FALSE, enabled |-> FALSE, csc |-> FALSE, prc |-> FALSE]],
            devices  |-> [s \in Slots |-> NoDevice],
            commands |-> << >>,                       \* the command ring, unconsumed
            control  |-> [s \in Slots |-> << >>],     \* the transfer ring of endpoint 0
            normal   |-> [s \in Slots |-> 0],         \* that of the interrupt endpoint
            events   |-> << >>,                       \* the event ring
            slots    |-> 0]                           \* the slots the controller gave out
    /\ i = 1
    /\ pulled = {}

-----------------------------------------------------------------------------
(* The port state machine of xhci.cpp, as functions of the state.          *)

Push(y, issuer, s) == [y EXCEPT !.commands = Append(@, [issuer |-> issuer, slot |-> s])]
PortEvent(p) == [type |-> "port", port |-> p]

\* Port::Reset: it clears the connect change and returns when the reset is
\* over; its end is another change, which the controller reports.
Reset(y, p) ==
    [y EXCEPT !.portsc[p] = [connected |-> @.connected, enabled |-> TRUE, csc |-> FALSE, prc |-> TRUE],
              !.events = Append(@, PortEvent(p))]

ResetPortAlways(y, p) ==
    IF ~y.portsc[p].connected THEN y
    ELSE Reset([y EXCEPT !.addressing_port = p, !.phase[p] = "ResettingPort"], p)
ResetPort(y, p) ==
    IF ~y.portsc[p].connected THEN y
    ELSE IF y.addressing_port # 0 THEN [y EXCEPT !.phase[p] = "WaitingAddressed"]
    ELSE IF y.phase[p] \notin {"NotConnected", "WaitingAddressed"} THEN y
    ELSE Reset([y EXCEPT !.addressing_port = p, !.phase[p] = "ResettingPort"], p)

EnableSlotSamePhase(y, p) ==
    IF y.portsc[p].enabled /\ y.portsc[p].prc
    THEN Push([y EXCEPT !.portsc[p].prc = FALSE], "EnableSlot", 0)
    ELSE y
EnableSlot(y, p) ==
    IF y.portsc[p].enabled /\ y.portsc[p].prc
    THEN Push([y EXCEPT !.portsc[p].prc = FALSE, !.phase[p] = "EnablingSlot"], "EnableSlot", 0)
    ELSE y

AllocDevice(y, s) == IF y.devices[s].alloc THEN y ELSE [y EXCEPT !.devices[s] = NewDevice]

AddressDevice(y, p, s) ==
    Push([AllocDevice(y, s) EXCEPT !.devices[s].input = p, !.phase[p] = "AddressingDevice"],
         "AddressDevice", s)

\* The TRBs of one request, which end on the event ring as one event
ControlIn(y, s, request)  == [y EXCEPT !.control[s] = Append(@, request)]
ControlOut(y, s, request) == [y EXCEPT !.control[s] = Append(@, request)]
InterruptIn(y, s)         == [y EXCEPT !.normal[s] = @ + 1]

StartInitialize(y, s) == ControlIn([y EXCEPT !.devices[s].init = 1], s, "GetDevice")
InitializeDevice(y, p, s) == StartInitialize([y EXCEPT !.phase[p] = "InitializingDevice"], s)

\* It gives up if the port has no speed, because nothing is connected.
ConfigureEndpoints(y, s) ==
    LET p == y.devices[s].port IN
    IF ~y.portsc[p].connected THEN y
    ELSE Push([y EXCEPT !.phase[p] = "ConfiguringEndpoints"], "ConfigureEndpoint", s)

\* HIDBaseDriver::OnEndpointsConfigured asks for the boot protocol;
\* usb::Device::OnEndpointsConfigured calls it for each entry of class_drivers_.
HidEndpointsConfigured(y, s) == ControlOut([y EXCEPT !.devices[s].hid = 1], s, "SetProtocol")
OnEndpointsConfigured(y, s) ==
    LET after[n \in 0..y.devices[s].drivers] ==
          IF n = 0 THEN y ELSE HidEndpointsConfigured(after[n - 1], s)
    IN  after[y.devices[s].drivers]

CompleteConfiguration(y, p, s) == [OnEndpointsConfigured(y, s) EXCEPT !.phase[p] = "Configured"]

-----------------------------------------------------------------------------
(* The initialisation of a device, usb/device.cpp and hid.cpp.             *)

InitializePhase1(y, s) == ControlIn([y EXCEPT !.devices[s].init = 2], s, "GetConfiguration")

\* A device without known interface stays in this phase.
InitializePhase2(y, s) ==
    LET n == Endpoints[y.devices[s].port] IN
    IF n = 0 THEN y
    ELSE ControlOut([y EXCEPT !.devices[s].init = 3, !.devices[s].drivers = n], s, "SetConfiguration")

InitializePhase3(y, s) == [y EXCEPT !.devices[s].init = 4]

\* HIDBaseDriver::OnControlCompleted
HidAnyPhase(y, s) == InterruptIn([y EXCEPT !.devices[s].hid = 2], s)
HidControlCompleted(y, s) ==
    IF y.devices[s].hid = 1 THEN InterruptIn([y EXCEPT !.devices[s].hid = 2], s) ELSE y

\* usb::Device::OnControlCompleted; init = 4 is is_initialized_
OnControlCompleted(y, s, request) ==
    LET init == y.devices[s].init IN
    CASE init = 4 /\ request = "SetProtocol"      -> HidControlCompleted(y, s)
      [] init = 1 /\ request = "GetDevice"        -> InitializePhase1(y, s)
      [] init = 2 /\ request = "GetConfiguration" -> InitializePhase2(y, s)
      [] init = 3 /\ request = "SetConfiguration" -> InitializePhase3(y, s)
      [] OTHER -> y

\* HIDBaseDriver::OnInterruptCompleted: the next report is asked for.
OnInterruptCompleted(y, s) == InterruptIn(y, s)

\* A failed transfer changes nothing.
OnTransferEventReceived(y, e) ==
    IF ~e.ok THEN y
    ELSE IF e.type = "report" THEN OnInterruptCompleted(y, e.slot)
    ELSE OnControlCompleted(y, e.slot, e.request)

-----------------------------------------------------------------------------
(* OnEvent, for each kind of event.                                        *)

OnPortAlwaysResets(y, p) ==
    IF y.phase[p] = "ResettingPort" THEN EnableSlot(y, p) ELSE ResetPort(y, p)
OnPort(y, p) ==
    CASE y.phase[p] = "NotConnected"  -> ResetPort(y, p)
      [] y.phase[p] = "ResettingPort" -> EnableSlot(y, p)
      [] OTHER -> y

OnTransfer(y, e) ==
    LET z == OnTransferEventReceived(y, e)
        d == z.devices[e.slot]
    IN  IF e.ok /\ d.init = 4 /\ z.phase[d.port] = "InitializingDevice"
        THEN ConfigureEndpoints(z, e.slot)
        ELSE z

\* The first waiting port, if there is one, is reset.
NextWaitingForgotten(y) == y
NextWaiting(y) ==
    LET W == {p \in Ports : y.phase[p] = "WaitingAddressed"} IN
    IF W = {} THEN y ELSE ResetPort(y, CHOOSE p \in W : \A q \in W : p <= q)

OnAddressed(y, s) ==
    LET p == y.devices[s].port IN
    IF p = y.addressing_port /\ y.phase[p] = "AddressingDevice"
    THEN InitializeDevice(NextWaiting([y EXCEPT !.addressing_port = 0]), p, s)
    ELSE y

OnCommand(y, issuer, s) ==
    CASE issuer = "EnableSlot" ->
           IF y.phase[y.addressing_port] = "EnablingSlot" THEN AddressDevice(y, y.addressing_port, s) ELSE y
      [] issuer = "AddressDevice" -> OnAddressed(y, s)
      [] issuer = "ConfigureEndpoint" ->
           IF y.phase[y.devices[s].port] = "ConfiguringEndpoints"
           THEN CompleteConfiguration(y, y.devices[s].port, s) ELSE y

OnEvent(y, e) ==
    CASE e.type = "port"    -> OnPort(y, e.port)
      [] e.type = "command" -> OnCommand(y, e.issuer, e.slot)
      [] OTHER -> OnTransfer(y, e)

-----------------------------------------------------------------------------
\* The loop of main.cpp that configures what is connected already
ConfigurePort ==
    /\ i <= MaxPorts
    /\ i' = i + 1
    /\ x' = IF x.phase[i] = "NotConnected" THEN ResetPort(x, i) ELSE x
    /\ UNCHANGED pulled

\* The main loop: ProcessEvent takes the event off the ring after its handler.
ProcessEvent ==
    /\ i > MaxPorts
    /\ x.events # << >>
    /\ x' = LET y == OnEvent(x, Head(x.events)) IN [y EXCEPT !.events = Tail(@)]
    /\ UNCHANGED <<i, pulled>>

\* The controller executes the commands in order.
Complete(y, c, s) ==
    [y EXCEPT !.commands = Tail(@), !.events = Append(@, [type |-> "command", issuer |-> c.issuer, slot |-> s])]
ExecuteCommand ==
    /\ x.commands # << >>
    /\ LET c == Head(x.commands) IN
          \/ /\ c.issuer = "EnableSlot"
             /\ x' = Complete([x EXCEPT !.slots = @ + 1], c, x.slots + 1)
          \/ /\ c.issuer = "AddressDevice"
             /\ LET p == x.devices[c.slot].input IN
                x' = Complete(IF x.portsc[p].enabled THEN [x EXCEPT !.devices[c.slot].port = p] ELSE x, c, c.slot)
          \/ /\ c.issuer = "ConfigureEndpoint"
             /\ x' = Complete(x, c, c.slot)
    /\ UNCHANGED <<i, pulled>>

\* A transfer reaches the device if its port is enabled.
Reachable(s) == x.devices[s].port # 0 /\ x.portsc[x.devices[s].port].enabled
ExecuteControl(s) ==
    /\ x.control[s] # << >>
    /\ x' = [x EXCEPT !.control[s] = Tail(@),
                      !.events = Append(@, [type |-> "control", slot |-> s, request |-> Head(x.control[s]),
                                            ok |-> Reachable(s)])]
    /\ UNCHANGED <<i, pulled>>
SendReport(s) ==
    /\ x.normal[s] > 0
    /\ x' = [x EXCEPT !.normal[s] = @ - 1,
                      !.events = Append(@, [type |-> "report", slot |-> s, ok |-> Reachable(s)])]
    /\ UNCHANGED <<i, pulled>>

\* A change is reported unless an earlier one is still flagged in the port.
Change(p, portsc) ==
    x' = [x EXCEPT !.portsc[p] = portsc,
                   !.events = IF x.portsc[p].csc \/ x.portsc[p].prc THEN @ ELSE Append(@, PortEvent(p))]
Plug(p) ==
    /\ ~x.portsc[p].connected
    /\ Change(p, [x.portsc[p] EXCEPT !.connected = TRUE, !.csc = TRUE])
    /\ UNCHANGED <<i, pulled>>
Unplug(p) ==
    /\ x.portsc[p].connected
    /\ p \in Pullable \ pulled
    /\ Change(p, [x.portsc[p] EXCEPT !.connected = FALSE, !.enabled = FALSE, !.csc = TRUE])
    /\ pulled' = pulled \cup {p}
    /\ UNCHANGED i

Next ==
    \/ ConfigurePort
    \/ ProcessEvent
    \/ ExecuteCommand
    \/ \E s \in Slots : ExecuteControl(s)
    \/ \E s \in Slots : SendReport(s)
    \/ \E p \in Ports : Plug(p)
    \/ \E p \in Ports : Unplug(p)

Spec == Init /\ [][Next]_vars

(***************************************************************************)
(* The main loop runs on; the controller executes commands and control     *)
(* transfers.  Nothing is assumed about plugs and reports.                 *)
(***************************************************************************)
Fairness ==
    /\ WF_vars(ConfigurePort \/ ProcessEvent)
    /\ WF_vars(ExecuteCommand)
    /\ WF_vars(\E s \in Slots : ExecuteControl(s))

FairSpec == Spec /\ Fairness

-----------------------------------------------------------------------------
(***************************************************************************)
(* The comments of xhci.cpp on ConfigPhase and addressing_port: from its   *)
(* reset until it has its address a port is handled alone, and             *)
(* addressing_port is its number, 0 if there is none.  The state is well   *)
(* typed.                                                                  *)
(***************************************************************************)
OneAddressing ==
    /\ TypeOK
    /\ \A p \in Ports : x.phase[p] \in Addressing <=> p = x.addressing_port

\* How often a command is on the command ring or its completion on the event ring.
InFlight(issuer, s) ==
    Cardinality({k \in DOMAIN x.commands : x.commands[k] = [issuer |-> issuer, slot |-> s]})
    + Cardinality({k \in DOMAIN x.events :
                      x.events[k] = [type |-> "command", issuer |-> issuer, slot |-> s]})
EnablesInFlight ==
    Cardinality({k \in DOMAIN x.commands : x.commands[k].issuer = "EnableSlot"})
    + Cardinality({k \in DOMAIN x.events : x.events[k].type = "command" /\ x.events[k].issuer = "EnableSlot"})
ReportsInFlight(s) ==
    x.normal[s] + Cardinality({k \in DOMAIN x.events : x.events[k].type = "report" /\ x.events[k].slot = s})

(***************************************************************************)
(* A completion carries no port: the driver matches it through its phases  *)
(* and addressing_port.  Each command in flight is the one its port is     *)
(* waiting for, so that no completion is refused or applied to another     *)
(* port, whatever the order of the events; only an address command may     *)
(* have ended in vain, when the device was unplugged.                      *)
(***************************************************************************)
CommandsAwaited ==
    /\ EnablesInFlight = Cardinality({p \in Ports : x.phase[p] = "EnablingSlot"})
    /\ \A s \in Slots :
          LET d == x.devices[s] IN
          /\ InFlight("ConfigureEndpoint", s)
                = IF d.port # 0 /\ x.phase[d.port] = "ConfiguringEndpoints" THEN 1 ELSE 0
          /\ d.alloc /\ x.phase[d.input] = "AddressingDevice"
                => InFlight("AddressDevice", s) = 1 \/ d.input \in pulled
          /\ InFlight("AddressDevice", s) > 0
                => InFlight("AddressDevice", s) = 1 /\ x.addressing_port = d.input

(***************************************************************************)
(* The reports of a device are asked for one at a time: once the driver of *)
(* a device has asked, one interrupt transfer is in flight for ever, and   *)
(* never two, although OnEndpointsConfigured runs once for each endpoint   *)
(* of the interface.                                                       *)
(***************************************************************************)
OneReport ==
    \A s \in Slots :
       LET d == x.devices[s] IN
       /\ d.hid < 2 => ReportsInFlight(s) = 0
       /\ d.hid = 2 /\ d.port \notin pulled => ReportsInFlight(s) = 1
       /\ ReportsInFlight(s) <= 1

Rank(phase) ==
    CASE phase = "NotConnected"       -> 0 [] phase = "WaitingAddressed"     -> 1
      [] phase = "ResettingPort"      -> 2 [] phase = "EnablingSlot"         -> 3
      [] phase = "AddressingDevice"   -> 4 [] phase = "InitializingDevice"   -> 5
      [] phase = "ConfiguringEndpoints" -> 6 [] phase = "Configured"         -> 7

(***************************************************************************)
(* A port goes through its phases in order and skips none but the wait,    *)
(* whatever repeated or late events come: ResetPort puts a port into       *)
(* kWaitingAddressed without a look at its phase.                          *)
(***************************************************************************)
PhasesForward ==
    [][\A p \in Ports :
          \/ x'.phase[p] = x.phase[p]
          \/ Rank(x'.phase[p]) = Rank(x.phase[p]) + 1
          \/ x.phase[p] = "NotConnected" /\ x'.phase[p] = "ResettingPort"]_vars

\* A port that was unplugged in the middle of its addressing holds up the others.
Blocked == \E p \in pulled : x.phase[p] \in Addressing \cup {"WaitingAddressed"}

(***************************************************************************)
(* Every device with a known interface that is plugged in is configured    *)
(* and asked for reports, in whatever order the devices come, unless it is *)
(* unplugged or another device is unplugged while its port is addressed or *)
(* waits for that.                                                         *)
(***************************************************************************)
PortsConfigured ==
    \A p \in Ports :
       x.portsc[p].connected /\ Endpoints[p] > 0
          ~> \/ \E s \in Slots : x.devices[s].port = p /\ x.devices[s].hid = 2
             \/ p \in pulled \/ Blocked
=============================================================================
