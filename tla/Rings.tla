---- MODULE Rings ----
(***************************************************************************)
(* The rings between the 64-bit kernel and the xHCI controller, and the    *)
(* event loop that serves them: Ring::Push and EventRing (src/usb/xhci/    *)
(* ring.cpp), the interrupt handler and the main loop (src/main.cpp) and   *)
(* the ArrayQueue between those two (src/queue.hpp).                       *)
(*                                                                         *)
(* Neither ring has a shared count of its entries: producer and consumer   *)
(* each keep an index and a cycle bit, and an entry belongs to the         *)
(* consumer when its cycle bit is the consumer's.  The controller runs     *)
(* beside the kernel, so every store of Ring::CopyToLast is a step of its  *)
(* own.  A TRB is the pair of what data[0..2] and what data[3] hold; the   *)
(* commands are numbered in the order they are pushed, and so are the      *)
(* events in the order the controller posts them.                          *)
(*                                                                         *)
(* The controller, its interrupt and the local APIC are external: the      *)
(* controller runs commands while a doorbell is pending, posts an event    *)
(* for each and others of its own, keeps one slot of the event ring free   *)
(* and raises an interrupt, which stays pending until it is taken.         *)
(***************************************************************************)
EXTENDS Naturals, Sequences

CONSTANTS RingSize,       \* buf_size_ of the command ring, the link TRB included
          EventRingSize,  \* buf_size_ of the event ring
          QueueSize,      \* capacity_ of main_queue
          MaxOutstanding, \* commands the driver has under way at a time
          MaxCommands, MaxEvents  \* bounds of the instance

(* Push does not test for a full ring.  The driver has one command under way
   for the port it addresses and one for each device it configures, 9 of 30.
   The bound is not RingSize - 1, the slots beside the link: with all of them
   outstanding the controller may still stand before the link TRB, and a lap
   later Push stores the next one over it. *)
ASSUME RingsAssumption ==
  /\ {RingSize, EventRingSize} \subseteq Nat \ {0, 1}
  /\ MaxOutstanding \in 1 .. RingSize - 2
  /\ {QueueSize, MaxCommands, MaxEvents} \subseteq Nat

VARIABLES buf_, write_index_, cycle_bit_, \* the command ring, its producer
          copying,      \* the TRB CopyToLast is storing, or <<>>
          issued,       \* commands pushed so far
          deq, ccs,     \* the controller's dequeue index and cycle state
          doorbell,     \* doorbell 0 was rung and not yet served
          executed,     \* what the controller executed
          er, enq, pcs, \* the event ring, its producer
          erdp, er_cycle_bit_, \* its consumer
          posted, seen, \* events posted, events processed
          count_,       \* messages in main_queue
          irq, iflag,   \* interrupt pending, interrupts enabled
          pc            \* where the kernel's thread stands

cmdVars == <<buf_, write_index_, cycle_bit_, copying, issued>>
xhcVars == <<deq, ccs, doorbell, executed>>
evVars == <<er, enq, pcs, erdp, er_cycle_bit_, posted, seen>>
cpuVars == <<count_, irq, iflag, pc>>
ringsVars == <<cmdVars, xhcVars, evVars, cpuVars>>

None == 0
Link == MaxCommands + 1   \* what no command's number is

(* Ring::Initialize, EventRing::Initialize and the construction of main_queue;
   interrupts are off until the controller runs. *)
CommandRingInit ==
  /\ buf_ = [i \in 0 .. RingSize - 1 |-> [body |-> None, ctl |-> None, cycle |-> 0]]
  /\ write_index_ = 0 /\ cycle_bit_ = 1 /\ copying = <<>> /\ issued = 0

EventRingInit ==
  /\ er = [i \in 0 .. EventRingSize - 1 |-> [event |-> None, cycle |-> 0]]
  /\ enq = 0 /\ pcs = 1 /\ erdp = 0 /\ er_cycle_bit_ = 1 /\ posted = 0 /\ seen = <<>>

RingsInit ==
  /\ CommandRingInit /\ EventRingInit
  /\ deq = 0 /\ ccs = 1 /\ doorbell = FALSE /\ executed = <<>>
  /\ count_ = 0 /\ irq = FALSE /\ iflag = FALSE /\ pc = "boot"

----
(* The kernel's main thread. *)

Goto(from, to) == pc = from /\ pc' = to

(* sti after Controller::Run.  Configuring the ports writes port registers only. *)
EnableInterrupts ==
  /\ Goto("boot", "loop") /\ iflag' = TRUE
  /\ UNCHANGED <<cmdVars, xhcVars, evVars, count_, irq>>

NoCli ==
  /\ Goto("loop", "test")
  /\ UNCHANGED <<cmdVars, xhcVars, evVars, count_, irq, iflag>>

Cli ==
  /\ Goto("loop", "test") /\ iflag' = FALSE
  /\ UNCHANGED <<cmdVars, xhcVars, evVars, count_, irq>>

QueueIsEmpty ==
  /\ count_ = 0 /\ Goto("test", "idle")
  /\ UNCHANGED <<cmdVars, xhcVars, evVars, count_, irq, iflag>>

(* sti;hlt: no interrupt is taken between the two instructions. *)
StiHlt ==
  /\ Goto("idle", "halted") /\ iflag' = TRUE
  /\ UNCHANGED <<cmdVars, xhcVars, evVars, count_, irq>>

(* Front and Pop with interrupts off, then sti. *)
TakeMessage ==
  /\ count_ > 0 /\ Goto("test", "drain")
  /\ count_' = count_ - 1 /\ iflag' = TRUE
  /\ UNCHANGED <<cmdVars, xhcVars, evVars, irq>>

(* The slot after i in the one segment of the event ring. *)
After(i) == IF i + 1 = EventRingSize THEN 0 ELSE i + 1

HasFront == er[erdp].cycle = er_cycle_bit_

(* The loop over HasFront, and the same test at the head of ProcessEvent. *)
Drained ==
  /\ ~ HasFront /\ Goto("drain", "loop")
  /\ UNCHANGED <<cmdVars, xhcVars, evVars, count_, irq, iflag>>

(* OnEvent looks at the event and may issue a command. *)
OnEvent ==
  /\ pc = "drain" /\ HasFront
  /\ seen' = Append(seen, er[erdp].event)
  /\ \/ pc' = "pop" /\ UNCHANGED <<copying, issued>>
     \/ /\ issued < MaxCommands /\ issued - Len(executed) < MaxOutstanding
        /\ pc' = "data012" /\ issued' = issued + 1 /\ copying' = <<issued + 1>>
  /\ UNCHANGED <<buf_, write_index_, cycle_bit_, xhcVars, er, enq, pcs, erdp,
                 er_cycle_bit_, posted, count_, irq, iflag>>

(* CopyToLast: data[0..2], then data[3], whose cycle bit is 0 as built, then
   the cycle bit.  The slot may become the controller's at either of the last. *)
Item == Head(copying)

CopyData ==
  /\ Goto("data012", "data3")
  /\ buf_' = [buf_ EXCEPT ![write_index_].body = Item]
  /\ UNCHANGED <<write_index_, cycle_bit_, copying, issued, xhcVars, evVars, count_, irq, iflag>>

CopyControl ==
  /\ Goto("data3", "cycle")
  /\ buf_' = [buf_ EXCEPT ![write_index_].ctl = Item, ![write_index_].cycle = 0]
  /\ UNCHANGED <<write_index_, cycle_bit_, copying, issued, xhcVars, evVars, count_, irq, iflag>>

(* The last store, and what Push does after it: advance, and at the last slot
   copy the link TRB and start the next lap with the other cycle bit. *)
CopyCycle ==
  /\ pc = "cycle"
  /\ buf_' = [buf_ EXCEPT ![write_index_].cycle = cycle_bit_]
  /\ IF Item = Link
       THEN /\ write_index_' = 0 /\ cycle_bit_' = 1 - cycle_bit_
            /\ copying' = <<>> /\ pc' = "ring"
       ELSE /\ write_index_' = write_index_ + 1 /\ UNCHANGED cycle_bit_
            /\ IF write_index_ + 1 = RingSize - 1
                 THEN copying' = <<Link>> /\ pc' = "data012"
                 ELSE copying' = <<>> /\ pc' = "ring"
  /\ UNCHANGED <<issued, xhcVars, evVars, count_, irq, iflag>>

RingDoorbell ==
  /\ Goto("ring", "pop") /\ doorbell' = TRUE
  /\ UNCHANGED <<cmdVars, deq, ccs, executed, evVars, count_, irq, iflag>>

PopKeepsCycle ==
  /\ Goto("pop", "drain")
  /\ erdp' = After(erdp)
  /\ UNCHANGED <<cmdVars, xhcVars, er, enq, pcs, er_cycle_bit_, posted, seen, count_, irq, iflag>>

(* EventRing::Pop: step over the entry, flip the cycle bit at the end of the
   segment, and tell the controller with ERDP. *)
Pop ==
  /\ Goto("pop", "drain")
  /\ erdp' = After(erdp)
  /\ er_cycle_bit_' = IF erdp + 1 = EventRingSize THEN 1 - er_cycle_bit_ ELSE er_cycle_bit_
  /\ UNCHANGED <<cmdVars, xhcVars, er, enq, pcs, posted, seen, count_, irq, iflag>>

(* ArrayQueue::Push: a full queue refuses the message, and the interrupt
   handler does not look at the error. *)
Push == count_' = IF count_ = QueueSize THEN count_ ELSE count_ + 1

IntHandlerXHCI ==
  /\ irq /\ iflag /\ irq' = FALSE
  /\ Push
  /\ pc' = IF pc = "halted" THEN "loop" ELSE pc
  /\ UNCHANGED <<cmdVars, xhcVars, evVars, iflag>>

----
(* The controller. *)

CanPost == After(enq) # erdp /\ posted < MaxEvents

PostEvent ==
  /\ CanPost
  /\ er' = [er EXCEPT ![enq] = [event |-> posted + 1, cycle |-> pcs]]
  /\ enq' = After(enq)
  /\ pcs' = IF enq + 1 = EventRingSize THEN 1 - pcs ELSE pcs
  /\ posted' = posted + 1 /\ irq' = TRUE
  /\ UNCHANGED <<erdp, er_cycle_bit_, seen>>

(* A port change or a finished transfer. *)
ControllerEvent ==
  /\ PostEvent
  /\ UNCHANGED <<cmdVars, xhcVars, count_, iflag, pc>>

(* The controller serves the command ring until it meets an entry that is
   not its own; a link TRB takes it to the start with the other cycle state. *)
Own == buf_[deq].cycle = ccs

ControllerCommand ==
  /\ doorbell /\ Own /\ buf_[deq].ctl # Link
  /\ executed' = Append(executed, <<buf_[deq].body, buf_[deq].ctl>>)
  /\ deq' = deq + 1
  /\ PostEvent
  /\ UNCHANGED <<cmdVars, ccs, doorbell, count_, iflag, pc>>

ControllerLink ==
  /\ doorbell /\ Own /\ buf_[deq].ctl = Link
  /\ deq' = 0 /\ ccs' = 1 - ccs
  /\ UNCHANGED <<cmdVars, doorbell, executed, evVars, cpuVars>>

ControllerIdle ==
  /\ doorbell /\ ~ Own /\ doorbell' = FALSE
  /\ UNCHANGED <<cmdVars, deq, ccs, executed, evVars, cpuVars>>

KernelThread ==
  \/ EnableInterrupts \/ Cli \/ QueueIsEmpty \/ StiHlt \/ TakeMessage \/ Drained \/ OnEvent
  \/ CopyData \/ CopyControl \/ CopyCycle \/ RingDoorbell \/ Pop

ControllerServes == ControllerCommand \/ ControllerLink \/ ControllerIdle

RingsNext == KernelThread \/ IntHandlerXHCI \/ ControllerEvent \/ ControllerServes
RingsSpec == RingsInit /\ [][RingsNext]_ringsVars

----
(***************************************************************************)
(* The controller executes the commands the driver issued, each once, in   *)
(* order and never half stored, and the driver processes the events the    *)
(* controller posted, each once and in order: over any number of laps of   *)
(* both rings, with the cycle bits alone to tell new entries from old.     *)
(***************************************************************************)
RingsInOrder ==
  /\ executed = [i \in 1 .. Len(executed) |-> <<i, i>>] /\ Len(executed) =< issued
  /\ seen = [i \in 1 .. Len(seen) |-> i] /\ Len(seen) =< posted

(***************************************************************************)
(* Every posted event is processed and every issued command executed, also *)
(* when main_queue is full and its interrupt's message is dropped, when an *)
(* event arrives while the ring is being drained, and when the interrupt   *)
(* comes between the test of the queue and hlt.                            *)
(***************************************************************************)
EveryEventHandled ==
  /\ \A n \in 1 .. MaxEvents : posted >= n ~> Len(seen) >= n
  /\ \A n \in 1 .. MaxCommands : issued >= n ~> (Len(executed) >= n \/ posted = MaxEvents)

====
