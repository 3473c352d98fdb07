---- MODULE Interrupts ----
(***************************************************************************)
(* Interrupts and the keyboard controller of the 32-bit kernel             *)
(* (drivers/ps2kbc.c, pic/pic.c, idt/idt.c, idt/idt.asm).  kernel_main     *)
(* polls the controller through the set-up of keyboard and mouse with      *)
(* interrupts off, programs the two interrupt controllers and enables      *)
(* interrupts.  From then on every byte of either device sits in the       *)
(* controller's one output buffer until the handler of its line reads it.  *)
(* The timer's handler may leave for another task without returning.       *)
(*                                                                         *)
(* The first interrupt controller is edge-triggered: a request is latched  *)
(* when the line rises.  The second is level-triggered (ICW1_LEVEL), so    *)
(* IRQ 12 is requested as long as a byte of the mouse sits in the buffer.  *)
(***************************************************************************)
EXTENDS Naturals, Sequences, SequencesExt

CONSTANTS FifoSize, \* entries of keymousefifo
          MaxScans, \* bytes the keyboard sends
          MaxMoves  \* bytes the mouse sends of itself

ASSUME FifoSizeAssumption == FifoSize \in Nat \ {0}

VARIABLES ip,     \* the next entry of kernel_main
          at,     \* where the processor is in the running task
          task, frames, \* the running task, and where the other one was left
          irr, isr, imr, \* requested (edges), in service, masked
          obf, inbuf, last, \* the controller's two buffers, and the byte last read
          answers, expects, \* what the controller has to say, and what its next byte is for
          disabled2, int2,  \* bits 5 and 1 of its configuration byte
          mouseDev, scans,  \* the mouse, and the bytes the keyboard has sent
          early,  \* of them, the ones sent before PIC_init
          lull,   \* the processor has come to something else since the last tick or noise
          keymousefifo,
          taken, lost \* history: what eventloop took out of it, and the bytes it had no room for

cpuVars == <<ip, at, task, frames>>
picVars == <<irr, isr, imr>>
kbcVars == <<obf, inbuf, last, answers, expects, disabled2, int2, mouseDev, scans>>
fifoVars == <<keymousefifo, taken, lost>>
inputVars == <<cpuVars, picVars, kbcVars, early, lull, fifoVars>>

Task == {"task3", "console"}
Irqs == {0, 1, 2, 12}

-----------------------------------------------------------------------------
(* The set-up, one entry for each access to a port. *)
ps2kbc_KBC_init ==
  << <<"flush", "">>,
     <<"cmd", "config read">>, <<"conf", "">>,
     <<"cmd", "config write">>, <<"data", "conf">>,
     <<"cmd", "reset">>, <<"poll", "">> >>

ps2kbc_MOUSE_init ==
  << <<"flush", "">>,
     <<"cmd", "aux">>, <<"data", "reset">>,
     <<"read", "">>, <<"read", "">>, <<"read", "">>,
     <<"cmd", "aux">>, <<"data", "enable">>,
     <<"cmd", "reset">>, <<"poll", "">> >>

PIC_init == << <<"mask", "">>, <<"icw", "">>, <<"unmask", "">> >>

(* A plausible error: the order a comment in kernel_main finds "more logical". *)
PicFirst == PIC_init \o ps2kbc_KBC_init \o ps2kbc_MOUSE_init \o << <<"sti", "">> >>
kernel_main == ps2kbc_KBC_init \o ps2kbc_MOUSE_init \o PIC_init \o << <<"sti", "">> >>

Booting == at = "boot"
Op == kernel_main[ip][1]
Arg == kernel_main[ip][2]
Done == ip' = ip + 1

(* Firmware leaves the second port disabled, or enabled with its interrupt on. *)
AtPowerOn ==
  /\ task = "task3" /\ frames = [t \in Task |-> "code"]
  /\ irr = {} /\ isr = {} /\ imr = {}
  /\ obf = <<>> /\ inbuf = <<>> /\ last = <<"kbc", 1>> /\ answers = <<>> /\ expects = ""
  /\ disabled2 \in BOOLEAN /\ int2 \in BOOLEAN /\ (disabled2 \/ int2)
  /\ mouseDev = [sent |-> 0, owed |-> 0, on |-> FALSE, moves |-> 0]
  /\ scans = 0 /\ early = 0 /\ lull = TRUE 
  /\ keymousefifo = <<>> /\ taken = {} /\ lost = {}
InputInit == AtPowerOn /\ ip = 1 /\ at = "boot"

(* _io_in8(PS2KBC_PORT_DATA_RW): an empty buffer gives the last byte again. *)
Data == IF obf = <<>> THEN last ELSE obf[1]
Holds(d) == obf # <<>> /\ obf[1][1] = d
ReadData == obf' = <<>> /\ last' = Data
UnchangedButRead == UNCHANGED <<inbuf, answers, expects, disabled2, int2, mouseDev, scans>>

(* if (OUTPUT_BUF_FULL) _io_in8(DATA) *)
Flush ==
  /\ Op = "flush" /\ Done
  /\ IF obf # <<>> THEN ReadData ELSE UNCHANGED <<obf, last>>
  /\ UnchangedButRead /\ UNCHANGED <<at, picVars, early>>

(* ps2kbc_wait_KBC_writeReady, then a byte for the command or the data port *)
Out ==
  /\ Op \in {"cmd", "data"} /\ inbuf = <<>> /\ Done
  /\ inbuf' = <<kernel_main[ip]>>
  /\ UNCHANGED <<at, picVars, obf, last, answers, expects, disabled2, int2, mouseDev, scans, early>>

(* ps2kbc_wait_KBC_readReady, then the byte, whatever it is *)
In ==
  /\ Op = "read" /\ obf # <<>> /\ Done
  /\ ReadData
  /\ UnchangedButRead /\ UNCHANGED <<at, picVars, early>>

(* The configuration byte, and the return when its bit 5 is clear.  A byte
   of a device that came first is taken for it. *)
ReadConf ==
  /\ Op = "conf" /\ obf # <<>>
  /\ ReadData
  /\ \E bit5 \in (IF Data[1] = "kbc" THEN {disabled2} ELSE BOOLEAN) :
       ip' = IF bit5 THEN ip + 1 ELSE Len(ps2kbc_KBC_init) + 1
  /\ UnchangedButRead /\ UNCHANGED <<at, picVars, early>>

(* The thousand polls, which outlast what the controller itself answers. *)
Poll ==
  /\ Op = "poll"
  /\ \/ obf # <<>> /\ ReadData /\ UNCHANGED ip
     \/ /\ inbuf = <<>> /\ answers = <<>> /\ ~Holds("kbc")
        /\ Done /\ UNCHANGED <<obf, last>>
  /\ UnchangedButRead /\ UNCHANGED <<at, picVars, early>>

(* PIC_init: OCW1, the initialisation words, which forget the edges, OCW1 *)
ProgramPic ==
  /\ Op \in {"mask", "icw", "unmask"} /\ Done
  /\ imr' = CASE Op = "mask" -> Irqs [] Op = "icw" -> imr [] Op = "unmask" -> {}
  /\ IF Op = "icw" THEN irr' = {} /\ isr' = {} /\ early' = scans
                   ELSE UNCHANGED <<irr, isr, early>>
  /\ UNCHANGED <<at, kbcVars>>

EnableInterrupts ==
  /\ Op = "sti" /\ at' = "code"
  /\ UNCHANGED <<ip, picVars, kbcVars, early>>

Boot ==
  /\ Booting
  /\ Flush \/ Out \/ In \/ ReadConf \/ Poll \/ ProgramPic \/ EnableInterrupts
  /\ UNCHANGED <<task, frames, lull, fifoVars>>

-----------------------------------------------------------------------------
(* The hardware. *)
ProcessorRests == UNCHANGED <<cpuVars, isr, imr, early, fifoVars>>

(* The controller takes up what was written to it. *)
ControllerTakes ==
  /\ inbuf # <<>> /\ inbuf' = <<>>
  /\ LET port == inbuf[1][1]  byte == inbuf[1][2] IN
     \/ port = "cmd" /\ byte = "config read" /\ answers' = Append(answers, <<"kbc", 1>>)
        /\ UNCHANGED <<expects, disabled2, int2, mouseDev>>
     \/ port = "cmd" /\ byte \in {"config write", "aux"} /\ expects' = byte
        /\ UNCHANGED <<answers, disabled2, int2, mouseDev>>
     \/ port = "cmd" /\ byte = "reset" /\ answers' \in {answers, Append(answers, <<"kbc", 1>>)}
        /\ UNCHANGED <<expects, disabled2, int2, mouseDev>>
     \/ port = "data" /\ expects = "config write" /\ int2' = TRUE
        /\ UNCHANGED <<answers, expects, disabled2, mouseDev>>
     \/ port = "data" /\ expects = "aux" /\ disabled2' = FALSE
        /\ mouseDev' = [mouseDev EXCEPT !.owed = IF byte = "reset" THEN 3 ELSE @ + 1,
                                        !.on = byte = "enable"]
        /\ UNCHANGED <<answers, expects, int2>>
  /\ UNCHANGED <<obf, last, scans, irr, lull>> /\ ProcessorRests

(* A byte enters the empty output buffer: an answer of the controller's or a
   scancode, which raise line 1, or a byte of the mouse, which raises line 12. *)
ByteArrives ==
  /\ obf = <<>>
  /\ \/ /\ answers # <<>> /\ obf' = <<Head(answers)>> /\ answers' = Tail(answers)
        /\ irr' = irr \cup {1} /\ UNCHANGED <<mouseDev, scans>>
     \/ /\ scans < MaxScans /\ scans' = scans + 1 /\ obf' = << <<"kbd", scans'>> >>
        /\ irr' = irr \cup {1} /\ UNCHANGED <<mouseDev, answers>>
     \/ /\ mouseDev.owed > 0 \/ (mouseDev.on /\ mouseDev.moves < MaxMoves)
        /\ obf' = << <<"mouse", mouseDev.sent + 1>> >>
        /\ mouseDev' = [mouseDev EXCEPT !.sent = @ + 1,
                          !.owed = IF @ > 0 THEN @ - 1 ELSE 0,
                          !.moves = IF mouseDev.owed > 0 THEN @ ELSE @ + 1]
        /\ UNCHANGED <<irr, answers, scans>>
  /\ UNCHANGED <<inbuf, last, expects, disabled2, int2, lull>> /\ ProcessorRests

(* Ticks are 10 ms apart: the processor comes to something else in between. *)
Tick ==
  /\ lull /\ lull' = FALSE
  /\ irr' = irr \cup {0}
  /\ UNCHANGED <<kbcVars>> /\ ProcessorRests

Line12 == Holds("mouse") /\ int2
Requested == irr \cup (IF Line12 /\ ~({12} \subseteq isr \cup imr) THEN {2} ELSE {})
(* What the first controller passes on: a line not masked, with none of its
   own or a higher priority in service. *)
Interrupting == {i \in Requested \ imr : \A j \in isr : j > i}

(* idt_int_default_handler: the handler of a vector. *)
HandlerOf(i) == CASE i = 0 -> "int20h" [] i = 1 -> "int21h" [] i = 2 -> "int2ch"

(* The interrupt gate clears IF; the macro of idt.asm calls the dispatcher. *)
Interrupt(i) ==
  /\ at = "code" /\ i \in Interrupting /\ \A j \in Interrupting : i <= j
  /\ irr' = irr \ {i}
  /\ isr' = isr \cup (IF i = 2 THEN {2, 12} ELSE {i})
  /\ at' = HandlerOf(i)
  /\ lull' = (lull \/ i # 0)
  /\ UNCHANGED <<ip, task, frames, imr, kbcVars, early, fifoVars>>

(* A request that is gone when the processor asks for it comes as vector 0x27
   with nothing in service, and the dispatcher returns without an EOI.  It is
   as rare as a tick. *)
Spurious ==
  /\ at = "code" /\ lull /\ lull' = FALSE
  /\ at' = "iret"
  /\ UNCHANGED <<ip, task, frames, picVars, kbcVars, early, fifoVars>>

-----------------------------------------------------------------------------
(* The handlers. *)
PIC_sendEOI(irq) == isr' = isr \ (IF irq < 8 THEN {irq} ELSE {irq, 2})

(* mprocess_task_switch: the far jump leaves this task where it is. *)
Leave(where) ==
  \E t \in Task \ {task} :
    /\ task' = t /\ at' = frames[t]
    /\ frames' = [frames EXCEPT ![task] = where]

(* A plausible error: the EOI once the handler is back. *)
EoiLast ==
  /\ \/ at = "int20h" /\ PIC_sendEOI(0) /\ at' = "iret" /\ UNCHANGED <<task, frames>>
     \/ at = "int20h" /\ Leave("eoi") /\ UNCHANGED isr
     \/ at = "eoi" /\ PIC_sendEOI(0) /\ at' = "iret" /\ UNCHANGED <<task, frames>>
  /\ UNCHANGED <<ip, irr, imr, kbcVars, early, lull, fifoVars>>

(* The timer: EOI, then timer_int_handler, which returns or switches tasks. *)
int20h ==
  /\ at = "int20h" /\ PIC_sendEOI(0)
  /\ \/ at' = "iret" /\ UNCHANGED <<task, frames>>
     \/ Leave("iret")
  /\ UNCHANGED <<ip, irr, imr, kbcVars, early, lull, fifoVars>>

(* Keyboard and mouse: the byte, ... *)
HandlerReads ==
  /\ at \in {"int21h", "int2ch"}
  /\ ReadData /\ at' = IF at = "int21h" THEN "eoi1" ELSE "eoi12"
  /\ UnchangedButRead /\ UNCHANGED <<ip, task, frames, picVars, early, lull, fifoVars>>

(* ... the EOI and mpfifo32_enqueue, with the offset of the device; that the
   queue is full is not noticed *)
HandlerEnds ==
  /\ at \in {"eoi1", "eoi12"}
  /\ PIC_sendEOI(IF at = "eoi1" THEN 1 ELSE 12)
  /\ LET e == <<IF at = "eoi1" THEN "kbd" ELSE "mouse", last>>
     IN IF Len(keymousefifo) < FifoSize
          THEN keymousefifo' = Append(keymousefifo, e) /\ UNCHANGED lost
          ELSE lost' = lost \cup {e} /\ UNCHANGED keymousefifo
  /\ at' = "iret"
  /\ UNCHANGED <<ip, task, frames, irr, imr, kbcVars, early, lull, taken>>

iretd ==
  /\ at = "iret" /\ at' = "code"
  /\ UNCHANGED <<ip, task, frames, picVars, kbcVars, early, lull, fifoVars>>

(* The code of the tasks, between instructions of which an interrupt is taken
   at once: _io_cli, _io_sti, and with interrupts off mprocess_task_sleep or,
   in eventloop, which sleeps only when the queue is empty, mpfifo32_dequeue. *)
TaskRuns ==
  /\ \/ at = "code" /\ Interrupting = {} /\ at' = "cli" /\ lull' = TRUE
        /\ UNCHANGED <<task, frames, fifoVars>>
     \/ at = "cli" /\ at' = "code" /\ UNCHANGED <<task, frames, lull, fifoVars>>
     \/ /\ at = "cli" /\ task = "task3" /\ keymousefifo # <<>> /\ at' = "code"
        /\ keymousefifo' = Tail(keymousefifo) /\ taken' = taken \cup {Head(keymousefifo)}
        /\ UNCHANGED <<task, frames, lull, lost>>
     \/ /\ at = "cli" /\ (task = "task3" => keymousefifo = <<>>) /\ Leave("woken")
        /\ UNCHANGED <<lull, fifoVars>>
     \/ at = "woken" /\ at' = "code" /\ UNCHANGED <<task, frames, lull, fifoVars>>
  /\ UNCHANGED <<ip, picVars, kbcVars, early>>

Processor == Boot \/ (\E i \in {0, 1, 2} : Interrupt(i)) \/ int20h \/ HandlerReads \/ HandlerEnds
             \/ iretd \/ TaskRuns
Controller0 == ControllerTakes \/ ByteArrives
InputNext == Processor \/ Controller0 \/ Tick \/ Spurious

-----------------------------------------------------------------------------
FromDevice(d) == SelectSeq(keymousefifo, LAMBDA b : b[1] = d)
Sent(d) == IF d = "kbd" THEN scans ELSE mouseDev.sent
Held(d) == Holds(d) \/ at = (IF d = "kbd" THEN "eoi1" ELSE "eoi12")

(* What eventloop gets of int21h is what the keyboard sent and what it gets of
   int2ch is what the mouse sent, byte for byte and in order: no answer that the
   set-up has polled comes a second time through a latched request, and from the
   first byte on none is doubled or taken for the other device's, whatever
   arrives between a handler's read and its EOI, and none is lost but those that
   found the queue full. *)
BytesInOrder ==
  \A d \in {"kbd", "mouse"} :
    LET q == FromDevice(d)
        number(b) == b[2][2]
        done == {b \in taken : b[1] = d}
        seen == Range(q) \cup done \cup {b \in lost : b[1] = d}
    IN  /\ \A b \in seen : b[2][1] = d
        /\ \A j \in DOMAIN q : \A b \in done \cup {q[i] : i \in 1 .. j - 1} : number(b) < number(q[j])
        /\ \A b, c \in seen : \A k \in number(b) .. number(c) : \E e \in seen : number(e) = k
        /\ (seen # {} /\ ~Held(d)) => \E b \in seen : number(b) = Sent(d)

(* The set-up comes to its end; with no scancode sent before PIC_init, every
   byte in the output buffer is read, though the timer's handler leaves for
   another task and may never come back; and every tick is taken up.  (A
   scancode that is in the buffer when PIC_init forgets the edges stays there
   and stops both devices.) *)
InterruptsServed ==
  /\ Booting ~> ~Booting
  /\ (~Booting /\ early = 0 /\ obf # <<>>) ~> (obf = <<>>)
  /\ (~Booting /\ 0 \in irr) ~> (0 \notin irr)
====
