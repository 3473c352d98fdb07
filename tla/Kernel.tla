-------------------------------- MODULE Kernel ------------------------------
(***************************************************************************)
(* The 32-bit kernel after kernel_main: the event loop (task3), the window *)
(* task (task4), the console and the idle task, their FIFOs, the scheduler *)
(* of Process, the timers as TimerService describes them, and the three    *)
(* interrupts (IRQ0 timer, IRQ1 keyboard, IRQ12 mouse) that come whenever  *)
(* the running task has interrupts on.  What a task does between cli and   *)
(* sti is one action; so is an interrupt handler.  A timer call that is    *)
(* made with interrupts on is two steps: when a tick at which a timer is   *)
(* due falls between them, the timer ring is torn (TimerDL shows how), and *)
(* from then on any timer may fire at any tick, or never.                  *)
(***************************************************************************)
EXTENDS Process, Sequences, FiniteSets, SequencesExt

CONSTANTS Period,   \* the timeout, in ticks, of each timer but tss
          Capacity, \* the buffer length of each FIFO
          MaxKeys,  \* bound: the key and mouse interrupts of one behaviour
          Speed,    \* the steps a task takes, at least, between two ticks
          Aftermath \* bound: whether the model goes on once the ring is torn

task3   == "task3"
task4   == "task4"
console == "console"
idle    == "idle"

Timer == {"tss", "sec3", "sec4", "five", "render", "blink"}
Fifo  == {"fifoTSS3", "keymousefifo", "fifoTSS4", "mpfifo32Console"}

\* The data of the events; KBD and MOUSE stand for the codes of their ranges.
KBD   == 256
MOUSE == 512

ASSUME KernelAssumption ==
    /\ Task = {task3, task4, console, idle}
    /\ Period \in [Timer \ {"tss"} -> Nat \ {0}]
    /\ Capacity \in [Fifo -> Nat \ {0}]
    /\ MaxKeys \in Nat /\ Speed \in Nat /\ Aftermath \in BOOLEAN

VARIABLES tc,       \* taskctl
          cpu,      \* the task whose TSS is loaded
          intr,     \* the IF flag of each task: in eflags, or saved in its TSS
          pc,       \* where each task is
          q,        \* the contents of the FIFOs
          cap,      \* their buffer length: 0 until the buffer is attached
          owner,    \* the task a FIFO wakes
          rem,      \* the ticks each timer has left, 0 when it is not counting down
          tdata,    \* the data each timer carries
          item,     \* the event the console handles
          conptr,   \* mpfifo32Console is not NULL
          focus,    \* the console sheet is the one below the mouse
          work,     \* the steps since the last tick, up to Speed
          keys,     \* the key and mouse interrupts so far
          torn,     \* a tick with a timer due fell into a timer call
          stopped   \* history: the timers whose event a full FIFO dropped

vars == <<tc, cpu, intr, pc, q, cap, owner, rem, tdata, item, conptr, focus, work, keys,
          torn, stopped>>

\* Where a task is inside timer_alloc_customfifo or timer_settimer with
\* interrupts on.
Calls == {"arming", "arming5", "armingR", "rearming"}

TypeOK ==
    /\ tc \in TaskCtl
    /\ cpu \in Task
    /\ intr \in [Task -> BOOLEAN]
    /\ pc \in [Task -> {"init", "attach", "alloc", "alloc5", "allocR",
                        "top", "slept", "handle"} \cup Calls]
    /\ \A f \in Fifo : Len(q[f]) <= cap[f] /\ cap[f] \in {0, Capacity[f]}
    /\ owner \in [Fifo -> Task \cup {NULL}]
    /\ rem \in [Timer -> Nat]
    /\ conptr \in BOOLEAN /\ focus \in BOOLEAN
    /\ torn \in BOOLEAN /\ stopped \subseteq Timer

-----------------------------------------------------------------------------
\* mprocess_init: the task that runs becomes task3, and the idle task
mprocess_init ==
    LET a == mprocess_task_alloc(ZeroTaskCtl, task3)
        b == [a EXCEPT !.flags[task3] = "RUNNING", !.lv[task3] = 0]
        c == __mprocess_task_update_currentlv(__mprocess_task_add(b, task3))
        d == mprocess_task_alloc(c, idle)
        e == [d EXCEPT !.lv[idle] = LEVELS - 1, !.priority[idle] = 1]
    IN  mprocess_task_run(e, idle, -1, 0)

\* The tasks that kernel_main starts
kernel_main ==
    LET a == mprocess_task_run(mprocess_init, task3, 1, 2)
        b == mprocess_task_run(mprocess_task_alloc(a, task4), task4, 2, 1)
    IN  mprocess_task_run(mprocess_task_alloc(b, console), console, 2, 2)

Init ==
    /\ tc = kernel_main
    /\ cpu = task3
    /\ intr = [t \in Task |-> TRUE]
    /\ pc = [t \in Task |-> "init"]
    /\ q = [f \in Fifo |-> << >>]
    /\ cap = [f \in Fifo |-> IF f = "keymousefifo" THEN Capacity[f] ELSE 0]
    /\ owner = [f \in Fifo |-> NULL]
    /\ rem = [t \in Timer |-> IF t = "tss" THEN 2 ELSE 0]
    /\ tdata = [t \in Timer |-> 0]
    /\ item = 0
    /\ conptr = FALSE
    /\ focus = TRUE
    /\ work = 0 /\ keys = 0
    /\ torn = FALSE /\ stopped = {}

-----------------------------------------------------------------------------
\* mpfifo32_enqueue(f, d) on k = [c, q]: a full FIFO drops the data, and still
\* wakes its task.
EnqueueNoWake(k, f, d) ==
    [c |-> k.c, q |-> IF Len(k.q[f]) < cap[f] THEN [k.q EXCEPT ![f] = Append(@, d)] ELSE k.q]
mpfifo32_enqueue(k, f, d) ==
    LET t == owner[f] IN
    [c |-> IF t # NULL /\ k.c.flags[t] = "ALLOCATED" THEN mprocess_task_run(k.c, t, -1, 0) ELSE k.c,
     q |-> IF Len(k.q[f]) < cap[f] THEN [k.q EXCEPT ![f] = Append(@, d)] ELSE k.q]

\* timer_settimer of a timer that is not counting down; data 0 keeps the data.
\* What a torn ring makes of it is unknown.
timer_settimer(t, n, d) ==
    /\ rem' = IF torn THEN rem ELSE [rem EXCEPT ![t] = n]
    /\ tdata' = [tdata EXCEPT ![t] = IF d = 0 THEN @ ELSE d]

\* The slice of the task that runs next.
Slice(c) == c.priority[taskNext(c)]

FifoOf(t) == CASE t = "sec3" -> "fifoTSS3" [] t = "blink" -> "mpfifo32Console" [] OTHER -> "fifoTSS4"

\* Timer t fires, on k = [c, q, stopped].
Fire(k, t) ==
    LET e == mpfifo32_enqueue(k, FifoOf(t), tdata[t])
    IN  [c |-> e.c, q |-> e.q, stopped |-> IF e.q = k.q THEN k.stopped \cup {t} ELSE k.stopped]

\* mprocess_task_autoswitch, when tssTimer has fired
Switch(c) ==
    /\ tc' = mprocess_task_autoswitch(c)
    /\ cpu' = IF taskNext(c) = mprocess_task_get_current(c) THEN cpu ELSE taskNext(c)

\* The tick of a whole ring: the timers that are due fire.
WholeTick ==
    LET due  == {t \in Timer \ {"tss"} : rem[t] = 1}
        left == [t \in Timer |-> IF rem[t] = 0 THEN 0 ELSE rem[t] - 1]
    IN  \E order \in SetToSeqs(due) :
        LET k == FoldLeft(Fire, [c |-> tc, q |-> q, stopped |-> stopped], order)
        IN  /\ q' = k.q /\ stopped' = k.stopped
            /\ \/ rem["tss"] # 1 /\ tc' = k.c /\ rem' = left /\ UNCHANGED cpu
               \/ rem["tss"] = 1 /\ Switch(k.c) /\ rem' = [left EXCEPT !["tss"] = Slice(k.c)]

\* The tick of a torn ring: a timer of some FIFO fires, or none, and the task
\* switch happens, or not.
TornTick ==
    LET now == [c |-> tc, q |-> q, stopped |-> stopped] IN
    /\ \E k \in {now} \cup {Fire(now, t) : t \in {"sec3", "render", "blink"}} :
          /\ q' = k.q
          /\ Switch(k.c) \/ (tc' = k.c /\ UNCHANGED cpu)
    /\ rem' = [t \in Timer |-> 0]
    /\ UNCHANGED stopped

\* int20h: timer_int_handler and, when tssTimer fires, mprocess_task_autoswitch
int20h ==
    /\ intr[cpu]
    /\ work = Speed \/ cpu = idle
    /\ torn' = (torn \/ (pc[cpu] \in Calls /\ \E t \in Timer : rem[t] = 1))
    /\ (torn' /\ TornTick) \/ (~torn' /\ WholeTick)
    /\ work' = 0
    /\ UNCHANGED <<intr, pc, cap, owner, tdata, item, conptr, focus, keys>>

\* int21h and int2ch: the byte goes to keymousefifo.
DeviceInterrupt(d) ==
    /\ intr[cpu]
    /\ keys < MaxKeys
    /\ keys' = keys + 1
    /\ LET k == mpfifo32_enqueue([c |-> tc, q |-> q], "keymousefifo", d)
       IN  tc' = k.c /\ q' = k.q
    /\ UNCHANGED <<cpu, intr, pc, cap, owner, rem, tdata, item, conptr, focus, work,
                   torn, stopped>>
int21h == DeviceInterrupt(KBD)
int2ch == DeviceInterrupt(MOUSE)

-----------------------------------------------------------------------------
\* A step of task t, which runs.
Runs(t) ==
    /\ cpu = t
    /\ work' = IF work < Speed THEN work + 1 ELSE work
    /\ UNCHANGED <<keys, torn, stopped>>

Goto(t, l) == pc' = [pc EXCEPT ![t] = l]

\* mprocess_task_sleep between cli and sti
Sleep(t) ==
    /\ tc' = mprocess_task_sleep(tc, t)
    /\ cpu' = taskAfterSleep(tc, t)
    /\ intr' = [intr EXCEPT ![t] = FALSE]
    /\ Goto(t, "slept")
    /\ UNCHANGED <<q, cap, owner, rem, tdata, item, conptr, focus>>

\* The sti after mprocess_task_sleep, once the task runs again
Wake(t) ==
    /\ Runs(t) /\ pc[t] = "slept"
    /\ intr' = [intr EXCEPT ![t] = TRUE]
    /\ Goto(t, "top")
    /\ UNCHANGED <<tc, cpu, q, cap, owner, rem, tdata, item, conptr, focus>>

\* mpfifo32_init by the task itself
Attach(t, f, l) ==
    /\ cap' = [cap EXCEPT ![f] = Capacity[f]]
    /\ owner' = [owner EXCEPT ![f] = t]
    /\ q' = [q EXCEPT ![f] = << >>]
    /\ Goto(t, l)
    /\ UNCHANGED <<tc, cpu, intr, rem, tdata, item, conptr, focus>>

\* timer_alloc_customfifo and the first timer_settimer of a timer, with interrupts
\* on: the task works on the ring at l until it returns.
Arm(t, timer, d, l) ==
    /\ timer_settimer(timer, Period[timer], d)
    /\ Goto(t, l)
    /\ UNCHANGED <<tc, cpu, intr, q, cap, owner, item, conptr, focus>>
Return(t, l) ==
    /\ Goto(t, l)
    /\ UNCHANGED <<tc, cpu, intr, q, cap, owner, rem, tdata, item, conptr, focus>>

\* eventloop
eventloop_init ==
    /\ Runs(task3)
    /\ \/ /\ pc[task3] = "init"
          /\ owner' = [owner EXCEPT !["keymousefifo"] = task3]
          /\ Goto(task3, "attach")
          /\ UNCHANGED <<tc, cpu, intr, q, cap, rem, tdata, item, conptr, focus>>
       \/ pc[task3] = "attach" /\ Attach(task3, "fifoTSS3", "alloc")
       \/ pc[task3] = "alloc" /\ Arm(task3, "sec3", 1, "arming")
       \/ pc[task3] = "arming" /\ Return(task3, "top")

eventloop_sleep ==
    /\ Runs(task3) /\ pc[task3] = "top"
    /\ q["fifoTSS3"] = << >> /\ q["keymousefifo"] = << >>
    /\ Sleep(task3)

\* One round of the event loop that finds data: at most one timer event and
\* one byte of keymousefifo.  Without a console FIFO a key goes to the keyboard
\* driver and the loop continues before its sti.
eventloop_event ==
    /\ Runs(task3) /\ pc[task3] = "top"
    /\ q["fifoTSS3"] # << >> \/ q["keymousefifo"] # << >>
    /\ IF q["fifoTSS3"] # << >> /\ Head(q["fifoTSS3"]) = 1
       THEN timer_settimer("sec3", Period["sec3"], 1) ELSE UNCHANGED <<rem, tdata>>
    /\ LET tail(f) == IF q[f] = << >> THEN << >> ELSE Tail(q[f])
           rest == [q EXCEPT !["fifoTSS3"] = tail("fifoTSS3"),
                             !["keymousefifo"] = tail("keymousefifo")]
           byte == IF q["keymousefifo"] = << >> THEN 0 ELSE Head(q["keymousefifo"])
           k    == mpfifo32_enqueue([c |-> tc, q |-> rest], "mpfifo32Console", KBD)
       IN  /\ intr' = [intr EXCEPT ![task3] = ~(byte = KBD /\ focus /\ ~conptr)]
           /\ IF byte = KBD /\ focus /\ conptr THEN tc' = k.c /\ q' = k.q
              ELSE tc' = tc /\ q' = rest
           /\ IF byte = MOUSE THEN focus' \in BOOLEAN ELSE UNCHANGED focus
    /\ UNCHANGED <<cpu, pc, cap, owner, item, conptr>>

\* __tss4_main
tss4_init ==
    /\ Runs(task4)
    /\ \/ pc[task4] = "init" /\ Attach(task4, "fifoTSS4", "alloc")
       \/ pc[task4] = "alloc" /\ Arm(task4, "sec4", 11, "arming")
       \/ pc[task4] = "arming" /\ Return(task4, "alloc5")
       \/ pc[task4] = "alloc5" /\ Arm(task4, "five", 15, "arming5")
       \/ pc[task4] = "arming5" /\ Return(task4, "allocR")
       \/ pc[task4] = "allocR" /\ Arm(task4, "render", 16, "armingR")
       \/ pc[task4] = "armingR" /\ Return(task4, "top")

tss4_sleep ==
    /\ Runs(task4) /\ pc[task4] = "top" /\ q["fifoTSS4"] = << >>
    /\ Sleep(task4)

\* One event; the loop goes on with interrupts off.
tss4_event ==
    /\ Runs(task4) /\ pc[task4] = "top" /\ q["fifoTSS4"] # << >>
    /\ LET data == Head(q["fifoTSS4"]) IN
       \/ data = 15 /\ timer_settimer("five", Period["five"], 0)
       \/ data = 16 /\ timer_settimer("render", Period["render"], 0)
       \/ data = 11 /\ timer_settimer("sec4", Period["sec4"], 11)
       \/ data \notin {11, 15, 16} /\ UNCHANGED <<rem, tdata>>
    /\ q' = [q EXCEPT !["fifoTSS4"] = Tail(@)]
    /\ intr' = [intr EXCEPT ![task4] = FALSE]
    /\ UNCHANGED <<tc, cpu, pc, cap, owner, item, conptr, focus>>

\* console_main
InitNoData ==
    /\ Runs(console)
    /\ \/ /\ pc[console] = "init"
          /\ conptr' = TRUE
          /\ Goto(console, "attach")
          /\ UNCHANGED <<tc, cpu, intr, q, cap, owner, rem, tdata, item, focus>>
       \/ pc[console] = "attach" /\ Attach(console, "mpfifo32Console", "alloc")
       \/ pc[console] = "alloc" /\ Arm(console, "blink", 0, "arming")
       \/ pc[console] = "arming" /\ Return(console, "top")
console_init ==
    /\ Runs(console)
    /\ \/ /\ pc[console] = "init"
          /\ conptr' = TRUE
          /\ Goto(console, "attach")
          /\ UNCHANGED <<tc, cpu, intr, q, cap, owner, rem, tdata, item, focus>>
       \/ pc[console] = "attach" /\ Attach(console, "mpfifo32Console", "alloc")
       \/ pc[console] = "alloc" /\ Arm(console, "blink", 20, "arming")
       \/ pc[console] = "arming" /\ Return(console, "top")

console_sleep ==
    /\ Runs(console) /\ pc[console] = "top" /\ q["mpfifo32Console"] = << >>
    /\ Sleep(console)

console_dequeue ==
    /\ Runs(console) /\ pc[console] = "top" /\ q["mpfifo32Console"] # << >>
    /\ item' = Head(q["mpfifo32Console"])
    /\ q' = [q EXCEPT !["mpfifo32Console"] = Tail(@)]
    /\ Goto(console, "handle")
    /\ UNCHANGED <<tc, cpu, intr, cap, owner, rem, tdata, conptr, focus>>

\* The event is handled with interrupts on, the re-arming of the timer too.
HandleSameData ==
    /\ Runs(console) /\ pc[console] = "handle"
    /\ \/ item = 21 /\ timer_settimer("blink", Period["blink"], 20) /\ Goto(console, "rearming")
       \/ item = 20 /\ timer_settimer("blink", Period["blink"], 0) /\ Goto(console, "rearming")
       \/ item \notin {20, 21} /\ Goto(console, "top") /\ UNCHANGED <<rem, tdata>>
    /\ item' = 0
    /\ UNCHANGED <<tc, cpu, intr, q, cap, owner, conptr, focus>>
console_handle ==
    /\ Runs(console) /\ pc[console] = "handle"
    /\ \/ item = 21 /\ timer_settimer("blink", Period["blink"], 20) /\ Goto(console, "rearming")
       \/ item = 20 /\ timer_settimer("blink", Period["blink"], 21) /\ Goto(console, "rearming")
       \/ item \notin {20, 21} /\ Goto(console, "top") /\ UNCHANGED <<rem, tdata>>
    /\ item' = 0
    /\ UNCHANGED <<tc, cpu, intr, q, cap, owner, conptr, focus>>

\* The rest of the round, once timer_settimer has returned
console_rearmed == Runs(console) /\ pc[console] = "rearming" /\ Return(console, "top")

-----------------------------------------------------------------------------
Eventloop == eventloop_init \/ eventloop_sleep \/ eventloop_event \/ Wake(task3)
Tss4      == tss4_init \/ tss4_sleep \/ tss4_event \/ Wake(task4)
Console   == \/ console_init \/ console_sleep \/ console_dequeue \/ console_handle
             \/ console_rearmed \/ Wake(console)

Next ==
    /\ torn => Aftermath
    /\ int20h \/ int21h \/ int2ch \/ Eventloop \/ Tss4 \/ Console

Spec == Init /\ [][Next]_vars

(***************************************************************************)
(* Strong fairness of the tick and of each task; the left-hand sides say   *)
(* when they are enabled.  A task that is scheduled again and again gets   *)
(* on: a slice of 10 ms and more is not used up by interrupt handlers      *)
(* alone.  The PIT never stops, and the PIC keeps its request pending      *)
(* while interrupts are off.  TickMatters leaves out the tick that changes *)
(* nothing: the idle task alone, with no timer but tssTimer running.       *)
(* Nothing is assumed, nor claimed, of a torn ring.                        *)
(***************************************************************************)
TickMatters ==
    \/ work # 0 \/ rem # [t \in Timer |-> IF t = "tss" THEN 1 ELSE 0]
    \/ mprocess_task_autoswitch(tc) # tc
Fairness ==
    /\ []<>(~torn /\ intr[cpu] /\ (work = Speed \/ cpu = idle) /\ TickMatters)
          => []<><<int20h>>_vars
    /\ []<>(~torn /\ cpu = task3) => []<><<Eventloop>>_vars
    /\ []<>(~torn /\ cpu = task4) => []<><<Tss4>>_vars
    /\ []<>(~torn /\ cpu = console) => []<><<Console>>_vars
FairSpec == Spec /\ Fairness

-----------------------------------------------------------------------------
(***************************************************************************)
(* What the scheduler takes for the current task is the task whose TSS is  *)
(* loaded.  mprocess_task_sleep and mprocess_task_autoswitch decide from   *)
(* taskctl alone whether and where to _farjmp; if taskctl were wrong a     *)
(* sleeping task would go on running, or a jump would hit a busy TSS.      *)
(***************************************************************************)
CurrentIsLoaded == mprocess_task_get_current(tc) = cpu

(***************************************************************************)
(* The run queues are sound and never empty (the idle task is always       *)
(* there), and a task that sleeps in mprocess_task_sleep is not running.   *)
(* The state is well typed; in particular no FIFO exceeds its buffer.      *)
(***************************************************************************)
Schedulable ==
    /\ TypeOK
    /\ QueuesSound(tc)
    /\ LevelKnown(tc)
    /\ tc.flags[idle] = "RUNNING"
    /\ tc.flags[cpu] = "RUNNING"

(***************************************************************************)
(* No wakeup is lost: a task sleeps only while its FIFOs are empty.  The   *)
(* tasks test their FIFO and fall asleep before the sti that lets the next *)
(* event in (kernel.c:274 "Sleep first, then sti(), to avoid interrupt").  *)
(***************************************************************************)
NoLostWakeup ==
    \A f \in Fifo : owner[f] # NULL /\ q[f] # << >> => tc.flags[owner[f]] = "RUNNING"

(***************************************************************************)
(* As long as no tick tears the ring, no heartbeat stops or doubles: once  *)
(* its task has started it, a timer is counting down, or its event waits   *)
(* in the FIFO, or it is being handled, and never two of these.  The one   *)
(* exception is the cursor's timer, which shares its FIFO with the keys:   *)
(* when the FIFO is full of keys as it fires, its event is dropped and it  *)
(* is never armed again.  The task switch never stops.                     *)
(***************************************************************************)
Started(t) ==
    CASE t = "sec3" -> pc[task3] \in {"top", "slept"}
      [] t = "sec4" -> pc[task4] \in {"alloc5", "allocR", "top", "slept"}
      [] t = "five" -> pc[task4] \in {"allocR", "top", "slept"}
      [] t = "render" -> pc[task4] \in {"top", "slept"}
      [] t = "blink" -> pc[console] \in {"top", "handle", "slept", "rearming"}
      [] OTHER -> FALSE

EventsOf(t) ==
    CASE t = "sec3" -> {1} [] t = "sec4" -> {11} [] t = "five" -> {15}
      [] t = "render" -> {16} [] OTHER -> {20, 21}

HeartbeatsLive ==
  ~torn =>
    /\ rem["tss"] > 0
    /\ stopped \subseteq {"blink"}
    /\ \A t \in Timer \ {"tss"} : Started(t) =>
          (IF rem[t] > 0 THEN 1 ELSE 0)
          + Cardinality({i \in DOMAIN q[FifoOf(t)] : q[FifoOf(t)][i] \in EventsOf(t)})
          + (IF t = "blink" /\ item \in EventsOf(t) THEN 1 ELSE 0)
          = (IF t \in stopped THEN 0 ELSE 1)

\* Every task is served: what a task finds in its FIFO it takes out, although
\* tasks of a higher level and of its own level compete with it, unless a tick
\* tears the ring.
EveryFifoServed ==
    \A f \in Fifo : (owner[f] # NULL /\ q[f] # << >>) ~> (q[f] = << >> \/ torn)

\* The console's cursor blinks for ever, unless a tick tears the ring or a full
\* console FIFO drops the event of its timer.
CursorBlinks ==
    LET over == torn \/ "blink" \in stopped
    IN  []<>(item = 20 \/ over) /\ []<>(item = 21 \/ over)
=============================================================================
