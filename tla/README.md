# unagi-os: TLA+ specifications and proofs

This directory holds TLA+ models of unagi-os, the configurations that check
them with TLC, and TLAPS proofs of the results that matter most. Paths below
are relative to `src/src/` of the repository.

## The system

The repository holds two kernels that share one tree.

* The **32-bit kernel** (`kernel.c` and the C files it calls). `kernel_main`
  sets up the heap, the interrupt table, the FIFOs, the input devices, the
  timers, the screen and the scheduler, and starts three tasks besides the idle
  task: the event loop (keyboard and mouse bytes, a one-second timer), a window
  task with three timers, and a console with a blinking cursor. IRQ0 drives the
  timers, a timer (`tssTimer`) drives the task switch, expired timers and
  devices put events into FIFOs, and a FIFO wakes the task that sleeps on it.
  What the tasks draw goes through a compositor of overlapping sheets.
* The **64-bit kernel** (`main.cpp` and the C++ files), started by a UEFI
  loader. It builds a bitmap of free frames from the loader's memory map, finds
  a USB controller on the PCI bus, starts it, drives it through xHCI rings, and
  moves a mouse cursor. Interrupts only queue a message; the main loop
  processes the controller's events.

| Part | Source | Modules | Status |
|---|---|---|---|
| FIFO ring buffer | `util/fifo.c` | `Fifo32`, `BoundedQueue`, `Fifo32_proofs` | modelled, proved |
| Timers | `pic/timer.c` | `Timer`, `TimerService`, `TimerDL`, `Timer_proofs` | modelled, proved |
| Doubly linked list | `util/dlist.c` | `Dlist`, `DlistSeq`, `SeqFacts` | modelled, sequence operations proved |
| Kernel heap | `memory/heapdl.c`, `memory/memory.c` | `Heapdl`, `Allocator`, `Heapdl_proofs` | modelled, proved |
| Scheduler, waking FIFOs | `kernel/process.c`, `kernel/mprocessfifo.c` | `Process`, `Kernel` | modelled |
| Tasks | `kernel.c` | `Kernel`, `Desktop`, `TextBox`, `Interrupts` | control and drawing modelled, in separate modules |
| Interrupts, PIC, PS/2 controller | `idt/idt.c`, `idt/idt.asm`, `pic/pic.c`, `drivers/ps2kbc.c` | `Interrupts`, `Kernel` | the device interrupts and the set-up |
| Mouse packets | `drivers/ps2mouse.c` | `Desktop` | modelled |
| Sheets | `drivers/graphic/sheet.c` | `Sheets`, `Desktop`, `Desktop_proofs` | modelled, map proved |
| Text box, console, keyboard | `drivers/graphic/videomode.c`, `drivers/keyboard.c`, `kernel.c` | `TextBox`, `Keyboard` | control and scan codes modelled, glyphs left out |
| 64-bit arithmetic, printf | `util/arith64.c`, `util/printf.c` | `Arith64`, `Printf` | modelled but for floating point and the two popcount functions |
| Path parser, disk | `fs/pathparser.c`, `disk/dstream.c`, `disk/disk.c` | `PathParser`, `DiskStream` | modelled |
| UEFI loader | `../UnagiLoaderPkg/efimain.c` | `Loader` | memory map and boot services modelled |
| Frame manager | `memory_manager.cpp`, `main.cpp` | `Frames`, `Frames_proofs` | modelled, proved |
| PCI scan | `pci.cpp`, `main.cpp` | `Pci` | modelled |
| Start of the controller, USB memory pool | `usb/xhci/xhci.cpp`, `usb/memory.cpp` | `HostController` | modelled |
| xHCI rings, interrupt queue, event loop | `usb/xhci/ring.cpp`, `queue.hpp`, `main.cpp` | `Rings`, `Rings_proofs` | modelled, proved |
| xHCI driver, USB device initialisation, HID driver | `usb/xhci/*.cpp`, `usb/device.cpp`, `usb/classdriver/hid.cpp` | `Xhci` | control modelled |

`PROJECT.json` lists every part, what of it is left out and why, and the hazards
of the code at the lines where they bite.

## The modules and the code

### The 32-bit kernel

**`Fifo32`** is `util/fifo.c` statement by statement: the buffer, its length,
the free counter and the two cursors, and the result of the last call. Every
caller runs these functions with interrupts off, so a call is one step.
`BoundedQueue` is what the FIFO promises: a sequence with a capacity.

**`Timer`** is `pic/timer.c` with each call one step. The ring `timerDL` is the
sequence `dl` of the nodes behind the guard node; the guard's target
`UINT32_MAX` stays implicit. `timer_settimer` is two actions, one for each of
its branches (`settimer_allocated`, `settimer_oncountdown`), both with the list
walk `WalkInsert`, which keeps the code's two details: a walk that starts at the
guard never sees the guard, and one that starts further on stops at it.
`timer_int_handler` includes the re-arming of `tssTimer` by
`mprocess_task_autoswitch`, which happens inside the interrupt. `Spec` allows
every call of the interface, down to the allocation of the last timer. The
history variable `plain` says that so far the callers have done only what the
kernel's tasks do (no reset of a running timer, no `timer_free`, and a free
timer is left); `KernelSpec` is `Spec` with `plain` for ever. `crowded` holds the
timers that were last set while no timer was free. `TimerService` is what the timers promise:
deadlines, and a tick that fires exactly the timers due in it.

**`TimerDL`** is the same code one memory access at a time over the pointers of
`Dlist`, in the contexts of tasks and of the interrupt handler. The callers in
`Cli` run it with interrupts off. The others can be interrupted, and switched
away from, between any two accesses; that is the situation of `console_main`
and of every task while it sets its timers up, because the cli/sti pair inside
`timer_settimer` is commented out.

**`Process`** has the operations of `kernel/process.c` as functions on the
record `taskctl`, with its levels, the `now` index of each level, the lazily
updated `now_lv`, and the stale array entries behind the `running` prefix that
the code can still read. **`Kernel`** composes it with the tasks of `kernel.c`,
their FIFOs and timers and the interrupts `int20h`, `int21h`, `int2ch`. What a
task does between cli and sti is one action, and so is an interrupt handler;
the interrupt flag is kept for each task, as it is saved in its TSS. Timers are
abstracted to the ticks they have left, which `KernelTimers` and the refinement
of `TimerDL` to `Timer` justify for callers with interrupts off. The calls that
are made with interrupts on are two steps, the entry and the return (the pc
labels in `Calls`): the tasks setting up their timers, and `console_main`
re-arming the cursor's. A tick at which some timer is due and that falls between
the two sets `torn`; from then on a tick may fire any timer's event or none, and
switch tasks or not. `TimerDL` shows what happens to the ring then. `stopped`
holds the timers whose event a full FIFO dropped. Starting from `Init`, the state after the set-up calls of `kernel_main` (computed by the operators of
`Process`, including the moment at which the running task is moved to another
level), the tasks initialise their FIFOs and timers in any order the scheduler
allows.

**`Heapdl`** is the allocator of `memory/heapdl.c` under `kmalloc` and `kfree`.
An address is an offset from the first header. The list `all` is kept as its
pointers, because merging follows them; the list `free` is the sequence of
nodes behind its head, the first chunk. `k_heapdl_mm_malloc` refuses, engages a
whole chunk or slices one (`Refused`, `EngageWhole`, `SliceAndEngage`);
`chunk_free` has one disjunct for each of its three ends. `mem_free` and the
rounding of `align_address_to_upper` wrap like a `size_t`: a request within a
block of the largest number is rounded to 0, and gets a block of no bytes.
`Allocator` is what the heap promises: blocks inside the heap and disjoint, and
large enough for every request of at most `WORD - BLOCK`. The two list operations on sequences that it
shares with `Timer` are in `DlistSeq`, their facts in `SeqFacts`.

**`Sheets`** is the compositor as operators on a record: the visible sheets
from the bottom up, where they are, the map `zMap` of the sheet each screen
pixel belongs to, the screen and the sheets' buffers. A copying loop over a
rectangle is a set of pixels; a screen pixel remembers the buffer pixel it was
copied from. **`Desktop`** puts the screen of `sheet_initialize` on it with the
mouse (the packet decoder, the pointer, raising and dragging windows), the clock
in the window and the console's drawing. Mouse and clock draw with interrupts
off. The console does not, so its drawing is split at each access to the shared
state, and the others may run in between: the sheet's place and depth, the sheet
at that depth, the row once for each row of the buffer, and for each pixel the
column, the colour, `zMap` and the write (`UpdateSheet` to `UpdateWrite`).
`smeared` holds the wrong pixels that were written when what had been read for
them was out of date.

**`TextBox`** is `console_main` with its text box and line buffer: characters
that wrap at the edge and at the bottom, shift and caps lock, Enter with the commands. A cell
holds the glyphs drawn over each other since it was last filled. Scan codes reach
it while the console is on top (`focus`), as the event loop decides; `held` and `missed`
record which shift keys are really down, and which of them it did not hear of.
**`Keyboard`** has the scan code tables and `input_get_char`, which reads behind
them for codes they do not have: then any character or none is possible.

**`Interrupts`** has the keyboard controller with its one output buffer, the two
PICs, the polling set-up of both devices by `kernel_main`, the interrupt
handlers with their EOIs, and the timer's handler that leaves for another task
before its iretd. Devices send bytes at any moment. The handlers put them into
`keymousefifo`, which drops what it has no room for (`lost`), and the event loop
takes them out (`taken`).

**`Arith64`**, **`Printf`**, **`PathParser`** and **`DiskStream`** are the
library. The first two are operators over small words, compared with arithmetic
and with a reader of the printed text; the others are step by step, one part of a
path and one sector of a read at a time. A read of several sectors is a call of
`dstream_read` for each, one inside the other, on a stack with room for
`StackCalls` of them.

### The 64-bit system

**`Loader`** is `UefiMain`: every boot service it calls in order, what it does
with errors, and the firmware that changes its allocations while the loader
runs, which invalidates the key of the map. An error ends in `asm("hlt")`, from
which the next firmware interrupt returns, so the model goes on with the next
statement too. Its last step starts **`Frames`**: the loop of `main.cpp`
over the descriptors and `BitmapMemoryManager`, whose search is one step for
each frame it looks at.

**`Pci`** is the recursive bus scan as a stack of loops, the choice of the
controller, MSI with the walk of the capability list, the base address and the
switch of the ports from EHCI. **`HostController`** is `Controller::Initialize`
and `Run` one register access at a time against a controller and a firmware
that take their time, from any state of the registers, with every allocation out
of the driver's pool, which may be too small for any of them (`exhausted` holds
the allocations that were refused).

**`Rings`** is the exchange with the running controller: each of the three
stores of `Ring::CopyToLast` with the cycle bit last, the link TRB, `EventRing`, the
interrupt handler and `ArrayQueue`, and the main loop with its cli, test and
`sti; hlt`. The controller reads the command ring whenever it likes.

**`Xhci`** is the driver above the rings. The record `x` holds the driver's state
(`port_config_phase`, `addressing_port`, the devices of the slots) and the
controller's (port registers, unconsumed commands and transfers, the event
ring). The functions of the code are operators from state to state, so that
the calls inside a handler compose as they do in the code; an error return
is an unchanged state, because the main loop only logs it. `ConfigurePort` is one
round of the port loop of `main.cpp`, `ProcessEvent` one event. The controller
and the devices run at the same time: commands are executed in order, transfers
fail when the port is no longer enabled, devices are plugged in at any moment
and those in `Pullable` pulled once and plugged in again. A port
change is reported only if no earlier change of the port is still flagged, which is why
`Port::Reset` clears the connect change.

### Compositions for the runs

`MCKernel` and `MCXhci` give the constants values. `MCDesktop` and `MCParts` each
check several modules that share no state or run one after the other at boot.
Their variable `part` chooses which one a behaviour exercises, so
that the state spaces add up instead of multiplying. What does interact is
composed: `Loader` with `Frames`, `Process` with timers, FIFOs and interrupts, `Sheets` with the
tasks that draw, the rings with queue, interrupt and loop.

## What is checked

| Run | Shows |
|---|---|
| `timer` | Any sequence of calls of the timer interface and interrupts keeps the list sorted, without doubles and complete but for timers set while none was free (`ListExact`). While the callers do what the kernel's tasks do, no timer is passed by the tick (`NoOverdue`) and the timers implement `TimerService`. |
| `timer_late` (violation) | With resets or frees of running timers, the cached `next_alarm_on_tick` can hide a second timer with the same target. |
| `timer_full` (violation) | With no free timer left, a timer that is later than all others is set running and stays out of the list. |
| `timerdl` | With interrupts off in every caller, the pointer-level code implements `KernelSpec` of `Timer`, the ring is whole in both directions, and the interrupt handler always returns. |
| `timerdl_race` (violation) | With one caller that has interrupts on, the ring can be left broken. |
| `kernel` | The scheduler's idea of the current task is the loaded task, run queues are sound and no wakeup is lost, whatever a broken timer ring does. While the ring is whole no heartbeat stops or doubles, and the switch timer is always armed; the one exception is the cursor's timer, whose event is dropped for good when keys fill the console's FIFO as it fires. |
| `kernel_live` | Every FIFO is served, and the cursor blinks for ever, while the ring is whole and the cursor's event is not dropped. |
| `heap` | Any sequence of allocations and frees keeps the chunks tiling the heap and the free list exact; the heap implements `Allocator`, with requests that wrap when rounded up among them; `mem_free` is the free bytes less one header for each chunk ever handed out whole. |
| `xhci` | Ports are addressed one at a time, as the comments at `addressing_port` demand; completions meet the phase that waits for them; phases only advance; one report request per device is in flight; every device is configured in the end unless it, or a port in the middle of its addressing, was unplugged. |
| `desktop` | `zMap` is exact after every handler; the screen is right but for pixels written from reads that were out of date and one cell not yet copied; the console shows and runs what was typed; no byte of keyboard or mouse is doubled, mistaken for the other's or lost unless the queue is full; the set-up ends and every byte is read. |
| `parts` | *Boot and 64-bit kernel:* the frame manager gives out available frames only, none twice, loses none, and its search misses no run; the kernel's image and the firmware's memory are never given out; the PCI scan ends on every machine, bridges that lead back to bus 0 included, with what is there; the controller is programmed only when halted and ready, and comes up with all it needs exactly if no failure was reported; commands and events are exchanged once and in order, and none is left lying. *Library:* the ring buffer implements the bounded queue; 64-bit arithmetic agrees with arithmetic; printed numbers read back; a path is the join of its parts; a stream read returns the bytes of the disk across sectors and runs out of stack only when it touches more sectors than there is room for calls. |
| `path_slashes` (violation) | Several slashes in a row give a part that contains a slash. |

The four violations are recorded as findings. Those of `Timer` need calls no task
makes today, or all of its 499 timers. The one of `TimerDL` is possible in the
kernel as it is, in a window of a few instructions. The one of the path parser
contradicts the comment above the function.

### Bounds

* `timer*`: four timers besides the guard (three for `timer_full`), timeouts 1 and 2
  (to 3 in the two violations), four ticks (five for `TimerDL`). Equal targets, timers that
  fire together, resets across other timers, the allocation of the last timer and
  timers longer than the run all occur. In `TimerDL` at least one timer stays
  free, as in the kernel, which allocates 6 of 499. `MaxTick` keeps the tick
  below the 32-bit wrap. These runs stop at `MaxTick`, so they do not check for
  deadlock.
* `kernel`: the slices are the code's. The periods (100, 100, 500, 8 and 80
  ticks, and 50 for the first round of `timer_render`) are scaled down to 2 to 4,
  which makes more of the events coincide. The FIFO of the window task holds
  three entries, one for each of its timers (4096 in the code), the others one
  (4096 for the event loop's timer, 512 for keys and for the console), so that a
  key fills the console's. Four levels instead of ten, of which the kernel uses
  the first three and the last. One key or mouse interrupt may come at any
  point. `Speed = 0`: a tick may come after every step of a task.
  `Aftermath = TRUE`: the run goes on with the ring torn.
* `kernel_live`: `Speed = 3`, a task takes three steps, at least, between two
  ticks. With scaled-down periods and no such bound the tasks of the
  higher level would use the processor up, which at 10 ms per tick
  they do not. Periods of 2, and 3 for the cursor. `Aftermath = FALSE`: a behaviour
  ends when the ring is torn, since nothing is claimed of what follows; so
  deadlock is not checked.
* `heap`: headers of one unit, blocks of two, a last chunk at nine, requests that
  round to two and to four, and one that wraps to 0. Slicing, whole engagement,
  joining either neighbour and refusals occur. `WORD = 10` lets `mem_free` wrap
  too. A pointer is freed once after it was
  returned, as the callers do.
* `xhci`: three ports with a device of one endpoint, one of two endpoints
  that may be pulled, and one without known interface; a slot for each. Two
  ports wait while one is addressed, two devices are in configuration
  at once, and the pull hits every phase. The driver may come to rest, so deadlock is
  not checked.
* `desktop`: a screen of three by four pixels with four sheets, a mouse that
  sends six bytes (clicks, moves in both directions, an acknowledge), two drawing
  operations; a text box of three by two characters, a line buffer of four, and
  seven events, which are clicks, blinks and scan codes (one letter, both shift
  keys, caps lock, Enter, back space, and a code behind the table), so that text wraps at the right edge and at the bottom; two bytes of the keyboard and
  one of the mouse besides its answers, and a queue of one entry for them (512 in
  the code).
* `parts`, boot and 64-bit kernel: six frames and requests of one and two, under four layouts of
  memory (with a hole, with reserved memory in front and between, with a region
  above the limit, and with firmware data where the image belongs); the firmware
  changes its allocations up to four times. PCI machines with two devices of two
  functions on a bus, numbered and unnumbered bridges, and an array of five. A
  command ring of four entries and an event ring of three, a queue of one, two
  commands at a time, seven commands and nine events: each ring is lapped twice and
  the queue overflows. `MaxOutstanding` is the `RingSize - 2` that `Ring::Push`
  needs, since it has no test for a full ring; the driver's own limit is far
  below its 32. Pools at two places and of eight sizes, and no, three or 31
  scratchpads, so that each allocation fails in some behaviour and none in
  others; every combination of ownership, run and interrupt bits at the start.
* `parts`, library: buffers of one to three slots; all pairs of 8-bit words; an 8-bit int
  with its two extremes, -1, 0 and one ordinary value, fields up to three
  and one of two digits, and buffers that the number overflows; every path of up to five slashes and letters behind a drive,
  with a limit of seven characters; nine sectors of three bytes, reads of up to eight,
  registers of one bit, so that all four parts of the sector number
  matter, and a stack for three calls, which a read of eight bytes can exceed.

`parts` and `desktop` stop when their inputs are used up or an
algorithm is done, so they do not check for deadlock; their liveness properties
say what must have happened by then.

### Fairness

* `kernel_live` assumes that the tick comes again and again while it is possible
  (the PIT runs for ever and the PIC keeps a request pending while interrupts are
  off), and that a task which is loaded again and again takes steps, as long as the
  ring is whole. It assumes nothing about keys.
* `timerdl` assumes that the processor goes on with an interrupt handler it has
  entered.
* `xhci` assumes that the main loop goes on and that the controller executes
  commands and control transfers; nothing is assumed about plugging and reports.
* `parts` assumes that the one thread of the kernel runs on (in the scan, in the
  start of the controller and in the event loop), that a pending interrupt is
  taken while interrupts are enabled, and that the controller serves its
  doorbell, ends a halt, a reset and a start it was asked for, and the firmware
  gives the controller up when asked. Each of these the code waits for without
  a timeout. Nothing is assumed about events of the controller's own.
* `desktop` assumes that the processor runs on and that the keyboard controller
  takes and answers what it was sent. Nothing is assumed about ticks and keys.

## What is proved

TLAPS proves the following for every value of the constants that satisfies the
modules' assumptions (`FifoAssumption`, `TimerAssumption`, `HeapAssumption`,
`FramesAssumption`, `RingsAssumption`, `DesktopAssumption`).

* `Fifo32_proofs`: `TypeCorrect`, `CursorsCorrect` and `FifoImplementsQueue`.
  The inductive invariant is `TypeOK /\ CursorsAgree`: that `next_w` is the slot
  behind the last element is needed to show that an enqueue appends. The
  refinement goes operation by operation, with lemmas on how `Slot` and
  `Contents` move.
* `Timer_proofs`: `TimerTypes` and `TimerList`, for every sequence of calls. The
  inductive invariant `Inv` adds to order and membership that free timers have
  the target `UINT32_MAX` and no timer a later one. A walk that meets a
  free timer stops there; one that meets no later node drops the timer, and then
  no timer was free, so that it is in `crowded`. The lemmas `InsertKeeps`,
  `WalkKeeps` and `AppendKeeps` say what the list operations preserve, from named
  preconditions on where the walk starts.
* `Timer_proofs`: `TimerNoOverdue` and `TimerImplementsService`, for `Spec` up to
  the first step that leaves `plain`, and `KernelTimers`, which says the same of
  `KernelSpec` in one line: it implements `TimerService`. `KInv` adds, while `plain`
  holds, that a timer is free and `crowded` is empty, so that every running timer
  is linked, that the cached alarm is never later than the target of a running timer, and that the
  tick is before it (`Whole`, `Alarm`). `HeadIsLeast` turns the order of the list into the
  fact that the handler may stop at the first node that is not due.
* `Heapdl_proofs`: `HeapTypes`, `HeapTiled`, `HeapFreeList` and
  `HeapImplementsAllocator`. The inductive invariant adds to tiling and the free
  list that the two end chunks stay in use (`Ends`), so that no merge swallows
  them. `MergeTiles` serves both directions of a merge. The refinement covers every
  request a `size_t` can hold; that the block is large enough is claimed, as in
  `Allocator`, up to `WORD - BLOCK`. The proof needs
  `BLOCK >= H`: the rest of a sliced chunk has room for its header only because
  the code slices when at least a block is left.
* `Frames_proofs`: `FramesAlwaysOwned`, `FramesNeverLost` and
  `SearchAlwaysExact`, for any number of frames and any memory map. The inductive
  invariant says what the loop over the map has marked so far (`Scanned`), how
  bits, ranges and live allocations agree afterwards (`Managed`), and how far
  the search has come (`Searching`, `NoneFree`: every start it has passed over
  has a set bit in the run behind it). `FramesOwned` holds for maps in any order without
  overlaps; `NothingLost` needs the map sorted, because the loop marks every gap
  before a descriptor.
* `Rings_proofs`: `RingsAlwaysInOrder`, for rings of any size. The inductive
  invariant `Inv` describes each ring from both sides: the entries from the
  consumer's index up to the producer's carry the consumer's cycle bit and
  consecutive numbers, those beyond do not carry it (`EventInv`; `Laid` and
  `Follows` in `CommandInv`), and a push in progress has changed only what the
  consumer does not own (`StoreInv`). It needs `MaxOutstanding <= RingSize - 2`:
  with one more command `Push` would overwrite an entry that was not yet
  read.
* `Desktop_proofs`: `ZMapAlwaysTop`, for `DesktopSpec` and a screen and sheets of
  any size. The inductive invariant says that the desktop and the mouse keep their
  depths, 0 and 3, while the two windows may change places (`IsState`), and that
  the sheet `zMap` names shows at its pixel and no higher one does (`Exact`). The
  code recomputes only the rectangle of the sheet it moves or raises, and only
  from a depth upwards. `OutOfArea` shows that the sheet shows nowhere outside its
  rectangle, and `ZMapEffect` what the recomputation leaves alone, so the rest
  of the map stays right. It needs a desktop as large as the screen and without
  invisible pixels: some sheet shows everywhere, and no pixel keeps a name that
  nothing replaces.

Only model-checked: liveness (`HandlerReturns`, `EveryFifoServed`,
`CursorBlinks`, `PortsConfigured`, `EveryEventHandled`, `ControllerReady`,
`ScanSettles`, `InterruptsServed`), which the prover cannot do; `TimerDL` and its
refinement to `Timer`; the invariants of `Kernel`, `Xhci` and `Loader`;
`ScreenShowsTop`, `ConsoleText` and `BytesInOrder` of the desktop; and what needs
induction over data: `Accounting` of `Heapdl`, a sum over a list, and the
library's properties, which are about loops over digits, bits and characters that
`Printf` and `Arith64` fold over sequences.

## Where the code surprises

Met while modelling. The models do what the code does; the properties name these
cases where they touch them.

* `sheet.c:276-283`: the console reads the row, the column, the colour and `zMap`
  and then writes the pixel with interrupts on. When the mouse handler raises or
  drags a window in between, the pixel is written over it or in the wrong place,
  outside the screen even (`smeared` in `Desktop`). `sheet.c:305`: the depth is read and the
  sheet at that depth looked up later; when a window was raised in between the
  redraw is of another sheet and the character stays invisible until the next
  one (`unflushed`).
* `kernel.c:481`: the blinking cursor is drawn into the buffer relative to the
  text box and copied to the screen from a rectangle that leaves the box's
  origin out.
* `sheet.c:413`: to show a hidden sheet below the top one moves the others
  up and drops the top.
* `ps2mouse.c:23`: the value 0xfa is taken for an acknowledge wherever it comes in a
  packet, and the rest of the packet is read as the start of the next.
* `kernel.c:75`: a scan code that is in the controller's buffer when `PIC_init`
  forgets the latched edges stays there, and no later byte of either device gets
  through. `ps2kbc.c:60`: one that arrives during the set-up is taken for
  the configuration byte.
* `kernel.c:227`: a shift key that goes up while the window is on top stays down for
  the console (`missed` in `TextBox`). `kernel.c:460`: caps lock shifts digits and signs
  too, and toggles at each repetition of a key held down.
* `keyboard.c:215`: the codes from 0x73 on are looked up behind the end of
  `atakbd_keycode`. Among them are the two Japanese keys (0x73, 0x7d) for which the
  character tables have entries. Codes 0x61 to 0x64 give key codes of 131 and more, behind the
  end of those tables.
* `ring.cpp:70`: `Ring::Push` has no test for a full ring.
* `main.cpp:234`: a region that reaches over the 128 GB limit of the bitmap, or
  begins at it, would be marked past its end; the memory maps of the model do
  not.
* `main.cpp:343`: a controller that has MSI-X but no MSI is left without
  interrupts.
* `pci.cpp:66`: bridges that firmware left unnumbered lead the scan back to
  bus 0; only the full array ends it.
* `xhci.cpp:416`: an error of `Initialize` is only logged and `Run` follows;
  the scratchpad array and its buffers are not tested for `nullptr`, so this failure is
  not even reported. `xhci.cpp:333`: when the OS bit is set already,
  `RequestHCOwnership` returns without a look at the firmware's, and the
  controller may be programmed while the firmware still owns it.
* `kutil.c:153`: `align_address_to_upper` wraps, so `kmalloc` of nearly 4 GB returns
  a block of no bytes.
* `timer.c:326`: the result of `mpfifo32_enqueue` is passed over, so when keys have
  filled the console's FIFO as the cursor's timer fires the cursor stops for good
  (`stopped` in `Kernel`). `kernel.c:378`: a key that comes before the console
  has attached its buffer is dropped in the same way.
* `efimain.c`: errors end in `hlt`, which returns; the loader then goes on
  (`failed` in `Loader`).
* `pathparser.c:44`: the comment promises `"foo"` for `"///foo/bar"`, but a slash
  at the start of a part is kept: the parts are `"/"`, `"/foo"` and so on (run
  `path_slashes`). `path_free` reads through a
  null pointer, and a failed `path_parse` leaks its root.
* `dstream.c:65`: the result of the recursive call is passed over, so an error
  in a later sector is not reported. `dstream.c:36`: a long read runs out of stack,
  as its comment says; `StreamReads` says when.
* `printf.c`: `#` removes digits of a number as wide as its field, `-`
  switches off the zeros a precision asks for, and a number that fills the buffer
  with zeros loses its sign. `FormattedOutput` names the directives it leaves out.

## Not modelled

* Data that only the processor reads and that is written once: the GDT and the
  contents of TSS entries (`gdt/gdt.c`), the interrupt table, the 64-bit segment and
  page tables (`segment.cpp`, `paging.cpp`).
* Code nothing calls: the block-table heap (`memory/heap.c`, `memory/kheap.c`), the
  32-bit page tables (`memory/paging/`), `path_free`, `DeviceManager::Remove`, the self
  tests.
* Tables and pixels: fonts, names of TRBs, glyphs, boxes and colours; the
  64-bit console, cursor and pixel writers, which one thread runs to the end.
* Boot assembly, port wrappers, libraries and headers of others (EDK II, newlib stubs,
  the floating-point part of `printf.c`).
* `__popcountsi2` and `__popcountdi2` of `arith64.c`.
* The spurious IRQ 15 (`idt.c:111`), the exception handlers, which only print,
  and the wrap of the 32-bit tick after 497 days.
* USB descriptors byte by byte and the map of set-up stages
  (`usb/arraymap.hpp`): `Xhci` knows a control transfer by its device and phase.
