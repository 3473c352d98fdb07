------------------------------- MODULE TimerDL ------------------------------
(***************************************************************************)
(* pic/timer.c at the level of the timerDL ring's pointers, one step at a  *)
(* time.  timer_settimer and timer_alloc_customfifo run in the context of  *)
(* a task; the callers in Cli run them with interrupts off (the main loops *)
(* of eventloop and __tss4_main), the others with interrupts on            *)
(* (console_main, and every task while it sets up its timers), because the *)
(* cli/sti in timer_settimer is commented out.  There the timer interrupt  *)
(* comes between any two steps and may switch to another task.             *)
(* Each caller owns one timer and arms it again once it has fired; there   *)
(* are more timers than callers, so that one of them always stays free.    *)
(***************************************************************************)
EXTENDS Dlist, FiniteSets

CONSTANTS N, UINT32_MAX, Timeouts, MaxTick, \* as in Timer
          Callers,                          \* the tasks that use a timer
          Cli                               \* those that call with interrupts off

ASSUME CallersAssumption ==
    /\ Cli \subseteq Callers /\ "irq" \notin Callers
    /\ Cardinality(Callers) + 1 < N

VARIABLES tick, next_alarm, flags, target,
          ring,     \* the DLIST nodes embedded in the timers
          cpu,      \* the caller that runs when no interrupt is handled
          pc,       \* where each caller, and the interrupt handler, is
          timer,    \* the timer it works on
          pos,      \* the loop variable of list_for_each_entry
          todo,     \* the pointer writes left of a dlist operation
          tssFired, \* isTssTriggerred
          before    \* history: the timers when the running call began

ctl    == <<tick, next_alarm, flags, target>>
locals == <<pc, timer, pos, todo>>
vars   == <<ctl, ring, cpu, locals, tssFired, before>>

Timer    == 0..(N - 1)
listtail == N                       \* the guard node
Node     == 0..N
tssTimer == 0
Ctx      == Callers \cup {"irq"}

TypeOK ==
    /\ tick \in 0..MaxTick /\ next_alarm \in Nat
    /\ flags \in [Node -> {"FREE", "ALLOCATED", "ONCOUNTDOWN", "GUARDNODE"}]
    /\ target \in [Node -> Nat]
    /\ ring.next \in [Node -> Node] /\ ring.prev \in [Node -> Node]
    /\ cpu \in Callers
    /\ pc \in [Ctx -> {"start", "claim", "unlink", "rest", "compare", "store",
                       "walk", "insert", "link", "fire", "boot"}]
    /\ timer \in [Ctx -> Node] /\ pos \in [Ctx -> Node]
    /\ tssFired \in BOOLEAN

\* timerctl_init: the timers linked one after the other behind the guard
InitRing ==
    LET after[i \in 0..N] ==
          IF i = 0 THEN dlist_init(Node)
          ELSE PerformAll(after[i - 1],
                 dlist_insert_after(after[i - 1], IF i = 1 THEN listtail ELSE i - 2, i - 1))
    IN  after[N]

\* The timers as Timer sees them.
View == [tick |-> tick, next_alarm |-> next_alarm,
         flags |-> [t \in Timer |-> flags[t]], target |-> [t \in Timer |-> target[t]],
         dl |-> NodesAfter(ring, listtail, Node)]

Init ==
    /\ tick = 0 /\ next_alarm = UINT32_MAX
    /\ flags = [n \in Node |-> IF n = listtail THEN "GUARDNODE"
                               ELSE IF n = tssTimer THEN "ALLOCATED" ELSE "FREE"]
    /\ target = [n \in Node |-> UINT32_MAX]
    /\ ring = PerformAll(InitRing, dlist_remove(InitRing, tssTimer))
    /\ cpu \in Callers
    /\ pc = [c \in Ctx |-> IF c = "irq" THEN "boot" ELSE "start"]
    /\ timer = [c \in Ctx |-> IF c = "irq" THEN tssTimer ELSE listtail]
    /\ pos = [c \in Ctx |-> listtail]
    /\ todo = [c \in Ctx |-> << >>]
    /\ tssFired = FALSE
    /\ before = View

-----------------------------------------------------------------------------
Resting(c) == pc[c] \in {"start", "rest", "boot"}

\* The interrupt handler runs to its end; otherwise the current task runs.
Runs(c) == IF pc["irq"] # "rest" THEN c = "irq" ELSE c = cpu

Goto(c, l) == pc' = [pc EXCEPT ![c] = l]

\* The contexts that nothing can interrupt record the state they begin with.
Begin(c) == before' = IF \A d \in Ctx : Resting(d) THEN View ELSE before

\* timer_alloc_customfifo: the scan for the first free timer ...
AllocScan(c) ==
    /\ pc[c] = "start"
    /\ \E t \in Timer :
          /\ flags[t] = "FREE"
          /\ \A u \in 0..(t - 1) : flags[u] # "FREE"
          /\ timer' = [timer EXCEPT ![c] = t]
    /\ Begin(c)
    /\ Goto(c, "claim")
    /\ UNCHANGED <<ctl, ring, cpu, pos, todo, tssFired>>

\* ... and its claim
AllocClaim(c) ==
    /\ pc[c] = "claim"
    /\ flags' = [flags EXCEPT ![timer[c]] = "ALLOCATED"]
    /\ todo' = [todo EXCEPT ![c] = dlist_remove(ring, timer[c])]
    /\ Goto(c, "unlink")
    /\ UNCHANGED <<tick, next_alarm, target, ring, cpu, timer, pos, tssFired, before>>

\* The next pointer write of a dlist operation; after the last one the call returns.
Pointer(c) ==
    /\ pc[c] \in {"unlink", "link"}
    /\ ring' = Perform(ring, Head(todo[c]))
    /\ todo' = [todo EXCEPT ![c] = Tail(@)]
    /\ Goto(c, IF Tail(todo[c]) = << >> THEN "rest" ELSE pc[c])
    /\ \/ c = "irq" /\ Tail(todo[c]) = << >> /\ cpu' \in Callers   \* _farjmp
       \/ ~(c = "irq" /\ Tail(todo[c]) = << >>) /\ UNCHANGED cpu
    /\ UNCHANGED <<ctl, timer, pos, tssFired, before>>

\* timer_settimer on an ALLOCATED timer: the parameters.  mprocess_init arms
\* tssTimer, with interrupts off, before any task uses a timer.
SetParams(c, n) ==
    /\ pc[c] = IF c = "irq" THEN "boot" ELSE "rest"
    /\ flags[timer[c]] = "ALLOCATED"
    /\ target' = [target EXCEPT ![timer[c]] = tick + n]
    /\ flags' = [flags EXCEPT ![timer[c]] = "ONCOUNTDOWN"]
    /\ Begin(c)
    /\ Goto(c, "compare")
    /\ UNCHANGED <<tick, next_alarm, ring, cpu, timer, pos, todo, tssFired>>

\* if (next_alarm_on_tick > target_tick) next_alarm_on_tick = target_tick
SetCompare(c) ==
    /\ pc[c] = "compare"
    /\ Goto(c, IF next_alarm > target[timer[c]] THEN "store" ELSE "walk")
    /\ pos' = [pos EXCEPT ![c] = listtail]
    /\ UNCHANGED <<ctl, ring, cpu, timer, todo, tssFired, before>>
SetStore(c) ==
    /\ pc[c] = "store"
    /\ next_alarm' = target[timer[c]]
    /\ Goto(c, "walk")
    /\ UNCHANGED <<tick, flags, target, ring, cpu, timer, pos, todo, tssFired, before>>

\* One round of list_for_each_entry: the next node is the guard, or the place
\* for the timer, or passed by.
WalkStrict(c) ==
    LET p == ring.next[pos[c]] IN
    /\ pc[c] = "walk"
    /\ pos' = [pos EXCEPT ![c] = p]
    /\ Goto(c, IF p = listtail THEN "rest"
               ELSE IF target[p] < target[timer[c]] THEN "insert" ELSE "walk")
    /\ UNCHANGED <<ctl, ring, cpu, timer, todo, tssFired, before>>
SetWalk(c) ==
    LET p == ring.next[pos[c]] IN
    /\ pc[c] = "walk"
    /\ pos' = [pos EXCEPT ![c] = p]
    /\ Goto(c, IF p = listtail THEN "rest"
               ELSE IF target[p] >= target[timer[c]] THEN "insert" ELSE "walk")
    /\ UNCHANGED <<ctl, ring, cpu, timer, todo, tssFired, before>>

SetInsert(c) ==
    /\ pc[c] = "insert"
    /\ todo' = [todo EXCEPT ![c] = dlist_insert_before(ring, pos[c], timer[c])]
    /\ Goto(c, "link")
    /\ UNCHANGED <<ctl, ring, cpu, timer, pos, tssFired, before>>

-----------------------------------------------------------------------------
\* The tick interrupts the running task unless it has interrupts off.
IrqEnter ==
    /\ pc["irq"] = "rest"
    /\ cpu \in Cli => Resting(cpu)
    /\ tick < MaxTick
    /\ tick' = tick + 1
    /\ Begin("irq")
    /\ Goto("irq", IF next_alarm > tick + 1 THEN "rest" ELSE "fire")
    /\ pos' = [pos EXCEPT !["irq"] = listtail]
    /\ tssFired' = FALSE
    /\ UNCHANGED <<next_alarm, flags, target, ring, cpu, timer, todo>>

\* One round of the handler's loop: a due timer fires and leaves the ring.
FireStay(p) ==
    /\ pc["irq"] = "fire"
    /\ p = ring.next[pos["irq"]] /\ p # listtail /\ target[p] <= tick
    /\ tssFired' = (tssFired \/ p = tssTimer)
    /\ flags' = [flags EXCEPT ![p] = "ALLOCATED"]
    /\ pos' = [pos EXCEPT !["irq"] = p]
    /\ ring' = PerformAll(ring, dlist_remove(ring, p))
    /\ UNCHANGED <<tick, next_alarm, target, cpu, pc, timer, todo, before>>
IrqFire(p) ==
    /\ pc["irq"] = "fire"
    /\ p = ring.next[pos["irq"]] /\ p # listtail /\ target[p] <= tick
    /\ tssFired' = (tssFired \/ p = tssTimer)
    /\ flags' = [flags EXCEPT ![p] = "ALLOCATED"]
    /\ pos' = [pos EXCEPT !["irq"] = ring.prev[p]]
    /\ ring' = PerformAll(ring, dlist_remove(ring, p))
    /\ UNCHANGED <<tick, next_alarm, target, cpu, pc, timer, todo, before>>

\* The loop ends; a fired tssTimer is armed again by mprocess_task_autoswitch,
\* which goes through timer_settimer like any other caller.
IrqDone(slice) ==
    LET p == ring.next[pos["irq"]] IN
    /\ pc["irq"] = "fire"
    /\ p = listtail \/ target[p] > tick
    /\ next_alarm' = target[ring.next[listtail]]
    /\ Goto("irq", IF tssFired THEN "compare" ELSE "rest")
    /\ IF tssFired
       THEN /\ target' = [target EXCEPT ![tssTimer] = tick + slice]
            /\ flags' = [flags EXCEPT ![tssTimer] = "ONCOUNTDOWN"]
       ELSE UNCHANGED <<flags, target>>
    /\ UNCHANGED <<tick, ring, cpu, timer, pos, todo, tssFired, before>>

\* A task with nothing to do sleeps, and another one runs.
Sleep ==
    /\ pc["irq"] = "rest" /\ Resting(cpu)
    /\ cpu' \in Callers \ {cpu}
    /\ UNCHANGED <<ctl, ring, locals, tssFired, before>>

\* A step of the call that context c is in.
Call(c) ==
    \/ AllocScan(c) \/ AllocClaim(c)
    \/ \E n \in Timeouts : SetParams(c, n)
    \/ SetCompare(c) \/ SetStore(c) \/ SetWalk(c) \/ SetInsert(c)
    \/ Pointer(c)

Next ==
    \/ \E c \in Ctx : Runs(c) /\ Call(c)
    \/ IrqEnter
    \/ \E p \in Timer : IrqFire(p)
    \/ \E slice \in Timeouts : IrqDone(slice)
    \/ Sleep

Spec == Init /\ [][Next]_vars

\* The processor goes on with the interrupt handler it is in.
Handler ==
    \/ \E p \in Timer : IrqFire(p)
    \/ \E slice \in Timeouts : IrqDone(slice)
    \/ Runs("irq") /\ Call("irq")
FairSpec == Spec /\ WF_vars(Handler)

-----------------------------------------------------------------------------
AtRest == \A c \in Ctx : Resting(c)

(***************************************************************************)
(* timer.h:19 "all timers are connected, in the order of `target_tick`":   *)
(* when no call and no interrupt is in progress, the ring behind listtail  *)
(* is whole in both directions, holds every timer that is free or counting *)
(* down, and is sorted.                                                    *)
(***************************************************************************)
RingConnected ==
    AtRest =>
      LET dl == NodesAfter(ring, listtail, Node) IN
      /\ \A i \in DOMAIN dl : ring.prev[dl[i]] = IF i = 1 THEN listtail ELSE dl[i - 1]
      /\ \A t \in Timer : flags[t] \in {"FREE", "ONCOUNTDOWN"} => \E i \in DOMAIN dl : dl[i] = t
      /\ \A i \in 2..Len(dl) : target[dl[i - 1]] <= target[dl[i]]

\* When every caller has interrupts off, the pointer-level code implements the
\* atomic timers of Timer: each call, and each interrupt, is one step of it, and
\* of the steps that keep it plain.
Atomic == INSTANCE Timer WITH
            tick <- (IF AtRest THEN tick ELSE before.tick),
            next_alarm <- (IF AtRest THEN next_alarm ELSE before.next_alarm),
            flags <- (IF AtRest THEN View.flags ELSE before.flags),
            target <- (IF AtRest THEN View.target ELSE before.target),
            dl <- (IF AtRest THEN View.dl ELSE before.dl),
            crowded <- {}, plain <- TRUE
ImplementsTimer == Atomic!Spec

\* timer_int_handler always returns, although it takes nodes out of the ring
\* while it walks along it, and the state stays well typed throughout.
HandlerReturns == []TypeOK /\ (pc["irq"] # "rest") ~> (pc["irq"] = "rest")
=============================================================================
