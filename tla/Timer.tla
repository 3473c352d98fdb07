-------------------------------- MODULE Timer -------------------------------
(***************************************************************************)
(* pic/timer.c with every call atomic, as it is for the callers that run   *)
(* with interrupts off.  The timerDL ring is the sequence dl of the timers *)
(* that follow the guard node timerctl.listtail; the guard itself, whose   *)
(* target_tick is UINT32_MAX, stays implicit at the end.  TimerDL has the  *)
(* same code at the level of the ring's pointers, one step at a time.      *)
(* The data and the FIFO a timer carries are modelled in Kernel.           *)
(***************************************************************************)
EXTENDS DlistSeq

CONSTANTS N,          \* OS_MAX_TIMER - 1, the timers other than the guard
          UINT32_MAX, \* target_tick of a free timer and of the guard
          Timeouts,   \* the timeouts the callers use
          MaxTick     \* bound: the ticks of one uptime

(***************************************************************************)
(* Every timeout of the kernel's callers is at least one tick.  MaxTick    *)
(* keeps tick + timeout below UINT32_MAX: 497 days of uptime at 100 Hz.    *)
(***************************************************************************)
ASSUME TimerAssumption ==
    /\ N \in Nat /\ N >= 2
    /\ UINT32_MAX \in Nat /\ MaxTick \in Nat /\ MaxTick < UINT32_MAX
    /\ Timeouts \subseteq Nat \ {0}
    /\ \A n \in Timeouts : MaxTick + n < UINT32_MAX

VARIABLES tick, next_alarm, flags, target, dl,
          crowded, \* history: the timers last set while no timer was free
          plain    \* history: only what the kernel's own tasks do was done so far

vars == <<tick, next_alarm, flags, target, dl, crowded, plain>>

Timer == 0..(N - 1)
Flag == {"FREE", "ALLOCATED", "ONCOUNTDOWN"}

TypeOK ==
    /\ tick \in 0..MaxTick
    /\ next_alarm \in Nat
    /\ flags \in [Timer -> Flag]
    /\ target \in [Timer -> Nat]
    /\ dl \in Seq(Timer)
    /\ crowded \subseteq Timer
    /\ plain \in BOOLEAN

\* PIT_init allocates the first timer for the task switch.
tssTimer == 0

\* timerctl_init, then timer_alloc_customfifo(NULL) in PIT_init
Init ==
    /\ tick = 0
    /\ next_alarm = UINT32_MAX
    /\ flags = [t \in Timer |-> IF t = tssTimer THEN "ALLOCATED" ELSE "FREE"]
    /\ target = [t \in Timer |-> UINT32_MAX]
    /\ dl = [i \in 1..(N - 1) |-> i]
    /\ crowded = {}
    /\ plain = TRUE

-----------------------------------------------------------------------------
LesserIgnored(a, b) == a
Lesser(a, b) == IF a <= b THEN a ELSE b

\* The target_tick of the i-th node, or of the guard behind the last one.
TargetAt(s, tg, i) == IF i <= Len(s) THEN tg[s[i]] ELSE UINT32_MAX

(***************************************************************************)
(* list_for_each_entry in timer_settimer: walk from the node `from' to the *)
(* first node whose target is not earlier and link t before it.  A walk    *)
(* that starts at the guard skips the guard, so when every node is earlier *)
(* t stays out of the list; one that starts further on stops at the guard. *)
(***************************************************************************)
WalkStopsLate(s, s2, tg, t, from) ==
    \/ \E i \in from..Len(s) :
          /\ tg[s[i]] >= tg[t]
          /\ \A j \in from..(i - 1) : tg[s[j]] < tg[t]
          /\ s2 = InsertBefore(s, i + 1, t)
    \/ /\ \A j \in from..Len(s) : tg[s[j]] < tg[t]
       /\ s2 = IF from > 1 THEN Append(s, t) ELSE s
WalkInsert(s, s2, tg, t, from) ==
    \/ \E i \in from..Len(s) :
          /\ tg[s[i]] >= tg[t]
          /\ \A j \in from..(i - 1) : tg[s[j]] < tg[t]
          /\ s2 = InsertBefore(s, i, t)
    \/ /\ \A j \in from..Len(s) : tg[s[j]] < tg[t]
       /\ s2 = IF from > 1 THEN Append(s, t) ELSE s

(***************************************************************************)
(* timer_alloc_customfifo: the first free timer leaves the list; with none *)
(* free the call returns NULL and changes nothing.  The kernel's own tasks *)
(* allocate 6 of its 499 timers and leave others free.                     *)
(***************************************************************************)
timer_alloc_customfifo(t) ==
    /\ flags[t] = "FREE"
    /\ \A u \in Timer : u < t => flags[u] # "FREE"
    /\ flags' = [flags EXCEPT ![t] = "ALLOCATED"]
    /\ \E i \in DOMAIN dl : dl[i] = t /\ dl' = RemoveNode(dl, i)
    /\ plain' = (plain /\ \E u \in Timer : flags'[u] = "FREE")
    /\ UNCHANGED <<tick, next_alarm, target, crowded>>

\* crowded after t is set in a state with the flags f
Crowds(f, t) ==
    IF \E u \in Timer : f[u] = "FREE" THEN crowded \ {t} ELSE crowded \cup {t}

\* timer_settimer on an ALLOCATED timer; on a FREE one it does nothing.
settimer_allocated(t, n) ==
    /\ flags[t] = "ALLOCATED"
    /\ flags' = [flags EXCEPT ![t] = "ONCOUNTDOWN"]
    /\ target' = [target EXCEPT ![t] = tick + n]
    /\ next_alarm' = Lesser(next_alarm, tick + n)
    /\ WalkInsert(dl, dl', target', t, 1)
    /\ crowded' = Crowds(flags, t)
    /\ UNCHANGED <<tick, plain>>

\* timer_settimer on a timer that is still counting down.  One that is out of
\* the list is its own neighbour: no other timer's target is read.
settimer_oncountdown(t, n) ==
    LET in == {i \in DOMAIN dl : dl[i] = t} IN
    /\ flags[t] = "ONCOUNTDOWN"
    /\ target' = [target EXCEPT ![t] = tick + n]
    /\ \/ /\ in = {}
          /\ next_alarm' = Lesser(next_alarm, tick + n)
          /\ WalkInsert(dl, dl', target', t, 1)
       \/ \E k \in in :
          /\ next_alarm' = Lesser(IF next_alarm = target[t]
                                  THEN TargetAt(dl, target, k + 1)
                                  ELSE next_alarm, tick + n)
          /\ WalkInsert(RemoveNode(dl, k), dl', target', t,
                        IF k > 1 /\ target[dl[k - 1]] < tick + n THEN k ELSE 1)
    /\ crowded' = Crowds(flags, t)
    /\ plain' = FALSE
    /\ UNCHANGED <<tick, flags>>

\* timer_free: the list gets the timer back at its tail.
timer_free(t) ==
    LET in == {i \in DOMAIN dl : dl[i] = t} IN
    /\ flags' = [flags EXCEPT ![t] = "FREE"]
    /\ target' = [target EXCEPT ![t] = UINT32_MAX]
    /\ \/ /\ in = {}
          /\ dl' = Append(dl, t)
          /\ UNCHANGED next_alarm
       \/ \E k \in in :
          /\ next_alarm' = IF flags[t] = "ONCOUNTDOWN" /\ next_alarm = target[t]
                           THEN TargetAt(dl, target, k + 1)
                           ELSE next_alarm
          /\ dl' = Append(RemoveNode(dl, k), t)
    /\ crowded' = crowded \ {t}
    /\ plain' = FALSE
    /\ UNCHANGED tick

\* The handler's loop breaks at the first node that is not due: k nodes fire.
Due(k) ==
    /\ \A i \in 1..k : target[dl[i]] <= tick + 1
    /\ k < Len(dl) => target[dl[k + 1]] > tick + 1

(***************************************************************************)
(* timer_int_handler.  The leading timers that are due fire and become     *)
(* ALLOCATED; when tssTimer is one of them, mprocess_task_autoswitch arms  *)
(* it again with the slice of the next task before the handler returns.    *)
(***************************************************************************)
timer_int_handler ==
    /\ tick < MaxTick
    /\ tick' = tick + 1
    /\ UNCHANGED plain
    /\ \/ next_alarm > tick + 1 /\ UNCHANGED <<next_alarm, flags, target, dl, crowded>>
       \/ /\ next_alarm <= tick + 1
          /\ \E k \in 0..Len(dl) :
             /\ Due(k)
             /\ LET fired == {dl[i] : i \in 1..k}
                    rest  == SubSeq(dl, k + 1, Len(dl))
                    alarm == TargetAt(rest, target, 1)
                    after == [t \in Timer |-> IF t \in fired THEN "ALLOCATED" ELSE flags[t]]
                IN  \/ /\ tssTimer \notin fired
                       /\ flags' = after
                       /\ next_alarm' = alarm
                       /\ dl' = rest
                       /\ crowded' = crowded \ fired
                       /\ UNCHANGED target
                    \/ /\ tssTimer \in fired
                       /\ \E slice \in Timeouts :
                          /\ target' = [target EXCEPT ![tssTimer] = tick + 1 + slice]
                          /\ flags' = [after EXCEPT ![tssTimer] = "ONCOUNTDOWN"]
                          /\ next_alarm' = Lesser(alarm, tick + 1 + slice)
                          /\ WalkInsert(rest, dl', target', tssTimer, 1)
                          /\ crowded' = Crowds(after, tssTimer) \ (fired \ {tssTimer})

-----------------------------------------------------------------------------
\* Every call the interface of timer.h allows.
Next ==
    \/ timer_int_handler
    \/ \E t \in Timer :
          \/ timer_alloc_customfifo(t)
          \/ timer_free(t)
          \/ \E n \in Timeouts : settimer_allocated(t, n) \/ settimer_oncountdown(t, n)

Spec == Init /\ [][Next]_vars

\* What the kernel's own tasks do: no caller re-arms a timer that is still
\* counting down, timer_free has no caller, and a free timer is always left.
KernelSpec == Spec /\ []plain

-----------------------------------------------------------------------------
(***************************************************************************)
(* timer.h:19 "all timers are connected, in the order of `target_tick`":   *)
(* no sequence of allocations, settings, resets, frees and interrupts ever *)
(* leaves two nodes of the ring out of order, although timer_settimer      *)
(* starts its walk in the middle of the ring when a timer is postponed.    *)
(***************************************************************************)
ListOrder ==
    \A i, j \in DOMAIN dl : i < j => target[dl[i]] <= target[dl[j]]

Linked(t) == \E i \in DOMAIN dl : dl[i] = t

(***************************************************************************)
(* timer.h:19-24: whatever calls are made, down to the allocation of the   *)
(* last timer, the ring is in order, holds no timer twice and no allocated *)
(* one, and misses no free timer; a running timer is out of it only when   *)
(* no timer at all was free at the moment it was last set, by its caller   *)
(* or by the task switch.                                                  *)
(***************************************************************************)
ListExact ==
    /\ ListOrder
    /\ \A i, j \in DOMAIN dl : dl[i] = dl[j] => i = j
    /\ \A t \in Timer :
          /\ flags[t] = "ALLOCATED" => ~Linked(t)
          /\ flags[t] = "FREE" => Linked(t)
          /\ flags[t] = "ONCOUNTDOWN" /\ t \notin crowded => Linked(t)

\* timer.h:19 "all timers are connected", with timer.h:24 "Either running or
\* free": timer_settimer leaves no running timer out of the ring.
AllConnected == \A t \in Timer : flags[t] = "ONCOUNTDOWN" => Linked(t)

(***************************************************************************)
(* timer.h:26 "Trigger when system ticks == "alarm"": a timer that counts  *)
(* down is never left behind by the tick, whatever timer_int_handler skips *)
(* because of the cached next_alarm_on_tick.                               *)
(***************************************************************************)
Punctual == \A t \in Timer : flags[t] = "ONCOUNTDOWN" => tick < target[t]

\* With the calls the kernel's tasks make, no timer is left behind.
NoOverdue == plain => Punctual

Deadlines == [t \in Timer |-> IF flags[t] = "ONCOUNTDOWN" THEN target[t] ELSE UINT32_MAX]
Service == INSTANCE TimerService WITH
              now <- tick, switcher <- tssTimer, Off <- UINT32_MAX, deadline <- Deadlines

\* As long as the callers do what the kernel's tasks do, the timers are the
\* abstract timer service: each fires in exactly the tick its deadline names.
ImplementsService == Service!Init /\ [][plain' => Service!Next]_<<tick, Deadlines>>
=============================================================================
