---------------------------- MODULE TimerService ----------------------------
(***************************************************************************)
(* What the kernel timers promise their callers, with no list and no cached *)
(* alarm: an armed timer fires in the very tick its deadline names.         *)
(***************************************************************************)
EXTENDS Naturals

CONSTANTS Timer,     \* the timers
          Timeouts,  \* the timeouts, in ticks, they are armed with
          switcher,  \* the timer of the task switch, re-armed while it fires
          Off        \* the deadline of a timer that is not armed

VARIABLES now, deadline

Init == now = 0 /\ deadline = [t \in Timer |-> Off]

Set(t, n) ==
    /\ deadline[t] = Off
    /\ deadline' = [deadline EXCEPT ![t] = now + n]
    /\ UNCHANGED now

\* One tick: exactly the timers due in this tick fire.
Due == {t \in Timer : deadline[t] = now + 1}

Tick ==
    /\ now' = now + 1
    /\ \A t \in Timer : deadline[t] # Off => deadline[t] > now
    /\ \/ deadline' = [t \in Timer |-> IF t \in Due THEN Off ELSE deadline[t]]
       \/ /\ switcher \in Due
          /\ \E n \in Timeouts :
                deadline' = [t \in Timer |-> IF t = switcher THEN now + 1 + n
                                             ELSE IF t \in Due THEN Off
                                             ELSE deadline[t]]

Next == Tick \/ \E t \in Timer, n \in Timeouts : Set(t, n)

Spec == Init /\ [][Next]_<<now, deadline>>
=============================================================================
