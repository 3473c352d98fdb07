------------------------------- MODULE Process ------------------------------
(***************************************************************************)
(* kernel/process.c: the scheduler's data structure taskctl and the        *)
(* operations on it.  taskctl is a record c; each operation maps it to the *)
(* record it leaves.  The tasks array of a level keeps the entries beyond  *)
(* its `running' prefix, as the code does, because now_lv may still point  *)
(* at them.                                                                *)
(***************************************************************************)
EXTENDS Integers

CONSTANTS Task,       \* the TASKs of tasks0 that the kernel allocates
          NULL,       \* no TASK
          LEVELS,     \* OS_MPROCESS_TASKLEVELS_MAX
          LEVEL_TASKS \* OS_MPROCESS_TASKLEVEL_TASKS_MAX

ASSUME ProcessAssumption ==
    /\ NULL \notin Task
    /\ LEVELS \in Nat \ {0}
    /\ LEVEL_TASKS \in Nat \ {0}

Level == 0..(LEVELS - 1)

TaskLevel == [running : 0..LEVEL_TASKS, now : 0..LEVEL_TASKS,
              tasks : [0..(LEVEL_TASKS - 1) -> Task \cup {NULL}]]

TaskCtl == [now_lv : Level, lv_change : BOOLEAN, level : [Level -> TaskLevel],
            flags : [Task -> {"FREE", "ALLOCATED", "RUNNING"}],
            priority : [Task -> Nat], lv : [Task -> Level]]

\* kzalloc(sizeof(TASKCTL))
ZeroTaskCtl ==
    [now_lv |-> 0, lv_change |-> FALSE,
     level |-> [l \in Level |-> [running |-> 0, now |-> 0,
                                 tasks |-> [i \in 0..(LEVEL_TASKS - 1) |-> NULL]]],
     flags |-> [t \in Task |-> "FREE"], priority |-> [t \in Task |-> 0],
     lv |-> [t \in Task |-> 0]]

mprocess_task_alloc(c, t) ==
    [c EXCEPT !.flags[t] = "ALLOCATED", !.priority[t] = 2]

mprocess_task_get_current(c) ==
    LET tl == c.level[c.now_lv] IN tl.tasks[tl.now]

\* The position of t among the running tasks of its level; running if absent.
Index(tl, t) ==
    IF \E i \in 0..(tl.running - 1) : tl.tasks[i] = t
    THEN CHOOSE i \in 0..(tl.running - 1) :
            tl.tasks[i] = t /\ \A j \in 0..(i - 1) : tl.tasks[j] # t
    ELSE tl.running

__mprocess_task_add(c, t) ==
    LET l  == c.lv[t]
        tl == c.level[l]
    IN  IF Index(tl, t) < tl.running THEN c
        ELSE [c EXCEPT !.level[l] = [tl EXCEPT !.tasks[tl.running] = t,
                                               !.running = tl.running + 1],
                       !.flags[t] = "RUNNING"]

mprocess_task_remove(c, t) ==
    LET l   == c.lv[t]
        tl  == c.level[l]
        i   == Index(tl, t)
        n   == tl.running - 1
        now == IF i < tl.now THEN tl.now - 1 ELSE tl.now
    IN  [c EXCEPT
          !.level[l] = [running |-> n,
                        now |-> IF now >= n THEN 0 ELSE now,
                        tasks |-> [j \in DOMAIN tl.tasks |->
                                     IF i <= j /\ j < n THEN tl.tasks[j + 1] ELSE tl.tasks[j]]],
          !.flags[t] = "ALLOCATED",
          !.lv_change = (@ \/ n = 0)]

\* The first level with a running task, the last level if there is none.
TopLevel(c) ==
    IF \E l \in Level : c.level[l].running > 0
    THEN CHOOSE l \in Level :
            c.level[l].running > 0 /\ \A k \in 0..(l - 1) : c.level[k].running = 0
    ELSE LEVELS - 1

__mprocess_task_update_currentlv(c) ==
    [c EXCEPT !.now_lv = TopLevel(c), !.lv_change = FALSE]

\* mprocess_task_run: all but the update of the level
RunTask(c, t, level, priority) ==
    LET l == IF level < 0 THEN c.lv[t] ELSE level
        p == IF priority > 0 THEN [c EXCEPT !.priority[t] = priority] ELSE c
        r == IF p.flags[t] = "RUNNING" /\ p.lv[t] # l THEN mprocess_task_remove(p, t) ELSE p
    IN  IF r.flags[t] = "ALLOCATED"
        THEN __mprocess_task_add([r EXCEPT !.lv[t] = l], t) ELSE r
RunNoLvChange(c, t, level, priority) == RunTask(c, t, level, priority)
RunUpdatesLevel(c, t, level, priority) ==
    __mprocess_task_update_currentlv(RunTask(c, t, level, priority))
mprocess_task_run(c, t, level, priority) ==
    [RunTask(c, t, level, priority) EXCEPT !.lv_change = TRUE]

\* mprocess_task_autoswitch up to its _farjmp: the taskctl it leaves ...
mprocess_task_autoswitch(c) ==
    LET tl == c.level[c.now_lv]
        up == [c EXCEPT !.level[c.now_lv].now = IF tl.now + 1 = tl.running THEN 0 ELSE tl.now + 1]
    IN  IF c.lv_change THEN __mprocess_task_update_currentlv(up) ELSE up

\* ... and the task that runs next: a _farjmp unless it is the current one.
taskNext(c) == mprocess_task_get_current(mprocess_task_autoswitch(c))

\* mprocess_task_sleep(t): the taskctl it leaves, and the task that runs then
\* when t runs and believes it is the current one.
mprocess_task_sleep(c, t) ==
    IF c.flags[t] # "RUNNING" THEN c
    ELSE IF t = mprocess_task_get_current(c)
         THEN __mprocess_task_update_currentlv(mprocess_task_remove(c, t))
         ELSE mprocess_task_remove(c, t)
taskAfterSleep(c, t) ==
    IF c.flags[t] = "RUNNING" /\ t = mprocess_task_get_current(c)
    THEN mprocess_task_get_current(mprocess_task_sleep(c, t)) ELSE t

-----------------------------------------------------------------------------
(***************************************************************************)
(* The run queues are sound: a task is RUNNING exactly when it is in the   *)
(* running prefix of its own level, exactly once, and in no other level.   *)
(***************************************************************************)
QueuesSound(c) ==
    \A t \in Task : \A l \in Level :
        LET at == {i \in 0..(c.level[l].running - 1) : c.level[l].tasks[i] = t} IN
        IF c.flags[t] = "RUNNING" /\ c.lv[t] = l THEN \E i \in at : at = {i} ELSE at = {}

\* lv_change is raised whenever now_lv is not the highest level with a task.
LevelKnown(c) == ~c.lv_change => c.now_lv = TopLevel(c)
=============================================================================
