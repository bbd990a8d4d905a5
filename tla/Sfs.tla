-------------------------------- MODULE Sfs --------------------------------
(***************************************************************************)
(* A program on the SFS build of the library: tasks that call the API of   *)
(* core/thread_lib.c, core/iostream.c and core/lock.c, the softirq task of *)
(* core/soft_irq.c, the idle task, and the two signal handlers of          *)
(* core/interrupt.c (SIGALRM tick, SIGIO).                                 *)
(*                                                                         *)
(* Granularity.  A kernel function of SfsSched is one step; SIGALRM or     *)
(* SIGIO may arrive between any two steps of task code, so between any two *)
(* calls an API function makes.  A handler runs with its signal blocked    *)
(* and holds the CPU ("hnd") until it returns or switches tasks.           *)
(***************************************************************************)
EXTENDS SfsSched

CONSTANTS
  Prog,       \* Prog[t]: the API calls the code of task t makes
  MaxArm,     \* bound: sleep timers of one task pending at once
  MaxSum      \* bound: nrp + nwp, which a contended lock() raises by one

AllOps == {"spawn", "yield", "sleep", "forever", "event", "post", "self",
           "io", "lock", "exit", "kill"}

ASSUME ProgAssumption ==
  /\ Prog \in [Task -> SUBSET AllOps]
  /\ MaxArm \in Nat /\ MaxSum \in Nat
  /\ {"none", "tick"} \cap Fd = {}

(* The calls some task makes. *)
Ops == UNION {Prog[t] : t \in Task}

VARIABLES
  pc,       \* what a task does when it next runs
  event,    \* tsk.event holds a bit the task waits for
  armed,    \* number of pending sleep timers whose handler wakes the task
  irq,      \* status of the timer soft irq is WAKE_UP
  hnd,      \* signal handler on the CPU: "none", "tick" or a descriptor
  fd,       \* descriptor of the read in progress
  avail,    \* descriptor has data to read
  lockv,    \* lock->lock
  reg,      \* copy of lock->lock a task is about to change and store back
  owner,    \* lock->owner
  holders   \* history: tasks between a lock() that returned and their unlock()

api  == <<event, armed, irq>>
io   == <<fd, avail>>
lk   == <<lockv, reg, owner, holders>>
vars == <<kernel, pc, api, hnd, io, lk>>

(* Where a task goes on after the schedule() it is about to call. *)
Ret == [sched |-> "run", ev_sched |-> "ev_test", io_sched |-> "io_read",
        lk_sched |-> "lk_test", si_sched |-> "si_scan", exited |-> "exited"]

Label == DOMAIN Ret \cup
         {"new", "run", "sl_add", "ev_test", "ev_add", "ev_reset", "io_read",
          "io_wait", "lk_test", "lk_wait", "lk_load", "lk_store", "lk_chk",
          "lk_own", "ul_load", "ul_store", "ul_chk", "ul_own", "ul_wake", "si_scan", "si_act", "si_add", "idle", "dead"}

Init ==
  /\ tmlib_init
  /\ pc = [t \in Task |-> IF t = Idle THEN "idle"
                          ELSE IF t = Sirq THEN "si_scan"
                          ELSE IF t = Main THEN "run" ELSE "new"]
  /\ event = [t \in Task |-> FALSE]
  /\ armed = [t \in Task |-> 0]
  /\ irq = FALSE
  /\ hnd = "none"
  /\ fd = [t \in Task |-> None]
  /\ avail = [f \in Fd |-> FALSE]
  /\ lockv = 0
  /\ reg = [t \in Task |-> 0]
  /\ owner = None
  /\ holders = {}

-----------------------------------------------------------------------------
(* Task code.                                                              *)

(* t owns the CPU outside any handler and stands at label l. *)
At(t, l) == ~crashed /\ hnd = "none" /\ current = t /\ pc[t] = l
Goto(t, l) == pc' = [pc EXCEPT ![t] = l]

(* Application code of t is free to call an operation of the API. *)
Calls(t, op) == op \in Prog[t] /\ At(t, "run")

spawn_task(t, u) ==
  /\ Calls(t, "spawn")
  /\ u \in User /\ pc[u] = "new"
  /\ wakeup_new_task(u)
  /\ alive' = alive \cup {u}
  /\ task_count' = task_count + 1
  /\ Goto(u, "run")
  /\ UNCHANGED <<nwp, current, prio, hot, masked, thr, crashed, api, hnd, io, lk>>

cpu_yield(t) ==
  /\ Calls(t, "yield")
  /\ schedule
  /\ UNCHANGED <<onrq, nrp, nwp, pool, pc, api, hnd, io, lk>>

(* The schedule() that ends every blocking call. *)
CallSchedule(t) ==
  /\ pc[t] \in DOMAIN Ret /\ At(t, pc[t])
  /\ schedule
  /\ Goto(t, Ret[pc[t]])
  /\ UNCHANGED <<onrq, nrp, nwp, pool, api, hnd, io, lk>>

(* sleep and tm_msleep: start_timer, then the wait queue, then schedule. *)
SleepArm(t) ==
  /\ Calls(t, "sleep") /\ armed[t] < MaxArm
  /\ armed' = [armed EXCEPT ![t] = @ + 1]
  /\ Goto(t, "sl_add")
  /\ UNCHANGED <<kernel, event, irq, hnd, io, lk>>

SleepAdd(t) ==
  /\ At(t, "sl_add")
  /\ add_task_to_wait_Q(t)
  /\ Goto(t, "sched")
  /\ UNCHANGED <<cpu, pool, crashed, api, hnd, io, lk>>

sleep_forever(t) ==
  /\ Calls(t, "forever")
  /\ add_task_to_wait_Q(t)
  /\ Goto(t, "sched")
  /\ UNCHANGED <<cpu, pool, crashed, api, hnd, io, lk>>

(* wait_for_event: test, wait queue, schedule, test again; then the event  *)
(* word is copied out and cleared.                                         *)
wait_for_event(t) ==
  /\ Calls(t, "event")
  /\ Goto(t, "ev_test")
  /\ UNCHANGED <<kernel, api, hnd, io, lk>>

EvTest(t) ==
  /\ At(t, "ev_test")
  /\ Goto(t, IF event[t] THEN "ev_reset" ELSE "ev_add")
  /\ UNCHANGED <<kernel, api, hnd, io, lk>>

EvAdd(t) ==
  /\ At(t, "ev_add")
  /\ add_task_to_wait_Q(t)
  /\ Goto(t, "ev_sched")
  /\ UNCHANGED <<cpu, pool, crashed, api, hnd, io, lk>>

EvReset(t) ==
  /\ At(t, "ev_reset")
  /\ event' = [event EXCEPT ![t] = FALSE]
  /\ Goto(t, "run")
  /\ UNCHANGED <<kernel, armed, irq, hnd, io, lk>>

(* A post to a task find_task does not see returns -1 and changes nothing. *)
post_event(t, u) ==
  /\ Calls(t, "post")
  /\ u \in User \cup {Main} /\ find_task(u)
  /\ u = t => "self" \in Prog[t]
  /\ event' = [event EXCEPT ![u] = TRUE]
  /\ wakeup_task(u)
  /\ UNCHANGED <<current, prio, hot, masked, pool, crashed, pc, armed, irq, hnd,
                 io, lk>>

(* tm_read, and tm_mq_receive like it: try, else wait_on_fd and retry.     *)
tm_read(t, f) ==
  /\ Calls(t, "io")
  /\ fd' = [fd EXCEPT ![t] = f]
  /\ Goto(t, "io_read")
  /\ UNCHANGED <<kernel, api, hnd, avail, lk>>

IoRead(t) ==
  /\ At(t, "io_read")
  /\ Goto(t, IF avail[fd[t]] THEN "run" ELSE "io_wait")
  /\ avail' = [avail EXCEPT ![fd[t]] = FALSE]
  /\ UNCHANGED <<kernel, api, hnd, fd, lk>>

IoWait(t) ==
  /\ At(t, "io_wait")
  /\ wait_on_fd(t, fd[t])
  /\ Goto(t, "io_sched")
  /\ UNCHANGED <<cpu, pool, crashed, api, hnd, io, lk>>

(* lock: test, and either queue up and schedule with SIGALRM blocked or    *)
(* increment; a count above one raises SIGSEGV.  The build (no -O) turns   *)
(* the increment into a load and a store, and loads again for the test.    *)
lock(t) ==
  /\ Calls(t, "lock")
  /\ Goto(t, "lk_test")
  /\ UNCHANGED <<kernel, api, hnd, io, lk>>

LkTest(t) ==
  /\ At(t, "lk_test")
  /\ Goto(t, IF lockv # 0 THEN "lk_wait" ELSE "lk_load")
  /\ UNCHANGED <<kernel, api, hnd, io, lk>>

(* Mutant: taken off the runnable count but not counted as waiting. *)
LkWaitNotCounted(t) ==
  /\ At(t, "lk_wait") /\ nrp + nwp < MaxSum
  /\ list' = list_add_tail(list_del(list, t), LKQ, t)
  /\ onrq' = [onrq EXCEPT ![t] = FALSE]
  /\ nrp' = nrp - 1
  /\ masked' = TRUE
  /\ Goto(t, "lk_sched")
  /\ UNCHANGED <<nwp, current, nxt_imm_task, sched_need, prio, hot, pool, crashed,
                 api, hnd, io, lk>>

LkWait(t) ==
  /\ At(t, "lk_wait") /\ nrp + nwp < MaxSum
  /\ list' = list_add_tail(list_del(list, t), LKQ, t)
  /\ set_task_not_rq(t)
  /\ masked' = TRUE
  /\ Goto(t, "lk_sched")
  /\ UNCHANGED <<nrp, current, nxt_imm_task, sched_need, prio, hot, pool, crashed,
                 api, hnd, io, lk>>

Load(t, from, to) ==
  /\ At(t, from)
  /\ reg' = [reg EXCEPT ![t] = lockv]
  /\ Goto(t, to)
  /\ UNCHANGED <<kernel, api, hnd, io, lockv, owner, holders>>

Store(t, from, d, to) ==
  /\ At(t, from)
  /\ lockv' = reg[t] + d
  /\ reg' = [reg EXCEPT ![t] = 0]
  /\ Goto(t, to)
  /\ UNCHANGED <<kernel, api, hnd, io, owner, holders>>

LkLoad(t)  == Load(t, "lk_load", "lk_store")
LkStore(t) == Store(t, "lk_store", 1, "lk_chk")

LkChk(t) ==
  /\ At(t, "lk_chk")
  /\ IF lockv > 1 THEN crashed' = TRUE ELSE UNCHANGED crashed
  /\ Goto(t, "lk_own")
  /\ UNCHANGED <<queues, cpu, pool, api, hnd, io, lk>>

LkOwn(t) ==
  /\ At(t, "lk_own")
  /\ owner' = t
  /\ holders' = holders \cup {t}
  /\ Goto(t, "run")
  /\ UNCHANGED <<kernel, api, hnd, io, lockv, reg>>

(* unlock by another task than the owner returns -1. *)
unlock(t) ==
  /\ Calls(t, "lock") /\ owner = t
  /\ holders' = holders \ {t}
  /\ Goto(t, "ul_load")
  /\ UNCHANGED <<kernel, api, hnd, io, lockv, reg, owner>>

UlLoad(t)  == Load(t, "ul_load", "ul_store")
UlStore(t) == Store(t, "ul_store", -1, "ul_chk")

UlChk(t) ==
  /\ At(t, "ul_chk")
  /\ IF lockv < 0 THEN crashed' = TRUE ELSE UNCHANGED crashed
  /\ Goto(t, "ul_own")
  /\ UNCHANGED <<queues, cpu, pool, api, hnd, io, lk>>

(* Mutant: the owner is left in place. *)
UlOwnKept(t) ==
  /\ At(t, "ul_own")
  /\ Goto(t, "ul_wake")
  /\ UNCHANGED <<kernel, api, hnd, io, lk>>

UlOwn(t) ==
  /\ At(t, "ul_own")
  /\ owner' = None
  /\ Goto(t, "ul_wake")
  /\ UNCHANGED <<kernel, api, hnd, io, lockv, reg, holders>>

UlWake(t) ==
  /\ At(t, "ul_wake")
  /\ IF list[LKQ] # <<>>
     THEN wakeup_task(Head(list[LKQ]))
     ELSE UNCHANGED <<queues, sched_need, nxt_imm_task>>
  /\ Goto(t, "run")
  /\ UNCHANGED <<current, prio, hot, masked, pool, crashed, api, hnd, io, lk>>

(* The start routine returned: clone_thread frees the task it runs on and  *)
(* then calls schedule().                                                  *)
clone_thread_exit(t) ==
  /\ Calls(t, "exit") /\ t \in User
  /\ task_exit(t)
  /\ Goto(t, "exited")
  /\ UNCHANGED <<current, nxt_imm_task, sched_need, hot, masked, thr, crashed,
                 api, hnd, io, lk>>

kill_task(t, u) ==
  /\ Calls(t, "kill")
  /\ u \in User \ {t} /\ find_task(u)
  /\ task_exit(u)
  /\ Goto(u, "dead")
  /\ UNCHANGED <<current, nxt_imm_task, sched_need, hot, masked, thr, crashed,
                 api, hnd, io, lk>>

-----------------------------------------------------------------------------
(* softirqd and the idle task.                                             *)

SiScan ==
  /\ At(Sirq, "si_scan")
  /\ Goto(Sirq, IF irq THEN "si_act" ELSE "si_add")
  /\ UNCHANGED <<kernel, api, hnd, io, lk>>

(* The bottom half runs the handler of an expired sleep timer.  The timer  *)
(* holds a pointer to its task; waking a freed task follows cleared list   *)
(* pointers.  Which pending timers have expired is left open.              *)
SiFire(u) ==
  /\ At(Sirq, "si_act") /\ armed[u] > 0
  /\ armed' = [armed EXCEPT ![u] = @ - 1]
  /\ IF u \in alive
     THEN wakeup_task(u) /\ UNCHANGED <<current, prio, hot, masked, pool, crashed>>
     ELSE crashed' = TRUE /\ UNCHANGED <<queues, cpu, pool>>
  /\ UNCHANGED <<pc, event, irq, hnd, io, lk>>

(* The action has returned; its status goes back to SLEEPING. *)
SiDone ==
  /\ At(Sirq, "si_act")
  /\ irq' = FALSE
  /\ Goto(Sirq, "si_add")
  /\ UNCHANGED <<kernel, event, armed, hnd, io, lk>>

SiAdd ==
  /\ At(Sirq, "si_add")
  /\ add_task_to_wait_Q(Sirq)
  /\ Goto(Sirq, "si_sched")
  /\ UNCHANGED <<cpu, pool, crashed, api, hnd, io, lk>>

idle_task ==
  /\ At(Idle, "idle") /\ sched_need
  /\ schedule
  /\ UNCHANGED <<onrq, nrp, nwp, pool, pc, api, hnd, io, lk>>

-----------------------------------------------------------------------------
(* Signal handlers.                                                        *)

(* SIGALRM: with timers due (only sleep timers exist here) the soft irq is *)
(* raised and softirqd woken; then the time slice of current is checked.   *)
Tick(pending, used) ==
  /\ ~crashed /\ hnd = "none" /\ ~masked
  /\ pending => \E t \in Task : armed[t] > 0
  /\ IF pending
     THEN MoveToRunQ(Sirq) /\ BecomeImmediate(Sirq)
     ELSE UNCHANGED <<queues, nxt_imm_task>>
  /\ irq' = (irq \/ pending)
  /\ account_task_time_stats(used)
  /\ sched_need' = (sched_need \/ used = "all"
                    \/ (pending /\ prio[current] > prio[Sirq]))
  /\ hnd' = "tick"
  /\ UNCHANGED <<current, prio, masked, pool, crashed, pc, event, armed, io, lk>>

(* The handler ends: it switches tasks if a reschedule is wanted. *)
TickEnd ==
  /\ ~crashed /\ hnd = "tick"
  /\ IF sched_need THEN schedule ELSE UNCHANGED <<list, cpu, crashed>>
  /\ hnd' = "none"
  /\ UNCHANGED <<onrq, nrp, nwp, pool, pc, api, io, lk>>

tick_tmr_intr ==
  TickEnd \/ \E pending \in BOOLEAN, used \in Usage : Tick(pending, used)

(* SIGIO: data arrived on f and every task waiting for f is woken, one per *)
(* step, before the handler returns.                                       *)
SigIo(f) ==
  /\ "io" \in Ops
  /\ ~crashed /\ hnd = "none"
  /\ avail' = [avail EXCEPT ![f] = TRUE]
  /\ hnd' = IF list[f] = <<>> THEN "none" ELSE f
  /\ UNCHANGED <<kernel, pc, api, fd, lk>>

wake_io_task(f) ==
  /\ ~crashed /\ hnd = f
  /\ wakeup_task(Head(list[f]))
  /\ hnd' = IF Len(list[f]) = 1 THEN "none" ELSE f
  /\ UNCHANGED <<current, prio, hot, masked, pool, crashed, pc, api, io, lk>>

io_interrupt == \E f \in Fd : SigIo(f) \/ wake_io_task(f)

-----------------------------------------------------------------------------
TaskStep(t) ==
  \/ CallSchedule(t)
  \/ SleepAdd(t)
  \/ EvTest(t) \/ EvAdd(t) \/ EvReset(t)
  \/ IoRead(t) \/ IoWait(t)
  \/ LkTest(t) \/ LkWait(t) \/ LkLoad(t) \/ LkStore(t) \/ LkChk(t) \/ LkOwn(t)
  \/ UlLoad(t) \/ UlStore(t) \/ UlChk(t) \/ UlOwn(t) \/ UlWake(t)

Call(t) ==
  \/ \E u \in User : spawn_task(t, u)
  \/ cpu_yield(t)
  \/ SleepArm(t)
  \/ sleep_forever(t)
  \/ wait_for_event(t)
  \/ \E u \in Task : post_event(t, u)
  \/ \E f \in Fd : tm_read(t, f)
  \/ lock(t)
  \/ unlock(t)
  \/ clone_thread_exit(t)
  \/ \E u \in User : kill_task(t, u)

softirqd == SiScan \/ (\E u \in Task : SiFire(u)) \/ SiDone \/ SiAdd

(* A process killed by a signal takes no further step. *)
Dead == crashed /\ UNCHANGED vars

Next ==
  \/ \E t \in Task : TaskStep(t) \/ Call(t)
  \/ softirqd
  \/ idle_task
  \/ tick_tmr_intr
  \/ io_interrupt
  \/ Dead

Spec == Init /\ [][Next]_vars

(* The interval timer keeps ticking and a task that keeps the CPU uses up  *)
(* its slice; handlers finish; library code the CPU is in goes on.  What   *)
(* the application calls, and when data arrives, is not fair.              *)
Fairness ==
  /\ SF_vars(\E pending \in BOOLEAN : Tick(pending, "all"))
  /\ WF_vars(TickEnd)
  /\ WF_vars(\E f \in Fd : wake_io_task(f))
  /\ SF_vars(\E t \in Task : TaskStep(t))
  /\ SF_vars(softirqd)
  /\ WF_vars(idle_task)

FairSpec == Spec /\ Fairness

-----------------------------------------------------------------------------
(* Properties.                                                             *)

TypeOK ==
  /\ list \in [ListId -> Seq(Task)]
  /\ onrq \in [Task -> BOOLEAN]
  /\ prio \in [Task -> Prio]
  /\ hot \in SUBSET Task
  /\ nrp \in Int /\ nwp \in Int /\ task_count \in Int
  /\ alive \in SUBSET Task
  /\ thr \in [Task -> Nat]
  /\ current \in Task
  /\ nxt_imm_task \in Task \cup {None}
  /\ sched_need \in BOOLEAN /\ masked \in BOOLEAN /\ crashed \in BOOLEAN
  /\ pc \in [Task -> Label]
  /\ event \in [Task -> BOOLEAN]
  /\ armed \in [Task -> Nat]
  /\ irq \in BOOLEAN
  /\ hnd \in {"none", "tick"} \cup Fd
  /\ fd \in [Task -> Fd \cup {None}]
  /\ avail \in [Fd -> BOOLEAN]
  /\ lockv \in Int /\ reg \in [Task -> Int]
  /\ owner \in Task \cup {None}
  /\ holders \in SUBSET Task

(* Every live task is linked at most once over all lists, a task flagged   *)
(* onrq is on a run list (only Main, which tmlib_init never links, may be  *)
(* on none) and on no wait list, and a task not flagged is on a wait list; *)
(* freed tasks and IDLE are on no list.  The flag is all that wakeup_task  *)
(* and add_task_to_wait_Q look at before they relink a task.               *)
LinkedOnce ==
  \A l, m \in ListId :
    \A i \in 1 .. Len(list[l]), j \in 1 .. Len(list[m]) :
      list[l][i] = list[m][j] => l = m /\ i = j

OnrqAgrees ==
  \A t \in alive \ {Idle} :
    IF onrq[t]
    THEN (OnRunList(t) \/ t = Main) /\ \A c \in Chan : ~Linked(t, c)
    ELSE \E c \in Chan : Linked(t, c)

FreedUnlinked ==
  \A t \in (Task \ alive) \cup {Idle} : \A l \in ListId : ~Linked(t, l)

QueuesConsistent == LinkedOnce /\ OnrqAgrees /\ FreedUnlinked

(* A task is allocated exactly from its spawn_task to its task_exit; the   *)
(* CPU is never on a task that was not spawned or was killed, and on an    *)
(* exited one only until its last schedule().  IDLE makes no call.  While  *)
(* wake_io_task runs for a descriptor some task still waits for it.        *)
Lifecycle ==
  /\ \A t \in Task : t \in alive <=> pc[t] \notin {"new", "exited", "dead"}
  /\ {Main, Sirq} \subseteq alive
  /\ pc[current] \notin {"new", "dead"}
  /\ pc[Idle] = "idle" /\ armed[Idle] = 0
  /\ \A t \in Task : pc[t] \in {"io_read", "io_wait", "io_sched"} => fd[t] \in Fd
  /\ hnd \in Fd => list[hnd] # <<>>

Runnable == {t \in alive \ {Idle} : onrq[t]}
Waiting  == {t \in alive \ {Idle} : ~onrq[t]}

(* rq.nrp and wq.nwp, which get_next_eligible_task_to_run and the load     *)
(* computation trust, are the numbers of runnable and of waiting tasks.    *)
CountersExact == nrp = Cardinality(Runnable) /\ nwp = Cardinality(Waiting)

(* The two counters together never fall below the number of live tasks:    *)
(* lock(), task_exit and the race of SIGIO with wait_on_fd only ever leave *)
(* tasks counted twice or counted after their end.                         *)
CountersCover == nrp + nwp >= Cardinality(alive \ {Idle})

(* schedule() dereferences a bad pick only when Main was preempted before  *)
(* its first blocking call and so is on no list.                           *)
NullPickOnlyLosesMain == crashed => \A l \in ListId : ~Linked(Main, l)

(* schedule() switches only to a runnable task; the exceptions are IDLE    *)
(* and a softirqd woken by a tick while it was running.                    *)
SwitchTargetsRunnable ==
  [][current' # current => current' \in {Idle, Sirq} \/ onrq[current']]_vars

(* lock->owner is a task whose lock() has returned, until its unlock() has *)
(* cleared it again; so unlock() succeeds only for a task that is past     *)
(* lock(), however the calls of other tasks interleave with it.            *)
OwnerIsPastLock ==
  owner # None =>
    owner \in holders \/ pc[owner] \in {"ul_load", "ul_store", "ul_chk", "ul_own", "dead"}

(* A task made the immediate one by wakeup_task gets the CPU, unless a     *)
(* task of a better priority is woken before the next schedule().  This    *)
(* needs programs in which no task both sleeps and reads: a task woken     *)
(* before it gave up the CPU stays the immediate one, goes on running      *)
(* after it has parked, and a wait_on_fd then takes it off nrp once more;  *)
(* at nrp = 0 the CPU idles past the woken task.                           *)
WokenTaskRuns ==
  \A t \in Task :
    (nxt_imm_task = t /\ onrq[t]) ~> (current = t \/ nxt_imm_task # t \/ crashed)

-----------------------------------------------------------------------------
(* What comments, messages and the manual say of the scheduler; README.md  *)
(* tells how the code departs from each.                                   *)

(* "spawn task by default add the newly created task to rq": a runnable    *)
(* task that does not own the CPU is on a run queue.                       *)
SpawnedOnRq == \A t \in Runnable \ {current} : OnRunList(t)

(* "no event happend add task to wait q": a task parked by wait_for_event  *)
(* has no event pending.                                                   *)
ParkedWithoutEvent ==
  \A t \in alive : pc[t] = "ev_sched" /\ ~onrq[t] => ~event[t]

(* "sleep for milli secs": a task parked by sleep has a timer to wake it.  *)
SleeperHasTimer ==
  \A t \in alive : pc[t] = "sched" /\ ~onrq[t] => armed[t] > 0

(* "WAIT_Q task -> WAIT_Q TASK - It should be RQ->WQ": a task about to be  *)
(* put on the wait queue is on the run queue.                              *)
WaitOnlyFromRunQueue ==
  \A t \in Task :
    hnd = "none" /\ current = t /\ pc[t] \in {"sl_add", "ev_add", "si_add"}
      => onrq[t]

(* "if (lock->lock > 1)" stops a second task on its way through lock(): no *)
(* two tasks are past lock() at once.                                      *)
MutualExclusion == crashed \/ \A t, u \in holders : t = u

(* "TASK in RUN Q" reports the number of runnable tasks.                   *)
RunCountExact == nrp = Cardinality(Runnable)

(* "At present it works based on RoundRobin": a runnable task does not     *)
(* wait forever behind running tasks of its own priority.                  *)
RoundRobin ==
  \A t \in User :
    []<>~(t \in Runnable /\ current # t /\ current \in User
          /\ prio[current] = prio[t] /\ ~crashed)
=============================================================================
