--------------------------- MODULE SfsCountProofs ---------------------------
(***************************************************************************)
(* Proofs about the counters of the SFS scheduler, rq.nrp, wq.nwp and      *)
(* task_count, for any number of tasks and descriptors.  CounterEffect     *)
(* lists everything one step can do to the counters, the flags onrq and    *)
(* the set of allocated tasks; the theorems follow from that list.  Each   *)
(* theorem says which API calls the program must not make for it to hold.  *)
(***************************************************************************)
EXTENDS SfsProofs, FiniteSetTheorems

IoLabels == {"io_read", "io_wait", "io_sched"}
LockLabels == {"lk_test", "lk_wait", "lk_sched", "lk_load", "lk_store", "lk_chk",
               "lk_own", "ul_load", "ul_store", "ul_chk", "ul_own", "ul_wake"}

(* A task is inside tm_read or lock/unlock only if the program calls it.   *)
CallsMade ==
  \A t \in Task : /\ pc[t] \in IoLabels => "io" \in Ops
                  /\ pc[t] \in LockLabels => "lock" \in Ops

(* t has parked itself and is about to call schedule(). *)
GoesToSchedule(t) ==
  /\ current = t /\ current' = t
  /\ pc[t] \notin DOMAIN Ret /\ pc'[t] \in DOMAIN Ret

NoEffect == UNCHANGED <<onrq, nrp, nwp, alive, task_count>>

(* add_task_to_wait_Q *)
Parks(t) ==
  /\ t \in alive \ {Idle} /\ onrq[t]
  /\ onrq' = [onrq EXCEPT ![t] = FALSE]
  /\ nrp' = nrp - 1 /\ nwp' = nwp + 1
  /\ UNCHANGED <<alive, task_count>>
  /\ GoesToSchedule(t)

(* wait_on_fd *)
ParksOnFd(t) ==
  /\ "io" \in Ops
  /\ t \in alive \ {Idle}
  /\ onrq' = [onrq EXCEPT ![t] = FALSE]
  /\ nrp' = nrp - 1 /\ nwp' = nwp + 1
  /\ UNCHANGED <<alive, task_count>>
  /\ GoesToSchedule(t)

(* lock() on a lock that is taken *)
ParksOnLock(t) ==
  /\ "lock" \in Ops
  /\ t \in alive \ {Idle}
  /\ onrq' = [onrq EXCEPT ![t] = FALSE]
  /\ nwp' = nwp + 1
  /\ UNCHANGED <<nrp, alive, task_count>>

(* wakeup_task *)
Wakes(t) ==
  /\ t \in alive \ {Idle} /\ ~onrq[t]
  /\ onrq' = [onrq EXCEPT ![t] = TRUE]
  /\ nrp' = nrp + 1 /\ nwp' = nwp - 1
  /\ UNCHANGED <<alive, task_count>>

(* spawn_task *)
Spawns(t) ==
  /\ t \in User \ alive
  /\ onrq' = [onrq EXCEPT ![t] = TRUE]
  /\ nrp' = nrp + 1 /\ nwp' = nwp
  /\ alive' = alive \cup {t} /\ task_count' = task_count + 1

(* task_exit, from the task itself or from kill_task *)
Ends(t) ==
  /\ "exit" \in Ops \/ "kill" \in Ops
  /\ t \in User \cap alive
  /\ onrq' = [onrq EXCEPT ![t] = FALSE]
  /\ nrp' = nrp /\ nwp' = nwp
  /\ alive' = alive \ {t} /\ task_count' = task_count - 1

CounterEffect ==
  \/ NoEffect
  \/ \E t \in Task : \/ Parks(t) \/ ParksOnFd(t) \/ ParksOnLock(t)
                     \/ Wakes(t) \/ Spawns(t) \/ Ends(t)

-----------------------------------------------------------------------------
(* A call some task's code makes is a call of the program.                 *)
LEMMA InOps ==
  ASSUME NEW t \in Task, NEW op \in Prog[t]
  PROVE  op \in Ops
BY DEF Ops

(* add_task_to_wait_Q by a running task parks it or, with its flag down,   *)
(* does nothing.                                                           *)
LEMMA WaitEffect ==
  ASSUME NEW t \in alive \ {Idle}, add_task_to_wait_Q(t), UNCHANGED <<alive, task_count>>,
         GoesToSchedule(t)
  PROVE  NoEffect \/ Parks(t)
<1>1. CASE onrq[t]
  BY <1>1 DEF add_task_to_wait_Q, Parks
<1>2. CASE ~onrq[t]
  BY <1>2 DEF add_task_to_wait_Q, queues, NoEffect
<1> QED
  BY <1>1, <1>2

(* wakeup_task wakes an allocated task or finds it runnable.               *)
LEMMA WakeEffect ==
  ASSUME NEW t \in alive \ {Idle}, MoveToRunQ(t), UNCHANGED <<alive, task_count>>
  PROVE  NoEffect \/ Wakes(t)
<1>1. CASE ~onrq[t]
  BY <1>1 DEF MoveToRunQ, Wakes
<1>2. CASE onrq[t]
  BY <1>2 DEF MoveToRunQ, queues, NoEffect
<1> QED
  BY <1>1, <1>2

(* The steps of task code between two API calls.                           *)
LEMMA TaskStepEffect ==
  ASSUME IInv, CallsMade, NEW t \in Task, TaskStep(t)
  PROVE  CounterEffect
<1>0. pc \in [Task -> Label] /\ alive \subseteq Task /\ Sirq \in Task
  BY TaskAssumption, Zenon DEF IInv, TypeOK
<1>1. CASE CallSchedule(t)
  BY <1>1 DEF CallSchedule, CounterEffect, NoEffect, pool
<1>2. CASE SleepAdd(t) \/ EvAdd(t)
  <2>1. PICK k \in {"sl_add", "ev_add"}, l \in {"sched", "ev_sched"} :
          At(t, k) /\ Goto(t, l) /\ add_task_to_wait_Q(t) /\ UNCHANGED <<cpu, pool>>
    BY <1>2 DEF SleepAdd, EvAdd
  <2>2. t \in alive \ {Idle} /\ current = t /\ pc[t] = k
    BY <2>1, AtAlive
  <2>3. k \notin DOMAIN Ret /\ l \in DOMAIN Ret
    BY DEF Ret
  <2>4. GoesToSchedule(t)
    BY <1>0, <2>1, <2>2, <2>3 DEF GoesToSchedule, Goto, cpu
  <2> QED
    BY <2>1, <2>2, <2>4, WaitEffect DEF CounterEffect, pool
<1>3. CASE IoWait(t)
  <2>1. At(t, "io_wait") /\ Goto(t, "io_sched") /\ wait_on_fd(t, fd[t]) /\ UNCHANGED <<cpu, pool>>
    BY <1>3 DEF IoWait
  <2>2. t \in alive \ {Idle} /\ current = t /\ pc[t] = "io_wait"
    BY <2>1, AtAlive
  <2>3. "io_wait" \notin DOMAIN Ret /\ "io_sched" \in DOMAIN Ret
    BY DEF Ret
  <2>4. GoesToSchedule(t)
    BY <1>0, <2>1, <2>2, <2>3 DEF GoesToSchedule, Goto, cpu
  <2>5. "io" \in Ops
    BY <2>2 DEF CallsMade, IoLabels
  <2>6. ParksOnFd(t)
    BY <2>1, <2>2, <2>4, <2>5 DEF ParksOnFd, wait_on_fd, pool
  <2> QED
    BY <2>6 DEF CounterEffect
<1>4. CASE LkWait(t)
  <2>1. At(t, "lk_wait") /\ set_task_not_rq(t) /\ UNCHANGED <<nrp, pool>>
    BY <1>4 DEF LkWait
  <2>2. t \in alive \ {Idle} /\ pc[t] = "lk_wait"
    BY <2>1, AtAlive
  <2>3. "lock" \in Ops
    BY <2>2 DEF CallsMade, LockLabels
  <2>4. ParksOnLock(t)
    BY <2>1, <2>2, <2>3 DEF ParksOnLock, set_task_not_rq, pool
  <2> QED
    BY <2>4 DEF CounterEffect
<1>5. CASE \/ EvTest(t) \/ EvReset(t) \/ IoRead(t) \/ LkTest(t) \/ LkLoad(t) \/ LkStore(t)
           \/ LkChk(t) \/ LkOwn(t) \/ UlLoad(t) \/ UlStore(t) \/ UlChk(t) \/ UlOwn(t)
  <2>1. UNCHANGED <<queues, pool>>
    BY <1>5 DEF EvTest, EvReset, IoRead, LkTest, LkLoad, LkStore, LkChk, LkOwn,
                UlLoad, UlStore, UlChk, UlOwn, Load, Store, kernel
  <2> QED
    BY <2>1, ZenonT(60) DEF CounterEffect, NoEffect, queues, pool
<1>6. CASE UlWake(t)
  <2>1. CASE list[LKQ] # <<>>
    <3> DEFINE p == Head(list[LKQ])
    <3>1. LKQ \in ListId
      BY DEF ListId, Chan
    <3>2. p \in Task /\ p \in alive \ {Idle}
      BY <2>1, <3>1, HeadLinked, LinkedAlive, ZenonT(60) DEF IInv
    <3>3. MoveToRunQ(p) /\ UNCHANGED <<alive, task_count>>
      BY <1>6, <2>1 DEF UlWake, wakeup_task, pool
    <3> HIDE DEF p
    <3> QED
      BY <3>2, <3>3, WakeEffect DEF CounterEffect
  <2>2. CASE list[LKQ] = <<>>
    BY <1>6, <2>2 DEF UlWake, CounterEffect, NoEffect, queues, pool
  <2> QED
    BY <2>1, <2>2
<1> QED
  BY <1>1, <1>2, <1>3, <1>4, <1>5, <1>6, ZenonT(60) DEF TaskStep

(* The API calls.                                                          *)
LEMMA CallEffect ==
  ASSUME IInv, NEW t \in Task, Call(t)
  PROVE  CounterEffect
<1>0. pc \in [Task -> Label] /\ alive \subseteq Task
  BY DEF IInv, TypeOK
<1>1. CASE \E u \in User : spawn_task(t, u)
  <2>1. PICK u \in User : spawn_task(t, u)
    BY <1>1
  <2>2. u \in Task /\ pc[u] = "new"
    BY <2>1 DEF User, spawn_task
  <2>3. u \notin alive
    BY <2>2 DEF IInv, Lifecycle
  <2>4. Spawns(u)
    BY <2>1, <2>3 DEF Spawns, spawn_task, wakeup_new_task
  <2> QED
    BY <2>2, <2>4 DEF CounterEffect
<1>2. CASE cpu_yield(t)
  BY <1>2 DEF cpu_yield, CounterEffect, NoEffect, pool
<1>3. CASE sleep_forever(t)
  <2>1. At(t, "run") /\ Goto(t, "sched") /\ add_task_to_wait_Q(t) /\ UNCHANGED <<cpu, pool>>
    BY <1>3 DEF sleep_forever, Calls
  <2>2. t \in alive \ {Idle} /\ current = t /\ pc[t] = "run"
    BY <2>1, AtAlive
  <2>3. "run" \notin DOMAIN Ret /\ "sched" \in DOMAIN Ret
    BY DEF Ret
  <2>4. GoesToSchedule(t)
    BY <1>0, <2>1, <2>2, <2>3 DEF GoesToSchedule, Goto, cpu
  <2> QED
    BY <2>1, <2>2, <2>4, WaitEffect, ZenonT(60) DEF CounterEffect, pool
<1>4. CASE \/ SleepArm(t) \/ wait_for_event(t) \/ lock(t) \/ unlock(t)
           \/ \E f \in Fd : tm_read(t, f)
  <2>1. UNCHANGED <<queues, pool>>
    BY <1>4 DEF SleepArm, wait_for_event, lock, unlock, tm_read, kernel
  <2> QED
    BY <2>1 DEF CounterEffect, NoEffect, queues, pool
<1>5. CASE \E u \in Task : post_event(t, u)
  <2>1. PICK u \in Task : post_event(t, u)
    BY <1>5
  <2>2. u \in alive \ {Idle}
    <3>1. PICK l \in ListId : Linked(u, l)
      BY <2>1 DEF post_event, find_task, OnRunList, ListId, Chan
    <3> QED
      BY <3>1, LinkedAlive DEF IInv
  <2>3. MoveToRunQ(u) /\ UNCHANGED <<alive, task_count>>
    BY <2>1 DEF post_event, wakeup_task, pool
  <2> QED
    BY <2>2, <2>3, WakeEffect DEF CounterEffect
<1>6. CASE clone_thread_exit(t)
  <2>1. /\ "exit" \in Prog[t] /\ At(t, "run") /\ t \in User /\ task_exit(t)
    BY <1>6 DEF clone_thread_exit, Calls
  <2>2. t \in alive /\ "exit" \in Ops
    BY <2>1, AtAlive, InOps, ZenonT(60)
  <2>3. Ends(t)
    BY <2>1, <2>2 DEF Ends, task_exit
  <2> QED
    BY <2>3 DEF CounterEffect
<1>7. CASE \E u \in User : kill_task(t, u)
  <2>1. PICK u \in User : kill_task(t, u)
    BY <1>7
  <2>2. u \in Task /\ "kill" \in Ops
    BY <2>1, InOps DEF User, kill_task, Calls
  <2>3. u \in alive
    <3>1. PICK l \in ListId : Linked(u, l)
      BY <2>1, ZenonT(60) DEF kill_task, find_task, OnRunList, ListId, Chan
    <3> QED
      BY <2>2, <3>1, LinkedAlive, ZenonT(60) DEF IInv
  <2>4. Ends(u)
    BY <2>1, <2>2, <2>3 DEF Ends, kill_task, task_exit
  <2> QED
    BY <2>2, <2>4 DEF CounterEffect
<1> QED
  BY <1>1, <1>2, <1>3, <1>4, <1>5, <1>6, <1>7, ZenonT(60) DEF Call

(* softirqd, IDLE and the signal handlers.                                 *)
LEMMA HandlerEffect ==
  ASSUME IInv, softirqd \/ idle_task \/ tick_tmr_intr \/ io_interrupt
  PROVE  CounterEffect
<1>0. pc \in [Task -> Label] /\ alive \subseteq Task /\ Sirq \in Task
      /\ Sirq \in alive \ {Idle}
  BY TaskAssumption, Zenon DEF IInv, TypeOK, Lifecycle
<1>1. CASE SiScan \/ SiDone \/ \E f \in Fd : SigIo(f)
  <2>1. UNCHANGED <<queues, pool>>
    BY <1>1 DEF SiScan, SiDone, SigIo, kernel
  <2> QED
    BY <2>1 DEF CounterEffect, NoEffect, queues, pool
<1>2. CASE SiAdd
  <2>1. At(Sirq, "si_add") /\ Goto(Sirq, "si_sched") /\ add_task_to_wait_Q(Sirq)
        /\ UNCHANGED <<cpu, pool>>
    BY <1>2 DEF SiAdd
  <2>2. current = Sirq /\ pc[Sirq] = "si_add"
    BY <2>1 DEF At
  <2>3. "si_add" \notin DOMAIN Ret /\ "si_sched" \in DOMAIN Ret
    BY DEF Ret
  <2>4. GoesToSchedule(Sirq)
    BY <1>0, <2>1, <2>2, <2>3 DEF GoesToSchedule, Goto, cpu
  <2> QED
    BY <1>0, <2>1, <2>4, WaitEffect DEF CounterEffect, pool
<1>3. CASE \E u \in Task : SiFire(u)
  <2>1. PICK u \in Task : SiFire(u)
    BY <1>3
  <2>2. CASE u \in alive
    <3>1. u # Idle
      BY <2>1 DEF SiFire, IInv, Lifecycle
    <3>2. MoveToRunQ(u) /\ UNCHANGED <<alive, task_count>>
      BY <2>1, <2>2 DEF SiFire, wakeup_task, pool
    <3> QED
      BY <2>2, <3>1, <3>2, WakeEffect, ZenonT(60) DEF CounterEffect
  <2>3. CASE u \notin alive
    BY <2>1, <2>3 DEF SiFire, CounterEffect, NoEffect, queues, pool
  <2> QED
    BY <2>2, <2>3
<1>4. CASE idle_task \/ TickEnd
  BY <1>4 DEF idle_task, TickEnd, CounterEffect, NoEffect, pool
<1>5. CASE \E pending \in BOOLEAN, used \in Usage : Tick(pending, used)
  <2>1. PICK pending \in BOOLEAN, used \in Usage : Tick(pending, used)
    BY <1>5
  <2>2. CASE pending
    <3>1. MoveToRunQ(Sirq) /\ UNCHANGED <<alive, task_count>>
      BY <2>1, <2>2 DEF Tick, pool
    <3> QED
      BY <1>0, <3>1, WakeEffect DEF CounterEffect
  <2>3. CASE ~pending
    BY <2>1, <2>3 DEF Tick, CounterEffect, NoEffect, queues, pool
  <2> QED
    BY <2>2, <2>3
<1>6. CASE \E f \in Fd : wake_io_task(f)
  <2>1. PICK f \in Fd : wake_io_task(f)
    BY <1>6
  <2>2. f \in ListId /\ list[f] # <<>>
    BY <2>1 DEF wake_io_task, IInv, Lifecycle, ListId, Chan
  <2> DEFINE p == Head(list[f])
  <2>3. p \in Task /\ p \in alive \ {Idle}
    BY <2>2, HeadLinked, LinkedAlive DEF IInv
  <2>4. MoveToRunQ(p) /\ UNCHANGED <<alive, task_count>>
    BY <2>1 DEF wake_io_task, wakeup_task, pool
  <2> HIDE DEF p
  <2> QED
    BY <2>3, <2>4, WakeEffect DEF CounterEffect
<1> QED
  BY <1>1, <1>2, <1>3, <1>4, <1>5, <1>6, ZenonT(60) DEF softirqd, tick_tmr_intr, io_interrupt

(* Everything a step can do to the counters.                               *)
LEMMA StepEffect ==
  ASSUME IInv, CallsMade, [Next]_vars
  PROVE  CounterEffect
<1>1. CASE \E t \in Task : TaskStep(t)
  BY <1>1, TaskStepEffect
<1>2. CASE \E t \in Task : Call(t)
  BY <1>2, CallEffect
<1>3. CASE softirqd \/ idle_task \/ tick_tmr_intr \/ io_interrupt
  BY <1>3, HandlerEffect
<1>4. CASE Dead \/ UNCHANGED vars
  BY <1>4 DEF Dead, vars, kernel, queues, pool, CounterEffect, NoEffect
<1> QED
  BY <1>1, <1>2, <1>3, <1>4 DEF Next

-----------------------------------------------------------------------------
(* CallsMade is inductive with TypeOK.                                     *)

(* A step that moves one task to a label it may reach keeps CallsMade.     *)
LEMMA CallsMadeGoto ==
  ASSUME TypeOK, CallsMade, NEW t \in Task, NEW l, pc' = [pc EXCEPT ![t] = l],
         l \in IoLabels => pc[t] \in IoLabels \/ "io" \in Ops,
         l \in LockLabels => pc[t] \in LockLabels \/ "lock" \in Ops
  PROVE  CallsMade'
<1>1. pc'[t] = l /\ \A u \in Task \ {t} : pc'[u] = pc[u]
  BY DEF TypeOK
<1> QED
  BY <1>1 DEF CallsMade

(* Every step keeps it.                                                    *)
LEMMA CallsMadeStep ==
  ASSUME TypeOK, CallsMade, [Next]_vars
  PROVE  CallsMade'
<1>0. Sirq \in Task
  BY TaskAssumption
<1>1. ASSUME pc' = pc
      PROVE  CallsMade'
  BY <1>1 DEF CallsMade
<1>2. ASSUME NEW t \in Task, TaskStep(t)
      PROVE  CallsMade'
  <2>1. PICK l : /\ pc' = [pc EXCEPT ![t] = l]
                 /\ l \in IoLabels => pc[t] \in IoLabels
                 /\ l \in LockLabels => pc[t] \in LockLabels
    <3>1. CASE CallSchedule(t)
      <4>1. pc[t] \in DOMAIN Ret /\ pc' = [pc EXCEPT ![t] = Ret[pc[t]]]
        BY <3>1 DEF CallSchedule, Goto
      <4>2. /\ Ret[pc[t]] \in IoLabels => pc[t] \in IoLabels
            /\ Ret[pc[t]] \in LockLabels => pc[t] \in LockLabels
        BY <4>1 DEF Ret, IoLabels, LockLabels
      <4> QED
        BY <4>1, <4>2, Zenon
    <3>2. CASE SleepAdd(t) \/ EvTest(t) \/ EvAdd(t) \/ EvReset(t)
      BY <3>2 DEF SleepAdd, EvTest, EvAdd, EvReset, At, Goto, IoLabels, LockLabels
    <3>3. CASE IoRead(t) \/ IoWait(t)
      BY <3>3, SMTT(30) DEF IoRead, IoWait, At, Goto, IoLabels, LockLabels
    <3>4. CASE \/ LkTest(t) \/ LkWait(t) \/ LkLoad(t) \/ LkStore(t) \/ LkChk(t)
               \/ LkOwn(t) \/ UlLoad(t) \/ UlStore(t) \/ UlChk(t) \/ UlOwn(t) \/ UlWake(t)
      BY <3>4, Zenon DEF LkTest, LkWait, LkLoad, LkStore, LkChk, LkOwn, UlLoad, UlStore, UlChk,
                  UlOwn, UlWake, Load, Store, At, Goto, IoLabels, LockLabels
    <3> QED
      BY <1>2, <3>1, <3>2, <3>3, <3>4 DEF TaskStep
  <2> QED
    BY <2>1, CallsMadeGoto, Zenon
<1>3. ASSUME NEW t \in Task, Call(t)
      PROVE  CallsMade'
  <2>1. CASE \E u \in User : spawn_task(t, u)
    <3>1. PICK u \in Task : pc' = [pc EXCEPT ![u] = "run"]
      BY <2>1, Zenon DEF spawn_task, Goto, User
    <3>2. "run" \notin IoLabels \cup LockLabels
      BY DEF IoLabels, LockLabels
    <3> QED
      BY <3>1, <3>2, CallsMadeGoto, Zenon
  <2>2. CASE cpu_yield(t) \/ \E u \in Task : post_event(t, u)
    BY <1>1, <2>2 DEF cpu_yield, post_event
  <2>3. CASE SleepArm(t) \/ sleep_forever(t) \/ wait_for_event(t) \/ clone_thread_exit(t)
    <3>1. PICK l \in {"sl_add", "sched", "ev_test", "exited"} : pc' = [pc EXCEPT ![t] = l]
      BY <2>3 DEF SleepArm, sleep_forever, wait_for_event, clone_thread_exit, Goto
    <3>2. l \notin IoLabels \cup LockLabels
      BY DEF IoLabels, LockLabels
    <3> QED
      BY <3>1, <3>2, CallsMadeGoto, Zenon
  <2>4. CASE \E f \in Fd : tm_read(t, f)
    <3>1. "io" \in Ops /\ pc' = [pc EXCEPT ![t] = "io_read"]
      BY <2>4, InOps DEF tm_read, Calls, Goto
    <3>2. "io_read" \notin LockLabels
      BY DEF LockLabels
    <3> QED
      BY <3>1, <3>2, CallsMadeGoto, Zenon
  <2>5. CASE lock(t) \/ unlock(t)
    <3>1. PICK l \in {"lk_test", "ul_load"} : "lock" \in Ops /\ pc' = [pc EXCEPT ![t] = l]
      BY <2>5, InOps DEF lock, unlock, Calls, Goto
    <3>2. l \notin IoLabels
      BY DEF IoLabels
    <3> QED
      BY <3>1, <3>2, CallsMadeGoto, Zenon
  <2>6. CASE \E u \in User : kill_task(t, u)
    <3>1. PICK u \in Task : pc' = [pc EXCEPT ![u] = "dead"]
      BY <2>6, Zenon DEF kill_task, Goto, User
    <3>2. "dead" \notin IoLabels \cup LockLabels
      BY DEF IoLabels, LockLabels
    <3> QED
      BY <3>1, <3>2, CallsMadeGoto, Zenon
  <2> QED
    BY <1>3, <2>1, <2>2, <2>3, <2>4, <2>5, <2>6, ZenonT(60) DEF Call
<1>4. CASE softirqd
  <2>1. CASE SiScan \/ SiDone \/ SiAdd
    <3>1. PICK l \in {"si_act", "si_add", "si_sched"} : pc' = [pc EXCEPT ![Sirq] = l]
      BY <2>1 DEF SiScan, SiDone, SiAdd, Goto
    <3>2. l \notin IoLabels \cup LockLabels
      BY DEF IoLabels, LockLabels
    <3> QED
      BY <1>0, <3>1, <3>2, CallsMadeGoto, Zenon
  <2>2. CASE \E u \in Task : SiFire(u)
    BY <1>1, <2>2, ZenonT(60) DEF SiFire
  <2> QED
    BY <1>4, <2>1, <2>2 DEF softirqd
<1>5. CASE idle_task \/ tick_tmr_intr \/ io_interrupt
  BY <1>1, <1>5 DEF idle_task, tick_tmr_intr, io_interrupt, Tick, TickEnd, SigIo,
                    wake_io_task
<1>6. CASE Dead \/ UNCHANGED vars
  BY <1>1, <1>6, ZenonT(60) DEF Dead, vars
<1> QED
  BY <1>2, <1>3, <1>4, <1>5, <1>6 DEF Next

(* tmlib_init leaves no task inside a call.                                *)
LEMMA InitCalls ==
  Init => CallsMade
<1>1. {"idle", "si_scan", "run", "new"} \cap (IoLabels \cup LockLabels) = {}
  BY DEF IoLabels, LockLabels
<1> QED
  BY <1>1 DEF Init, CallsMade

(* CallsMade always holds.                                                 *)
LEMMA CallsMadeHolds ==
  Spec => []CallsMade
<1>1. Init => CallsMade
  BY InitCalls
<1>2. TypeOK /\ CallsMade /\ [Next]_vars => CallsMade'
  BY CallsMadeStep
<1> QED
  BY <1>1, <1>2, TypeCorrect, PTL DEF Spec

-----------------------------------------------------------------------------
(* Sizes of the sets of tasks.                                             *)

(* Sets of tasks are finite; one task more or less changes the size by 1.  *)
LEMMA TaskSetSize ==
  ASSUME NEW S \in SUBSET Task, NEW t \in Task
  PROVE  /\ Cardinality(S) \in Nat
         /\ t \notin S => Cardinality(S \cup {t}) = Cardinality(S) + 1
         /\ t \in S => Cardinality(S \ {t}) = Cardinality(S) - 1
         /\ Cardinality(S \ {t}) \in Nat /\ Cardinality(S \ {t}) <= Cardinality(S)
<1>1. IsFiniteSet(S)
  BY TaskAssumption, FS_Subset
<1>2. Cardinality(S) \in Nat
  BY <1>1, FS_CardinalityType
<1>3. t \notin S => Cardinality(S \cup {t}) = Cardinality(S) + 1
  BY <1>1, FS_AddElement
<1>4. t \in S => Cardinality(S \ {t}) = Cardinality(S) - 1
  BY <1>1, FS_RemoveElement
<1>5. t \notin S => S \ {t} = S
  OBVIOUS
<1>6. IsFiniteSet(S \ {t})
  BY <1>1, FS_Subset
<1>7. Cardinality(S \ {t}) \in Nat
  BY <1>6, FS_CardinalityType
<1> QED
  BY <1>2, <1>3, <1>4, <1>5, <1>7, SMTT(60)

(* Two tasks.                                                              *)
LEMMA InitSizes ==
  Init => /\ Cardinality(alive \ {Idle}) = 2
          /\ Cardinality(Runnable) = 2 /\ Cardinality(Waiting) = 0
<1> SUFFICES ASSUME Init
             PROVE  /\ Cardinality(alive \ {Idle}) = 2
                    /\ Cardinality(Runnable) = 2 /\ Cardinality(Waiting) = 0
  OBVIOUS
<1>1. alive \ {Idle} = {Main} \cup {Sirq} /\ Main # Sirq
  BY TaskAssumption DEF Init, tmlib_init
<1>2. Runnable = {Main} \cup {Sirq} /\ Waiting = {}
  BY <1>1, TaskAssumption, Zenon DEF Runnable, Waiting, Init, tmlib_init
<1>3. Cardinality({Main}) = 1 /\ Cardinality({}) = 0
  BY FS_Singleton, FS_EmptySet, Zenon
<1>4. {Main} \subseteq Task /\ Sirq \in Task /\ Sirq \notin {Main}
  BY TaskAssumption
<1>5. Cardinality({Main} \cup {Sirq}) = 2
  BY <1>3, <1>4, TaskSetSize
<1> QED
  BY <1>1, <1>2, <1>3, <1>5

(* How each effect changes the sets of runnable and of waiting tasks.      *)
LEMMA SetEffect ==
  ASSUME TypeOK, NEW t \in Task
  PROVE  /\ NoEffect => Runnable' = Runnable /\ Waiting' = Waiting
         /\ Parks(t) => /\ t \in Runnable /\ Runnable' = Runnable \ {t}
                        /\ t \notin Waiting /\ Waiting' = Waiting \cup {t}
         /\ Wakes(t) => /\ t \notin Runnable /\ Runnable' = Runnable \cup {t}
                        /\ t \in Waiting /\ Waiting' = Waiting \ {t}
         /\ Spawns(t) => /\ t \notin Runnable /\ Runnable' = Runnable \cup {t}
                         /\ Waiting' = Waiting
         /\ ParksOnLock(t) \/ Ends(t) => Runnable' = Runnable \ {t}
<1>0. onrq \in [Task -> BOOLEAN] /\ alive \subseteq Task
  BY Zenon DEF TypeOK
<1>1. NoEffect => Runnable' = Runnable /\ Waiting' = Waiting
  BY DEF NoEffect, Runnable, Waiting
<1>2. Parks(t) => /\ t \in Runnable /\ Runnable' = Runnable \ {t}
                  /\ t \notin Waiting /\ Waiting' = Waiting \cup {t}
  BY <1>0 DEF Parks, Runnable, Waiting
<1>3. Wakes(t) => /\ t \notin Runnable /\ Runnable' = Runnable \cup {t}
                  /\ t \in Waiting /\ Waiting' = Waiting \ {t}
  BY <1>0 DEF Wakes, Runnable, Waiting
<1>4. Spawns(t) => /\ t \notin Runnable /\ Runnable' = Runnable \cup {t}
                   /\ Waiting' = Waiting
  BY <1>0 DEF Spawns, Runnable, Waiting, User
<1>5. ParksOnLock(t) \/ Ends(t) => Runnable' = Runnable \ {t}
  BY <1>0 DEF ParksOnLock, Ends, Runnable
<1> QED
  BY <1>1, <1>2, <1>3, <1>4, <1>5, ZenonT(60)

-----------------------------------------------------------------------------
(* The counters together, and task_count.                                  *)

(* task_count, by which the load computation divides, is the number of     *)
(* allocated tasks other than IDLE, so at least two.                       *)
TaskCountExact == task_count = Cardinality(alive \ {Idle}) /\ task_count >= 2

(* One step keeps CountersCover and TaskCountExact.                        *)
LEMMA CoverStep ==
  ASSUME IInv, IInv', CallsMade, CountersCover, TaskCountExact, [Next]_vars
  PROVE  CountersCover' /\ TaskCountExact'
<1> DEFINE A == alive \ {Idle}
<1>0. nrp \in Int /\ nwp \in Int /\ task_count \in Int /\ A \in SUBSET Task
  BY DEF IInv, TypeOK
<1>1. nrp + nwp >= Cardinality(A) /\ task_count = Cardinality(A)
  BY DEF CountersCover, TaskCountExact
<1>2. /\ A' = alive' \ {Idle}
      /\ CountersCover' <=> nrp' + nwp' >= Cardinality(A')
      /\ TaskCountExact' <=> task_count' = Cardinality(A') /\ task_count' >= 2
  BY DEF CountersCover, TaskCountExact
<1>3. Cardinality(A') >= 2
  <2>1. {Main} \cup {Sirq} \subseteq A' /\ A' \subseteq Task
    BY TaskAssumption, ZenonT(60) DEF IInv, TypeOK, Lifecycle
  <2>2. IsFiniteSet(A')
    BY <2>1, TaskAssumption, FS_Subset, ZenonT(60)
  <2>3. Cardinality({Main} \cup {Sirq}) = 2
    <3>1. {Main} \subseteq Task /\ Sirq \in Task /\ Sirq \notin {Main}
      BY TaskAssumption
    <3>2. Cardinality({Main}) = 1
      BY FS_Singleton
    <3> QED
      BY <3>1, <3>2, TaskSetSize
  <2>4. Cardinality({Main} \cup {Sirq}) <= Cardinality(A')
    BY <2>1, <2>2, FS_Subset
  <2>5. Cardinality(A') \in Nat
    BY <2>2, FS_CardinalityType
  <2> QED
    BY <2>3, <2>4, <2>5, ZenonT(60)
<1> HIDE DEF A
<1>4. CASE NoEffect
  <2>1. UNCHANGED <<nrp, nwp, task_count>> /\ A' = A
    BY <1>4 DEF NoEffect, A
  <2> QED
    BY <1>1, <1>2, <1>3, <2>1, ZenonT(60)
<1>5. ASSUME NEW t \in Task, Parks(t) \/ ParksOnFd(t) \/ Wakes(t)
      PROVE  CountersCover' /\ TaskCountExact'
  <2>1. nrp' + nwp' = nrp + nwp /\ task_count' = task_count /\ A' = A
    BY <1>0, <1>5 DEF Parks, ParksOnFd, Wakes, A
  <2> QED
    BY <1>1, <1>2, <1>3, <2>1, ZenonT(60)
<1>6. ASSUME NEW t \in Task, ParksOnLock(t)
      PROVE  CountersCover' /\ TaskCountExact'
  <2>1. nrp' + nwp' = nrp + nwp + 1 /\ task_count' = task_count /\ A' = A
    BY <1>0, <1>6 DEF ParksOnLock, A
  <2>2. Cardinality(A) \in Nat
    BY <1>0, TaskSetSize, Zenon
  <2> QED
    BY ONLY <1>0, <1>1, <1>2, <1>3, <2>1, <2>2, SMTT(60)
<1>7. ASSUME NEW t \in Task, Spawns(t)
      PROVE  CountersCover' /\ TaskCountExact'
  <2>1. /\ nrp' + nwp' = nrp + nwp + 1 /\ task_count' = task_count + 1
        /\ t \notin A /\ A' = A \cup {t}
    BY <1>0, <1>7, SMTT(60) DEF Spawns, A, User
  <2>2. Cardinality(A) \in Nat /\ Cardinality(A') = Cardinality(A) + 1
    BY <1>0, <2>1, TaskSetSize, ZenonT(60)
  <2> QED
    BY ONLY <1>0, <1>1, <1>2, <1>3, <2>1, <2>2, SMTT(60)
<1>8. ASSUME NEW t \in Task, Ends(t)
      PROVE  CountersCover' /\ TaskCountExact'
  <2>1. /\ nrp' + nwp' = nrp + nwp /\ task_count' = task_count - 1
        /\ t \in A /\ A' = A \ {t}
    BY <1>0, <1>8, TaskAssumption, ZenonT(60) DEF Ends, A, User
  <2>2. Cardinality(A) \in Nat /\ Cardinality(A') = Cardinality(A) - 1
    BY <1>0, <2>1, TaskSetSize
  <2> QED
    BY ONLY <1>0, <1>1, <1>2, <1>3, <2>1, <2>2, SMTT(60)
<1>9. CounterEffect
  BY StepEffect
<1> QED
  BY <1>4, <1>5, <1>6, <1>7, <1>8, <1>9, ZenonT(60) DEF CounterEffect

(* The counters tmlib_init leaves.                                         *)
LEMMA InitCover ==
  Init => CountersCover /\ TaskCountExact
<1>1. Init => nrp = 2 /\ nwp = 0 /\ task_count = 2
  BY DEF Init, tmlib_init
<1> QED
  BY <1>1, InitSizes DEF CountersCover, TaskCountExact

(* Both hold of every reachable state.                                     *)
LEMMA CoverHolds ==
  Spec => [](CountersCover /\ TaskCountExact)
<1>1. Init => CountersCover /\ TaskCountExact
  BY InitCover
<1>2. IInv /\ IInv' /\ CallsMade /\ (CountersCover /\ TaskCountExact) /\ [Next]_vars
        => (CountersCover /\ TaskCountExact)'
  BY CoverStep
<1> QED
  BY <1>1, <1>2, Invariance, CallsMadeHolds, PTL DEF Spec

(* No program, however its calls interleave with SIGALRM and SIGIO, gets   *)
(* the two counters below the number of its live tasks.                    *)
THEOREM CountersAlwaysCover ==
  Spec => []CountersCover
BY CoverHolds, PTL

(* get_load_on_system never divides by zero: task_count counts the live    *)
(* tasks exactly, and the parent and SIRQ never end.                       *)
THEOREM TaskCountAlwaysExact ==
  Spec => []TaskCountExact
BY CoverHolds, PTL

(* The same with the switch to OS threads and back, which leave the        *)
(* counters as they are.                                                   *)
THEOREM SwitchKeepsCover ==
  OsSpec => []CountersCover
<1> DEFINE R == IInv /\ CallsMade /\ TaskCountExact
           OsCover == (Running => R) /\ CountersCover
<1>1. Init => OsCover
  BY InitIInv, InitCalls, InitCover, ZenonT(60)
<1>2. ASSUME OsCover, [OsNext]_vars
      PROVE  OsCover'
  <2>1. CASE [Next]_vars /\ Running
    <3>1. R /\ TypeOK
      BY <1>2, <2>1 DEF IInv
    <3>2. IInv'
      BY <2>1, <3>1, NextIInv
    <3>3. CountersCover' /\ TaskCountExact'
      BY <1>2, <2>1, <3>1, <3>2, CoverStep, ZenonT(60)
    <3>4. CallsMade'
      BY <2>1, <3>1, CallsMadeStep, ZenonT(60)
    <3> QED
      BY <3>2, <3>3, <3>4
  <2>2. CASE [Next]_vars /\ ~Running
    BY <1>2, <2>2, OsStops, ZenonT(60) DEF vars, kernel, queues, pool, Running, CountersCover
  <2>3. CASE \E t \in Task : switch_to_os_threading(t)
    BY <1>2, <2>3 DEF switch_to_os_threading, osFrame, queues, Running, CountersCover
  <2>4. CASE switch_back
    BY <1>2, <2>4, Zenon DEF switch_back, osFrame, queues, pool, Running, CountersCover
  <2>5. Switched => [Next]_vars
    BY DEF Switched
  <2> QED
    BY <1>2, <2>1, <2>2, <2>3, <2>4, <2>5, ZenonT(60) DEF OsNext
<1>3. OsCover => CountersCover
  OBVIOUS
<1> QED
  BY <1>1, <1>2, <1>3, PTL DEF OsSpec

-----------------------------------------------------------------------------
(* The counters one by one.                                                *)

(* Programs that never wait for a descriptor: wait_on_fd, which does not   *)
(* look at onrq, is the one place that can count a task off nrp twice.     *)
NoIo == "io" \notin Ops

(* Programs in which, besides, no task ends and none meets a lock.         *)
NoDrift == Ops \cap {"io", "lock", "exit", "kill"} = {}

(* A bound on a number of tasks, when both go up or down by one. *)
LEMMA AtLeast ==
  ASSUME NEW n \in Int, NEW m \in Nat, n >= m
  PROVE  n - 1 >= m - 1 /\ n + 1 >= m + 1 /\ \A k \in Nat : k <= m => n >= k
  OBVIOUS

(* Every runnable task is counted in nrp. *)
RunnableCounted == nrp >= Cardinality(Runnable)

(* One step keeps RunnableCounted.                                         *)
LEMMA RunnableCountedStep ==
  ASSUME NoIo, IInv, CallsMade, RunnableCounted, [Next]_vars
  PROVE  RunnableCounted'
<1>0. nrp \in Int /\ Runnable \in SUBSET Task /\ nrp >= Cardinality(Runnable)
  BY DEF IInv, TypeOK, Runnable, RunnableCounted
<1>1. TypeOK
  BY DEF IInv
<1>2. CASE NoEffect
  <2>1. Runnable' = Runnable /\ nrp' = nrp
    BY <1>1, <1>2, SetEffect, TaskAssumption, ZenonT(60) DEF NoEffect
  <2> QED
    BY <1>0, <2>1, ZenonT(60) DEF RunnableCounted
<1>3. ASSUME NEW t \in Task, Parks(t)
      PROVE  RunnableCounted'
  <2>1. t \in Runnable /\ Runnable' = Runnable \ {t} /\ nrp' = nrp - 1
    BY <1>1, <1>3, SetEffect, Zenon DEF Parks
  <2>2. Cardinality(Runnable) \in Nat /\ Cardinality(Runnable') = Cardinality(Runnable) - 1
    BY <1>0, <2>1, TaskSetSize, ZenonT(60)
  <2> QED
    BY <1>0, <2>1, <2>2, AtLeast, Zenon DEF RunnableCounted
<1>4. ASSUME NEW t \in Task, Wakes(t) \/ Spawns(t)
      PROVE  RunnableCounted'
  <2>1. t \notin Runnable /\ Runnable' = Runnable \cup {t} /\ nrp' = nrp + 1
    BY <1>1, <1>4, SetEffect, ZenonT(60) DEF Wakes, Spawns
  <2>2. Cardinality(Runnable) \in Nat /\ Cardinality(Runnable') = Cardinality(Runnable) + 1
    BY <1>0, <2>1, TaskSetSize, ZenonT(60)
  <2> QED
    BY <1>0, <2>1, <2>2, AtLeast, Zenon DEF RunnableCounted
<1>5. ASSUME NEW t \in Task, ParksOnLock(t) \/ Ends(t)
      PROVE  RunnableCounted'
  <2>1. Runnable' = Runnable \ {t} /\ nrp' = nrp
    BY <1>1, <1>5, SetEffect DEF ParksOnLock, Ends
  <2>2. /\ Cardinality(Runnable) \in Nat /\ Cardinality(Runnable') \in Nat
        /\ Cardinality(Runnable') <= Cardinality(Runnable)
    BY <1>0, <2>1, TaskSetSize, Zenon
  <2> QED
    BY <1>0, <2>1, <2>2, AtLeast, Zenon DEF RunnableCounted
<1>6. \A t \in Task : ~ParksOnFd(t)
  BY DEF NoIo, ParksOnFd
<1>7. CounterEffect
  BY StepEffect
<1> QED
  BY <1>2, <1>3, <1>4, <1>5, <1>6, <1>7, ZenonT(60) DEF CounterEffect

(* In a program that does not wait for descriptors nrp never falls below   *)
(* the number of runnable tasks, so get_next_eligible_task_to_run, which   *)
(* gives the CPU to IDLE at nrp = 0, never idles past a runnable task;     *)
(* whatever locks, exits and kills do to the counter.                      *)
THEOREM RunnableAlwaysCounted ==
  ASSUME NoIo
  PROVE  Spec => []RunnableCounted
<1>1. Init => RunnableCounted
  <2>1. Init => nrp = 2
    BY DEF Init, tmlib_init
  <2> QED
    BY <2>1, InitSizes, SMTT(60) DEF RunnableCounted
<1>2. IInv /\ CallsMade /\ RunnableCounted /\ [Next]_vars => RunnableCounted'
  BY RunnableCountedStep
<1> QED
  BY <1>1, <1>2, Invariance, CallsMadeHolds, PTL DEF Spec

(* One step keeps CountersExact.                                           *)
LEMMA ExactStep ==
  ASSUME NoDrift, IInv, CallsMade, CountersExact, [Next]_vars
  PROVE  CountersExact' /\ alive \subseteq alive'
<1>0. /\ nrp \in Int /\ nwp \in Int /\ Runnable \in SUBSET Task /\ Waiting \in SUBSET Task
      /\ nrp = Cardinality(Runnable) /\ nwp = Cardinality(Waiting)
  BY DEF IInv, TypeOK, Runnable, Waiting, CountersExact
<1>1. TypeOK
  BY DEF IInv
<1>2. CASE NoEffect
  <2>1. Runnable' = Runnable /\ Waiting' = Waiting /\ UNCHANGED <<nrp, nwp, alive>>
    BY <1>1, <1>2, SetEffect, TaskAssumption, ZenonT(60) DEF NoEffect
  <2> QED
    BY <1>0, <2>1, ZenonT(60) DEF CountersExact
<1>3. ASSUME NEW t \in Task, Parks(t)
      PROVE  CountersExact' /\ alive \subseteq alive'
  <2>1. /\ t \in Runnable /\ Runnable' = Runnable \ {t}
        /\ t \notin Waiting /\ Waiting' = Waiting \cup {t}
        /\ nrp' = nrp - 1 /\ nwp' = nwp + 1 /\ alive' = alive
    BY <1>1, <1>3, SetEffect, Zenon DEF Parks
  <2>2. Cardinality(Runnable') = nrp - 1 /\ Cardinality(Waiting') = nwp + 1
    BY <1>0, <2>1, TaskSetSize, ZenonT(60)
  <2> QED
    BY <2>1, <2>2 DEF CountersExact
<1>4. ASSUME NEW t \in Task, Wakes(t)
      PROVE  CountersExact' /\ alive \subseteq alive'
  <2>1. /\ t \notin Runnable /\ Runnable' = Runnable \cup {t}
        /\ t \in Waiting /\ Waiting' = Waiting \ {t}
        /\ nrp' = nrp + 1 /\ nwp' = nwp - 1 /\ alive' = alive
    BY <1>1, <1>4, SetEffect, Zenon DEF Wakes
  <2>2. Cardinality(Runnable') = nrp + 1 /\ Cardinality(Waiting') = nwp - 1
    BY <1>0, <2>1, TaskSetSize, ZenonT(60)
  <2> QED
    BY <2>1, <2>2 DEF CountersExact
<1>5. ASSUME NEW t \in Task, Spawns(t)
      PROVE  CountersExact' /\ alive \subseteq alive'
  <2>1. /\ t \notin Runnable /\ Runnable' = Runnable \cup {t} /\ Waiting' = Waiting
        /\ nrp' = nrp + 1 /\ nwp' = nwp /\ alive \subseteq alive'
    BY <1>1, <1>5, SetEffect, Zenon DEF Spawns
  <2>2. Cardinality(Runnable') = nrp + 1
    BY <1>0, <2>1, TaskSetSize, ZenonT(60)
  <2> QED
    BY <1>0, <2>1, <2>2 DEF CountersExact
<1>6. \A t \in Task : ~ParksOnFd(t) /\ ~ParksOnLock(t) /\ ~Ends(t)
  BY DEF NoDrift, ParksOnFd, ParksOnLock, Ends
<1>7. CounterEffect
  BY StepEffect
<1> QED
  BY <1>2, <1>3, <1>4, <1>5, <1>6, <1>7, ZenonT(60) DEF CounterEffect

(* Without waits for descriptors, contended locks and ends of tasks, nrp   *)
(* and nwp are exactly the numbers of runnable and of waiting tasks: the   *)
(* four kinds of call are all that makes the counters drift.               *)
THEOREM CountersStayExact ==
  ASSUME NoDrift
  PROVE  Spec => []CountersExact
<1>1. Init => CountersExact
  <2>1. Init => nrp = 2 /\ nwp = 0
    BY DEF Init, tmlib_init
  <2> QED
    BY <2>1, InitSizes DEF CountersExact
<1>2. IInv /\ CallsMade /\ CountersExact /\ [Next]_vars => CountersExact'
  BY ExactStep
<1> QED
  BY <1>1, <1>2, Invariance, CallsMadeHolds, PTL DEF Spec

-----------------------------------------------------------------------------
(* Crashes of schedule().                                                  *)

(* What the scheduler and the sleep timers point to is allocated. *)
PointersLive ==
  /\ nxt_imm_task \in alive \cup {None}
  /\ \A t \in Task : armed[t] > 0 => t \in alive

(* When nrp counts the runnable tasks exactly, a pick of NULL means that   *)
(* the only runnable task is Main, preempted before it was ever linked.    *)
LEMMA NullPick ==
  ASSUME IInv, CountersExact, PicksNull
  PROVE  \A l \in ListId : ~Linked(Main, l)
<1>1. nrp # 0 /\ \A q \in Prio : list[q] = <<>>
  BY DEF PicksNull
<1>2. PICK t : t \in Runnable
  <2>1. Runnable # {}
    BY <1>1, FS_EmptySet, ZenonT(60) DEF CountersExact
  <2> QED
    BY <2>1
<1>3. \A u \in Task, q \in Prio : ~Linked(u, q)
  <2>1. \A u \in Task : ~Contains(<<>>, u)
    BY DEF Contains
  <2> QED
    BY <1>1, <2>1 DEF Linked
<1>4. t \in alive \ {Idle} /\ onrq[t] /\ t \in Task
  BY <1>2, ZenonT(60) DEF Runnable, IInv, TypeOK
<1>5. t = Main /\ \A c \in Chan : ~Linked(Main, c)
  BY <1>3, <1>4 DEF IInv, QueuesConsistent, OnrqAgrees, OnRunList
<1> QED
  BY <1>3, <1>5, TaskAssumption, ZenonT(60) DEF ListId

(* schedule() by a program without drift.                                  *)
LEMMA ScheduleCrash ==
  ASSUME IInv, CountersExact, nxt_imm_task \in alive \cup {None}, ~crashed, schedule
  PROVE  NullPickOnlyLosesMain' /\ nxt_imm_task' \in alive \cup {None}
<1>1. CASE PicksNull
  <2>1. UNCHANGED <<list, cpu>>
    BY <1>1 DEF schedule
  <2>2. \A l \in ListId : ~Linked(Main, l)
    BY <1>1, NullPick
  <2> QED
    BY <2>1, <2>2 DEF cpu, NullPickOnlyLosesMain, Linked
<1>2. ~PicksFreed
  BY DEF PicksFreed
<1>3. CASE ~PicksNull
  <2>1. crashed' = crashed /\ nxt_imm_task' \in {nxt_imm_task, None}
    BY <1>2, <1>3, ZenonT(60) DEF schedule, get_next_eligible_task_to_run
  <2> QED
    BY <2>1 DEF NullPickOnlyLosesMain
<1> QED
  BY <1>1, <1>3

(* One step of a program without drift.                                    *)
LEMMA NullPickStep ==
  ASSUME NoDrift, IInv, CallsMade, CountersExact, PointersLive, NullPickOnlyLosesMain,
         [Next]_vars
  PROVE  NullPickOnlyLosesMain' /\ PointersLive'
<1> DEFINE Goal == NullPickOnlyLosesMain' /\ PointersLive'
<1>0. /\ alive \subseteq alive' /\ alive \subseteq Task /\ armed \in [Task -> Nat]
      /\ nxt_imm_task \in alive \cup {None}
      /\ \A t \in Task : armed[t] > 0 => t \in alive
  BY ExactStep, ZenonT(60) DEF IInv, TypeOK, PointersLive
<1>1. ASSUME nxt_imm_task' \in alive' \cup {None}, armed' = armed, ~crashed'
      PROVE  Goal
  BY <1>0, <1>1 DEF PointersLive, NullPickOnlyLosesMain
<1>2. ASSUME schedule, armed' = armed, ~crashed
      PROVE  Goal
  BY <1>0, <1>2, ScheduleCrash DEF PointersLive
<1>3. ASSUME NEW p \in alive', BecomeImmediate(p)
      PROVE  nxt_imm_task' \in alive' \cup {None}
  BY <1>0, <1>3, ZenonT(60) DEF BecomeImmediate
<1>4. CASE crashed
  <2>1. UNCHANGED vars
    BY <1>4, CrashedStops, ZenonT(60)
  <2> QED
    BY <2>1 DEF vars, kernel, queues, cpu, pool, api, NullPickOnlyLosesMain, PointersLive,
                Linked
<1>5. ASSUME ~crashed, NEW t \in Task, TaskStep(t)
      PROVE  Goal
  <2>1. CASE CallSchedule(t)
    BY <1>2, <1>5, <2>1, Zenon DEF CallSchedule, api
  <2>2. CASE \/ SleepAdd(t) \/ EvTest(t) \/ EvAdd(t) \/ EvReset(t) \/ IoRead(t)
             \/ IoWait(t) \/ LkTest(t) \/ LkWait(t) \/ LkLoad(t) \/ LkStore(t)
             \/ LkOwn(t) \/ UlLoad(t) \/ UlStore(t) \/ UlOwn(t)
    <3>1. UNCHANGED <<nxt_imm_task, armed, crashed>>
      BY <2>2, Zenon DEF SleepAdd, EvTest, EvAdd, EvReset, IoRead, IoWait, LkTest, LkWait, LkLoad,
                  LkStore, LkOwn, UlLoad, UlStore, UlOwn, Load, Store, kernel, cpu, api
    <3> QED
      BY <1>0, <1>1, <1>5, <3>1, ZenonT(60)
  <2>3. CASE LkChk(t) \/ UlChk(t) \/ UlWake(t)
    <3>1. pc[t] \in LockLabels
      BY <2>3, ZenonT(60) DEF LkChk, UlChk, UlWake, At, LockLabels
    <3> QED
      BY <3>1, ZenonT(60) DEF CallsMade, NoDrift
  <2> QED
    BY <1>5, <2>1, <2>2, <2>3, SMTT(30) DEF TaskStep
<1>6. ASSUME ~crashed, NEW t \in Task, Call(t)
      PROVE  Goal
  <2>1. CASE \E u \in User : spawn_task(t, u)
    <3>1. PICK u \in User : spawn_task(t, u)
      BY <2>1, SMTT(30)
    <3>2. u \in alive' /\ BecomeImmediate(u) /\ UNCHANGED <<armed, crashed>>
      BY <3>1, Zenon DEF spawn_task, wakeup_new_task, api
    <3> QED
      BY <1>1, <1>3, <1>6, <3>2
  <2>2. CASE cpu_yield(t)
    BY <1>2, <1>6, <2>2, ZenonT(60) DEF cpu_yield, api
  <2>3. CASE SleepArm(t)
    <3>1. t \in alive
      BY <2>3, AtAlive, Zenon DEF SleepArm, Calls
    <3>2. UNCHANGED <<nxt_imm_task, crashed>> /\ armed' = [armed EXCEPT ![t] = @ + 1]
      BY <2>3 DEF SleepArm, kernel, cpu
    <3>3. \A u \in Task \ {t} : armed'[u] = armed[u]
      BY <1>0, <3>2, ZenonT(60)
    <3> QED
      BY <1>0, <1>6, <3>1, <3>2, <3>3, ZenonT(60) DEF PointersLive, NullPickOnlyLosesMain
  <2>4. CASE sleep_forever(t) \/ wait_for_event(t)
    <3>1. UNCHANGED <<nxt_imm_task, armed, crashed>>
      BY <2>4 DEF sleep_forever, wait_for_event, kernel, cpu, api
    <3> QED
      BY <1>0, <1>1, <1>6, <3>1, ZenonT(60)
  <2>5. CASE \E u \in Task : post_event(t, u)
    <3>1. PICK u \in Task : post_event(t, u)
      BY <2>5, SMTT(30)
    <3>2. PICK l \in ListId : Linked(u, l)
      BY <3>1, Zenon DEF post_event, find_task, OnRunList, ListId, Chan
    <3>3. u \in alive'
      BY <1>0, <3>2, LinkedAlive, SMTT(30) DEF IInv
    <3>4. BecomeImmediate(u) /\ UNCHANGED <<armed, crashed>>
      BY <3>1, ZenonT(30) DEF post_event, wakeup_task
    <3> QED
      BY <1>1, <1>3, <1>6, <3>3, <3>4, ZenonT(60)
  <2>6. CASE \/ lock(t) \/ unlock(t) \/ clone_thread_exit(t)
             \/ (\E f \in Fd : tm_read(t, f)) \/ (\E u \in User : kill_task(t, u))
    BY <2>6, InOps, Zenon DEF lock, unlock, clone_thread_exit, tm_read, kill_task, Calls, NoDrift
  <2> QED
    BY <1>6, <2>1, <2>2, <2>3, <2>4, <2>5, <2>6, ZenonT(60) DEF Call
<1>7. ASSUME ~crashed, softirqd
      PROVE  Goal
  <2>1. CASE SiScan \/ SiDone \/ SiAdd
    <3>1. UNCHANGED <<nxt_imm_task, armed, crashed>>
      BY <2>1, ZenonT(60) DEF SiScan, SiDone, SiAdd, kernel, cpu, api
    <3> QED
      BY <1>0, <1>1, <1>7, <3>1, ZenonT(60)
  <2>2. CASE \E u \in Task : SiFire(u)
    <3>1. PICK u \in Task : SiFire(u)
      BY <2>2, ZenonT(60)
    <3>2. u \in alive /\ armed' = [armed EXCEPT ![u] = @ - 1]
      BY <1>0, <3>1, ZenonT(60) DEF SiFire
    <3>3. BecomeImmediate(u) /\ crashed' = crashed
      BY <3>1, <3>2, ZenonT(60) DEF SiFire, wakeup_task
    <3>4. \A v \in Task \ {u} : armed'[v] = armed[v]
      BY <1>0, <3>2, ZenonT(60)
    <3>5. nxt_imm_task' \in alive' \cup {None}
      BY <1>0, <1>3, <3>2, <3>3, ZenonT(60)
    <3> QED
      BY <1>0, <1>7, <3>2, <3>3, <3>4, <3>5, ZenonT(60) DEF PointersLive, NullPickOnlyLosesMain
  <2> QED
    BY <1>7, <2>1, <2>2 DEF softirqd
<1>8. ASSUME ~crashed, idle_task
      PROVE  Goal
  BY <1>2, <1>8 DEF idle_task, api
<1>9. ASSUME ~crashed, tick_tmr_intr
      PROVE  Goal
  <2>1. CASE TickEnd
    <3>1. CASE sched_need
      BY <1>2, <1>9, <2>1, <3>1, ZenonT(60) DEF TickEnd, api
    <3>2. CASE ~sched_need
      <4>1. UNCHANGED <<nxt_imm_task, armed, crashed>>
        BY <2>1, <3>2, ZenonT(60) DEF TickEnd, cpu, api
      <4> QED
        BY <1>0, <1>1, <1>9, <4>1
    <3> QED
      BY <3>1, <3>2, ZenonT(60)
  <2>2. CASE \E pending \in BOOLEAN, used \in Usage : Tick(pending, used)
    <3>1. PICK pending \in BOOLEAN, used \in Usage : Tick(pending, used)
      BY <2>2
    <3>2. UNCHANGED <<armed, crashed>>
      BY <3>1 DEF Tick
    <3>3. BecomeImmediate(Sirq) \/ nxt_imm_task' = nxt_imm_task
      BY <3>1, ZenonT(60) DEF Tick
    <3>4. Sirq \in alive'
      BY <1>0 DEF IInv, Lifecycle
    <3> QED
      BY <1>0, <1>1, <1>3, <1>9, <3>2, <3>3, <3>4
  <2> QED
    BY <1>9, <2>1, <2>2 DEF tick_tmr_intr
<1>10. ASSUME ~crashed, io_interrupt
       PROVE  Goal
  <2>1. CASE \E f \in Fd : SigIo(f)
    BY <2>1 DEF SigIo, NoDrift
  <2>2. CASE \E f \in Fd : wake_io_task(f)
    <3>1. PICK f \in Fd : wake_io_task(f)
      BY <2>2
    <3>2. f \in ListId /\ list[f] # <<>>
      BY <3>1, ZenonT(60) DEF wake_io_task, IInv, Lifecycle, ListId, Chan
    <3> DEFINE p == Head(list[f])
    <3>3. p \in alive
      BY <3>2, HeadLinked, LinkedAlive, ZenonT(60) DEF IInv
    <3>4. BecomeImmediate(p) /\ UNCHANGED <<armed, crashed>>
      BY <3>1, Zenon DEF wake_io_task, wakeup_task, api
    <3> HIDE DEF p
    <3> QED
      BY <1>0, <1>1, <1>3, <1>10, <3>3, <3>4, ZenonT(60)
  <2> QED
    BY <1>10, <2>1, <2>2, ZenonT(60) DEF io_interrupt
<1>11. CASE UNCHANGED vars
  BY <1>11, ZenonT(60) DEF vars, kernel, queues, cpu, pool, api, NullPickOnlyLosesMain, PointersLive,
               Linked
<1>12. crashed \in BOOLEAN
  BY DEF IInv, TypeOK
<1> QED
  BY <1>4, <1>5, <1>6, <1>7, <1>8, <1>9, <1>10, <1>11, <1>12, SMTT(60) DEF Next, Dead

(* In a program without drift schedule() dereferences NULL only when Main  *)
(* was preempted before its first blocking call, and never a freed task.   *)
THEOREM NullPickAlwaysLosesMain ==
  ASSUME NoDrift
  PROVE  Spec => []NullPickOnlyLosesMain
<1>1. Init => NullPickOnlyLosesMain /\ PointersLive
  <2> SUFFICES ASSUME Init PROVE NullPickOnlyLosesMain /\ PointersLive
    OBVIOUS
  <2>1. NullPickOnlyLosesMain
    BY DEF Init, tmlib_init, NullPickOnlyLosesMain
  <2>2. nxt_imm_task \in alive \cup {None}
    BY DEF Init, tmlib_init
  <2>3. \A t \in Task : ~(armed[t] > 0)
    BY DEF Init
  <2> QED
    BY <2>1, <2>2, <2>3 DEF PointersLive
<1>2. IInv /\ CallsMade /\ CountersExact /\ (NullPickOnlyLosesMain /\ PointersLive) /\ [Next]_vars
        => (NullPickOnlyLosesMain /\ PointersLive)'
  BY NullPickStep
<1> QED
  BY <1>1, <1>2, Invariance, CallsMadeHolds, CountersStayExact, PTL DEF Spec
=============================================================================
