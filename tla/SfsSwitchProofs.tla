-------------------------- MODULE SfsSwitchProofs --------------------------
(***************************************************************************)
(* Proofs about who gets the CPU of an SFS program, and about the switch   *)
(* of module SfsOs to OS threads.  StepKind sorts the steps by what they   *)
(* do to the lists, the CPU and the labels; each invariant is then shown   *)
(* kind by kind:                                                           *)
(*   HandlerCode  softirqd stays in its own code and sets no sleep timer   *)
(*   RunCounted   nrp is at least 1 whenever task code runs                *)
(*   LockQueue    a task whose code runs is not queued on the lock         *)
(*   PickRunnable the immediate task is runnable (only for programs that   *)
(*                neither read nor post to themselves)                     *)
(***************************************************************************)
EXTENDS SfsProofs

(* Numbers of threads. *)
LEMMA ThreadSums ==
  ~(0 > 0) /\ ~(0 + 0 > 0) /\ 0 + 0 = 0 /\ 0 + 1 = 1 /\ 1 + 0 = 1
  OBVIOUS

(* softirqd never leaves its loop and never calls sleep; the handler of    *)
(* SIGIO runs only in programs that read.                                  *)
HandlerCode ==
  /\ pc[Sirq] \in {"si_scan", "si_act", "si_add", "si_sched"}
  /\ armed[Sirq] = 0
  /\ hnd \in Fd => "io" \in Ops

(* t, which owns the CPU, goes from label k to label l. *)
OwnCode(t, k, l) ==
  /\ t \in alive \ {Idle} /\ current = t /\ current' = t
  /\ pc[t] = k /\ pc' = [pc EXCEPT ![t] = l]

(* A step of task code that moves no task. *)
KQuiet ==
  \E t \in Task, k \in Label, l \in Label :
    /\ OwnCode(t, k, l)
    /\ k \notin DOMAIN Ret /\ k # "lk_wait"
    /\ (l = "lk_wait" => k = "lk_test" /\ lockv # 0 /\ lockv' = lockv)
    /\ (k = "lk_test" => l = "lk_wait" \/ lockv = 0)
    /\ UNCHANGED <<list, onrq, nrp, alive, nxt_imm_task>>

(* The running task links itself on a wait list. *)
KPark ==
  \E t \in Task, k \in Label, l \in DOMAIN Ret, c \in Chan :
    /\ OwnCode(t, k, l)
    /\ k \notin DOMAIN Ret
    /\ Moved(list, list', t, c)
    /\ onrq' = [onrq EXCEPT ![t] = FALSE]
    /\ IF c = LKQ THEN k = "lk_wait" /\ l = "lk_sched" /\ nrp' = nrp ELSE nrp' = nrp - 1
    /\ UNCHANGED <<alive, nxt_imm_task, lockv>>

(* wakeup_task(p), by a handler or by task code. *)
WakeQ(p) ==
  \/ onrq[p] /\ UNCHANGED <<list, onrq, nrp>>
  \/ /\ ~onrq[p] /\ Moved(list, list', p, prio[p])
     /\ onrq' = [onrq EXCEPT ![p] = TRUE] /\ nrp' = nrp + 1

WokenByHandler(p) ==
  pc' = pc /\ (p = Sirq \/ (~onrq[p] /\ "io" \in Ops))

WokenByTask(p) ==
  /\ \E k \in {"run", "ul_wake", "si_act"}, l \in {"run", "si_act"} :
       OwnCode(current, k, l)
  /\ p # current \/ "self" \in Ops \/ (pc[current] = "ul_wake" /\ Linked(p, LKQ))

KWake ==
  \E p \in alive \ {Idle} :
    /\ WakeQ(p)
    /\ WokenByHandler(p) \/ WokenByTask(p)
    /\ nxt_imm_task' \in {nxt_imm_task, p}
    /\ UNCHANGED <<alive, current, lockv>>

(* schedule(), from task code or from the tick. *)
KSched ==
  /\ schedule
  /\ \/ pc' = pc /\ (pc[current] \in {"run", "idle"} \/ hnd = "tick")
     \/ pc[current] \in DOMAIN Ret /\ pc' = [pc EXCEPT ![current] = Ret[pc[current]]]
  /\ UNCHANGED <<onrq, nrp, alive, lockv>>

KSpawn ==
  \E u \in User \ (alive \cup {current}) :
    /\ pc[current] = "run"
    /\ Moved(list, list', u, prio[u])
    /\ onrq' = [onrq EXCEPT ![u] = TRUE] /\ nrp' = nrp + 1
    /\ alive' = alive \cup {u}
    /\ nxt_imm_task' \in {nxt_imm_task, u}
    /\ pc' = [pc EXCEPT ![u] = "run"]
    /\ UNCHANGED <<current, lockv>>

KEnd ==
  \E p \in User \cap alive, l \in {"exited", "dead"} :
    /\ pc[current] = "run"
    /\ Removed(list, list', p)
    /\ onrq' = [onrq EXCEPT ![p] = FALSE]
    /\ alive' = alive \ {p}
    /\ pc' = [pc EXCEPT ![p] = l] /\ (l = "exited" <=> p = current)
    /\ UNCHANGED <<nrp, current, nxt_imm_task, lockv>>

KNone == UNCHANGED <<list, onrq, nrp, alive, current, nxt_imm_task, pc, lockv>>

StepKind == KQuiet \/ KPark \/ KWake \/ KSched \/ KSpawn \/ KEnd \/ KNone

-----------------------------------------------------------------------------
(* The lists, in the form the list lemmas need.                            *)
LEMMA ListsOnce ==
  ASSUME IInv
  PROVE  list \in Lists /\ Once(list)
BY DEF IInv, TypeOK, Lists, QueuesConsistent, LinkedOnce, Once

(* The labels a task that called schedule() is at, and where it returns to. *)
LEMMA RetLabels ==
  /\ DOMAIN Ret = {"sched", "ev_sched", "io_sched", "lk_sched", "si_sched", "exited"}
  /\ \A k \in DOMAIN Ret : Ret[k] # "lk_wait"
  /\ Ret["lk_sched"] = "lk_test"
BY DEF Ret

(* add_task_to_wait_Q from task code: parks, or moves no task.             *)
LEMMA WaitKind ==
  ASSUME IInv, NEW t \in Task, NEW k \in {"run", "sl_add", "ev_add", "si_add"},
         NEW l \in DOMAIN Ret, At(t, k), Goto(t, l), add_task_to_wait_Q(t),
         UNCHANGED <<cpu, pool, lk>>
  PROVE  KQuiet \/ KPark
<1>1. t \in alive \ {Idle} /\ current = t /\ pc[t] = k
  BY AtAlive
<1>2. OwnCode(t, k, l)
  BY <1>1 DEF OwnCode, Goto, cpu
<1>3. k \in Label /\ k \notin DOMAIN Ret /\ l \in Label
  BY DEF Label, Ret
<1>4. UNCHANGED <<alive, nxt_imm_task, lockv>>
  BY DEF cpu, pool, lk
<1>5. CASE ~onrq[t]
  <2>1. UNCHANGED <<list, onrq, nrp>>
    BY <1>5 DEF add_task_to_wait_Q, queues
  <2>2. l # "lk_wait"
    BY DEF Ret
  <2> QED
    BY <1>2, <1>3, <1>4, <2>1, <2>2, Zenon DEF KQuiet
<1>6. CASE onrq[t]
  <2>1. /\ list' = list_add_tail(list_del(list, t), WQ, t)
        /\ onrq' = [onrq EXCEPT ![t] = FALSE] /\ nrp' = nrp - 1
    BY <1>6 DEF add_task_to_wait_Q
  <2>2. WQ \in Chan /\ WQ \in ListId /\ WQ # LKQ
    BY ChanAssumption DEF Chan, ListId
  <2>3. Moved(list, list', t, WQ)
    BY <2>1, <2>2, ListsOnce, ListMove
  <2> QED
    BY <1>2, <1>3, <1>4, <2>1, <2>2, <2>3, Zenon DEF KPark
<1> QED
  BY <1>5, <1>6

(* wakeup_task on an allocated task.                                       *)
LEMMA WakeKind ==
  ASSUME IInv, NEW p \in alive \ {Idle}, MoveToRunQ(p), BecomeImmediate(p)
  PROVE  WakeQ(p) /\ nxt_imm_task' \in {nxt_imm_task, p}
<1>1. nxt_imm_task' \in {nxt_imm_task, p}
  BY DEF BecomeImmediate
<1>2. CASE onrq[p]
  BY <1>1, <1>2 DEF MoveToRunQ, WakeQ, queues
<1>3. CASE ~onrq[p]
  <2>1. /\ list' = list_add(list_del(list, p), prio[p], p)
        /\ onrq' = [onrq EXCEPT ![p] = TRUE] /\ nrp' = nrp + 1
    BY <1>3 DEF MoveToRunQ
  <2>2. p \in Task /\ prio[p] \in ListId
    BY DEF IInv, TypeOK, ListId
  <2>3. Moved(list, list', p, prio[p])
    BY <2>1, <2>2, ListsOnce, ListMove
  <2> QED
    BY <1>1, <1>3, <2>1, <2>3 DEF WakeQ
<1> QED
  BY <1>2, <1>3

(* The steps of task code between two API calls.                           *)
LEMMA TaskStepKind ==
  ASSUME IInv, NEW t \in Task, TaskStep(t)
  PROVE  StepKind
<1>1. CASE CallSchedule(t)
  <2>1. /\ current = t /\ pc[t] \in DOMAIN Ret /\ schedule
        /\ pc' = [pc EXCEPT ![t] = Ret[pc[t]]]
        /\ UNCHANGED <<onrq, nrp, alive, lockv>>
    BY <1>1 DEF CallSchedule, At, Goto, pool, lk
  <2> QED
    BY <2>1 DEF KSched, StepKind
<1>2. CASE SleepAdd(t)
  <2>1. "sched" \in DOMAIN Ret
    BY DEF Ret
  <2> QED
    BY <1>2, <2>1, WaitKind DEF SleepAdd, StepKind
<1>3. CASE EvAdd(t)
  <2>1. "ev_sched" \in DOMAIN Ret
    BY DEF Ret
  <2> QED
    BY <1>3, <2>1, WaitKind DEF EvAdd, StepKind
<1>4. CASE IoWait(t)
  <2>1. At(t, "io_wait") /\ Goto(t, "io_sched") /\ wait_on_fd(t, fd[t])
        /\ UNCHANGED <<cpu, pool, lk>>
    BY <1>4 DEF IoWait
  <2>2. t \in alive \ {Idle} /\ current = t /\ pc[t] = "io_wait"
    BY <2>1, AtAlive
  <2>3. fd[t] \in Fd
    BY <2>2 DEF IInv, Lifecycle
  <2>4. fd[t] \in Chan /\ fd[t] \in ListId /\ fd[t] # LKQ
    BY <2>3, ChanAssumption DEF Chan, ListId
  <2>5. Moved(list, list', t, fd[t])
    BY <2>1, <2>4, ListsOnce, ListMove DEF wait_on_fd
  <2>6. "io_wait" \in Label /\ "io_wait" \notin DOMAIN Ret /\ "io_sched" \in DOMAIN Ret
    BY DEF Label, Ret
  <2>7. OwnCode(t, "io_wait", "io_sched")
    BY <2>1, <2>2 DEF OwnCode, Goto, cpu
  <2>8. /\ onrq' = [onrq EXCEPT ![t] = FALSE] /\ nrp' = nrp - 1
        /\ UNCHANGED <<alive, nxt_imm_task, lockv>>
    BY <2>1 DEF wait_on_fd, cpu, pool, lk
  <2> QED
    BY <2>4, <2>5, <2>6, <2>7, <2>8, Zenon DEF KPark, StepKind
<1>5. CASE LkWait(t)
  <2>1. /\ At(t, "lk_wait") /\ pc' = [pc EXCEPT ![t] = "lk_sched"]
        /\ list' = list_add_tail(list_del(list, t), LKQ, t)
        /\ onrq' = [onrq EXCEPT ![t] = FALSE] /\ nrp' = nrp
        /\ UNCHANGED <<alive, current, nxt_imm_task, lockv>>
    BY <1>5 DEF LkWait, Goto, set_task_not_rq, pool, lk
  <2>2. t \in alive \ {Idle} /\ current = t /\ pc[t] = "lk_wait"
    BY <2>1, AtAlive
  <2>3. LKQ \in Chan /\ LKQ \in ListId
    BY DEF Chan, ListId
  <2>4. Moved(list, list', t, LKQ)
    BY <2>1, <2>3, ListsOnce, ListMove
  <2>5. "lk_wait" \in Label /\ "lk_wait" \notin DOMAIN Ret /\ "lk_sched" \in DOMAIN Ret
    BY DEF Label, Ret
  <2>6. OwnCode(t, "lk_wait", "lk_sched")
    BY <2>1, <2>2 DEF OwnCode
  <2> QED
    BY <2>1, <2>3, <2>4, <2>5, <2>6, Zenon DEF KPark, StepKind
<1>6. CASE LkTest(t)
  <2>1. /\ At(t, "lk_test")
        /\ pc' = [pc EXCEPT ![t] = IF lockv # 0 THEN "lk_wait" ELSE "lk_load"]
        /\ UNCHANGED <<list, onrq, nrp, alive, current, nxt_imm_task, lockv>>
    BY <1>6 DEF LkTest, Goto, kernel, queues, cpu, pool, lk
  <2>2. t \in alive \ {Idle} /\ current = t /\ pc[t] = "lk_test"
    BY <2>1, AtAlive
  <2>3. {"lk_test", "lk_wait", "lk_load"} \subseteq Label /\ "lk_test" \notin DOMAIN Ret
    BY DEF Label, Ret
  <2>4. CASE lockv # 0
    <3>1. OwnCode(t, "lk_test", "lk_wait")
      BY <2>1, <2>2, <2>4 DEF OwnCode
    <3> QED
      BY <2>1, <2>3, <2>4, <3>1 DEF KQuiet, StepKind
  <2>5. CASE lockv = 0
    <3>1. OwnCode(t, "lk_test", "lk_load")
      BY <2>1, <2>2, <2>5 DEF OwnCode
    <3> QED
      BY <2>1, <2>3, <2>5, <3>1 DEF KQuiet, StepKind
  <2> QED
    BY <2>4, <2>5
<1>7. CASE \/ EvTest(t) \/ EvReset(t) \/ IoRead(t) \/ LkLoad(t) \/ LkStore(t)
           \/ LkChk(t) \/ LkOwn(t) \/ UlLoad(t) \/ UlStore(t) \/ UlChk(t) \/ UlOwn(t)
  <2> DEFINE K == {"ev_test", "ev_reset", "io_read", "lk_load", "lk_store", "lk_chk",
                   "lk_own", "ul_load", "ul_store", "ul_chk", "ul_own"}
             M == {"ev_reset", "ev_add", "run", "io_wait", "lk_store", "lk_chk", "lk_own",
                   "ul_store", "ul_chk", "ul_own", "ul_wake"}
  <2>1. PICK k \in K, l \in M : At(t, k) /\ pc' = [pc EXCEPT ![t] = l]
    BY <1>7, ZenonT(30) DEF EvTest, EvReset, IoRead, LkLoad, LkStore, LkChk, LkOwn, UlLoad,
        UlStore,
                UlChk, UlOwn, Load, Store, Goto
  <2>2. UNCHANGED <<list, onrq, nrp, alive, current, nxt_imm_task>>
    BY <1>7, ZenonT(30) DEF EvTest, EvReset, IoRead, LkLoad, LkStore, LkChk, LkOwn, UlLoad,
        UlStore,
                UlChk, UlOwn, Load, Store, kernel, queues, cpu, pool
  <2>3. k \in Label /\ l \in Label /\ k \notin DOMAIN Ret /\ k \notin {"lk_wait", "lk_test"}
        /\ k \notin {"exited", "idle"} /\ l # "lk_wait"
    BY DEF Label, Ret
  <2>4. OwnCode(t, k, l)
    <3>1. t \in alive \ {Idle} /\ current = t /\ pc[t] = k
      BY <2>1, <2>3, AtAlive
    <3> QED
      BY <2>1, <2>2, <3>1 DEF OwnCode
  <2> QED
    BY <2>2, <2>3, <2>4 DEF KQuiet, StepKind
<1>8. CASE UlWake(t)
  <2>1. At(t, "ul_wake") /\ pc' = [pc EXCEPT ![t] = "run"]
        /\ UNCHANGED <<alive, current, lockv>>
    BY <1>8, Zenon DEF UlWake, Goto, pool, lk
  <2>2. t \in alive \ {Idle} /\ current = t /\ pc[t] = "ul_wake"
    BY <2>1, AtAlive
  <2>3. OwnCode(t, "ul_wake", "run")
    BY <2>1, <2>2 DEF OwnCode
  <2>4. CASE list[LKQ] # <<>>
    <3> DEFINE p == Head(list[LKQ])
    <3>1. LKQ \in ListId
      BY DEF ListId, Chan
    <3>2. p \in Task /\ Linked(p, LKQ) /\ p \in alive \ {Idle}
      BY <2>4, <3>1, HeadLinked, LinkedAlive DEF IInv
    <3>3. MoveToRunQ(p) /\ BecomeImmediate(p)
      BY <1>8, <2>4 DEF UlWake, wakeup_task
    <3> HIDE DEF p
    <3>4. WakeQ(p) /\ nxt_imm_task' \in {nxt_imm_task, p}
      BY <3>2, <3>3, WakeKind
    <3>5. WokenByTask(p)
      BY <2>2, <2>3, <3>2 DEF WokenByTask
    <3> QED
      BY <2>1, <3>2, <3>4, <3>5 DEF KWake, StepKind
  <2>5. CASE list[LKQ] = <<>>
    <3>1. UNCHANGED <<list, onrq, nrp, nxt_imm_task>>
      BY <1>8, <2>5 DEF UlWake, queues
    <3>2. {"ul_wake", "run"} \subseteq Label /\ "ul_wake" \notin DOMAIN Ret
      BY DEF Label, Ret
    <3> QED
      BY <2>1, <2>3, <3>1, <3>2 DEF KQuiet, StepKind
  <2> QED
    BY <2>4, <2>5
<1> QED
  BY <1>1, <1>2, <1>3, <1>4, <1>5, <1>6, <1>7, <1>8 DEF TaskStep

(* The API calls.                                                          *)
LEMMA CallKind ==
  ASSUME IInv, HandlerCode, NEW t \in Task, Call(t)
  PROVE  StepKind
<1>0. /\ pc \in [Task -> Label] /\ alive \subseteq Task
      /\ At(t, "run") /\ t \in alive \ {Idle} /\ current = t /\ pc[t] = "run"
  <2>1. At(t, "run")
    BY Zenon DEF Call, spawn_task, cpu_yield, SleepArm, sleep_forever, wait_for_event,
        post_event,
           tm_read, lock, unlock, clone_thread_exit, kill_task, Calls
  <2> QED
    BY <2>1, AtAlive, Zenon DEF IInv, TypeOK
<1>1. CASE \E u \in User : spawn_task(t, u)
  <2>1. PICK u \in User : spawn_task(t, u)
    BY <1>1
  <2>2. u \in Task /\ pc[u] = "new"
    BY <2>1 DEF User, spawn_task
  <2>3. u \notin alive /\ u # current
    BY <1>0, <2>2 DEF IInv, Lifecycle
  <2>4. \A l \in ListId : ~Contains(list[l], u)
    BY <2>2, <2>3 DEF IInv, QueuesConsistent, FreedUnlinked, Linked
  <2>5. prio[u] \in ListId /\ list' = list_add_tail(list, prio[u], u)
    BY <2>1, <2>2 DEF IInv, TypeOK, ListId, spawn_task, wakeup_new_task
  <2>6. Moved(list, list', u, prio[u])
    BY <2>2, <2>4, <2>5, ListsOnce, ListAddTail
  <2>7. /\ onrq' = [onrq EXCEPT ![u] = TRUE] /\ nrp' = nrp + 1
        /\ alive' = alive \cup {u} /\ nxt_imm_task' \in {nxt_imm_task, u}
        /\ pc' = [pc EXCEPT ![u] = "run"]
        /\ UNCHANGED <<current, lockv>>
    BY <2>1, Zenon DEF spawn_task, wakeup_new_task, BecomeImmediate, Goto, lk
  <2> QED
    BY <1>0, <2>3, <2>6, <2>7, Zenon DEF KSpawn, StepKind
<1>2. CASE cpu_yield(t)
  <2>1. schedule /\ pc' = pc /\ UNCHANGED <<onrq, nrp, alive, lockv>>
    BY <1>2 DEF cpu_yield, pool, lk
  <2> QED
    BY <1>0, <2>1 DEF KSched, StepKind
<1>3. CASE sleep_forever(t)
  <2>1. "sched" \in DOMAIN Ret
    BY DEF Ret
  <2> QED
    BY <1>0, <1>3, <2>1, WaitKind DEF sleep_forever, StepKind
<1>4. CASE \/ SleepArm(t) \/ wait_for_event(t) \/ lock(t) \/ unlock(t)
           \/ \E f \in Fd : tm_read(t, f)
  <2>1. /\ \E l \in {"sl_add", "ev_test", "lk_test", "ul_load", "io_read"} :
             pc' = [pc EXCEPT ![t] = l]
        /\ UNCHANGED kernel
    BY <1>4 DEF SleepArm, wait_for_event, lock, unlock, tm_read, Goto
  <2>2. PICK l \in {"sl_add", "ev_test", "lk_test", "ul_load", "io_read"} :
          pc' = [pc EXCEPT ![t] = l]
    BY <2>1, Zenon
  <2>3. UNCHANGED <<list, onrq, nrp, alive, current, nxt_imm_task>>
    BY <2>1 DEF kernel, queues, cpu, pool
  <2>4. l \in Label /\ "run" \in Label /\ "run" \notin DOMAIN Ret /\ l # "lk_wait"
    BY DEF Label, Ret
  <2>5. OwnCode(t, "run", l)
    BY <1>0, <2>2, <2>3 DEF OwnCode
  <2> QED
    BY <2>3, <2>4, <2>5 DEF KQuiet, StepKind
<1>5. CASE \E u \in Task : post_event(t, u)
  <2>1. PICK u \in Task : post_event(t, u)
    BY <1>5
  <2>2. u \in alive \ {Idle}
    <3>1. PICK l \in ListId : Linked(u, l)
      BY <2>1 DEF post_event, find_task, OnRunList, ListId, Chan
    <3> QED
      BY <3>1, LinkedAlive DEF IInv
  <2>3. /\ MoveToRunQ(u) /\ BecomeImmediate(u) /\ pc' = pc
        /\ UNCHANGED <<alive, current, lockv>>
    BY <2>1 DEF post_event, wakeup_task, pool, lk
  <2>4. WakeQ(u) /\ nxt_imm_task' \in {nxt_imm_task, u}
    BY <2>2, <2>3, WakeKind
  <2>5. OwnCode(current, "run", "run")
    BY <1>0, <2>3 DEF OwnCode
  <2>6. u # current \/ "self" \in Ops
    BY <1>0, <2>1 DEF post_event, Ops
  <2>7. WokenByTask(u)
    BY <2>5, <2>6 DEF WokenByTask
  <2> QED
    BY <2>2, <2>3, <2>4, <2>7 DEF KWake, StepKind
<1>6. CASE clone_thread_exit(t)
  <2>1. /\ t \in User /\ task_exit(t) /\ pc' = [pc EXCEPT ![t] = "exited"]
        /\ UNCHANGED <<current, nxt_imm_task, lockv>>
    BY <1>6 DEF clone_thread_exit, Goto, lk
  <2>2. Removed(list, list', t)
    BY <2>1, ListsOnce, ListDel DEF task_exit
  <2>3. onrq' = [onrq EXCEPT ![t] = FALSE] /\ alive' = alive \ {t} /\ nrp' = nrp
    BY <2>1 DEF task_exit
  <2> QED
    BY <1>0, <2>1, <2>2, <2>3, Zenon DEF KEnd, StepKind
<1>7. CASE \E u \in User : kill_task(t, u)
  <2>1. PICK u \in User : kill_task(t, u)
    BY <1>7
  <2>2. u \in Task /\ u # t
    BY <2>1 DEF User, kill_task
  <2>3. u \in alive
    <3>1. PICK l \in ListId : Linked(u, l)
      BY <2>1 DEF kill_task, find_task, OnRunList, ListId, Chan
    <3> QED
      BY <2>2, <3>1, LinkedAlive DEF IInv
  <2>4. /\ task_exit(u) /\ pc' = [pc EXCEPT ![u] = "dead"]
        /\ UNCHANGED <<current, nxt_imm_task, lockv>>
    BY <2>1 DEF kill_task, Goto, lk
  <2>5. Removed(list, list', u)
    BY <2>2, <2>4, ListsOnce, ListDel DEF task_exit
  <2>6. onrq' = [onrq EXCEPT ![u] = FALSE] /\ alive' = alive \ {u} /\ nrp' = nrp
    BY <2>4 DEF task_exit
  <2> QED
    BY <1>0, <2>2, <2>3, <2>4, <2>5, <2>6, Zenon DEF KEnd, StepKind
<1> QED
  BY <1>1, <1>2, <1>3, <1>4, <1>5, <1>6, <1>7 DEF Call

(* softirqd, IDLE and the signal handlers.                                 *)
LEMMA HandlerKind ==
  ASSUME IInv, HandlerCode, softirqd \/ idle_task \/ tick_tmr_intr \/ io_interrupt
  PROVE  StepKind
<1>0. /\ pc \in [Task -> Label] /\ alive \subseteq Task
      /\ Sirq \in Task /\ Sirq \in alive \ {Idle}
  BY TaskAssumption, ZenonT(30) DEF IInv, TypeOK, Lifecycle
<1>1. CASE SiScan \/ SiDone
  <2>1. PICK k \in {"si_scan", "si_act"}, l \in {"si_act", "si_add"} :
          At(Sirq, k) /\ pc' = [pc EXCEPT ![Sirq] = l]
    BY <1>1 DEF SiScan, SiDone, Goto
  <2>2. UNCHANGED <<list, onrq, nrp, alive, current, nxt_imm_task>>
    BY <1>1, ZenonT(30) DEF SiScan, SiDone, kernel, queues, cpu, pool
  <2>3. k \in Label /\ l \in Label /\ k \notin DOMAIN Ret /\ k # "lk_wait" /\ k # "lk_test"
        /\ l # "lk_wait"
    BY DEF Label, Ret
  <2>4. OwnCode(Sirq, k, l)
    BY <1>0, <2>1, <2>2 DEF OwnCode, At
  <2> QED
    BY <1>0, <2>2, <2>3, <2>4 DEF KQuiet, StepKind
<1>2. CASE SiAdd
  <2>1. "si_sched" \in DOMAIN Ret
    BY Zenon DEF Ret
  <2> QED
    BY <1>0, <1>2, <2>1, WaitKind DEF SiAdd, StepKind
<1>3. CASE \E u \in Task : SiFire(u)
  <2>1. PICK u \in Task : SiFire(u)
    BY <1>3
  <2>2. CASE u \in alive
    <3>1. u # Idle /\ u # Sirq
      BY <2>1 DEF SiFire, IInv, Lifecycle, HandlerCode
    <3>2. /\ MoveToRunQ(u) /\ BecomeImmediate(u) /\ pc' = pc
          /\ UNCHANGED <<alive, current, lockv>>
      BY <2>1, <2>2, Zenon DEF SiFire, wakeup_task, pool, lk
    <3>3. WakeQ(u) /\ nxt_imm_task' \in {nxt_imm_task, u}
      BY <2>2, <3>1, <3>2, WakeKind
    <3>4. current = Sirq /\ pc[Sirq] = "si_act"
      BY <2>1 DEF SiFire, At
    <3>5. OwnCode(current, "si_act", "si_act")
      BY <1>0, <3>2, <3>4 DEF OwnCode
    <3>6. WokenByTask(u)
      BY <3>1, <3>4, <3>5 DEF WokenByTask
    <3> QED
      BY <2>2, <3>1, <3>2, <3>3, <3>6, ZenonT(60) DEF KWake, StepKind
  <2>3. CASE u \notin alive
    BY <2>1, <2>3 DEF SiFire, KNone, StepKind, queues, cpu, pool, lk
  <2> QED
    BY <2>2, <2>3
<1>4. CASE idle_task
  <2>1. schedule /\ pc' = pc /\ pc[current] = "idle" /\ UNCHANGED <<onrq, nrp, alive, lockv>>
    BY <1>4 DEF idle_task, At, pool, lk
  <2> QED
    BY <2>1 DEF KSched, StepKind
<1>5. CASE TickEnd
  <2>1. /\ schedule \/ UNCHANGED <<list, cpu>>
        /\ pc' = pc /\ hnd = "tick" /\ UNCHANGED <<onrq, nrp, alive, lockv>>
    BY <1>5 DEF TickEnd, pool, lk
  <2> QED
    BY <2>1 DEF KSched, KNone, StepKind, cpu
<1>6. CASE \E pending \in BOOLEAN, used \in Usage : Tick(pending, used)
  <2>1. PICK pending \in BOOLEAN, used \in Usage : Tick(pending, used)
    BY <1>6
  <2>2. pc' = pc /\ UNCHANGED <<alive, current, lockv>>
    BY <2>1 DEF Tick, pool, lk
  <2>3. CASE pending
    <3>1. MoveToRunQ(Sirq) /\ BecomeImmediate(Sirq)
      BY <2>1, <2>3 DEF Tick
    <3>2. WakeQ(Sirq) /\ nxt_imm_task' \in {nxt_imm_task, Sirq}
      BY <1>0, <3>1, WakeKind
    <3>3. WokenByHandler(Sirq)
      BY <2>2 DEF WokenByHandler
    <3> QED
      BY <1>0, <2>2, <3>2, <3>3 DEF KWake, StepKind
  <2>4. CASE ~pending
    BY <2>1, <2>2, <2>4 DEF Tick, KNone, StepKind, queues
  <2> QED
    BY <2>3, <2>4
<1>7. CASE \E f \in Fd : SigIo(f)
  <2>1. UNCHANGED <<kernel, pc, lk>>
    BY <1>7, Zenon DEF SigIo
  <2> QED
    BY <2>1 DEF KNone, StepKind, kernel, queues, cpu, pool, lk
<1>8. CASE \E f \in Fd : wake_io_task(f)
  <2>1. PICK f \in Fd : wake_io_task(f)
    BY <1>8
  <2>2. f \in ListId /\ f \in Chan /\ list[f] # <<>> /\ "io" \in Ops
    BY <2>1, Zenon DEF wake_io_task, IInv, Lifecycle, ListId, Chan, HandlerCode
  <2> DEFINE p == Head(list[f])
  <2>3. p \in Task /\ Linked(p, f) /\ p \in alive \ {Idle}
    BY <2>2, HeadLinked, LinkedAlive DEF IInv
  <2>4. /\ MoveToRunQ(p) /\ BecomeImmediate(p) /\ pc' = pc
        /\ UNCHANGED <<alive, current, lockv>>
    BY <2>1 DEF wake_io_task, wakeup_task, pool, lk
  <2> HIDE DEF p
  <2>5. WakeQ(p) /\ nxt_imm_task' \in {nxt_imm_task, p}
    BY <2>3, <2>4, WakeKind
  <2>6. ~onrq[p]
    BY <2>2, <2>3 DEF IInv, QueuesConsistent, OnrqAgrees
  <2>7. WokenByHandler(p)
    BY <2>2, <2>4, <2>6 DEF WokenByHandler
  <2> QED
    BY <2>3, <2>4, <2>5, <2>7 DEF KWake, StepKind
<1> QED
  BY <1>1, <1>2, <1>3, <1>4, <1>5, <1>6, <1>7, <1>8
  DEF softirqd, tick_tmr_intr, io_interrupt

(* Every step is of one of the kinds.                                      *)
LEMMA StepHasKind ==
  ASSUME IInv, HandlerCode, [Next]_vars
  PROVE  StepKind
<1>1. CASE \E t \in Task : TaskStep(t)
  BY <1>1, TaskStepKind
<1>2. CASE \E t \in Task : Call(t)
  BY <1>2, CallKind
<1>3. CASE softirqd \/ idle_task \/ tick_tmr_intr \/ io_interrupt
  BY <1>3, HandlerKind
<1>4. CASE Dead \/ UNCHANGED vars
  BY <1>4 DEF Dead, vars, kernel, queues, cpu, pool, lk, KNone, StepKind
<1> QED
  BY <1>1, <1>2, <1>3, <1>4 DEF Next

-----------------------------------------------------------------------------
(* softirqd makes no API call, and SIGIO has readers only in a program     *)
(* that reads.                                                             *)
LEMMA HandlerCodeStep ==
  ASSUME IInv, HandlerCode, [Next]_vars
  PROVE  HandlerCode'
<1> DEFINE SiLabels == {"si_scan", "si_act", "si_add", "si_sched"}
<1>0. /\ pc \in [Task -> Label] /\ armed \in [Task -> Nat] /\ Sirq \in Task
      /\ Sirq \notin User /\ "none" \notin Fd /\ "tick" \notin Fd
  BY TaskAssumption, ProgAssumption, Zenon DEF IInv, TypeOK, User
<1>1. ASSUME NEW t \in Task, TaskStep(t)
      PROVE  HandlerCode'
  <2>1. UNCHANGED <<armed, hnd>>
    BY <1>1, Zenon DEF TaskStep, CallSchedule, SleepAdd, EvTest, EvAdd, EvReset, IoRead, IoWait,
                LkTest, LkWait, LkLoad, LkStore, LkChk, LkOwn, UlLoad, UlStore, UlChk,
                UlOwn, UlWake, Load, Store, api
  <2>2. CASE CallSchedule(t)
    <3>1. pc' = [pc EXCEPT ![t] = Ret[pc[t]]] /\ pc[t] \in DOMAIN Ret
      BY <2>2, ZenonT(60) DEF CallSchedule, Goto
    <3>2. t = Sirq => pc[t] = "si_sched"
      BY <3>1, Zenon DEF HandlerCode, Ret
    <3>3. Ret["si_sched"] = "si_scan"
      BY DEF Ret
    <3> QED
      BY <1>0, <2>1, <3>1, <3>2, <3>3, ZenonT(60) DEF HandlerCode
  <2>3. CASE ~CallSchedule(t)
    <3>1. /\ pc[t] \notin SiLabels
          /\ \E l \in Label : pc' = [pc EXCEPT ![t] = l]
      BY <1>1, <2>3, ZenonT(30) DEF TaskStep, SleepAdd, EvTest, EvAdd, EvReset, IoRead, IoWait,
                LkTest, LkWait, LkLoad, LkStore, LkChk, LkOwn, UlLoad, UlStore, UlChk,
                UlOwn, UlWake, Load, Store, At, Goto, Label, Ret
    <3> QED
      BY <1>0, <2>1, <3>1 DEF HandlerCode
  <2> QED
    BY <2>2, <2>3
<1>2. ASSUME NEW t \in Task, Call(t)
      PROVE  HandlerCode'
  <2>1. At(t, "run") /\ hnd' = hnd
    BY <1>2, Zenon DEF Call, spawn_task, cpu_yield, SleepArm, sleep_forever, wait_for_event,
                post_event, tm_read, lock, unlock, clone_thread_exit, kill_task, Calls
  <2>2. t # Sirq
    BY <2>1 DEF At, HandlerCode
  <2>3. \/ pc' = pc
        \/ \E u \in User \cup {t}, l \in Label : pc' = [pc EXCEPT ![u] = l]
    BY <1>2, ZenonT(30) DEF Call, spawn_task, cpu_yield, SleepArm, sleep_forever,
        wait_for_event,
                post_event, tm_read, lock, unlock, clone_thread_exit, kill_task, Goto,
                Label, Ret
  <2>4. armed' = armed \/ armed' = [armed EXCEPT ![t] = @ + 1]
    BY <1>2, Zenon DEF Call, spawn_task, cpu_yield, SleepArm, sleep_forever, wait_for_event,
                post_event, tm_read, lock, unlock, clone_thread_exit, kill_task, api
  <2>5. pc'[Sirq] = pc[Sirq] /\ armed'[Sirq] = armed[Sirq]
    BY <1>0, <2>2, <2>3, <2>4
  <2> QED
    BY <2>1, <2>5 DEF HandlerCode
<1>3. CASE softirqd
  <2>1. hnd' = hnd
    BY <1>3 DEF softirqd, SiScan, SiFire, SiDone, SiAdd
  <2>2. pc' = pc \/ \E l \in SiLabels : pc' = [pc EXCEPT ![Sirq] = l]
    BY <1>3 DEF softirqd, SiScan, SiFire, SiDone, SiAdd, Goto
  <2>3. armed' = armed \/ \E u \in Task : armed[u] > 0 /\ armed' = [armed EXCEPT ![u] = @ - 1]
    BY <1>3 DEF softirqd, SiScan, SiFire, SiDone, SiAdd, api
  <2>4. armed'[Sirq] = 0
    BY <1>0, <2>3 DEF HandlerCode
  <2> QED
    BY <1>0, <2>1, <2>2, <2>4, ZenonT(60) DEF HandlerCode
<1>4. CASE idle_task \/ tick_tmr_intr \/ io_interrupt
  <2>1. UNCHANGED <<pc, armed>>
    BY <1>4, ZenonT(30) DEF idle_task, tick_tmr_intr, TickEnd, Tick, io_interrupt, SigIo,
        wake_io_task, api
  <2>2. hnd' \in Fd => "io" \in Ops
    BY <1>0, <1>4, ZenonT(30) DEF idle_task, tick_tmr_intr, TickEnd, Tick, io_interrupt, SigIo,
                      wake_io_task, HandlerCode
  <2> QED
    BY <2>1, <2>2 DEF HandlerCode
<1>5. CASE Dead \/ UNCHANGED vars
  BY <1>5, ZenonT(30) DEF Dead, vars, api, HandlerCode
<1> QED
  BY <1>1, <1>2, <1>3, <1>4, <1>5 DEF Next

(* What schedule() does to the CPU; it changes no wait list.               *)
LEMMA PickResult ==
  ASSUME IInv, schedule
  PROVE  /\ \A u \in Task, c \in Chan : Contains(list'[c], u) <=> Contains(list[c], u)
         /\ \/ nrp # 0 /\ crashed' /\ UNCHANGED <<current, nxt_imm_task>>
            \/ nrp = 0 /\ current' = Idle /\ nxt_imm_task' = nxt_imm_task
            \/ /\ nrp # 0 /\ nxt_imm_task \in alive /\ nxt_imm_task = current
               /\ UNCHANGED <<current, nxt_imm_task>>
            \/ /\ nrp # 0 /\ nxt_imm_task \in alive /\ nxt_imm_task # current
               /\ current' = nxt_imm_task /\ nxt_imm_task' = None
            \/ /\ nrp # 0 /\ nxt_imm_task = None /\ nxt_imm_task' = None
               /\ current' \in alive \ {Idle} /\ onrq[current']
<1>1. CASE PicksNull \/ PicksFreed
  <2>1. nrp # 0 /\ crashed' /\ UNCHANGED <<list, current, nxt_imm_task>>
    BY <1>1 DEF schedule, PicksNull, PicksFreed, cpu
  <2> QED
    BY <2>1
<1>2. CASE ~PicksNull /\ ~PicksFreed
  <2>1. PICK e \in Task : get_next_eligible_task_to_run(e) /\ current' = e
    BY <1>2, Zenon DEF schedule
  <2>2. CASE nrp = 0
    BY <2>1, <2>2, Zenon DEF get_next_eligible_task_to_run
  <2>3. CASE nrp # 0 /\ nxt_imm_task # None
    BY <1>2, <2>1, <2>3 DEF get_next_eligible_task_to_run, PicksFreed
  <2>4. CASE nrp # 0 /\ nxt_imm_task = None
    <3>1. next_task_ready_to_run(e) /\ nxt_imm_task' = None
      BY <2>1, <2>4 DEF get_next_eligible_task_to_run
    <3>2. PICK q \in Prio : /\ FirstReady(q) /\ e = Head(list[q])
                            /\ list' = IF e = current THEN list
                                       ELSE list_add_tail(list_del(list, e), prio[e], e)
      BY <3>1 DEF next_task_ready_to_run
    <3>3. q \in ListId /\ list[q] # <<>>
      BY <3>2 DEF FirstReady, ListId
    <3>4. Linked(e, q)
      BY <3>2, <3>3, HeadLinked, ZenonT(60) DEF IInv
    <3>5. e \in alive \ {Idle} /\ onrq[e]
      BY <3>2, <3>3, <3>4, LinkedAlive, ZenonT(60) DEF IInv
    <3>6. \A u \in Task, c \in Chan : Contains(list'[c], u) <=> Contains(list[c], u)
      <4>1. CASE e = current
        BY <3>2, <4>1, ZenonT(60)
      <4>2. CASE e # current
        <5>1. prio[e] \in Prio /\ prio[e] \in ListId
          BY DEF IInv, TypeOK, ListId
        <5>2. Moved(list, list', e, prio[e])
          BY <3>2, <4>2, <5>1, ListsOnce, ListMove
        <5>3. \A c \in Chan : c \in ListId /\ c # prio[e]
          BY <5>1, ChanAssumption DEF ListId
        <5>4. \A c \in Chan : ~Contains(list[c], e)
          BY <3>5 DEF IInv, QueuesConsistent, OnrqAgrees, Linked
        <5> QED
          BY <5>2, <5>3, <5>4, ZenonT(60) DEF Moved, OnlyMoves
      <4> QED
        BY <4>1, <4>2
    <3> QED
      BY <2>1, <2>4, <3>1, <3>5, <3>6, Zenon
  <2>5. nrp = 0 \/ (nrp # 0 /\ nxt_imm_task # None) \/ (nrp # 0 /\ nxt_imm_task = None)
    OBVIOUS
  <2> QED
    BY <2>2, <2>3, <2>4, <2>5, Zenon
<1> QED
  BY <1>1, <1>2, Zenon

-----------------------------------------------------------------------------
(* rq.nrp never falls below 0, and task code runs, outside the moment      *)
(* between parking and schedule(), only while rq.nrp counts a task.        *)
RunCounted ==
  nrp >= 0 /\ (nrp = 0 => current = Idle \/ pc[current] \in DOMAIN Ret)

(* RunCounted is kept by every step.                                       *)
LEMMA RunCountedStep ==
  ASSUME IInv, HandlerCode, RunCounted, [Next]_vars
  PROVE  RunCounted'
<1>0. /\ nrp \in Int /\ nrp' \in Int /\ pc \in [Task -> Label] /\ current \in Task
      /\ pc[Idle] = "idle" /\ "run" \notin DOMAIN Ret
  BY NextIInv, Zenon DEF IInv, TypeOK, Lifecycle, Ret
<1>1. CASE KQuiet
  <2>1. nrp # 0 /\ nrp' = nrp
    BY <1>1 DEF KQuiet, OwnCode, RunCounted
  <2> QED
    BY <1>0, <2>1 DEF RunCounted
<1>2. CASE KPark
  <2>1. PICK t \in Task, k \in Label, l \in DOMAIN Ret, c \in Chan :
          /\ OwnCode(t, k, l) /\ k \notin DOMAIN Ret
          /\ nrp' = nrp \/ nrp' = nrp - 1
    BY <1>2 DEF KPark
  <2>2. current' = t /\ pc'[t] = l
    BY <1>0, <2>1, Zenon DEF OwnCode
  <2>3. nrp # 0
    <3>1. current = t /\ t # Idle /\ pc[t] = k
      BY <2>1, Zenon DEF OwnCode
    <3> QED
      BY <2>1, <3>1 DEF RunCounted
  <2> QED
    BY <1>0, <2>1, <2>2, <2>3 DEF RunCounted
<1>3. CASE KWake
  <2>1. PICK p \in alive \ {Idle} : /\ WakeQ(p) /\ (WokenByHandler(p) \/ WokenByTask(p))
                                    /\ current' = current
    BY <1>3 DEF KWake
  <2>2. nrp' = nrp \/ nrp' = nrp + 1
    BY <2>1 DEF WakeQ
  <2>3. nrp = 0 => pc' = pc
    <3>1. CASE WokenByHandler(p)
      BY <3>1 DEF WokenByHandler
    <3>2. CASE WokenByTask(p)
      <4>1. current # Idle /\ pc[current] \notin DOMAIN Ret
        BY <3>2, Zenon DEF WokenByTask, OwnCode, Ret
      <4> QED
        BY <4>1 DEF RunCounted
    <3> QED
      BY <2>1, <3>1, <3>2
  <2> QED
    BY <1>0, <2>1, <2>2, <2>3 DEF RunCounted
<1>4. CASE KSched
  <2>1. nrp' = nrp /\ schedule
    BY <1>4 DEF KSched
  <2>2. nrp = 0 => current' = Idle
    BY <2>1, PickResult
  <2> QED
    BY <2>1, <2>2 DEF RunCounted
<1>5. CASE KSpawn
  <2>1. nrp' = nrp + 1
    BY <1>5, Zenon DEF KSpawn
  <2> QED
    BY <1>0, <2>1 DEF RunCounted
<1>6. CASE KEnd
  <2>1. nrp' = nrp /\ pc[current] = "run"
    BY <1>6 DEF KEnd
  <2> QED
    BY <1>0, <2>1 DEF RunCounted
<1>7. CASE KNone
  BY <1>7 DEF KNone, RunCounted
<1> QED
  BY <1>1, <1>2, <1>3, <1>4, <1>5, <1>6, <1>7, StepHasKind DEF StepKind

-----------------------------------------------------------------------------
(* A task whose code runs is not queued on the lock, except on its way     *)
(* from lk_wait through schedule() back to lk_wait when schedule() returns *)
(* to it at once; then the lock is still taken.  The four parts support    *)
(* each other: the immediate task is not queued unless it is current; a    *)
(* caller still queued finds the lock taken; so does one that queues up as *)
(* the immediate task; and a task not on the CPU that is the immediate one *)
(* and not runnable is not about to queue up.                              *)
QueuedNotImmediate ==
  \A t \in Task : Linked(t, LKQ) /\ t # current => nxt_imm_task # t

QueuedCaller ==
  Linked(current, LKQ) =>
    /\ nrp # 0
    /\ pc[current] \in {"lk_sched", "lk_test", "lk_wait"}
    /\ pc[current] # "lk_sched" \/ nxt_imm_task = current => lockv # 0

AboutToQueue ==
  pc[current] = "lk_wait" /\ (nxt_imm_task = current \/ ~onrq[current]) => lockv # 0

ImmediateElsewhere ==
  \A t \in alive \ {current} : nxt_imm_task = t /\ ~onrq[t] => pc[t] # "lk_wait"

LockQueue ==
  QueuedNotImmediate /\ QueuedCaller /\ AboutToQueue /\ ImmediateElsewhere

(* Steps of task code that move no task.                                   *)
LEMMA LockQuiet ==
  ASSUME IInv, LockQueue, KQuiet
  PROVE  LockQueue'
<1>0. pc \in [Task -> Label] /\ alive \subseteq Task
  BY DEF IInv, TypeOK
<1>1. PICK t \in Task, k \in Label, l \in Label :
        /\ OwnCode(t, k, l)
        /\ k \notin DOMAIN Ret /\ k # "lk_wait"
        /\ (l = "lk_wait" => k = "lk_test" /\ lockv # 0 /\ lockv' = lockv)
        /\ (k = "lk_test" => l = "lk_wait" \/ lockv = 0)
        /\ UNCHANGED <<list, onrq, nrp, alive, nxt_imm_task>>
  BY DEF KQuiet
<1>2. /\ current = t /\ current' = t /\ pc[t] = k /\ pc'[t] = l
      /\ \A u \in Task \ {t} : pc'[u] = pc[u]
  BY <1>0, <1>1 DEF OwnCode
<1>3. \A u \in Task : Linked(u, LKQ)' <=> Linked(u, LKQ)
  BY <1>1 DEF Linked
<1>4. QueuedNotImmediate'
  BY <1>1, <1>2, <1>3, Zenon DEF LockQueue, QueuedNotImmediate
<1>5. QueuedCaller'
  <2>1. SUFFICES ASSUME Linked(t, LKQ)
                 PROVE  nrp # 0 /\ l = "lk_wait" /\ lockv' # 0
    BY <1>1, <1>2, <1>3, ZenonT(30) DEF QueuedCaller
  <2>2. nrp # 0 /\ k \in {"lk_sched", "lk_test", "lk_wait"} /\ (k # "lk_sched" => lockv # 0)
    BY <1>2, <2>1, Zenon DEF LockQueue, QueuedCaller
  <2>3. "lk_sched" \in DOMAIN Ret
    BY Zenon DEF Ret
  <2> QED
    BY <1>1, <2>2, <2>3, Zenon
<1>6. AboutToQueue'
  BY <1>1, <1>2, ZenonT(60) DEF AboutToQueue
<1>7. ImmediateElsewhere'
  BY <1>0, <1>1, <1>2, Zenon DEF LockQueue, ImmediateElsewhere
<1> QED
  BY <1>4, <1>5, <1>6, <1>7 DEF LockQueue

(* The running task parks.                                                 *)
LEMMA LockPark ==
  ASSUME IInv, RunCounted, LockQueue, KPark
  PROVE  LockQueue'
<1>0. /\ pc \in [Task -> Label] /\ alive \subseteq Task /\ onrq \in [Task -> BOOLEAN]
      /\ LKQ \in ListId
  BY Zenon DEF IInv, TypeOK, ListId, Chan
<1>1. PICK t \in Task, k \in Label, l \in DOMAIN Ret, c \in Chan :
        /\ OwnCode(t, k, l)
        /\ k \notin DOMAIN Ret
        /\ Moved(list, list', t, c)
        /\ onrq' = [onrq EXCEPT ![t] = FALSE]
        /\ (c = LKQ => k = "lk_wait" /\ l = "lk_sched" /\ nrp' = nrp)
        /\ UNCHANGED <<alive, nxt_imm_task, lockv>>
  BY ZenonT(30) DEF KPark
<1>2. /\ current = t /\ current' = t /\ t # Idle /\ pc[t] = k /\ pc'[t] = l
      /\ \A u \in Task \ {t} : pc'[u] = pc[u] /\ onrq'[u] = onrq[u]
  BY <1>0, <1>1 DEF OwnCode
<1>3. /\ \A u \in Task \ {t} : Linked(u, LKQ)' <=> Linked(u, LKQ)
      /\ Linked(t, LKQ)' <=> c = LKQ
  BY <1>0, <1>1, Zenon DEF Moved, OnlyMoves, Linked
<1>4. l # "lk_wait"
  BY Zenon DEF Ret
<1>5. QueuedNotImmediate'
  BY <1>1, <1>2, <1>3, Zenon DEF LockQueue, QueuedNotImmediate
<1>6. QueuedCaller'
  <2>1. SUFFICES ASSUME c = LKQ
                 PROVE  nrp' # 0 /\ l = "lk_sched" /\ (nxt_imm_task = t => lockv # 0)
    BY <1>1, <1>2, <1>3, ZenonT(30) DEF QueuedCaller
  <2>2. nrp # 0
    BY <1>1, <1>2, ZenonT(30) DEF RunCounted
  <2>3. nxt_imm_task = t => lockv # 0
    BY <1>1, <1>2, <2>1, ZenonT(60) DEF LockQueue, AboutToQueue
  <2> QED
    BY <1>1, <2>1, <2>2, <2>3
<1>7. AboutToQueue'
  BY <1>2, <1>4, ZenonT(60) DEF AboutToQueue
<1>8. ImmediateElsewhere'
  BY <1>0, <1>1, <1>2 DEF LockQueue, ImmediateElsewhere
<1> QED
  BY <1>5, <1>6, <1>7, <1>8, ZenonT(60) DEF LockQueue

(* A task is woken.                                                        *)
LEMMA LockWake ==
  ASSUME IInv, HandlerCode, RunCounted, LockQueue, KWake
  PROVE  LockQueue'
<1>0. /\ pc \in [Task -> Label] /\ alive \subseteq Task /\ onrq \in [Task -> BOOLEAN]
      /\ LKQ \in ListId /\ LKQ \in Chan /\ current \in Task /\ nrp \in Int
  BY Zenon DEF IInv, TypeOK, ListId, Chan
<1>1. PICK p \in alive \ {Idle} :
        /\ WakeQ(p)
        /\ WokenByHandler(p) \/ WokenByTask(p)
        /\ nxt_imm_task' \in {nxt_imm_task, p}
        /\ UNCHANGED <<alive, current, lockv>>
  BY DEF KWake
<1>2. /\ \A u \in Task \ {p} : (Linked(u, LKQ)' <=> Linked(u, LKQ)) /\ onrq'[u] = onrq[u]
      /\ ~Linked(p, LKQ)' /\ onrq'[p]
      /\ nrp' = nrp \/ nrp' = nrp + 1
  <2>1. CASE onrq[p] /\ UNCHANGED <<list, onrq, nrp>>
    <3>1. ~Linked(p, LKQ)
      BY <1>0, <2>1, ZenonT(60) DEF IInv, QueuesConsistent, OnrqAgrees
    <3> QED
      BY <2>1, <3>1 DEF Linked
  <2>2. CASE /\ ~onrq[p] /\ Moved(list, list', p, prio[p])
             /\ onrq' = [onrq EXCEPT ![p] = TRUE] /\ nrp' = nrp + 1
    <3>1. prio[p] # LKQ
      BY <1>0, ChanAssumption, ZenonT(60) DEF IInv, TypeOK
    <3> QED
      BY <1>0, <2>2, <3>1, ZenonT(60) DEF Moved, OnlyMoves, Linked
  <2> QED
    BY <1>1, <2>1, <2>2 DEF WakeQ
<1>3. /\ \A u \in Task \ {current} : pc'[u] = pc[u]
      /\ WokenByTask(p) => /\ pc[current] \notin {"lk_sched", "lk_test", "lk_wait"}
                           /\ pc'[current] # "lk_wait"
      /\ WokenByHandler(p) => pc' = pc
  BY <1>0, <1>1 DEF WokenByHandler, WokenByTask, OwnCode
<1>4. QueuedNotImmediate'
  BY <1>0, <1>1, <1>2 DEF LockQueue, QueuedNotImmediate
<1>5. QueuedCaller'
  <2>1. SUFFICES ASSUME Linked(current, LKQ)'
                 PROVE  /\ nrp' # 0 /\ pc'[current] \in {"lk_sched", "lk_test", "lk_wait"}
                        /\ pc'[current] # "lk_sched" \/ nxt_imm_task' = current => lockv # 0
    BY <1>1 DEF QueuedCaller, Linked
  <2>2. current # p /\ Linked(current, LKQ)
    BY <1>0, <1>1, <1>2, <2>1, Zenon DEF Linked
  <2>3. /\ nrp # 0 /\ pc[current] \in {"lk_sched", "lk_test", "lk_wait"}
        /\ pc[current] # "lk_sched" \/ nxt_imm_task = current => lockv # 0
    BY <2>2 DEF LockQueue, QueuedCaller
  <2>4. pc' = pc
    BY <1>1, <1>3, <2>3
  <2>5. nrp' # 0
    BY <1>0, <1>2, <2>3 DEF RunCounted
  <2> QED
    BY <1>1, <2>2, <2>3, <2>4, <2>5, ZenonT(60)
<1>6. AboutToQueue'
  <2>1. SUFFICES ASSUME pc'[current] = "lk_wait", nxt_imm_task' = current \/ ~onrq'[current]
                 PROVE  lockv # 0
    BY <1>1, Zenon DEF AboutToQueue
  <2>2. WokenByHandler(p) /\ pc' = pc
    BY <1>1, <1>3, <2>1
  <2>3. current # Sirq
    BY <2>1, <2>2 DEF HandlerCode
  <2>4. nxt_imm_task = current \/ ~onrq[current]
    BY <1>0, <1>1, <1>2, <2>1, <2>2, <2>3, ZenonT(60) DEF WokenByHandler
  <2> QED
    BY <2>1, <2>2, <2>4, ZenonT(30) DEF LockQueue, AboutToQueue
<1>7. ImmediateElsewhere'
  BY <1>0, <1>1, <1>2, <1>3 DEF LockQueue, ImmediateElsewhere
<1> QED
  BY <1>4, <1>5, <1>6, <1>7, ZenonT(60) DEF LockQueue

(* schedule() is called.                                                   *)
LEMMA LockSched ==
  ASSUME IInv, RunCounted, LockQueue, KSched, ~crashed'
  PROVE  LockQueue'
<1>0. /\ pc \in [Task -> Label] /\ alive \subseteq Task /\ current \in Task
      /\ LKQ \in ListId /\ LKQ \in Chan /\ Idle \in Task /\ None \notin Task
      /\ pc[Idle] = "idle" /\ pc[current] \in Label
  BY TaskAssumption, Zenon DEF IInv, TypeOK, Lifecycle, ListId, Chan
<1>1. schedule /\ UNCHANGED <<onrq, nrp, alive, lockv>>
  BY DEF KSched
<1>2. \A u \in Task : Linked(u, LKQ)' <=> Linked(u, LKQ)
  BY <1>0, <1>1, PickResult, ZenonT(30) DEF Linked
<1>3. /\ \A u \in Task \ {current} : pc'[u] = pc[u]
      /\ \/ pc' = pc /\ (pc[current] \in {"run", "idle"} \/ hnd = "tick")
         \/ /\ pc[current] \in DOMAIN Ret /\ pc'[current] = Ret[pc[current]]
            /\ pc'[current] # "lk_wait"
  BY <1>0, RetLabels DEF KSched
<1>4. pc[current] = "lk_sched" => pc'[current] \in {"lk_sched", "lk_test"}
  BY <1>3, RetLabels
<1>5. CASE nrp = 0 /\ current' = Idle /\ nxt_imm_task' = nxt_imm_task
  <2>1. ~Linked(current, LKQ) /\ ~Linked(Idle, LKQ)
    BY <1>0, <1>5 DEF LockQueue, QueuedCaller, IInv, QueuesConsistent, FreedUnlinked
  <2>2. pc'[Idle] = "idle"
    BY <1>0, <1>3, ZenonT(30) DEF Ret
  <2>3. QueuedNotImmediate'
    BY <1>0, <1>2, <1>5, <2>1 DEF LockQueue, QueuedNotImmediate
  <2>4. QueuedCaller'
    BY <1>0, <1>2, <1>5, <2>1 DEF QueuedCaller
  <2>5. AboutToQueue'
    BY <1>5, <2>2 DEF AboutToQueue
  <2>6. pc'[current] # "lk_wait"
    <3>1. current = Idle \/ pc[current] \in DOMAIN Ret
      BY <1>5 DEF RunCounted
    <3>2. "lk_wait" \notin DOMAIN Ret
      BY ZenonT(30) DEF Ret
    <3> QED
      BY <1>3, <2>2, <3>1, <3>2
  <2>7. ImmediateElsewhere'
    BY <1>0, <1>1, <1>3, <1>5, <2>6 DEF LockQueue, ImmediateElsewhere
  <2> QED
    BY <2>3, <2>4, <2>5, <2>7 DEF LockQueue
<1>6. CASE nrp # 0 /\ nxt_imm_task = current /\ UNCHANGED <<current, nxt_imm_task>>
  <2>1. QueuedNotImmediate'
    BY <1>2, <1>6 DEF LockQueue, QueuedNotImmediate
  <2>2. QueuedCaller'
    <3>1. SUFFICES ASSUME Linked(current, LKQ)
                   PROVE  pc'[current] \in {"lk_sched", "lk_test", "lk_wait"} /\ lockv # 0
      BY <1>0, <1>1, <1>2, <1>6 DEF QueuedCaller
    <3>2. pc[current] \in {"lk_sched", "lk_test", "lk_wait"} /\ lockv # 0
      BY <1>6, <3>1, Zenon DEF LockQueue, QueuedCaller
    <3>3. "lk_test" \notin DOMAIN Ret /\ "lk_wait" \notin DOMAIN Ret
      BY Zenon DEF Ret
    <3> QED
      BY <1>3, <1>4, <3>2, <3>3
  <2>3. AboutToQueue'
    BY <1>1, <1>3, <1>6 DEF LockQueue, AboutToQueue
  <2>4. ImmediateElsewhere'
    BY <1>0, <1>1, <1>3, <1>6 DEF LockQueue, ImmediateElsewhere
  <2> QED
    BY <2>1, <2>2, <2>3, <2>4 DEF LockQueue
<1>7. CASE /\ nxt_imm_task' = None /\ current' \in alive
           /\ \/ current' = nxt_imm_task /\ nxt_imm_task # current
              \/ current' # Idle /\ onrq[current']
  <2>1. ~Linked(current', LKQ)
    BY <1>0, <1>7 DEF LockQueue, QueuedNotImmediate, IInv, QueuesConsistent, OnrqAgrees
  <2>2. QueuedNotImmediate' /\ ImmediateElsewhere'
    BY <1>0, <1>1, <1>7, Zenon DEF QueuedNotImmediate, ImmediateElsewhere
  <2>3. QueuedCaller'
    <3>1. ~Linked(current, LKQ)'
      BY <1>0, <1>2, <1>7, <2>1, ZenonT(30) DEF Linked
    <3> QED
      BY <3>1 DEF QueuedCaller
  <2>4. AboutToQueue'
    <3>1. CASE current' = nxt_imm_task /\ nxt_imm_task # current
      BY <1>0, <1>1, <1>3, <1>7, <3>1, ZenonT(30) DEF LockQueue, ImmediateElsewhere,
          AboutToQueue
    <3>2. CASE current' # Idle /\ onrq[current']
      BY <1>0, <1>1, <1>7, <3>2 DEF AboutToQueue
    <3> QED
      BY <1>7, <3>1, <3>2
  <2> QED
    BY <2>2, <2>3, <2>4, ZenonT(60) DEF LockQueue
<1> QED
  BY <1>1, <1>5, <1>6, <1>7, PickResult, ZenonT(30)

(* A task starts or ends.                                                  *)
LEMMA LockPool ==
  ASSUME IInv, LockQueue, KSpawn \/ KEnd \/ KNone
  PROVE  LockQueue'
<1>0. /\ pc \in [Task -> Label] /\ alive \subseteq Task /\ onrq \in [Task -> BOOLEAN]
      /\ current \in Task /\ LKQ \in ListId /\ LKQ \in Chan /\ User \subseteq Task
  BY Zenon DEF IInv, TypeOK, ListId, Chan, User
<1>1. CASE KSpawn
  <2>1. PICK u \in User \ (alive \cup {current}) :
          /\ pc[current] = "run"
          /\ Moved(list, list', u, prio[u])
          /\ onrq' = [onrq EXCEPT ![u] = TRUE]
          /\ alive' = alive \cup {u}
          /\ nxt_imm_task' \in {nxt_imm_task, u}
          /\ pc' = [pc EXCEPT ![u] = "run"]
          /\ UNCHANGED <<current, lockv>>
    BY <1>1, ZenonT(30) DEF KSpawn
  <2>2. prio[u] # LKQ
    BY <1>0, ChanAssumption DEF IInv, TypeOK
  <2>3. \A v \in Task : Linked(v, LKQ)' <=> v # u /\ Linked(v, LKQ)
    BY <1>0, <2>1, <2>2, ZenonT(30) DEF Moved, OnlyMoves, Linked
  <2>4. ~Linked(current, LKQ) /\ pc'[current] = "run"
    BY <1>0, <2>1 DEF LockQueue, QueuedCaller
  <2>5. QueuedNotImmediate'
    BY <1>0, <2>1, <2>3, ZenonT(60) DEF LockQueue, QueuedNotImmediate
  <2>6. QueuedCaller' /\ AboutToQueue'
    BY <1>0, <2>1, <2>3, <2>4 DEF QueuedCaller, AboutToQueue
  <2>7. ImmediateElsewhere'
    BY <1>0, <2>1 DEF LockQueue, ImmediateElsewhere
  <2> QED
    BY <2>5, <2>6, <2>7 DEF LockQueue
<1>2. CASE KEnd
  <2>1. PICK p \in User \cap alive, l \in {"exited", "dead"} :
          /\ pc[current] = "run"
          /\ Removed(list, list', p)
          /\ onrq' = [onrq EXCEPT ![p] = FALSE]
          /\ alive' = alive \ {p}
          /\ pc' = [pc EXCEPT ![p] = l]
          /\ UNCHANGED <<current, nxt_imm_task, lockv>>
    BY <1>2, ZenonT(30) DEF KEnd
  <2>2. \A v \in Task : Linked(v, LKQ)' => Linked(v, LKQ)
    BY <1>0, <2>1, Zenon DEF Removed, OnlyMoves, Linked
  <2>3. ~Linked(current, LKQ) /\ pc'[current] # "lk_wait"
    BY <1>0, <2>1, ZenonT(60) DEF LockQueue, QueuedCaller
  <2>4. QueuedNotImmediate'
    BY <1>0, <2>1, <2>2, ZenonT(60) DEF LockQueue, QueuedNotImmediate
  <2>5. QueuedCaller' /\ AboutToQueue'
    BY <1>0, <2>1, <2>2, <2>3 DEF QueuedCaller, AboutToQueue
  <2>6. ImmediateElsewhere'
    BY <1>0, <2>1 DEF LockQueue, ImmediateElsewhere
  <2> QED
    BY <2>4, <2>5, <2>6 DEF LockQueue
<1>3. CASE KNone
  BY <1>3, Zenon DEF KNone, LockQueue, QueuedNotImmediate, QueuedCaller, AboutToQueue,
              ImmediateElsewhere, Linked
<1> QED
  BY <1>1, <1>2, <1>3, ZenonT(60)

(* LockQueue holds until the process dies.                                 *)
LEMMA LockQueueStep ==
  ASSUME IInv, HandlerCode, RunCounted, crashed \/ LockQueue, [Next]_vars
  PROVE  crashed' \/ LockQueue'
<1>1. CASE crashed
  BY <1>1, CrashedStops, ZenonT(30) DEF vars, kernel
<1>2. CASE ~crashed /\ ~crashed'
  BY <1>2, StepHasKind, LockQuiet, LockPark, LockWake, LockSched, LockPool DEF StepKind
<1> QED
  BY <1>1, <1>2

-----------------------------------------------------------------------------
(* The immediate task is runnable.                                         *)

(* Programs in which no task reads a descriptor or posts an event to       *)
(* itself.                                                                 *)
NoSelfWake == Ops \cap {"io", "self"} = {}

(* The immediate task, unless freed, is softirqd or a runnable task other  *)
(* than the current one; the current task, outside the moment between      *)
(* parking and schedule(), is IDLE, softirqd or runnable.                  *)
PickRunnable ==
  /\ nxt_imm_task # Idle
  /\ \/ nxt_imm_task \in {None, Sirq} \/ nxt_imm_task \notin alive
     \/ onrq[nxt_imm_task] /\ nxt_imm_task # current
  /\ current \in {Idle, Sirq} \/ onrq[current] \/ pc[current] \in DOMAIN Ret

(* PickRunnable is kept by every step after which the process lives.       *)
LEMMA PickRunnableStep ==
  ASSUME NoSelfWake, IInv, HandlerCode, PickRunnable, StepKind, ~crashed'
  PROVE  PickRunnable'
<1>0. /\ pc \in [Task -> Label] /\ alive \subseteq Task /\ onrq \in [Task -> BOOLEAN]
      /\ current \in Task /\ LKQ \in Chan /\ User \subseteq Task \ {Idle, Main, Sirq}
      /\ nxt_imm_task \in Task \cup {None} /\ None \notin Task /\ Idle \in Task
      /\ "io" \notin Ops /\ "self" \notin Ops
  BY TaskAssumption, ZenonT(30) DEF IInv, TypeOK, Chan, User, NoSelfWake
<1>1. CASE KQuiet
  <2>1. PICK t \in Task, k \in Label, l \in Label :
          /\ OwnCode(t, k, l) /\ k \notin DOMAIN Ret
          /\ UNCHANGED <<onrq, alive, nxt_imm_task>>
    BY <1>1 DEF KQuiet
  <2> QED
    BY <2>1 DEF OwnCode, PickRunnable
<1>2. CASE KPark
  <2>1. PICK t \in Task, k \in Label, l \in DOMAIN Ret :
          /\ OwnCode(t, k, l) /\ onrq' = [onrq EXCEPT ![t] = FALSE]
          /\ UNCHANGED <<alive, nxt_imm_task>>
    BY <1>2, ZenonT(30) DEF KPark
  <2>2. current' = t /\ current = t /\ pc'[t] = l
    BY <1>0, <2>1 DEF OwnCode
  <2> QED
    BY <1>0, <2>1, <2>2, ZenonT(30) DEF PickRunnable
<1>3. CASE KWake
  <2>1. PICK p \in alive \ {Idle} :
          /\ WakeQ(p)
          /\ WokenByHandler(p) \/ WokenByTask(p)
          /\ nxt_imm_task' \in {nxt_imm_task, p}
          /\ UNCHANGED <<alive, current>>
    BY <1>3 DEF KWake
  <2>2. onrq'[p] /\ \A u \in Task : onrq[u] => onrq'[u]
    BY <1>0, <2>1 DEF WakeQ
  <2>3. p = Sirq \/ p # current
    <3>1. CASE WokenByHandler(p)
      BY <1>0, <3>1 DEF WokenByHandler
    <3>2. CASE WokenByTask(p) /\ p = current
      <4>1. pc[current] = "ul_wake" /\ Linked(p, LKQ)
        BY <1>0, <3>2 DEF WokenByTask
      <4>2. "ul_wake" \notin DOMAIN Ret
        BY ZenonT(30) DEF Ret
      <4>3. current = Sirq \/ onrq[p]
        BY <2>1, <3>2, <4>1, <4>2, ZenonT(30) DEF PickRunnable
      <4>4. ~onrq[p]
        BY <1>0, <2>1, <4>1 DEF IInv, QueuesConsistent, OnrqAgrees
      <4> QED
        BY <3>2, <4>3, <4>4
    <3> QED
      BY <2>1, <3>1, <3>2
  <2>4. current \in {Idle, Sirq} \/ onrq'[current] \/ pc'[current] \in DOMAIN Ret
    <3>1. CASE WokenByHandler(p)
      BY <1>0, <2>2, <3>1 DEF WokenByHandler, PickRunnable
    <3>2. CASE WokenByTask(p)
      <4>1. pc[current] \notin DOMAIN Ret
        BY <3>2, ZenonT(30) DEF WokenByTask, OwnCode, Ret
      <4> QED
        BY <1>0, <2>2, <4>1, ZenonT(30) DEF PickRunnable
    <3> QED
      BY <2>1, <3>1, <3>2, ZenonT(30)
  <2> QED
    BY <1>0, <2>1, <2>2, <2>3, <2>4, ZenonT(30) DEF PickRunnable
<1>4. CASE KSched
  <2>1. schedule /\ UNCHANGED <<onrq, alive>>
    BY <1>4, Zenon DEF KSched
  <2>2. CASE current' = Idle /\ nxt_imm_task' = nxt_imm_task /\ nrp = 0
    BY <1>0, <2>1, <2>2, Zenon DEF PickRunnable
  <2>3. CASE /\ nxt_imm_task \in alive /\ nxt_imm_task = current
             /\ UNCHANGED <<current, nxt_imm_task>>
    BY <1>0, <2>1, <2>3, Zenon DEF PickRunnable
  <2>4. CASE nxt_imm_task \in alive /\ current' = nxt_imm_task /\ nxt_imm_task' = None
    BY <1>0, <2>1, <2>4, Zenon DEF PickRunnable
  <2>5. CASE nxt_imm_task' = None /\ onrq[current']
    BY <1>0, <2>1, <2>5, Zenon DEF PickRunnable
  <2> QED
    BY <2>1, <2>2, <2>3, <2>4, <2>5, PickResult, Zenon
<1>5. CASE KSpawn
  <2>1. PICK u \in User \ (alive \cup {current}) :
          /\ pc[current] = "run"
          /\ onrq' = [onrq EXCEPT ![u] = TRUE]
          /\ alive' = alive \cup {u}
          /\ nxt_imm_task' \in {nxt_imm_task, u}
          /\ UNCHANGED current
    BY <1>5, ZenonT(30) DEF KSpawn
  <2>2. "run" \notin DOMAIN Ret
    BY ZenonT(30) DEF Ret
  <2> QED
    BY <1>0, <2>1, <2>2, ZenonT(30) DEF PickRunnable
<1>6. CASE KEnd
  <2>1. PICK p \in User \cap alive, l \in {"exited", "dead"} :
          /\ onrq' = [onrq EXCEPT ![p] = FALSE]
          /\ alive' = alive \ {p}
          /\ pc' = [pc EXCEPT ![p] = l] /\ (l = "exited" <=> p = current)
          /\ UNCHANGED <<current, nxt_imm_task>>
    BY <1>6, ZenonT(30) DEF KEnd
  <2>2. "exited" \in DOMAIN Ret
    BY Zenon DEF Ret
  <2> QED
    BY <1>0, <2>1, <2>2, ZenonT(30) DEF PickRunnable
<1>7. CASE KNone
  BY <1>7, ZenonT(30) DEF KNone, PickRunnable
<1> QED
  BY <1>1, <1>2, <1>3, <1>4, <1>5, <1>6, <1>7 DEF StepKind

(* What a switch of tasks goes to.                                         *)
LEMMA SwitchTarget ==
  ASSUME IInv, PickRunnable, StepKind, current' # current
  PROVE  current' \in {Idle, Sirq} \/ onrq[current']
<1>0. None \notin Task /\ alive \subseteq Task
  BY TaskAssumption, ZenonT(30) DEF IInv, TypeOK
<1>1. KSched
  <2>1. \A t, k, l : ~OwnCode(t, k, l)
    BY Zenon DEF OwnCode
  <2>2. ~KQuiet /\ ~KPark
    BY <2>1, Zenon DEF KQuiet, KPark
  <2>3. ~KWake /\ ~KSpawn /\ ~KEnd /\ ~KNone
    BY Zenon DEF KWake, KSpawn, KEnd, KNone
  <2> QED
    BY <2>2, <2>3, Zenon DEF StepKind
<1> QED
  BY <1>0, <1>1, PickResult, ZenonT(30) DEF KSched, PickRunnable

-----------------------------------------------------------------------------
(* The state tmlib_init leaves.                                            *)
LEMMA InitSwitch ==
  ASSUME Init
  PROVE  HandlerCode /\ RunCounted /\ LockQueue /\ PickRunnable
<1>0. /\ Sirq \in Task /\ Main \in Task /\ Idle # Main /\ Sirq # Main /\ Sirq # Idle
      /\ LKQ \in ListId /\ LKQ \notin Prio /\ BasePrio[Sirq] \in Prio /\ "none" \notin Fd
  BY TaskAssumption, ChanAssumption, PrioAssumption, ProgAssumption, Zenon DEF ListId, Chan
<1>1. /\ current = Main /\ nxt_imm_task = Sirq /\ nrp = 2 /\ hnd = "none"
      /\ pc[Sirq] = "si_scan" /\ pc[Main] = "run" /\ armed[Sirq] = 0
      /\ onrq[Main] /\ onrq[Sirq] /\ list[LKQ] = <<>>
  BY <1>0, ZenonT(30) DEF Init, tmlib_init
<1>2. HandlerCode
  BY <1>0, <1>1, ZenonT(30) DEF HandlerCode
<1>3. RunCounted
  BY <1>1 DEF RunCounted
<1>4. LockQueue
  <2>1. \A t : ~Linked(t, LKQ)
    BY <1>1 DEF Linked, Contains
  <2> QED
    BY <1>0, <1>1, <2>1, ZenonT(30) DEF LockQueue, QueuedNotImmediate, QueuedCaller,
        AboutToQueue,
                            ImmediateElsewhere
<1>5. PickRunnable
  BY <1>0, <1>1, Zenon DEF PickRunnable
<1> QED
  BY <1>2, <1>3, <1>4, <1>5

(* Every switch of tasks goes to IDLE, to softirqd or to a runnable task,  *)
(* whatever wake-ups, kills and exits came between the choice of the       *)
(* immediate task and the schedule() that takes it.  A program that reads  *)
(* or posts to itself can leave as the immediate task one that parks       *)
(* afterwards.                                                             *)
THEOREM SwitchesTargetRunnable ==
  ASSUME NoSelfWake
  PROVE  Spec => SwitchTargetsRunnable
<1> DEFINE SInv == HandlerCode /\ (crashed \/ PickRunnable)
<1>1. Init => SInv
  BY InitSwitch
<1>2. IInv /\ SInv /\ [Next]_vars => SInv'
  <2>1. SUFFICES ASSUME IInv, SInv, [Next]_vars
                 PROVE  SInv'
    OBVIOUS
  <2>2. HandlerCode'
    BY <2>1, HandlerCodeStep
  <2>3. CASE crashed
    BY <2>1, <2>2, <2>3, CrashedStops, ZenonT(30) DEF vars, kernel
  <2>4. CASE ~crashed /\ ~crashed'
    BY <2>1, <2>2, <2>4, StepHasKind, PickRunnableStep
  <2> QED
    BY <2>2, <2>3, <2>4
<1>3. IInv /\ SInv /\ [Next]_vars
        => [current' # current => current' \in {Idle, Sirq} \/ onrq[current']]_vars
  <2>1. SUFFICES ASSUME IInv, SInv, [Next]_vars, current' # current
                 PROVE  current' \in {Idle, Sirq} \/ onrq[current']
    OBVIOUS
  <2>2. CASE crashed
    BY <2>1, <2>2, CrashedStops, Zenon DEF vars, kernel, cpu
  <2>3. CASE PickRunnable
    BY <2>1, <2>3, StepHasKind, SwitchTarget
  <2> QED
    BY <2>1, <2>2, <2>3
<1> QED
  BY <1>1, <1>2, <1>3, Invariance, PTL DEF Spec, SwitchTargetsRunnable

(* rq.nrp never goes negative, whatever the program does, and task code    *)
(* that is not about to call schedule() runs only while rq.nrp is at least *)
(* 1: so find_task and switch_to_os_threading, which look at the run       *)
(* queues only when rq.nrp is not 0, never skip them.                      *)
THEOREM RunAlwaysCounted ==
  Spec => []RunCounted
<1>1. Init => HandlerCode /\ RunCounted
  BY InitSwitch
<1>2. IInv /\ (HandlerCode /\ RunCounted) /\ [Next]_vars => (HandlerCode /\ RunCounted)'
  BY HandlerCodeStep, RunCountedStep
<1> QED
  BY <1>1, <1>2, Invariance, PTL DEF Spec

-----------------------------------------------------------------------------
(* The switch to OS threads.                                               *)

RunInv ==
  IInv /\ HandlerCode /\ RunCounted /\ (crashed \/ LockQueue)

(* RunInv while the library runs; after the switch what both switches      *)
(* leave alone and the threads that were started.                          *)
OsInv ==
  /\ Running => RunInv
  /\ QueuesConsistent /\ OwnerIsPastLock
  /\ OneThreadEach /\ BackKeepsOnlyReaders
  /\ OsMode => nrp # 0

(* Where a live task is linked: on exactly one kind of list.               *)
LEMMA WhereLinked ==
  ASSUME QueuesConsistent, NEW t \in alive \ {Idle, Main}
  PROVE  /\ OnRunList(t) \/ Linked(t, WQ) \/ Linked(t, LKQ) \/ OnFd(t)
         /\ ~(OnRunList(t) /\ (Linked(t, WQ) \/ Linked(t, LKQ) \/ OnFd(t)))
         /\ ~(Linked(t, WQ) /\ (Linked(t, LKQ) \/ OnFd(t)))
         /\ ~(Linked(t, LKQ) /\ OnFd(t))
<1>1. \A l, m \in ListId : Linked(t, l) /\ Linked(t, m) => l = m
  BY DEF QueuesConsistent, LinkedOnce, Linked, Contains
<1>2. Prio \subseteq ListId /\ Fd \subseteq ListId /\ WQ \in ListId /\ LKQ \in ListId
  BY DEF ListId, Chan
<1>3. Prio \cap (Fd \cup {WQ, LKQ}) = {} /\ WQ # LKQ /\ WQ \notin Fd /\ LKQ \notin Fd
  BY ChanAssumption DEF Chan
<1>4. OnRunList(t) \/ \E c \in Fd \cup {WQ, LKQ} : Linked(t, c)
  BY DEF QueuesConsistent, OnrqAgrees, Chan
<1> QED
  BY <1>1, <1>2, <1>3, <1>4, ZenonT(60) DEF OnRunList, OnFd

(* The idle task and a freed task are linked nowhere.                      *)
LEMMA FreedNowhere ==
  ASSUME QueuesConsistent, NEW u \in (Task \ alive) \cup {Idle}
  PROVE  ~Linked(u, WQ) /\ ~Linked(u, LKQ) /\ ~OnRunList(u) /\ ~OnFd(u)
<1>1. \A l \in ListId : ~Linked(u, l)
  BY Zenon DEF QueuesConsistent, FreedUnlinked
<1>2. Prio \subseteq ListId /\ Fd \subseteq ListId /\ WQ \in ListId /\ LKQ \in ListId
  BY SMTT(30) DEF ListId, Chan
<1> QED
  BY <1>1, <1>2, Zenon DEF OnRunList, OnFd

(* switch_to_os_threading starts the threads OneThreadEach tells.          *)
LEMMA ToOs ==
  ASSUME RunInv, NEW t \in Task, switch_to_os_threading(t)
  PROVE  OneThreadEach' /\ nrp' # 0
<1>0. /\ IInv /\ RunCounted /\ At(t, "run") /\ t \in User \cup {Main} /\ LockQueue
      /\ UNCHANGED <<list, nrp, current, alive>>
  BY SwitchersAssumption DEF RunInv, switch_to_os_threading, At, osFrame, queues, cpu
<1>1. t \in alive \ {Idle} /\ current = t /\ pc[t] = "run"
  BY <1>0, AtAlive
<1>2. nrp # 0
  BY <1>0, <1>1, RetLabels DEF RunCounted
<1>3. ~Linked(t, LKQ)
  BY <1>0, <1>1, Zenon DEF LockQueue, QueuedCaller
<1>4. Idle \in alive /\ Idle \in Task /\ Idle # Main /\ QueuesConsistent
      /\ alive \subseteq Task /\ WQ \in ListId /\ LKQ \in ListId
  BY <1>0, TaskAssumption, ZenonT(60) DEF IInv, TypeOK, Lifecycle, ListId, Chan
<1>5. ASSUME NEW u \in Task
      PROVE  thr'[u] = IF u = Main THEN One(t = Main)
                       ELSE One(u \in alive /\ ~Linked(u, LKQ)) + One(u = t /\ Linked(u, WQ))
  <2>1. thr'[u] = One(u = Idle /\ t # Idle) + One(u # Main /\ Linked(u, WQ))
                  + One(u \notin {t, Main} /\ nrp # 0 /\ OnRunList(u))
                  + One(u \notin {t, Main} /\ OnFd(u)) + One(u = t)
    BY DEF switch_to_os_threading, create_os_thread
  <2>2. CASE u = Main
    BY <1>4, <2>1, <2>2, ThreadSums, Zenon DEF One
  <2>3. CASE u = Idle
    <3>1. ~Linked(u, WQ) /\ ~Linked(u, LKQ) /\ ~OnRunList(u) /\ ~OnFd(u)
      BY <1>4, <2>3, FreedNowhere, Zenon
    <3>2. t # Idle /\ u # t /\ u # Main /\ u \in alive
      BY <1>1, <1>4, <2>3, Zenon
    <3> QED
      BY <2>1, <2>3, <3>1, <3>2, ThreadSums, Zenon DEF One
  <2>4. CASE u \notin alive
    <3>1. ~Linked(u, WQ) /\ ~Linked(u, LKQ) /\ ~OnRunList(u) /\ ~OnFd(u)
      BY <1>4, <2>4, FreedNowhere, Zenon
    <3>2. u # Idle /\ u # t
      BY <1>1, <1>4, <2>4, ZenonT(60)
    <3> QED
      BY <2>1, <2>4, <3>1, <3>2 DEF One
  <2>5. CASE u = t /\ u # Main
    BY <1>1, <1>3, <1>4, <2>1, <2>5, ThreadSums, ZenonT(60) DEF One
  <2>6. CASE u \in alive \ {Idle, Main, t}
    <3>1. thr'[u] = One(Linked(u, WQ)) + One(OnRunList(u)) + One(OnFd(u))
      BY <1>2, <2>1, <2>6 DEF One
    <3>2. /\ OnRunList(u) \/ Linked(u, WQ) \/ Linked(u, LKQ) \/ OnFd(u)
          /\ ~(OnRunList(u) /\ (Linked(u, WQ) \/ Linked(u, LKQ) \/ OnFd(u)))
          /\ ~(Linked(u, WQ) /\ (Linked(u, LKQ) \/ OnFd(u)))
          /\ ~(Linked(u, LKQ) /\ OnFd(u))
      BY <1>4, <2>6, WhereLinked
    <3> QED
      BY <2>6, <3>1, <3>2 DEF One
  <2> QED
    BY <2>2, <2>3, <2>4, <2>5, <2>6, ZenonT(60)
<1> QED
  BY <1>0, <1>1, <1>2, <1>5, ZenonT(30) DEF OneThreadEach, Linked

(* switch_back leaves the threads BackKeepsOnlyReaders tells.              *)
LEMMA BackFromOs ==
  ASSUME OsInv, switch_back
  PROVE  BackKeepsOnlyReaders'
<1>1. SUFFICES ASSUME ~crashed', NEW t \in Task, thr'[t] > 0, t # current
               PROVE  OnFd(t)
  <2>1. UNCHANGED <<list, current>>
    BY DEF switch_back, osFrame, queues, cpu
  <2> QED
    BY <2>1, Zenon DEF BackKeepsOnlyReaders, OnFd, Linked
<1>2. OsMode /\ thr' = [u \in Task |-> IF u # current /\ (u = Idle \/ Linked(u, WQ)
                                                          \/ (nrp # 0 /\ OnRunList(u)))
                                       THEN 0 ELSE thr[u]]
  BY <1>1, Zenon DEF switch_back
<1>3. nrp # 0 /\ QueuesConsistent
  BY <1>2 DEF OsInv
<1>4. t # Idle /\ ~Linked(t, WQ) /\ ~OnRunList(t) /\ thr[t] > 0
  BY <1>1, <1>2, <1>3
<1>5. thr[t] = IF t = Main THEN One(current = Main)
               ELSE One(t \in alive /\ ~Linked(t, LKQ)) + One(t = current /\ Linked(t, WQ))
  BY <1>2, Zenon DEF OsInv, OneThreadEach
<1>6. t # Main /\ t \in alive /\ ~Linked(t, LKQ)
  BY <1>1, <1>4, <1>5, ThreadSums, Zenon DEF One
<1> QED
  BY <1>3, <1>4, <1>6, WhereLinked

(* OsInv is inductive.                                                     *)
LEMMA OsStep ==
  ASSUME OsInv, [OsNext]_vars
  PROVE  OsInv'
<1>0. "os" \notin {"none", "tick"} \cup Fd /\ "back" \notin {"none", "tick"} \cup Fd
  BY SwitchersAssumption, SMTT(30)
<1>1. CASE [Next]_vars /\ Running
  <2>1. RunInv /\ OwnerIsPastLock /\ TypeOK
    BY <1>1 DEF OsInv, RunInv, IInv
  <2>2. IInv'
    BY <1>1, <2>1, NextIInv DEF RunInv
  <2>3. RunInv'
    <3>1. HandlerCode' /\ RunCounted'
      BY <1>1, <2>1, HandlerCodeStep, RunCountedStep DEF RunInv
    <3>2. crashed' \/ LockQueue'
      BY <1>1, <2>1, LockQueueStep DEF RunInv
    <3> QED
      BY <2>2, <3>1, <3>2 DEF RunInv
  <2>4. OwnerIsPastLock'
    BY <1>1, <2>1, OwnerStep, ZenonT(60)
  <2>5. ~OsMode' /\ ~BackMode'
    BY <1>0, <2>2, ZenonT(60) DEF IInv, TypeOK, OsMode, BackMode
  <2> QED
    BY <2>2, <2>3, <2>4, <2>5, Zenon DEF OsInv, IInv, OneThreadEach, BackKeepsOnlyReaders
<1>2. CASE UNCHANGED vars
  <2>1. UNCHANGED <<list, onrq, nrp, nwp, alive, task_count, current, crashed, thr, hnd, pc,
                    owner, holders, prio, hot, nxt_imm_task, sched_need, masked, event,
                    armed, irq, fd, avail, lockv, reg>>
    BY <1>2 DEF vars, kernel, queues, cpu, pool, api, io, lk
  <2>2. RunInv => RunInv'
    <3>1. IInv => IInv'
      BY <1>2, NextIInv
    <3> QED
      BY <2>1, <3>1, Zenon DEF RunInv, HandlerCode, RunCounted, LockQueue,
          QueuedNotImmediate, QueuedCaller, AboutToQueue, ImmediateElsewhere, Linked
  <2>3. (QueuesConsistent /\ OwnerIsPastLock)'
    BY <2>1, SameStep, Zenon DEF OsInv, OwnerIsPastLock
  <2>4. (OneThreadEach /\ BackKeepsOnlyReaders)'
    BY <2>1 DEF OsInv, OneThreadEach, BackKeepsOnlyReaders, OsMode, BackMode, OnFd, Linked
  <2> QED
    BY <2>1, <2>2, <2>3, <2>4, ZenonT(60) DEF OsInv, OsMode, Running
<1>3. CASE \E t \in Task : switch_to_os_threading(t)
  <2>1. PICK t \in Task : switch_to_os_threading(t)
    BY <1>3
  <2>2. Running /\ hnd' = "os" /\ UNCHANGED osFrame
    BY <1>0, <2>1 DEF switch_to_os_threading, At, Running
  <2>3. UNCHANGED <<list, onrq, nrp, nwp, alive, owner, holders, pc>>
    BY <2>2 DEF osFrame, queues, lk
  <2>4. (QueuesConsistent /\ OwnerIsPastLock)'
    BY <2>3, SameStep, SMTT(20) DEF OsInv, OwnerIsPastLock
  <2>5. OneThreadEach' /\ nrp' # 0
    BY <2>1, <2>2, ToOs DEF OsInv
  <2>6. BackKeepsOnlyReaders' /\ ~Running'
    BY <2>2, ZenonT(60) DEF BackKeepsOnlyReaders, BackMode, Running
  <2> QED
    BY <2>4, <2>5, <2>6 DEF OsInv
<1>4. CASE switch_back
  <2>1. hnd' = "back" /\ UNCHANGED <<list, onrq, nrp, nwp, alive, owner, holders, pc>>
    BY <1>4, ZenonT(60) DEF switch_back, osFrame, queues, pool, lk
  <2>2. (QueuesConsistent /\ OwnerIsPastLock)'
    BY <2>1, SameStep, SMTT(20) DEF OsInv, OwnerIsPastLock
  <2>3. BackKeepsOnlyReaders'
    BY <1>4, BackFromOs
  <2>4. ~OsMode' /\ ~Running'
    BY <2>1 DEF OsMode, Running
  <2> QED
    BY <2>2, <2>3, <2>4, ZenonT(60) DEF OsInv, OneThreadEach
<1>5. CASE [Next]_vars /\ ~Running
  BY <1>2, <1>5, OsStops
<1> QED
  BY <1>1, <1>2, <1>3, <1>4, <1>5 DEF OsNext, Switched

(* OsInv holds of every program with the switch.                           *)
LEMMA OsInvariance ==
  OsSpec => []OsInv
<1>1. Init => OsInv
  <2>1. SUFFICES ASSUME Init
                 PROVE  OsInv
    OBVIOUS
  <2>2. IInv /\ HandlerCode /\ RunCounted /\ LockQueue
    BY <2>1, InitIInv, InitSwitch
  <2>3. hnd = "none" /\ owner = None
    BY <2>1 DEF Init, tmlib_init
  <2> QED
    BY <2>2, <2>3 DEF OsInv, RunInv, IInv, OwnerIsPastLock, OneThreadEach,
                      BackKeepsOnlyReaders, OsMode, BackMode
<1>2. OsInv /\ [OsNext]_vars => OsInv'
  BY OsStep
<1> QED
  BY <1>1, <1>2, PTL DEF OsSpec

(* switch_to_os_threading, called by any task in any state of any program, *)
(* starts exactly one thread for each live task other than the parent,     *)
(* with the exceptions OneThreadEach names.                                *)
THEOREM OneThreadEachAlways ==
  OsSpec => []OneThreadEach
<1>1. OsInv => OneThreadEach
  BY DEF OsInv
<1> QED
  BY <1>1, OsInvariance, PTL

(* A switch_back that returns leaves only the caller's thread and those of *)
(* tasks waiting for a descriptor.                                         *)
THEOREM BackAlwaysKeepsOnlyReaders ==
  OsSpec => []BackKeepsOnlyReaders
<1>1. OsInv => BackKeepsOnlyReaders
  BY DEF OsInv
<1> QED
  BY <1>1, OsInvariance, PTL

(* The lists and the lock's owner stay as consistent with the two switches *)
(* as without them.                                                        *)
THEOREM SwitchKeepsQueues ==
  OsSpec => [](QueuesConsistent /\ OwnerIsPastLock)
<1>1. OsInv => QueuesConsistent /\ OwnerIsPastLock
  BY DEF OsInv
<1> QED
  BY <1>1, OsInvariance, PTL
=============================================================================
