------------------------------ MODULE SfsSched ------------------------------
(***************************************************************************)
(* The SFS scheduler kernel (core/sched.c with the signal masks of         *)
(* core/interrupt.c): run queues, wait queues, the immediate task and the  *)
(* functions every blocking call of the library is made of.                *)
(*                                                                         *)
(* One OS thread runs everything.  "current" owns the CPU, the others are  *)
(* saved jump buffers.  struct tsk has one list node "hd", so all lists a  *)
(* task can be linked on are one function here, indexed by list head:      *)
(*   0 .. MAX_PRIO-1   rq.hd[prio]                                         *)
(*   WQ                wq.hd                                               *)
(*   f \in Fd          io_Q.io_wait_task[f]                                *)
(*   LKQ               wq of the one lock_t modelled                       *)
(* The operators below are the bodies of the kernel functions; module Sfs  *)
(* combines them into the steps of tasks and interrupt handlers.           *)
(***************************************************************************)
EXTENDS Integers, Sequences, FiniteSets

CONSTANTS
  Task,       \* every struct tsk the program ever creates
  Idle,       \* the IDLE task
  Main,       \* the parent task: the program that called tmlib_init
  Sirq,       \* the SIRQ task (softirq_d)
  None,       \* the NULL pointer
  Fd,         \* file descriptors with an I/O wait queue
  WQ, LKQ,    \* heads of the wait queue and of the lock's queue
  MAX_PRIO,   \* number of run queues, 20 in the code
  BasePrio    \* attr.prio given at creation

User == Task \ {Idle, Main, Sirq}
Prio == 0 .. MAX_PRIO - 1
LowPrio == MAX_PRIO - 1
Chan == {WQ, LKQ} \cup Fd
ListId == Prio \cup Chan

ASSUME TaskAssumption ==
  /\ IsFiniteSet(Task)
  /\ {Idle, Main, Sirq} \subseteq Task
  /\ Idle # Main /\ Idle # Sirq /\ Main # Sirq
  /\ None \notin Task

ASSUME PrioAssumption ==
  /\ MAX_PRIO \in Nat /\ MAX_PRIO >= 3
  /\ BasePrio \in [Task -> Prio]
  /\ BasePrio[Main] = 1 /\ BasePrio[Sirq] = 1 /\ BasePrio[Idle] = LowPrio

ASSUME ChanAssumption ==
  /\ Prio \cap Chan = {}
  /\ WQ # LKQ /\ WQ \notin Fd /\ LKQ \notin Fd

VARIABLES
  list,         \* list head -> tasks linked on it, first entry first
  onrq,         \* tsk.onrq
  prio,         \* tsk.prio: BasePrio until the load balancer lowers it
  hot,          \* tasks with cpuusage above LOAD_THRESHOLD in their last turn
  nrp,          \* rq.nrp, "TASK in RUN Q"
  nwp,          \* wq.nwp, "TASK in WAIT Q"
  task_count,   \* tasks created with a start routine and not yet freed
  alive,        \* struct tsk objects allocated and not freed
  thr,          \* pthreads started for a task and not cancelled
  current,      \* the task that owns the CPU
  nxt_imm_task, \* task to run at the next schedule(), or None
  sched_need,   \* reschedule requested
  masked,       \* SIGALRM blocked by task code
  crashed       \* the process died of SIGSEGV

queues == <<list, onrq, nrp, nwp>>
cpu    == <<current, nxt_imm_task, sched_need, prio, hot, masked>>
pool   == <<task_count, alive, thr>>
kernel == <<queues, cpu, pool, crashed>>

-----------------------------------------------------------------------------
(* cmn/list.h.  list_del unlinks an entry from whichever list it is on.    *)
(* Contains and RemoveFirst mean what they mean in SequencesExt, which the *)
(* modules with proofs do not extend: its definitions slow the prover down *)
(* ten times.                                                              *)

Contains(s, e) == \E i \in 1 .. Len(s) : s[i] = e

RemoveFirst(s, e) ==
  IF Contains(s, e)
  THEN LET i == CHOOSE i \in 1 .. Len(s) :
                  s[i] = e /\ \A j \in 1 .. i - 1 : s[j] # e
       IN  SubSeq(s, 1, i - 1) \o SubSeq(s, i + 1, Len(s))
  ELSE s

list_del(L, t) == [l \in ListId |-> RemoveFirst(L[l], t)]
list_add(L, l, t) == [L EXCEPT ![l] = <<t>> \o L[l]]
list_add_tail(L, l, t) == [L EXCEPT ![l] = Append(L[l], t)]

Linked(t, l) == Contains(list[l], t)
OnRunList(t) == \E q \in Prio : Linked(t, q)

-----------------------------------------------------------------------------
(* Choosing the next task.                                                 *)

(* First entry of the first non-empty run queue. *)
FirstReady(q) ==
  /\ list[q] # <<>>
  /\ \A r \in Prio : r < q => list[r] = <<>>

(* Picks e.  A task taken from a run list goes to the tail of the list of  *)
(* its present priority, unless it already is the current task.            *)
next_task_ready_to_run(e) ==
  \E q \in Prio :
    /\ FirstReady(q)
    /\ e = Head(list[q])
    /\ list' = IF e = current THEN list
               ELSE list_add_tail(list_del(list, e), prio[e], e)

(* Mutant: the immediate task is not forgotten when it is picked. *)
EligibleKeepsImmediate(e) ==
  \/ nrp = 0 /\ e = Idle /\ UNCHANGED <<list, nxt_imm_task>>
  \/ nrp # 0 /\ nxt_imm_task # None /\ e = nxt_imm_task /\ UNCHANGED <<list, nxt_imm_task>>
  \/ nrp # 0 /\ nxt_imm_task = None /\ next_task_ready_to_run(e) /\ UNCHANGED nxt_imm_task

(* The immediate task goes first and is forgotten unless it is current;    *)
(* with no task counted runnable the CPU goes to idle.                     *)
get_next_eligible_task_to_run(e) ==
  \/ /\ nrp = 0
     /\ e = Idle
     /\ UNCHANGED <<list, nxt_imm_task>>
  \/ /\ nrp # 0 /\ nxt_imm_task # None
     /\ e = nxt_imm_task
     /\ nxt_imm_task' = IF current = nxt_imm_task THEN nxt_imm_task ELSE None
     /\ UNCHANGED list
  \/ /\ nrp # 0 /\ nxt_imm_task = None
     /\ next_task_ready_to_run(e)
     /\ UNCHANGED nxt_imm_task

(* Tasks are counted runnable but no run list holds one: the pick is NULL. *)
PicksNull ==
  nrp # 0 /\ nxt_imm_task = None /\ \A q \in Prio : list[q] = <<>>

(* The immediate task has been freed: its jump buffer is gone. *)
PicksFreed == nrp # 0 /\ nxt_imm_task # None /\ nxt_imm_task \notin alive

get_load_on_system == (nrp * 100) \div task_count
LOAD_THRESHOLD == 40

(* When the load is high a task that used much of its last slice gets the  *)
(* lowest priority for good; it stays on the list it is linked on.  Its    *)
(* new turn starts with nothing used.                                      *)
calculate_time_slice(e) ==
  /\ prio' = IF e # Idle /\ get_load_on_system > LOAD_THRESHOLD /\ e \in hot
             THEN [prio EXCEPT ![e] = LowPrio] ELSE prio
  /\ hot' = hot \ {e}

(* schedule() up to the point where the calling task goes on: at once when *)
(* the pick is current, else when some later schedule() picks it again.    *)
(* context_switch unblocks SIGALRM.                                        *)
schedule ==
  \/ /\ PicksNull \/ PicksFreed
     /\ crashed' = TRUE
     /\ UNCHANGED <<list, cpu>>
  \/ /\ ~PicksNull /\ ~PicksFreed
     /\ sched_need' = FALSE
     /\ \E e \in Task :
          /\ get_next_eligible_task_to_run(e)
          /\ IF e = current THEN UNCHANGED <<current, prio, hot, masked>>
             ELSE /\ calculate_time_slice(e)
                  /\ current' = e
                  /\ masked' = FALSE
     /\ UNCHANGED crashed

-----------------------------------------------------------------------------
(* What a tick finds current to have used of its time slice.  The lengths  *)
(* of slices are not modelled: any tick may find any share used, except    *)
(* that IDLE has a slice of 0.                                             *)
Usage == {"low", "high", "all"}

account_task_time_stats(used) ==
  /\ current = Idle => used = "all"
  /\ hot' = IF used = "low" THEN hot ELSE hot \cup ({current} \ {Idle})

-----------------------------------------------------------------------------
(* Blocking and waking.                                                    *)

(* Mutant: rq.nrp is not decremented. *)
WaitQNotUncounted(t) ==
  IF onrq[t]
  THEN /\ list' = list_add_tail(list_del(list, t), WQ, t)
       /\ onrq' = [onrq EXCEPT ![t] = FALSE]
       /\ nwp' = nwp + 1
       /\ UNCHANGED nrp
  ELSE UNCHANGED queues

(* A task that is not on the run queue only gets a "BUG" line printed. *)
add_task_to_wait_Q(t) ==
  IF onrq[t]
  THEN /\ list' = list_add_tail(list_del(list, t), WQ, t)
       /\ onrq' = [onrq EXCEPT ![t] = FALSE]
       /\ nrp' = nrp - 1
       /\ nwp' = nwp + 1
  ELSE UNCHANGED queues

(* Mutant: linked on the descriptor's queue without being unlinked first. *)
WaitOnFdNotUnlinked(t, f) ==
  /\ list' = list_add_tail(list, f, t)
  /\ onrq' = [onrq EXCEPT ![t] = FALSE]
  /\ nrp' = nrp - 1
  /\ nwp' = nwp + 1

(* wait_on_fd before its schedule(): no test of onrq. *)
wait_on_fd(t, f) ==
  /\ list' = list_add_tail(list_del(list, t), f, t)
  /\ onrq' = [onrq EXCEPT ![t] = FALSE]
  /\ nrp' = nrp - 1
  /\ nwp' = nwp + 1

set_task_not_rq(t) ==
  /\ onrq' = [onrq EXCEPT ![t] = FALSE]
  /\ nwp' = nwp + 1

(* Mutant: no test of onrq, so a runnable task is counted again. *)
MoveAlways(p) ==
  /\ list' = list_add(list_del(list, p), prio[p], p)
  /\ onrq' = [onrq EXCEPT ![p] = TRUE]
  /\ nrp' = nrp + 1
  /\ nwp' = nwp - 1

(* Mutant: the woken task is not counted. *)
MoveNotCounted(p) ==
  IF onrq[p]
  THEN UNCHANGED queues
  ELSE /\ list' = list_add(list_del(list, p), prio[p], p)
       /\ onrq' = [onrq EXCEPT ![p] = TRUE]
       /\ nwp' = nwp - 1
       /\ UNCHANGED nrp

(* The queue part of wakeup_task; a runnable task stays where it is. *)
MoveToRunQ(p) ==
  IF onrq[p]
  THEN UNCHANGED queues
  ELSE /\ list' = list_add(list_del(list, p), prio[p], p)
       /\ onrq' = [onrq EXCEPT ![p] = TRUE]
       /\ nrp' = nrp + 1
       /\ nwp' = nwp - 1

(* The woken task becomes the immediate one unless a task of the same or a *)
(* better priority already is.                                             *)
BecomeImmediate(p) ==
  nxt_imm_task' = IF nxt_imm_task = None THEN p
                  ELSE IF prio[nxt_imm_task] > prio[p] THEN p
                  ELSE nxt_imm_task

wakeup_task(p) ==
  /\ MoveToRunQ(p)
  /\ sched_need' = (sched_need \/ prio[current] > prio[p])
  /\ BecomeImmediate(p)

wakeup_new_task(p) ==
  /\ list' = list_add_tail(list, prio[p], p)
  /\ onrq' = [onrq EXCEPT ![p] = TRUE]
  /\ nrp' = nrp + 1
  /\ sched_need' = (sched_need \/ prio[current] > prio[p])
  /\ BecomeImmediate(p)

(* Unlinks and frees p.  The counters nrp and nwp and the pointer          *)
(* nxt_imm_task are left alone; the freed memory was cleared first.        *)
task_exit(p) ==
  /\ list' = list_del(list, p)
  /\ alive' = alive \ {p}
  /\ prio' = [prio EXCEPT ![p] = 0]
  /\ onrq' = [onrq EXCEPT ![p] = FALSE]
  /\ task_count' = task_count - 1
  /\ UNCHANGED <<nrp, nwp>>

(* find_task searches the I/O queues, the wait queue and, when nrp is not  *)
(* 0, the run queues.  Lock queues are not searched.                       *)
find_task(t) ==
  \/ \E l \in Fd \cup {WQ} : Linked(t, l)
  \/ nrp # 0 /\ OnRunList(t)

-----------------------------------------------------------------------------
(* The state tmlib_init leaves: Main runs without being linked anywhere,   *)
(* IDLE was unlinked after its spawn, SIRQ is ready.  The nrp that the     *)
(* spawn of IDLE counted stands for Main.                                  *)
tmlib_init ==
  /\ list = [l \in ListId |-> IF l = BasePrio[Sirq] THEN <<Sirq>> ELSE <<>>]
  /\ onrq = [t \in Task |-> t \in {Idle, Main, Sirq}]
  /\ prio = BasePrio
  /\ hot = {}
  /\ nrp = 2
  /\ nwp = 0
  /\ task_count = 2
  /\ alive = {Idle, Main, Sirq}
  /\ thr = [t \in Task |-> 0]
  /\ current = Main
  /\ nxt_imm_task = Sirq
  /\ sched_need = FALSE
  /\ masked = FALSE
  /\ crashed = FALSE
=============================================================================
