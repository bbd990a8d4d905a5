------------------------------- MODULE SfsOs -------------------------------
(***************************************************************************)
(* The switch of a running SFS program to OS threads and back              *)
(* (core/sched.c, core/switch_to_os.c).  switch_to_os_threading gives each *)
(* task a pthread that jumps into the task's saved context, and sends the  *)
(* calling OS thread to the parent's context; switch_back, called by the   *)
(* idle task, cancels the pthreads.                                        *)
(*                                                                         *)
(* Each of the two is one step: the threads already started are taken not  *)
(* to touch the queues before the loop that starts them has ended, and no  *)
(* task calls the library between the switch and the switch back.  thr     *)
(* counts the calls of create_os_thread, whose result nobody looks at.     *)
(***************************************************************************)
EXTENDS Sfs

CONSTANT Switchers   \* tasks whose code calls switch_to_os_threading

ASSUME SwitchersAssumption ==
  Switchers \subseteq User \cup {Main} /\ {"os", "back"} \cap Fd = {}

(* os_sched_enabled, and a switch_back that was made: from the switch on   *)
(* hnd keeps the CPU from task code and handlers alike.                    *)
OsMode   == hnd = "os"
BackMode == hnd = "back"

(* What both switches leave alone. *)
osFrame == <<queues, cpu, task_count, alive, crashed, pc, api, io, lk>>

OnFd(t) == \E f \in Fd : Linked(t, f)

One(b) == IF b THEN 1 ELSE 0

(* The threads a place that calls create_os_thread adds to those of a task *)
(* for which it is reached; the thread runs in the task's context.         *)
create_os_thread(reached) == One(reached)

(* Mutant: the task that calls is not left out of the run queues. *)
SwitchCallerTwice(t) ==
  /\ At(t, "run") /\ t \in Switchers
  /\ hnd' = "os"
  /\ thr' = [u \in Task |->
               create_os_thread(u = Idle /\ t # Idle)
               + create_os_thread(u # Main /\ Linked(u, WQ))
               + create_os_thread(u # Main /\ nrp # 0 /\ OnRunList(u))
               + create_os_thread(u \notin {t, Main} /\ OnFd(u))
               + create_os_thread(u = t)]
  /\ UNCHANGED osFrame

(* The loops over wq, rq and io_Q in turn, then the caller itself, which   *)
(* has a thread started on the context nsetjmp has just saved.  SIGALRM    *)
(* and SIGIO stay blocked in the OS thread that goes on as the parent.     *)
switch_to_os_threading(t) ==
  /\ At(t, "run") /\ t \in Switchers
  /\ hnd' = "os"
  /\ thr' = [u \in Task |->
               create_os_thread(u = Idle /\ t # Idle)
               + create_os_thread(u # Main /\ Linked(u, WQ))
               + create_os_thread(u \notin {t, Main} /\ nrp # 0 /\ OnRunList(u))
               + create_os_thread(u \notin {t, Main} /\ OnFd(u))
               + create_os_thread(u = t)]
  /\ UNCHANGED osFrame

(* Mutant: the threads of runnable tasks are left alone. *)
SwitchBackSparesRunnable ==
  /\ OsMode /\ ~crashed /\ hnd' = "back"
  /\ UNCHANGED osFrame
  /\ thr' = [u \in Task |-> IF u # current /\ (u = Idle \/ Linked(u, WQ))
                            THEN 0 ELSE thr[u]]

(* set_switch_back, seen by the idle task's thread.  The test of the loop  *)
(* over io_Q is inverted: with a task waiting on some descriptor the loop  *)
(* is not entered, and with none it walks a NULL list.                     *)
switch_back ==
  /\ OsMode /\ ~crashed
  /\ hnd' = "back"
  /\ IF \E f \in Fd : list[f] # <<>>
     THEN /\ thr' = [u \in Task |->
                       IF u # current /\ (u = Idle \/ Linked(u, WQ)
                                          \/ (nrp # 0 /\ OnRunList(u)))
                       THEN 0 ELSE thr[u]]
          /\ UNCHANGED osFrame
     ELSE /\ crashed' = TRUE
          /\ UNCHANGED <<queues, cpu, pool, pc, api, io, lk>>

Switched == BackMode /\ ~crashed /\ UNCHANGED vars

OsNext ==
  \/ Next
  \/ \E t \in Task : switch_to_os_threading(t)
  \/ switch_back
  \/ Switched

OsSpec == Init /\ [][OsNext]_vars

-----------------------------------------------------------------------------
(* After switch_to_os_threading each live task other than the parent has   *)
(* exactly one OS thread, wherever a wake-up, a wait or a signal handler   *)
(* had just linked it.  Three exceptions: tasks queued on a lock, whose    *)
(* list nobody walks, have none; a caller that a wake-up of itself left    *)
(* running while on the wait queue has two; the parent, which goes on in   *)
(* the original OS thread, gets another when it makes the call itself.     *)
OneThreadEach ==
  OsMode =>
    \A t \in Task :
      thr[t] = IF t = Main THEN One(current = Main)
               ELSE One(t \in alive /\ ~Linked(t, LKQ))
                    + One(t = current /\ Linked(t, WQ))

(* A switch_back that returns has cancelled the threads of all tasks but   *)
(* its caller's "current" and those that were waiting for a descriptor.    *)
BackKeepsOnlyReaders ==
  BackMode /\ ~crashed =>
    \A t \in Task : thr[t] > 0 => t = current \/ OnFd(t)
=============================================================================
