------------------------------ MODULE IoStream ------------------------------
(***************************************************************************)
(* Blocking reads of SFS tasks: tm_socket, tm_mq_open, tm_read,            *)
(* tm_recvfrom, tm_mq_receive and tm_select of core/iostream.c with        *)
(* io_interrupt and setup_io_interrupt of core/interrupt.c.  A read tries  *)
(* the descriptor and, with nothing to read, parks the task in wait_on_fd  *)
(* until SIGIO names the descriptor.                                       *)
(*                                                                         *)
(* Module Sfs has the queues this moves tasks between; here a task is in   *)
(* task code, in a call or parked, and any task not parked may run next (a *)
(* task in a system call that sleeps is preempted by the tick as any is).  *)
(* External, as the code relies on it: a descriptor keeps what arrives in  *)
(* order; SIGIO is not queued, so of the signals raised before one is      *)
(* delivered only the first is kept; mq_notify signals once, and only the  *)
(* arrival of a message on an empty queue.                                 *)
(***************************************************************************)
EXTENDS Integers, Sequences

CONSTANTS
  Task, None,
  Sock, Mq,   \* descriptors tm_socket and tm_mq_open return
  High,       \* those of Sock not below MAX_FDS; those of Mq all are
  Slice,      \* "usec" of tm_select: the caller's time slice
  TvSec,      \* seconds callers of tm_select give it
  MaxQ        \* bound: what the kernel keeps for a descriptor

Fd == Sock \cup Mq

ASSUME IoAssumption ==
  /\ Sock \cap Mq = {} /\ High \subseteq Sock /\ None \notin Fd
  /\ Slice \in Nat \ {0} /\ TvSec \subseteq Nat /\ MaxQ \in [Fd -> Nat \ {0}]

VARIABLES
  open,     \* descriptors the program has opened
  handler,  \* io_interrupt is installed for SIGIO
  async,    \* descriptors that do not block and have SIGIO raised
  queue,    \* what has arrived: "long" (over 40 bytes) or "short"
  sigio,    \* descriptor of a SIGIO raised and not delivered, or None
  pc,       \* of a task: "run", "tm_read", "tm_recvfrom", "tm_mq_receive",
            \* "tm_select", "wait" (about to call wait_on_fd) or "parked"
  call,     \* of a task: its call, the descriptor, and t->tv_sec of tm_select
  dead,     \* the process was killed
  missed    \* history: descriptors with an arrival no SIGIO told its reader of

vars == <<open, handler, async, queue, sigio, pc, call, dead, missed>>

NoCall == [op |-> "run", fd |-> None, sec |-> 0]
Read   == {"tm_read", "tm_recvfrom", "tm_mq_receive"}

Init ==
  /\ open = {} /\ handler = FALSE /\ async = {}
  /\ queue = [f \in Fd |-> <<>>]
  /\ sigio = None
  /\ pc = [t \in Task |-> "run"]
  /\ call = [t \in Task |-> NoCall]
  /\ dead = FALSE
  /\ missed = {}

Empty(f) == queue[f] = <<>>
On(t, l, f) == pc[t] = l /\ call[t].fd = f
Goto(t, l) == pc' = [pc EXCEPT ![t] = l]
Return(t) == Goto(t, "run") /\ call' = [call EXCEPT ![t] = NoCall]

-----------------------------------------------------------------------------
(* A descriptor not below MAX_FDS is refused and so left blocking. *)
setup_io_interrupt(f) ==
  IF f \in High THEN UNCHANGED <<handler, async>>
  ELSE handler' = TRUE /\ async' = async \cup {f}

(* The result of setup_io_interrupt is not looked at. *)
tm_socket(f) ==
  /\ ~dead /\ f \in Sock \ open
  /\ open' = open \cup {f}
  /\ setup_io_interrupt(f)
  /\ UNCHANGED <<queue, sigio, pc, call, dead, missed>>

(* One notification is asked for; no handler is installed. *)
setup_mq_notify(f) == async' = async \cup {f}

tm_mq_open(f) ==
  /\ ~dead /\ f \in Mq \ open
  /\ open' = open \cup {f}
  /\ setup_mq_notify(f)
  /\ UNCHANGED <<handler, queue, sigio, pc, call, dead, missed>>

-----------------------------------------------------------------------------
(* SIGIO.                                                                  *)

Raises(f) == f \in async /\ (f \in Mq => Empty(f))

Arrive(f, m) ==
  /\ ~dead /\ f \in open /\ Len(queue[f]) < MaxQ[f]
  /\ m = "short" => f \in Sock
  /\ queue' = [queue EXCEPT ![f] = Append(@, m)]
  /\ sigio' = IF Raises(f) /\ sigio = None THEN f ELSE sigio
  /\ async' = IF f \in Mq /\ Empty(f) THEN async \ {f} ELSE async
  /\ missed' = IF Empty(f) /\ f \notin {sigio, sigio'} THEN missed \cup {f} ELSE missed
  /\ UNCHANGED <<open, handler, pc, call, dead>>

(* Mutant: only one of the tasks that wait is woken. *)
WakeOneIoTask(f) ==
  IF \E t \in Task : On(t, "parked", f)
  THEN LET t == CHOOSE t \in Task : On(t, "parked", f) IN Goto(t, call[t].op)
  ELSE UNCHANGED pc

(* Every task that waits for f becomes runnable, to try again. *)
wake_io_task(f) ==
  pc' = [t \in Task |-> IF On(t, "parked", f) THEN call[t].op ELSE pc[t]]

(* Mutant: SIGIO stays blocked, and so pending, when the handler returns. *)
IoInterruptStaysBlocked ==
  /\ ~dead /\ sigio # None
  /\ dead' = ~handler
  /\ IF sigio \in Mq /\ handler THEN setup_mq_notify(sigio) ELSE UNCHANGED async
  /\ UNCHANGED <<sigio, pc, missed, open, handler, queue, call>>

(* SIGIO is delivered; by default it ends the process. *)
io_interrupt ==
  /\ ~dead /\ sigio # None
  /\ sigio' = None
  /\ dead' = ~handler
  /\ IF handler
     THEN /\ IF sigio \in Mq THEN setup_mq_notify(sigio) ELSE UNCHANGED async
          /\ wake_io_task(sigio)
     ELSE UNCHANGED <<async, pc>>
  /\ missed' = IF \E t \in Task : On(t, "wait", sigio)
               THEN missed \cup {sigio} ELSE missed \ {sigio}
  /\ UNCHANGED <<open, handler, queue, call>>

-----------------------------------------------------------------------------
(* Calls.                                                                  *)

Enter(t, op, f, sec) ==
  /\ ~dead /\ pc[t] = "run" /\ f \in open
  /\ op = "tm_mq_receive" <=> f \in Mq
  /\ Goto(t, op)
  /\ call' = [call EXCEPT ![t] = [op |-> op, fd |-> f, sec |-> sec]]
  /\ UNCHANGED <<open, handler, async, queue, sigio, dead, missed>>

(* The system call takes the first thing queued.  Then, if something stays *)
(* behind while its caller goes to wait, nothing will tell the caller.     *)
Take(f, waits) ==
  /\ queue' = [queue EXCEPT ![f] = Tail(@)]
  /\ missed' = IF Len(queue[f]) = 1 THEN missed \ {f}
               ELSE IF waits /\ sigio # f THEN missed \cup {f} ELSE missed

(* The system call fails: with a descriptor that blocks it does not. *)
Fails(t, f) == Empty(f) /\ (f \in Sock => f \in async) /\ Goto(t, "wait")

tm_read(t, f) ==
  /\ ~dead /\ On(t, "tm_read", f)
  /\ \/ ~Empty(f) /\ Take(f, FALSE) /\ Return(t)
     \/ Fails(t, f) /\ UNCHANGED <<queue, missed, call>>
  /\ UNCHANGED <<open, handler, async, sigio, dead>>

(* 40 bytes or fewer are dropped like a failure: the call waits, or tries  *)
(* again if errno is still EINTR from some earlier system call.            *)
tm_recvfrom(t, f) ==
  /\ ~dead /\ On(t, "tm_recvfrom", f)
  /\ \/ ~Empty(f) /\ Head(queue[f]) = "long" /\ Take(f, FALSE) /\ Return(t)
     \/ ~Empty(f) /\ Head(queue[f]) = "short" /\ Take(f, TRUE) /\ Goto(t, "wait")
        /\ UNCHANGED call
     \/ ~Empty(f) /\ Head(queue[f]) = "short" /\ Take(f, FALSE) /\ UNCHANGED <<pc, call>>
     \/ Fails(t, f) /\ UNCHANGED <<queue, missed, call>>
  /\ UNCHANGED <<open, handler, async, sigio, dead>>

tm_mq_receive(t, f) ==
  /\ ~dead /\ On(t, "tm_mq_receive", f)
  /\ \/ ~Empty(f) /\ Take(f, FALSE) /\ Return(t)
     \/ Fails(t, f) /\ UNCHANGED <<queue, missed, call>>
  /\ UNCHANGED <<open, handler, async, sigio, dead>>

(* Past the end of io_wait_task there is no list to link the task on. *)
wait_on_fd(t, f) ==
  /\ ~dead /\ On(t, "wait", f)
  /\ IF f \in High THEN dead' = TRUE /\ UNCHANGED pc ELSE Goto(t, "parked") /\ UNCHANGED dead
  /\ UNCHANGED <<open, handler, async, queue, sigio, call, missed>>

(* One round of tm_select: each slice of microseconds without a ready      *)
(* descriptor is taken off the seconds of the timeout, and only a timeout  *)
(* of exactly zero ends it.  Any negative value is one to the model, and   *)
(* callers give no microseconds (with some, only data ends the call).      *)
tm_select(t, f) ==
  /\ ~dead /\ On(t, "tm_select", f)
  /\ IF ~Empty(f) \/ call[t].sec = Slice THEN Return(t)
     ELSE /\ call' = [call EXCEPT ![t].sec = IF @ > Slice THEN @ - Slice ELSE -1]
          /\ UNCHANGED pc
  /\ UNCHANGED <<open, handler, async, queue, sigio, dead, missed>>

Step(t, f) ==
  \/ tm_read(t, f) \/ tm_recvfrom(t, f) \/ tm_mq_receive(t, f)
  \/ wait_on_fd(t, f) \/ tm_select(t, f)

Next ==
  \/ \E f \in Fd :
       \/ tm_socket(f) \/ tm_mq_open(f)
       \/ \E m \in {"long", "short"} : Arrive(f, m)
       \/ \E t \in Task :
            \/ \E op \in Read : Enter(t, op, f, 0)
            \/ f \in Sock /\ \E s \in TvSec : Enter(t, "tm_select", f, s)
            \/ Step(t, f)
  \/ io_interrupt

Spec == Init /\ [][Next]_vars

(* Signals are delivered and tasks run; and an assumption on the peers: a  *)
(* socket is sent to again and again, not only while a signal is pending.  *)
FairSpec ==
  /\ Spec
  /\ WF_vars(io_interrupt)
  /\ \A t \in Task : WF_vars(\E f \in Fd : Step(t, f))
  /\ \A f \in Sock \ High : SF_vars(sigio = None /\ Arrive(f, "long"))

-----------------------------------------------------------------------------
(* Properties.                                                             *)

(* A task is parked on a descriptor with something to read, and no SIGIO   *)
(* for it to come, only after one of four things: the SIGIO of an arrival  *)
(* was merged into one pending for another descriptor, or not raised since *)
(* the message queue's notification was used up; it was delivered between  *)
(* the failed read and wait_on_fd; or tm_recvfrom went to wait after a     *)
(* short datagram with others behind it.  Several tasks may wait at once.  *)
StrandedOnlyIfMissed ==
  \A t \in Task, f \in Fd :
    ~dead /\ On(t, "parked", f) /\ ~Empty(f) /\ sigio # f => f \in missed

(* No reader of a socket stays parked while its peer keeps sending, missed *)
(* or not: the next SIGIO wakes it, unless the socket's buffer is full.    *)
ParkedIsWoken ==
  \A t \in Task, f \in Sock \ High :
    On(t, "parked", f) ~> (~On(t, "parked", f) \/ Len(queue[f]) = MaxQ[f] \/ dead)

(* setup_mq_notify in io_interrupt is there so that the next message will  *)
(* be told of: a queue with a parked reader and no message is registered.  *)
MqStaysNotified ==
  \A t \in Task, f \in Mq :
    ~dead /\ On(t, "parked", f) /\ Empty(f) => f \in async

(* A tm_select with a timeout returns, whether or not data arrives. *)
SelectReturns ==
  \A t \in Task : pc[t] = "tm_select" ~> pc[t] # "tm_select" \/ dead
=============================================================================
