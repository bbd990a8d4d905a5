------------------------------ MODULE MsgQueue ------------------------------
(***************************************************************************)
(* Message queues of the NORMAL build (core/msg_queue.c): threads create   *)
(* queues, and threads that were given a queue send to it and receive      *)
(* from it.                                                                *)
(*                                                                         *)
(* msg_send and the parts of msg_rcv between two waits hold q_mtx          *)
(* throughout, so each of them is one step.  msg_create_Q takes no lock:   *)
(* it is one step per access to the array of queues.                       *)
(***************************************************************************)
EXTENDS Integers, Sequences, FiniteSets

CONSTANTS
  Creator,     \* threads that call msg_create_Q
  Sender, Receiver,
  Owner,       \* the creator whose queue a sender or receiver uses
  Msg,
  MAX_MSG_Q,
  NBlks,       \* blocks of a queue's pool: sizeof (struct msg), for any maxmsg
  MaxSend      \* bound: messages a queue accepts

ASSUME QueueAssumption ==
  /\ Owner \in [Sender \cup Receiver -> Creator]
  /\ IsFiniteSet(Receiver)
  /\ MAX_MSG_Q \in Nat \ {0} /\ NBlks \in Nat \ {0} /\ MaxSend \in Nat

Qid == 0 .. MAX_MSG_Q - 1
NoQ == -1

VARIABLES
  active,      \* Queue[q].flags is MQ_ACTIVE
  fblks,       \* free blocks of the pool of Queue[q]
  msg_list,    \* Queue[q].msg_list
  cr,          \* creator: pc, and qid
  at,          \* receiver: out of msg_rcv, waiting on q_cnd, or woken
  sent, rcvd,  \* history: messages queued and handed out
  shared       \* history: queues two overlapping msg_create_Q both took

create == <<active, cr, shared>>
traffic == <<msg_list, at, sent, rcvd>>
vars == <<create, fblks, traffic>>

(* msg_Q_init. *)
Init ==
  /\ active = {} /\ shared = {}
  /\ fblks = [q \in Qid |-> 0]
  /\ msg_list = [q \in Qid |-> <<>>]
  /\ cr = [c \in Creator |-> [pc |-> "call", qid |-> NoQ]]
  /\ at = [r \in Receiver |-> "out"]
  /\ sent = [q \in Qid |-> <<>>] /\ rcvd = [q \in Qid |-> <<>>]

-----------------------------------------------------------------------------
(* msg_create_Q.                                                           *)

Taking(q) == {c \in Creator : cr[c].qid = q /\ cr[c].pc \in {"pool", "fill"}}

(* Mutant: a queue in use is handed out again. *)
GetQidAny(c) ==
  /\ cr[c].pc = "call"
  /\ \E q \in Qid :
       /\ \A i \in Qid : i <= q
       /\ cr' = [cr EXCEPT ![c] = [pc |-> "pool", qid |-> q]]
       /\ shared' = IF Taking(q) = {} THEN shared ELSE shared \cup {q}
  /\ UNCHANGED <<active, fblks, traffic>>

(* The last queue that is MQ_FREE, or none. *)
get_qid(c) ==
  /\ cr[c].pc = "call"
  /\ \/ /\ Qid \subseteq active
        /\ cr' = [cr EXCEPT ![c].pc = "failed"]
        /\ UNCHANGED shared
     \/ \E q \in Qid \ active :
          /\ \A i \in Qid \ active : i <= q
          /\ cr' = [cr EXCEPT ![c] = [pc |-> "pool", qid |-> q]]
          /\ shared' = IF Taking(q) = {} THEN shared ELSE shared \cup {q}
  /\ UNCHANGED <<active, fblks, traffic>>

(* mem_pool_create, which may fail. *)
CreatePool(c) ==
  /\ cr[c].pc = "pool"
  /\ \/ /\ fblks' = [fblks EXCEPT ![cr[c].qid] = NBlks]
        /\ cr' = [cr EXCEPT ![c].pc = "fill"]
     \/ /\ cr' = [cr EXCEPT ![c] = [pc |-> "failed", qid |-> NoQ]]
        /\ UNCHANGED fblks
  /\ UNCHANGED <<active, traffic, shared>>

(* The queue is marked MQ_ACTIVE, and its mutex and condition initialised. *)
Activate(c) ==
  /\ cr[c].pc = "fill"
  /\ active' = active \cup {cr[c].qid}
  /\ cr' = [cr EXCEPT ![c].pc = "done"]
  /\ UNCHANGED <<fblks, traffic, shared>>

msg_create_Q(c) == get_qid(c) \/ CreatePool(c) \/ Activate(c)

-----------------------------------------------------------------------------
(* msg_send and msg_rcv.  Two creators of one queue initialise its mutex   *)
(* while it is in use and swap its pool: nothing is modelled beyond that.  *)

QOf(t) == cr[Owner[t]].qid
Ready(t) == cr[Owner[t]].pc = "done" /\ QOf(t) \notin shared

On(q, l) == {r \in Receiver : Ready(r) /\ QOf(r) = q /\ at[r] = l}

(* Mutant: nobody is woken. *)
SignalLost(q) == UNCHANGED at

(* pthread_cond_signal. *)
Signal(q) ==
  \/ \E r \in On(q, "waiting") : at' = [at EXCEPT ![r] = "woken"]
  \/ On(q, "waiting") = {} /\ UNCHANGED at

(* Mutant: list_add in place of list_add_tail. *)
EnqueueAtHead(q, m) ==
  \/ /\ fblks[q] > 0
     /\ fblks' = [fblks EXCEPT ![q] = @ - 1]
     /\ msg_list' = [msg_list EXCEPT ![q] = <<m>> \o @]
     /\ sent' = [sent EXCEPT ![q] = Append(@, m)]
  \/ fblks[q] = 0 /\ UNCHANGED <<fblks, msg_list, sent>>

(* A message there is no block for is dropped; the caller is not told. *)
Enqueue(q, m) ==
  \/ /\ fblks[q] > 0
     /\ fblks' = [fblks EXCEPT ![q] = @ - 1]
     /\ msg_list' = [msg_list EXCEPT ![q] = Append(@, m)]
     /\ sent' = [sent EXCEPT ![q] = Append(@, m)]
  \/ fblks[q] = 0 /\ UNCHANGED <<fblks, msg_list, sent>>

(* Mutant: only the message that ends the empty state is signalled. *)
MsgSendOnEmpty(t, m) ==
  /\ Ready(t) /\ Len(sent[QOf(t)]) < MaxSend
  /\ Enqueue(QOf(t), m)
  /\ IF msg_list[QOf(t)] = <<>> THEN Signal(QOf(t)) ELSE UNCHANGED at
  /\ UNCHANGED <<create, rcvd>>

msg_send(t, m) ==
  /\ Ready(t) /\ Len(sent[QOf(t)]) < MaxSend
  /\ Enqueue(QOf(t), m)
  /\ Signal(QOf(t))
  /\ UNCHANGED <<create, rcvd>>

(* Mutant: the block is not given back. *)
DequeueLeaks(q) ==
  /\ rcvd' = [rcvd EXCEPT ![q] = Append(@, Head(msg_list[q]))]
  /\ msg_list' = [msg_list EXCEPT ![q] = Tail(@)]
  /\ UNCHANGED fblks

(* The first message is unlinked and its block given back. *)
Dequeue(q) ==
  /\ rcvd' = [rcvd EXCEPT ![q] = Append(@, Head(msg_list[q]))]
  /\ msg_list' = [msg_list EXCEPT ![q] = Tail(@)]
  /\ fblks' = [fblks EXCEPT ![q] = @ + 1]

(* One turn of the loop of msg_rcv, on the call or after a wait.           *)
msg_rcv(r) ==
  /\ Ready(r) /\ at[r] \in {"out", "woken"}
  /\ \/ /\ msg_list[QOf(r)] # <<>>
        /\ Dequeue(QOf(r))
        /\ at' = [at EXCEPT ![r] = "out"]
     \/ /\ msg_list[QOf(r)] = <<>>
        /\ at' = [at EXCEPT ![r] = "waiting"]
        /\ UNCHANGED <<msg_list, rcvd, fblks>>
  /\ UNCHANGED <<create, sent>>

(* pthread_cond_wait may return without a signal. *)
SpuriousWakeup(r) ==
  /\ Ready(r) /\ at[r] = "waiting"
  /\ at' = [at EXCEPT ![r] = "woken"]
  /\ UNCHANGED <<create, fblks, msg_list, sent, rcvd>>

Next ==
  \/ \E c \in Creator : msg_create_Q(c)
  \/ \E t \in Sender, m \in Msg : msg_send(t, m)
  \/ \E r \in Receiver : msg_rcv(r) \/ SpuriousWakeup(r)

Spec == Init /\ [][Next]_vars

(* Threads are scheduled by the OS, and receivers call msg_rcv in a loop.  *)
FairSpec == Spec /\ \A r \in Receiver : WF_vars(msg_rcv(r))

-----------------------------------------------------------------------------
(* Properties.                                                             *)

TypeOK ==
  /\ active \subseteq Qid /\ shared \subseteq Qid
  /\ fblks \in [Qid -> 0 .. NBlks]
  /\ cr \in [Creator -> [pc : {"call", "pool", "fill", "done", "failed"},
                         qid : Qid \cup {NoQ}]]
  /\ at \in [Receiver -> {"out", "waiting", "woken"}]
  /\ msg_list \in [Qid -> Seq(Msg)]
  /\ sent \in [Qid -> Seq(Msg)] /\ rcvd \in [Qid -> Seq(Msg)]

(* msg_create_Q returns one queue to two threads only when the two calls   *)
(* overlapped: MQ_ACTIVE is set long after get_qid looked for MQ_FREE.     *)
DistinctQueues ==
  \A c, d \in Creator :
    c # d /\ cr[c].pc = "done" /\ cr[d].pc = "done" /\ cr[c].qid = cr[d].qid
      => cr[c].qid \in shared

(* What msg_rcv handed out, and what waits in msg_list, is what msg_send   *)
(* queued, in that order: none is lost, repeated or overtaken.             *)
InOrder == \A q \in Qid : sent[q] = rcvd[q] \o msg_list[q]

(* Every block of a queue's pool is free or carries a message, so a queue  *)
(* never holds more than NBlks messages and no block leaks.                *)
BlocksAccounted ==
  \A q \in active \ shared : fblks[q] + Len(msg_list[q]) = NBlks

(* msg_send never loses a wakeup: while a receiver waits, each message in  *)
(* the queue has a woken receiver on its way to it.                        *)
NoLostWakeup ==
  \A q \in Qid :
    On(q, "waiting") # {} => Len(msg_list[q]) <= Cardinality(On(q, "woken"))

(* msg_send and msg_rcv implement bounded FIFO queues. *)
Abstract == INSTANCE Fifo WITH items <- msg_list, Queue <- Qid, N <- NBlks
QueueIsFifo == Abstract!Spec

(* A queued message is handed out in the end when somebody receives. *)
EveryMessageReceived ==
  \A q \in Qid : \A i \in 1 .. MaxSend :
    Len(sent[q]) >= i /\ (\E r \in Receiver : Ready(r) /\ QOf(r) = q)
      ~> Len(rcvd[q]) >= i \/ q \in shared
=============================================================================
