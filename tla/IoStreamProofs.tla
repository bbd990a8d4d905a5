--------------------------- MODULE IoStreamProofs ---------------------------
(***************************************************************************)
(* Proof about module IoStream: what can strand a reader, for any number   *)
(* of tasks, sockets and message queues.                                   *)
(***************************************************************************)
EXTENDS IoStream, SequenceTheorems, TLAPS

Op == Read \cup {"tm_select"}
CallRec == [op : Op \cup {"run"}, fd : Fd \cup {None}, sec : Int]

IoTypeOK ==
  /\ queue \in [Fd -> Seq({"long", "short"})]
  /\ sigio \in Fd \cup {None}
  /\ pc \in [Task -> Op \cup {"run", "wait", "parked"}]
  /\ call \in [Task -> CallRec]

(* A task in a call has its descriptor and the place to try again at. *)
InCall == \A t \in Task : pc[t] # "run" => call[t].op \in Op /\ call[t].fd \in Fd

(* StrandedOnlyIfMissed from the failed read on, not only once wait_on_fd  *)
(* has parked the task: between the two a SIGIO finds no task to wake.     *)
WaitsOn(t, f) == call[t].fd = f /\ pc[t] \in {"wait", "parked"}

WaitersTold ==
  \A t \in Task, f \in Fd :
    ~dead /\ WaitsOn(t, f) /\ ~Empty(f) /\ sigio # f => f \in missed

IoInv == IoTypeOK /\ InCall /\ WaitersTold

-----------------------------------------------------------------------------
(* Opening a descriptor touches neither tasks nor data.                    *)
LEMMA OpenKeeps ==
  ASSUME IoInv, UNCHANGED <<queue, sigio, pc, call, dead, missed>>
  PROVE  IoInv'
BY DEF IoInv, IoTypeOK, InCall, WaitersTold, WaitsOn, Empty

(* Data that comes to a descriptor with nothing to read is told of by the  *)
(* SIGIO that is pending, or is missed.                                    *)
LEMMA ArriveKeeps ==
  ASSUME IoInv, NEW f \in Fd, NEW m \in {"long", "short"}, Arrive(f, m)
  PROVE  IoInv'
<1>0. /\ IoTypeOK /\ InCall /\ None \notin Fd
      /\ queue' = [queue EXCEPT ![f] = Append(@, m)]
      /\ sigio' = IF Raises(f) /\ sigio = None THEN f ELSE sigio
      /\ missed' = IF Empty(f) /\ f \notin {sigio, sigio'} THEN missed \cup {f} ELSE missed
      /\ UNCHANGED <<pc, call, dead>>
  BY IoAssumption DEF IoInv, Arrive
<1>1. IoTypeOK' /\ InCall'
  BY <1>0 DEF IoTypeOK, InCall
<1>2. \A g \in Fd \ {f} : (Empty(g)' <=> Empty(g)) /\ (sigio # g <=> sigio' # g)
  BY <1>0 DEF IoTypeOK, Empty
<1>3. ~Empty(f) /\ sigio' # f => sigio # f
  BY <1>0
<1>4. missed \subseteq missed' /\ (Empty(f) /\ sigio' # f => f \in missed' \/ sigio = f)
  BY <1>0
<1>5. sigio = f => sigio' = f
  BY <1>0
<1>6. WaitersTold'
  <2>1. SUFFICES ASSUME NEW t \in Task, NEW g \in Fd, ~dead, WaitsOn(t, g), ~Empty(g)',
                        sigio' # g
                 PROVE  g \in missed'
    BY <1>0 DEF WaitersTold, WaitsOn
  <2>2. CASE g # f
    BY <1>2, <1>4, <2>1, <2>2 DEF IoInv, WaitersTold
  <2>3. CASE g = f /\ ~Empty(f)
    BY <1>3, <1>4, <2>1, <2>3 DEF IoInv, WaitersTold
  <2>4. CASE g = f /\ Empty(f)
    BY <1>4, <1>5, <2>1, <2>4
  <2> QED
    BY <2>2, <2>3, <2>4
<1> QED
  BY <1>1, <1>6 DEF IoInv

(* io_interrupt wakes the tasks parked on its descriptor; for one that is  *)
(* about to park there it comes too early.                                 *)
LEMMA InterruptKeeps ==
  ASSUME IoInv, io_interrupt
  PROVE  IoInv'
<1>0. IoTypeOK /\ InCall /\ WaitersTold /\ None \notin Fd /\ UNCHANGED <<queue, call>>
  BY IoAssumption DEF IoInv, io_interrupt
<1>1. sigio \in Fd /\ sigio' = None
  BY <1>0 DEF io_interrupt, IoTypeOK
<1>2. CASE ~handler
  <2>1. dead' /\ pc' = pc
    BY <1>2, Zenon DEF io_interrupt
  <2> QED
    BY <1>0, <1>1, <2>1 DEF IoInv, IoTypeOK, InCall, WaitersTold
<1>3. CASE handler
  <2>1. /\ pc' = [t \in Task |-> IF On(t, "parked", sigio) THEN call[t].op ELSE pc[t]]
        /\ ~dead /\ ~dead'
    BY <1>3, Zenon DEF io_interrupt, wake_io_task
  <2>2. IoTypeOK'
    BY <1>0, <1>1, <2>1 DEF IoTypeOK, CallRec
  <2>3. InCall'
    BY <1>0, <2>1 DEF InCall, On
  <2>4. WaitersTold'
    <3>1. SUFFICES ASSUME NEW t \in Task, NEW g \in Fd, WaitsOn(t, g)', ~Empty(g)
                   PROVE  g \in missed'
      BY <1>0 DEF WaitersTold, Empty
    <3>2. WaitsOn(t, g) /\ (g = sigio => On(t, "wait", sigio))
      BY <1>0, <2>1, <3>1 DEF WaitsOn, On, InCall, Op, Read
    <3>3. CASE g = sigio
      BY <3>2, <3>3 DEF io_interrupt
    <3>4. CASE g # sigio
      <4>1. g \in missed
        BY <1>0, <2>1, <3>1, <3>2, <3>4 DEF WaitersTold
      <4> QED
        BY <3>4, <4>1 DEF io_interrupt
    <3> QED
      BY <3>3, <3>4
  <2> QED
    BY <2>2, <2>3, <2>4 DEF IoInv
<1> QED
  BY <1>2, <1>3

(* A call is entered.                                                      *)
LEMMA EnterKeeps ==
  ASSUME IoInv, NEW t \in Task, NEW op \in Op, NEW f \in Fd, NEW sec \in Int,
         Enter(t, op, f, sec)
  PROVE  IoInv'
<1>0. /\ IoTypeOK /\ InCall /\ WaitersTold
      /\ pc' = [pc EXCEPT ![t] = op]
      /\ call' = [call EXCEPT ![t] = [op |-> op, fd |-> f, sec |-> sec]]
      /\ UNCHANGED <<queue, sigio, dead, missed>>
  BY DEF IoInv, Enter, Goto
<1>1. op \notin {"run", "wait", "parked"}
  BY DEF Op, Read
<1>2. IoTypeOK' /\ InCall'
  BY <1>0 DEF IoTypeOK, CallRec, InCall
<1>3. \A u \in Task, g \in Fd : WaitsOn(u, g)' => WaitsOn(u, g)
  BY <1>0, <1>1 DEF IoTypeOK, WaitsOn
<1>4. WaitersTold'
  BY <1>0, <1>3 DEF WaitersTold, Empty
<1> QED
  BY <1>2, <1>4 DEF IoInv

(* What a system call that takes something does to the descriptor.         *)
LEMMA TakeEffect ==
  ASSUME IoTypeOK, NEW f \in Fd, ~Empty(f), NEW w \in BOOLEAN, Take(f, w)
  PROVE  /\ queue' \in [Fd -> Seq({"long", "short"})]
         /\ \A g \in Fd \ {f} : Empty(g)' <=> Empty(g)
         /\ \A g \in Fd \ {f} : g \in missed => g \in missed'
         /\ Empty(f)' \/ (f \in missed => f \in missed')
         /\ Empty(f)' \/ (w /\ sigio # f => f \in missed')
<1>0. /\ queue[f] \in Seq({"long", "short"}) /\ queue[f] # <<>>
      /\ queue' = [queue EXCEPT ![f] = Tail(queue[f])]
      /\ queue \in [Fd -> Seq({"long", "short"})]
  BY DEF IoTypeOK, Empty, Take
<1>1. /\ Tail(queue[f]) \in Seq({"long", "short"})
      /\ Len(Tail(queue[f])) = Len(queue[f]) - 1 /\ Len(queue[f]) \in Nat
  BY <1>0, HeadTailProperties
<1>2. queue'[f] = Tail(queue[f])
  BY <1>0
<1>3. CASE Len(queue[f]) = 1
  <2>1. Empty(f)'
    <3>1. Len(Tail(queue[f])) = 0
      BY <1>1, <1>3
    <3>2. Tail(queue[f]) = <<>>
      BY <1>1, <3>1, EmptySeq, Zenon
    <3> QED
      BY <1>2, <3>2 DEF Empty
  <2>2. missed' = missed \ {f}
    BY <1>3 DEF Take
  <2> QED
    BY <1>0, <1>1, <2>1, <2>2 DEF Empty
<1>4. CASE Len(queue[f]) # 1
  <2>1. missed' = IF w /\ sigio # f THEN missed \cup {f} ELSE missed
    BY <1>4 DEF Take
  <2> QED
    BY <1>0, <1>1, <2>1 DEF Empty
<1> QED
  BY <1>3, <1>4

(* A step of a call either leaves the task's waiting alone, or sends it to *)
(* wait with nothing to read or something missed.                          *)
LEMMA StepKeeps ==
  ASSUME IoInv, NEW t \in Task, NEW f \in Fd, Step(t, f)
  PROVE  IoInv'
<1>0. IoTypeOK /\ InCall /\ WaitersTold /\ ~dead /\ sigio' = sigio
  BY Zenon DEF IoInv, Step, tm_read, tm_recvfrom, tm_mq_receive, wait_on_fd, tm_select
<1>t. /\ NoCall \in CallRec
      /\ \A s \in Int : [call[t] EXCEPT !.sec = s] \in CallRec
  <2>1. NoCall \in CallRec
    BY DEF NoCall, CallRec
  <2>2. call[t] \in CallRec
    BY <1>0 DEF IoTypeOK
  <2> QED
    BY <2>1, <2>2 DEF CallRec
<1>1. ASSUME NEW w \in BOOLEAN, ~Empty(f), Take(f, w), dead' = dead, call[t].fd = f,
             \/ Return(t)
             \/ w /\ Goto(t, "wait") /\ pc[t] # "run" /\ UNCHANGED call
             \/ UNCHANGED <<pc, call>>
      PROVE  IoInv'
  <2>1. IoTypeOK'
    <3>1. queue' \in [Fd -> Seq({"long", "short"})]
      BY <1>0, <1>1, TakeEffect
    <3>2. pc' \in [Task -> Op \cup {"run", "wait", "parked"}] /\ call' \in [Task -> CallRec]
      BY <1>0, <1>t, <1>1, Zenon DEF IoTypeOK, Return, Goto
    <3> QED
      BY <1>0, <3>1, <3>2 DEF IoTypeOK
  <2>2. InCall'
    BY <1>0, <1>1 DEF IoTypeOK, CallRec, InCall, Return, Goto, NoCall
  <2>3. \A u \in Task, g \in Fd : WaitsOn(u, g)' => WaitsOn(u, g) \/ (w /\ g = f)
    BY <1>0, <1>1, Zenon DEF IoTypeOK, WaitsOn, Return, Goto
  <2>4. WaitersTold'
    <3>1. SUFFICES ASSUME NEW u \in Task, NEW g \in Fd, WaitsOn(u, g)', ~Empty(g)', sigio # g
                   PROVE  g \in missed'
      BY <1>0 DEF WaitersTold
    <3>2. CASE g # f
      BY <1>0, <1>1, <2>3, <3>1, <3>2, TakeEffect DEF WaitersTold
    <3>3. CASE g = f
      BY <1>0, <1>1, <2>3, <3>1, <3>3, TakeEffect DEF WaitersTold
    <3> QED
      BY <3>2, <3>3
  <2> QED
    BY <2>1, <2>2, <2>4 DEF IoInv
<1>2. ASSUME UNCHANGED <<queue, missed>>, dead' = dead,
             \/ Goto(t, "wait") /\ Empty(f) /\ call[t].fd = f /\ pc[t] # "run"
                /\ UNCHANGED call
             \/ Goto(t, "parked") /\ pc[t] = "wait" /\ UNCHANGED call
             \/ Return(t)
             \/ /\ pc' = pc /\ \E s \in Int : call' = [call EXCEPT ![t].sec = s]
      PROVE  IoInv'
  <2>1. IoTypeOK'
    <3>1. pc' \in [Task -> Op \cup {"run", "wait", "parked"}]
      BY <1>0, <1>2 DEF IoTypeOK, Return, Goto
    <3>2. call' \in [Task -> CallRec]
      BY <1>0, <1>t, <1>2, Zenon DEF IoTypeOK, Return
    <3> QED
      BY <1>0, <1>2, <3>1, <3>2 DEF IoTypeOK
  <2>2. InCall'
    BY <1>0, <1>2, ZenonT(60) DEF IoTypeOK, CallRec, InCall, Return, Goto, NoCall
  <2>3. \A u \in Task, g \in Fd : WaitsOn(u, g)' => WaitsOn(u, g) \/ Empty(g)
    BY <1>0, <1>2 DEF IoTypeOK, CallRec, WaitsOn, Return, Goto
  <2>4. WaitersTold'
    BY <1>0, <1>2, <2>3 DEF WaitersTold, Empty
  <2> QED
    BY <2>1, <2>2, <2>4 DEF IoInv
<1>3. CASE tm_read(t, f) \/ tm_mq_receive(t, f)
  BY <1>1, <1>2, <1>3, Zenon DEF tm_read, tm_mq_receive, On, Fails
<1>4. CASE tm_recvfrom(t, f)
  BY <1>1, <1>2, <1>4, Zenon DEF tm_recvfrom, On, Fails
<1>5. CASE wait_on_fd(t, f)
  <2>1. CASE f \in High
    <3>1. dead' /\ UNCHANGED <<pc, call, queue, sigio>>
      BY <1>5, <2>1 DEF wait_on_fd
    <3> QED
      BY <1>0, <3>1 DEF IoInv, IoTypeOK, InCall, WaitersTold
  <2>2. CASE f \notin High
    BY <1>2, <1>5, <2>2 DEF wait_on_fd, On
  <2> QED
    BY <2>1, <2>2
<1>6. CASE tm_select(t, f)
  <2>1. UNCHANGED <<queue, missed, dead>>
    BY <1>6 DEF tm_select
  <2>2. CASE Return(t)
    BY <1>2, <2>1, <2>2
  <2>3. CASE ~Return(t)
    <3>1. pc' = pc /\ call' = [call EXCEPT ![t].sec = IF @ > Slice THEN @ - Slice ELSE -1]
      BY <1>6, <2>3 DEF tm_select
    <3>2. (IF call[t].sec > Slice THEN call[t].sec - Slice ELSE -1) \in Int
      BY <1>0, IoAssumption DEF IoTypeOK, CallRec
    <3> QED
      BY <1>2, <2>1, <3>1, <3>2, Zenon
  <2> QED
    BY <2>2, <2>3
<1> QED
  BY <1>3, <1>4, <1>5, <1>6 DEF Step

(* A reader that is parked, or about to park, on a descriptor with data    *)
(* and no SIGIO to come has been stranded by one of the four ways of       *)
(* StrandedOnlyIfMissed and by nothing else, however many tasks read and   *)
(* however signals and calls interleave.                                   *)
THEOREM StrandedAlwaysMissed ==
  Spec => []StrandedOnlyIfMissed
<1>1. Init => IoInv
  BY IoAssumption DEF Init, IoInv, IoTypeOK, CallRec, InCall, WaitersTold, WaitsOn, NoCall
<1>2. IoInv /\ [Next]_vars => IoInv'
  <2> SUFFICES ASSUME IoInv, [Next]_vars
               PROVE  IoInv'
    OBVIOUS
  <2>1. CASE \E f \in Fd : tm_socket(f) \/ tm_mq_open(f)
    BY <2>1, OpenKeeps DEF tm_socket, tm_mq_open
  <2>2. CASE \E f \in Fd, m \in {"long", "short"} : Arrive(f, m)
    BY <2>2, ArriveKeeps
  <2>3. CASE \E f \in Fd, t \in Task, op \in Read : Enter(t, op, f, 0)
    BY <2>3, EnterKeeps DEF Op
  <2>4. CASE \E f \in Fd, t \in Task, s \in TvSec : Enter(t, "tm_select", f, s)
    BY <2>4, EnterKeeps, IoAssumption DEF Op
  <2>5. CASE \E f \in Fd, t \in Task : Step(t, f)
    BY <2>5, StepKeeps
  <2>6. CASE io_interrupt
    BY <2>6, InterruptKeeps
  <2>7. CASE UNCHANGED vars
    BY <2>7, OpenKeeps DEF vars
  <2> QED
    BY <2>1, <2>2, <2>3, <2>4, <2>5, <2>6, <2>7 DEF Next
<1>3. IoInv => StrandedOnlyIfMissed
  BY DEF IoInv, WaitersTold, WaitsOn, StrandedOnlyIfMissed, On
<1> QED
  BY <1>1, <1>2, <1>3, PTL DEF Spec
=============================================================================
