--------------------------- MODULE MsgQueueProofs ---------------------------
(***************************************************************************)
(* Proofs about MsgQueue, for any number of creators, senders, receivers,  *)
(* queues and blocks.                                                      *)
(***************************************************************************)
EXTENDS MsgQueue, FiniteSetTheorems, TLAPS

(* A creator between get_qid and its return has a queue that is not in use *)
(* yet, unless it is shared; only overlapping calls share one.             *)
CreateInv ==
  /\ \A c \in Creator :
       /\ cr[c].pc \in {"pool", "fill", "done"} => cr[c].qid \in Qid
       /\ cr[c].pc = "done" => cr[c].qid \in active
       /\ cr[c].pc \in {"pool", "fill"} => cr[c].qid \in shared \/ cr[c].qid \notin active
       /\ cr[c].pc = "fill" /\ cr[c].qid \notin shared => fblks[cr[c].qid] = NBlks
  /\ \A c, d \in Creator :
       /\ c # d /\ cr[c].qid = cr[d].qid
       /\ {cr[c].pc, cr[d].pc} \subseteq {"pool", "fill", "done"}
       => cr[c].qid \in shared

(* No message is in a queue before it is active, no receiver inside        *)
(* msg_rcv before its creator has returned.                                *)
UseInv ==
  /\ \A q \in Qid \ active : msg_list[q] = <<>>
  /\ \A r \in Receiver : at[r] # "out" => cr[Owner[r]].pc = "done"

IInv ==
  /\ TypeOK /\ CreateInv /\ UseInv
  /\ InOrder /\ BlocksAccounted /\ NoLostWakeup

-----------------------------------------------------------------------------
(* Sequences.                                                              *)

(* Moving the head of the list to the received messages keeps the history. *)
LEMMA MoveHead ==
  ASSUME NEW S, NEW r \in Seq(S), NEW l \in Seq(S), l # <<>>
  PROVE  /\ r \o l = Append(r, Head(l)) \o Tail(l)
         /\ Head(l) \in S /\ Tail(l) \in Seq(S)
         /\ Len(l) \in Nat /\ Len(l) > 0 /\ Len(Tail(l)) = Len(l) - 1
  OBVIOUS

-----------------------------------------------------------------------------
(* Receivers of a queue in one state of msg_rcv form a finite set. *)
LEMMA OnFinite ==
  ASSUME NEW q, NEW l
  PROVE  IsFiniteSet(On(q, l)) /\ Cardinality(On(q, l)) \in Nat
  <1>1. IsFiniteSet(On(q, l))
    BY QueueAssumption, FS_Subset DEF On
  <1> QED
    BY <1>1, FS_CardinalityType

(* A thread whose creator has returned uses an active queue. *)
LEMMA ReadyQueue ==
  ASSUME TypeOK, CreateInv, NEW t \in Sender \cup Receiver, Ready(t)
  PROVE  QOf(t) \in active \ shared /\ QOf(t) \in Qid
  BY QueueAssumption DEF Ready, QOf, CreateInv, TypeOK

-----------------------------------------------------------------------------
(* Init and the steps.                                                     *)

LEMMA InitIInv == Init => IInv
  <1> SUFFICES ASSUME Init PROVE IInv
    OBVIOUS
  <1> USE QueueAssumption
  <1>1. TypeOK
    BY DEF Init, TypeOK, NoQ
  <1>2. CreateInv /\ UseInv
    BY DEF Init, CreateInv, UseInv
  <1>3. InOrder
    BY DEF Init, InOrder
  <1>4. BlocksAccounted
    BY DEF Init, BlocksAccounted
  <1>5. \A q \in Qid : On(q, "waiting") = {}
    BY DEF Init, On
  <1>6. NoLostWakeup
    BY <1>5 DEF NoLostWakeup
  <1> QED
    BY <1>1, <1>2, <1>3, <1>4, <1>6 DEF IInv

(* A step of msg_create_Q leaves every receiver that is inside msg_rcv     *)
(* where it is, or takes its queue out of consideration.                   *)
LEMMA CreateOn ==
  ASSUME IInv, NEW c \in Creator, msg_create_Q(c), NEW q \in Qid
  PROVE  \/ On(q, "waiting")' = {}
         \/ /\ On(q, "waiting")' = On(q, "waiting")
            /\ On(q, "woken")' = On(q, "woken")
  <1> USE QueueAssumption
  <1>1. at' = at /\ shared \subseteq shared'
    BY DEF msg_create_Q, get_qid, CreatePool, Activate, traffic
  <1>2. CASE q \in shared'
    BY <1>2 DEF On, Ready, QOf
  <1>3. CASE q \notin shared'
    <2>1. \A d \in Creator \ {c} : cr'[d] = cr[d]
      BY DEF msg_create_Q, get_qid, CreatePool, Activate, IInv, TypeOK
    <2>2. cr[c].pc # "done"
      BY DEF msg_create_Q, get_qid, CreatePool, Activate
    <2>3. \A r \in Receiver : Owner[r] = c => at[r] = "out"
      BY <2>2 DEF IInv, UseInv
    <2>4. ASSUME NEW l \in {"waiting", "woken"}
          PROVE  On(q, l)' = On(q, l)
      <3>1. ASSUME NEW r \in Receiver
            PROVE  (Ready(r) /\ QOf(r) = q /\ at[r] = l)'
                     <=> Ready(r) /\ QOf(r) = q /\ at[r] = l
        <4>1. CASE Owner[r] = c
          BY <4>1, <2>3, <1>1
        <4>2. CASE Owner[r] # c
          BY <4>2, <2>1, <1>1, <1>3 DEF Ready, QOf
        <4> QED
          BY <4>1, <4>2
      <3> QED
        BY <3>1 DEF On
    <2> QED
      BY <2>4
  <1> QED
    BY <1>2, <1>3

LEMMA CreateStep ==
  ASSUME IInv, NEW c \in Creator, msg_create_Q(c)
  PROVE  IInv'
  <1> USE QueueAssumption
  <1>0. /\ TypeOK /\ CreateInv /\ UseInv /\ BlocksAccounted
        /\ cr[c] \in [pc : {"call", "pool", "fill", "done", "failed"}, qid : Qid \cup {NoQ}]
        /\ NoQ \notin Qid
    <2>1. TypeOK /\ CreateInv /\ UseInv /\ BlocksAccounted
      BY DEF IInv
    <2>2. cr[c] \in [pc : {"call", "pool", "fill", "done", "failed"}, qid : Qid \cup {NoQ}]
      BY <2>1 DEF TypeOK
    <2>3. NoQ \notin Qid
      BY DEF NoQ, Qid
    <2> QED
      BY <2>1, <2>2, <2>3
  <1>1. TypeOK'
    <2>1. CASE get_qid(c)
      <3>1. cr' \in [Creator -> [pc : {"call", "pool", "fill", "done", "failed"},
                                qid : Qid \cup {NoQ}]]
        <4>1. CASE cr' = [cr EXCEPT ![c].pc = "failed"]
          BY <1>0, <4>1, Zenon DEF TypeOK
        <4>2. ASSUME NEW q \in Qid, cr' = [cr EXCEPT ![c] = [pc |-> "pool", qid |-> q]]
              PROVE  cr' \in [Creator -> [pc : {"call", "pool", "fill", "done", "failed"},
                                         qid : Qid \cup {NoQ}]]
          BY <1>0, <4>2 DEF TypeOK
        <4> QED
          BY <2>1, <4>1, <4>2 DEF get_qid
      <3>2. shared' \subseteq Qid
        BY <1>0, <2>1 DEF TypeOK, get_qid
      <3> QED
        BY <1>0, <2>1, <3>1, <3>2, Zenon DEF TypeOK, get_qid, traffic
    <2>2. CASE CreatePool(c)
      <3>1. cr' \in [Creator -> [pc : {"call", "pool", "fill", "done", "failed"},
                                qid : Qid \cup {NoQ}]]
        <4>1. CASE cr' = [cr EXCEPT ![c].pc = "fill"]
          BY <1>0, <4>1, Zenon DEF TypeOK
        <4>2. CASE cr' = [cr EXCEPT ![c] = [pc |-> "failed", qid |-> NoQ]]
          BY <1>0, <4>2 DEF TypeOK
        <4> QED
          BY <2>2, <4>1, <4>2 DEF CreatePool
      <3>2. fblks' \in [Qid -> 0 .. NBlks]
        <4>1. NBlks \in 0 .. NBlks
          OBVIOUS
        <4>2. fblks \in [Qid -> 0 .. NBlks]
          BY <1>0 DEF TypeOK
        <4>3. fblks' = fblks \/ fblks' = [fblks EXCEPT ![cr[c].qid] = NBlks]
          BY <2>2, Zenon DEF CreatePool
        <4> QED
          BY <4>1, <4>2, <4>3
      <3> QED
        BY <1>0, <2>2, <3>1, <3>2, Zenon DEF TypeOK, CreatePool, traffic
    <2>3. CASE Activate(c)
      <3>1. cr' \in [Creator -> [pc : {"call", "pool", "fill", "done", "failed"},
                                qid : Qid \cup {NoQ}]]
        BY <1>0, <2>3, Zenon DEF TypeOK, Activate
      <3> QED
        BY <1>0, <2>3, <3>1 DEF TypeOK, Activate, traffic, CreateInv
    <2> QED
      BY <2>1, <2>2, <2>3 DEF msg_create_Q
  <1>2. CreateInv'
    <2>1. CASE get_qid(c)
      <3>1. CASE cr' = [cr EXCEPT ![c].pc = "failed"] /\ shared' = shared
        BY <1>0, <2>1, <3>1 DEF TypeOK, CreateInv, get_qid
      <3>2. ASSUME NEW q \in Qid \ active,
                   cr' = [cr EXCEPT ![c] = [pc |-> "pool", qid |-> q]],
                   shared' = IF Taking(q) = {} THEN shared ELSE shared \cup {q}
            PROVE  CreateInv'
        <4>1. cr'[c].pc = "pool" /\ cr'[c].qid = q /\ \A d \in Creator \ {c} : cr'[d] = cr[d]
          BY <1>0, <3>2 DEF TypeOK
        <4>2. shared \subseteq shared' /\ active' = active /\ fblks' = fblks
          BY <2>1, <3>2 DEF get_qid
        <4>3. ASSUME NEW d \in Creator \ {c}, cr[d].qid = q,
                     cr[d].pc \in {"pool", "fill", "done"}
              PROVE  q \in shared'
          <5>1. cr[d].pc # "done"
            BY <1>0, <4>3 DEF CreateInv
          <5>2. d \in Taking(q)
            BY <4>3, <5>1 DEF Taking
          <5> QED
            BY <5>2, <3>2
        <4>4. \A d \in Creator :
                /\ cr'[d].pc \in {"pool", "fill", "done"} => cr'[d].qid \in Qid
                /\ cr'[d].pc = "done" => cr'[d].qid \in active'
                /\ cr'[d].pc \in {"pool", "fill"}
                     => cr'[d].qid \in shared' \/ cr'[d].qid \notin active'
                /\ cr'[d].pc = "fill" /\ cr'[d].qid \notin shared'
                     => fblks'[cr'[d].qid] = NBlks
          BY <1>0, <4>1, <4>2 DEF CreateInv
        <4>5. ASSUME NEW d \in Creator, NEW e \in Creator, d # e,
                     cr'[d].qid = cr'[e].qid,
                     {cr'[d].pc, cr'[e].pc} \subseteq {"pool", "fill", "done"}
              PROVE  cr'[d].qid \in shared'
          <5>1. CASE d = c
            BY <5>1, <4>1, <4>3, <4>5
          <5>2. CASE e = c
            BY <5>2, <4>1, <4>3, <4>5
          <5>3. CASE d # c /\ e # c
            BY <5>3, <1>0, <4>1, <4>2, <4>5 DEF CreateInv
          <5> QED
            BY <5>1, <5>2, <5>3
        <4> QED
          BY <4>4, <4>5 DEF CreateInv
      <3> QED
        BY <2>1, <3>1, <3>2 DEF get_qid
    <2>2. CASE CreatePool(c)
      <3>1. /\ active' = active /\ shared' = shared
            /\ \A d \in Creator \ {c} : cr'[d] = cr[d]
            /\ cr[c].qid \in Qid
        BY <1>0, <2>2, Zenon DEF TypeOK, CreatePool, CreateInv
      <3>2. CASE cr' = [cr EXCEPT ![c].pc = "fill"] /\ fblks' = [fblks EXCEPT ![cr[c].qid] = NBlks]
        <4>1. cr'[c].pc = "fill" /\ cr'[c].qid = cr[c].qid
          BY <1>0, <3>2 DEF TypeOK
        <4>2. fblks'[cr[c].qid] = NBlks /\ \A q \in Qid \ {cr[c].qid} : fblks'[q] = fblks[q]
          BY <1>0, <3>1, <3>2 DEF TypeOK
        <4> QED
          BY <1>0, <2>2, <3>1, <4>1, <4>2 DEF CreateInv, CreatePool
      <3>3. CASE cr' = [cr EXCEPT ![c] = [pc |-> "failed", qid |-> NoQ]] /\ fblks' = fblks
        BY <1>0, <3>1, <3>3 DEF TypeOK, CreateInv
      <3> QED
        BY <2>2, <3>2, <3>3 DEF CreatePool
    <2>3. CASE Activate(c)
      BY <2>3 DEF IInv, TypeOK, CreateInv, Activate
    <2> QED
      BY <2>1, <2>2, <2>3 DEF msg_create_Q
  <1>3. UseInv'
    <2>1. active \subseteq active' /\ msg_list' = msg_list /\ at' = at
      BY DEF msg_create_Q, get_qid, CreatePool, Activate, traffic
    <2>2. \A d \in Creator : cr[d].pc = "done" => cr'[d].pc = "done"
      BY <1>0, Zenon DEF TypeOK, msg_create_Q, get_qid, CreatePool, Activate
    <2> QED
      BY <1>0, <2>1, <2>2 DEF UseInv
  <1>4. InOrder'
    BY Zenon DEF IInv, InOrder, msg_create_Q, get_qid, CreatePool, Activate, traffic
  <1>5. BlocksAccounted'
    <2>1. CASE get_qid(c)
      BY <2>1 DEF IInv, BlocksAccounted, get_qid, traffic
    <2>2. CASE CreatePool(c)
      <3>1. \A q \in active \ shared : q \in Qid /\ q # cr[c].qid
        <4>1. cr[c].qid \in shared \/ cr[c].qid \notin active
          BY <1>0, <2>2 DEF CreateInv, CreatePool
        <4> QED
          BY <1>0, <4>1 DEF TypeOK
      <3>2. \A q \in active \ shared : fblks'[q] = fblks[q]
        BY <1>0, <2>2, <3>1 DEF TypeOK, CreatePool
      <3> QED
        BY <1>0, <2>2, <3>2 DEF BlocksAccounted, CreatePool, traffic
    <2>3. CASE Activate(c)
      <3>1. ASSUME NEW q \in active' \ shared' PROVE fblks'[q] + Len(msg_list'[q]) = NBlks
        <4>1. CASE q \in active
          BY <2>3, <4>1 DEF IInv, BlocksAccounted, Activate, traffic
        <4>2. CASE q \notin active
          <5>1. q = cr[c].qid /\ fblks[q] = NBlks /\ q \in Qid
            BY <2>3, <3>1, <4>2 DEF IInv, CreateInv, Activate
          <5>2. msg_list[q] = <<>>
            BY <5>1, <4>2 DEF IInv, UseInv
          <5> QED
            BY <5>1, <5>2, <2>3 DEF Activate, traffic
        <4> QED
          BY <4>1, <4>2
      <3> QED
        BY <3>1 DEF BlocksAccounted
    <2> QED
      BY <2>1, <2>2, <2>3 DEF msg_create_Q
  <1>6. NoLostWakeup'
    <2>1. msg_list' = msg_list
      BY DEF msg_create_Q, get_qid, CreatePool, Activate, traffic
    <2>2. ASSUME NEW q \in Qid, On(q, "waiting")' # {}
          PROVE  Len(msg_list'[q]) <= Cardinality(On(q, "woken")')
      BY <2>1, <2>2, CreateOn DEF IInv, NoLostWakeup
    <2> QED
      BY <2>2 DEF NoLostWakeup
  <1> QED
    BY <1>1, <1>2, <1>3, <1>4, <1>5, <1>6 DEF IInv

(* The queue and what has passed through it, after a step of a sender. *)
LEMMA SendStep ==
  ASSUME IInv, NEW t \in Sender, NEW m \in Msg, msg_send(t, m)
  PROVE  IInv'
  <1> USE QueueAssumption
  <1>0. TypeOK /\ CreateInv /\ UseInv /\ InOrder /\ BlocksAccounted /\ NoLostWakeup
    BY DEF IInv
  <1>q. PICK q \in Qid : q = QOf(t) /\ q \in active /\ q \notin shared
    BY <1>0, ReadyQueue DEF msg_send
  <1>1. cr' = cr /\ active' = active /\ shared' = shared /\ rcvd' = rcvd
    BY DEF msg_send, create
  <1>2. /\ at' \in [Receiver -> {"out", "waiting", "woken"}]
        /\ \A r \in Receiver : at'[r] # "out" => at[r] # "out"
    BY <1>0, Zenon DEF msg_send, Signal, On, TypeOK
  <1>3. \/ /\ fblks[q] > 0
           /\ fblks' = [fblks EXCEPT ![q] = @ - 1]
           /\ msg_list' = [msg_list EXCEPT ![q] = Append(@, m)]
           /\ sent' = [sent EXCEPT ![q] = Append(@, m)]
        \/ fblks[q] = 0 /\ UNCHANGED <<fblks, msg_list, sent>>
    BY <1>q DEF msg_send, Enqueue
  <1>4. Signal(q)
    BY <1>q DEF msg_send
  <1>5. TypeOK'
    <2>1. fblks' \in [Qid -> 0 .. NBlks]
      <3>1. fblks[q] \in 0 .. NBlks
        BY <1>0 DEF TypeOK
      <3>2. fblks[q] > 0 => fblks[q] - 1 \in 0 .. NBlks
        BY <3>1
      <3> QED
        BY <1>0, <1>3, <3>2, ZenonT(60) DEF TypeOK
    <2>2. msg_list' \in [Qid -> Seq(Msg)] /\ sent' \in [Qid -> Seq(Msg)]
      <3>1. Append(msg_list[q], m) \in Seq(Msg) /\ Append(sent[q], m) \in Seq(Msg)
        BY <1>0 DEF TypeOK
      <3> QED
        <4>1. CASE UNCHANGED <<fblks, msg_list, sent>>
          BY <1>0, <4>1 DEF TypeOK
        <4>2. CASE /\ msg_list' = [msg_list EXCEPT ![q] = Append(msg_list[q], m)]
                   /\ sent' = [sent EXCEPT ![q] = Append(sent[q], m)]
          BY <1>0, <3>1, <4>2 DEF TypeOK
        <4> QED
          BY <1>3, <4>1, <4>2
    <2> QED
      BY <1>0, <1>1, <1>2, <2>1, <2>2, ZenonT(60) DEF TypeOK
  <1>6. \A p \in Qid \ {q} : fblks'[p] = fblks[p] /\ msg_list'[p] = msg_list[p] /\ sent'[p] = sent[p]
    BY <1>0, <1>3 DEF TypeOK
  <1>7. CreateInv'
    <2>1. \A c \in Creator : cr[c].pc = "fill" /\ cr[c].qid \notin shared => cr[c].qid \in Qid \ {q}
      BY <1>0, <1>q DEF CreateInv
    <2> QED
      BY <1>0, <1>1, <1>6, <2>1 DEF CreateInv
  <1>8. UseInv'
    BY <1>0, <1>1, <1>2, <1>6, <1>q DEF UseInv
  <1>9. InOrder'
    <2>1. sent'[q] = rcvd[q] \o msg_list'[q]
      <3>1. Append(rcvd[q] \o msg_list[q], m) = rcvd[q] \o Append(msg_list[q], m)
        <4>1. rcvd[q] \in Seq(Msg) /\ msg_list[q] \in Seq(Msg) /\ m \in Msg
          BY <1>0 DEF TypeOK
        <4>2. PICK x \in Seq(Msg), y \in Seq(Msg) : x = rcvd[q] /\ y = msg_list[q]
          BY <4>1
        <4>3. Append(x \o y, m) = x \o Append(y, m)
          BY SMTT(60)
        <4> QED
          BY <4>2, <4>3
      <3>2. sent[q] = rcvd[q] \o msg_list[q]
        BY <1>0, Zenon DEF InOrder
      <3>3. \/ sent'[q] = Append(sent[q], m) /\ msg_list'[q] = Append(msg_list[q], m)
            \/ sent'[q] = sent[q] /\ msg_list'[q] = msg_list[q]
        BY <1>0, <1>3 DEF TypeOK
      <3> QED
        BY <3>1, <3>2, <3>3, Zenon
    <2> QED
      BY <1>0, <1>1, <1>6, <2>1, Zenon DEF InOrder
  <1>10. BlocksAccounted'
    <2>1. fblks'[q] + Len(msg_list'[q]) = NBlks
      BY <1>0, <1>3, <1>q DEF TypeOK, BlocksAccounted
    <2> QED
      BY <1>0, <1>1, <1>6, <2>1, Zenon DEF BlocksAccounted, TypeOK
  <1>11. NoLostWakeup'
    <2>1. \A p \in Qid \ {q}, l \in {"waiting", "woken"} : On(p, l)' = On(p, l)
      BY <1>0, <1>1, <1>4, <1>q DEF Signal, On, Ready, QOf, TypeOK
    <2>2. Len(msg_list'[q]) \in Nat /\ Len(msg_list[q]) \in Nat /\ Len(msg_list'[q]) <= Len(msg_list[q]) + 1
      BY <1>0, <1>3 DEF TypeOK
    <2>3. ASSUME On(q, "waiting")' # {}
          PROVE  Len(msg_list'[q]) <= Cardinality(On(q, "woken")')
      <3>1. On(q, "waiting") # {}
        BY <1>0, <1>1, <1>4, <2>3 DEF Signal, On, Ready, QOf, TypeOK
      <3>2. PICK r \in On(q, "waiting") : at' = [at EXCEPT ![r] = "woken"]
        BY <1>4, <3>1 DEF Signal
      <3>3. r \notin On(q, "woken") /\ On(q, "woken")' = On(q, "woken") \cup {r}
        BY <1>0, <1>1, <3>2 DEF On, Ready, QOf, TypeOK
      <3>4. Cardinality(On(q, "woken")') = Cardinality(On(q, "woken")) + 1
        BY <3>3, OnFinite, FS_AddElement
      <3>5. Len(msg_list[q]) <= Cardinality(On(q, "woken"))
        BY <1>0, <3>1 DEF NoLostWakeup
      <3> QED
        BY <2>2, <3>4, <3>5, OnFinite
    <2>4. ASSUME NEW p \in Qid, On(p, "waiting")' # {}
          PROVE  Len(msg_list'[p]) <= Cardinality(On(p, "woken")')
      <3>1. CASE p = q
        BY <2>3, <2>4, <3>1
      <3>2. CASE p # q
        BY <1>0, <1>6, <2>1, <2>4, <3>2 DEF NoLostWakeup
      <3> QED
        BY <3>1, <3>2
    <2> QED
      BY <2>4 DEF NoLostWakeup
  <1> QED
    BY <1>5, <1>7, <1>8, <1>9, <1>10, <1>11 DEF IInv

(* A receiver of queue q that changes its state from or to "woken" changes *)
(* the sets On of q only.                                                  *)
LEMMA OnOthers ==
  ASSUME TypeOK, NEW r \in Receiver, NEW q \in Qid, QOf(r) = q, NEW v,
         at' = [at EXCEPT ![r] = v], UNCHANGED create
  PROVE  \A p \in Qid \ {q}, l \in {"waiting", "woken"} : On(p, l)' = On(p, l)
  BY DEF On, Ready, QOf, create, TypeOK

LEMMA ReceiveStep ==
  ASSUME IInv, NEW r \in Receiver, msg_rcv(r)
  PROVE  IInv'
  <1> USE QueueAssumption
  <1>0. TypeOK /\ CreateInv /\ UseInv /\ InOrder /\ BlocksAccounted /\ NoLostWakeup
    BY DEF IInv
  <1>q. PICK q \in Qid : q = QOf(r) /\ q \in active /\ q \notin shared
    BY <1>0, ReadyQueue DEF msg_rcv
  <1>1. UNCHANGED create /\ sent' = sent /\ cr[Owner[r]].pc = "done"
    BY DEF msg_rcv, Ready
  <1>2. cr' = cr /\ active' = active /\ shared' = shared
    BY <1>1 DEF create
  <1>3. CASE /\ msg_list[q] = <<>> /\ at' = [at EXCEPT ![r] = "waiting"]
             /\ UNCHANGED <<msg_list, rcvd, fblks>>
    <2>1. TypeOK'
      BY <1>0, <1>1, <1>2, <1>3 DEF TypeOK
    <2>2. CreateInv' /\ InOrder' /\ BlocksAccounted'
      BY <1>0, <1>1, <1>2, <1>3, Zenon DEF CreateInv, InOrder, BlocksAccounted
    <2>3. UseInv'
      BY <1>0, <1>1, <1>2, <1>3 DEF UseInv, TypeOK
    <2>4. NoLostWakeup'
      <3>1. \A p \in Qid \ {q}, l \in {"waiting", "woken"} : On(p, l)' = On(p, l)
        BY <1>0, <1>1, <1>3, <1>q, OnOthers, Zenon
      <3>2. Len(msg_list'[q]) = 0 /\ Cardinality(On(q, "woken")') \in Nat
        <4>1. IsFiniteSet(On(q, "woken")')
          BY FS_Subset DEF On
        <4> QED
          BY <1>3, <4>1, FS_CardinalityType
      <3>3. ASSUME NEW p \in Qid, On(p, "waiting")' # {}
            PROVE  Len(msg_list'[p]) <= Cardinality(On(p, "woken")')
        <4>1. CASE p = q
          BY <3>2, <4>1
        <4>2. CASE p # q
          BY <1>0, <1>3, <3>1, <3>3, <4>2 DEF NoLostWakeup
        <4> QED
          BY <4>1, <4>2
      <3> QED
        BY <3>3 DEF NoLostWakeup
    <2> QED
      BY <2>1, <2>2, <2>3, <2>4 DEF IInv
  <1>4. CASE /\ msg_list[q] # <<>> /\ at' = [at EXCEPT ![r] = "out"]
             /\ rcvd' = [rcvd EXCEPT ![q] = Append(rcvd[q], Head(msg_list[q]))]
             /\ msg_list' = [msg_list EXCEPT ![q] = Tail(msg_list[q])]
             /\ fblks' = [fblks EXCEPT ![q] = fblks[q] + 1]
    <2>1. rcvd[q] \in Seq(Msg) /\ msg_list[q] \in Seq(Msg) /\ fblks[q] \in 0 .. NBlks
      BY <1>0 DEF TypeOK
    <2>2. /\ rcvd[q] \o msg_list[q] = Append(rcvd[q], Head(msg_list[q])) \o Tail(msg_list[q])
          /\ Head(msg_list[q]) \in Msg /\ Tail(msg_list[q]) \in Seq(Msg)
          /\ Len(msg_list[q]) \in Nat /\ Len(msg_list[q]) > 0
          /\ Len(Tail(msg_list[q])) = Len(msg_list[q]) - 1
      BY <1>4, <2>1, MoveHead, Zenon
    <2>l. /\ Len(msg_list[q]) \in Nat /\ Len(msg_list[q]) > 0
          /\ Len(Tail(msg_list[q])) = Len(msg_list[q]) - 1
      BY <2>2
    <2>f. fblks[q] \in 0 .. NBlks
      BY <2>1
    <2>3. fblks[q] + Len(msg_list[q]) = NBlks
      BY <1>0, <1>q DEF BlocksAccounted
    <2>4. /\ rcvd'[q] = Append(rcvd[q], Head(msg_list[q]))
          /\ msg_list'[q] = Tail(msg_list[q]) /\ fblks'[q] = fblks[q] + 1
          /\ \A p \in Qid \ {q} :
               rcvd'[p] = rcvd[p] /\ msg_list'[p] = msg_list[p] /\ fblks'[p] = fblks[p]
      BY <1>0, <1>4 DEF TypeOK
    <2>5. TypeOK'
      <3>1. fblks[q] + 1 \in 0 .. NBlks
        BY <2>1, <2>2, <2>3
      <3>2. fblks' \in [Qid -> 0 .. NBlks]
        BY <1>0, <1>4, <3>1 DEF TypeOK
      <3>3. Append(rcvd[q], Head(msg_list[q])) \in Seq(Msg)
        BY <2>1, <2>2
      <3>4. rcvd' \in [Qid -> Seq(Msg)] /\ msg_list' \in [Qid -> Seq(Msg)]
        BY <1>0, <1>4, <2>2, <3>3 DEF TypeOK
      <3>5. at' \in [Receiver -> {"out", "waiting", "woken"}]
        BY <1>0, <1>4 DEF TypeOK
      <3> QED
        BY <1>0, <1>1, <1>2, <3>2, <3>4, <3>5, Zenon DEF TypeOK
    <2>6. CreateInv'
      <3>1. \A c \in Creator : cr[c].pc = "fill" /\ cr[c].qid \notin shared => cr[c].qid \in Qid \ {q}
        BY <1>0, <1>q DEF CreateInv
      <3> QED
        BY <1>0, <1>2, <2>4, <3>1 DEF CreateInv
    <2>7. UseInv'
      BY <1>0, <1>2, <1>4, <1>q, <2>4 DEF UseInv, TypeOK
    <2>8. InOrder'
      BY <1>0, <1>1, <2>2, <2>4, Zenon DEF InOrder
    <2>9. BlocksAccounted'
      <3>1. fblks'[q] + Len(msg_list'[q]) = NBlks
        <4>1. Len(msg_list'[q]) = Len(msg_list[q]) - 1
          BY <2>2, <2>4
        <4> QED
          BY <2>f, <2>l, <2>3, <2>4, <4>1
      <3> QED
        BY <1>0, <1>2, <2>4, <3>1, Zenon DEF BlocksAccounted, TypeOK
    <2>10. NoLostWakeup'
      <3>1. \A p \in Qid \ {q}, l \in {"waiting", "woken"} : On(p, l)' = On(p, l)
        BY <1>0, <1>1, <1>4, <1>q, OnOthers, Zenon
      <3>2. On(q, "waiting")' \subseteq On(q, "waiting") /\ On(q, "woken")' = On(q, "woken") \ {r}
        BY <1>0, <1>2, <1>4, <1>q DEF On, Ready, QOf, TypeOK
      <3>3. ASSUME On(q, "waiting")' # {}
            PROVE  Len(msg_list'[q]) <= Cardinality(On(q, "woken")')
        <4>0. Len(msg_list'[q]) = Len(msg_list[q]) - 1
          BY <2>2, <2>4
        <4>1. Len(msg_list[q]) <= Cardinality(On(q, "woken"))
          BY <1>0, <3>2, <3>3 DEF NoLostWakeup
        <4>2. IsFiniteSet(On(q, "woken")) /\ Cardinality(On(q, "woken")) \in Nat
          BY OnFinite
        <4>3. CASE r \in On(q, "woken")
          <5>1. Cardinality(On(q, "woken") \ {r}) = Cardinality(On(q, "woken")) - 1
            BY <4>2, <4>3, FS_RemoveElement, Zenon
          <5>2. Cardinality(On(q, "woken")') = Cardinality(On(q, "woken")) - 1
            BY <3>2, <5>1
          <5> QED
            BY <2>l, <4>0, <4>1, <4>2, <5>2
        <4>4. CASE r \notin On(q, "woken")
          <5>1. On(q, "woken") \ {r} = On(q, "woken")
            BY <4>4
          <5>2. Cardinality(On(q, "woken")') = Cardinality(On(q, "woken"))
            BY <3>2, <5>1
          <5> QED
            BY <2>l, <4>0, <4>1, <4>2, <5>2
        <4> QED
          BY <4>3, <4>4
      <3>4. ASSUME NEW p \in Qid, On(p, "waiting")' # {}
            PROVE  Len(msg_list'[p]) <= Cardinality(On(p, "woken")')
        <4>1. CASE p = q
          BY <3>3, <3>4, <4>1
        <4>2. CASE p # q
          BY <1>0, <2>4, <3>1, <3>4, <4>2 DEF NoLostWakeup
        <4> QED
          BY <4>1, <4>2
      <3> QED
        BY <3>4 DEF NoLostWakeup
    <2> QED
      BY <2>5, <2>6, <2>7, <2>8, <2>9, <2>10 DEF IInv
  <1> QED
    BY <1>3, <1>4, <1>q DEF msg_rcv, Dequeue

LEMMA SpuriousStep ==
  ASSUME IInv, NEW r \in Receiver, SpuriousWakeup(r)
  PROVE  IInv'
  <1> USE QueueAssumption
  <1>0. TypeOK /\ CreateInv /\ UseInv /\ InOrder /\ BlocksAccounted /\ NoLostWakeup
    BY DEF IInv
  <1>q. PICK q \in Qid : q = QOf(r)
    BY <1>0, ReadyQueue DEF SpuriousWakeup
  <1>1. /\ UNCHANGED create /\ UNCHANGED <<fblks, msg_list, sent, rcvd>>
        /\ Ready(r) /\ at[r] = "waiting" /\ at' = [at EXCEPT ![r] = "woken"]
    BY DEF SpuriousWakeup
  <1>2. cr' = cr /\ active' = active /\ shared' = shared
    BY <1>1 DEF create
  <1>3. TypeOK' /\ UseInv'
    BY <1>0, <1>1, <1>2 DEF TypeOK, UseInv
  <1>4. CreateInv' /\ InOrder' /\ BlocksAccounted'
    BY <1>0, <1>1, <1>2, Zenon DEF CreateInv, InOrder, BlocksAccounted
  <1>5. NoLostWakeup'
    <2>1. \A p \in Qid \ {q}, l \in {"waiting", "woken"} : On(p, l)' = On(p, l)
      BY <1>0, <1>1, <1>q, OnOthers, Zenon
    <2>2. /\ r \in On(q, "waiting") /\ r \notin On(q, "woken")
          /\ On(q, "woken")' = On(q, "woken") \cup {r}
      BY <1>0, <1>1, <1>2, <1>q DEF On, Ready, QOf, TypeOK
    <2>3. Cardinality(On(q, "woken")') = Cardinality(On(q, "woken")) + 1
      BY <2>2, OnFinite, FS_AddElement
    <2>4. Len(msg_list[q]) <= Cardinality(On(q, "woken")) /\ Len(msg_list[q]) \in Nat
      BY <1>0, <2>2 DEF NoLostWakeup, TypeOK
    <2>5. ASSUME NEW p \in Qid, On(p, "waiting")' # {}
          PROVE  Len(msg_list'[p]) <= Cardinality(On(p, "woken")')
      <3>1. CASE p = q
        BY <1>1, <2>3, <2>4, <3>1, OnFinite
      <3>2. CASE p # q
        BY <1>0, <1>1, <2>1, <2>5, <3>2 DEF NoLostWakeup
      <3> QED
        BY <3>1, <3>2
    <2> QED
      BY <2>5 DEF NoLostWakeup
  <1> QED
    BY <1>3, <1>4, <1>5 DEF IInv

LEMMA NextIInv == IInv /\ [Next]_vars => IInv'
  <1> SUFFICES ASSUME IInv, [Next]_vars PROVE IInv'
    OBVIOUS
  <1>1. CASE UNCHANGED vars
    <2>1. TypeOK' /\ CreateInv' /\ UseInv'
      BY <1>1 DEF vars, create, traffic, IInv, TypeOK, CreateInv, UseInv
    <2>2. InOrder' /\ BlocksAccounted'
      BY <1>1, Zenon DEF vars, create, traffic, IInv, InOrder, BlocksAccounted
    <2>3. \A q \in Qid, l \in {"waiting", "woken"} : On(q, l)' = On(q, l)
      BY <1>1 DEF vars, create, traffic, On, Ready, QOf
    <2>4. NoLostWakeup'
      BY <1>1, <2>3 DEF vars, traffic, IInv, NoLostWakeup
    <2> QED
      BY <2>1, <2>2, <2>4 DEF IInv
  <1>2. ASSUME NEW c \in Creator, msg_create_Q(c) PROVE IInv'
    BY <1>2, CreateStep
  <1>3. ASSUME NEW t \in Sender, NEW m \in Msg, msg_send(t, m) PROVE IInv'
    BY <1>3, SendStep
  <1>4. ASSUME NEW r \in Receiver, msg_rcv(r) PROVE IInv'
    BY <1>4, ReceiveStep
  <1>5. ASSUME NEW r \in Receiver, SpuriousWakeup(r) PROVE IInv'
    BY <1>5, SpuriousStep
  <1> QED
    BY <1>1, <1>2, <1>3, <1>4, <1>5 DEF Next

-----------------------------------------------------------------------------
(* The inductive invariant always holds. *)
THEOREM Invariance == Spec => []IInv
  BY InitIInv, NextIInv, PTL DEF Spec

(* The array of queues, the pools and the threads keep their types; no     *)
(* pool has fewer than no or more than all of its blocks free.             *)
THEOREM TypeCorrect == Spec => []TypeOK
  <1>1. IInv => TypeOK
    BY DEF IInv
  <1> QED
    BY Invariance, <1>1, PTL

(* msg_rcv hands out what msg_send queued, in order, and blocks of the     *)
(* pool are never lost: for any number of threads and queues.              *)
THEOREM MessagesInOrder == Spec => [](InOrder /\ BlocksAccounted)
  <1>1. IInv => InOrder /\ BlocksAccounted
    BY DEF IInv
  <1> QED
    BY Invariance, <1>1, PTL

(* One pthread_cond_signal per message is enough: no receiver waits while  *)
(* there is a message nobody is on the way to.                             *)
THEOREM WakeupNeverLost == Spec => []NoLostWakeup
  <1>1. IInv => NoLostWakeup
    BY DEF IInv
  <1> QED
    BY Invariance, <1>1, PTL

(* Calls of msg_create_Q that do not overlap return different queues. *)
THEOREM CreatedQueuesDistinct == Spec => []DistinctQueues
  <1>1. IInv => DistinctQueues
    BY DEF IInv, CreateInv, DistinctQueues
  <1> QED
    BY Invariance, <1>1, PTL

(* A step of MsgQueue is a step of the bounded FIFO queues or leaves them. *)
LEMMA StepIsFifo == IInv /\ [Next]_vars => [Abstract!Next]_msg_list
  <1> SUFFICES ASSUME IInv, [Next]_vars PROVE Abstract!Next \/ UNCHANGED msg_list
    OBVIOUS
  <1> USE QueueAssumption
  <1>1. CASE UNCHANGED vars
    BY <1>1 DEF vars, traffic
  <1>2. ASSUME NEW c \in Creator, msg_create_Q(c) PROVE UNCHANGED msg_list
    BY <1>2 DEF msg_create_Q, get_qid, CreatePool, Activate, traffic
  <1>3. ASSUME NEW t \in Sender, NEW m \in Msg, msg_send(t, m),
               msg_list' # msg_list
        PROVE  Abstract!Next
    <2>1. PICK q \in Qid : q = QOf(t) /\ q \in active \ shared
      BY <1>3, ReadyQueue DEF msg_send, IInv
    <2>2. fblks[q] > 0 /\ msg_list' = [msg_list EXCEPT ![q] = Append(@, m)]
      BY <1>3, <2>1 DEF msg_send, Enqueue
    <2>3. Len(msg_list[q]) < NBlks
      <3>1. fblks[q] \in 0 .. NBlks /\ Len(msg_list[q]) \in Nat
        BY DEF IInv, TypeOK
      <3>2. fblks[q] + Len(msg_list[q]) = NBlks
        BY <2>1 DEF IInv, BlocksAccounted
      <3> QED
        BY <2>2, <3>1, <3>2
    <2>4. Abstract!Put(q, m)
      BY <2>2, <2>3 DEF Abstract!Put
    <2> QED
      BY <2>4 DEF Abstract!Next
  <1>4. ASSUME NEW r \in Receiver, msg_rcv(r), msg_list' # msg_list
        PROVE  Abstract!Next
    <2>1. PICK q \in Qid : q = QOf(r)
      BY <1>4, ReadyQueue DEF msg_rcv, IInv
    <2>2. Abstract!Get(q)
      BY <1>4, <2>1 DEF msg_rcv, Dequeue, Abstract!Get
    <2> QED
      BY <2>2 DEF Abstract!Next
  <1>5. ASSUME NEW r \in Receiver, SpuriousWakeup(r) PROVE UNCHANGED msg_list
    BY <1>5 DEF SpuriousWakeup
  <1> QED
    BY <1>1, <1>2, <1>3, <1>4, <1>5 DEF Next

(* msg_send and msg_rcv implement bounded FIFO queues: the specification   *)
(* implies the abstract one, with msg_list as the waiting messages.        *)
THEOREM ImplementsFifo == Spec => QueueIsFifo
  <1>1. Init => Abstract!Init
    BY DEF Init, Abstract!Init
  <1> QED
    BY <1>1, Invariance, StepIsFifo, PTL DEF Spec, QueueIsFifo, Abstract!Spec
=============================================================================
