-------------------------- MODULE TaskSignalProofs --------------------------
(***************************************************************************)
(* Proofs about module TaskSignal: which signals of a task can be lost,    *)
(* and what process_signal serves, for any number of tasks and signals and *)
(* any depth to which calls of schedule nest.                              *)
(***************************************************************************)
EXTENDS TaskSignal, SequenceTheorems, WellFoundedInduction, TLAPS

CallRec == [stage : {"loop", "handler", "pick"}, res : SUBSET Sig, i : Nat,
            due : SUBSET Sig, tick : BOOLEAN]
RaiseRec == [sig : Sig, word : SUBSET Sig, depth : Nat] \cup {NotRaising}

SigTypeOK ==
  /\ current \in Task
  /\ sig_hd \in [Task -> SUBSET Sig] /\ signals \in [Task -> SUBSET Sig]
  /\ sig_pending \in [Task -> SUBSET Sig]
  /\ calls \in [Task -> Seq(CallRec)]
  /\ raising \in [Task -> RaiseRec]
  /\ owed \in [Task -> SUBSET Sig] /\ late \in [Task -> SUBSET Sig]

(* Owed handlers of signals set pending outside the two windows. *)
Fresh(t) == owed[t] \ late[t]

(* A process_signal under way has still to come to every signal it is due  *)
(* to serve, the fresh ones among them; one that is over has none left.    *)
Serves(c, hd, fresh) ==
  IF c.stage = "pick" THEN c.due = {}
  ELSE /\ fresh \subseteq c.due
       /\ c.due \subseteq {s \in hd : s > c.i /\ \E r \in c.res : s <= r}

(* Fresh signals stand in sig_pending, and in the word tm_raise has read   *)
(* of it and will write back.                                              *)
TaskOK(t) ==
  /\ owed[t] \subseteq sig_hd[t] /\ sig_hd[t] \subseteq signals[t]
  /\ Fresh(t) \subseteq sig_pending[t]
  /\ raising[t] # NotRaising => Fresh(t) \subseteq raising[t].word
  /\ \A j \in 1 .. Len(calls[t]) : Serves(calls[t][j], sig_hd[t], Fresh(t))

SigInv == SigTypeOK /\ \A t \in Task : TaskOK(t)
-----------------------------------------------------------------------------
(* A non-empty set of signal numbers has a least element.                  *)
LEMMA LeastSignal ==
  ASSUME NEW S \in SUBSET Nat, S # {}
  PROVE  Min(S) \in S /\ \A y \in S : Min(S) <= y
<1>1. PICK x \in S : \A y \in S : ~(<<y, x>> \in OpToRel(<, Nat))
  BY NatLessThanWellFounded, WFMin, Zenon
<1>2. \A y \in S : x <= y
  <2>1. TAKE y \in S
  <2>2. ~(y < x)
    BY <1>1, Zenon DEF OpToRel
  <2> QED
    BY <2>2
<1>3. \E z \in S : \A y \in S : z <= y
  BY <1>2
<1> QED
  BY <1>3, Zenon DEF Min

(* What is enough for a task whose calls of schedule do not change: no     *)
(* fresh signal more, none pending less, no handler less.                  *)
LEMMA TaskKeeps ==
  ASSUME NEW u \in Task, TaskOK(u),
         owed'[u] \subseteq sig_hd'[u], sig_hd'[u] \subseteq signals'[u],
         sig_hd[u] \subseteq sig_hd'[u],
         Fresh(u)' \subseteq Fresh(u), sig_pending[u] \subseteq sig_pending'[u],
         raising'[u] = raising[u] \/ raising'[u] = NotRaising,
         calls'[u] = calls[u]
  PROVE  TaskOK(u)'
<1>1. Fresh(u)' \subseteq sig_pending'[u]
  BY DEF TaskOK
<1>2. raising'[u] # NotRaising => Fresh(u)' \subseteq raising'[u].word
  BY DEF TaskOK
<1>3. ASSUME NEW j \in 1 .. Len(calls[u])
      PROVE  Serves(calls'[u][j], sig_hd'[u], Fresh(u)')
  <2>1. Serves(calls[u][j], sig_hd[u], Fresh(u))
    BY <1>3 DEF TaskOK
  <2>2. calls'[u][j] = calls[u][j]
    OBVIOUS
  <2> QED
    BY <2>1, <2>2 DEF Serves
<1> QED
  BY <1>1, <1>2, <1>3 DEF TaskOK

(* A task none of whose state changes.                                     *)
LEMMA TaskSame ==
  ASSUME NEW u \in Task, TaskOK(u), sig_hd'[u] = sig_hd[u], signals'[u] = signals[u],
         sig_pending'[u] = sig_pending[u], raising'[u] = raising[u], calls'[u] = calls[u],
         owed'[u] = owed[u], late'[u] = late[u]
  PROVE  TaskOK(u)'
<1>1. Fresh(u)' = Fresh(u)
  BY DEF Fresh
<1> QED
  BY <1>1, TaskKeeps DEF TaskOK

(* A registration.                                                         *)
LEMMA RegisterKeeps ==
  ASSUME SigInv, NEW t \in Task, NEW s \in Sig, NEW h \in Handler, tm_signal(t, s, h)
  PROVE  SigInv'
<1>0. SigTypeOK /\ Idle \in Task /\ UNCHANGED <<current, sig_pending, calls, raising, owed, late>>
  BY SignalAssumption DEF SigInv, tm_signal
<1>1. SigTypeOK'
  BY <1>0, ZenonT(60) DEF SigTypeOK, tm_signal
<1>2. ASSUME NEW u \in Task
      PROVE  TaskOK(u)'
  <2>1. TaskOK(u)
    BY DEF SigInv
  <2>2. /\ sig_hd[u] \subseteq sig_hd'[u]
        /\ sig_hd'[u] \subseteq sig_hd[u] \cup (IF u = t THEN {s} ELSE {})
    BY <1>0 DEF SigTypeOK, tm_signal
  <2>3. signals[u] \subseteq signals'[u] /\ (u = t => s \in signals'[u])
    BY <1>0 DEF SigTypeOK, tm_signal
  <2>4. Fresh(u)' = Fresh(u)
    BY <1>0 DEF Fresh
  <2> QED
    BY <1>0, <2>1, <2>2, <2>3, <2>4, TaskKeeps DEF TaskOK
<1> QED
  BY <1>1, <1>2 DEF SigInv

(* A signal becomes pending.  Outside the windows it is fresh, and there   *)
(* is no call of schedule and no tm_raise it could be missing from; inside *)
(* one of them it is late.  tm_raise writes the word it has read.          *)
LEMMA SetPendingKeeps ==
  ASSUME SigInv, NEW t \in Task, NEW word \in SUBSET Sig, NEW s \in Sig,
         NEW window \in BOOLEAN, SetPending(t, word, s, window),
         Fresh(t) \subseteq word,
         ~window => calls[t] = <<>> /\ raising'[t] = NotRaising,
         UNCHANGED <<current, sig_hd, signals, reg_signals, calls>>,
         raising' = raising \/ raising' = [raising EXCEPT ![t] = NotRaising]
  PROVE  SigInv'
<1>0. SigTypeOK /\ raising' \in [Task -> RaiseRec]
  BY Zenon DEF SigInv, SigTypeOK, RaiseRec
<1>1. /\ sig_pending' = [sig_pending EXCEPT ![t] = word \cup {s}]
      /\ owed' = [owed EXCEPT ![t] = @ \cup ({s} \cap sig_hd[t])]
      /\ late' = [late EXCEPT ![t] = IF window THEN @ \cup ({s} \cap sig_hd[t]) ELSE @ \ {s}]
  BY DEF SetPending
<1>2. SigTypeOK'
  BY <1>0, <1>1 DEF SigTypeOK
<1>3. ASSUME NEW u \in Task
      PROVE  TaskOK(u)'
  <2>1. TaskOK(u)
    BY DEF SigInv
  <2>2. CASE u # t
    <3>1. /\ sig_pending'[u] = sig_pending[u] /\ owed'[u] = owed[u] /\ late'[u] = late[u]
          /\ raising'[u] = raising[u]
      BY <1>0, <1>1, <2>2 DEF SigTypeOK
    <3> QED
      BY <2>1, <3>1, TaskSame
  <2>3. CASE u = t
    <3>1. /\ sig_pending'[t] = word \cup {s}
          /\ owed'[t] = owed[t] \cup ({s} \cap sig_hd[t])
          /\ late'[t] = IF window THEN late[t] \cup ({s} \cap sig_hd[t]) ELSE late[t] \ {s}
          /\ raising'[t] = raising[t] \/ raising'[t] = NotRaising
      BY <1>0, <1>1 DEF SigTypeOK
    <3>2. owed'[t] \subseteq sig_hd'[t] /\ sig_hd'[t] \subseteq signals'[t]
      BY <2>1, <2>3, <3>1 DEF TaskOK
    <3>3. Fresh(t)' \subseteq sig_pending'[t]
      BY <3>1 DEF Fresh
    <3>4. CASE window
      <4>1. Fresh(t)' \subseteq Fresh(t)
        BY <3>1, <3>4 DEF Fresh
      <4>2. raising'[t] # NotRaising => Fresh(t)' \subseteq raising'[t].word
        BY <2>1, <2>3, <3>1, <4>1 DEF TaskOK
      <4>3. ASSUME NEW j \in 1 .. Len(calls[t])
            PROVE  Serves(calls'[t][j], sig_hd'[t], Fresh(t)')
        BY <2>1, <2>3, <4>1, <4>3 DEF TaskOK, Serves
      <4> QED
        BY <2>3, <3>2, <3>3, <4>2, <4>3 DEF TaskOK
    <3>5. CASE ~window
      <4>1. calls'[t] = <<>> /\ raising'[t] = NotRaising /\ Len(<<>>) = 0
        BY <3>5
      <4> QED
        BY <2>3, <3>2, <3>3, <4>1 DEF TaskOK
    <3> QED
      BY <3>4, <3>5
  <2> QED
    BY <2>2, <2>3
<1> QED
  BY <1>2, <1>3 DEF SigInv

(* tm_raise.                                                               *)
LEMMA RaiseKeeps ==
  ASSUME SigInv, NEW t \in Task, tm_raise(t)
  PROVE  SigInv'
<1>0. SigTypeOK /\ TaskOK(t)
  BY DEF SigInv
<1>1. CASE RaiseStore(t)
  <2>1. /\ raising' = [raising EXCEPT ![t] = NotRaising] /\ raising[t] # NotRaising
        /\ SetPending(t, raising[t].word, raising[t].sig, calls[t] # <<>>)
        /\ UNCHANGED <<current, sig_hd, signals, reg_signals, calls>>
    BY <1>1 DEF RaiseStore
  <2>2. raising[t].sig \in Sig /\ raising[t].word \in SUBSET Sig /\ raising'[t] = NotRaising
    BY <1>0, <2>1 DEF SigTypeOK, RaiseRec
  <2>3. Fresh(t) \subseteq raising[t].word
    BY <1>0, <2>1 DEF TaskOK
  <2> QED
    BY <2>1, <2>2, <2>3, SetPendingKeeps, Zenon
<1>2. ASSUME NEW s \in Sig, RaiseLoad(t, s)
      PROVE  SigInv'
  <2> DEFINE r == [sig |-> s, word |-> sig_pending[t], depth |-> Len(calls[t])]
  <2>1. /\ raising' = [raising EXCEPT ![t] = r]
        /\ UNCHANGED <<current, sig_hd, signals, sig_pending, reg_signals, calls, owed, late>>
    BY <1>2 DEF RaiseLoad
  <2>2. r \in RaiseRec
    <3>1. Len(calls[t]) \in Nat /\ sig_pending[t] \in SUBSET Sig
      BY <1>0, LenProperties DEF SigTypeOK
    <3> QED
      BY <3>1 DEF RaiseRec
  <2>3. SigTypeOK'
    BY <1>0, <2>1, <2>2 DEF SigTypeOK
  <2>4. ASSUME NEW u \in Task \ {t}
        PROVE  TaskOK(u)'
    <3>1. TaskOK(u) /\ raising'[u] = raising[u]
      BY <1>0, <2>1 DEF SigInv, SigTypeOK
    <3> QED
      BY <2>1, <3>1, TaskSame
  <2>5. TaskOK(t)'
    <3>1. raising'[t].word = sig_pending[t] /\ Fresh(t)' = Fresh(t)
      BY <1>0, <2>1 DEF SigTypeOK, Fresh
    <3> QED
      BY <1>0, <2>1, <3>1 DEF TaskOK, Serves
  <2> QED
    BY <2>3, <2>4, <2>5 DEF SigInv
<1> QED
  BY <1>1, <1>2 DEF tm_raise

(* A signal of the OS.                                                     *)
LEMMA OsSignalKeeps ==
  ASSUME SigInv, NEW s \in Sig, generic_sig_handler(s)
  PROVE  SigInv'
<1>0. SigTypeOK /\ current \in Task /\ TaskOK(current)
  BY DEF SigInv, SigTypeOK
<1>1. sig_pending[current] \in SUBSET Sig /\ Fresh(current) \subseteq sig_pending[current]
  BY <1>0 DEF SigTypeOK, TaskOK
<1>2. /\ SetPending(current, sig_pending[current], s,
                    calls[current] # <<>> \/ raising[current] # NotRaising)
      /\ UNCHANGED <<current, sig_hd, signals, reg_signals, calls, raising>>
  BY DEF generic_sig_handler
<1> QED
  BY <1>0, <1>1, <1>2, SetPendingKeeps, Zenon

-----------------------------------------------------------------------------
(* A call of schedule begins: what it is due to serve is all that is       *)
(* fresh, and its loop will come to all of it.                             *)
LEMMA ScheduleKeeps ==
  ASSUME SigInv, NEW t \in Task, NEW tick \in BOOLEAN, Schedule(t, tick)
  PROVE  SigInv'
<1> DEFINE res == signals[t] \cap sig_pending[t]
           c == [stage |-> IF res = {} THEN "pick" ELSE "loop", res |-> res, i |-> 0,
                 due |-> res \cap sig_hd[t], tick |-> tick]
           q == calls[t]
<1>0. SigTypeOK /\ TaskOK(t)
  BY DEF SigInv
<1>1. /\ calls' = [calls EXCEPT ![t] = <<c>> \o q]
      /\ UNCHANGED <<current, sig_hd, signals, sig_pending, reg_signals, raising, owed, late>>
  BY DEF Schedule
<1>2. c \in CallRec /\ q \in Seq(CallRec)
  <2>1. res \in SUBSET Sig
    BY <1>0 DEF SigTypeOK
  <2> QED
    BY <1>0, <2>1, Zenon DEF SigTypeOK, CallRec
<1>3. Serves(c, sig_hd'[t], Fresh(t)')
  <2>1. CASE res = {}
    BY <2>1 DEF Serves
  <2>2. CASE res # {}
    <3>1. Fresh(t)' \subseteq res \cap sig_hd[t]
      BY <1>0, <1>1 DEF TaskOK, Fresh
    <3>2. \A s \in res : s > 0 /\ s <= s
      BY <1>0, SignalAssumption DEF SigTypeOK
    <3> QED
      BY <1>1, <2>2, <3>1, <3>2 DEF Serves
  <2> QED
    BY <2>1, <2>2
<1>4. \A j \in 1 .. Len(q) : Serves(q[j], sig_hd'[t], Fresh(t)')
  BY <1>0, <1>1 DEF TaskOK, Serves, Fresh
<1> HIDE DEF c, q
<1>5. /\ <<c>> \o q \in Seq(CallRec) /\ Len(<<c>> \o q) = Len(q) + 1 /\ Len(q) \in Nat
      /\ \A j \in 1 .. Len(q) + 1 : (<<c>> \o q)[j] = IF j = 1 THEN c ELSE q[j - 1]
  BY <1>2
<1>6. SigTypeOK'
  BY <1>0, <1>1, <1>5 DEF SigTypeOK
<1>7. ASSUME NEW u \in Task \ {t}
      PROVE  TaskOK(u)'
  <2>1. TaskOK(u) /\ calls'[u] = calls[u]
    BY <1>0, <1>1 DEF SigInv, SigTypeOK
  <2> QED
    BY <1>1, <2>1, TaskSame
<1>8. TaskOK(t)'
  <2>1. calls'[t] = <<c>> \o q
    BY <1>0, <1>1 DEF SigTypeOK
  <2>2. \A j \in 1 .. Len(calls'[t]) : Serves(calls'[t][j], sig_hd'[t], Fresh(t)')
    <3>1. TAKE j \in 1 .. Len(calls'[t])
    <3>2. CASE j = 1
      BY <1>3, <1>5, <2>1, <3>1, <3>2 DEF Serves
    <3>3. CASE j # 1
      <4>1. j - 1 \in 1 .. Len(q) /\ calls'[t][j] = q[j - 1]
        BY <1>5, <2>1, <3>1, <3>3
      <4> QED
        BY <1>4, <4>1 DEF Serves
    <3> QED
      BY <3>2, <3>3
  <2> QED
    BY <1>0, <1>1, <2>2, Zenon DEF TaskOK, Fresh
<1> QED
  BY <1>6, <1>7, <1>8 DEF SigInv

(* The innermost call of t becomes d, and t's fresh signals do not grow:   *)
(* the outer calls stay as they were.                                      *)
LEMMA InnermostKeeps ==
  ASSUME SigInv, NEW t \in Task, calls[t] # <<>>, NEW d \in CallRec,
         calls' = [calls EXCEPT ![t] = [calls[t] EXCEPT ![1] = d]],
         UNCHANGED <<current, sig_hd, signals, reg_signals, raising>>,
         sig_pending' \in [Task -> SUBSET Sig],
         owed' \in [Task -> SUBSET Sig], late' \in [Task -> SUBSET Sig],
         \A u \in Task \ {t} : /\ sig_pending'[u] = sig_pending[u]
                               /\ owed'[u] = owed[u] /\ late'[u] = late[u],
         owed'[t] \subseteq owed[t], Fresh(t)' \subseteq Fresh(t),
         Fresh(t)' \subseteq sig_pending'[t], Serves(d, sig_hd'[t], Fresh(t)')
  PROVE  SigInv'
<1>0. SigTypeOK /\ TaskOK(t)
  BY DEF SigInv
<1> DEFINE q == calls[t]
<1>1. q \in Seq(CallRec) /\ Len(q) \in Nat \ {0}
  BY <1>0, EmptySeq DEF SigTypeOK
<1>2. /\ [q EXCEPT ![1] = d] \in Seq(CallRec) /\ Len([q EXCEPT ![1] = d]) = Len(q)
      /\ \A j \in 1 .. Len(q) : [q EXCEPT ![1] = d][j] = IF j = 1 THEN d ELSE q[j]
  BY <1>1
<1>3. calls'[t] = [q EXCEPT ![1] = d]
  BY <1>0 DEF SigTypeOK
<1>4. SigTypeOK'
  BY <1>0, <1>2 DEF SigTypeOK
<1>5. ASSUME NEW u \in Task \ {t}
      PROVE  TaskOK(u)'
  <2>1. TaskOK(u) /\ calls'[u] = calls[u]
    BY <1>0 DEF SigInv, SigTypeOK
  <2> QED
    BY <2>1, TaskSame
<1>6. TaskOK(t)'
  <2>1. \A j \in 1 .. Len(calls'[t]) : Serves(calls'[t][j], sig_hd'[t], Fresh(t)')
    <3>1. TAKE j \in 1 .. Len(calls'[t])
    <3>2. CASE j = 1
      BY <1>2, <1>3, <3>1, <3>2 DEF Serves
    <3>3. CASE j # 1
      <4>1. calls'[t][j] = q[j] /\ j \in 1 .. Len(q)
        BY <1>2, <1>3, <3>1, <3>3
      <4>2. Serves(q[j], sig_hd[t], Fresh(t))
        BY <1>0, <4>1 DEF TaskOK
      <4> QED
        BY <4>1, <4>2 DEF Serves
    <3> QED
      BY <3>2, <3>3
  <2> QED
    BY <1>0, <2>1 DEF TaskOK
<1> QED
  BY <1>4, <1>5, <1>6 DEF SigInv

(* process_signal runs the next handler, or has come to the end and clears *)
(* sig_pending; then nothing fresh is left.                                *)
LEMMA ProcessKeeps ==
  ASSUME SigInv, NEW t \in Task, process_signal(t)
  PROVE  SigInv'
<1> DEFINE c == calls[t][1]
           todo == ToInvoke(t, c)
<1>0. SigTypeOK /\ TaskOK(t)
  BY DEF SigInv
<1>1. calls[t] \in Seq(CallRec) /\ calls[t] # <<>> /\ Len(calls[t]) \in Nat \ {0}
      /\ c.stage # "pick"
  BY <1>0, EmptySeq DEF SigTypeOK, process_signal, At
<1>2. c \in CallRec /\ Serves(c, sig_hd[t], Fresh(t))
  BY <1>0, <1>1 DEF TaskOK
<1>3. Fresh(t) \subseteq c.due /\ c.due \subseteq todo
  BY <1>1, <1>2 DEF Serves, ToInvoke
<1>4. todo \in SUBSET Sig /\ Sig \subseteq Nat /\ c.i \in Nat
  BY <1>0, <1>2, SignalAssumption DEF SigTypeOK, ToInvoke, CallRec
<1>5. UNCHANGED <<current, sig_hd, signals, reg_signals, raising>>
  BY DEF process_signal
<1>6. CASE todo # {}
  <2>1. PICK s \in Sig : s = Min(todo) /\ s \in todo /\ \A y \in todo : s <= y
    BY <1>4, <1>6, LeastSignal, Zenon
  <2> DEFINE d == [c EXCEPT !.stage = "handler", !.i = s, !.due = c.due \ {s}]
  <2>2. invoke_signal_hanlder(t, s) /\ UNCHANGED sig_pending
    BY <1>6, <2>1, Zenon DEF process_signal
  <2>3. calls' = [calls EXCEPT ![t] = [calls[t] EXCEPT ![1] = d]]
    BY <1>0, <1>1, <2>2, ZenonT(60) DEF invoke_signal_hanlder, SigTypeOK
  <2>4. /\ owed' = [owed EXCEPT ![t] = owed[t] \ {s}]
        /\ late' = [late EXCEPT ![t] = late[t] \ {s}]
    BY <2>2 DEF invoke_signal_hanlder
  <2>5. /\ owed' \in [Task -> SUBSET Sig] /\ late' \in [Task -> SUBSET Sig]
        /\ \A u \in Task \ {t} : owed'[u] = owed[u] /\ late'[u] = late[u]
        /\ owed'[t] = owed[t] \ {s} /\ late'[t] = late[t] \ {s}
    BY <1>0, <2>4 DEF SigTypeOK
  <2>6. Fresh(t)' = Fresh(t) \ {s}
    BY <2>5 DEF Fresh
  <2>7. d \in CallRec /\ d.stage = "handler" /\ d.i = s /\ d.due = c.due \ {s} /\ d.res = c.res
    BY <1>2, <1>4, <2>1, Zenon DEF CallRec
  <2>8. Serves(d, sig_hd'[t], Fresh(t)')
    <3>1. \A y \in c.due \ {s} : y \in sig_hd[t] /\ y > s /\ \E r \in c.res : y <= r
      <4>1. TAKE y \in c.due \ {s}
      <4>2. y \in todo /\ y \in Nat /\ s \in Nat
        BY <1>3, <1>4, <4>1, Zenon
      <4>3. y > s
        BY <2>1, <4>1, <4>2
      <4> QED
        BY <4>2, <4>3 DEF ToInvoke
    <3> HIDE DEF d
    <3> QED
      BY <1>3, <1>5, <2>6, <2>7, <3>1 DEF Serves
  <2>9. Fresh(t)' \subseteq sig_pending'[t] /\ sig_pending' \in [Task -> SUBSET Sig]
    BY <1>0, <2>2, <2>6 DEF TaskOK, SigTypeOK
  <2> HIDE DEF d
  <2> QED
    BY <1>1, <1>5, <2>2, <2>3, <2>5, <2>6, <2>7, <2>8, <2>9, InnermostKeeps, Zenon
<1>7. CASE todo = {}
  <2> DEFINE d == [c EXCEPT !.stage = "pick", !.res = {}, !.i = 0]
  <2>1. /\ calls' = [calls EXCEPT ![t][1].stage = "pick", ![t][1].res = {}, ![t][1].i = 0]
        /\ sig_pending' = [sig_pending EXCEPT ![t] = {}]
        /\ UNCHANGED <<owed, late>>
    BY <1>7, Zenon DEF process_signal
  <2>2. calls' = [calls EXCEPT ![t] = [calls[t] EXCEPT ![1] = d]]
    BY <1>0, <1>1, <2>1, ZenonT(60) DEF SigTypeOK
  <2>3. d \in CallRec /\ d.stage = "pick" /\ d.due = c.due
    BY <1>2, Zenon DEF CallRec
  <2>4. Fresh(t)' = {} /\ c.due = {}
    BY <1>3, <1>7, <2>1 DEF Fresh
  <2>5. Serves(d, sig_hd'[t], Fresh(t)')
    BY <2>3, <2>4 DEF Serves
  <2>6. sig_pending' \in [Task -> SUBSET Sig]
        /\ \A u \in Task \ {t} : sig_pending'[u] = sig_pending[u]
    BY <1>0, <2>1 DEF SigTypeOK
  <2>7. owed \in [Task -> SUBSET Sig] /\ late \in [Task -> SUBSET Sig]
    BY <1>0 DEF SigTypeOK
  <2> HIDE DEF d
  <2> QED
    BY <1>1, <1>5, <2>1, <2>2, <2>3, <2>4, <2>5, <2>6, <2>7, InnermostKeeps, Zenon
<1> QED
  BY <1>6, <1>7

(* The pick ends the innermost call.                                       *)
LEMMA PickKeeps ==
  ASSUME SigInv, NEW t \in Task, NEW u \in Task, Pick(t, u)
  PROVE  SigInv'
<1>0. SigTypeOK /\ TaskOK(t)
  BY DEF SigInv
<1> DEFINE q == calls[t]
<1>1. /\ calls' = [calls EXCEPT ![t] = Tail(q)] /\ current' = u /\ q # <<>>
      /\ UNCHANGED <<sig_hd, signals, sig_pending, reg_signals, raising, owed, late>>
  BY DEF Pick, At
<1>2. q \in Seq(CallRec)
  BY <1>0 DEF SigTypeOK
<1>3. /\ Tail(q) \in Seq(CallRec) /\ Len(Tail(q)) = Len(q) - 1 /\ Len(q) \in Nat
      /\ \A j \in 1 .. Len(Tail(q)) : Tail(q)[j] = q[j + 1]
  BY <1>1, <1>2, HeadTailProperties, LenProperties
<1>4. SigTypeOK'
  BY <1>0, <1>1, <1>3 DEF SigTypeOK
<1>5. ASSUME NEW v \in Task \ {t}
      PROVE  TaskOK(v)'
  <2>1. TaskOK(v) /\ calls'[v] = calls[v]
    BY <1>0, <1>1 DEF SigInv, SigTypeOK
  <2> QED
    BY <1>1, <2>1, TaskSame
<1>6. TaskOK(t)'
  <2>1. calls'[t] = Tail(q)
    BY <1>0, <1>1 DEF SigTypeOK
  <2>2. \A j \in 1 .. Len(calls'[t]) : Serves(calls'[t][j], sig_hd'[t], Fresh(t)')
    <3>1. TAKE j \in 1 .. Len(calls'[t])
    <3>2. calls'[t][j] = q[j + 1] /\ j + 1 \in 1 .. Len(q)
      BY <1>3, <2>1, <3>1
    <3>3. Serves(q[j + 1], sig_hd[t], Fresh(t))
      BY <1>0, <3>2 DEF TaskOK
    <3> QED
      BY <1>1, <3>2, <3>3 DEF Serves, Fresh
  <2> QED
    BY <1>0, <1>1, <2>2, Zenon DEF TaskOK, Fresh
<1> QED
  BY <1>4, <1>5, <1>6 DEF SigInv

-----------------------------------------------------------------------------
(* SigInv is inductive.                                                    *)
LEMMA SigInvariance ==
  Spec => []SigInv
<1>1. Init => SigInv
  <2>1. SUFFICES ASSUME Init
                 PROVE  SigInv
    OBVIOUS
  <2>2. <<>> \in Seq(CallRec) /\ Len(<<>>) = 0
    BY EmptySeq
  <2>3. SigTypeOK
    BY <2>1, <2>2 DEF Init, SigTypeOK, Empty, RaiseRec
  <2>4. \A t \in Task : TaskOK(t)
    BY <2>1, <2>2 DEF Init, TaskOK, Fresh, Empty
  <2> QED
    BY <2>3, <2>4 DEF SigInv
<1>2. SigInv /\ [Next]_vars => SigInv'
  <2> SUFFICES ASSUME SigInv, [Next]_vars
               PROVE  SigInv'
    OBVIOUS
  <2>1. CASE \E t \in Task, s \in Sig, h \in Handler : tm_signal(t, s, h)
    BY <2>1, RegisterKeeps
  <2>2. CASE \E t \in Task : tm_raise(t)
    BY <2>2, RaiseKeeps
  <2>3. CASE \E t \in Task, tick \in BOOLEAN : Schedule(t, tick)
    BY <2>3, ScheduleKeeps
  <2>4. CASE \E t \in Task : process_signal(t)
    BY <2>4, ProcessKeeps
  <2>5. CASE \E t \in Task, u \in Task : Pick(t, u)
    BY <2>5, PickKeeps
  <2>6. CASE \E s \in Sig : generic_sig_handler(s)
    BY <2>6, OsSignalKeeps
  <2>7. CASE UNCHANGED vars
    <3>1. SigTypeOK'
      BY <2>7 DEF vars, SigInv, SigTypeOK
    <3>2. \A t \in Task : TaskOK(t)'
      BY <2>7, TaskSame DEF vars, SigInv
    <3> QED
      BY <3>1, <3>2 DEF SigInv
  <2> QED
    BY <2>1, <2>2, <2>3, <2>4, <2>5, <2>6, <2>7 DEF Next
<1> QED
  BY <1>1, <1>2, PTL DEF Spec

(* A signal with a handler is lost only through the two windows of         *)
(* LostOnlyInWindow, whatever ticks and OS signals interrupt schedule,     *)
(* tm_raise and the handlers themselves, and to whatever depth they nest.  *)
THEOREM AlwaysLostInWindow ==
  Spec => []LostOnlyInWindow
<1>1. SigInv => LostOnlyInWindow
  BY Zenon DEF SigInv, TaskOK, Fresh, LostOnlyInWindow
<1> QED
  BY <1>1, SigInvariance, PTL

(* Every process_signal, nested or not, has run a handler for each signal  *)
(* that was pending and had one when it was called, before it clears       *)
(* sig_pending.                                                            *)
THEOREM AlwaysServesAll ==
  Spec => []ServesAll
<1>1. SigInv => ServesAll
  BY DEF SigInv, TaskOK, Serves, ServesAll
<1> QED
  BY <1>1, SigInvariance, PTL
=============================================================================
