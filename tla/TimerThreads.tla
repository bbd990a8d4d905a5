---------------------------- MODULE TimerThreads ----------------------------
(***************************************************************************)
(* The threads of the NORMAL build's timer manager (TIMERS/src with        *)
(* TASK/src/tsk_lnx.c): tick_clock sweeps a tree of timers and puts the    *)
(* expired ones on expd_tmrs, tick_service runs their handlers, and        *)
(* application threads call mod_timer and del_timer on timers made by      *)
(* setup_timer (TIMER_FOREVER: their TIMER_T is not freed on expiry).      *)
(* start_timer places its timers in the same way.                          *)
(*                                                                         *)
(* One tree and its clock stand for the wheel: what the four trees do with *)
(* a time is the subject of TimerWheel.  A step is what a thread does      *)
(* between two points where another thread can see the difference: under   *)
(* the lock of a tree, one load or store of tmrrq.count, one write to the  *)
(* links of expd_tmrs.                                                     *)
(***************************************************************************)
EXTENDS Integers, FiniteSets

CONSTANTS
  Timer,      \* every TIMER_T; each has an application thread that uses it
  Repeats,    \* timers whose handler calls mod_timer again
  Stops,      \* timers the application calls del_timer for
  Head, None, \* &expd_tmrs and the NULL pointer
  Svc,        \* the tick_service thread
  Durations,  \* bound: ticks a timer is started with
  MaxTick,    \* bound: ticks that happen
  MaxArm,     \* bound: calls of mod_timer for one timer
  CountMod    \* tmrrq.count is unsigned and wraps here

(* The APP_TIMER_Ts there is memory for.  A timer has two when its handler *)
(* or its application starts it again before process_expd_timers has       *)
(* released the first.                                                     *)
App == Timer \X {0, 1}
TimerOf(o) == o[1]
Node == App \cup {Head}

ASSUME ThreadsAssumption ==
  /\ IsFiniteSet(Timer) /\ Repeats \subseteq Timer /\ Stops \subseteq Timer
  /\ Svc \notin Timer /\ None \notin Node /\ Head \notin App
  /\ Durations \subseteq Nat \ {0} /\ MaxTick \in Nat /\ MaxArm \in Nat
  /\ CountMod \in Nat \ {0, 1}

VARIABLES
  clk,        \* clk[wheel]
  tree,       \* objects in tmrrq.root[wheel]
  rt, exp,    \* rt of an object; exp of a timer
  run,        \* timer->is_running
  apptimer,   \* timer->apptimer
  live,       \* objects allocated and not freed
  count,      \* tmrrq.count
  nxt, prv,   \* links of expd_tmrs
  evt,        \* TMR_SERVE_TIMERS is set in curr_evt of tick_service
  k,          \* tick thread: pc, object, copy of count, old tail, expired any
  s,          \* service thread: pc, object, next object, its old neighbours
  a,          \* thread that calls the API: pc, timer, ticks, copy of count
  arms,       \* history: calls of mod_timer
  expired,    \* history: objects timer_expiry_action put on expd_tmrs
  raced,      \* history: an insertion and a deletion on expd_tmrs overlapped
  clash,      \* history: del_timer overlapped the expiry of its timer
  bad         \* memory was used after free, or a tree was damaged

wheel  == <<clk, tree, rt, exp, run, apptimer, live, count>>
expd   == <<nxt, prv, expired, raced, clash>>
vars   == <<wheel, expd, evt, k, s, a, arms, bad>>

Caller == Timer \cup {Svc}

Init ==
  /\ clk = 0 /\ tree = {} /\ live = {} /\ count = 0
  /\ rt = [o \in App |-> 0] /\ exp = [t \in Timer |-> 0]
  /\ run = [t \in Timer |-> FALSE]
  /\ apptimer = [t \in Timer |-> None]
  /\ nxt = [n \in Node |-> Head] /\ prv = [n \in Node |-> Head]
  /\ evt = FALSE
  /\ k = [pc |-> "sleep", o |-> None, reg |-> 0, tail |-> Head, any |-> FALSE]
  /\ s = [pc |-> "rx", o |-> None, next |-> Head, p |-> Head, n |-> Head]
  /\ a = [c \in Caller |-> [pc |-> "idle", t |-> None, d |-> 0, reg |-> 0]]
  /\ arms = [t \in Timer |-> 0]
  /\ expired = {} /\ raced = FALSE /\ clash = FALSE /\ bad = FALSE

-----------------------------------------------------------------------------
(* Callers of the API.                                                     *)

At(c, l) == ~bad /\ a[c].pc = l
Goto(c, l) == a' = [a EXCEPT ![c].pc = l]

(* The object tm_calloc returns; when there is none mod_timer fails. *)
Fresh(t) == {o \in App \ live : TimerOf(o) = t}

(* mod_timer: allocates, and calc_time computes exp. *)
mod_timer(c, t, d) ==
  /\ arms[t] < MaxArm
  /\ \E o \in Fresh(t) :
       /\ live' = live \cup {o}
       /\ apptimer' = [apptimer EXCEPT ![t] = o]
       /\ a' = [a EXCEPT ![c] = [pc |-> "place", t |-> o, d |-> d, reg |-> 0]]
  /\ exp' = [exp EXCEPT ![t] = clk + d]
  /\ arms' = [arms EXCEPT ![t] = @ + 1]
  /\ UNCHANGED <<clk, tree, rt, run, count, evt, expd, k, bad>>

(* The application starts a timer that timer_pending says is not running. *)
AppStart(t, d) ==
  /\ At(t, "idle") /\ ~run[t]
  /\ mod_timer(t, t, d)
  /\ UNCHANGED s

(* find_tmr_slot_and_place: reads the clock ... *)
Place(c) ==
  /\ At(c, "place")
  /\ rt' = [rt EXCEPT ![a[c].t] = clk + a[c].d]
  /\ run' = [run EXCEPT ![TimerOf(a[c].t)] = TRUE]
  /\ Goto(c, "add")
  /\ UNCHANGED <<clk, tree, exp, apptimer, live, count, evt, expd, k, s, arms, bad>>

(* ... and timer_add links the object, under the lock of the tree. *)
timer_add(c) ==
  /\ At(c, "add")
  /\ tree' = tree \cup {a[c].t}
  /\ Goto(c, "inc")
  /\ UNCHANGED <<clk, rt, exp, run, apptimer, live, count, evt, expd, k, s, arms, bad>>

LoadCount(c, from, to) ==
  /\ At(c, from)
  /\ a' = [a EXCEPT ![c].reg = count, ![c].pc = to]
  /\ UNCHANGED <<wheel, evt, expd, k, s, arms, bad>>

StoreCount(c, from, v) ==
  /\ At(c, from)
  /\ count' = v % CountMod
  /\ a' = [a EXCEPT ![c] = [pc |-> "idle", t |-> None, d |-> 0, reg |-> 0]]
  /\ UNCHANGED <<clk, tree, rt, exp, run, apptimer, live, evt, expd, k, s, arms, bad>>

INC_TIMER_COUNT(c) ==
  LoadCount(c, "inc", "inc_st") \/ StoreCount(c, "inc_st", a[c].reg + 1)

(* Mutant: del_timer does not ask whether the timer is running. *)
DelTimerUnguarded(t) ==
  /\ t \in Stops /\ At(t, "idle") /\ apptimer[t] # None
  /\ Goto(t, "erase")
  /\ UNCHANGED <<wheel, evt, expd, k, s, arms, bad>>

(* del_timer stops a timer that has an object and is running. *)
del_timer(t) ==
  /\ t \in Stops /\ At(t, "idle") /\ apptimer[t] # None /\ run[t]
  /\ Goto(t, "erase")
  /\ UNCHANGED <<wheel, evt, expd, k, s, arms, bad>>

(* An object of the timer is between timer_tree_walk and its release, or   *)
(* the release has cleared apptimer.                                       *)
Expiring(t) ==
  apptimer[t] = None \/ \E o \in expired \cup ({k.o} \ {None}) : TimerOf(o) = t

(* stop_timer: timer_del.  rb_erase of a node that is in no tree follows   *)
(* links that are no longer valid.                                         *)
StopErase(t) ==
  /\ At(t, "erase")
  /\ bad' = (apptimer[t] \notin tree)
  /\ tree' = tree \ {apptimer[t]}
  /\ clash' = (clash \/ Expiring(t))
  /\ Goto(t, "free")
  /\ UNCHANGED <<clk, rt, exp, run, apptimer, live, count, nxt, prv, expired, raced, evt, k, s, arms>>

(* stop_timer: frees the object timer->apptimer points to by now, if any,  *)
(* and leaves that pointer as it is.                                       *)
InUse == tree \cup expired \cup {k.o} \cup {a[c].t : c \in Caller}

StopFree(t) ==
  /\ At(t, "free")
  /\ run' = [run EXCEPT ![t] = FALSE]
  /\ bad' = (apptimer[t] # None /\ (apptimer[t] \in InUse \/ apptimer[t] \notin live))
  /\ live' = live \ {apptimer[t]}
  /\ clash' = (clash \/ Expiring(t))
  /\ Goto(t, "dec")
  /\ UNCHANGED <<clk, tree, rt, exp, apptimer, count, nxt, prv, expired, raced, evt, k, s, arms>>

DEC_TIMER_COUNT(t) ==
  LoadCount(t, "dec", "dec_st") \/ StoreCount(t, "dec_st", a[t].reg - 1)

-----------------------------------------------------------------------------
(* The tick thread.                                                        *)

KAt(l) == ~bad /\ k.pc = l

(* update_times: the clock moves, and the trees are swept if the count and *)
(* then the tree, read without its lock, say there is a timer to look at.  *)
update_times ==
  /\ KAt("sleep") /\ clk < MaxTick
  /\ clk' = clk + 1
  /\ k' = [k EXCEPT !.pc = "pending"]
  /\ UNCHANGED <<tree, rt, exp, run, apptimer, live, count, evt, expd, s, a, arms, bad>>

timers_pending_for_service ==
  /\ \/ KAt("pending") /\ k' = [k EXCEPT !.pc = IF count # 0 THEN "first" ELSE "sleep"]
     \/ KAt("first") /\ k' = [k EXCEPT !.pc = IF tree # {} THEN "walk" ELSE "sleep"]
  /\ UNCHANGED <<wheel, evt, expd, s, a, arms, bad>>

(* timer_tree_walk finds an object with this very rt, or the sweep ends. *)
timer_tree_walk ==
  /\ KAt("walk")
  /\ \/ \E o \in tree : rt[o] = clk /\ k' = [k EXCEPT !.pc = "del", !.o = o]
     \/ /\ \A o \in tree : rt[o] # clk
        /\ k' = [k EXCEPT !.pc = IF k.any THEN "snd" ELSE "sleep"]
  /\ UNCHANGED <<wheel, evt, expd, s, a, arms, bad>>

timer_del ==
  /\ KAt("del")
  /\ bad' = (k.o \notin tree)
  /\ tree' = tree \ {k.o}
  /\ k' = [k EXCEPT !.pc = "dec"]
  /\ UNCHANGED <<clk, rt, exp, run, apptimer, live, count, evt, expd, s, a, arms>>

(* timer_expiry_action: takes the timer off the count, and clears          *)
(* is_running once it has.                                                 *)
ExpLoad ==
  /\ KAt("dec")
  /\ k' = [k EXCEPT !.reg = count, !.pc = "dec_st"]
  /\ UNCHANGED <<wheel, evt, expd, s, a, arms, bad>>

ExpStore ==
  /\ KAt("dec_st")
  /\ count' = (k.reg - 1) % CountMod
  /\ k' = [k EXCEPT !.reg = 0, !.pc = "clear"]
  /\ UNCHANGED <<clk, tree, rt, exp, run, apptimer, live, evt, expd, s, a, arms, bad>>

ExpClear ==
  /\ KAt("clear")
  /\ run' = [run EXCEPT ![TimerOf(k.o)] = FALSE]
  /\ k' = [k EXCEPT !.pc = "tail"]
  /\ UNCHANGED <<clk, tree, rt, exp, apptimer, live, count, evt, expd, s, a, arms, bad>>

(* list_add_tail: reads the old tail, points the head at the new object,   *)
(* links the old tail to it.  The service thread takes no lock either.     *)
Deleting == s.pc \in {"del_prev", "del_next"}
Adding == k.pc \in {"add", "link"}

AddTail ==
  /\ KAt("tail")
  /\ k' = [k EXCEPT !.tail = prv[Head], !.pc = "add"]
  /\ raced' = (raced \/ Deleting)
  /\ UNCHANGED <<wheel, nxt, prv, expired, clash, evt, s, a, arms, bad>>

AddHead ==
  /\ KAt("add")
  /\ prv' = [prv EXCEPT ![Head] = k.o, ![k.o] = k.tail]
  /\ nxt' = [nxt EXCEPT ![k.o] = Head]
  /\ k' = [k EXCEPT !.pc = "link"]
  /\ UNCHANGED <<wheel, expired, raced, clash, evt, s, a, arms, bad>>

(* Mutant: the old tail is not linked to the new object. *)
AddLinkForgotten ==
  /\ KAt("link")
  /\ expired' = expired \cup {k.o}
  /\ k' = [k EXCEPT !.pc = "walk", !.o = None, !.tail = Head, !.any = TRUE]
  /\ UNCHANGED <<wheel, nxt, prv, raced, clash, evt, s, a, arms, bad>>

AddLink ==
  /\ KAt("link")
  /\ nxt' = [nxt EXCEPT ![k.tail] = k.o]
  /\ bad' = (k.tail \notin live \cup {Head})
  /\ expired' = expired \cup {k.o}
  /\ k' = [k EXCEPT !.pc = "walk", !.o = None, !.tail = Head, !.any = TRUE]
  /\ UNCHANGED <<wheel, prv, raced, clash, evt, s, a, arms>>

(* Mutant: the event is not sent. *)
EvtSndForgotten ==
  /\ KAt("snd")
  /\ k' = [k EXCEPT !.pc = "sleep", !.any = FALSE]
  /\ UNCHANGED <<wheel, evt, expd, s, a, arms, bad>>

(* The sweep expired a timer: tick_service gets its event. *)
evt_snd ==
  /\ KAt("snd")
  /\ evt' = TRUE
  /\ k' = [k EXCEPT !.pc = "sleep", !.any = FALSE]
  /\ UNCHANGED <<wheel, expd, s, a, arms, bad>>

-----------------------------------------------------------------------------
(* The service thread.                                                     *)

SAt(l) == ~bad /\ s.pc = l

(* evt_rx waits for the event and clears it. *)
evt_rx ==
  /\ SAt("rx") /\ evt
  /\ evt' = FALSE
  /\ s' = [s EXCEPT !.pc = "first"]
  /\ UNCHANGED <<wheel, expd, k, a, arms, bad>>

(* btm_hlf, process_expd_timers: the first object, and the one after it.   *)
btm_hlf ==
  /\ SAt("first")
  /\ s' = IF nxt[Head] = Head THEN [s EXCEPT !.pc = "rx"]
          ELSE [s EXCEPT !.pc = "handler", !.o = nxt[Head], !.next = nxt[nxt[Head]]]
  /\ UNCHANGED <<wheel, expd, evt, k, a, arms, bad>>

(* time_out_handler: one that starts its timer again calls mod_timer. *)
time_out_handler ==
  /\ SAt("handler") /\ At(Svc, "idle")
  /\ s' = [s EXCEPT !.pc = "del"]
  /\ \/ TimerOf(s.o) \in Repeats /\ \E d \in Durations : mod_timer(Svc, TimerOf(s.o), d)
     \/ (TimerOf(s.o) \in Repeats => arms[TimerOf(s.o)] = MaxArm \/ Fresh(TimerOf(s.o)) = {})
        /\ UNCHANGED <<wheel, expd, evt, k, a, arms, bad>>

(* list_del: reads both neighbours, then links them to each other. *)
DelRead ==
  /\ SAt("del") /\ At(Svc, "idle")
  /\ s' = [s EXCEPT !.p = prv[s.o], !.n = nxt[s.o], !.pc = "del_prev"]
  /\ raced' = (raced \/ Adding)
  /\ UNCHANGED <<wheel, nxt, prv, expired, clash, evt, k, a, arms, bad>>

DelPrev ==
  /\ SAt("del_prev")
  /\ prv' = [prv EXCEPT ![s.n] = s.p]
  /\ s' = [s EXCEPT !.pc = "del_next"]
  /\ UNCHANGED <<wheel, nxt, expired, raced, clash, evt, k, a, arms, bad>>

DelNext ==
  /\ SAt("del_next")
  /\ nxt' = [nxt EXCEPT ![s.p] = s.n]
  /\ s' = [s EXCEPT !.pc = "release"]
  /\ UNCHANGED <<wheel, prv, expired, raced, clash, evt, k, a, arms, bad>>

(* The object is freed, and timer->apptimer cleared whichever object it    *)
(* points to.  The loop goes on with the object read before the handler.   *)
Release ==
  /\ SAt("release")
  /\ apptimer' = [apptimer EXCEPT ![TimerOf(s.o)] = None]
  /\ live' = live \ {s.o}
  /\ expired' = expired \ {s.o}
  /\ s' = IF s.next = Head
          THEN [s EXCEPT !.pc = "rx", !.o = None, !.p = Head, !.n = Head]
          ELSE [s EXCEPT !.pc = "handler", !.o = s.next, !.next = nxt[s.next],
                         !.p = Head, !.n = Head]
  /\ UNCHANGED <<clk, tree, rt, exp, run, count, nxt, prv, raced, clash, evt, k, a, arms, bad>>

-----------------------------------------------------------------------------
Caller_step(c) == Place(c) \/ timer_add(c) \/ INC_TIMER_COUNT(c)

Application(t) ==
  \/ \E d \in Durations : AppStart(t, d)
  \/ del_timer(t) \/ StopErase(t) \/ StopFree(t) \/ DEC_TIMER_COUNT(t)

tick_clock ==
  \/ update_times \/ timers_pending_for_service \/ timer_tree_walk \/ timer_del
  \/ ExpLoad \/ ExpStore \/ ExpClear \/ AddTail \/ AddHead \/ AddLink \/ evt_snd

tick_service ==
  evt_rx \/ btm_hlf \/ time_out_handler \/ DelRead \/ DelPrev \/ DelNext \/ Release

Next ==
  \/ \E c \in Caller : Caller_step(c)
  \/ \E t \in Timer : Application(t)
  \/ tick_clock
  \/ tick_service

Spec == Init /\ [][Next]_vars

(* The threads are scheduled by the OS: one that can go on does.           *)
FairSpec ==
  /\ Spec
  /\ WF_vars(tick_clock) /\ WF_vars(tick_service)
  /\ \A c \in Caller : WF_vars(Caller_step(c))
  /\ \A t \in Timer : WF_vars(StopErase(t) \/ StopFree(t) \/ DEC_TIMER_COUNT(t))

-----------------------------------------------------------------------------
(* Properties.                                                             *)

(* Memory is damaged in two ways only: stop_timer ran while its timer was  *)
(* expiring, from the walk that finds an object of it to the release of    *)
(* that object; or an insertion into expd_tmrs overlapped a deletion from  *)
(* it.  No other interleaving of mod_timer, ticks, handlers and the second *)
(* object of a timer started again early uses a freed object or damages    *)
(* the tree.                                                               *)
DamagedOnlyByOverlap == bad => raced \/ clash

(* The objects a walk from &expd_tmrs meets in at most n steps. *)
Reach(n) ==
  LET f[i \in 0 .. n] == IF i = 0 THEN Head ELSE nxt[f[i - 1]]
  IN  {f[i] : i \in 1 .. n} \ {Head}

(* Without such an overlap expd_tmrs holds the expired timers whose        *)
(* handler is still to run and no other: none is lost while handlers are   *)
(* run, released and started again.                                        *)
ExpiredOnList ==
  ~raced /\ ~bad /\ ~Deleting /\ s.pc # "release" /\ k.pc # "link"
    => Reach(Cardinality(App)) = expired

(* tick_service never misses its event: an expired timer is released after *)
(* its handler has run, unless an overlap damaged the list.                *)
ExpiredIsServed ==
  \A o \in App : o \in expired ~> o \notin expired \/ raced \/ bad

(* "Oopss negative remainiting time": a running timer that the tick thread *)
(* has not in hand is due in the future, once its tick has been swept.     *)
RemainingNotNegative ==
  \A t \in Timer : run[t] /\ k.pc = "sleep" /\ a[t].pc = "idle" => exp[t] >= clk
=============================================================================
