------------------------------- MODULE TskEvt -------------------------------
(***************************************************************************)
(* Tasks and their events in the NORMAL build (TASK/src/tsk_main.c,        *)
(* tsk_lnx.c, tsk_util.c): one thread calls task_create and task_delete,   *)
(* every new thread enters itself on tsk_hd, receivers loop over evt_rx    *)
(* and senders call evt_snd with ids that task_create returned.            *)
(*                                                                         *)
(* tsk_hd has no lock: list_add and list_del are one step per access that  *)
(* another thread can see.  The bodies of evt_snd and of evt_rx between    *)
(* two waits hold evt_mtx and are one step; the search for the task before *)
(* them is another.                                                        *)
(***************************************************************************)
EXTENDS Integers, FiniteSets

CONSTANTS
  Task,       \* every tmtask_t, each with the thread it is for
  Event,
  Wants,      \* Wants[t]: the mask t gives to evt_rx, {} for a sender
  Deletes,    \* tasks the program calls task_delete for
  Hd, None    \* &tsk_hd and the NULL pointer

Receiver == {t \in Task : Wants[t] # {}}
Node == Task \cup {Hd}

ASSUME EvtAssumption ==
  /\ IsFiniteSet(Task) /\ Wants \in [Task -> SUBSET Event]
  /\ Deletes \subseteq Task /\ Hd \notin Task /\ None \notin Node

VARIABLES
  cr,         \* the task that task_create has started and not yet numbered
  known,      \* tasks with task_id set: task_create has returned
  nxt, prv,   \* links of tsk_hd
  pc,         \* thread of a task
  seen,       \* the old first node a list_add has read, or the task evt_snd found
  curr_evt,
  del,        \* task_delete: where it is, its task, and neighbours read
  gone,       \* tasks whose mutexes and condition were destroyed
  freed,      \* tasks whose tmtask_t was freed, and whose thread cancelled
  busy,       \* history: task_delete overlapped an evt_rx or evt_snd on its task
  raced,      \* history: a list_add overlapped a list_add or a list_del
  bad         \* a call followed a "null" pointer or "used" a deleted task

links == <<nxt, prv>>
evts  == <<pc, seen, curr_evt>>
dels  == <<del, gone, freed>>
vars  == <<cr, known, links, evts, dels, busy, raced, bad>>

Idle == [pc |-> "idle", t |-> None, p |-> Hd, n |-> Hd]

Init ==
  /\ cr = None /\ known = {}
  /\ nxt = [n \in Node |-> Hd] /\ prv = [n \in Node |-> Hd]
  /\ pc = [t \in Task |-> "none"]
  /\ seen = [t \in Task |-> None]
  /\ curr_evt = [t \in Task |-> {}]
  /\ del = Idle /\ gone = {} /\ freed = {}
  /\ busy = FALSE /\ raced = FALSE /\ bad = "none"

At(t, l) == bad = "none" /\ pc[t] = l
Goto(t, l) == pc' = [pc EXCEPT ![t] = l]

-----------------------------------------------------------------------------
(* task_create, in one thread.  A call that fails before pthread_create    *)
(* changes nothing; one whose pthread_create fails leaves a task nobody    *)
(* runs.                                                                   *)
task_create(t) ==
  /\ bad = "none" /\ cr = None /\ del = Idle /\ pc[t] = "none"
  /\ \/ cr' = t /\ Goto(t, "wrap")
     \/ Goto(t, "failed") /\ UNCHANGED cr
  /\ UNCHANGED <<known, links, seen, curr_evt, dels, busy, raced, bad>>

(* start_task after pthread_create: the new thread may be under way. *)
start_task ==
  /\ bad = "none" /\ cr # None
  /\ known' = known \cup {cr}
  /\ cr' = None
  /\ UNCHANGED <<links, evts, dels, busy, raced, bad>>

(* tsk_wrap: list_add reads the first node, makes the new one its          *)
(* predecessor, and links it to the head.                                  *)
Adding == {t \in Task : pc[t] \in {"prev", "link"}}
Deleting == del.pc \in {"prev", "next"}

AddRead(t) ==
  /\ At(t, "wrap")
  /\ seen' = [seen EXCEPT ![t] = nxt[Hd]]
  /\ raced' = (raced \/ Adding # {} \/ Deleting)
  /\ Goto(t, "prev")
  /\ UNCHANGED <<cr, known, links, curr_evt, dels, busy, bad>>

(* Mutant: the new node is linked to the head before it is filled. *)
AddPrevPublishes(t) ==
  /\ At(t, "prev")
  /\ nxt' = [nxt EXCEPT ![Hd] = t, ![t] = seen[t]]
  /\ Goto(t, "link")
  /\ UNCHANGED <<cr, known, prv, seen, curr_evt, dels, busy, raced, bad>>

AddPrev(t) ==
  /\ At(t, "prev")
  /\ prv' = [prv EXCEPT ![seen[t]] = t, ![t] = Hd]
  /\ nxt' = [nxt EXCEPT ![t] = seen[t]]
  /\ bad' = IF seen[t] \in freed THEN "used" ELSE bad
  /\ Goto(t, "link")
  /\ UNCHANGED <<cr, known, seen, curr_evt, dels, busy, raced>>

AddLink(t) ==
  /\ At(t, "link")
  /\ nxt' = [nxt EXCEPT ![Hd] = t]
  /\ seen' = [seen EXCEPT ![t] = None]
  /\ Goto(t, "run")
  /\ UNCHANGED <<cr, known, prv, curr_evt, dels, busy, raced, bad>>

tsk_wrap(t) == AddRead(t) \/ AddPrev(t) \/ AddLink(t)

-----------------------------------------------------------------------------
(* The tasks a walk of tsk_hd meets before it ends or has found u. *)
Walk(u) ==
  LET w[n \in Node, left \in 0 .. Cardinality(Task)] ==
        IF n = Hd THEN {}
        ELSE IF (n = u /\ u \in known) \/ left = 0 THEN {n}
        ELSE {n} \cup w[nxt[n], left - 1]
  IN  w[nxt[Hd], Cardinality(Task)]

Listed == Walk(None)

(* Mutant: the search ends at the first task. *)
FindFirst(t) == t = nxt[Hd] /\ t \in known

get_tsk_info_frm_id(t) == t \in Listed /\ t \in known

(* A search meets a node that was freed. *)
Dangles(u) == Walk(u) \cap freed # {}

(* evt_rx on the thread's own id.  A task that is not found gets           *)
(* TSK_FAILURE back, and tick_service calls again.                         *)
EvtRxFind(t) ==
  /\ t \in Receiver /\ At(t, "run")
  /\ \/ Dangles(t) /\ bad' = "used" /\ UNCHANGED <<pc, busy>>
     \/ /\ ~Dangles(t) /\ get_tsk_info_frm_id(t)
        /\ Goto(t, "test")
        /\ busy' = (busy \/ t \in gone)
        /\ UNCHANGED bad
  /\ UNCHANGED <<cr, known, links, seen, curr_evt, dels, raced>>

(* Mutant: the events must be the very ones asked for. *)
EvtRxEqual(t) ==
  /\ At(t, "test")
  /\ Goto(t, IF curr_evt[t] = Wants[t] THEN "run" ELSE "wait")
  /\ curr_evt' = [curr_evt EXCEPT ![t] = IF @ = Wants[t] THEN {} ELSE @]
  /\ UNCHANGED <<cr, known, links, seen, dels, busy, raced, bad>>

(* Every pending event is handed out when one of those asked for is among  *)
(* them.                                                                   *)
evt_rx(t) ==
  /\ At(t, "test")
  /\ \/ t \in gone /\ bad' = "used" /\ UNCHANGED evts
     \/ /\ t \notin gone /\ curr_evt[t] \cap Wants[t] # {}
        /\ curr_evt' = [curr_evt EXCEPT ![t] = {}]
        /\ Goto(t, "run")
        /\ UNCHANGED <<seen, bad>>
     \/ /\ t \notin gone /\ curr_evt[t] \cap Wants[t] = {}
        /\ Goto(t, "wait")
        /\ UNCHANGED <<seen, curr_evt, bad>>
  /\ UNCHANGED <<cr, known, links, dels, busy, raced>>

(* pthread_cond_wait may return without a signal. *)
SpuriousWakeup(t) ==
  /\ At(t, "wait")
  /\ Goto(t, "test")
  /\ UNCHANGED <<cr, known, links, seen, curr_evt, dels, busy, raced, bad>>

(* evt_snd does not test the task it found. *)
EvtSndFind(t, u) ==
  /\ t \in Task \ Receiver /\ At(t, "run") /\ u \in Receiver \cap known
  /\ \/ Dangles(u) /\ bad' = "used" /\ UNCHANGED <<pc, seen, busy>>
     \/ /\ ~Dangles(u) /\ get_tsk_info_frm_id(u)
        /\ seen' = [seen EXCEPT ![t] = u]
        /\ Goto(t, "snd")
        /\ busy' = (busy \/ u \in gone)
        /\ UNCHANGED bad
     \/ /\ ~Dangles(u) /\ ~get_tsk_info_frm_id(u)
        /\ bad' = "null" /\ UNCHANGED <<pc, seen, busy>>
  /\ UNCHANGED <<cr, known, links, curr_evt, dels, raced>>

(* Mutant: signalled only when no event was pending. *)
EvtSndOnFirst(t, e) ==
  /\ At(t, "snd")
  /\ curr_evt' = [curr_evt EXCEPT ![seen[t]] = @ \cup {e}]
  /\ pc' = [pc EXCEPT ![t] = "run",
                      ![seen[t]] = IF @ = "wait" /\ curr_evt[seen[t]] = {} THEN "test" ELSE @]
  /\ seen' = [seen EXCEPT ![t] = None]
  /\ UNCHANGED <<cr, known, links, dels, busy, raced, bad>>

evt_snd(t, e) ==
  /\ At(t, "snd")
  /\ \/ seen[t] \in gone /\ bad' = "used" /\ UNCHANGED evts
     \/ /\ seen[t] \notin gone
        /\ curr_evt' = [curr_evt EXCEPT ![seen[t]] = @ \cup {e}]
        /\ pc' = [pc EXCEPT ![t] = "run", ![seen[t]] = IF @ = "wait" THEN "test" ELSE @]
        /\ seen' = [seen EXCEPT ![t] = None]
        /\ UNCHANGED bad
  /\ UNCHANGED <<cr, known, links, dels, busy, raced>>

-----------------------------------------------------------------------------
(* task_delete, in the thread that creates.  A task it does not find it    *)
(* leaves alone; deinit_tsk destroys what a thread may be waiting on.      *)
DeinitTsk(t) ==
  /\ bad = "none" /\ cr = None /\ del = Idle
  /\ t \in Deletes \cap known /\ t \notin gone
  /\ \/ Dangles(t) /\ bad' = "used" /\ UNCHANGED <<del, gone, busy>>
     \/ /\ ~Dangles(t) /\ get_tsk_info_frm_id(t)
        /\ del' = [Idle EXCEPT !.pc = "read", !.t = t]
        /\ gone' = gone \cup {t}
        /\ busy' = (busy \/ pc[t] \in {"test", "wait"}
                        \/ \E u \in Task : pc[u] = "snd" /\ seen[u] = t)
        /\ bad' = IF pc[t] = "wait" THEN "used" ELSE "none"
  /\ UNCHANGED <<cr, known, links, evts, freed, raced>>

(* tsk_node_del: list_del reads both neighbours, then joins them. *)
DelRead ==
  /\ bad = "none" /\ del.pc = "read"
  /\ del' = [del EXCEPT !.pc = "prev", !.p = prv[del.t], !.n = nxt[del.t]]
  /\ raced' = (raced \/ Adding # {})
  /\ UNCHANGED <<cr, known, links, evts, gone, freed, busy, bad>>

DelPrev ==
  /\ bad = "none" /\ del.pc = "prev"
  /\ prv' = [prv EXCEPT ![del.n] = del.p]
  /\ bad' = IF del.n \in freed THEN "used" ELSE "none"
  /\ del' = [del EXCEPT !.pc = "next"]
  /\ UNCHANGED <<cr, known, nxt, evts, gone, freed, busy, raced>>

(* Mutant: the node is passed over in one direction only. *)
DelNextForgotten ==
  /\ bad = "none" /\ del.pc = "next"
  /\ del' = [del EXCEPT !.pc = "free"]
  /\ UNCHANGED <<cr, known, links, evts, gone, freed, busy, raced, bad>>

DelNext ==
  /\ bad = "none" /\ del.pc = "next"
  /\ nxt' = [nxt EXCEPT ![del.p] = del.n]
  /\ bad' = IF del.p \in freed THEN "used" ELSE "none"
  /\ del' = [del EXCEPT !.pc = "free"]
  /\ UNCHANGED <<cr, known, prv, evts, gone, freed, busy, raced>>

(* tsk_cancel and tsk_dealloc. *)
tsk_cancel ==
  /\ bad = "none" /\ del.pc = "free"
  /\ freed' = freed \cup {del.t}
  /\ del' = Idle
  /\ UNCHANGED <<cr, known, links, evts, gone, busy, raced, bad>>

task_delete == DelRead \/ DelPrev \/ DelNext \/ tsk_cancel

(* The thread comes to a point where it can be cancelled. *)
Cancelled(t) ==
  /\ At(t, "run") /\ t \in freed
  /\ Goto(t, "ended")
  /\ UNCHANGED <<cr, known, links, seen, curr_evt, dels, busy, raced, bad>>

Thread(t) == tsk_wrap(t) \/ EvtRxFind(t) \/ evt_rx(t)

Next ==
  \/ start_task \/ task_delete
  \/ \E t \in Task :
       \/ task_create(t) \/ DeinitTsk(t) \/ Thread(t) \/ SpuriousWakeup(t) \/ Cancelled(t)
       \/ \E u \in Task : EvtSndFind(t, u)
       \/ \E e \in Event : evt_snd(t, e)

Spec == Init /\ [][Next]_vars

(* The OS schedules every thread; a sender need not send. *)
FairSpec ==
  /\ Spec
  /\ WF_vars(start_task) /\ WF_vars(task_delete)
  /\ \A t \in Task : WF_vars(Thread(t)) /\ WF_vars(\E e \in Event : evt_snd(t, e))

-----------------------------------------------------------------------------
(* Properties.                                                             *)

(* Threads whose tsk_node_add has ended, and tasks off the list again. *)
Entered  == {t \in Task : pc[t] \in {"run", "test", "wait", "snd", "ended"}}
Unlinked == freed \cup (IF del.pc = "free" THEN {del.t} ELSE {})

(* A walk of tsk_hd meets exactly the threads whose tsk_node_add has ended *)
(* and whose tsk_node_del has not, while no two of these overlapped: no    *)
(* list_add or list_del hides another task from evt_snd, not even half way *)
(* through.  An overlap can drop tasks off tsk_hd or leave deleted ones on *)
(* it, but never puts one there that has not got so far.                   *)
RegistryExact ==
  /\ Listed \subseteq Entered
  /\ ~raced => Listed = Entered \ Unlinked

(* evt_snd follows a NULL pointer only for a task whose thread has not yet *)
(* entered it on tsk_hd, though task_create has returned its id, or which  *)
(* was deleted, or which an overlap on the list dropped.                   *)
NullOnlyWhenUnlisted ==
  bad = "null" => raced \/ \E t \in Receiver \cap known : t \notin Entered \ Unlinked

(* The memory, mutexes and condition of a deleted task are used only if    *)
(* task_delete overlapped an evt_rx of that task or an evt_snd to it, or   *)
(* an overlap damaged tsk_hd.  Otherwise deletion is safe, whatever other  *)
(* tasks do meanwhile, and late calls with the old id do not find the task.*)
DeletedUnused == bad = "used" => busy \/ raced

(* evt_rx never sleeps on an event: while the thread waits on tsk_cnd none *)
(* of the events it asked for is pending.                                  *)
NoSleepThroughEvent ==
  \A t \in Task : pc[t] = "wait" => curr_evt[t] \cap Wants[t] = {}

(* An event evt_snd has set is handed out by evt_rx in the end, unless the *)
(* receiver is deleted or an overlap dropped it off tsk_hd.                *)
EventReceived ==
  \A t \in Receiver : \A e \in Event :
    (e \in curr_evt[t] /\ e \in Wants[t])
      ~> (e \notin curr_evt[t] \/ t \in gone \/ bad # "none" \/ raced)
=============================================================================
