----------------------------- MODULE TaskSignal -----------------------------
(***************************************************************************)
(* Signals of SFS tasks: tm_signal and tm_raise of core/thread_lib.c,      *)
(* generic_sig_handler and process_signal of core/interrupt.c, and         *)
(* schedule of core/sched.c, which runs the handlers of the current task   *)
(* before it picks the next one.                                           *)
(*                                                                         *)
(* Which task is picked is the subject of SfsSched; here any may be.  An   *)
(* OS signal, and the SIGALRM whose handler calls schedule, may come       *)
(* between any two steps: while a task handler runs as well.  A task's     *)
(* handlers make no call that blocks.                                      *)
(***************************************************************************)
EXTENDS Integers, Sequences, FiniteSetsExt

CONSTANTS
  Task, Idle,
  Sig,        \* signal numbers: signal s is bit s - 1 of the masks
  Handler     \* handlers a task gives to tm_signal: "code" or "null"

ASSUME SignalAssumption ==
  /\ Idle \in Task /\ Sig \subseteq Nat \ {0} /\ Handler \subseteq {"code", "null"}

VARIABLES
  current,
  sig_hd,       \* signals a task has registered with a handler that is not NULL
  signals,      \* mask of the signals a task registered
  sig_pending,  \* of a task
  reg_signals,  \* signals generic_sig_handler is installed for
  calls,        \* calls of schedule a task is in, the innermost first
  raising,      \* tm_raise under way: the signal and the word it has read
  owed,         \* history: registered signals set pending, handler not yet run
  late          \* history: those set while schedule or tm_raise was under way

vars == <<current, sig_hd, signals, sig_pending, reg_signals, calls, raising, owed, late>>

NotRaising == [sig |-> 0, word |-> {}, depth |-> -1]
Empty == [t \in Task |-> {}]

Init ==
  /\ current \in Task
  /\ sig_hd = Empty /\ signals = Empty /\ sig_pending = Empty
  /\ reg_signals = {}
  /\ calls = [t \in Task |-> <<>>]
  /\ raising = [t \in Task |-> NotRaising]
  /\ owed = Empty /\ late = Empty

At(t, stage) == calls[t] # <<>> /\ calls[t][1].stage = stage

(* Task code, or a handler of the task, is on the CPU. *)
Runs(t) == current = t /\ raising[t] = NotRaising /\ (calls[t] = <<>> \/ At(t, "handler"))

-----------------------------------------------------------------------------
(* A registration is linked in front of the older ones and none is taken   *)
(* off, so one with a NULL handler leaves an older handler in place.       *)
tm_signal(t, s, h) ==
  /\ Runs(t) /\ t # Idle
  /\ sig_hd' = [sig_hd EXCEPT ![t] = IF h = "null" THEN @ ELSE @ \cup {s}]
  /\ signals' = [signals EXCEPT ![t] = @ \cup {s}, ![Idle] = @ \cup {s}]
  /\ reg_signals' = reg_signals \cup {s}
  /\ UNCHANGED <<current, sig_pending, calls, raising, owed, late>>

(* Signal s becomes pending for t: a handler, if there is one, is owed. *)
SetPending(t, word, s, window) ==
  /\ sig_pending' = [sig_pending EXCEPT ![t] = word \cup {s}]
  /\ owed' = [owed EXCEPT ![t] = @ \cup ({s} \cap sig_hd[t])]
  /\ late' = [late EXCEPT ![t] = IF window THEN @ \cup ({s} \cap sig_hd[t]) ELSE @ \ {s}]

(* tm_raise reads sig_pending, and writes it back with one more bit. *)
RaiseLoad(t, s) ==
  /\ Runs(t) /\ t # Idle
  /\ raising' = [raising EXCEPT ![t] = [sig |-> s, word |-> sig_pending[t],
                                        depth |-> Len(calls[t])]]
  /\ UNCHANGED <<current, sig_hd, signals, sig_pending, reg_signals, calls, owed, late>>

(* Mutant: "=" for "|=". *)
RaiseStoreOverwrites(t) ==
  /\ current = t /\ raising[t] # NotRaising /\ raising[t].depth = Len(calls[t])
  /\ SetPending(t, {}, raising[t].sig, calls[t] # <<>>)
  /\ raising' = [raising EXCEPT ![t] = NotRaising]
  /\ UNCHANGED <<current, sig_hd, signals, reg_signals, calls>>

RaiseStore(t) ==
  /\ current = t /\ raising[t] # NotRaising /\ raising[t].depth = Len(calls[t])
  /\ SetPending(t, raising[t].word, raising[t].sig, calls[t] # <<>>)
  /\ raising' = [raising EXCEPT ![t] = NotRaising]
  /\ UNCHANGED <<current, sig_hd, signals, reg_signals, calls>>

tm_raise(t) == RaiseStore(t) \/ \E s \in Sig : RaiseLoad(t, s)

(* A signal of the OS is pending for the task it interrupts. *)
generic_sig_handler(s) ==
  /\ s \in reg_signals
  /\ SetPending(current, sig_pending[current], s,
                calls[current] # <<>> \/ raising[current] # NotRaising)
  /\ UNCHANGED <<current, sig_hd, signals, reg_signals, calls, raising>>

-----------------------------------------------------------------------------
(* schedule: process_signal, if a registered signal is pending, and then   *)
(* the pick.  The tick handler may call it while the task is inside it, or *)
(* in one of its handlers; SIGALRM is then blocked until the pick.         *)
Schedule(t, tick) ==
  /\ current = t
  /\ IF tick THEN \A j \in 1 .. Len(calls[t]) : ~calls[t][j].tick /\ calls[t][j].stage # "pick"
     ELSE calls[t] = <<>> /\ raising[t] = NotRaising
  /\ LET res == signals[t] \cap sig_pending[t] IN
     calls' = [calls EXCEPT ![t] =
       <<[stage |-> IF res = {} THEN "pick" ELSE "loop", res |-> res, i |-> 0,
          due |-> res \cap sig_hd[t], tick |-> tick]>> \o @]
  /\ UNCHANGED <<current, sig_hd, signals, sig_pending, reg_signals, raising, owed, late>>

(* invoke_signal_hanlder: the handler of s is on the CPU. *)
invoke_signal_hanlder(t, s) ==
  /\ calls' = [calls EXCEPT ![t][1].stage = "handler", ![t][1].i = s, ![t][1].due = @ \ {s}]
  /\ owed' = [owed EXCEPT ![t] = @ \ {s}]
  /\ late' = [late EXCEPT ![t] = @ \ {s}]

(* Mutant: the loop ends at the first bit that is clear. *)
ToInvokeUpToGap(t, c) ==
  {s \in sig_hd[t] : s > c.i /\ (c.i + 1) .. s \subseteq c.res}

(* Signals with a handler that the loop has still to come to.  "res && 0x1"*)
(* is true while any bit is left, so all are run up to the highest pending.*)
ToInvoke(t, c) == {s \in sig_hd[t] : s > c.i /\ \E r \in c.res : s <= r}

(* Mutant: the pending bits are left set. *)
ProcessSignalKeeps(t) ==
  /\ current = t /\ (At(t, "loop") \/ At(t, "handler")) /\ raising[t].depth # Len(calls[t])
  /\ LET todo == ToInvoke(t, calls[t][1]) IN
     IF todo # {} THEN invoke_signal_hanlder(t, Min(todo))
     ELSE /\ calls' = [calls EXCEPT ![t][1].stage = "pick", ![t][1].res = {}, ![t][1].i = 0]
          /\ UNCHANGED <<owed, late>>
  /\ UNCHANGED <<current, sig_hd, signals, sig_pending, reg_signals, raising>>

(* process_signal: on to the next handler, or every pending bit cleared. *)
process_signal(t) ==
  /\ current = t /\ (At(t, "loop") \/ At(t, "handler")) /\ raising[t].depth # Len(calls[t])
  /\ LET todo == ToInvoke(t, calls[t][1]) IN
     \/ /\ todo # {}
        /\ invoke_signal_hanlder(t, Min(todo))
        /\ UNCHANGED sig_pending
     \/ /\ todo = {}
        /\ calls' = [calls EXCEPT ![t][1].stage = "pick", ![t][1].res = {}, ![t][1].i = 0]
        /\ sig_pending' = [sig_pending EXCEPT ![t] = {}]
        /\ UNCHANGED <<owed, late>>
  /\ UNCHANGED <<current, sig_hd, signals, reg_signals, raising>>

(* The pick ends the call; the task goes on from it when it next runs. *)
Pick(t, u) ==
  /\ current = t /\ At(t, "pick")
  /\ calls' = [calls EXCEPT ![t] = Tail(@)]
  /\ current' = u
  /\ UNCHANGED <<sig_hd, signals, sig_pending, reg_signals, raising, owed, late>>

Next ==
  \/ \E t \in Task :
       \/ \E s \in Sig, h \in Handler : tm_signal(t, s, h)
       \/ tm_raise(t)
       \/ \E tick \in BOOLEAN : Schedule(t, tick)
       \/ process_signal(t)
       \/ \E u \in Task : Pick(t, u)
  \/ \E s \in Sig : generic_sig_handler(s)

Spec == Init /\ [][Next]_vars

(* Library code goes on, the tick calls schedule again and again, and the  *)
(* scheduler gives every task its turns.                                   *)
FairSpec ==
  /\ Spec
  /\ WF_vars(\E t \in Task : RaiseStore(t))
  /\ SF_vars(\E t \in Task : process_signal(t))
  /\ SF_vars(\E t \in Task : Schedule(t, TRUE))
  /\ \A t \in Task : SF_vars(\E u \in Task : Pick(u, t))

-----------------------------------------------------------------------------
(* Properties.                                                             *)

(* A signal with a handler that is set pending for a task is lost, cleared *)
(* with no handler run, only if it was set while the task was in schedule, *)
(* between the test of sig_pending and the pick, or in tm_raise, whose     *)
(* read and write it fell between.                                         *)
LostOnlyInWindow ==
  \A t \in Task : owed[t] \subseteq sig_pending[t] \cup late[t]

(* Before process_signal clears sig_pending it has run a handler for every *)
(* signal that was pending and had one when it was called, even if the     *)
(* tick handler ran process_signal for the same task in between.           *)
ServesAll ==
  \A t \in Task : \A j \in 1 .. Len(calls[t]) :
    calls[t][j].stage = "pick" => calls[t][j].due = {}

(* A registered signal does not stay pending: the task comes to a schedule *)
(* that serves or clears it.                                               *)
PendingIsServed ==
  \A t \in Task \ {Idle}, s \in Sig :
    (s \in sig_pending[t] /\ s \in signals[t]) ~> s \notin sig_pending[t]

(* "res && 0x1" for res & 0x1: only signals that are pending are handled. *)
OnlyPendingHandled ==
  \A t \in Task : At(t, "handler") => calls[t][1].i \in calls[t][1].res
=============================================================================
