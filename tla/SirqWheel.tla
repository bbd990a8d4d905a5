------------------------------ MODULE SirqWheel ------------------------------
(***************************************************************************)
(* The timer wheel in both builds.  The NORMAL build is TimerWheel: a tick *)
(* sweeps the trees itself.  In the SFS build the tick, a signal handler,  *)
(* only moves the clocks and raises the soft irq (service_timers);         *)
(* softirqd (core/soft_irq.c) sweeps the trees one after the other when it *)
(* runs, for the clocks as they are by then.                               *)
(*                                                                         *)
(* Ticks and calls of the timer API come between any two steps of          *)
(* softirqd.  Which task the scheduler runs is left open (module Sfs).     *)
(***************************************************************************)
EXTENDS TimerWheel

VARIABLES
  sfs,      \* which build this is
  pc,       \* where softirqd is; a wheel: about to sweep its tree
  status,   \* the soft irq is WAKE_UP
  behind,   \* history: a tick asked for a sweep that has not ended since
  over      \* history: a tick came while behind

sirq == <<pc, status, behind, over>>
allvars == <<vars, sfs, sirq>>

SirqInit ==
  /\ Init
  /\ sfs \in BOOLEAN
  /\ pc = IF sfs THEN "scan" ELSE "parked"
  /\ status = FALSE
  /\ behind = FALSE /\ over = FALSE

-----------------------------------------------------------------------------
(* SIGALRM in the SFS build: update_times, and service_timers, which sets  *)
(* the status of the soft irq and wakes softirqd.                          *)
tick_tmr_intr ==
  LET asks == timers_pending_for_service(NextClk)
  IN  /\ sfs /\ clk["TICK"] < MaxTick
      /\ clk' = NextClk
      /\ status' = (status \/ asks)
      /\ pc' = IF asks /\ pc = "parked" THEN "scan" ELSE pc
      /\ behind' = (behind \/ asks)
      /\ over' = (over \/ behind)
      /\ UNCHANGED <<state, wheel, ctime, rt, exp, asked, count, sfs>>

(* softirqd looks at the status of the timers' soft irq. *)
ScanIrq ==
  /\ pc = "scan"
  /\ pc' = IF status THEN "TICK" ELSE "park"
  /\ UNCHANGED <<vars, sfs, status, behind, over>>

(* What a search of the tree of wheel w for its clock finds. *)
Found(w) == {k \in Timer : state[k] = "wheel" /\ wheel[k] = w /\ rt[k] = clk[w]}

(* timer_del and timer_expiry_action for every timer of hit, on wheel w. *)
TakeOut(hit, w) ==
  LET ct   == [k \in Timer |-> clear_wheel_timer(ctime[k], w)]
      done == {k \in hit : Zero(ct[k])}
      move == hit \ done
  IN  /\ ctime' = [k \in Timer |-> IF k \in hit THEN ct[k] ELSE ctime[k]]
      /\ state' = [k \in Timer |-> IF k \in done THEN "expd" ELSE state[k]]
      /\ wheel' = [k \in Timer |-> IF k \in move THEN slot(ct[k]) ELSE wheel[k]]
      /\ rt' = [k \in Timer |-> IF k \in move THEN clk[slot(ct[k])] + left(ct[k]) ELSE rt[k]]
      /\ count' = count - Cardinality(done)

(* Mutant: the tree is searched once, not until nothing is found. *)
ProcessOneTimer(w) ==
  \E hit \in SUBSET Found(w) : (Found(w) # {} => Cardinality(hit) = 1) /\ TakeOut(hit, w)

(* process_timers on the tree of wheel w. *)
process_timers(w) == TakeOut(Found(w), w)

(* IS_NXT_SEC_HAPPEND and so on: the tree is swept, as of now. *)
Happened(w) ==
  CASE w = "TICK" -> TRUE
    [] w = "SEC"  -> clk["TICK"] % TPS = 0
    [] w = "MIN"  -> clk["SEC"] # 0 /\ clk["SEC"] % Base = 0
    [] w = "HRS"  -> clk["MIN"] # 0 /\ clk["MIN"] % Base = 0

(* The trees in the order of their units. *)
Above(w) ==
  CASE w = "TICK" -> "SEC" [] w = "SEC" -> "MIN" [] w = "MIN" -> "HRS" [] w = "HRS" -> "expd"

(* tm_process_tick_and_update_timers: the next tree, or the end of the     *)
(* sweep when a clock has not moved on.                                    *)
tm_process_tick_and_update_timers(w) ==
  /\ pc = w
  /\ IF Happened(w)
     THEN process_timers(w) /\ pc' = Above(w)
     ELSE pc' = "expd" /\ UNCHANGED <<state, wheel, ctime, rt, count>>
  /\ behind' = (behind /\ pc' # "expd")
  /\ UNCHANGED <<clk, exp, asked, sfs, status, over>>

(* The rest of btm_hlf: the handlers of the expired timers. *)
Serve(k) ==
  /\ pc = "expd"
  /\ process_expd_timers(k)
  /\ UNCHANGED <<sfs, sirq>>

Served ==
  /\ pc = "expd" /\ \A k \in Timer : state[k] # "expd"
  /\ pc' = "done"
  /\ UNCHANGED <<vars, sfs, status, behind, over>>

(* The irq is marked SLEEPING, whatever was asked meanwhile ... *)
IrqDone ==
  /\ pc = "done"
  /\ status' = FALSE
  /\ pc' = "park"
  /\ UNCHANGED <<vars, sfs, behind, over>>

(* ... and softirqd goes to the wait queue.  It is run again from there if *)
(* nxt_imm_task still names it.                                            *)
Park ==
  /\ pc = "park"
  /\ pc' \in {"parked", "scan"}
  /\ UNCHANGED <<vars, sfs, status, behind, over>>

softirqd ==
  \/ ScanIrq \/ (\E w \in Wheel : tm_process_tick_and_update_timers(w))
  \/ (\E k \in Timer : Serve(k)) \/ Served \/ IrqDone \/ Park

-----------------------------------------------------------------------------
Calls ==
  /\ \/ \E k \in Timer, d \in Durations : start_timer(k, d)
     \/ \E k \in Timer : stop_timer(k)
  /\ UNCHANGED <<sfs, sirq>>

(* The NORMAL build. *)
Normal ==
  /\ ~sfs
  /\ update_times \/ \E k \in Timer : process_expd_timers(k)
  /\ UNCHANGED <<sfs, sirq>>

SirqNext == Calls \/ Normal \/ tick_tmr_intr \/ softirqd

SirqSpec == SirqInit /\ [][SirqNext]_allvars

-----------------------------------------------------------------------------
(* Properties.                                                             *)

(* The trees are searched for the exact value of the clock.  A timer whose *)
(* rt the clock has passed stays on its tree for good: this happens only   *)
(* if a tick came before softirqd had ended the sweep for the one before   *)
(* (never in the NORMAL build), also when timers are started in the middle *)
(* of a sweep.                                                             *)
MissedOnlyByOverrun ==
  \A k \in Running : rt[k] > clk[wheel[k]] \/ (behind /\ rt[k] = clk[wheel[k]]) \/ over

(* Without such an overrun a running timer expires no later than the tick  *)
(* start_timer computed: timer_get_remaining_time is not negative.         *)
LateOnlyByOverrun ==
  \A k \in Running : exp[k] > clk["TICK"] \/ (behind /\ exp[k] = clk["TICK"]) \/ over

(* "Oopss negative remainiting time": no running timer is past the tick it *)
(* is due.                                                                 *)
RemainingNotNegative == \A k \in Running : exp[k] >= clk["TICK"]
=============================================================================
