----------------------------- MODULE TimerWheel -----------------------------
(***************************************************************************)
(* The timer wheel of TIMERS/src (tmr_init.c, update.c, btm_hlf.c): four   *)
(* clocks, four trees of running timers ordered by rt, and the list of     *)
(* expired timers.  A timer is placed on the tree of the largest unit of   *)
(* the time it has left; when that unit's clock reaches rt it moves to the *)
(* tree of the next unit it has time left in, or expires.                  *)
(*                                                                         *)
(* This module is the arithmetic of the wheel: a call of the API and a     *)
(* tick each are one step, and every tick is serviced before the next one  *)
(* (the NORMAL build does so, service_timers runs inside update_times).    *)
(*                                                                         *)
(* A red-black tree stands for the set of its timers: process_timers takes *)
(* out every timer whose rt equals the clock, in any order, and none that  *)
(* it places again during the sweep, because those have rt above a clock.  *)
(***************************************************************************)
EXTENDS Integers, FiniteSets

CONSTANTS
  Timer,      \* every TIMER_T
  TPS,        \* tm_get_ticks_per_second(): 100, or 50 in the SFS build
  Base,       \* seconds per minute and minutes per hour: 60
  HrsLimit,   \* 2^HRS_BITS: the hours field of ctime wraps here
  Durations,  \* bound: ticks a timer is started with
  MaxTick,    \* bound: ticks that happen
  MAX_TIMERS  \* alloc_timer_id fails above this count

ASSUME WheelAssumption ==
  /\ IsFiniteSet(Timer)
  /\ TPS \in Nat \ {0} /\ Base \in Nat \ {0, 1} /\ HrsLimit \in Nat \ {0}
  /\ Durations \subseteq Nat /\ MaxTick \in Nat /\ MAX_TIMERS \in Nat

Wheel == {"TICK", "SEC", "MIN", "HRS"}

VARIABLES
  clk,      \* clk[wheel]
  state,    \* "free", "wheel" (is_running), "expd" (on expd_tmrs), or
            \* "lost": started with no time to run, so placed nowhere
  wheel,    \* timer->wheel
  ctime,    \* time left in the units not yet waited for
  rt,       \* value of clk[wheel] the timer waits for
  exp,      \* timer->exp, the tick it is due
  asked,    \* history: ticks it was started with
  count     \* tmrrq.count

vars == <<clk, state, wheel, ctime, rt, exp, asked, count>>

Time == [tick : Nat, sec : Nat, min : Nat, hrs : Nat]

-----------------------------------------------------------------------------
(* Mutant: the minutes are not taken out of the seconds. *)
CalcTimeNoMinutes(ticks) ==
  LET secs == ticks \div TPS
      hrs  == secs \div (Base * Base)
  IN  [tick |-> ticks % TPS, sec |-> secs % Base, min |-> 0, hrs |-> hrs % HrsLimit]

(* calc_time: the four fields of ctime for a number of ticks. *)
calc_time(ticks) ==
  LET secs == ticks \div TPS
      mins == secs \div Base
      hrs  == mins \div Base
  IN  [tick |-> ticks % TPS, sec |-> secs % Base, min |-> mins % Base,
       hrs |-> hrs % HrsLimit]

Zero(ct) == ct.hrs = 0 /\ ct.min = 0 /\ ct.sec = 0 /\ ct.tick = 0

(* find_tmr_slot_and_place: the largest unit there is time left in ... *)
slot(ct) ==
  IF ct.hrs # 0 THEN "HRS" ELSE IF ct.min # 0 THEN "MIN"
  ELSE IF ct.sec # 0 THEN "SEC" ELSE "TICK"

(* ... and the time left in it. *)
left(ct) ==
  IF ct.hrs # 0 THEN ct.hrs ELSE IF ct.min # 0 THEN ct.min
  ELSE IF ct.sec # 0 THEN ct.sec ELSE ct.tick

(* Mutant: the masks are shifted by one wheel, so SEC clears the minutes. *)
ClearWrongWheel(ct, w) ==
  [tick |-> IF w = "TICK" THEN 0 ELSE ct.tick,
   sec  |-> IF w = "MIN"  THEN 0 ELSE ct.sec,
   min  |-> IF w = "SEC"  THEN 0 ELSE ct.min,
   hrs  |-> IF w = "HRS"  THEN 0 ELSE ct.hrs]

(* clear_wheel_timer: the unit that was waited for is masked out. *)
clear_wheel_timer(ct, w) ==
  [tick |-> IF w = "TICK" THEN 0 ELSE ct.tick,
   sec  |-> IF w = "SEC"  THEN 0 ELSE ct.sec,
   min  |-> IF w = "MIN"  THEN 0 ELSE ct.min,
   hrs  |-> IF w = "HRS"  THEN 0 ELSE ct.hrs]

(* The clocks after one more tick. *)
NextClk ==
  LET nsec == (clk["TICK"] + 1) % TPS = 0
      nmin == nsec /\ (clk["SEC"] + 1) % Base = 0
      nhrs == nmin /\ (clk["MIN"] + 1) % Base = 0
  IN  [w \in Wheel |->
         CASE w = "TICK" -> clk[w] + 1
           [] w = "SEC"  -> IF nsec THEN clk[w] + 1 ELSE clk[w]
           [] w = "MIN"  -> IF nmin THEN clk[w] + 1 ELSE clk[w]
           [] w = "HRS"  -> IF nhrs THEN clk[w] + 1 ELSE clk[w]]

(* tm_process_tick_and_update_timers looks at a tree only when its clock   *)
(* has just moved: IS_NXT_SEC_HAPPEND, IS_NXT_MIN_HAPPEND, ...             *)
nxt_sec(c) == c["TICK"] % TPS = 0
nxt_min(c) == nxt_sec(c) /\ c["SEC"] # 0 /\ c["SEC"] % Base = 0
nxt_hr(c)  == nxt_min(c) /\ c["MIN"] # 0 /\ c["MIN"] % Base = 0

Swept(w, c) ==
  \/ w = "TICK"
  \/ w = "SEC" /\ nxt_sec(c)
  \/ w = "MIN" /\ nxt_min(c)
  \/ w = "HRS" /\ nxt_hr(c)

-----------------------------------------------------------------------------
Init ==
  /\ clk = [w \in Wheel |-> 0]
  /\ state = [k \in Timer |-> "free"]
  /\ wheel = [k \in Timer |-> "TICK"]
  /\ ctime = [k \in Timer |-> calc_time(0)]
  /\ rt = [k \in Timer |-> 0]
  /\ exp = [k \in Timer |-> 0]
  /\ asked = [k \in Timer |-> 0]
  /\ count = 0

(* start_timer; alloc_timer_id refuses only above MAX_TIMERS, not at it. *)
start_timer(k, ticks) ==
  /\ state[k] = "free" /\ count <= MAX_TIMERS
  /\ LET ct == calc_time(ticks)
     IN  /\ ctime' = [ctime EXCEPT ![k] = ct]
         /\ exp' = [exp EXCEPT ![k] = ticks + clk["TICK"]]
         /\ IF Zero(ct)
            THEN /\ state' = [state EXCEPT ![k] = "lost"]
                 /\ UNCHANGED <<wheel, rt>>
            ELSE /\ state' = [state EXCEPT ![k] = "wheel"]
                 /\ wheel' = [wheel EXCEPT ![k] = slot(ct)]
                 /\ rt' = [rt EXCEPT ![k] = clk[slot(ct)] + left(ct)]
  /\ asked' = [asked EXCEPT ![k] = ticks]
  /\ count' = count + 1
  /\ UNCHANGED clk

(* Mutant: the timer is not taken off the count. *)
StopTimerNotCounted(k) ==
  /\ state[k] = "wheel"
  /\ state' = [state EXCEPT ![k] = "free"]
  /\ UNCHANGED <<clk, wheel, ctime, rt, exp, asked, count>>

(* stop_timer, which del_timer calls for a running timer only. *)
stop_timer(k) ==
  /\ state[k] = "wheel"
  /\ state' = [state EXCEPT ![k] = "free"]
  /\ count' = count - 1
  /\ UNCHANGED <<clk, wheel, ctime, rt, exp, asked>>

(* Some timer may be due at clocks c.  Nothing is serviced while the count *)
(* is 0, and a tree above TICK only counts when its clock may have moved.  *)
timers_pending_for_service(c) ==
  /\ count # 0
  /\ \E k \in Timer :
       /\ state[k] = "wheel"
       /\ \/ wheel[k] = "TICK"
          \/ wheel[k] = "SEC" /\ c["TICK"] % TPS = 0
          \/ wheel[k] = "MIN" /\ c["SEC"] # 0 /\ c["SEC"] % Base = 0
          \/ wheel[k] = "HRS" /\ c["MIN"] # 0 /\ c["MIN"] % Base = 0

(* process_timers takes k out of its tree. *)
Matches(k, c) ==
  /\ timers_pending_for_service(c)
  /\ state[k] = "wheel" /\ Swept(wheel[k], c) /\ rt[k] = c[wheel[k]]

(* One tick: the clocks move, the trees are swept. *)
update_times ==
  LET c    == NextClk
      hit  == {k \in Timer : Matches(k, c)}
      ct   == [k \in Timer |-> clear_wheel_timer(ctime[k], wheel[k])]
      done == {k \in hit : Zero(ct[k])}
      move == hit \ done
  IN  /\ clk["TICK"] < MaxTick
      /\ clk' = c
      /\ ctime' = [k \in Timer |-> IF k \in hit THEN ct[k] ELSE ctime[k]]
      /\ state' = [k \in Timer |-> IF k \in done THEN "expd" ELSE state[k]]
      /\ wheel' = [k \in Timer |-> IF k \in move THEN slot(ct[k]) ELSE wheel[k]]
      /\ rt' = [k \in Timer |-> IF k \in move THEN c[slot(ct[k])] + left(ct[k]) ELSE rt[k]]
      /\ count' = count - Cardinality(done)
      /\ UNCHANGED <<exp, asked>>

(* process_expd_timers: the handler has run and the timer is released. *)
process_expd_timers(k) ==
  /\ state[k] = "expd"
  /\ state' = [state EXCEPT ![k] = "free"]
  /\ UNCHANGED <<clk, wheel, ctime, rt, exp, asked, count>>

Next ==
  \/ \E k \in Timer, d \in Durations : start_timer(k, d)
  \/ \E k \in Timer : stop_timer(k) \/ process_expd_timers(k)
  \/ update_times

Spec == Init /\ [][Next]_vars

-----------------------------------------------------------------------------
(* Properties.                                                             *)

TypeOK ==
  /\ clk \in [Wheel -> Nat]
  /\ state \in [Timer -> {"free", "wheel", "expd", "lost"}]
  /\ wheel \in [Timer -> Wheel]
  /\ ctime \in [Timer -> Time]
  /\ rt \in [Timer -> Nat]
  /\ exp \in [Timer -> Nat] /\ asked \in [Timer -> Nat]
  /\ count \in Int

Running == {k \in Timer : state[k] = "wheel"}

(* process_timers looks up its tree for the exact value of the clock, so a *)
(* timer whose rt the clock has passed would stay there for good: no       *)
(* running timer is ever in that position.                                 *)
NeverMissed == \A k \in Running : rt[k] > clk[wheel[k]]

(* A running timer expires no later than the tick start_timer computed:    *)
(* timer_get_remaining_time of a running timer is never negative.          *)
NeverLate == \A k \in Running : exp[k] > clk["TICK"]

(* tmrrq.count, for which alloc_timer_id refuses new timers and without    *)
(* which no tick services the trees, counts the running timers and those   *)
(* started with no time to run, which nothing ever takes off it.           *)
CountExact == count = Cardinality({k \in Timer : state[k] \in {"wheel", "lost"}})

(* The clocks are one number of ticks written in mixed radix. *)
ClocksAgree ==
  /\ clk["SEC"] = clk["TICK"] \div TPS
  /\ clk["MIN"] = clk["SEC"] \div Base
  /\ clk["HRS"] = clk["MIN"] \div Base

(* Ticks in one unit of a wheel. *)
Unit(w) ==
  CASE w = "TICK" -> 1
    [] w = "SEC"  -> TPS
    [] w = "MIN"  -> Base * TPS
    [] w = "HRS"  -> Base * Base * TPS

(* A timer expires less than one unit of the first wheel it was placed on  *)
(* before the tick it is due: only the first wait is cut short, for a      *)
(* clock that was part way through its unit; the later waits of the        *)
(* cascade start on a boundary.  The hours field must not have wrapped.    *)
EarlyByLessThanAUnit ==
  [][\A k \in Timer :
       /\ state[k] = "wheel" /\ state'[k] = "expd"
       /\ asked[k] < HrsLimit * Unit("HRS")
       => exp[k] - clk'["TICK"] < Unit(slot(calc_time(asked[k])))]_vars

(* "sleeps for duration in secs": no timer expires before it is due. *)
NeverEarly ==
  [][\A k \in Timer : state[k] = "wheel" /\ state'[k] = "expd"
                        => clk'["TICK"] >= exp[k]]_vars
=============================================================================
