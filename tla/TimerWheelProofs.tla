-------------------------- MODULE TimerWheelProofs --------------------------
(***************************************************************************)
(* Proofs about modules TimerWheel and SirqWheel for every number of       *)
(* timers, every tick rate and every base of the clocks.                   *)
(***************************************************************************)
EXTENDS SirqWheel, FiniteSetTheorems, TLAPS

-----------------------------------------------------------------------------
(* Arithmetic.                                                             *)

(* Zero, and no number is above itself. *)
LEMMA NotAbove ==
  0 \in Nat /\ \A x \in Nat : ~(x > x) /\ x + 0 = x
  OBVIOUS

(* A sum is above the number that something was added to. *)
LEMMA SumAbove ==
  \A x, y \in Nat : y > 0 => x + y \in Nat /\ x + y > x
  OBVIOUS

(* Multiplication is monotone. *)
LEMMA MulMono ==
  ASSUME NEW a \in Nat, NEW b \in Nat, NEW n \in Nat, a <= b
  PROVE  n * a <= n * b
  OBVIOUS

(* Quotient and remainder. *)
LEMMA DivMod ==
  ASSUME NEW a \in Nat, NEW n \in Nat \ {0}
  PROVE  /\ a \div n \in Nat /\ a % n \in Nat
         /\ a % n < n
         /\ a = n * (a \div n) + (a % n)
  OBVIOUS

(* A number lies within one divisor above the multiple its quotient names, *)
(* and on it when the remainder is 0.                                      *)
LEMMA DivBounds ==
  ASSUME NEW a \in Nat, NEW n \in Nat \ {0}
  PROVE  /\ n * (a \div n) <= a /\ a < n * (a \div n) + n
         /\ a % n = 0 => n * (a \div n) = a
<1> DEFINE p == n * (a \div n)
<1>1. a % n \in Nat /\ a % n < n /\ a = p + (a % n) /\ p \in Nat
  BY DivMod
<1> HIDE DEF p
<1>2. p <= a /\ a < p + n /\ (a % n = 0 => p = a)
  BY <1>1
<1> QED
  BY <1>2 DEF p

(* They are unique. *)
LEMMA DivUnique ==
  ASSUME NEW a \in Nat, NEW n \in Nat \ {0}, NEW q \in Nat, NEW r \in Nat,
         a = n * q + r, r < n
  PROVE  a \div n = q /\ a % n = r
<1> DEFINE p == a \div n
           s == a % n
<1>1. p \in Nat /\ s \in Nat /\ s < n /\ a = n * p + s
  BY DivMod
<1> HIDE DEF p, s
<1>2. CASE q < p
  <2>1. n * (q + 1) <= n * p
    BY <1>1, <1>2, MulMono
  <2>2. n * (q + 1) = n * q + n
    OBVIOUS
  <2> QED
    BY <1>1, <2>1, <2>2
<1>3. CASE p < q
  <2>1. n * (p + 1) <= n * q
    BY <1>1, <1>3, MulMono
  <2>2. n * (p + 1) = n * p + n
    BY <1>1
  <2> QED
    BY <1>1, <2>1, <2>2
<1>4. CASE p = q
  BY <1>1, <1>4 DEF p, s
<1> QED
  BY <1>1, <1>2, <1>3, <1>4

(* The quotient moves exactly when the remainder returns to 0: the way     *)
(* update_times decides whether to move the next clock.                    *)
LEMMA NextDiv ==
  ASSUME NEW a \in Nat, NEW n \in Nat \ {0}
  PROVE  (a + 1) \div n = IF (a + 1) % n = 0 THEN (a \div n) + 1 ELSE a \div n
<1> DEFINE q == a \div n
           r == a % n
<1>1. q \in Nat /\ r \in Nat /\ r < n /\ a = n * q + r
  BY DivMod
<1> HIDE DEF q, r
<1>2. CASE r + 1 < n
  <2>1. a + 1 \in Nat /\ r + 1 \in Nat /\ a + 1 = n * q + (r + 1)
    BY <1>1
  <2>2. (a + 1) \div n = q /\ (a + 1) % n = r + 1
    BY <1>1, <1>2, <2>1, DivUnique
  <2> QED
    BY <1>1, <2>2 DEF q
<1>3. CASE r + 1 = n
  <2>1. a + 1 = n * (q + 1) + 0
    <3>1. n * (q + 1) = n * q + n
      BY <1>1
    <3> QED
      BY <1>1, <1>3, <3>1
  <2>2. (a + 1) \div n = q + 1 /\ (a + 1) % n = 0
    BY <1>1, <2>1, DivUnique
  <2> QED
    BY <2>2 DEF q
<1> QED
  BY <1>1, <1>2, <1>3

(* Units nest: m*n of the small unit make one of the large unit. *)
LEMMA Nest ==
  ASSUME NEW a \in Nat, NEW b \in Nat, NEW c \in Nat, NEW m \in Nat, NEW n \in Nat,
         n * b <= a, a < n * b + n, m * c <= b, b < m * c + m
  PROVE  (m * n) * c <= a /\ a < (m * n) * c + m * n
<1>1. n * (m * c) <= n * b
  BY MulMono
<1>2. n * (b + 1) <= n * (m * c + m)
  BY MulMono
<1>3. n * (b + 1) = n * b + n
  OBVIOUS
<1>4. n * (m * c) = (m * n) * c /\ n * (m * c + m) = (m * n) * c + m * n
  OBVIOUS
<1> QED
  BY <1>1, <1>2, <1>3, <1>4

-----------------------------------------------------------------------------
(* The clocks.                                                             *)

(* One unit of each wheel, as a number. *)
LEMMA Units ==
  /\ Unit("TICK") = 1 /\ Unit("SEC") = TPS /\ Unit("MIN") = Base * TPS
  /\ Unit("HRS") = Base * Base * TPS
  /\ \A w \in Wheel : Unit(w) \in Nat
<1>1. /\ Unit("TICK") = 1 /\ Unit("SEC") = TPS /\ Unit("MIN") = Base * TPS
      /\ Unit("HRS") = Base * Base * TPS
  BY DEF Unit
<1>2. TPS \in Nat /\ Base * TPS \in Nat /\ Base * Base * TPS \in Nat
  BY WheelAssumption
<1> QED
  BY <1>1, <1>2 DEF Wheel

(* Every clock counts the whole units of the ticks so far. *)
LEMMA ClockBounds ==
  ASSUME clk \in [Wheel -> Nat], ClocksAgree, NEW w \in Wheel
  PROVE  /\ Unit(w) * clk[w] <= clk["TICK"]
         /\ clk["TICK"] < Unit(w) * clk[w] + Unit(w)
<1> DEFINE t == clk["TICK"]
           s == clk["SEC"]
           m == clk["MIN"]
           h == clk["HRS"]
<1>1. t \in Nat /\ s \in Nat /\ m \in Nat /\ h \in Nat
  BY DEF Wheel
<1>2. s = t \div TPS /\ m = s \div Base /\ h = m \div Base
  BY DEF ClocksAgree
<1>3. TPS \in Nat \ {0} /\ Base \in Nat \ {0}
  BY WheelAssumption
<1> HIDE DEF t, s, m, h
<1>4. TPS * s <= t /\ t < TPS * s + TPS
  <2>1. TPS * (t \div TPS) <= t /\ t < TPS * (t \div TPS) + TPS
    BY <1>1, <1>3, DivBounds
  <2> QED
    BY <1>2, <2>1
<1>5. Base * m <= s /\ s < Base * m + Base
  <2>1. Base * (s \div Base) <= s /\ s < Base * (s \div Base) + Base
    BY <1>1, <1>3, DivBounds
  <2> QED
    BY <1>2, <2>1
<1>6. Base * h <= m /\ m < Base * h + Base
  <2>1. Base * (m \div Base) <= m /\ m < Base * (m \div Base) + Base
    BY <1>1, <1>3, DivBounds
  <2> QED
    BY <1>2, <2>1
<1>7. (Base * TPS) * m <= t /\ t < (Base * TPS) * m + Base * TPS
  BY <1>1, <1>3, <1>4, <1>5, Nest
<1>8. (Base * (Base * TPS)) * h <= t /\ t < (Base * (Base * TPS)) * h + Base * (Base * TPS)
  <2>1. Base * TPS \in Nat
    BY <1>3
  <2> QED
    BY <1>1, <1>3, <1>6, <1>7, <2>1, Nest
<1>9. Base * (Base * TPS) = Base * Base * TPS
  BY <1>3
<1>10. CASE w = "TICK"
  <2>1. Unit(w) * clk[w] = t /\ Unit(w) = 1
    BY <1>1, <1>10, Units DEF t
  <2> QED
    BY <1>1, <2>1 DEF t
<1>11. CASE w = "SEC"
  BY <1>4, <1>11, Units DEF t, s
<1>12. CASE w = "MIN"
  BY <1>7, <1>12, Units DEF t, m
<1>13. CASE w = "HRS"
  BY <1>8, <1>9, <1>13, Units DEF t, h
<1> QED
  BY <1>10, <1>11, <1>12, <1>13 DEF Wheel

(* The clocks after a tick: typed, in agreement, none moves by more than   *)
(* one, and the tree of a clock that moved is swept.                       *)
LEMMA NextClkStep ==
  ASSUME clk \in [Wheel -> Nat], ClocksAgree
  PROVE  /\ NextClk \in [Wheel -> Nat]
         /\ NextClk["TICK"] = clk["TICK"] + 1
         /\ NextClk["SEC"] = NextClk["TICK"] \div TPS
         /\ NextClk["MIN"] = NextClk["SEC"] \div Base
         /\ NextClk["HRS"] = NextClk["MIN"] \div Base
         /\ \A w \in Wheel :
              NextClk[w] = clk[w] \/ (NextClk[w] = clk[w] + 1 /\ Swept(w, NextClk))
<1> DEFINE t == clk["TICK"]
           s == clk["SEC"]
           m == clk["MIN"]
           h == clk["HRS"]
           nsec == (t + 1) % TPS = 0
           nmin == nsec /\ (s + 1) % Base = 0
           nhrs == nmin /\ (m + 1) % Base = 0
           c == NextClk
<1>1. t \in Nat /\ s \in Nat /\ m \in Nat /\ h \in Nat
  BY DEF Wheel
<1>2. s = t \div TPS /\ m = s \div Base /\ h = m \div Base
  BY DEF ClocksAgree
<1>3. TPS \in Nat \ {0} /\ Base \in Nat \ {0}
  BY WheelAssumption
<1>4. /\ c = [w \in Wheel |-> c[w]]
      /\ c["TICK"] = t + 1
      /\ c["SEC"] = IF nsec THEN s + 1 ELSE s
      /\ c["MIN"] = IF nmin THEN m + 1 ELSE m
      /\ c["HRS"] = IF nhrs THEN h + 1 ELSE h
  BY DEF NextClk, Wheel
<1> HIDE DEF t, s, m, h, c
<1>5. (t + 1) \div TPS = IF nsec THEN s + 1 ELSE s
  BY <1>1, <1>2, <1>3, NextDiv, Zenon
<1>6. (s + 1) \div Base = IF (s + 1) % Base = 0 THEN m + 1 ELSE m
  BY <1>1, <1>2, <1>3, NextDiv, Zenon
<1>7. (m + 1) \div Base = IF (m + 1) % Base = 0 THEN h + 1 ELSE h
  BY <1>1, <1>2, <1>3, NextDiv, Zenon
<1>8. c \in [Wheel -> Nat]
  <2>1. c["TICK"] \in Nat /\ c["SEC"] \in Nat /\ c["MIN"] \in Nat /\ c["HRS"] \in Nat
    BY <1>1, <1>4
  <2> QED
    BY <1>4, <2>1 DEF Wheel
<1>9. c["SEC"] = c["TICK"] \div TPS
  BY <1>4, <1>5
<1>10. c["MIN"] = c["SEC"] \div Base
  BY <1>2, <1>4, <1>6
<1>11. c["HRS"] = c["MIN"] \div Base
  BY <1>2, <1>4, <1>7
<1>12. nsec => nxt_sec(c)
  BY <1>4 DEF nxt_sec
<1>13. nmin => nxt_min(c)
  BY <1>1, <1>4, <1>12 DEF nxt_min
<1>14. nhrs => nxt_hr(c)
  BY <1>1, <1>4, <1>13 DEF nxt_hr
<1> HIDE DEF nsec, nmin, nhrs
<1>15. \A w \in Wheel : c[w] = clk[w] \/ (c[w] = clk[w] + 1 /\ Swept(w, c))
  <2> TAKE w \in Wheel
  <2>1. CASE w = "TICK"
    BY <1>4, <2>1 DEF Swept, t
  <2>2. CASE w = "SEC"
    <3>1. c["SEC"] = s \/ (c["SEC"] = s + 1 /\ nsec)
      BY <1>4
    <3>2. nsec => Swept("SEC", c)
      BY <1>12 DEF Swept
    <3> QED
      BY <2>2, <3>1, <3>2 DEF s
  <2>3. CASE w = "MIN"
    <3>1. c["MIN"] = m \/ (c["MIN"] = m + 1 /\ nmin)
      BY <1>4
    <3>2. nmin => Swept("MIN", c)
      BY <1>13 DEF Swept
    <3> QED
      BY <2>3, <3>1, <3>2 DEF m
  <2>4. CASE w = "HRS"
    <3>1. c["HRS"] = h \/ (c["HRS"] = h + 1 /\ nhrs)
      BY <1>4
    <3>2. nhrs => Swept("HRS", c)
      BY <1>14 DEF Swept
    <3> QED
      BY <2>4, <3>1, <3>2 DEF h
  <2> QED
    BY <2>1, <2>2, <2>3, <2>4 DEF Wheel
<1>16. c = NextClk
  BY DEF c
<1>17. c["TICK"] = clk["TICK"] + 1
  BY <1>4 DEF t
<1> QED
  BY <1>8, <1>9, <1>10, <1>11, <1>15, <1>16, <1>17

(* When a tree is swept the clock of its wheel, and of every smaller one,  *)
(* stands on a boundary.                                                   *)
Below(v, w) ==
  \/ v = w \/ v = "TICK"
  \/ v = "SEC" /\ w \in {"MIN", "HRS"}
  \/ v = "MIN" /\ w = "HRS"

LEMMA SweptOnBoundary ==
  ASSUME NEW c \in [Wheel -> Nat],
         c["SEC"] = c["TICK"] \div TPS, c["MIN"] = c["SEC"] \div Base,
         c["HRS"] = c["MIN"] \div Base,
         NEW w \in Wheel, Swept(w, c), NEW v \in Wheel, Below(v, w)
  PROVE  Unit(v) * c[v] = c["TICK"]
<1>1. c["TICK"] \in Nat /\ c["SEC"] \in Nat /\ c["MIN"] \in Nat /\ c["HRS"] \in Nat
  BY DEF Wheel
<1>2. TPS \in Nat \ {0} /\ Base \in Nat \ {0}
  BY WheelAssumption
<1>3. nxt_sec(c) => TPS * c["SEC"] = c["TICK"]
  <2>1. c["TICK"] % TPS = 0 => TPS * (c["TICK"] \div TPS) = c["TICK"]
    BY <1>1, <1>2, DivBounds, Zenon
  <2> QED
    BY <2>1 DEF nxt_sec
<1>4. nxt_min(c) => Base * c["MIN"] = c["SEC"] /\ nxt_sec(c)
  <2>1. c["SEC"] % Base = 0 => Base * (c["SEC"] \div Base) = c["SEC"]
    BY <1>1, <1>2, DivBounds, Zenon
  <2> QED
    BY <2>1 DEF nxt_min
<1>5. nxt_hr(c) => Base * c["HRS"] = c["MIN"] /\ nxt_min(c)
  <2>1. c["MIN"] % Base = 0 => Base * (c["MIN"] \div Base) = c["MIN"]
    BY <1>1, <1>2, DivBounds, Zenon
  <2> QED
    BY <2>1 DEF nxt_hr
<1>6. nxt_min(c) => (Base * TPS) * c["MIN"] = c["TICK"]
  <2>1. (Base * TPS) * c["MIN"] = TPS * (Base * c["MIN"])
    BY <1>1, <1>2
  <2> QED
    BY <1>3, <1>4, <2>1
<1>7. nxt_hr(c) => (Base * Base * TPS) * c["HRS"] = c["TICK"]
  <2>1. (Base * Base * TPS) * c["HRS"] = (Base * TPS) * (Base * c["HRS"])
    BY <1>1, <1>2
  <2> QED
    BY <1>5, <1>6, <2>1
<1>8. CASE v = "TICK"
  BY <1>1, <1>8, Units
<1>9. CASE v = "SEC"
  BY <1>3, <1>4, <1>5, <1>9, Units DEF Below, Swept
<1>10. CASE v = "MIN"
  BY <1>5, <1>6, <1>10, Units DEF Below, Swept
<1>11. CASE v = "HRS"
  BY <1>7, <1>11, Units DEF Below, Swept
<1> QED
  BY <1>8, <1>9, <1>10, <1>11 DEF Wheel

-----------------------------------------------------------------------------
(* The time left to a timer.                                               *)

(* The ticks a ctime stands for. *)
Value(ct) ==
  ct.tick + TPS * ct.sec + (Base * TPS) * ct.min + (Base * Base * TPS) * ct.hrs

(* calc_time writes a number of ticks in mixed radix; only the hours can   *)
(* overflow their field.                                                   *)
LEMMA CalcValue ==
  ASSUME NEW d \in Nat
  PROVE  /\ calc_time(d) \in Time
         /\ Value(calc_time(d)) <= d
         /\ d < HrsLimit * Unit("HRS") => Value(calc_time(d)) = d
<1> DEFINE secs == d \div TPS
           mins == secs \div Base
           hrs == mins \div Base
           x == d % TPS
           y == secs % Base
           z == mins % Base
           u == hrs % HrsLimit
           U == Base * Base * TPS
<1>1. TPS \in Nat \ {0} /\ Base \in Nat \ {0} /\ HrsLimit \in Nat \ {0} /\ U \in Nat
  BY WheelAssumption
<1>2. secs \in Nat /\ x \in Nat /\ d = TPS * secs + x
  BY <1>1, DivMod
<1>3. mins \in Nat /\ y \in Nat /\ secs = Base * mins + y
  <2> HIDE DEF secs
  <2> QED
    BY <1>1, <1>2, DivMod
<1>4. hrs \in Nat /\ z \in Nat /\ mins = Base * hrs + z
  <2> HIDE DEF mins
  <2> QED
    BY <1>1, <1>3, DivMod
<1>5. u \in Nat /\ u <= hrs /\ (hrs < HrsLimit => u = hrs)
  <2> HIDE DEF hrs
  <2>1. hrs < HrsLimit => hrs % HrsLimit = hrs
    <3>1. hrs = HrsLimit * 0 + hrs
      BY <1>1, <1>4
    <3> QED
      BY <1>1, <1>4, <3>1, DivUnique
  <2>2. u \in Nat /\ hrs = HrsLimit * (hrs \div HrsLimit) + u /\ hrs \div HrsLimit \in Nat
    BY <1>1, <1>4, DivMod
  <2>3. HrsLimit * (hrs \div HrsLimit) \in Nat
    BY <1>1, <2>2
  <2> QED
    BY <1>4, <2>1, <2>2, <2>3
<1>6. calc_time(d) = [tick |-> x, sec |-> y, min |-> z, hrs |-> u]
  BY DEF calc_time
<1> HIDE DEF secs, mins, hrs, x, y, z, u, U
<1>7. calc_time(d) \in Time
  BY <1>2, <1>3, <1>4, <1>5, <1>6 DEF Time
<1>8. Value(calc_time(d)) = x + TPS * y + (Base * TPS) * z + U * u
  BY <1>6 DEF Value, U
<1>9. d = x + TPS * y + (Base * TPS) * z + U * hrs
  <2>1. mins = Base * hrs + z
    BY <1>4
  <2>2. Base * mins = Base * (Base * hrs) + Base * z
    BY <1>1, <1>4
  <2>3. TPS * secs = TPS * (Base * mins) + TPS * y
    BY <1>1, <1>3
  <2>4. TPS * (Base * mins) = TPS * (Base * (Base * hrs)) + TPS * (Base * z)
    BY <1>1, <1>4, <2>2
  <2>5. TPS * (Base * (Base * hrs)) = U * hrs /\ TPS * (Base * z) = (Base * TPS) * z
    BY <1>1, <1>4 DEF U
  <2>6. U * hrs \in Nat /\ (Base * TPS) * z \in Nat /\ TPS * y \in Nat
    BY <1>1, <1>3, <1>4
  <2> QED
    BY <1>2, <2>3, <2>4, <2>5, <2>6
<1>10. U * u <= U * hrs
  BY <1>1, <1>4, <1>5, MulMono
<1>11. TPS * y \in Nat /\ (Base * TPS) * z \in Nat /\ U * u \in Nat /\ U * hrs \in Nat
  BY <1>1, <1>3, <1>4, <1>5
<1>12. Value(calc_time(d)) <= d
  BY <1>2, <1>8, <1>9, <1>10, <1>11
<1>13. ASSUME d < HrsLimit * Unit("HRS")
       PROVE  Value(calc_time(d)) = d
  <2>1. Unit("HRS") = U
    BY Units DEF U
  <2>2. hrs < HrsLimit
    <3>1. SUFFICES ASSUME hrs >= HrsLimit PROVE FALSE
      BY <1>1, <1>4
    <3>2. U * HrsLimit <= U * hrs
      BY <1>1, <1>4, <3>1, MulMono
    <3>3. HrsLimit * U = U * HrsLimit
      BY <1>1
    <3> QED
      BY <1>1, <1>2, <1>9, <1>11, <1>13, <2>1, <3>2, <3>3
  <2> QED
    BY <1>5, <1>8, <1>9, <2>2
<1> QED
  BY <1>7, <1>12, <1>13

(* The slot of a ctime is the largest unit in it: what is left in that     *)
(* unit and what remains once it is cleared make up the whole.             *)
LEMMA SlotValue ==
  ASSUME NEW ct \in Time, ~Zero(ct)
  PROVE  /\ slot(ct) \in Wheel
         /\ left(ct) \in Nat /\ left(ct) > 0
         /\ clear_wheel_timer(ct, slot(ct)) \in Time
         /\ Value(ct) = Unit(slot(ct)) * left(ct)
                        + Value(clear_wheel_timer(ct, slot(ct)))
         /\ Value(clear_wheel_timer(ct, slot(ct))) \in Nat
<1> DEFINE B == Base * TPS
           C == Base * Base * TPS
<1>1. TPS \in Nat /\ B \in Nat /\ C \in Nat
  BY WheelAssumption
<1>2. /\ ct.tick \in Nat /\ ct.sec \in Nat /\ ct.min \in Nat /\ ct.hrs \in Nat
      /\ ct = [tick |-> ct.tick, sec |-> ct.sec, min |-> ct.min, hrs |-> ct.hrs]
  BY DEF Time
<1>3. Value(ct) = ct.tick + TPS * ct.sec + B * ct.min + C * ct.hrs
  BY DEF Value
<1>4. Unit("TICK") = 1 /\ Unit("SEC") = TPS /\ Unit("MIN") = B /\ Unit("HRS") = C
  BY Units
<1>5. \A a, b, e, f \in Nat :
        Value([tick |-> a, sec |-> b, min |-> e, hrs |-> f])
          = a + TPS * b + B * e + C * f
  BY DEF Value
<1> HIDE DEF B, C
<1>6. CASE ct.hrs # 0
  <2>1. slot(ct) = "HRS" /\ left(ct) = ct.hrs
    BY <1>6 DEF slot, left
  <2>2. clear_wheel_timer(ct, "HRS") = [tick |-> ct.tick, sec |-> ct.sec, min |-> ct.min, hrs |-> 0]
    BY DEF clear_wheel_timer
  <2>3. Value(clear_wheel_timer(ct, "HRS")) = ct.tick + TPS * ct.sec + B * ct.min + C * 0
    BY <1>2, <1>5, <2>2
  <2> QED
    BY <1>1, <1>2, <1>3, <1>4, <1>6, <2>1, <2>2, <2>3 DEF Wheel, Time
<1>7. CASE ct.hrs = 0 /\ ct.min # 0
  <2>1. slot(ct) = "MIN" /\ left(ct) = ct.min
    BY <1>7 DEF slot, left
  <2>2. clear_wheel_timer(ct, "MIN") = [tick |-> ct.tick, sec |-> ct.sec, min |-> 0, hrs |-> 0]
    BY <1>7 DEF clear_wheel_timer
  <2>3. Value(clear_wheel_timer(ct, "MIN")) = ct.tick + TPS * ct.sec + B * 0 + C * 0
    BY <1>2, <1>5, <2>2
  <2> QED
    BY <1>1, <1>2, <1>3, <1>4, <1>7, <2>1, <2>2, <2>3 DEF Wheel, Time
<1>8. CASE ct.hrs = 0 /\ ct.min = 0 /\ ct.sec # 0
  <2>1. slot(ct) = "SEC" /\ left(ct) = ct.sec
    BY <1>8 DEF slot, left
  <2>2. clear_wheel_timer(ct, "SEC") = [tick |-> ct.tick, sec |-> 0, min |-> 0, hrs |-> 0]
    BY <1>8 DEF clear_wheel_timer
  <2>3. Value(clear_wheel_timer(ct, "SEC")) = ct.tick + TPS * 0 + B * 0 + C * 0
    BY <1>2, <1>5, <2>2
  <2> QED
    BY <1>1, <1>2, <1>3, <1>4, <1>8, <2>1, <2>2, <2>3 DEF Wheel, Time
<1>9. CASE ct.hrs = 0 /\ ct.min = 0 /\ ct.sec = 0
  <2>1. slot(ct) = "TICK" /\ left(ct) = ct.tick /\ ct.tick # 0
    BY <1>9 DEF slot, left, Zero
  <2>2. clear_wheel_timer(ct, "TICK") = [tick |-> 0, sec |-> 0, min |-> 0, hrs |-> 0]
    BY <1>9 DEF clear_wheel_timer
  <2>3. Value(clear_wheel_timer(ct, "TICK")) = 0 + TPS * 0 + B * 0 + C * 0
    BY <1>5, <2>2, NotAbove, ZenonT(60)
  <2> QED
    BY <1>1, <1>2, <1>3, <1>4, <1>9, <2>1, <2>2, <2>3 DEF Wheel, Time
<1> QED
  BY <1>6, <1>7, <1>8, <1>9

(* What remains once a unit is cleared is placed on a smaller wheel, and   *)
(* nothing remains of a timer on the smallest.                             *)
LEMMA ClearBelow ==
  ASSUME NEW ct \in Time, ~Zero(ct), ~Zero(clear_wheel_timer(ct, slot(ct)))
  PROVE  Below(slot(clear_wheel_timer(ct, slot(ct))), slot(ct))
BY Zenon DEF Time, Zero, clear_wheel_timer, slot, Below

(* An expired ctime stands for no time. *)
LEMMA ZeroValue ==
  ASSUME NEW ct \in Time, Zero(ct)
  PROVE  Value(ct) = 0
<1>1. TPS \in Nat /\ Base * TPS \in Nat /\ Base * Base * TPS \in Nat
  BY WheelAssumption
<1>2. Value(ct) = 0 + TPS * 0 + (Base * TPS) * 0 + (Base * Base * TPS) * 0
  BY DEF Value, Zero
<1> QED
  BY <1>1, <1>2

-----------------------------------------------------------------------------
(* The inductive invariant.  NeverLate is not inductive: what a timer      *)
(* still waits for after its present wheel is in its ctime.  Due(k) adds   *)
(* it up, and no step changes Due(k).                                      *)

Due(k) == Unit(wheel[k]) * rt[k] + Value(clear_wheel_timer(ctime[k], wheel[k]))

Placed(k) ==
  /\ ~Zero(ctime[k])
  /\ wheel[k] = slot(ctime[k])
  /\ rt[k] > clk[wheel[k]]
  /\ Due(k) <= exp[k]
  /\ asked[k] < HrsLimit * Unit("HRS")
       => exp[k] - Due(k) < Unit(slot(calc_time(asked[k])))

IInv == TypeOK /\ ClocksAgree /\ CountExact /\ \A k \in Running : Placed(k)

(* Placing a ctime at clocks c makes it due as many ticks after the last   *)
(* boundary of its wheel as it stands for.                                 *)
LEMMA PlaceDue ==
  ASSUME NEW ct \in Time, ~Zero(ct), NEW c \in [Wheel -> Nat]
  PROVE  Unit(slot(ct)) * (c[slot(ct)] + left(ct))
           + Value(clear_wheel_timer(ct, slot(ct)))
         = Unit(slot(ct)) * c[slot(ct)] + Value(ct)
<1> DEFINE w == slot(ct)
           v == Value(clear_wheel_timer(ct, slot(ct)))
<1>1. /\ w \in Wheel /\ left(ct) \in Nat /\ v \in Nat
      /\ Value(ct) = Unit(w) * left(ct) + v
  BY SlotValue
<1>2. Unit(w) \in Nat /\ c[w] \in Nat
  BY <1>1, Units
<1> HIDE DEF w, v
<1>3. Unit(w) * (c[w] + left(ct)) = Unit(w) * c[w] + Unit(w) * left(ct)
  BY <1>1, <1>2
<1>4. Unit(w) * c[w] \in Nat /\ Unit(w) * left(ct) \in Nat
  BY <1>1, <1>2
<1>5. Unit(w) * (c[w] + left(ct)) + v = Unit(w) * c[w] + Value(ct)
  BY <1>1, <1>3, <1>4
<1> QED
  BY <1>5 DEF w, v

(* The count of one more, one less, and several fewer timers.              *)
Counted == {k \in Timer : state[k] \in {"wheel", "lost"}}

LEMMA InitIInv ==
  Init => IInv
<1> SUFFICES ASSUME Init PROVE IInv
  OBVIOUS
<1>1. TPS \in Nat \ {0} /\ Base \in Nat \ {0}
  BY WheelAssumption
<1>2. clk \in [Wheel -> Nat] /\ \A w \in Wheel : clk[w] = 0
  BY DEF Init
<1>3. calc_time(0) \in Time
  BY CalcValue
<1>4. TypeOK
  BY <1>2, <1>3 DEF Init, TypeOK, Wheel
<1>5. ClocksAgree
  <2>1. \A n \in Nat \ {0} : 0 \div n = 0
    <3> TAKE n \in Nat \ {0}
    <3>1. 0 = n * 0 + 0
      OBVIOUS
    <3> QED
      BY <3>1, DivUnique
  <2> QED
    BY <1>1, <1>2, <2>1 DEF ClocksAgree, Wheel
<1>6. Counted = {} /\ Running = {}
  BY DEF Init, Counted, Running
<1>7. CountExact
  BY <1>6, FS_EmptySet DEF Init, CountExact, Counted
<1> QED
  BY <1>4, <1>5, <1>6, <1>7 DEF IInv

(* A timer a step leaves alone. *)
Same(j) ==
  /\ j \in Running
  /\ ctime'[j] = ctime[j] /\ exp'[j] = exp[j] /\ asked'[j] = asked[j]
  /\ wheel'[j] = wheel[j] /\ rt'[j] = rt[j]

(* start_timer places a timer that is due no later than exp, and less than *)
(* a unit of its wheel before.                                             *)
LEMMA StartPlaces ==
  ASSUME TypeOK, ClocksAgree, CountExact,
         NEW k \in Timer, NEW d \in Nat, start_timer(k, d)
  PROVE  /\ TypeOK' /\ ClocksAgree' /\ CountExact' /\ clk' = clk
         /\ k \in Running' => Placed(k)'
         /\ \A j \in Running' : j # k => Same(j)
<1> DEFINE ct == calc_time(d)
           w == slot(ct)
<1>1. /\ TypeOK /\ ClocksAgree /\ CountExact /\ clk \in [Wheel -> Nat]
      /\ clk["TICK"] \in Nat
  BY DEF TypeOK, Wheel
<1>2. ct \in Time
  BY CalcValue
<1>3. /\ state[k] = "free" /\ clk' = clk /\ count' = count + 1
      /\ ctime' = [ctime EXCEPT ![k] = ct]
      /\ exp' = [exp EXCEPT ![k] = d + clk["TICK"]]
      /\ asked' = [asked EXCEPT ![k] = d]
      /\ \/ /\ Zero(ct) /\ state' = [state EXCEPT ![k] = "lost"]
            /\ UNCHANGED <<wheel, rt>>
         \/ /\ ~Zero(ct) /\ state' = [state EXCEPT ![k] = "wheel"]
            /\ wheel' = [wheel EXCEPT ![k] = w]
            /\ rt' = [rt EXCEPT ![k] = clk[w] + left(ct)]
  BY DEF start_timer
<1>4. ~Zero(ct) => w \in Wheel /\ left(ct) \in Nat /\ left(ct) > 0
  BY <1>2, SlotValue
<1> HIDE DEF ct, w
<1>5. TypeOK'
  <2>1. ~Zero(ct) => clk[w] + left(ct) \in Nat
    BY <1>1, <1>4
  <2>2. d + clk["TICK"] \in Nat
    BY <1>1, SMTT(60)
  <2> QED
    BY <1>1, <1>2, <1>3, <1>4, <2>1, <2>2 DEF TypeOK
<1>6. ClocksAgree'
  BY <1>1, <1>3 DEF ClocksAgree
<1>7. CountExact'
  <2>1. Counted' = Counted \cup {k} /\ k \notin Counted /\ Counted \subseteq Timer
    BY <1>1, <1>3 DEF Counted, TypeOK
  <2>2. IsFiniteSet(Counted)
    BY <2>1, WheelAssumption, FS_Subset
  <2>3. Cardinality(Counted') = Cardinality(Counted) + 1
    BY <2>1, <2>2, FS_AddElement
  <2> QED
    BY <1>1, <1>3, <2>3 DEF CountExact, Counted
<1>8. \A j \in Running' : j # k => Same(j)
  BY <1>1, <1>3, ZenonT(60) DEF Running, TypeOK, Same
<1>9. ASSUME k \in Running'
      PROVE  Placed(k)'
  <2>1. /\ ~Zero(ct) /\ ctime'[k] = ct /\ exp'[k] = d + clk["TICK"] /\ asked'[k] = d
        /\ wheel'[k] = w /\ rt'[k] = clk[w] + left(ct)
    BY <1>1, <1>3, <1>9 DEF Running, TypeOK
  <2>2. w \in Wheel /\ clk[w] \in Nat /\ Unit(w) \in Nat
    BY <1>1, <1>4, <2>1, Units
  <2>3. rt'[k] > clk[w]
    <3>1. left(ct) \in Nat /\ left(ct) > 0 /\ rt'[k] = clk[w] + left(ct)
      BY <1>4, <2>1, Zenon
    <3> QED
      BY <2>2, <3>1
  <2> DEFINE due == Unit(w) * rt'[k] + Value(clear_wheel_timer(ct, w))
             v == Value(ct)
  <2>4. due = Unit(w) * clk[w] + v
    BY <1>1, <1>2, <2>1, PlaceDue DEF w
  <2>5. /\ Unit(w) * clk[w] <= clk["TICK"]
        /\ clk["TICK"] < Unit(w) * clk[w] + Unit(w)
        /\ Unit(w) * clk[w] \in Nat
    BY <1>1, <2>2, ClockBounds
  <2>6. v <= d /\ (d < HrsLimit * Unit("HRS") => v = d) /\ v \in Nat
    <3>1. v <= d /\ (d < HrsLimit * Unit("HRS") => v = d)
      BY CalcValue DEF ct
    <3>2. v \in Nat
      BY <1>2, <1>4, <2>1, <2>2, SlotValue DEF w
    <3> QED
      BY <3>1, <3>2
  <2> HIDE DEF due, v
  <2>7. due <= exp'[k] /\ (d < HrsLimit * Unit("HRS") => exp'[k] - due < Unit(w))
    BY <1>1, <2>1, <2>2, <2>4, <2>5, <2>6
  <2>8. Due(k)' = due
    BY <2>1, Zenon DEF Due, due
  <2> QED
    BY <1>3, <2>1, <2>3, <2>7, <2>8 DEF Placed, w, ct
<1> QED
  BY <1>3, <1>5, <1>6, <1>7, <1>8, <1>9

(* A timer left alone stays placed while its clock does not move. *)
LEMMA SamePlaced ==
  ASSUME NEW j, Placed(j), Same(j), clk' = clk
  PROVE  Placed(j)'
BY DEF Placed, Due, Same

(* start_timer keeps the invariant.                                        *)
LEMMA StartStep ==
  ASSUME IInv, NEW k \in Timer, NEW d \in Nat, start_timer(k, d)
  PROVE  IInv'
<1>1. TypeOK /\ ClocksAgree /\ CountExact
  BY DEF IInv
<1>2. /\ TypeOK' /\ ClocksAgree' /\ CountExact' /\ clk' = clk
      /\ k \in Running' => Placed(k)'
      /\ \A j \in Running' : j # k => Same(j)
  BY <1>1, StartPlaces
<1>3. ASSUME NEW j \in Running', j # k
      PROVE  Placed(j)'
  <2>1. Same(j) /\ Placed(j)
    BY <1>2, <1>3 DEF IInv, Same
  <2> QED
    BY <1>2, <2>1, SamePlaced
<1> QED
  BY <1>2, <1>3 DEF IInv

(* stop_timer and process_expd_timers release a timer.                     *)
LEMMA ReleaseFrees ==
  ASSUME TypeOK, ClocksAgree, CountExact,
         NEW k \in Timer, stop_timer(k) \/ process_expd_timers(k)
  PROVE  /\ TypeOK' /\ ClocksAgree' /\ CountExact' /\ clk' = clk
         /\ \A j \in Running' : Same(j)
<1>1. TypeOK /\ ClocksAgree /\ CountExact
  OBVIOUS
<1>2. /\ state' = [state EXCEPT ![k] = "free"]
      /\ UNCHANGED <<clk, wheel, ctime, rt, exp, asked>>
      /\ \/ state[k] = "wheel" /\ count' = count - 1
         \/ state[k] = "expd" /\ count' = count
  BY DEF stop_timer, process_expd_timers
<1>3. TypeOK'
  BY <1>1, <1>2 DEF TypeOK
<1>4. ClocksAgree'
  BY <1>1, <1>2 DEF ClocksAgree
<1>5. CountExact'
  <2>1. Counted' = Counted \ {k} /\ Counted \subseteq Timer /\ (k \in Counted <=> state[k] = "wheel")
    BY <1>1, <1>2 DEF Counted, TypeOK
  <2>2. IsFiniteSet(Counted)
    BY <2>1, WheelAssumption, FS_Subset
  <2>3. Cardinality(Counted') = IF k \in Counted THEN Cardinality(Counted) - 1 ELSE Cardinality(Counted)
    BY <2>1, <2>2, FS_RemoveElement, Zenon
  <2> QED
    BY <1>1, <1>2, <2>1, <2>3 DEF CountExact, Counted
<1>6. \A j \in Running' : Same(j)
  BY <1>1, <1>2 DEF Running, TypeOK, Same
<1> QED
  BY <1>2, <1>3, <1>4, <1>5, <1>6

(* stop_timer and process_expd_timers keep the invariant.                  *)
LEMMA ReleaseStep ==
  ASSUME IInv, NEW k \in Timer, stop_timer(k) \/ process_expd_timers(k)
  PROVE  IInv'
<1>1. TypeOK /\ ClocksAgree /\ CountExact
  BY DEF IInv
<1>2. /\ TypeOK' /\ ClocksAgree' /\ CountExact' /\ clk' = clk
      /\ \A j \in Running' : Same(j)
  BY <1>1, ReleaseFrees
<1>3. ASSUME NEW j \in Running'
      PROVE  Placed(j)'
  <2>1. Same(j) /\ Placed(j)
    BY <1>2, <1>3, Zenon DEF IInv, Same
  <2> QED
    BY <1>2, <2>1, SamePlaced
<1> QED
  BY <1>2, <1>3 DEF IInv

(* A tick, seen from one running timer.  If its clock has reached rt the   *)
(* tick finds it: the count is not 0 and its tree is swept.  It expires    *)
(* exactly when it is due, or is placed on a smaller wheel with the same   *)
(* Due, since the clocks up to its old wheel stand on a boundary.          *)
LEMMA TickTimer ==
  ASSUME IInv, update_times, NEW k \in Running
  PROVE  /\ k \in Timer /\ Placed(k)
         /\ state'[k] = "expd" => clk'["TICK"] = Due(k)
         /\ state'[k] # "expd" =>
              /\ state'[k] = "wheel"
              /\ ctime'[k] \in Time /\ wheel'[k] \in Wheel /\ rt'[k] \in Nat
              /\ ~Zero(ctime'[k]) /\ wheel'[k] = slot(ctime'[k])
              /\ rt'[k] > clk'[wheel'[k]]
              /\ Due(k)' = Due(k)
<1> DEFINE c == NextClk
           w == wheel[k]
           ct == clear_wheel_timer(ctime[k], w)
<1>1. /\ TypeOK /\ ClocksAgree /\ CountExact /\ Placed(k) /\ k \in Timer
      /\ state[k] = "wheel" /\ clk \in [Wheel -> Nat] /\ w \in Wheel
      /\ ctime[k] \in Time /\ rt[k] \in Nat
  BY DEF IInv, Running, TypeOK
<1>2. /\ c \in [Wheel -> Nat] /\ c["TICK"] = clk["TICK"] + 1
      /\ c["SEC"] = c["TICK"] \div TPS /\ c["MIN"] = c["SEC"] \div Base
      /\ c["HRS"] = c["MIN"] \div Base
      /\ c[w] = clk[w] \/ (c[w] = clk[w] + 1 /\ Swept(w, c))
  BY <1>1, NextClkStep, Zenon
<1>3. /\ clk' = c
      /\ ctime'[k] = IF Matches(k, c) THEN ct ELSE ctime[k]
      /\ state'[k] = IF Matches(k, c) /\ Zero(ct) THEN "expd" ELSE state[k]
      /\ wheel'[k] = IF Matches(k, c) /\ ~Zero(ct) THEN slot(ct) ELSE w
      /\ rt'[k] = IF Matches(k, c) /\ ~Zero(ct) THEN c[slot(ct)] + left(ct) ELSE rt[k]
  BY <1>1, ZenonT(60) DEF update_times
<1>4. ~Zero(ctime[k]) /\ w = slot(ctime[k]) /\ rt[k] > clk[w]
  BY <1>1, ZenonT(60) DEF Placed
<1>5. ct \in Time /\ Value(ct) \in Nat
  BY <1>1, <1>4, SlotValue
<1>6. Due(k) = Unit(w) * rt[k] + Value(ct)
  BY DEF Due
<1> HIDE DEF c, ct, w
<1>7. ASSUME Matches(k, c)
      PROVE  Swept(w, c) /\ Due(k) = c["TICK"] + Value(ct)
  <2>1. Swept(w, c) /\ rt[k] = c[w]
    BY <1>7 DEF Matches, w
  <2>2. Unit(w) * c[w] = c["TICK"]
    BY <1>1, <1>2, <2>1, SweptOnBoundary DEF Below
  <2> QED
    BY <1>6, <2>1, <2>2
<1>8. ASSUME ~Matches(k, c)
      PROVE  rt[k] > c[w]
  <2>0. /\ c[w] = clk[w] \/ (c[w] = clk[w] + 1 /\ Swept(w, c))
        /\ rt[k] \in Nat /\ clk[w] \in Nat /\ rt[k] > clk[w]
    BY <1>1, <1>2, <1>4, Zenon
  <2>1. SUFFICES ASSUME c[w] = clk[w] + 1, Swept(w, c), rt[k] = c[w] PROVE FALSE
    BY <2>0
  <2>2. count # 0
    <3>1. k \in Counted /\ Counted \subseteq Timer
      BY <1>1 DEF Counted
    <3>2. IsFiniteSet(Counted)
      BY <3>1, WheelAssumption, FS_Subset
    <3>3. Cardinality(Counted) # 0
      BY <3>1, <3>2, FS_EmptySet
    <3> QED
      BY <1>1, <3>3 DEF CountExact, Counted
  <2>3. timers_pending_for_service(c)
    BY <1>1, <2>1, <2>2, ZenonT(60) DEF timers_pending_for_service, Swept, nxt_sec, nxt_min, nxt_hr, w
  <2> QED
    BY <1>1, <1>8, <2>1, <2>3 DEF Matches, w
<1>9. CASE ~Matches(k, c)
  <2>1. /\ ctime'[k] = ctime[k] /\ state'[k] = "wheel" /\ wheel'[k] = w
        /\ rt'[k] = rt[k] /\ rt[k] > c[w]
    BY <1>1, <1>3, <1>8, <1>9, ZenonT(60)
  <2>2. Due(k)' = Due(k)
    BY <2>1 DEF Due, w
  <2> QED
    BY <1>1, <1>3, <1>4, <2>1, <2>2, ZenonT(60)
<1>10. CASE Matches(k, c) /\ Zero(ct)
  <2>1. Value(ct) = 0 /\ state'[k] = "expd"
    BY <1>3, <1>5, <1>10, ZeroValue
  <2>2. Due(k) = c["TICK"] + Value(ct) /\ c["TICK"] \in Nat
    BY <1>2, <1>7, <1>10 DEF Wheel
  <2>3. clk'["TICK"] = c["TICK"]
    BY <1>3, Zenon
  <2>4. clk'["TICK"] = Due(k)
    BY <2>1, <2>2, <2>3, NotAbove, Zenon
  <2> QED
    BY <1>1, <2>1, <2>4, Zenon
<1>11. CASE Matches(k, c) /\ ~Zero(ct)
  <2> DEFINE v == slot(ct)
  <2>1. /\ ctime'[k] = ct /\ state'[k] = "wheel" /\ wheel'[k] = v
        /\ rt'[k] = c[v] + left(ct)
    BY <1>1, <1>3, <1>11
  <2>2. v \in Wheel /\ left(ct) \in Nat /\ left(ct) > 0 /\ c[v] \in Nat
    BY <1>2, <1>5, <1>11, SlotValue
  <2>3. rt'[k] > c[v] /\ rt'[k] \in Nat
    BY <2>1, <2>2, SumAbove, Zenon
  <2>4. Below(v, w)
    BY <1>1, <1>4, <1>11, ClearBelow, ZenonT(60) DEF ct, w
  <2>5. Unit(v) * c[v] = c["TICK"]
    BY <1>1, <1>2, <1>7, <1>11, <2>2, <2>4, SweptOnBoundary, ZenonT(60)
  <2>6. Unit(v) * rt'[k] + Value(clear_wheel_timer(ct, v)) = Unit(v) * c[v] + Value(ct)
    <3>1. c \in [Wheel -> Nat] /\ ct \in Time /\ ~Zero(ct) /\ rt'[k] = c[v] + left(ct)
      BY <1>2, <1>5, <1>11, <2>1, Zenon
    <3> QED
      BY <2>2, <3>1, PlaceDue
  <2>7. Due(k)' = Unit(v) * rt'[k] + Value(clear_wheel_timer(ct, v))
    BY <2>1 DEF Due
  <2>8. Due(k)' = Due(k)
    BY <1>7, <1>11, <2>5, <2>6, <2>7
  <2> QED
    BY <1>1, <1>3, <1>5, <1>11, <2>1, <2>2, <2>3, <2>8, ZenonT(60)
<1> QED
  BY <1>9, <1>10, <1>11, Zenon

(* A tick keeps the invariant.                                             *)
LEMMA TickStep ==
  ASSUME IInv, update_times
  PROVE  IInv'
<1> DEFINE c == NextClk
           ct == [k \in Timer |-> clear_wheel_timer(ctime[k], wheel[k])]
           hit == {k \in Timer : Matches(k, c)}
           done == {k \in hit : Zero(ct[k])}
<1>1. TypeOK /\ ClocksAgree /\ CountExact /\ clk \in [Wheel -> Nat]
  BY Zenon DEF IInv, TypeOK
<1>2. /\ clk' = c /\ UNCHANGED <<exp, asked>> /\ count' = count - Cardinality(done)
      /\ ctime' = [k \in Timer |-> IF k \in hit THEN ct[k] ELSE ctime[k]]
      /\ state' = [k \in Timer |-> IF k \in done THEN "expd" ELSE state[k]]
      /\ wheel' = [k \in Timer |-> IF k \in hit \ done THEN slot(ct[k]) ELSE wheel[k]]
      /\ rt' = [k \in Timer |-> IF k \in hit \ done THEN c[slot(ct[k])] + left(ct[k]) ELSE rt[k]]
  BY Zenon DEF update_times
<1>3. /\ c \in [Wheel -> Nat]
      /\ c["SEC"] = c["TICK"] \div TPS /\ c["MIN"] = c["SEC"] \div Base
      /\ c["HRS"] = c["MIN"] \div Base
  BY <1>1, NextClkStep
<1>4. hit \subseteq Running /\ done \subseteq hit /\ Running \subseteq Timer
  BY Zenon DEF Matches, Running
<1>5. ClocksAgree'
  BY <1>2, <1>3, Zenon DEF ClocksAgree
<1>6. \A k \in done : ct[k] \in Time
  <2> TAKE k \in done
  <2>1. Placed(k) /\ k \in Timer
    BY <1>4, ZenonT(60) DEF IInv
  <2> QED
    BY <1>1, <2>1, SlotValue, Zenon DEF Placed, TypeOK
<1> HIDE DEF c, ct, hit, done
<1>7. \A k \in Running \ done :
        /\ state'[k] = "wheel" /\ Placed(k)
        /\ ctime'[k] \in Time /\ wheel'[k] \in Wheel /\ rt'[k] \in Nat
        /\ ~Zero(ctime'[k]) /\ wheel'[k] = slot(ctime'[k])
        /\ rt'[k] > clk'[wheel'[k]]
        /\ Due(k)' = Due(k)
  <2> TAKE k \in Running \ done
  <2>1. state'[k] # "expd"
    BY <1>2, <1>4 DEF Running
  <2> QED
    BY <2>1, TickTimer, Zenon
<1>8. TypeOK'
  <2>1. \A k \in Timer : ctime'[k] \in Time /\ wheel'[k] \in Wheel /\ rt'[k] \in Nat
    <3> TAKE k \in Timer
    <3>1. CASE k \in Running \ done
      BY <1>7, <3>1
    <3>2. CASE k \in done
      BY <1>1, <1>2, <1>4, <1>6, <3>2 DEF TypeOK
    <3>3. CASE k \notin Running
      BY <1>1, <1>2, <1>4, <3>3, ZenonT(60) DEF TypeOK
    <3> QED
      BY <3>1, <3>2, <3>3, ZenonT(60)
  <2>2. /\ ctime' \in [Timer -> Time] /\ wheel' \in [Timer -> Wheel] /\ rt' \in [Timer -> Nat]
    BY <1>2, <2>1
  <2>3. state' \in [Timer -> {"free", "wheel", "expd", "lost"}]
    BY <1>1, <1>2 DEF TypeOK
  <2>4. count' \in Int
    <3>1. IsFiniteSet(done)
      BY <1>4, WheelAssumption, FS_Subset
    <3>2. Cardinality(done) \in Nat
      BY <3>1, FS_CardinalityType, Zenon
    <3> QED
      BY <1>1, <1>2, <3>2 DEF TypeOK
  <2> QED
    BY <1>1, <1>2, <1>3, <2>2, <2>3, <2>4, ZenonT(60) DEF TypeOK
<1>9. CountExact'
  <2>1. Counted' = Counted \ done /\ done \subseteq Counted /\ Counted \subseteq Timer
    BY <1>1, <1>2, <1>4 DEF Counted, Running, TypeOK
  <2>2. IsFiniteSet(Counted) /\ IsFiniteSet(done)
    BY <2>1, WheelAssumption, FS_Subset
  <2>3. Cardinality(Counted \ done) = Cardinality(Counted) - Cardinality(Counted \cap done)
    BY <2>2, FS_Difference, ZenonT(60)
  <2>4. Counted \cap done = done
    BY <2>1
  <2> QED
    BY <1>1, <1>2, <2>1, <2>3, <2>4, Zenon DEF CountExact, Counted
<1>10. ASSUME NEW k \in Running'
       PROVE  Placed(k)'
  <2>1. k \in Running \ done
    BY <1>2, <1>4, <1>10, Zenon DEF Running
  <2> QED
    BY <1>2, <1>7, <2>1, Zenon DEF Placed
<1> QED
  BY <1>5, <1>8, <1>9, <1>10 DEF IInv

(* Every step keeps the invariant.                                         *)
LEMMA NextIInv ==
  IInv /\ [Next]_vars => IInv'
<1> SUFFICES ASSUME IInv, [Next]_vars PROVE IInv'
  OBVIOUS
<1>1. CASE Next
  BY <1>1, StartStep, ReleaseStep, TickStep, WheelAssumption, ZenonT(60) DEF Next
<1>2. CASE UNCHANGED vars
  BY <1>2 DEF vars, IInv, TypeOK, ClocksAgree, CountExact, Running, Placed, Due
<1> QED
  BY <1>1, <1>2

(* A timer that is placed is not overdue: rt is at least one unit *)
(* above the last boundary of its clock, and so above the ticks so far.    *)
LEMMA PlacedNotLate ==
  ASSUME TypeOK, ClocksAgree, NEW k \in Running, Placed(k)
  PROVE  exp[k] > clk["TICK"]
<1> DEFINE w == wheel[k]
<1>1. /\ w \in Wheel /\ clk \in [Wheel -> Nat] /\ rt[k] \in Nat /\ exp[k] \in Nat
      /\ ctime[k] \in Time /\ ClocksAgree /\ Placed(k)
  BY DEF TypeOK, Running
<1>2. clk[w] \in Nat /\ Unit(w) \in Nat /\ clk["TICK"] \in Nat
  BY <1>1, Units DEF Wheel
<1>3. clk["TICK"] < Unit(w) * clk[w] + Unit(w)
  BY <1>1, ClockBounds
<1>4. rt[k] > clk[w] /\ Due(k) <= exp[k]
  BY <1>1, Zenon DEF Placed
<1>5. Unit(w) * (clk[w] + 1) <= Unit(w) * rt[k]
  <2>0. clk[w] \in Nat /\ rt[k] \in Nat /\ rt[k] > clk[w]
    BY <1>1, <1>2, <1>4, Zenon
  <2>1. clk[w] + 1 \in Nat /\ rt[k] \in Nat /\ Unit(w) \in Nat /\ clk[w] + 1 <= rt[k]
    BY <1>2, <2>0
  <2> QED
    BY <2>1, MulMono, Zenon
<1>6. Unit(w) * (clk[w] + 1) = Unit(w) * clk[w] + Unit(w)
  BY <1>2
<1>7. Due(k) = Unit(w) * rt[k] + Value(clear_wheel_timer(ctime[k], w))
  BY Zenon DEF Due
<1>8. Value(clear_wheel_timer(ctime[k], w)) \in Nat
  BY <1>1, SlotValue, Zenon DEF Placed
<1>9. Unit(w) * rt[k] \in Nat /\ Unit(w) * clk[w] \in Nat
  BY <1>1, <1>2
<1> DEFINE a == Unit(w) * clk[w]
           r == Unit(w) * rt[k]
           v == Value(clear_wheel_timer(ctime[k], w))
<1>10. /\ a \in Nat /\ r \in Nat /\ v \in Nat /\ exp[k] \in Nat
       /\ Unit(w) \in Nat /\ clk["TICK"] \in Nat
  BY <1>1, <1>2, <1>8, <1>9, Zenon
<1>11. clk["TICK"] < a + Unit(w)
  BY <1>3, Zenon
<1>12. a + Unit(w) <= r
  BY <1>5, <1>6, Zenon
<1>13. r + v <= exp[k]
  BY <1>4, <1>7, Zenon
<1> HIDE DEF w, a, r, v
<1> QED
  BY <1>10, <1>11, <1>12, <1>13

(* IInv is an invariant of the wheel, for every tick rate, radix, width of *)
(* the hours field and set of timers.                                      *)
THEOREM Invariance ==
  Spec => []IInv
<1>1. Init => IInv
  BY InitIInv
<1>2. IInv /\ [Next]_vars => IInv'
  BY NextIInv
<1> QED
  BY <1>1, <1>2, PTL DEF Spec

(* The fields of a timer, which calc_time and clear_wheel_timer rewrite,   *)
(* stay natural numbers on every path.                                     *)
THEOREM TypeCorrect ==
  Spec => []TypeOK
<1>1. IInv => TypeOK
  BY DEF IInv
<1> QED
  BY <1>1, Invariance, PTL

(* The exact-match lookup of process_timers misses no timer.               *)
THEOREM NoTimerMissed ==
  Spec => []NeverMissed
<1>1. IInv => NeverMissed
  BY DEF IInv, NeverMissed, Placed
<1> QED
  BY <1>1, Invariance, PTL

(* Every running timer is due in the future, whatever its cascade.         *)
THEOREM NoTimerLate ==
  Spec => []NeverLate
<1>1. IInv => NeverLate
  BY PlacedNotLate DEF NeverLate, IInv
<1> QED
  BY <1>1, Invariance, PTL

(* tmrrq.count and the clocks agree with what they summarise.              *)
THEOREM CountAndClocks ==
  Spec => [](CountExact /\ ClocksAgree)
<1>1. IInv => CountExact /\ ClocksAgree
  BY DEF IInv
<1> QED
  BY <1>1, Invariance, PTL

(* A timer is never more than one unit of its first wheel early.           *)
THEOREM EarlyBound ==
  Spec => EarlyByLessThanAUnit
<1> DEFINE Step(k) == state[k] = "wheel" /\ state'[k] = "expd"
                        /\ asked[k] < HrsLimit * Unit("HRS")
                      => exp[k] - clk'["TICK"] < Unit(slot(calc_time(asked[k])))
<1>1. ASSUME IInv, Next, NEW k \in Timer
      PROVE  Step(k)
  <2> SUFFICES ASSUME state[k] = "wheel", state'[k] = "expd",
                      asked[k] < HrsLimit * Unit("HRS")
               PROVE  exp[k] - clk'["TICK"] < Unit(slot(calc_time(asked[k])))
    OBVIOUS
  <2>1. update_times
    <3>1. ASSUME NEW j \in Timer, stop_timer(j) \/ process_expd_timers(j) PROVE FALSE
      BY <1>1, <3>1 DEF stop_timer, process_expd_timers, IInv, TypeOK
    <3>2. ASSUME NEW j \in Timer, NEW d \in Durations, start_timer(j, d) PROVE FALSE
      BY <1>1, <3>2 DEF start_timer, IInv, TypeOK
    <3> QED
      BY <1>1, <3>1, <3>2 DEF Next
  <2>2. k \in Running
    BY Zenon DEF Running
  <2>3. Placed(k) /\ clk'["TICK"] = Due(k)
    BY <1>1, <2>1, <2>2, TickTimer, ZenonT(60)
  <2> QED
    BY <2>3 DEF Placed
<1>2. ASSUME IInv, [Next]_vars
      PROVE  [\A k \in Timer : Step(k)]_vars
  BY <1>1, <1>2
<1>3. IInv /\ [Next]_vars => [\A k \in Timer :
         /\ state[k] = "wheel" /\ state'[k] = "expd"
         /\ asked[k] < HrsLimit * Unit("HRS")
         => exp[k] - clk'["TICK"] < Unit(slot(calc_time(asked[k])))]_vars
  BY <1>2
<1> QED
  BY <1>3, Invariance, PTL DEF Spec, EarlyByLessThanAUnit
-----------------------------------------------------------------------------
(* The wheel in the soft interrupt: the inductive invariant.               *)

SirqTypeOK ==
  /\ sfs \in BOOLEAN /\ status \in BOOLEAN /\ behind \in BOOLEAN /\ over \in BOOLEAN
  /\ pc \in Wheel \cup {"parked", "scan", "expd", "done", "park"}

(* The NORMAL build has no softirqd. *)
NoSirq == ~sfs => pc = "parked" /\ ~status /\ ~behind /\ ~over

(* A running timer is on the wheel of the largest unit it has time left in. *)
Shaped(k) == ~Zero(ctime[k]) /\ wheel[k] = slot(ctime[k])

(* It is due no later than exp, and less than a unit before. *)
Kept(k) ==
  /\ Due(k) <= exp[k]
  /\ asked[k] < HrsLimit * Unit("HRS")
       => exp[k] - Due(k) < Unit(slot(calc_time(asked[k])))

(* Its clock has reached rt, and the sweep that is to come, or under way,  *)
(* will come to its tree.                                                  *)
Reached(k) ==
  /\ behind /\ rt[k] = clk[wheel[k]] /\ Swept(wheel[k], clk)
  /\ pc \in Wheel => Below(pc, wheel[k])

(* softirqd sweeps only for a tick that asked, and the status is set only  *)
(* for such a tick or until the end of the action.                         *)
Flags ==
  /\ pc \in Wheel => behind
  /\ status => behind \/ pc \in {"expd", "done"}

OnTime ==
  ~over => Flags /\ \A k \in Running : Kept(k) /\ (rt[k] > clk[wheel[k]] \/ Reached(k))

WheelOK == TypeOK /\ ClocksAgree /\ CountExact

SInv ==
  WheelOK /\ SirqTypeOK /\ NoSirq /\ (\A k \in Running : Shaped(k)) /\ OnTime

(* A timer placed by start_timer is ahead of its clock. *)
LEMMA PlacedAhead ==
  ASSUME NEW k
  PROVE  Placed(k) <=> Shaped(k) /\ Kept(k) /\ rt[k] > clk[wheel[k]]
BY Zenon DEF Placed, Shaped, Kept

(* A timer left alone keeps what holds of it while neither the clocks nor  *)
(* softirqd move.                                                          *)
LEMMA SameKept ==
  ASSUME NEW j, Same(j), clk' = clk
  PROVE  /\ Shaped(j) => Shaped(j)'
         /\ Kept(j) => Kept(j)'
         /\ rt[j] > clk[wheel[j]] => (rt[j] > clk[wheel[j]])'
         /\ UNCHANGED <<pc, behind>> /\ Reached(j) => Reached(j)'
<1>1. Due(j)' = Due(j)
  BY DEF Due, Same
<1> QED
  BY <1>1, Zenon DEF Shaped, Kept, Reached, Same

(* The NORMAL build keeps the invariant of the wheel. *)
LEMMA NormalIInv ==
  ASSUME SInv, ~sfs
  PROVE  IInv
<1>1. ~behind /\ ~over
  BY DEF SInv, NoSirq
<1>2. \A k \in Running : Placed(k)
  <2> TAKE k \in Running
  <2>1. Shaped(k) /\ Kept(k) /\ rt[k] > clk[wheel[k]]
    BY <1>1 DEF SInv, OnTime, Reached
  <2> QED
    BY <2>1, PlacedAhead
<1> QED
  BY <1>2 DEF SInv, WheelOK, IInv

(* The invariant holds when the library starts.                            *)
LEMMA SirqInitInv ==
  SirqInit => SInv
<1> SUFFICES ASSUME SirqInit PROVE SInv
  OBVIOUS
<1>1. IInv
  BY InitIInv DEF SirqInit
<1>2. Running = {}
  BY DEF SirqInit, Init, Running
<1>3. SirqTypeOK /\ NoSirq /\ Flags
  BY Zenon DEF SirqInit, SirqTypeOK, NoSirq, Flags, Wheel
<1> QED
  BY <1>1, <1>2, <1>3 DEF SInv, WheelOK, IInv, OnTime

-----------------------------------------------------------------------------
(* Calls of the API.                                                       *)

(* A step that leaves softirqd alone and every timer but one.              *)
LEMMA CallStep ==
  ASSUME SInv, UNCHANGED <<sfs, sirq>>, WheelOK', clk' = clk, NEW k,
         k \in Running' => Placed(k)',
         \A j \in Running' : j # k => Same(j)
  PROVE  SInv'
<1>1. /\ UNCHANGED <<pc, status, behind, over, sfs>>
  BY DEF sirq
<1>2. SirqTypeOK' /\ NoSirq' /\ (Flags => Flags')
  BY <1>1, SMTT(60) DEF SInv, SirqTypeOK, NoSirq, Flags
<1>3. ASSUME NEW j \in Running'
      PROVE  Shaped(j)' /\ (~over => Kept(j)' /\ ((rt[j] > clk[wheel[j]])' \/ Reached(j)'))
  <2>1. CASE j = k
    BY <1>3, <2>1, Zenon DEF Placed, Shaped, Kept
  <2>2. CASE j # k
    <3>1. Same(j) /\ j \in Running
      BY <1>3, <2>2 DEF Same
    <3>2. Shaped(j) /\ (~over => Kept(j) /\ (rt[j] > clk[wheel[j]] \/ Reached(j)))
      BY <3>1 DEF SInv, OnTime
    <3> QED
      BY <1>1, <3>1, <3>2, SameKept, ZenonT(60)
  <2> QED
    BY <2>1, <2>2, Zenon
<1> QED
  BY <1>1, <1>2, <1>3, Zenon DEF SInv, OnTime

(* start_timer, stop_timer and the end of a handler, in either build.      *)
LEMMA ApiStep ==
  ASSUME SInv, UNCHANGED <<sfs, sirq>>,
         \/ \E k \in Timer, d \in Durations : start_timer(k, d)
         \/ \E k \in Timer : stop_timer(k) \/ process_expd_timers(k)
  PROVE  SInv'
<1>1. TypeOK /\ ClocksAgree /\ CountExact
  BY DEF SInv, WheelOK
<1>2. ASSUME NEW k \in Timer, NEW d \in Durations, start_timer(k, d)
      PROVE  SInv'
  <2>1. d \in Nat
    BY WheelAssumption
  <2>2. /\ TypeOK' /\ ClocksAgree' /\ CountExact' /\ clk' = clk
        /\ k \in Running' => Placed(k)'
        /\ \A j \in Running' : j # k => Same(j)
    BY <1>1, <1>2, <2>1, StartPlaces
  <2> QED
    BY <2>2, CallStep DEF WheelOK
<1>3. ASSUME NEW k \in Timer, stop_timer(k) \/ process_expd_timers(k)
      PROVE  SInv'
  <2>1. /\ TypeOK' /\ ClocksAgree' /\ CountExact' /\ clk' = clk
        /\ \A j \in Running' : Same(j)
    BY <1>1, <1>3, ReleaseFrees
  <2>2. k \notin Running'
    BY <1>1, <1>3, ZenonT(60) DEF stop_timer, process_expd_timers, Running, TypeOK
  <2> QED
    BY <2>1, <2>2, CallStep DEF WheelOK
<1> QED
  BY <1>2, <1>3

-----------------------------------------------------------------------------
(* The tick.                                                               *)

(* A tick moves a clock by one at most, and a timer whose rt its clock     *)
(* reaches makes the tick ask for a sweep.                                 *)
LEMMA TickAsks ==
  ASSUME SInv, NEW k \in Running, rt[k] > clk[wheel[k]]
  PROVE  \/ rt[k] > NextClk[wheel[k]]
         \/ /\ rt[k] = NextClk[wheel[k]] /\ Swept(wheel[k], NextClk)
            /\ timers_pending_for_service(NextClk)
<1> DEFINE c == NextClk
           w == wheel[k]
<1>1. /\ k \in Timer /\ state[k] = "wheel" /\ w \in Wheel /\ rt[k] \in Nat
      /\ clk \in [Wheel -> Nat] /\ ClocksAgree /\ CountExact
  BY Zenon DEF SInv, WheelOK, TypeOK, Running
<1>2. c[w] = clk[w] \/ (c[w] = clk[w] + 1 /\ Swept(w, c))
  BY <1>1, NextClkStep
<1>3. clk[w] \in Nat
  BY <1>1
<1> HIDE DEF c
<1>4. rt[k] > c[w] \/ (rt[k] = c[w] /\ Swept(w, c))
  BY <1>1, <1>2, <1>3
<1>5. count # 0
  <2>1. k \in Counted /\ Counted \subseteq Timer
    BY <1>1 DEF Counted
  <2>2. IsFiniteSet(Counted)
    BY <2>1, WheelAssumption, FS_Subset
  <2>3. Cardinality(Counted) # 0
    BY <2>1, <2>2, FS_EmptySet
  <2> QED
    BY <1>1, <2>3 DEF CountExact, Counted
<1>6. Swept(w, c) => timers_pending_for_service(c)
  BY <1>1, <1>5, Zenon DEF timers_pending_for_service, Swept, nxt_sec, nxt_min, nxt_hr
<1> QED
  BY <1>4, <1>6 DEF c

(* The SIGALRM handler keeps the invariant: a tick that came while behind  *)
(* sets over; any other leaves only timers its sweep will find.            *)
LEMMA TickIntrStep ==
  ASSUME SInv, tick_tmr_intr
  PROVE  SInv'
<1> DEFINE asks == timers_pending_for_service(NextClk)
<1>1. /\ sfs /\ sfs' = sfs /\ clk' = NextClk
      /\ status' = (status \/ asks)
      /\ pc' = IF asks /\ pc = "parked" THEN "scan" ELSE pc
      /\ behind' = (behind \/ asks)
      /\ over' = (over \/ behind)
      /\ UNCHANGED <<state, wheel, ctime, rt, exp, asked, count>>
  BY DEF tick_tmr_intr
<1>2. WheelOK /\ SirqTypeOK /\ clk \in [Wheel -> Nat] /\ ClocksAgree
  BY Zenon DEF SInv, WheelOK, TypeOK
<1>3. WheelOK'
  BY <1>1, <1>2, NextClkStep DEF WheelOK, TypeOK, ClocksAgree, CountExact
<1> HIDE DEF asks
<1>4. SirqTypeOK' /\ NoSirq'
  BY <1>1, <1>2 DEF SirqTypeOK, NoSirq
<1>5. Running' = Running /\ \A k \in Running : Shaped(k)'
  BY <1>1 DEF SInv, Running, Shaped
<1>6. ASSUME ~over'
      PROVE  Flags' /\ \A k \in Running : Kept(k)' /\ ((rt[k] > clk[wheel[k]])' \/ Reached(k)')
  <2>1. ~over /\ ~behind
    BY <1>1, <1>6, Zenon
  <2>2. Flags /\ pc \notin Wheel
    BY <2>1 DEF SInv, OnTime, Flags
  <2>3. pc' \notin Wheel
    BY <1>1, <2>2 DEF Wheel
  <2>4. status' => behind' \/ pc' \in {"expd", "done"}
    BY <1>1, <2>1, <2>2 DEF Flags
  <2>5. ASSUME NEW k \in Running
        PROVE  Kept(k)' /\ ((rt[k] > clk[wheel[k]])' \/ Reached(k)')
    <3>1. Kept(k) /\ rt[k] > clk[wheel[k]]
      BY <2>1, Zenon DEF SInv, OnTime, Reached
    <3>2. Kept(k)'
      BY <1>1, <3>1, ZenonT(60) DEF Kept, Due
    <3>3. \/ rt[k] > NextClk[wheel[k]]
          \/ rt[k] = NextClk[wheel[k]] /\ Swept(wheel[k], NextClk) /\ asks
      BY <3>1, TickAsks DEF asks
    <3>4. rt[k] > NextClk[wheel[k]] => (rt[k] > clk[wheel[k]])'
      BY <1>1, Zenon
    <3>5. rt[k] = NextClk[wheel[k]] /\ Swept(wheel[k], NextClk) /\ asks => Reached(k)'
      BY <1>1, <2>3, Zenon DEF Reached, Swept, nxt_sec, nxt_min, nxt_hr
    <3> QED
      BY <3>2, <3>3, <3>4, <3>5, ZenonT(60)
  <2> QED
    BY <2>3, <2>4, <2>5 DEF Flags
<1> QED
  BY <1>3, <1>4, <1>5, <1>6 DEF SInv, OnTime

-----------------------------------------------------------------------------
(* softirqd.                                                               *)

(* The steps of softirqd outside the sweep touch no timer.                 *)
LEMMA MoveStep ==
  ASSUME SInv, ScanIrq \/ Served \/ IrqDone \/ Park
  PROVE  SInv'
<1>1. UNCHANGED <<vars, sfs, behind, over>>
  BY DEF ScanIrq, Served, IrqDone, Park
<1>2. SirqTypeOK /\ NoSirq
  BY DEF SInv
<1>3. /\ pc # "parked"
      /\ pc' \in {"TICK", "park", "done", "parked", "scan"}
      /\ pc' = "TICK" => pc = "scan" /\ status
      /\ pc' = "done" => status' = status
      /\ status' => status' = status /\ (pc' = "done" \/ pc \in {"scan", "park"})
      /\ status' \in BOOLEAN
  BY <1>2, ZenonT(60) DEF ScanIrq, Served, IrqDone, Park, SirqTypeOK
<1>4. WheelOK'
  BY <1>1 DEF SInv, WheelOK, TypeOK, ClocksAgree, CountExact, vars
<1>5. SirqTypeOK' /\ NoSirq'
  BY <1>1, <1>2, <1>3, ZenonT(60) DEF SirqTypeOK, NoSirq, Wheel
<1>6. Running' = Running /\ \A k \in Running : Shaped(k)'
  BY <1>1, Zenon DEF SInv, Running, Shaped, vars
<1>7. ASSUME ~over'
      PROVE  Flags' /\ \A k \in Running : Kept(k)' /\ ((rt[k] > clk[wheel[k]])' \/ Reached(k)')
  <2>1. Flags /\ ~over
    BY <1>1, <1>7 DEF SInv, OnTime
  <2>2. Flags'
    BY <1>1, <1>3, <2>1, SMTT(60) DEF Flags, Wheel
  <2>3. ASSUME NEW k \in Running
        PROVE  Kept(k)' /\ ((rt[k] > clk[wheel[k]])' \/ Reached(k)')
    <3>1. Kept(k) /\ (rt[k] > clk[wheel[k]] \/ Reached(k))
      BY <2>1, Zenon DEF SInv, OnTime
    <3>2. Kept(k)' /\ (rt[k] > clk[wheel[k]] => (rt[k] > clk[wheel[k]])')
      BY <1>1, <3>1, Zenon DEF Kept, Due, vars
    <3>3. pc' \in Wheel => pc' = "TICK"
      BY <1>3, Zenon DEF Wheel
    <3>4. Reached(k) => Reached(k)'
      BY <1>1, <3>3, Zenon DEF Reached, Swept, nxt_sec, nxt_min, nxt_hr, Below, vars
    <3> QED
      BY <3>1, <3>2, <3>4, Zenon
  <2> QED
    BY <2>2, <2>3
<1> QED
  BY <1>4, <1>5, <1>6, <1>7, Zenon DEF SInv, OnTime

(* A timer that is reached is on a tree the sweep has not left out: every  *)
(* smaller clock has moved on too.                                         *)
LEMMA ReachedHappened ==
  ASSUME NEW w \in Wheel, NEW v \in Wheel, Below(w, v), Swept(v, clk)
  PROVE  Happened(w)
BY ZenonT(60) DEF Below, Swept, Happened, nxt_sec, nxt_min, nxt_hr, Wheel

(* The order of the sweep: a tree not smaller than the one just swept, and *)
(* not that one, is still to come.                                         *)
LEMMA AboveBelow ==
  ASSUME NEW w \in Wheel, NEW v \in Wheel, Below(w, v), v # w
  PROVE  Above(w) \in Wheel /\ Below(Above(w), v)
BY DEF Below, Above, Wheel

(* One timer in the sweep of its tree: it expires, or goes on to a smaller *)
(* wheel; it is due as before unless its tree was swept out of turn.       *)
LEMMA SweepTimer ==
  ASSUME SInv, NEW w \in Wheel, process_timers(w), UNCHANGED <<clk, exp, asked>>,
         NEW k \in Found(w)
  PROVE  /\ k \in Running
         /\ ctime'[k] \in Time /\ wheel'[k] \in Wheel /\ rt'[k] \in Nat
         /\ state'[k] \in {"wheel", "expd"}
         /\ state'[k] = "wheel" =>
              /\ Shaped(k)' /\ rt'[k] > clk[wheel'[k]]
              /\ Swept(w, clk) => Due(k)' = Due(k)
<1> DEFINE ct == clear_wheel_timer(ctime[k], w)
           v == slot(ct)
<1>1. k \in Timer /\ state[k] = "wheel" /\ wheel[k] = w /\ rt[k] = clk[w] /\ k \in Running
  BY Zenon DEF Found, Running
<1>2. /\ TypeOK /\ ClocksAgree /\ clk \in [Wheel -> Nat] /\ ctime[k] \in Time /\ Shaped(k)
      /\ rt[k] \in Nat
  BY <1>1, Zenon DEF SInv, WheelOK, TypeOK
<1>3. /\ ctime'[k] = ct
      /\ state'[k] = IF Zero(ct) THEN "expd" ELSE "wheel"
      /\ wheel'[k] = IF Zero(ct) THEN w ELSE v
      /\ rt'[k] = IF Zero(ct) THEN rt[k] ELSE clk[v] + left(ct)
  BY <1>1, ZenonT(60) DEF process_timers, TakeOut
<1>4. ~Zero(ctime[k]) /\ w = slot(ctime[k])
  BY <1>1, <1>2, ZenonT(60) DEF Shaped
<1>5. ct \in Time /\ Value(ct) \in Nat
  BY <1>2, <1>4, SlotValue, Zenon
<1>6. ~Zero(ct) => v \in Wheel /\ left(ct) \in Nat /\ left(ct) > 0 /\ clk[v] \in Nat
  BY <1>2, <1>5, SlotValue, ZenonT(60)
<1>7. Due(k) = Unit(w) * clk[w] + Value(ct)
  BY <1>1, ZenonT(60) DEF Due
<1> HIDE DEF ct, v
<1>8. ctime'[k] \in Time /\ wheel'[k] \in Wheel /\ rt'[k] \in Nat
  <2>1. CASE Zero(ct)
    BY <1>2, <1>3, <1>5, <2>1, Zenon
  <2>2. CASE ~Zero(ct)
    BY <1>3, <1>5, <1>6, <2>2, SumAbove, ZenonT(60)
  <2> QED
    BY <2>1, <2>2, Zenon
<1>9. ASSUME ~Zero(ct)
      PROVE  Shaped(k)' /\ rt'[k] > clk[wheel'[k]]
  <2>1. ctime'[k] = ct /\ wheel'[k] = v /\ rt'[k] = clk[v] + left(ct)
    BY <1>3, <1>9, Zenon
  <2>2. clk[v] + left(ct) > clk[v]
    BY <1>6, <1>9, SumAbove, Zenon
  <2>3. Shaped(k)'
    BY <1>9, <2>1, Zenon DEF Shaped, v
  <2> QED
    BY <2>1, <2>2, <2>3, Zenon
<1>10. ASSUME ~Zero(ct), Swept(w, clk)
       PROVE  Due(k)' = Due(k)
  <2>1. Below(v, w)
    BY <1>2, <1>4, <1>10, ClearBelow, ZenonT(60) DEF v, ct
  <2>2. Unit(v) * clk[v] = clk["TICK"] /\ Unit(w) * clk[w] = clk["TICK"]
    BY <1>2, <1>6, <1>10, <2>1, SweptOnBoundary, ZenonT(60) DEF ClocksAgree, Below
  <2>3. Unit(v) * (clk[v] + left(ct)) + Value(clear_wheel_timer(ct, v))
          = Unit(v) * clk[v] + Value(ct)
    BY <1>2, <1>5, <1>10, PlaceDue, ZenonT(60) DEF v
  <2>4. Due(k)' = Unit(v) * (clk[v] + left(ct)) + Value(clear_wheel_timer(ct, v))
    BY <1>3, <1>10, ZenonT(60) DEF Due
  <2> QED
    BY <1>7, <2>2, <2>3, <2>4, ZenonT(60)
<1> QED
  BY <1>1, <1>3, <1>8, <1>9, <1>10, Zenon

(* The other timers are left alone.                                        *)
LEMMA SweepOthers ==
  ASSUME SInv, NEW w \in Wheel, process_timers(w), UNCHANGED <<clk, exp, asked>>,
         NEW k \in Timer \ Found(w)
  PROVE  /\ state'[k] = state[k]
         /\ ctime'[k] = ctime[k] /\ wheel'[k] = wheel[k] /\ rt'[k] = rt[k]
BY Zenon DEF process_timers, TakeOut

(* The sweep of a tree keeps the types, the clocks and the count.          *)
LEMMA SweepBase ==
  ASSUME SInv, NEW w \in Wheel, process_timers(w), UNCHANGED <<clk, exp, asked>>
  PROVE  WheelOK'
<1> DEFINE hit == Found(w)
           done == {k \in hit : Zero(clear_wheel_timer(ctime[k], w))}
<1>1. TypeOK /\ ClocksAgree /\ CountExact /\ hit \subseteq Timer /\ done \subseteq hit
  BY ZenonT(60) DEF SInv, WheelOK, Found
<1>2. /\ count' = count - Cardinality(done)
      /\ state' = [k \in Timer |-> IF k \in done THEN "expd" ELSE state[k]]
      /\ ctime' = [k \in Timer |-> ctime'[k]]
      /\ wheel' = [k \in Timer |-> wheel'[k]]
      /\ rt' = [k \in Timer |-> rt'[k]]
  <2>1. done = {k \in hit : Zero([j \in Timer |-> clear_wheel_timer(ctime[j], w)][k])}
    BY <1>1
  <2> QED
    BY <2>1, Zenon DEF process_timers, TakeOut
<1>3. ClocksAgree'
  BY <1>1 DEF ClocksAgree
<1>4. \A k \in Timer : ctime'[k] \in Time /\ wheel'[k] \in Wheel /\ rt'[k] \in Nat
  <2> TAKE k \in Timer
  <2>1. CASE k \in hit
    BY <2>1, SweepTimer, ZenonT(60)
  <2>2. CASE k \notin hit
    BY <1>1, <2>2, SweepOthers, ZenonT(60) DEF TypeOK
  <2> QED
    BY <2>1, <2>2
<1>5. IsFiniteSet(done) /\ Cardinality(done) \in Nat
  <2>1. IsFiniteSet(done)
    BY <1>1, WheelAssumption, FS_Subset
  <2> QED
    BY <2>1, FS_CardinalityType
<1>6. \A k \in done : state[k] = "wheel"
  BY DEF Found
<1> HIDE DEF hit, done
<1>7. TypeOK'
  BY <1>1, <1>2, <1>4, <1>5, SMTT(60) DEF TypeOK
<1>8. CountExact'
  <2>1. Counted' = Counted \ done /\ done \subseteq Counted /\ Counted \subseteq Timer
    BY <1>1, <1>2, <1>6 DEF Counted, TypeOK
  <2>2. IsFiniteSet(Counted)
    BY <2>1, WheelAssumption, FS_Subset
  <2>3. Cardinality(Counted \ done) = Cardinality(Counted) - Cardinality(Counted \cap done)
    BY <1>5, <2>2, FS_Difference, Zenon
  <2>4. Counted \cap done = done
    BY <2>1
  <2> QED
    BY <1>1, <1>2, <2>1, <2>3, <2>4, ZenonT(60) DEF CountExact, Counted
<1> QED
  BY <1>3, <1>7, <1>8, Zenon DEF WheelOK

(* The sweep goes on to the next tree.  Without an overrun it finds every  *)
(* timer its clock has reached on this tree; those reached on larger ones  *)
(* are still to come.                                                      *)
LEMMA SweepStep ==
  ASSUME SInv, NEW w \in Wheel, tm_process_tick_and_update_timers(w), Happened(w)
  PROVE  SInv'
<1>1. /\ pc = w /\ pc' = Above(w) /\ process_timers(w)
      /\ behind' = (behind /\ pc' # "expd")
      /\ UNCHANGED <<clk, exp, asked>> /\ UNCHANGED <<sfs, status, over>>
  BY DEF tm_process_tick_and_update_timers
<1>2. SirqTypeOK /\ NoSirq /\ TypeOK
  BY DEF SInv, WheelOK
<1>3. WheelOK'
  BY <1>1, SweepBase
<1>4. Above(w) \in Wheel \cup {"expd"}
  BY DEF Above, Wheel
<1>5. SirqTypeOK' /\ NoSirq'
  BY <1>1, <1>2, <1>4 DEF SirqTypeOK, NoSirq, Wheel
<1>6. ASSUME NEW k \in Running'
      PROVE  /\ k \in Timer /\ k \in Running
             /\ k \in Found(w) => state'[k] = "wheel"
             /\ k \notin Found(w) => Same(k)
  <2>1. k \in Timer /\ state'[k] = "wheel"
    BY <1>6, Zenon DEF Running
  <2>2. CASE k \in Found(w)
    BY <1>1, <2>1, <2>2, SweepTimer, ZenonT(60)
  <2>3. CASE k \notin Found(w)
    <3>1. /\ state'[k] = state[k] /\ ctime'[k] = ctime[k]
          /\ wheel'[k] = wheel[k] /\ rt'[k] = rt[k]
      BY <1>1, <2>1, <2>3, SweepOthers, Zenon
    <3> QED
      BY <1>1, <2>1, <2>3, <3>1, ZenonT(60) DEF Running, Same
  <2> QED
    BY <2>1, <2>2, <2>3
<1>7. ASSUME NEW k \in Running'
      PROVE  Shaped(k)'
  <2>1. CASE k \in Found(w)
    BY <1>1, <1>6, <1>7, <2>1, SweepTimer, ZenonT(60)
  <2>2. CASE k \notin Found(w)
    <3>1. Same(k) /\ Shaped(k)
      BY <1>6, <1>7, <2>2, Zenon DEF SInv
    <3> QED
      BY <1>1, <3>1, SameKept, Zenon
  <2> QED
    BY <2>1, <2>2, Zenon
<1>8. ASSUME ~over'
      PROVE  Flags' /\ \A k \in Running' : Kept(k)' /\ ((rt[k] > clk[wheel[k]])' \/ Reached(k)')
  <2>1. ~over /\ Flags /\ behind
    BY <1>1, <1>8, Zenon DEF SInv, OnTime, Flags
  <2>2. Flags'
    BY <1>1, <1>4, <2>1, Zenon DEF Flags, Wheel
  <2>3. ASSUME NEW k \in Running'
        PROVE  Kept(k)' /\ ((rt[k] > clk[wheel[k]])' \/ Reached(k)')
    <3>1. k \in Timer /\ k \in Running /\ wheel[k] \in Wheel /\ rt[k] \in Nat /\ clk[wheel[k]] \in Nat
      BY <1>2, <1>6, <2>3, ZenonT(60) DEF TypeOK
    <3>2. Kept(k) /\ (rt[k] > clk[wheel[k]] \/ Reached(k))
      BY <2>1, <3>1, Zenon DEF SInv, OnTime
    <3>3. CASE k \in Found(w)
      <4>1. wheel[k] = w /\ rt[k] = clk[w]
        BY <3>3, Zenon DEF Found
      <4>2. Swept(w, clk)
        BY <3>1, <3>2, <4>1, NotAbove, Zenon DEF Reached
      <4>3. Due(k)' = Due(k) /\ rt'[k] > clk[wheel'[k]]
        BY <1>1, <1>6, <2>3, <3>3, <4>2, SweepTimer, ZenonT(60)
      <4>4. Kept(k)'
        BY <1>1, <3>2, <4>3, ZenonT(60) DEF Kept
      <4> QED
        BY <1>1, <4>3, <4>4, Zenon
    <3>4. CASE k \notin Found(w)
      <4>1. Same(k)
        BY <1>6, <2>3, <3>4, ZenonT(60)
      <4>2. Kept(k)' /\ (rt[k] > clk[wheel[k]] => (rt[k] > clk[wheel[k]])')
        BY <1>1, <3>2, <4>1, SameKept, ZenonT(60)
      <4>3. ASSUME Reached(k)
            PROVE  Reached(k)'
        <5>1. Below(w, wheel[k]) /\ rt[k] = clk[wheel[k]] /\ Swept(wheel[k], clk)
          BY <1>1, <4>3, ZenonT(60) DEF Reached
        <5>2. wheel[k] # w
          BY <3>1, <3>4, <5>1, ZenonT(60) DEF Found, Running
        <5>3. Above(w) \in Wheel /\ Below(Above(w), wheel[k])
          BY <3>1, <5>1, <5>2, AboveBelow
        <5>4. behind'
          BY <1>1, <2>1, <5>3, Zenon DEF Wheel
        <5> QED
          BY <1>1, <4>1, <5>1, <5>3, <5>4, ZenonT(60) DEF Reached, Same, Swept, nxt_sec, nxt_min, nxt_hr
      <4> QED
        BY <3>2, <4>2, <4>3, Zenon
    <3> QED
      BY <3>3, <3>4
  <2> QED
    BY <2>2, <2>3, Zenon
<1> QED
  BY <1>3, <1>5, <1>7, <1>8, Zenon DEF SInv, OnTime

(* The sweep ends at a clock that has not moved on: no timer was reached   *)
(* on this tree or a larger one.                                           *)
LEMMA SweepEnd ==
  ASSUME SInv, NEW w \in Wheel, tm_process_tick_and_update_timers(w), ~Happened(w)
  PROVE  SInv'
<1>1. /\ pc = w /\ pc' = "expd" /\ behind' = FALSE
      /\ UNCHANGED <<vars, sfs, status, over>>
  BY Zenon DEF tm_process_tick_and_update_timers, vars
<1>2. SirqTypeOK /\ NoSirq /\ TypeOK
  BY DEF SInv, WheelOK
<1>3. WheelOK'
  BY <1>1 DEF SInv, WheelOK, TypeOK, ClocksAgree, CountExact, vars
<1>4. SirqTypeOK' /\ NoSirq'
  BY <1>1, <1>2, Zenon DEF SirqTypeOK, NoSirq, Wheel
<1>5. Running' = Running /\ \A k \in Running : Shaped(k)'
  BY <1>1, Zenon DEF SInv, Running, Shaped, vars
<1>6. ASSUME ~over'
      PROVE  Flags' /\ \A k \in Running : Kept(k)' /\ (rt[k] > clk[wheel[k]])'
  <2>1. ~over
    BY <1>1, <1>6
  <2>2. Flags'
    BY <1>1, Zenon DEF Flags, Wheel
  <2>3. ASSUME NEW k \in Running
        PROVE  Kept(k)' /\ (rt[k] > clk[wheel[k]])'
    <3>1. Kept(k) /\ (rt[k] > clk[wheel[k]] \/ Reached(k)) /\ wheel[k] \in Wheel
      BY <1>2, <2>1, Zenon DEF SInv, OnTime, TypeOK, Running
    <3>2. ~Reached(k)
      BY <1>1, <3>1, ReachedHappened, ZenonT(60) DEF Reached
    <3> QED
      BY <1>1, <3>1, <3>2, Zenon DEF Kept, Due, vars
  <2> QED
    BY <2>2, <2>3
<1> QED
  BY <1>3, <1>4, <1>5, <1>6, Zenon DEF SInv, OnTime

-----------------------------------------------------------------------------
(* A tick of the NORMAL build is one of TimerWheel.                        *)
LEMMA NormalTickStep ==
  ASSUME SInv, ~sfs, update_times, UNCHANGED <<sfs, sirq>>
  PROVE  SInv'
<1>1. IInv'
  BY NormalIInv, TickStep
<1>2. UNCHANGED <<pc, status, behind, over, sfs>>
  BY Zenon DEF sirq
<1>3. SirqTypeOK' /\ NoSirq' /\ (Flags => Flags') /\ (~over => Flags)
  BY <1>2, ZenonT(60) DEF SInv, SirqTypeOK, NoSirq, Flags, OnTime
<1>4. \A k \in Running' : Shaped(k)' /\ Kept(k)' /\ (rt[k] > clk[wheel[k]])'
  BY <1>1, Zenon DEF IInv, Placed, Shaped, Kept
<1> QED
  BY <1>1, <1>2, <1>3, <1>4, Zenon DEF SInv, WheelOK, IInv, OnTime

(* Every step keeps the invariant.                                         *)
LEMMA SirqNextInv ==
  SInv /\ [SirqNext]_allvars => SInv'
<1> SUFFICES ASSUME SInv, [SirqNext]_allvars PROVE SInv'
  OBVIOUS
<1>1. CASE Calls
  BY <1>1, ApiStep DEF Calls
<1>2. CASE Normal
  BY <1>2, ApiStep, NormalTickStep DEF Normal
<1>3. CASE tick_tmr_intr
  BY <1>3, TickIntrStep
<1>4. CASE softirqd
  <2>1. CASE \E w \in Wheel : tm_process_tick_and_update_timers(w)
    BY <2>1, SweepStep, SweepEnd
  <2>2. CASE \E k \in Timer : Serve(k)
    BY <2>2, ApiStep, Zenon DEF Serve
  <2> QED
    BY <1>4, <2>1, <2>2, MoveStep DEF softirqd
<1>5. CASE UNCHANGED allvars
  <2>1. UNCHANGED <<vars, sfs, sirq>>
    BY <1>5 DEF allvars
  <2>2. UNCHANGED <<clk, state, wheel, ctime, rt, exp, asked, count>>
    BY <2>1, Zenon DEF vars
  <2>3. WheelOK' /\ Running' = Running /\ \A j \in Running : Same(j)
    BY <2>2 DEF SInv, WheelOK, TypeOK, ClocksAgree, CountExact, Running, Same
  <2>4. UNCHANGED <<pc, status, behind, over, sfs>>
    BY <2>1 DEF sirq
  <2>5. SirqTypeOK' /\ NoSirq' /\ (Flags => Flags')
    BY <2>4, Zenon DEF SInv, SirqTypeOK, NoSirq, Flags
  <2>6. \A j \in Running :
          /\ Shaped(j)'
          /\ ~over => Kept(j)' /\ ((rt[j] > clk[wheel[j]])' \/ Reached(j)')
    BY <2>2, <2>3, <2>4, SameKept, ZenonT(60) DEF SInv, OnTime
  <2> QED
    BY <2>3, <2>4, <2>5, <2>6, Zenon DEF SInv, OnTime
<1> QED
  BY <1>1, <1>2, <1>3, <1>4, <1>5 DEF SirqNext

(* SInv is an invariant of both builds.                                    *)
THEOREM SirqInvariance ==
  SirqSpec => []SInv
<1> QED
  BY SirqInitInv, SirqNextInv, PTL DEF SirqSpec

(* A timer is passed by its clock only after a tick that came before the   *)
(* sweep for an earlier one had ended, whatever is started and stopped in  *)
(* the middle of a sweep; never in the NORMAL build.                       *)
THEOREM NoneMissedWithoutOverrun ==
  SirqSpec => []MissedOnlyByOverrun
<1>1. SInv => MissedOnlyByOverrun
  BY DEF SInv, OnTime, Reached, MissedOnlyByOverrun
<1> QED
  BY <1>1, SirqInvariance, PTL

(* Nor is a timer late before such a tick.                                 *)
THEOREM NoneLateWithoutOverrun ==
  SirqSpec => []LateOnlyByOverrun
<1>1. SInv => LateOnlyByOverrun
  <2> SUFFICES ASSUME SInv, NEW k \in Running, ~over
               PROVE  exp[k] > clk["TICK"] \/ (behind /\ exp[k] = clk["TICK"])
    BY DEF LateOnlyByOverrun
  <2>1. /\ TypeOK /\ ClocksAgree /\ Shaped(k) /\ Kept(k)
        /\ rt[k] > clk[wheel[k]] \/ Reached(k)
    BY DEF SInv, WheelOK, OnTime
  <2>2. CASE rt[k] > clk[wheel[k]]
    BY <2>1, <2>2, PlacedAhead, PlacedNotLate
  <2>3. CASE Reached(k)
    <3> DEFINE w == wheel[k]
               v == Value(clear_wheel_timer(ctime[k], w))
    <3>1. /\ w \in Wheel /\ clk \in [Wheel -> Nat] /\ clk["TICK"] \in Nat
          /\ ctime[k] \in Time /\ exp[k] \in Nat
      BY <2>1, Zenon DEF TypeOK, Running, Wheel
    <3>2. Unit(w) * clk[w] = clk["TICK"]
      BY <2>1, <2>3, <3>1, SweptOnBoundary, ZenonT(60) DEF Reached, ClocksAgree, Below
    <3>3. Due(k) = clk["TICK"] + v
      BY <2>3, <3>2, ZenonT(60) DEF Reached, Due
    <3>4. v \in Nat
      BY <2>1, <3>1, SlotValue, ZenonT(60) DEF Shaped
    <3>5. Due(k) <= exp[k] /\ behind
      BY <2>1, <2>3, Zenon DEF Kept, Reached
    <3> HIDE DEF w, v
    <3> QED
      BY <3>1, <3>3, <3>4, <3>5
  <2> QED
    BY <2>1, <2>2, <2>3
<1> QED
  BY <1>1, SirqInvariance, PTL

(* tmrrq.count is exact in both builds, also after an overrun.             *)
THEOREM SirqCountExact ==
  SirqSpec => []CountExact
<1>1. SInv => CountExact
  BY DEF SInv, WheelOK
<1> QED
  BY <1>1, SirqInvariance, PTL
=============================================================================
