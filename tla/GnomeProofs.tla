----------------------------- MODULE GnomeProofs -----------------------------
(***************************************************************************)
(* Proofs about a GNOME session and the EDIDs it writes.                   *)
(*                                                                         *)
(* Whatever spec `up` is given, the EDID that is built for it is faithful  *)
(* to the timing that was computed for it.  The argument is arithmetic:    *)
(* what the divisions return, from it what the timing's fields lie         *)
(* between, from that the refresh rate of the frame, and then that no cast *)
(* cuts a field and that every range is wide enough.  Products of          *)
(* variables are kept behind definitions and multiplied out by lemmas.     *)
(*                                                                         *)
(* Then GnomeSession, for any desks, connectors, command lines and bounds: *)
(* a request that Mutter refuses as stale is one in whose way somebody has *)
(* come, every device has the EDID built for its spec, and the types.      *)
(*                                                                         *)
(* The types say of Mutter's state that it is one Mutter may be in.  To    *)
(* see that it stays one, a configuration is described (ConfigOK): each of *)
(* its parts shows monitors there are, in modes of theirs, and no monitor  *)
(* twice.  Carried out, such a configuration leaves a sound state (Obeys); *)
(* and all that are made, of a plan, by Mutter or by the user, are such    *)
(* (ConfigIs, RowIs, ChangedIs).  What up and down hold meanwhile follows  *)
(* from what the builder accepts (Built).  Then, what a plan does not name *)
(* stays as it is (UnnamedAreUntouched).                                   *)
(*                                                                         *)
(* Last, what `up` has done when it reports success and nobody else has    *)
(* touched the layout (OthersAreKept, HeadIsAsAsked).  A plan of `up`      *)
(* names every output that is on (Familiar), so that the configuration is  *)
(* made of the plan alone, shifted to the origin.  It is not shifted when  *)
(* all stay, because a layout Mutter has carried out is at the origin      *)
(* (InPlace), and so is what was seen (Pictured).  What was seen can be    *)
(* set back, because Mutter takes no mode from a monitor (Outlives), and   *)
(* the head can be set as asked, because the monitor of its name is that   *)
(* of its own device (HeadOurs).                                           *)
(***************************************************************************)
EXTENDS GnomeSession, SequenceProofs

-----------------------------------------------------------------------------
(* One digit of a long division.                                           *)
LEMMA DivMod ==
    ASSUME NEW r \in Nat, NEW c \in Nat, c > 0
    PROVE  /\ r \div c \in Nat /\ r % c \in Nat /\ r % c < c
           /\ (r \div c) * c + (r % c) = r
  BY SMT

LEMMA CarryOver ==
    ASSUME NEW b \in Nat, NEW c \in Nat, NEW q \in Nat, NEW r \in Nat, NEW n \in Nat,
           NEW d \in Nat, NEW e \in Nat, NEW f \in Nat,
           q * c + r = n * b, e * c + f = 10 * r + d * b
    PROVE  (10 * q + e) * c + f = (10 * n + d) * b
<1>1. (10 * q + e) * c = 10 * (q * c) + e * c
  OBVIOUS
<1>2. (10 * n + d) * b = 10 * (n * b) + d * b
  OBVIOUS
<1> QED
  BY <1>1, <1>2

(* x is what the division of n * b by c gives.                             *)
Divided(x, n, b, c) ==
    /\ x.quo \in Nat /\ x.rem \in Nat /\ x.rem < c
    /\ x.quo * c + x.rem = n * b

LEMMA OneDigit ==
    ASSUME NEW b \in Nat, NEW c \in Nat, NEW n \in Nat, NEW d \in Nat, c > 0,
           NEW acc, Divided(acc, n, b, c)
    PROVE  Divided(DivideOn(acc, d, b, c), 10 * n + d, b, c)
<1>1. PICK q \in Nat, r \in Nat : acc.quo = q /\ acc.rem = r /\ q * c + r = n * b
  BY DEF Divided
<1> DEFINE s == 10 * r + d * b
           e == s \div c
           f == s % c
<1>2. d * b \in Nat /\ s \in Nat
  OBVIOUS
<1>3. e \in Nat /\ f \in Nat /\ f < c /\ e * c + f = s
  BY <1>2, DivMod
<1>4. DivideOn(acc, d, b, c) = [quo |-> 10 * q + e, rem |-> f]
  BY <1>1 DEF DivideOn
<1> HIDE DEF e, f
<1>5. (10 * q + e) * c + f = (10 * n + d) * b
  BY <1>1, <1>3, CarryOver
<1> QED
  BY <1>3, <1>4, <1>5 DEF Divided

(* LongDivision is the division.                                           *)
LEMMA Divides ==
    ASSUME NEW a \in Nat, NEW b \in Nat, NEW c \in Nat, a < 1000000, c > 0
    PROVE  Divided(LongDivision(a, b, c), a, b, c)
<1> DEFINE digit(place) == (a \div place) % 10
           Goes(acc, place) == DivideOn(acc, digit(place), b, c)
           Quotient(x, n) == Divided(x, n, b, c)
<1>1. ASSUME NEW x, NEW n \in Nat, NEW m \in Nat, NEW place, Quotient(x, n),
             digit(place) \in Nat, m = 10 * n + digit(place)
      PROVE  Quotient(Goes(x, place), m)
  <2> HIDE DEF digit
  <2> QED
    BY <1>1, OneDigit, SMT
<1> DEFINE x0 == [quo |-> 0, rem |-> 0]
           x1 == Goes(x0, 100000)
           x2 == Goes(x1, 10000)
           x3 == Goes(x2, 1000)
           x4 == Goes(x3, 100)
           x5 == Goes(x4, 10)
           x6 == Goes(x5, 1)
<1>2. LongDivision(a, b, c) = x6
  BY SMT DEF LongDivision
<1>3. /\ a \div 100000 \in Nat /\ digit(100000) \in Nat
      /\ a \div 100000 = 10 * 0 + digit(100000)
  BY SMT
<1>4. /\ a \div 10000 \in Nat /\ digit(10000) \in Nat
      /\ a \div 10000 = 10 * (a \div 100000) + digit(10000)
  BY SMT
<1>5. /\ a \div 1000 \in Nat /\ digit(1000) \in Nat
      /\ a \div 1000 = 10 * (a \div 10000) + digit(1000)
  BY SMT
<1>6. /\ a \div 100 \in Nat /\ digit(100) \in Nat
      /\ a \div 100 = 10 * (a \div 1000) + digit(100)
  BY SMT
<1>7. /\ a \div 10 \in Nat /\ digit(10) \in Nat
      /\ a \div 10 = 10 * (a \div 100) + digit(10)
  BY SMT
<1>8. digit(1) \in Nat /\ a = 10 * (a \div 10) + digit(1)
  BY SMT
<1>9. Quotient(x0, 0)
  BY SMT DEF Divided
<1> HIDE DEF digit, Goes, Quotient, x0
<1>10. Quotient(x1, a \div 100000)
  BY <1>1, <1>3, <1>9, SMT
<1> HIDE DEF x1
<1>11. Quotient(x2, a \div 10000)
  BY <1>1, <1>3, <1>4, <1>10, SMT
<1> HIDE DEF x2
<1>12. Quotient(x3, a \div 1000)
  BY <1>1, <1>4, <1>5, <1>11, SMT
<1> HIDE DEF x3
<1>13. Quotient(x4, a \div 100)
  BY <1>1, <1>5, <1>6, <1>12, SMT
<1> HIDE DEF x4
<1>14. Quotient(x5, a \div 10)
  BY <1>1, <1>6, <1>7, <1>13, SMT
<1> HIDE DEF x5
<1>15. Quotient(x6, a)
  BY <1>1, <1>7, <1>8, <1>14, SMT
<1> HIDE DEF x6
<1> QED
  BY <1>2, <1>15, SMT DEF Quotient

(* q is the integer part of n * b / c.                                     *)
IsFloor(q, n, b, c) == q * c <= n * b /\ n * b < (q + 1) * c

LEMMA Remainder ==
    ASSUME NEW q \in Nat, NEW r \in Nat, NEW c \in Nat, NEW m \in Nat, q * c + r = m, r < c
    PROVE  q * c <= m /\ m < (q + 1) * c
<1>1. (q + 1) * c = q * c + c /\ q * c \in Nat
  OBVIOUS
<1> QED
  BY <1>1

LEMMA Floor ==
    ASSUME NEW n \in Nat, NEW b \in Nat, NEW c \in Nat, NEW x, Divided(x, n, b, c)
    PROVE  \E q \in Nat : x.quo = q /\ IsFloor(q, n, b, c)
<1>1. PICK q \in Nat, r \in Nat : x.quo = q /\ r < c /\ q * c + r = n * b
  BY DEF Divided
<1>2. n * b \in Nat
  OBVIOUS
<1>3. IsFloor(q, n, b, c)
  BY <1>1, <1>2, Remainder DEF IsFloor
<1> QED
  BY <1>1, <1>3

-----------------------------------------------------------------------------
(* The timing.                                                             *)
LEMMA MaxOfTwo ==
    ASSUME NEW a \in Int, NEW b \in Int
    PROVE  Max({a, b}) \in {a, b} /\ Max({a, b}) >= a /\ Max({a, b}) >= b
<1>1. \E x \in {a, b} : \A y \in {a, b} : x >= y
  OBVIOUS
<1>2. \A y \in {a, b} : Max({a, b}) >= y
  BY <1>1 DEF Max
<1>3. Max({a, b}) \in {a, b}
  BY <1>1 DEF Max
<1> QED
  BY <1>2, <1>3

LEMMA MinOfTwo ==
    ASSUME NEW a \in Int, NEW b \in Int
    PROVE  Min({a, b}) \in {a, b} /\ Min({a, b}) <= a /\ Min({a, b}) <= b
<1>1. \E x \in {a, b} : \A y \in {a, b} : x <= y
  OBVIOUS
<1>2. \A y \in {a, b} : Min({a, b}) <= y
  BY <1>1 DEF Min
<1>3. Min({a, b}) \in {a, b}
  BY <1>1 DEF Min
<1> QED
  BY <1>2, <1>3

(* The specs that cvt_rb_v1 takes.                                         *)
Taken(spec) == spec.width \in Sides /\ spec.height \in Sides /\ spec.hz \in Rates

Period(spec) == 1000000 - 460 * spec.hz
Lines(spec) == spec.height * spec.hz
(* The rows that 460us take, rounded down.                                 *)
Blanking(spec) == (460 * Lines(spec)) \div Period(spec)

LEMMA SidesTyped ==
    ASSUME NEW x \in Sides
    PROVE  x \in Nat /\ 200 <= x /\ x <= 8192
  BY SMT DEF Sides

LEMMA RatesTyped ==
    ASSUME NEW x \in Rates
    PROVE  x \in Nat /\ 24 <= x /\ x <= 240
  BY SMT DEF Rates

LEMMA ProductBounds ==
    ASSUME NEW x \in Nat, NEW y \in Nat, 200 <= x, x <= 8192, 24 <= y, y <= 240
    PROVE  x * y \in Nat /\ 4800 <= x * y /\ x * y <= 1966080
<1>1. x * y \in Nat /\ x * y >= 200 * y /\ x * y <= 8192 * y
  BY SMT
<1> QED
  BY <1>1, SMT

LEMMA TakenTyped ==
    ASSUME NEW spec, Taken(spec)
    PROVE  /\ spec.width \in Nat /\ 200 <= spec.width /\ spec.width <= 8192
           /\ spec.height \in Nat /\ 200 <= spec.height /\ spec.height <= 8192
           /\ spec.hz \in Nat /\ 24 <= spec.hz /\ spec.hz <= 240
  BY SidesTyped, RatesTyped DEF Taken

LEMMA LinesTyped ==
    ASSUME NEW spec, Taken(spec)
    PROVE  /\ Period(spec) \in Nat /\ 889600 <= Period(spec) /\ Period(spec) <= 988960
           /\ Lines(spec) \in Nat /\ 4800 <= Lines(spec) /\ Lines(spec) <= 1966080
           /\ Blanking(spec) \in Nat /\ Blanking(spec) <= 1016
           /\ Blanking(spec) * Period(spec) <= 460 * Lines(spec)
           /\ (Blanking(spec) + 1) * Period(spec) > 460 * Lines(spec)
<1> DEFINE p == Period(spec)
           l == Lines(spec)
           q == Blanking(spec)
           h == spec.height
           r == spec.hz
<1>1. p \in Nat /\ 889600 <= p /\ p <= 988960
  BY TakenTyped, SMT DEF Period
<1>2. l \in Nat /\ 4800 <= l /\ l <= 1966080
  <2>1. /\ h \in Nat /\ 200 <= h /\ h <= 8192
        /\ r \in Nat /\ 24 <= r /\ r <= 240
    BY TakenTyped, SMT
  <2> QED
    BY <2>1, ProductBounds, SMT DEF Lines
<1>3. q \in Nat /\ q * p <= 460 * l /\ (q + 1) * p > 460 * l
  <2>1. 460 * l \in Nat /\ p \in Nat /\ p > 0
    BY <1>1, <1>2, SMT
  <2>2. /\ q \in Nat /\ ((460 * l) % p) \in Nat /\ ((460 * l) % p) < p
        /\ q * p + ((460 * l) % p) = 460 * l
    BY <2>1, DivMod, SMT DEF Blanking
  <2>3. (q + 1) * p = q * p + p
    BY <2>1, <2>2, SMT
  <2> HIDE DEF p, q, l
  <2> QED
    BY <2>1, <2>2, <2>3, SMT
<1>4. q <= 1016
  <2>1. ASSUME q >= 1017 PROVE FALSE
    <3>1. q * p >= 1017 * p
      BY <1>1, <1>3, <2>1, SMT
    <3> HIDE DEF p, q, l
    <3> QED
      BY <1>1, <1>2, <1>3, <3>1, SMT
  <2> HIDE DEF q
  <2> QED
    BY <1>3, <2>1, SMT
<1> QED
  BY <1>1, <1>2, <1>3, <1>4

LEMMA VSyncTyped == ASSUME NEW w, NEW h PROVE VSync(w, h) \in {4, 5, 6, 7, 10}
  BY DEF VSync

(* What libxcvt computes: a blanking that is longer than 460us, and the    *)
(* clock at which a line takes no less than its share of what is left.     *)
LEMMA TimingIs ==
    ASSUME NEW spec, Taken(spec)
    PROVE  LET t == Xcvt(spec) IN
           /\ t.h_active \in Nat /\ 200 <= t.h_active /\ t.h_active <= 8192
           /\ t.h_front = 48 /\ t.h_sync = 32 /\ t.h_back = 80
           /\ HTotal(t) = t.h_active + 160
           /\ t.v_active = spec.height /\ t.v_front = 3 /\ t.v_sync \in {4, 5, 6, 7, 10}
           /\ t.v_back \in Nat /\ t.v_back <= 1017
           /\ VTotal(t) \in Nat
           /\ spec.height + Blanking(spec) + 1 <= VTotal(t) /\ VTotal(t) <= spec.height + 1017
           /\ t = [h_active |-> t.h_active, h_front |-> t.h_front, h_sync |-> t.h_sync,
                   h_back |-> t.h_back, v_active |-> t.v_active, v_front |-> t.v_front,
                   v_sync |-> t.v_sync, v_back |-> t.v_back, clock |-> t.clock]
           /\ \E k \in Nat : /\ t.clock = 250 * k
                            /\ IsFloor(k, 4 * HTotal(t), Lines(spec), Period(spec))
<1> DEFINE active == spec.width - (spec.width % 8)
           vsync == VSync(active, spec.height)
           vblank == Max({Blanking(spec) + 1, 3 + vsync + 6})
           x == LongDivision(4 * (active + 160), Lines(spec), Period(spec))
           t == Xcvt(spec)
<1>1. active \in Nat /\ 200 <= active /\ active <= 8192
  BY TakenTyped, SMT
<1>2. vsync \in {4, 5, 6, 7, 10}
  BY VSyncTyped
<1>3. /\ vblank \in Nat /\ Blanking(spec) + 1 <= vblank /\ 9 + vsync <= vblank
      /\ vblank <= 1017
  <2> HIDE DEF vsync
  <2>1. /\ Blanking(spec) + 1 \in Int /\ 3 + vsync + 6 \in Int /\ 3 + vsync + 6 <= 19
        /\ Blanking(spec) \in Nat /\ Blanking(spec) <= 1016
    BY <1>2, LinesTyped, SMT
  <2> QED
    <3> DEFINE b == Blanking(spec) + 1
               v == 3 + vsync + 6
    <3>1. /\ b \in Int /\ v \in Int /\ v <= 19 /\ b <= 1017 /\ b >= 1
          /\ v = 9 + vsync
      BY <1>2, <2>1, SMT
    <3>2. vblank = Max({b, v})
      OBVIOUS
    <3> HIDE DEF b, v
    <3>3. vblank \in {b, v} /\ vblank >= b /\ vblank >= v
      BY <3>1, <3>2, MaxOfTwo
    <3> HIDE DEF vblank
    <3>4. vblank \in Nat /\ b <= vblank /\ 9 + vsync <= vblank /\ vblank <= 1017
      BY <1>2, <3>1, <3>3, SMT
    <3> QED
      BY <3>4 DEF b
<1> HIDE DEF vsync
<1>4. PICK q \in Nat :
        x.quo = q /\ IsFloor(q, 4 * (active + 160), Lines(spec), Period(spec))
  <2> HIDE DEF active
  <2>1. /\ 4 * (active + 160) \in Nat /\ 4 * (active + 160) < 1000000
        /\ Lines(spec) \in Nat /\ Period(spec) \in Nat /\ Period(spec) > 0
    BY <1>1, LinesTyped, SMT
  <2>2. Divided(x, 4 * (active + 160), Lines(spec), Period(spec))
    BY <2>1, Divides, SMT
  <2> HIDE DEF x
  <2> QED
    BY <2>1, <2>2, Floor, SMT
<1> HIDE DEF active, vblank, x
<1>5. t = [h_active |-> active, h_front |-> 48, h_sync |-> 32, h_back |-> 80,
           v_active |-> spec.height, v_front |-> 3, v_sync |-> vsync,
           v_back |-> vblank - 3 - vsync, clock |-> 250 * x.quo]
  BY SMT DEF Xcvt, active, vsync, vblank, x, Blanking, Lines, Period
<1> HIDE DEF t
<1>6. HTotal(t) = active + 160 /\ VTotal(t) = spec.height + vblank
  BY <1>1, <1>2, <1>3, <1>5, TakenTyped, SMT DEF HTotal, VTotal
<1>7. t.v_back \in Nat /\ t.v_back <= 1017
  BY <1>2, <1>3, <1>5, SMT
<1>8. VTotal(t) \in Nat /\ spec.height + Blanking(spec) + 1 <= VTotal(t)
      /\ VTotal(t) <= spec.height + 1017
  BY <1>3, <1>6, TakenTyped, LinesTyped, SMT
<1>9. t.clock = 250 * q /\ IsFloor(q, 4 * HTotal(t), Lines(spec), Period(spec))
  BY <1>4, <1>5, <1>6
<1>10. /\ t.h_active = active /\ t.h_front = 48 /\ t.h_sync = 32 /\ t.h_back = 80
       /\ t.v_active = spec.height /\ t.v_front = 3 /\ t.v_sync = vsync
  BY <1>5
<1>11. t = [h_active |-> t.h_active, h_front |-> t.h_front, h_sync |-> t.h_sync,
            h_back |-> t.h_back, v_active |-> t.v_active, v_front |-> t.v_front,
            v_sync |-> t.v_sync, v_back |-> t.v_back, clock |-> t.clock]
  BY <1>5
<1> QED
  BY <1>1, <1>2, <1>6, <1>7, <1>8, <1>9, <1>10, <1>11 DEF t

-----------------------------------------------------------------------------
(* Inequalities between products, of which the refresh rate's bounds are   *)
(* made: a is the width of a line in pixels, v the height of a frame, 250k *)
(* the clock, p the Period, h the rows asked for and r the rate.           *)
LEMMA TimesMono ==
    ASSUME NEW a \in Nat, NEW b \in Nat, NEW c \in Nat, a <= b
    PROVE  a * c <= b * c
  BY SMT

LEMMA TimesCancels ==
    ASSUME NEW a \in Nat, NEW x \in Nat, NEW y \in Nat, a > 0, a * x <= a * y
    PROVE  x <= y
  BY SMT

(* The clock is high enough for a thousand lines a second.                 *)
LEMMA ClockAtLeast ==
    ASSUME NEW a \in Nat, NEW k \in Nat, NEW l \in Nat, NEW p \in Nat,
           a >= 360, l >= 4800, p <= 988960, (4 * a) * l < (k + 1) * p
    PROVE  a <= 250 * k
<1>1. (k + 1) * p <= (k + 1) * 988960
  BY SMT
<1>2. (4 * a) * l >= (4 * a) * 4800
  BY SMT
<1> QED
  BY <1>1, <1>2, SMT

(* A frame takes longer than its rows would at the full Period.            *)
LEMMA FrameLasts ==
    ASSUME NEW h \in Nat, NEW r \in Nat, NEW p \in Nat, NEW b \in Nat, NEW v \in Nat,
           p + 460 * r = 1000000, 460 * (h * r) < (b + 1) * p, h + b + 1 <= v
    PROVE  v * p > 1000000 * h
<1>1. v * p >= (h + b + 1) * p
  BY TimesMono, SMT
<1>2. (h + b + 1) * p = h * p + (b + 1) * p
  BY SMT
<1>3. h * p + 460 * (h * r) = h * (p + 460 * r)
  BY SMT
<1>4. h * (p + 460 * r) = 1000000 * h
  BY SMT
<1> QED
  BY <1>1, <1>2, <1>3, <1>4, SMT

(* So the rate, rounded down, is below the one asked for,                  *)
LEMMA RateBelow ==
    ASSUME NEW a \in Nat, NEW v \in Nat, NEW p \in Nat, NEW h \in Nat, NEW r \in Nat,
           NEW k \in Nat, NEW q \in Nat, a > 0, r > 0,
           q * (a * v) <= (250 * k) * 1000000, k * p <= (4 * a) * (h * r),
           v * p > 1000000 * h
    PROVE  q < 1000 * r
<1> DEFINE u == v * p
           l == h * r
<1>1. (q * (a * v)) * p <= ((250 * k) * 1000000) * p
  BY TimesMono, SMT
<1>2. (q * (a * v)) * p = a * (q * u)
  BY SMT
<1>3. ((250 * k) * 1000000) * p = 250000000 * (k * p)
  BY SMT
<1>4. 250000000 * ((4 * a) * l) = a * (1000000000 * l)
  BY SMT
<1>5. a * (q * u) <= a * (1000000000 * l)
  BY <1>1, <1>2, <1>3, <1>4, SMT
<1>6. u \in Nat /\ l \in Nat /\ q * u \in Nat
  BY SMT
<1>7. q * u <= 1000000000 * l
  <2> HIDE DEF u, l
  <2> QED
    BY <1>5, <1>6, TimesCancels, SMT
<1>8. ASSUME q >= 1000 * r PROVE FALSE
  <2>1. (1000 * r) * u <= q * u
    BY <1>6, <1>8, SMT
  <2>2. (1000 * r) * u >= (1000 * r) * (1000000 * h + 1)
    BY <1>6, SMT
  <2>3. (1000 * r) * (1000000 * h + 1) = 1000000000 * l + 1000 * r
    BY SMT
  <2> HIDE DEF u, l
  <2> QED
    BY <1>6, <1>7, <2>1, <2>2, <2>3, SMT
<1> QED
  BY <1>8, SMT

(* and above it less what rounding the clock (s1) and the rows (s2) costs. *)
LEMMA RateAbove ==
    ASSUME NEW a \in Nat, NEW v \in Nat, NEW p \in Nat, NEW h \in Nat, NEW r \in Nat,
           NEW k \in Nat, NEW q \in Nat, NEW rows \in Nat, NEW s1 \in Nat, NEW s2 \in Nat,
           a > 0, p > 0, r >= 24, s1 + s2 + 2 <= 1000, rows <= v,
           (4 * a) * (h * r) < (k + 1) * p,
           rows * p <= 1000000 * h,
           (1000 * r) * (v - rows) < (s2 + 1) * v,
           250000 * r < (s1 + 1) * (250 * k),
           (250 * k) * 1000000 < (q + 1) * (a * v)
    PROVE  q >= 1000 * r - (s1 + s2 + 2)
<1> DEFINE d == 250 * k
           n == 1000 * r - (s1 + s2 + 2)
           m == 1000 * r - s1 - 1
<1>0. /\ d \in Nat /\ n \in Nat /\ m \in Nat /\ n > 0 /\ m > 0 /\ n + s2 + 1 = m
      /\ n = (1000 * r - s2 - 1) - (s1 + 1)
  BY SMT
<1>1. 1000 * (a * (h * r)) < (d + 250) * p
  <2>1. (4 * a) * (h * r) = 4 * (a * (h * r))
    BY SMT
  <2>2. (d + 250) * p = 250 * ((k + 1) * p)
    BY SMT
  <2>3. a * (h * r) \in Nat /\ (k + 1) * p \in Nat
    BY SMT
  <2> HIDE DEF d
  <2> QED
    BY <2>1, <2>2, <2>3, SMT
<1>2. v * n <= rows * m
  <2>1. (1000 * r) * (v - rows) = (1000 * r) * v - (1000 * r) * rows
    BY SMT
  <2>2. v * n = (1000 * r) * v - (s2 + 1) * v - v * (s1 + 1)
    BY SMT
  <2>3. rows * m = (1000 * r) * rows - rows * (s1 + 1)
    BY SMT
  <2>4. rows * (s1 + 1) <= v * (s1 + 1)
    BY TimesMono, SMT
  <2> HIDE DEF n, m
  <2> QED
    BY <1>0, <2>1, <2>2, <2>3, <2>4, SMT
<1>3. m * d < (1000 * r) * (d - 250) /\ d > 250
  <2>1. m * d = (1000 * r) * d - (s1 + 1) * d
    BY SMT
  <2>2. (1000 * r) * (d - 250) = (1000 * r) * d - 250000 * r
    BY SMT
  <2>3. m * d < (1000 * r) * (d - 250)
    BY <2>1, <2>2, SMT
  <2>4. m * d >= 0
    BY <1>0, SMT
  <2>5. ASSUME d <= 250 PROVE FALSE
    <3>1. (1000 * r) * (250 - d) >= 0
      BY <2>5, SMT
    <3>2. (1000 * r) * (d - 250) = -((1000 * r) * (250 - d))
      BY SMT
    <3> QED
      BY <2>3, <2>4, <3>1, <3>2, SMT
  <2> QED
    BY <1>0, <2>3, <2>5, SMT
<1>4. ASSUME q < n PROVE FALSE
  <2>1. d * 1000000 < n * (a * v)
    <3>1. (q + 1) * (a * v) <= n * (a * v)
      BY <1>0, <1>4, TimesMono, SMT
    <3> QED
      BY <1>0, <3>1, SMT
  <2>2. (d * 1000000) * p < (n * (a * v)) * p
    BY <1>0, <2>1, SMT
  <2>3. (n * (a * v)) * p = (a * p) * (v * n)
    BY SMT
  <2>4. (a * p) * (v * n) <= (a * p) * (rows * m)
    BY <1>0, <1>2, SMT
  <2>5. (a * p) * (rows * m) = (a * m) * (rows * p)
    BY SMT
  <2>6. (a * m) * (rows * p) <= (a * m) * (1000000 * h)
    BY <1>0, SMT
  <2>7. (a * m) * (1000000 * h) = 1000000 * ((a * h) * m)
    BY SMT
  <2>8. (d * 1000000) * p = 1000000 * (d * p)
    BY SMT
  <2>9. d * p < (a * h) * m
    <3>1. d * p \in Nat /\ (a * h) * m \in Nat
      BY <1>0, SMT
    <3>2. 1000000 * (d * p) < 1000000 * ((a * h) * m)
      BY <2>2, <2>3, <2>4, <2>5, <2>6, <2>7, <2>8, SMT
    <3> HIDE DEF d, m
    <3> QED
      BY <3>1, <3>2, SMT
  <2>10. (d * p) * d < ((a * h) * m) * d
    BY <1>0, <1>3, <2>9, SMT
  <2>11. ((a * h) * m) * d = (a * h) * (m * d)
    BY SMT
  <2>12. (a * h) * (m * d) <= (a * h) * ((1000 * r) * (d - 250))
    BY <1>0, <1>3, SMT
  <2>13. (a * h) * ((1000 * r) * (d - 250)) = (1000 * (a * (h * r))) * (d - 250)
    BY SMT
  <2>14. (1000 * (a * (h * r))) * (d - 250) <= ((d + 250) * p) * (d - 250)
    BY <1>0, <1>1, <1>3, SMT
  <2>15. ((d + 250) * p) * (d - 250) = (d * p) * d - 62500 * p
    BY SMT
  <2> QED
    BY <2>10, <2>11, <2>12, <2>13, <2>14, <2>15, SMT
<1> QED
  BY <1>0, <1>4, SMT

-----------------------------------------------------------------------------
(* The refresh rate.                                                       *)
LEMMA FrameTyped ==
    ASSUME NEW spec, Taken(spec)
    PROVE  LET t == Xcvt(spec) IN
           /\ HTotal(t) \in Nat /\ 360 <= HTotal(t) /\ HTotal(t) <= 8352
           /\ VTotal(t) \in Nat /\ 201 <= VTotal(t)
           /\ HTotal(t) * VTotal(t) \in Nat /\ HTotal(t) * VTotal(t) > 0
<1> DEFINE t == Xcvt(spec)
           a == HTotal(t)
           v == VTotal(t)
<1>1. a \in Nat /\ 360 <= a /\ a <= 8352
  BY TimingIs, SMT
<1>2. v \in Nat /\ 201 <= v
  BY TimingIs, TakenTyped, LinesTyped, SMT
<1> HIDE DEF a, v
<1>3. a * v \in Nat /\ a * v > 0
  BY <1>1, <1>2, SMT
<1> QED
  BY <1>1, <1>2, <1>3 DEF a, v

LEMMA ClockTyped ==
    ASSUME NEW spec, Taken(spec), Xcvt(spec).clock <= MaxClock
    PROVE  \E k \in Nat :
             /\ Xcvt(spec).clock = 250 * k /\ k >= 1
             /\ 250 * k <= 655350 /\ HTotal(Xcvt(spec)) <= 250 * k
             /\ IsFloor(k, 4 * HTotal(Xcvt(spec)), Lines(spec), Period(spec))
<1> DEFINE t == Xcvt(spec)
           a == HTotal(t)
           l == Lines(spec)
           p == Period(spec)
<1>1. PICK k \in Nat : t.clock = 250 * k /\ IsFloor(k, 4 * a, l, p)
  BY TimingIs
<1>2. /\ a \in Nat /\ a >= 360 /\ l \in Nat /\ l >= 4800 /\ p \in Nat /\ p <= 988960
  BY FrameTyped, LinesTyped, SMT
<1> HIDE DEF a, l, p
<1>3. (4 * a) * l < (k + 1) * p
  BY <1>1 DEF IsFloor
<1>4. a <= 250 * k
  BY <1>2, <1>3, ClockAtLeast
<1>5. k >= 1 /\ 250 * k <= 655350
  BY <1>1, <1>2, <1>4, SMT DEF MaxClock
<1> QED
  BY <1>1, <1>4, <1>5 DEF a, l, p

LEMMA RefreshIs ==
    ASSUME NEW spec, Taken(spec), NEW k \in Nat, Xcvt(spec).clock = 250 * k,
           250 * k <= 655350
    PROVE  LET t == Xcvt(spec) IN
           \E q \in Nat : /\ IsFloor(q, 250 * k, 1000000, HTotal(t) * VTotal(t))
                          /\ RefreshOf(t) \in {q, q + 1}
<1> DEFINE t == Xcvt(spec)
           f == HTotal(t) * VTotal(t)
           c == t.clock
           x == LongDivision(c, 1000000, f)
<1>1. f \in Nat /\ f > 0
  BY FrameTyped
<1>2. c \in Nat /\ c < 1000000 /\ 1000000 \in Nat /\ c = 250 * k
  BY SMT
<1> HIDE DEF f
<1>3. Divided(x, c, 1000000, f)
  <2> HIDE DEF c
  <2> QED
    BY <1>1, <1>2, Divides, SMT
<1>4. RefreshOf(t) = Rounded(x, f)
  BY DEF RefreshOf, f
<1> HIDE DEF x, c
<1>5. PICK q \in Nat : x.quo = q /\ IsFloor(q, c, 1000000, f)
  BY <1>1, <1>2, <1>3, Floor, SMT
<1>6. Rounded(x, f) \in {q, q + 1}
  BY <1>5 DEF Rounded
<1> QED
  BY <1>2, <1>4, <1>5, <1>6 DEF f

(* It is what was asked for, or less.                                      *)
LEMMA RefreshBelow ==
    ASSUME NEW spec, Taken(spec), Xcvt(spec).clock <= MaxClock
    PROVE  RefreshOf(Xcvt(spec)) \in Nat /\ RefreshOf(Xcvt(spec)) <= 1000 * spec.hz
<1> DEFINE t == Xcvt(spec)
           a == HTotal(t)
           v == VTotal(t)
           p == Period(spec)
           h == spec.height
           r == spec.hz
<1>1. PICK k \in Nat : /\ t.clock = 250 * k /\ 250 * k <= 655350
                       /\ IsFloor(k, 4 * a, Lines(spec), p)
  BY ClockTyped
<1>2. PICK q \in Nat : /\ IsFloor(q, 250 * k, 1000000, a * v)
                       /\ RefreshOf(t) \in {q, q + 1}
  BY <1>1, RefreshIs
<1>3. /\ a \in Nat /\ a > 0 /\ v \in Nat /\ p \in Nat /\ h \in Nat /\ r \in Nat /\ r > 0
      /\ Lines(spec) = h * r
  BY FrameTyped, LinesTyped, TakenTyped, SMT DEF Lines
<1>4. v * p > 1000000 * h
  <2> DEFINE b == Blanking(spec)
  <2>1. b \in Nat /\ 460 * (h * r) < (b + 1) * p
    BY <1>3, LinesTyped
  <2>2. h + b + 1 <= v
    BY TimingIs
  <2>3. p + 460 * r = 1000000
    BY <1>3, SMT DEF Period
  <2> HIDE DEF b, v, p, h, r
  <2> QED
    BY <1>3, <2>1, <2>2, <2>3, FrameLasts
<1>5. q * (a * v) <= (250 * k) * 1000000 /\ k * p <= (4 * a) * (h * r)
  BY <1>1, <1>2, <1>3 DEF IsFloor
<1> HIDE DEF a, v, p, h, r
<1>6. q < 1000 * r
  BY <1>3, <1>4, <1>5, RateBelow
<1>7. RefreshOf(t) \in Nat /\ RefreshOf(t) <= 1000 * r
  BY <1>2, <1>3, <1>6, SMT
<1> QED
  BY <1>7 DEF r

LEMMA DivBounds ==
    ASSUME NEW m \in Nat, NEW c \in Nat, c > 0
    PROVE  m \div c \in Nat /\ IsFloor(m \div c, m, 1, c)
<1> DEFINE q == m \div c
           r == m % c
<1>1. q \in Nat /\ r \in Nat /\ r < c /\ q * c + r = m
  BY DivMod
<1> HIDE DEF q, r
<1>2. q * c <= m /\ m < (q + 1) * c
  BY <1>1, Remainder
<1>3. m * 1 = m
  OBVIOUS
<1> QED
  BY <1>1, <1>2, <1>3 DEF IsFloor, q

(* And no less than that but for the roundings, which Shortfall bounds.    *)
LEMMA RefreshAbove ==
    ASSUME NEW spec, Taken(spec), Xcvt(spec).clock <= MaxClock,
           Shortfall(Xcvt(spec), spec.hz) <= 1000
    PROVE  RefreshOf(Xcvt(spec)) >= 1000 * spec.hz - 1000
<1> DEFINE t == Xcvt(spec)
           a == HTotal(t)
           v == VTotal(t)
           p == Period(spec)
           h == spec.height
           r == spec.hz
           rows == h + Blanking(spec)
<1>1. PICK k \in Nat : /\ t.clock = 250 * k /\ 250 * k <= 655350 /\ k >= 1
                       /\ IsFloor(k, 4 * a, Lines(spec), p)
  BY ClockTyped
<1>2. PICK q \in Nat : /\ IsFloor(q, 250 * k, 1000000, a * v)
                       /\ RefreshOf(t) \in {q, q + 1}
  BY <1>1, RefreshIs
<1>3. /\ a \in Nat /\ a > 0 /\ v \in Nat /\ v > 0 /\ p \in Nat /\ p > 0
      /\ h \in Nat /\ r \in Nat /\ r >= 24 /\ Lines(spec) = h * r
  BY FrameTyped, LinesTyped, TakenTyped, SMT DEF Lines
<1>4. rows \in Nat /\ rows <= v
  BY <1>3, TimingIs, LinesTyped, SMT
<1>5. rows * p <= 1000000 * h
  <2> DEFINE b == Blanking(spec)
  <2>1. b \in Nat /\ b * p <= 460 * (h * r)
    BY <1>3, LinesTyped
  <2>2. p + 460 * r = 1000000
    BY <1>3, SMT DEF Period
  <2> HIDE DEF b, p, h, r
  <2>3. (h + b) * p = h * p + b * p
    BY <1>3, <2>1, SMT
  <2>4. h * p + 460 * (h * r) = h * (p + 460 * r)
    BY <1>3, SMT
  <2>5. h * (p + 460 * r) = 1000000 * h
    BY <1>3, <2>2, SMT
  <2>6. h * p \in Nat /\ b * p \in Nat
    BY <1>3, <2>1
  <2>7. (h + b) * p <= 1000000 * h
    BY <1>3, <2>1, <2>3, <2>4, <2>5, <2>6, SMT
  <2> QED
    BY <2>7 DEF b
<1> DEFINE s1 == (250000 * r) \div (250 * k)
           s2 == (1000 * r * (v - rows)) \div v
<1>6. Shortfall(t, r) = s1 + s2 + 2
  <2>1. t.v_active = h
    BY TimingIs
  <2>2. t.clock = 250 * k
    BY <1>1
  <2> QED
    BY <2>1, <2>2 DEF Shortfall, Blanking, Lines, Period
<1>7. s1 \in Nat /\ 250000 * r < (s1 + 1) * (250 * k)
  <2>1. 250000 * r \in Nat /\ 250 * k \in Nat /\ 250 * k > 0
    BY <1>1, <1>3, SMT
  <2> DEFINE m == 250000 * r
             c == 250 * k
  <2> HIDE DEF m, c
  <2>2. m \div c \in Nat /\ m * 1 < ((m \div c) + 1) * c
    BY <2>1, DivBounds DEF IsFloor, m, c
  <2>3. m * 1 = m
    BY <2>1 DEF m
  <2> QED
    BY <2>2, <2>3 DEF m, c
<1>8. s2 \in Nat /\ (1000 * r) * (v - rows) < (s2 + 1) * v
  <2> HIDE DEF v, rows, r
  <2> DEFINE m == 1000 * r * (v - rows)
  <2>1. m \in Nat /\ m = (1000 * r) * (v - rows)
    BY <1>3, <1>4, SMT
  <2> HIDE DEF m
  <2>2. m \div v \in Nat /\ m * 1 < ((m \div v) + 1) * v
    BY <1>3, <2>1, DivBounds DEF IsFloor
  <2>3. m * 1 = m
    BY <2>1
  <2> QED
    BY <2>1, <2>2, <2>3 DEF m
<1>9. (4 * a) * (h * r) < (k + 1) * p /\ (250 * k) * 1000000 < (q + 1) * (a * v)
  BY <1>1, <1>2, <1>3 DEF IsFloor
<1>10. s1 + s2 + 2 <= 1000
  BY <1>6
<1> HIDE DEF a, v, p, h, r, rows, s1, s2
<1>11. q >= 1000 * r - (s1 + s2 + 2)
  BY <1>3, <1>4, <1>5, <1>7, <1>8, <1>9, <1>10, RateAbove
<1>12. RefreshOf(t) >= 1000 * r - 1000
  <2> DEFINE f == RefreshOf(t)
  <2>1. f \in {q, q + 1}
    BY <1>2
  <2> HIDE DEF f
  <2>2. f >= 1000 * r - 1000
    BY <1>3, <1>7, <1>8, <1>10, <1>11, <2>1, SMT
  <2> QED
    BY <2>2 DEF f
<1> QED
  BY <1>12 DEF r

-----------------------------------------------------------------------------
(* The fields.                                                             *)
LEMMA CastsKeep ==
    ASSUME NEW n \in Nat
    PROVE  (n < 256 => AsU8(n) = n) /\ (n < 65536 => AsU16(n) = n)
  BY SMT DEF AsU8, AsU16

LEMMA DtdKeeps ==
    ASSUME NEW spec, Taken(spec), BuildDtd(Xcvt(spec)) # None
    PROVE  BuildDtd(Xcvt(spec)) = Xcvt(spec)
<1> DEFINE t == Xcvt(spec)
<1>1. /\ t.h_active \in Nat /\ t.h_active < 65536
      /\ t.h_front \in Nat /\ t.h_front < 65536 /\ t.h_sync \in Nat /\ t.h_sync < 65536
      /\ t.h_back \in Nat /\ t.h_back < 65536
      /\ t.v_active \in Nat /\ t.v_active < 65536
      /\ t.v_front \in Nat /\ t.v_front < 256 /\ t.v_sync \in Nat /\ t.v_sync < 256
      /\ t.v_back \in Nat /\ t.v_back < 65536
  BY TimingIs, TakenTyped, SMT
<1>2. t = [h_active |-> t.h_active, h_front |-> t.h_front, h_sync |-> t.h_sync,
           h_back |-> t.h_back, v_active |-> t.v_active, v_front |-> t.v_front,
           v_sync |-> t.v_sync, v_back |-> t.v_back, clock |-> t.clock]
  BY TimingIs
<1> HIDE DEF t
<1>3. /\ AsU16(t.h_active) = t.h_active /\ AsU16(t.h_front) = t.h_front
      /\ AsU16(t.h_sync) = t.h_sync /\ AsU16(t.h_back) = t.h_back
      /\ AsU16(t.v_active) = t.v_active /\ AsU8(t.v_front) = t.v_front
      /\ AsU8(t.v_sync) = t.v_sync /\ AsU16(t.v_back) = t.v_back
  BY <1>1, CastsKeep
<1>4. BuildDtd(t) \in {None, t}
  BY <1>2, <1>3, SMT DEF BuildDtd
<1> QED
  BY <1>4 DEF t

-----------------------------------------------------------------------------
(* The range limits.                                                       *)
Admits(r, t, hz) ==
    /\ r.min_h \in Nat /\ r.max_h \in Nat /\ r.min_v \in Nat /\ r.max_v \in Nat
    /\ r.max_mhz \in Nat
    /\ HTotal(t) * r.min_h <= t.clock /\ t.clock <= HTotal(t) * r.max_h
    /\ r.min_v <= hz - 1 /\ hz + 1 <= r.max_v
    /\ t.clock <= 1000 * r.max_mhz

LEMMA LinesPerSecond ==
    ASSUME NEW a \in Nat, NEW c \in Nat, NEW f \in Nat, a >= 360, a <= c, c <= 655350,
           f * a <= c, c < (f + 1) * a
    PROVE  /\ f <= 1820
           /\ a * (f + 5) >= c
           /\ \A m \in Nat : (m <= f \/ m = 1) => a * m <= c
<1>1. f <= 1820
  <2>1. f * a >= f * 360
    BY SMT
  <2> QED
    BY <2>1, SMT
<1>2. a * (f + 5) >= c
  <2>1. a * (f + 5) = (f + 1) * a + 4 * a
    BY SMT
  <2> QED
    BY <2>1, SMT
<1>3. ASSUME NEW m \in Nat, m <= f PROVE a * m <= c
  <2>1. a * m <= a * f
    BY <1>3, SMT
  <2>2. a * f = f * a
    BY SMT
  <2> QED
    BY <2>1, <2>2, SMT
<1>4. a * 1 <= c
  BY SMT
<1> QED
  BY <1>1, <1>2, <1>3, <1>4

LEMMA AroundAdmits ==
    ASSUME NEW spec, Taken(spec), Xcvt(spec).clock <= MaxClock
    PROVE  Admits(RangesAround(Xcvt(spec), spec.hz), Xcvt(spec), spec.hz)
<1> DEFINE t == Xcvt(spec)
           a == HTotal(t)
           c == t.clock
           hz == spec.hz
           f == c \div a
           lo_h == Max({f - 5, 1})
           lo_v == Max({hz - 1, 1})
           mhz == (c + 999) \div 1000
           r == RangesAround(t, hz)
<1>1. a \in Nat /\ a >= 360 /\ c \in Nat /\ a <= c /\ c <= 655350
  BY FrameTyped, ClockTyped, SMT
<1>2. hz \in Nat /\ 24 <= hz /\ hz <= 240
  BY TakenTyped
<1>3. r = [min_h |-> AsU16(lo_h), max_h |-> AsU16(f + 5),
           min_v |-> AsU16(lo_v), max_v |-> AsU16(hz + 1), max_mhz |-> AsU16(mhz)]
  BY DEF RangesAround
<1> HIDE DEF a, c, hz, r
<1>4. f \in Nat /\ f * a <= c /\ c < (f + 1) * a
  <2>1. c \in Nat /\ a \in Nat /\ a > 0
    BY <1>1, SMT
  <2>2. f \in Nat /\ IsFloor(f, c, 1, a)
    BY <2>1, DivBounds, Zenon
  <2> HIDE DEF f
  <2> QED
    BY <2>1, <2>2 DEF IsFloor
<1>5. mhz \in Nat /\ c <= 1000 * mhz /\ mhz < 65536
  BY <1>1, SMT
<1> HIDE DEF f, mhz
<1>6. /\ f <= 1820 /\ c <= a * (f + 5)
      /\ \A m \in Nat : (m <= f \/ m = 1) => a * m <= c
  BY <1>1, <1>4, LinesPerSecond, SMT
<1>7. lo_h \in Nat /\ lo_h < 65536 /\ a * lo_h <= c
  <2>1. f - 5 \in Int /\ 1 \in Int
    BY <1>4
  <2>2. lo_h \in {f - 5, 1} /\ lo_h >= 1
    BY <2>1, MaxOfTwo, Zenon
  <2> HIDE DEF lo_h
  <2>3. lo_h \in Nat /\ lo_h < 65536 /\ (lo_h <= f \/ lo_h = 1)
    BY <1>4, <1>6, <2>2, SMT
  <2> QED
    BY <1>6, <2>3
<1>8. lo_v \in Nat /\ lo_v < 65536 /\ lo_v <= hz - 1
  <2>1. hz - 1 \in Int /\ 1 \in Int
    BY <1>2, SMT
  <2>2. lo_v \in {hz - 1, 1} /\ lo_v >= 1
    BY <2>1, MaxOfTwo, Zenon
  <2> HIDE DEF lo_v
  <2> QED
    BY <1>2, <2>2, SMT
<1> HIDE DEF lo_h, lo_v
<1>9. f + 5 \in Nat /\ f + 5 < 65536 /\ hz + 1 \in Nat /\ hz + 1 < 65536
  BY <1>2, <1>4, <1>6, SMT
<1>10. /\ AsU16(lo_h) = lo_h /\ AsU16(f + 5) = f + 5 /\ AsU16(lo_v) = lo_v
       /\ AsU16(hz + 1) = hz + 1 /\ AsU16(mhz) = mhz
  BY <1>5, <1>7, <1>8, <1>9, CastsKeep
<1>11. /\ r.min_h = lo_h /\ r.max_h = f + 5 /\ r.min_v = lo_v /\ r.max_v = hz + 1
       /\ r.max_mhz = mhz
  BY <1>3, <1>10
<1>12. hz + 1 <= r.max_v
  BY <1>2, <1>11, SMT
<1> QED
  BY <1>5, <1>6, <1>7, <1>8, <1>9, <1>11, <1>12 DEF Admits, a, c, hz, r

LEMMA VgaAdmits ==
    ASSUME NEW r, NEW t, NEW hz \in Nat, Admits(r, t, hz), HTotal(t) \in Nat,
           t.clock \in Nat
    PROVE  /\ Admits(WithVga(r), t, hz)
           /\ WithVga(r).min_h <= 31 /\ WithVga(r).max_h >= 32
           /\ WithVga(r).min_v <= 59 /\ WithVga(r).max_v >= 60
           /\ WithVga(r).max_mhz >= 26
<1> DEFINE a == HTotal(t)
           c == t.clock
           s == WithVga(r)
           lo_h == Min({r.min_h, 31})
           hi_h == Max({r.max_h, 32})
           lo_v == Min({r.min_v, 59})
           hi_v == Max({r.max_v, 60})
           mhz == Max({r.max_mhz, 26})
<1>1. /\ r.min_h \in Nat /\ r.max_h \in Nat /\ r.min_v \in Nat /\ r.max_v \in Nat
      /\ r.max_mhz \in Nat
      /\ a * r.min_h <= c /\ c <= a * r.max_h /\ r.min_v <= hz - 1 /\ hz + 1 <= r.max_v
      /\ c <= 1000 * r.max_mhz
  BY DEF Admits
<1>2. s = [min_h |-> lo_h, max_h |-> hi_h, min_v |-> lo_v, max_v |-> hi_v,
           max_mhz |-> mhz]
  BY DEF WithVga
<1>a. /\ r.min_h \in Int /\ r.max_h \in Int /\ r.min_v \in Int /\ r.max_v \in Int
      /\ r.max_mhz \in Int /\ 31 \in Int /\ 32 \in Int /\ 59 \in Int /\ 60 \in Int
      /\ 26 \in Int
  BY <1>1
<1>3. lo_h \in {r.min_h, 31} /\ lo_h <= r.min_h /\ lo_h <= 31
  BY <1>a, MinOfTwo, Zenon
<1>4. lo_v \in {r.min_v, 59} /\ lo_v <= r.min_v /\ lo_v <= 59
  BY <1>a, MinOfTwo, Zenon
<1>5. hi_h \in {r.max_h, 32} /\ hi_h >= r.max_h /\ hi_h >= 32
  BY <1>a, MaxOfTwo, Zenon
<1>6. hi_v \in {r.max_v, 60} /\ hi_v >= r.max_v /\ hi_v >= 60
  BY <1>a, MaxOfTwo, Zenon
<1>7. mhz \in {r.max_mhz, 26} /\ mhz >= r.max_mhz /\ mhz >= 26
  BY <1>a, MaxOfTwo, Zenon
<1> HIDE DEF lo_h, lo_v, hi_h, hi_v, mhz, a, c, s
<1>8. lo_h \in Nat /\ lo_v \in Nat /\ hi_h \in Nat /\ hi_v \in Nat /\ mhz \in Nat
  BY <1>1, <1>3, <1>4, <1>5, <1>6, <1>7, SMT
<1>9. a * lo_h <= c /\ c <= a * hi_h
  <2>1. a \in Nat /\ c \in Nat
    BY DEF a, c
  <2>2. a * lo_h <= a * r.min_h
    <3> DEFINE x == r.min_h
    <3>1. x \in Nat /\ lo_h <= x
      BY <1>1, <1>3
    <3> HIDE DEF x
    <3>2. a * lo_h <= a * x
      BY <1>8, <2>1, <3>1, SMT
    <3> QED
      BY <3>2 DEF x
  <2>3. a * r.max_h <= a * hi_h
    <3> DEFINE x == r.max_h
    <3>1. x \in Nat /\ x <= hi_h
      BY <1>1, <1>5
    <3> HIDE DEF x
    <3>2. a * x <= a * hi_h
      BY <1>8, <2>1, <3>1, SMT
    <3> QED
      BY <3>2 DEF x
  <2>4. a * lo_h \in Nat /\ a * hi_h \in Nat /\ a * r.min_h \in Nat /\ a * r.max_h \in Nat
    BY <1>1, <1>8, <2>1
  <2> QED
    BY <1>1, <2>1, <2>2, <2>3, <2>4
<1>10. lo_v <= hz - 1 /\ hz + 1 <= hi_v /\ c <= 1000 * mhz
  BY <1>1, <1>4, <1>6, <1>7, <1>8, SMT DEF c
<1>11. /\ s.min_h = lo_h /\ s.max_h = hi_h /\ s.min_v = lo_v /\ s.max_v = hi_v
       /\ s.max_mhz = mhz
  BY <1>2
<1> QED
  BY <1>3, <1>4, <1>5, <1>6, <1>7, <1>8, <1>9, <1>10, <1>11 DEF Admits, a, c, s

-----------------------------------------------------------------------------
LEMMA BuiltOf ==
    ASSUME NEW spec, Build(spec) # None
    PROVE  Taken(spec) /\ CvtRbV1(spec) = Xcvt(spec) /\ Xcvt(spec).clock <= MaxClock
<1>1. CvtRbV1(spec) # None
  BY DEF Build
<1>2. Taken(spec)
  BY <1>1 DEF CvtRbV1, Taken
<1>3. CvtRbV1(spec) = IF Xcvt(spec).clock > MaxClock THEN None ELSE Xcvt(spec)
  BY <1>2 DEF CvtRbV1, Taken
<1>4. CvtRbV1(spec) = Xcvt(spec) /\ ~(Xcvt(spec).clock > MaxClock)
  BY <1>1, <1>3
<1>5. Xcvt(spec).clock \in Nat
  BY <1>2, TimingIs
<1> QED
  BY <1>2, <1>4, <1>5, SMT DEF MaxClock

(* Whatever spec `up` is given, the EDID built for it says what was        *)
(* computed, and the modes it offers are within its range limits.          *)
THEOREM EdidIsFaithful ==
    ASSUME NEW spec, Build(spec) # None
    PROVE  Faithful(Build(spec), spec)
<1> DEFINE t == CvtRbV1(spec)
           r == BuildRangeLimits(t, spec.hz, spec.hdr)
           e == Build(spec)
<1>1. /\ t # None /\ BuildDtd(t) # None /\ r # None
      /\ e = [dtd |-> BuildDtd(t), limits |-> r, hdr |-> spec.hdr]
  BY DEF Build
<1>2. Taken(spec) /\ t = Xcvt(spec) /\ t.clock <= MaxClock
  BY BuiltOf
<1> HIDE DEF t
<1>3. BuildDtd(t) = t
  BY <1>1, <1>2, DtdKeeps
<1>4. /\ t.clock \in Nat /\ HTotal(t) \in Nat /\ spec.hz \in Nat /\ spec.hz >= 24
      /\ spec.hz <= 240
  BY <1>2, ClockTyped, FrameTyped, TakenTyped, SMT
<1>5. r = (IF spec.hdr THEN WithVga(RangesAround(t, spec.hz)) ELSE RangesAround(t, spec.hz))
  BY <1>1 DEF BuildRangeLimits
<1> HIDE DEF r
<1>6. Admits(RangesAround(t, spec.hz), t, spec.hz)
  BY <1>2, AroundAdmits
<1>7. /\ Admits(r, t, spec.hz)
      /\ spec.hdr => /\ r.min_h <= 31 /\ r.max_h >= 32 /\ r.min_v <= 59 /\ r.max_v >= 60
                     /\ r.max_mhz >= 26
  BY <1>4, <1>5, <1>6, VgaAdmits
<1>8. RefreshOf(t) \in Nat /\ RefreshOf(t) <= 1000 * spec.hz
  BY <1>2, RefreshBelow
<1>9. Shortfall(t, spec.hz) <= 1000 => RefreshOf(t) >= 1000 * spec.hz - 1000
  BY <1>2, RefreshAbove
<1>10. Within(r, t.clock, HTotal(t), RefreshOf(t))
  <2>1. r.max_v \in Nat /\ spec.hz + 1 <= r.max_v
    BY <1>7 DEF Admits
  <2>2. RefreshOf(t) <= 1000 * r.max_v
    <3> DEFINE x == RefreshOf(t)
               y == r.max_v
    <3>1. x \in Nat /\ x <= 1000 * spec.hz /\ y \in Nat /\ spec.hz + 1 <= y
      BY <1>8, <2>1
    <3> HIDE DEF x, y
    <3>2. x <= 1000 * y
      BY <1>4, <3>1, SMT
    <3> QED
      BY <3>2 DEF x, y
  <2> QED
    BY <1>7, <2>2 DEF Within, Admits
<1>11. ASSUME Shortfall(t, spec.hz) <= 1000 PROVE RefreshOf(t) >= 1000 * r.min_v
  <2> DEFINE x == RefreshOf(t)
             y == r.min_v
  <2>1. x \in Nat /\ x >= 1000 * spec.hz - 1000 /\ y \in Nat /\ y <= spec.hz - 1
    BY <1>7, <1>8, <1>9, <1>11 DEF Admits
  <2> HIDE DEF x, y
  <2>2. x >= 1000 * y
    BY <1>4, <2>1, SMT
  <2> QED
    BY <2>2 DEF x, y
<1>12. ASSUME spec.hdr
       PROVE  Within(r, 25175, 800, Vga.mhz) /\ Vga.mhz >= 1000 * r.min_v
  <2>1. /\ r.min_h \in Nat /\ r.min_h <= 31 /\ r.max_h \in Nat /\ r.max_h >= 32
        /\ r.min_v \in Nat /\ r.min_v <= 59 /\ r.max_v \in Nat /\ r.max_v >= 60
        /\ r.max_mhz \in Nat /\ r.max_mhz >= 26
    BY <1>7, <1>12 DEF Admits
  <2>2. Vga.mhz = 59940
    BY DEF Vga, ModeInfo
  <2> QED
    BY <2>1, <2>2, SMT DEF Within
<1>13. e.dtd = t /\ e.limits = r
  BY <1>1, <1>3 DEF r
<1> QED
  BY <1>10, <1>11, <1>12, <1>13 DEF Faithful, t

-----------------------------------------------------------------------------
(* The fields the proof reads are there.                                   *)
Shapes ==
    /\ {"at", "phase", "seen", "refusal"} \subseteq DOMAIN me
    /\ "calm" \in DOMAIN hist
    /\ DOMAIN devs = Conn

InApply == me.at \in {"refresh", "apply"} =>
               me.phase \in {"place", "layout", "restore"}
IdleIsClean == me.at = "idle" => me.refusal = {}

(* Only devices of records are unplugged, and only until down destroys     *)
(* them: no head goes while a request is made.                             *)
Leaving == {"gone", "destroy"}
UnplugOnlyInDown ==
    \A c \in Conn : devs[c] # None /\ ~(devs[c].plugged = TRUE) =>
        me.at \in Leaving /\ c \in Handles

SeenIsNow == me.at = "apply" /\ hist.calm => me.seen = mutter

IInv ==
    /\ Shapes /\ InApply /\ IdleIsClean
    /\ UnplugOnlyInDown /\ SeenIsNow /\ StaleOnlyIfChanged

LEMMA InitInv == Init => IInv
  BY DEF Init, IInv, Shapes, InApply, IdleIsClean, UnplugOnlyInDown, SeenIsNow,
         StaleOnlyIfChanged, Idle, Begin

(* Mutter never objects to its own serial number.                          *)
LEMMA OwnSerial ==
    ASSUME NEW state, NEW config
    PROVE  "stale" \notin Objections(state, state.serial, config)
  BY DEF Objections

-----------------------------------------------------------------------------
(* Each action preserves the invariant.                                    *)

LEMMA StepInv == IInv /\ [Next]_vars => IInv'
<1> SUFFICES ASSUME IInv, [Next]_vars PROVE IInv'
  OBVIOUS
<1> USE DEF IInv, Shapes, InApply, IdleIsClean, UnplugOnlyInDown, Leaving, SeenIsNow,
            StaleOnlyIfChanged, Handles
<1>RunUp. CASE RunUp
  BY <1>RunUp DEF RunUp, Idle, Begin
<1>Create. CASE Create
  <2>1. /\ DOMAIN devs' = Conn
        /\ \A c \in Conn : devs'[c] = devs[c] \/ devs'[c].plugged = TRUE
    BY <1>Create DEF Create
  <2>2. \A c \in Conn : devs'[c] # None => devs'[c].plugged = TRUE
    BY <1>Create, <2>1 DEF Create
  <2>3. CASE me' = Idle
    BY <1>Create, <2>1, <2>2, <2>3 DEF Create, Idle
  <2>4. CASE me' # Idle
    <3>1. \E c : me' = [me EXCEPT !.at = "await", !.conn = c]
      BY <1>Create, <2>4 DEF Create
    <3> QED
      BY <1>Create, <2>1, <2>2, <3>1 DEF Create
  <2> QED
    BY <2>3, <2>4
<1>Await. CASE Await
  BY <1>Await DEF Await, Applies
<1>PlanLayout. CASE PlanLayout
  BY <1>PlanLayout DEF PlanLayout, Applies
<1>Refresh. CASE Refresh
  BY <1>Refresh DEF Refresh
<1>Apply. CASE Apply
  BY <1>Apply DEF Apply, Granted
<1>Refused. CASE Refused
  <2>1. hist.calm => "stale" \notin Against
    BY <1>Refused, OwnSerial DEF Refused, Against
  <2> QED
    BY <1>Refused, <2>1 DEF Refused
<1>Return. CASE Return
  BY <1>Return DEF Return, Idle
<1>RunDown. CASE RunDown
  BY <1>RunDown DEF RunDown, Applies
<1>Unplug. CASE Unplug
  BY <1>Unplug DEF Unplug
<1>Gone. CASE Gone
  BY <1>Gone DEF Gone
<1>Destroy. CASE Destroy
  BY <1>Destroy DEF Destroy, Idle
<1>HeadAppears. CASE \E c \in Conn : HeadAppears(c)
  <2>1. PICK c \in Conn : HeadAppears(c)
    BY <1>HeadAppears
  <2>2. /\ me' = me /\ devs' = devs /\ recs' = recs
        /\ "calm" \in DOMAIN hist'
        /\ hist'.calm => hist.calm /\ me.at = "await"
    BY <2>1 DEF HeadAppears
  <2> QED
    BY <2>2
<1>HeadGoes. CASE \E c \in Conn : HeadGoes(c)
  BY <1>HeadGoes DEF HeadGoes
<1>UserChanges. CASE UserChanges
  BY <1>UserChanges DEF UserChanges
<1>AllOver. CASE AllOver
  BY <1>AllOver DEF AllOver, vars
<1>Stutter. CASE UNCHANGED vars
  BY <1>Stutter DEF vars
<1> QED
  BY <1>RunUp, <1>Create, <1>Await, <1>PlanLayout, <1>Refresh, <1>Apply, <1>Refused,
     <1>Return, <1>RunDown, <1>Unplug, <1>Gone, <1>Destroy, <1>HeadAppears,
     <1>HeadGoes, <1>UserChanges, <1>AllOver, <1>Stutter DEF Next

(* A refusal as stale takes a change by others during the command: the     *)
(* read and the request of an apply are two calls, and nothing that `up`   *)
(* or `down` does itself falls between them, no head it has unplugged      *)
(* either.                                                                 *)
THEOREM NeverStaleAlone == Spec => []StaleOnlyIfChanged
<1>1. IInv => StaleOnlyIfChanged
  BY DEF IInv
<1> QED
  BY <1>1, InitInv, StepInv, PTL DEF Spec

-----------------------------------------------------------------------------
(* The EDIDs.  Each device has the one that was built for its spec; for    *)
(* that to survive an unplug, the records must name devices that exist.    *)

Made(device) ==
    \E plugged, spec :
        /\ Build(spec) # None
        /\ device = [plugged |-> plugged, edid |-> Build(spec), spec |-> spec]
AllMade == \A c \in Conn : devs[c] # None => Made(devs[c])

Recorded ==
    /\ IsSeq(recs)
    /\ \A i \in DOMAIN recs : "conn" \in DOMAIN recs[i]
    /\ \A c \in Handles \cap Conn : Made(devs[c])

DInv == DOMAIN devs = Conn /\ AllMade /\ Recorded

LEMMA AppendHas ==
    ASSUME NEW s, NEW e, IsSeq(s)
    PROVE  /\ IsSeq(Append(s, e))
           /\ \A i \in DOMAIN Append(s, e) : Append(s, e)[i] = e
                  \/ (i \in DOMAIN s /\ Append(s, e)[i] = s[i])
<1> DEFINE t == Append(s, e)
<1>1. /\ IsSeq(t) /\ Len(t) = Len(s) + 1 /\ t[Len(s) + 1] = e
      /\ \A i \in 1..Len(s) : t[i] = s[i]
  BY Adds
<1>2. Len(s) \in Nat /\ DOMAIN s = 1..Len(s)
  BY SeqHas
<1> HIDE DEF t
<1>3. DOMAIN t = 1..Len(t)
  BY <1>1, SeqHas
<1>4. \A i \in DOMAIN t : i \in DOMAIN s \/ i = Len(s) + 1
  BY <1>1, <1>2, <1>3
<1> QED
  BY <1>1, <1>2, <1>4 DEF t

(* A change of a record's other fields.                                    *)
LEMMA Noted ==
    ASSUME NEW s, NEW t, IsSeq(s), DOMAIN t = DOMAIN s,
           t = [i \in DOMAIN t |-> t[i]]
    PROVE  IsSeq(t)
<1>1. DOMAIN s = 1..Len(s) /\ Len(s) \in Nat
  BY DEF IsSeq
<1> QED
  BY <1>1 DEF IsSeq

LEMMA Unplugged ==
    ASSUME NEW d, Made(d)
    PROVE  Made([d EXCEPT !.plugged = FALSE])
<1>1. PICK plugged, spec, edid :
        /\ Build(spec) # None /\ edid = Build(spec)
        /\ d = [plugged |-> plugged, edid |-> edid, spec |-> spec]
  BY Zenon DEF Made
<1> DEFINE names == {"plugged", "edid", "spec"}
           off == FALSE
<1> HIDE DEF off
<1>2. DOMAIN d = names /\ d.plugged = plugged /\ d.edid = edid /\ d.spec = spec
  BY <1>1
<1>3. [d EXCEPT !.plugged = off] = [x \in names |-> IF x = "plugged" THEN off ELSE d[x]]
  BY <1>2
<1>4. [d EXCEPT !.plugged = off] = [plugged |-> off, edid |-> edid, spec |-> spec]
  BY <1>2, <1>3
<1>5. Made([d EXCEPT !.plugged = off])
  BY <1>1, <1>4, Zenon DEF Made
<1> QED
  BY <1>5 DEF off

LEMMA InitMade == Init => DInv
  BY DEF Init, DInv, AllMade, Recorded, Handles, IsSeq

LEMMA StepMade == DInv /\ [Next]_vars => DInv'
<1> SUFFICES ASSUME DInv, [Next]_vars PROVE DInv'
  OBVIOUS
<1> USE DEF DInv
<1>Primed. /\ AllMade' <=> \A c \in Conn : devs'[c] # None => Made(devs'[c])
           /\ (\A c \in Handles \cap Conn : Made(devs[c]))'
                 <=> \A c \in Handles' \cap Conn : Made(devs'[c])
  BY DEF AllMade, Made
<1>Same. ASSUME UNCHANGED <<devs, recs>> PROVE DInv'
  BY <1>Same DEF AllMade, Recorded, Handles, IsSeq, Made
<1>Notes. ASSUME UNCHANGED devs, DOMAIN recs' = DOMAIN recs,
                 recs' = [i \in DOMAIN recs' |-> recs'[i]],
                 \A i \in DOMAIN recs : "conn" \in DOMAIN recs'[i] /\ recs'[i].conn = recs[i].conn
          PROVE  DInv'
  <2>2. IsSeq(recs')
    BY <1>Notes, Noted DEF Recorded
  <2>3. Handles' = Handles
    BY <1>Notes DEF Handles
  <2> QED
    BY <1>Notes, <2>2, <2>3 DEF AllMade, Recorded, IsSeq, Made
<1>Create. CASE Create
  <2>1. CASE Build(me.req.spec) = None
    BY <1>Create, <1>Same, <2>1 DEF Create
  <2>2. CASE Build(me.req.spec) # None
    <3> DEFINE c == Min(Free)
               d == [plugged |-> TRUE, edid |-> Build(me.req.spec), spec |-> me.req.spec]
               r == [conn |-> c, head |-> None, snap |-> me.pre, disabled |-> {},
                     primary |-> None]
    <3>1. devs' = [devs EXCEPT ![c] = d] /\ recs' = Append(recs, r)
      BY <1>Create, <2>2 DEF Create
    <3>2. Made(d)
      BY <2>2, Zenon DEF Made
    <3>3. r.conn = c /\ "conn" \in DOMAIN r
      OBVIOUS
    <3> HIDE DEF c, d, r
    <3>4. \A x \in Conn : devs'[x] = IF x = c THEN d ELSE devs[x]
      BY <3>1
    <3>5. DOMAIN devs' = Conn /\ AllMade'
      BY <1>Primed, <3>1, <3>2, <3>4 DEF AllMade
    <3>6. /\ IsSeq(recs')
          /\ \A i \in DOMAIN recs' :
                recs'[i] = r \/ (i \in DOMAIN recs /\ recs'[i] = recs[i])
      BY <3>1, AppendHas DEF Recorded
    <3>7. \A x \in Handles' : x = c \/ x \in Handles
      BY <3>3, <3>6 DEF Handles
    <3>8. \A x \in Handles' \cap Conn : Made(devs'[x])
      BY <3>2, <3>4, <3>7 DEF Recorded
    <3> QED
      BY <1>Primed, <3>3, <3>5, <3>6, <3>8 DEF Recorded, IsSeq
  <2> QED
    BY <2>1, <2>2
<1>Records. recs = [i \in DOMAIN recs |-> recs[i]]
  BY DEF Recorded, IsSeq
<1>Await. CASE Await
  <2>1. CASE UNCHANGED <<devs, recs>>
    BY <1>Same, <2>1
  <2>2. CASE UNCHANGED devs /\ recs' = [recs EXCEPT ![Mine].head = me.conn]
    <3>1. /\ DOMAIN recs' = DOMAIN recs /\ recs' = [i \in DOMAIN recs' |-> recs'[i]]
          /\ \A i \in DOMAIN recs : "conn" \in DOMAIN recs'[i] /\ recs'[i].conn = recs[i].conn
      BY <1>Records, <2>2 DEF Recorded
    <3> QED
      BY <1>Notes, <2>2, <3>1
  <2> QED
    BY <1>Await, <2>1, <2>2 DEF Await
<1>Apply. CASE Apply
  <2>1. CASE UNCHANGED <<devs, recs>>
    BY <1>Same, <2>1
  <2>2. ASSUME NEW off, NEW main, UNCHANGED devs,
               recs' = [recs EXCEPT ![Mine].disabled = off, ![Mine].primary = main]
        PROVE  DInv'
    <3>1. /\ DOMAIN recs' = DOMAIN recs /\ recs' = [i \in DOMAIN recs' |-> recs'[i]]
          /\ \A i \in DOMAIN recs : "conn" \in DOMAIN recs'[i] /\ recs'[i].conn = recs[i].conn
      BY <1>Records, <2>2 DEF Recorded
    <3> QED
      BY <1>Notes, <2>2, <3>1
  <2> QED
    BY <1>Apply, <2>1, <2>2 DEF Apply
<1>Unplug. CASE Unplug
  <2>1. /\ devs' = [c \in Conn |-> IF c \in Handles THEN [devs[c] EXCEPT !.plugged = FALSE]
                                   ELSE devs[c]]
        /\ recs' = recs
    BY <1>Unplug DEF Unplug
  <2>3. ASSUME NEW c \in Handles \cap Conn PROVE Made(devs'[c])
    <3>1. Made(devs[c]) /\ devs'[c] = [devs[c] EXCEPT !.plugged = FALSE]
      BY <2>1 DEF Recorded
    <3> QED
      BY <3>1, Unplugged, Zenon
  <2>4. AllMade'
    BY <1>Primed, <2>1, <2>3 DEF AllMade
  <2>5. Handles' = Handles
    BY <2>1 DEF Handles
  <2> QED
    BY <1>Primed, <2>1, <2>3, <2>4, <2>5 DEF Recorded, IsSeq
<1>Destroy. CASE Destroy
  <2>1. /\ devs' = [c \in Conn |-> IF c \in Handles THEN None ELSE devs[c]]
        /\ recs' = << >>
    BY <1>Destroy DEF Destroy
  <2>2. Handles' = {} /\ IsSeq(recs') /\ DOMAIN recs' = {}
    BY <2>1 DEF Handles, IsSeq
  <2>3. AllMade'
    BY <1>Primed, <2>1 DEF AllMade
  <2> QED
    BY <1>Primed, <2>1, <2>2, <2>3 DEF Recorded, IsSeq
<1>Others. CASE \/ RunUp \/ PlanLayout \/ Refresh \/ Refused \/ Return \/ RunDown \/ Gone
                \/ UserChanges \/ AllOver \/ UNCHANGED vars
                \/ \E c \in Conn : HeadAppears(c) \/ HeadGoes(c)
  <2>1. UNCHANGED <<devs, recs>>
    BY <1>Others DEF RunUp, PlanLayout, Refresh, Refused, Return, RunDown, Gone, UserChanges,
                     AllOver, HeadAppears, HeadGoes, vars
  <2> QED
    BY <1>Same, <2>1
<1> QED
  BY <1>Create, <1>Await, <1>Apply, <1>Unplug, <1>Destroy, <1>Others DEF Next

(* Every device has an EDID that says what was computed for its spec, and  *)
(* whose range limits admit its own modes: for any command lines, and so   *)
(* any sizes and rates.                                                    *)
THEOREM EdidsAreFaithful == Spec => []EdidFaithful
<1>1. DInv => EdidFaithful
  BY EdidIsFaithful DEF DInv, AllMade, Made, EdidFaithful
<1> QED
  BY <1>1, InitMade, StepMade, PTL DEF Spec

-----------------------------------------------------------------------------
(* Finite sets: their least and greatest elements, their images.           *)
LEMMA HasLeast ==
    ASSUME NEW S, IsFiniteSet(S), S \subseteq Int, S # {}
    PROVE  /\ \E x \in S : \A y \in S : x <= y
           /\ \E x \in S : \A y \in S : x >= y
<1> DEFINE Ends(T) == /\ \E x \in T : \A y \in T : x <= y
                      /\ \E x \in T : \A y \in T : x >= y
           G == {n \in Nat : \A T \in SUBSET Int :
                     IsFiniteSet(T) /\ Cardinality(T) = n + 1 => Ends(T)}
<1>1. 0 \in G
  <2> SUFFICES ASSUME NEW T \in SUBSET Int, IsFiniteSet(T), Cardinality(T) = 1 PROVE Ends(T)
    OBVIOUS
  <2>1. PICK x : T = {x}
    BY FS_Singleton
  <2> QED
    BY <2>1
<1>2. ASSUME NEW n \in G \cap Nat PROVE n + 1 \in G
  <2> SUFFICES ASSUME NEW T \in SUBSET Int, IsFiniteSet(T), Cardinality(T) = n + 2
               PROVE  Ends(T)
    OBVIOUS
  <2>0. T # {}
    <3>1. CASE T = {}
      <4>1. Cardinality(T) = 0
        BY <3>1, FS_EmptySet
      <4> QED
        BY <4>1
    <3> QED
      BY <3>1
  <2>1. PICK z \in T : TRUE
    BY <2>0
  <2>2. T \ {z} \in SUBSET Int /\ IsFiniteSet(T \ {z}) /\ Cardinality(T \ {z}) = n + 1
    BY <2>1, FS_RemoveElement
  <2>3. Ends(T \ {z})
    BY <1>2, <2>2
  <2>4. PICK x \in T \ {z} : \A y \in T \ {z} : x <= y
    BY <2>3
  <2>5. PICK w \in T \ {z} : \A y \in T \ {z} : w >= y
    BY <2>3
  <2>6. \E v \in T : \A y \in T : v <= y
    <3>1. CASE z <= x
      <4>1. \A y \in T : z <= y
        BY <2>4, <3>1
      <4> QED
        BY <2>1, <4>1
    <3>2. CASE x <= z
      BY <2>4, <3>2
    <3> QED
      BY <3>1, <3>2
  <2>7. \E v \in T : \A y \in T : v >= y
    <3>1. CASE z >= w
      <4>1. \A y \in T : z >= y
        BY <2>5, <3>1
      <4> QED
        BY <2>1, <4>1
    <3>2. CASE w >= z
      BY <2>5, <3>2
    <3> QED
      BY <3>1, <3>2
  <2> QED
    BY <2>6, <2>7
<1> HIDE DEF G
<1>3. \A n \in Nat : n \in G
  BY <1>1, <1>2, AllNat
<1>4. Cardinality(S) \in Nat /\ Cardinality(S) # 0
  BY FS_CardinalityType, FS_EmptySet
<1>5. Cardinality(S) - 1 \in G /\ Cardinality(S) = (Cardinality(S) - 1) + 1
  BY <1>3, <1>4
<1> QED
  BY <1>5 DEF G

LEMMA MinIs ==
    ASSUME NEW S, IsFiniteSet(S), S \subseteq Int, S # {}
    PROVE  Min(S) \in S /\ \A y \in S : Min(S) <= y
BY HasLeast DEF Min

LEMMA MaxIs ==
    ASSUME NEW S, IsFiniteSet(S), S \subseteq Int, S # {}
    PROVE  Max(S) \in S /\ \A y \in S : Max(S) >= y
BY HasLeast DEF Max

LEMMA LeastIndex ==
    ASSUME NEW n \in Nat, NEW I, I \subseteq 1..n, I # {}
    PROVE  Min(I) \in I /\ \A i \in I : Min(I) <= i
<1>1. I \in SUBSET (1..n) /\ I \subseteq Int
  OBVIOUS
<1>2. IsFiniteSet(1..n)
  BY FS_Interval
<1>3. IsFiniteSet(I)
  BY <1>1, <1>2, FS_Subset
<1> QED
  BY <1>1, <1>3, MinIs

LEMMA ImageFinite ==
    ASSUME NEW f, IsFiniteSet(DOMAIN f)
    PROVE  IsFiniteSet({f[x] : x \in DOMAIN f})
<1> DEFINE T == {f[x] : x \in DOMAIN f}
           g == [x \in DOMAIN f |-> f[x]]
<1>1. g \in Surjection(DOMAIN f, T)
  BY DEF Surjection
<1> QED
  BY <1>1, FS_Surjection

-----------------------------------------------------------------------------
(* The first of a sequence that passes a test.                             *)
LEMMA MonitorIs ==
    ASSUME NEW state, IsSeq(state.monitors), NEW n
    PROVE  /\ n \notin Names(state.monitors) => MonitorNamed(state, n) = None
           /\ n \in Names(state.monitors) =>
                 \E i \in DOMAIN state.monitors :
                     state.monitors[i].name = n /\ MonitorNamed(state, n) = state.monitors[i]
<1> DEFINE s == state.monitors
           I == {i \in 1..Len(s) : s[i].name = n}
<1>1. MonitorNamed(state, n) = IF I = {} THEN None
                               ELSE IF Min(I) = 0 THEN None ELSE s[Min(I)]
  BY SMT DEF MonitorNamed, FirstOf, SelectInSeq
<1>2. Len(s) \in Nat /\ DOMAIN s = 1..Len(s)
  BY SeqHas
<1>3. I # {} => Min(I) \in I
  BY <1>2, LeastIndex
<1>4. n \in Names(s) <=> I # {}
  BY <1>2 DEF Names
<1>5. CASE I = {}
  BY <1>1, <1>4, <1>5
<1>6. CASE I # {}
  <2>1. Min(I) \in 1..Len(s) /\ s[Min(I)].name = n
    BY <1>3, <1>6
  <2>2. Min(I) # 0
    BY <1>2, <2>1
  <2> QED
    BY <1>1, <1>2, <1>4, <1>6, <2>1, <2>2
<1> QED
  BY <1>5, <1>6

-----------------------------------------------------------------------------
(* States that may also be on the way to another: monitors may be in a     *)
(* mode that no logical one has.                                           *)
StateShape == [serial : Nat, monitors : Seq(Monitor), logical : SUBSET Logical,
               physical : BOOLEAN]
MonitorsOK(mons) ==
    \A i \in DOMAIN mons :
        /\ mons[i].preferred \in ToSet(mons[i].modes)
        /\ mons[i].current \in ToSet(mons[i].modes) \cup {None}
        /\ \A j \in DOMAIN mons : mons[j].name = mons[i].name => i = j
LogicalsOK(mons, logical) ==
    \A lm \in logical :
        /\ lm.monitors # {} /\ lm.monitors \subseteq Names(mons)
        /\ \A k \in logical : k = lm \/ k.monitors \cap lm.monitors = {}
LitIfLogical(state) ==
    \A i \in DOMAIN state.monitors :
        state.monitors[i].current # None
            <=> \E lm \in state.logical : state.monitors[i].name \in lm.monitors

Sound(state) ==
    /\ state \in StateShape /\ IsFiniteSet(state.logical)
    /\ MonitorsOK(state.monitors) /\ LogicalsOK(state.monitors, state.logical)

LEMMA MutterIs == ASSUME NEW state PROVE MutterOK(state) <=> Sound(state) /\ LitIfLogical(state)
BY DEF MutterOK, Sound, StateShape, MonitorsOK, LogicalsOK, LitIfLogical

LEMMA StateHas ==
    ASSUME NEW state, Sound(state)
    PROVE  /\ IsSeq(state.monitors) /\ DOMAIN state.monitors = 1..Len(state.monitors)
           /\ Len(state.monitors) \in Nat
           /\ \A i \in DOMAIN state.monitors : state.monitors[i] \in Monitor
           /\ state.logical \subseteq Logical
<1>1. state.monitors \in Seq(Monitor) /\ state.logical \subseteq Logical
  BY DEF Sound, StateShape
<1>2. IsSeq(state.monitors)
  BY <1>1, SeqIs
<1> QED
  BY <1>1, <1>2, SeqHas

(* The monitor of a name, and the logical one that shows it.               *)
LEMMA MonitorAt ==
    ASSUME NEW state, Sound(state), NEW i \in DOMAIN state.monitors
    PROVE  MonitorNamed(state, state.monitors[i].name) = state.monitors[i]
<1>1. IsSeq(state.monitors)
  BY StateHas
<1>2. state.monitors[i].name \in Names(state.monitors)
  BY DEF Names
<1>3. PICK j \in DOMAIN state.monitors :
        /\ state.monitors[j].name = state.monitors[i].name
        /\ MonitorNamed(state, state.monitors[i].name) = state.monitors[j]
  BY <1>1, <1>2, MonitorIs
<1>4. i = j
  BY <1>3 DEF Sound, MonitorsOK
<1> QED
  BY <1>3, <1>4

LEMMA MonitorHas ==
    ASSUME NEW state, Sound(state), NEW n, MonitorNamed(state, n) # None
    PROVE  \E i \in DOMAIN state.monitors :
               state.monitors[i].name = n /\ MonitorNamed(state, n) = state.monitors[i]
BY StateHas, MonitorIs

LEMMA LogicalIs ==
    ASSUME NEW state, Sound(state), NEW n, NEW lm \in state.logical, n \in lm.monitors
    PROVE  LogicalOf(state, n) = lm
<1> DEFINE k == CHOOSE k \in state.logical : n \in k.monitors
<1>1. LogicalOf(state, n) = k
  BY DEF LogicalOf
<1>2. k \in state.logical /\ n \in k.monitors
  OBVIOUS
<1> HIDE DEF k
<1>3. k = lm
  BY <1>2 DEF Sound, LogicalsOK
<1> QED
  BY <1>1, <1>3

LEMMA LogicalHas ==
    ASSUME NEW state, Sound(state), NEW n
    PROVE  \/ LogicalOf(state, n) = None
           \/ LogicalOf(state, n) \in state.logical /\ n \in LogicalOf(state, n).monitors
BY DEF LogicalOf

-----------------------------------------------------------------------------
(* Configurations that may be carried out.                                 *)
Showing(state) ==
    {m \in [name : Output, mode : Mode, color : Color \cup {None}] :
        \E i \in DOMAIN state.monitors :
            /\ state.monitors[i].name = m.name
            /\ m.mode \in ToSet(state.monitors[i].modes)}
Part(state) ==
    [x : Int, y : Int, scale : Nat \ {0}, transform : 0..7, primary : BOOLEAN,
     monitors : (SUBSET Showing(state)) \ {{}}]
Once1(config) ==
    \A a, b \in config : \A m \in a.monitors, k \in b.monitors :
        m.name = k.name => a = b /\ m = k
ConfigOK(state, config) ==
    IsFiniteSet(config) /\ config \subseteq Part(state) /\ Once1(config)

IsPart(r) ==
    r = [x |-> r.x, y |-> r.y, scale |-> r.scale, transform |-> r.transform,
         primary |-> r.primary, monitors |-> r.monitors]

LEMMA Relabelled ==
    ASSUME NEW r, IsPart(r), NEW v
    PROVE  [r EXCEPT !.monitors = v] =
               [x |-> r.x, y |-> r.y, scale |-> r.scale, transform |-> r.transform,
                primary |-> r.primary, monitors |-> v]
BY DEF IsPart

LEMMA Moved ==
    ASSUME NEW r, IsPart(r), NEW a, NEW b
    PROVE  [r EXCEPT !.x = a, !.y = b] =
               [x |-> a, y |-> b, scale |-> r.scale, transform |-> r.transform,
                primary |-> r.primary, monitors |-> r.monitors]
<1> DEFINE s == [r EXCEPT !.x = a]
<1>1. s = [x |-> a, y |-> r.y, scale |-> r.scale, transform |-> r.transform,
           primary |-> r.primary, monitors |-> r.monitors]
  BY DEF IsPart
<1>2. [r EXCEPT !.x = a, !.y = b] = [s EXCEPT !.y = b]
  OBVIOUS
<1> HIDE DEF s
<1>3. [s EXCEPT !.y = b] = [x |-> a, y |-> b, scale |-> r.scale, transform |-> r.transform,
                            primary |-> r.primary, monitors |-> r.monitors]
  BY <1>1
<1> QED
  BY <1>2, <1>3

LEMMA LogicalCarriedOut ==
    ASSUME NEW state, Sound(state), NEW config, ConfigOK(state, config)
    PROVE  LET logical == {[lc EXCEPT !.monitors = {m.name : m \in @}] : lc \in config}
           IN /\ logical \subseteq Logical /\ IsFiniteSet(logical)
              /\ LogicalsOK(state.monitors, logical)
              /\ \A n : (\E lm \in logical : n \in lm.monitors) <=> n \in Lit(config)
<1> DEFINE As(lc) == [lc EXCEPT !.monitors = {m.name : m \in @}]
           logical == {As(lc) : lc \in config}
<1>1. ASSUME NEW lc \in config
      PROVE  /\ As(lc) = [x |-> lc.x, y |-> lc.y, scale |-> lc.scale,
                          transform |-> lc.transform, primary |-> lc.primary,
                          monitors |-> {m.name : m \in lc.monitors}]
             /\ lc \in Part(state)
  <2> DEFINE v == {m.name : m \in lc.monitors}
  <2>1. lc \in Part(state)
    BY DEF ConfigOK
  <2>2. IsPart(lc)
    BY <2>1 DEF Part, IsPart
  <2>3. As(lc) = [lc EXCEPT !.monitors = v]
    OBVIOUS
  <2> QED
    BY <2>1, <2>2, <2>3, Relabelled
<1>2. ASSUME NEW lc \in config, NEW m \in lc.monitors
      PROVE  m.name \in Output /\ m.name \in Names(state.monitors)
  BY <1>1 DEF Part, Showing, Names
<1>3. ASSUME NEW lc \in config
      PROVE  /\ As(lc) \in Logical /\ As(lc).monitors # {}
             /\ As(lc).monitors \subseteq Names(state.monitors)
             /\ As(lc).monitors = {m.name : m \in lc.monitors}
  <2>1. lc.monitors # {}
    BY <1>1 DEF Part
  <2>2. {m.name : m \in lc.monitors} \in SUBSET Output
    BY <1>2
  <2>3. As(lc) \in Logical
    BY <1>1, <2>2 DEF Logical, Part
  <2> QED
    BY <1>1, <1>2, <2>1, <2>3
<1>4. IsFiniteSet(logical)
  <2> DEFINE f == [lc \in config |-> As(lc)]
  <2>1. IsFiniteSet({f[x] : x \in DOMAIN f})
    BY ImageFinite DEF ConfigOK
  <2>2. {f[x] : x \in DOMAIN f} = logical
    OBVIOUS
  <2> QED
    BY <2>1, <2>2
<1>5. ASSUME NEW a \in config, NEW b \in config
      PROVE  As(a) = As(b) \/ As(a).monitors \cap As(b).monitors = {}
  <2>1. ASSUME NEW n \in As(a).monitors \cap As(b).monitors PROVE a = b
    <3>1. PICK m \in a.monitors, k \in b.monitors : m.name = n /\ k.name = n
      BY <1>3
    <3> QED
      BY <3>1 DEF ConfigOK, Once1
  <2> QED
    BY <2>1
<1>6. ASSUME NEW n PROVE (\E lm \in logical : n \in lm.monitors) <=> n \in Lit(config)
  <2>1. (\E lm \in logical : n \in lm.monitors)
           <=> \E lc \in config : n \in As(lc).monitors
    OBVIOUS
  <2>2. ASSUME NEW lc \in config
        PROVE  n \in As(lc).monitors <=> \E m \in lc.monitors : m.name = n
    BY <1>3
  <2>3. n \in Lit(config) <=> \E lc \in config : \E m \in lc.monitors : m.name = n
    BY DEF Lit, Monitors
  <2> HIDE DEF As
  <2> QED
    BY <2>1, <2>2, <2>3
<1> HIDE DEF As
<1>7. LogicalsOK(state.monitors, logical)
  BY <1>3, <1>5 DEF LogicalsOK
<1> QED
  BY <1>3, <1>4, <1>6, <1>7 DEF As

LEMMA ShowsIs ==
    ASSUME NEW state, NEW config, ConfigOK(state, config), NEW lc \in config,
           NEW m \in lc.monitors
    PROVE  Shows(config, m.name) = m /\ m.name \in Lit(config)
<1>1. m \in Monitors(config)
  BY DEF Monitors
<1>2. ASSUME NEW k \in Monitors(config), k.name = m.name PROVE k = m
  BY <1>2 DEF Monitors, ConfigOK, Once1
<1> QED
  BY <1>1, <1>2 DEF Shows, Lit

LEMMA MonitorObeys ==
    ASSUME NEW state, Sound(state), NEW config, ConfigOK(state, config),
           NEW i \in DOMAIN state.monitors
    PROVE  LET mon == state.monitors[i]
               now == Obeying(config, mon)
           IN /\ now \in Monitor /\ now.name = mon.name /\ now.modes = mon.modes
              /\ now.preferred = mon.preferred
              /\ now.current \in ToSet(mon.modes) \cup {None}
              /\ now.current # None <=> mon.name \in Lit(config)
<1> DEFINE mon == state.monitors[i]
           now == Obeying(config, mon)
<1>1. mon \in Monitor
  BY StateHas
<1>2. CASE mon.name \notin Lit(config)
  <2>1. now = [mon EXCEPT !.current = None]
    BY <1>2 DEF Obeying
  <2> QED
    BY <1>1, <1>2, <2>1 DEF Monitor
<1>3. CASE mon.name \in Lit(config)
  <2>0. PICK lc \in config : \E m \in lc.monitors : m.name = mon.name
    BY <1>3 DEF Lit, Monitors
  <2>1. PICK m \in lc.monitors : m.name = mon.name
    BY <2>0
  <2>2. Shows(config, mon.name) = m
    BY <2>1, ShowsIs
  <2>3. m \in Showing(state)
    BY DEF ConfigOK, Part
  <2>4. PICK j \in DOMAIN state.monitors :
          state.monitors[j].name = mon.name /\ m.mode \in ToSet(state.monitors[j].modes)
    BY <2>1, <2>3 DEF Showing
  <2>5. j = i
    BY <2>4 DEF Sound, MonitorsOK
  <2>6. m.mode \in ToSet(mon.modes) /\ m.mode \in Mode /\ m.color \in Color \cup {None}
    BY <2>3, <2>4, <2>5 DEF Showing
  <2> DEFINE mode == m.mode
             color == IF mon.color = None THEN None ELSE Or(m.color, "sdr")
  <2>7. color \in Color \cup {None}
    BY <2>6 DEF Or, Color
  <2>8. now = [mon EXCEPT !.current = mode, !.color = color]
    BY <1>3, <2>2 DEF Obeying
  <2>9. mode \in ToSet(mon.modes) /\ mode \in Mode /\ mode # None
    BY <2>6, NoneIsNothing
  <2> HIDE DEF mode, color
  <2>10. now = [name |-> mon.name, modes |-> mon.modes, preferred |-> mon.preferred,
                current |-> mode, color |-> color]
    BY <1>1, <2>8 DEF Monitor
  <2>11. now \in Monitor
    BY <1>1, <2>7, <2>9, <2>10 DEF Monitor
  <2> QED
    BY <1>3, <2>9, <2>10, <2>11
<1> QED
  BY <1>2, <1>3

LEMMA Obeys ==
    ASSUME NEW state, Sound(state), NEW config, ConfigOK(state, config)
    PROVE  LET now == Obeyed(state, config) IN
           /\ MutterOK(now) /\ now.serial = state.serial + 1
           /\ Names(now.monitors) = Names(state.monitors)
           /\ DOMAIN now.monitors = DOMAIN state.monitors
           /\ \A i \in DOMAIN state.monitors :
                 now.monitors[i] = Obeying(config, state.monitors[i])
           /\ now.logical = {[lc EXCEPT !.monitors = {m.name : m \in @}] : lc \in config}
<1> DEFINE mons == [i \in DOMAIN state.monitors |-> Obeying(config, state.monitors[i])]
           logical == {[lc EXCEPT !.monitors = {m.name : m \in @}] : lc \in config}
           now == Obeyed(state, config)
<1>1. state \in StateShape
  BY DEF Sound
<1>2. now = [state EXCEPT !.serial = @ + 1, !.monitors = mons, !.logical = logical]
  BY DEF Obeyed
<1>3. /\ logical \subseteq Logical /\ IsFiniteSet(logical)
      /\ LogicalsOK(state.monitors, logical)
      /\ \A n : (\E lm \in logical : n \in lm.monitors) <=> n \in Lit(config)
  BY LogicalCarriedOut
<1> DEFINE n == Len(state.monitors)
<1>4. DOMAIN state.monitors = 1..n /\ n \in Nat
  BY StateHas
<1>5. \A i \in DOMAIN state.monitors :
         /\ mons[i] \in Monitor /\ mons[i].name = state.monitors[i].name
         /\ mons[i].modes = state.monitors[i].modes
         /\ mons[i].preferred = state.monitors[i].preferred
         /\ mons[i].current \in ToSet(state.monitors[i].modes) \cup {None}
         /\ mons[i].current # None <=> state.monitors[i].name \in Lit(config)
  BY MonitorObeys
<1>6. mons \in Seq(Monitor) /\ DOMAIN mons = DOMAIN state.monitors
  <2>1. mons \in [1..n -> Monitor]
    BY <1>4, <1>5
  <2> QED
    BY <1>4, <2>1
<1>7. \A i \in DOMAIN state.monitors : mons[i] = Obeying(config, state.monitors[i])
  OBVIOUS
<1> HIDE DEF mons, logical, n
<1>8. now = [serial |-> state.serial + 1, monitors |-> mons, logical |-> logical,
             physical |-> state.physical]
  BY <1>1, <1>2 DEF StateShape
<1>9. Names(mons) = Names(state.monitors)
  BY <1>5, <1>6 DEF Names
<1>10. now \in StateShape
  BY <1>1, <1>3, <1>6, <1>8 DEF StateShape
<1>11. MonitorsOK(mons)
  BY <1>5, <1>6 DEF MonitorsOK, Sound
<1>12. LogicalsOK(mons, logical)
  BY <1>3, <1>9 DEF LogicalsOK
<1>13. LitIfLogical(now)
  BY <1>3, <1>5, <1>6, <1>8 DEF LitIfLogical
<1>14. MutterOK(now)
  BY <1>3, <1>8, <1>10, <1>11, <1>12, <1>13, MutterIs DEF Sound
<1> QED
  BY <1>6, <1>7, <1>8, <1>9, <1>14 DEF logical

-----------------------------------------------------------------------------
(* What a plan does not name is submitted as it is.                        *)
LitOf(state, lm) == {n \in lm.monitors : Of(MonitorNamed(state, n), "current") # None}
ShownBy(state, lm) ==
    {[name |-> n, mode |-> MonitorNamed(state, n).current,
      color |-> MonitorNamed(state, n).color] : n \in LitOf(state, lm)}

LEMMA LitIs ==
    ASSUME NEW state, Sound(state), NEW lm, NEW n \in LitOf(state, lm)
    PROVE  /\ n \in lm.monitors
           /\ \E i \in DOMAIN state.monitors :
                 /\ state.monitors[i].name = n /\ MonitorNamed(state, n) = state.monitors[i]
                 /\ state.monitors[i].current \in ToSet(state.monitors[i].modes)
                 /\ state.monitors[i].current \in Mode
<1>1. n \in lm.monitors /\ MonitorNamed(state, n) # None /\ MonitorNamed(state, n).current # None
  BY DEF LitOf, Of
<1>2. PICK i \in DOMAIN state.monitors :
        state.monitors[i].name = n /\ MonitorNamed(state, n) = state.monitors[i]
  BY <1>1, MonitorHas
<1>3. state.monitors[i] \in Monitor
  BY StateHas
<1>4. /\ state.monitors[i].current \in ToSet(state.monitors[i].modes)
      /\ state.monitors[i].current \in Mode
  BY <1>1, <1>2, <1>3 DEF Sound, MonitorsOK, Monitor
<1> QED
  BY <1>1, <1>2, <1>4

LEMMA ShownByIs ==
    ASSUME NEW state, Sound(state), NEW lm, NEW m \in ShownBy(state, lm)
    PROVE  /\ m \in Showing(state) /\ m.name \in lm.monitors
           /\ m = [name |-> m.name, mode |-> MonitorNamed(state, m.name).current,
                   color |-> MonitorNamed(state, m.name).color]
<1>1. PICK n \in LitOf(state, lm) :
        m = [name |-> n, mode |-> MonitorNamed(state, n).current,
             color |-> MonitorNamed(state, n).color]
  BY DEF ShownBy
<1>2. PICK i \in DOMAIN state.monitors :
        /\ state.monitors[i].name = n /\ MonitorNamed(state, n) = state.monitors[i]
        /\ state.monitors[i].current \in ToSet(state.monitors[i].modes)
        /\ state.monitors[i].current \in Mode
  BY LitIs
<1>3. state.monitors[i] \in Monitor
  BY StateHas
<1>4. m \in Showing(state)
  BY <1>1, <1>2, <1>3 DEF Showing, Monitor
<1>5. m.name = n
  BY <1>1
<1> QED
  BY <1>1, <1>4, <1>5, LitIs

LEMMA CarriedIs ==
    ASSUME NEW plan, NEW state, Sound(state), NEW lm \in state.logical
    PROVE  LET lc == Carried(plan, state, lm) IN
           /\ lc = [x |-> lm.x, y |-> lm.y, scale |-> lm.scale, transform |-> lm.transform,
                    primary |-> lm.primary /\ plan.primary = None,
                    monitors |-> ShownBy(state, lm)]
           /\ lc.monitors # {} => lc \in Part(state)
<1> DEFINE shown == ShownBy(state, lm)
           main == lm.primary /\ plan.primary = None
           lc == Carried(plan, state, lm)
<1>1. lm \in Logical
  BY StateHas
<1>2. shown \in SUBSET Showing(state)
  BY ShownByIs
<1>3. lc = [lm EXCEPT !.primary = main, !.monitors = shown]
  BY DEF Carried, LitOf, ShownBy
<1>4. main \in BOOLEAN
  BY <1>1 DEF Logical
<1> HIDE DEF shown, main
<1>5. lc = [x |-> lm.x, y |-> lm.y, scale |-> lm.scale, transform |-> lm.transform,
            primary |-> main, monitors |-> shown]
  BY <1>1, <1>3 DEF Logical
<1>6. lc.monitors # {} => lc \in Part(state)
  BY <1>1, <1>2, <1>4, <1>5 DEF Logical, Part
<1> QED
  BY <1>5, <1>6 DEF shown, main

LEMMA UntouchedIs ==
    ASSUME NEW plan, NEW state, Sound(state)
    PROVE  /\ ConfigOK(state, Untouched(plan, state))
           /\ \A lc \in Untouched(plan, state) : \A m \in lc.monitors : m.name \notin Named(plan)
<1> DEFINE U == Untouched(plan, state)
           K == {k \in state.logical : k.monitors \cap Named(plan) = {}}
           C(lm) == Carried(plan, state, lm)
<1>1. \A lc \in U : lc.monitors # {} /\ \E lm \in K : lc = C(lm)
  BY DEF Untouched
<1>2. \A lm \in K : C(lm).monitors = ShownBy(state, lm)
  BY CarriedIs
<1>3. IsFiniteSet(U)
  <2>1. IsFiniteSet(K)
    <3>1. K \in SUBSET state.logical
      OBVIOUS
    <3> QED
      BY <3>1, FS_Subset DEF Sound
  <2> DEFINE f == [lm \in K |-> C(lm)]
             V == {f[x] : x \in DOMAIN f}
  <2>2. IsFiniteSet(V)
    BY <2>1, ImageFinite
  <2>3. U \in SUBSET V
    BY <1>1
  <2> HIDE DEF V, U
  <2> QED
    BY <2>2, <2>3, FS_Subset
<1>4. U \subseteq Part(state)
  <2> SUFFICES ASSUME NEW lc \in U PROVE lc \in Part(state)
    OBVIOUS
  <2>1. PICK lm \in K : lc = C(lm) /\ lc.monitors # {}
    BY <1>1
  <2> QED
    BY <2>1, CarriedIs
<1>5. Once1(U)
  <2> SUFFICES ASSUME NEW a \in U, NEW b \in U, NEW m \in a.monitors, NEW k \in b.monitors,
                      m.name = k.name
               PROVE  a = b /\ m = k
    BY DEF Once1
  <2>1. PICK la \in K : a = C(la)
    BY <1>1
  <2>2. PICK lb \in K : b = C(lb)
    BY <1>1
  <2>3. m \in ShownBy(state, la) /\ k \in ShownBy(state, lb)
    BY <1>2, <2>1, <2>2
  <2>4. m.name \in la.monitors /\ k.name \in lb.monitors
    BY <2>3, ShownByIs
  <2>5. la = lb
    BY <2>4 DEF Sound, LogicalsOK
  <2>6. m = k
    BY <2>3, ShownByIs
  <2> QED
    BY <2>1, <2>2, <2>5, <2>6
<1>6. \A lc \in U : \A m \in lc.monitors : m.name \notin Named(plan)
  <2> TAKE lc \in U
  <2> TAKE m \in lc.monitors
  <2>1. PICK lm \in K : lc = C(lm)
    BY <1>1
  <2>2. m \in ShownBy(state, lm)
    BY <1>2, <2>1
  <2>3. m.name \in lm.monitors
    BY <2>2, ShownByIs
  <2> QED
    BY <2>3
<1> QED
  BY <1>3, <1>4, <1>5, <1>6 DEF ConfigOK

-----------------------------------------------------------------------------
(* What is added to a configuration, and where.                            *)
LEMMA ScaledIs ==
    ASSUME NEW px \in Int, NEW percent \in Nat \ {0}
    PROVE  Scaled(px, percent) \in Int
BY DEF Scaled

LEMMA WideIs ==
    ASSUME NEW state, Sound(state), NEW lc \in Part(state)
    PROVE  Wide(state, lc) \in Int
<1> DEFINE m == CHOOSE m \in lc.monitors : TRUE
<1>1. lc.monitors # {} /\ lc.monitors \subseteq Showing(state) /\ lc.scale \in Nat \ {0}
  BY DEF Part
<1>2. m \in Showing(state)
  BY <1>1
<1>3. m.mode \in Mode
  BY <1>2 DEF Showing
<1> HIDE DEF m
<1>4. Across(m.mode, lc.transform) \in Int
  BY <1>3 DEF Across, Mode
<1>5. Physically(state, lc.scale) \in Nat \ {0}
  BY <1>1 DEF Physically, ScaleIn
<1> QED
  BY <1>4, <1>5, ScaledIs DEF Wide, m

LEMMA EdgeIs ==
    ASSUME NEW state, Sound(state), NEW config, ConfigOK(state, config)
    PROVE  PlacedEdge(state, config) \in Int
<1> DEFINE E == {lc.x + Wide(state, lc) : lc \in config}
           f == [lc \in config |-> lc.x + Wide(state, lc)]
<1>1. \A lc \in config : lc.x \in Int /\ Wide(state, lc) \in Int
  BY WideIs DEF ConfigOK, Part
<1>2. IsFiniteSet(E)
  <2>1. IsFiniteSet({f[x] : x \in DOMAIN f})
    BY ImageFinite DEF ConfigOK
  <2>2. {f[x] : x \in DOMAIN f} = E
    OBVIOUS
  <2> QED
    BY <2>1, <2>2
<1>3. E \subseteq Int
  BY <1>1
<1> HIDE DEF E
<1>4. E # {} => Max(E) \in Int
  BY <1>2, <1>3, MaxIs
<1> QED
  BY <1>4 DEF PlacedEdge, RightOf, E

LEMMA Beside ==
    ASSUME NEW state, NEW config, ConfigOK(state, config), NEW lc \in Part(state), NEW m,
           lc.monitors = {m}, \A k \in config : \A s \in k.monitors : s.name # m.name
    PROVE  ConfigOK(state, config \cup {lc})
<1>1. IsFiniteSet(config \cup {lc})
  BY FS_AddElement DEF ConfigOK
<1>2. Once1(config \cup {lc})
  BY DEF ConfigOK, Once1
<1> QED
  BY <1>1, <1>2 DEF ConfigOK

Shifted(lc, dx, dy) ==
    [x |-> lc.x - dx, y |-> lc.y - dy, scale |-> lc.scale, transform |-> lc.transform,
     primary |-> lc.primary, monitors |-> lc.monitors]

LeastOf(config, dx, dy) ==
    /\ \A lc \in config : dx <= lc.x /\ dy <= lc.y
    /\ (\E lc \in config : lc.x = dx) /\ (\E lc \in config : lc.y = dy)

LEMMA AnchoredIs ==
    ASSUME NEW state, NEW config, ConfigOK(state, config), config # {}
    PROVE  /\ ConfigOK(state, Anchored(config))
           /\ \E dx \in Int, dy \in Int :
                 /\ Anchored(config) = {Shifted(lc, dx, dy) : lc \in config}
                 /\ AtOrigin(config) => dx = 0 /\ dy = 0
                 /\ LeastOf(config, dx, dy)
<1> DEFINE X == {lc.x : lc \in config}
           Y == {lc.y : lc \in config}
           fx == [lc \in config |-> lc.x]
           fy == [lc \in config |-> lc.y]
<1>1. \A lc \in config : lc \in Part(state) /\ lc.x \in Int /\ lc.y \in Int
  BY DEF ConfigOK, Part
<1>2. IsFiniteSet({fx[lc] : lc \in DOMAIN fx}) /\ IsFiniteSet({fy[lc] : lc \in DOMAIN fy})
  BY ImageFinite DEF ConfigOK
<1>3. IsFiniteSet(X) /\ IsFiniteSet(Y)
  <2>1. {fx[lc] : lc \in DOMAIN fx} = X /\ {fy[lc] : lc \in DOMAIN fy} = Y
    OBVIOUS
  <2> QED
    BY <1>2, <2>1
<1>4. X \subseteq Int /\ Y \subseteq Int /\ X # {} /\ Y # {}
  BY <1>1
<1>0. AtOrigin(config) => Min(X) = 0 /\ Min(Y) = 0
  BY DEF AtOrigin
<1> HIDE DEF X, Y
<1>5. Min(X) \in Int /\ Min(Y) \in Int
  BY <1>3, <1>4, MinIs
<1>17. LeastOf(config, Min(X), Min(Y))
  <2>1. /\ Min(X) \in X /\ \A u \in X : Min(X) <= u
        /\ Min(Y) \in Y /\ \A u \in Y : Min(Y) <= u
    BY <1>3, <1>4, MinIs
  <2> DEFINE a == Min(X)
             b == Min(Y)
  <2> HIDE DEF a, b
  <2>2. /\ a \in X /\ \A u \in X : a <= u
        /\ b \in Y /\ \A u \in Y : b <= u
    BY <2>1 DEF a, b
  <2>3. LeastOf(config, a, b)
    BY <2>2 DEF LeastOf, X, Y
  <2> QED
    BY <2>3 DEF a, b
<1> DEFINE dx == Min(X)
           dy == Min(Y)
           At(lc) == [lc EXCEPT !.x = @ - dx, !.y = @ - dy]
           A == {At(lc) : lc \in config}
<1>6. Anchored(config) = A
  BY DEF Anchored, X, Y
<1> HIDE DEF dx, dy
<1>7. ASSUME NEW lc \in config
      PROVE  At(lc) = [x |-> lc.x - dx, y |-> lc.y - dy, scale |-> lc.scale,
                       transform |-> lc.transform, primary |-> lc.primary,
                       monitors |-> lc.monitors]
  <2> DEFINE a == lc.x - dx
             b == lc.y - dy
  <2>1. IsPart(lc)
    BY <1>1 DEF Part, IsPart
  <2>2. At(lc) = [lc EXCEPT !.x = a, !.y = b]
    OBVIOUS
  <2> HIDE DEF a, b, At
  <2>3. At(lc) = [x |-> a, y |-> b, scale |-> lc.scale, transform |-> lc.transform,
                  primary |-> lc.primary, monitors |-> lc.monitors]
    BY <2>1, <2>2, Moved
  <2> QED
    BY <2>3 DEF a, b
<1>8. ASSUME NEW lc \in config PROVE At(lc) \in Part(state)
  <2>1. dx \in Int /\ dy \in Int
    BY <1>5 DEF dx, dy
  <2>2. lc.x - dx \in Int /\ lc.y - dy \in Int
    BY <1>1, <2>1
  <2> DEFINE a == lc.x - dx
             b == lc.y - dy
  <2> HIDE DEF a, b, At
  <2>3. At(lc) = [x |-> a, y |-> b, scale |-> lc.scale, transform |-> lc.transform,
                  primary |-> lc.primary, monitors |-> lc.monitors]
    BY <1>7 DEF a, b
  <2>4. a \in Int /\ b \in Int
    BY <2>2 DEF a, b
  <2> QED
    BY <1>1, <2>3, <2>4 DEF Part
<1>9. \A lc \in config : At(lc).monitors = lc.monitors
  BY <1>7
<1>10. IsFiniteSet(A)
  <2> DEFINE f == [lc \in config |-> At(lc)]
  <2>1. IsFiniteSet({f[x] : x \in DOMAIN f})
    BY ImageFinite DEF ConfigOK
  <2>2. {f[x] : x \in DOMAIN f} = A
    OBVIOUS
  <2> QED
    BY <2>1, <2>2
<1>11. A \subseteq Part(state)
  BY <1>8
<1>12. Once1(A)
  <2> SUFFICES ASSUME NEW a \in config, NEW b \in config, NEW m \in At(a).monitors,
                      NEW k \in At(b).monitors, m.name = k.name
               PROVE  At(a) = At(b) /\ m = k
    <3> HIDE DEF At
    <3> QED
      BY DEF Once1
  <2>1. m \in a.monitors /\ k \in b.monitors
    BY <1>9
  <2> QED
    BY <2>1 DEF ConfigOK, Once1
<1>13. ConfigOK(state, A)
  BY <1>10, <1>11, <1>12 DEF ConfigOK
<1>14. A = {Shifted(lc, dx, dy) : lc \in config}
  <2>1. \A lc \in config : At(lc) = Shifted(lc, dx, dy)
    BY <1>7 DEF Shifted
  <2> HIDE DEF At
  <2> QED
    BY <2>1
<1>15. /\ dx \in Int /\ dy \in Int /\ (AtOrigin(config) => dx = 0 /\ dy = 0)
       /\ LeastOf(config, dx, dy)
  BY <1>0, <1>5, <1>17 DEF dx, dy
<1> HIDE DEF A
<1>16. Anchored(config) = {Shifted(lc, dx, dy) : lc \in config}
  BY <1>6, <1>14
<1> QED
  BY <1>6, <1>13, <1>15, <1>16

-----------------------------------------------------------------------------
(* Any mode that is chosen for a monitor is one of its own.                *)
LEMMA FirstIs ==
    ASSUME NEW s, IsSeq(s)
    PROVE  LET x == FirstOf(s, LAMBDA k : TRUE) IN x # None => x \in ToSet(s)
<1> DEFINE I == {i \in 1..Len(s) : TRUE}
<1>1. FirstOf(s, LAMBDA k : TRUE) = IF I = {} THEN None
                                    ELSE IF Min(I) = 0 THEN None ELSE s[Min(I)]
  BY SMT DEF FirstOf, SelectInSeq
<1>2. Len(s) \in Nat /\ DOMAIN s = 1..Len(s)
  BY SeqHas
<1>3. I # {} => Min(I) \in I
  BY <1>2, LeastIndex
<1>4. I # {} => s[Min(I)] \in ToSet(s)
  BY <1>2, <1>3 DEF ToSet
<1> HIDE DEF I
<1> QED
  BY <1>1, <1>4

Nearest(s, mhz, least) == FirstOf(s, LAMBDA k : Apart(k.mhz, mhz) = least)

LEMMA NearestIs ==
    ASSUME NEW s, IsSeq(s), NEW mhz, NEW least
    PROVE  Nearest(s, mhz, least) # None => Nearest(s, mhz, least) \in ToSet(s)
<1> DEFINE I == {i \in 1..Len(s) : Apart(s[i].mhz, mhz) = least}
<1>1. Nearest(s, mhz, least) =
          IF I = {} THEN None ELSE IF Min(I) = 0 THEN None ELSE s[Min(I)]
  BY SMT DEF Nearest, FirstOf, SelectInSeq
<1>2. Len(s) \in Nat /\ DOMAIN s = 1..Len(s)
  BY SeqHas
<1>3. I # {} => Min(I) \in I
  BY <1>2, LeastIndex
<1>4. I # {} => s[Min(I)] \in ToSet(s)
  BY <1>2, <1>3 DEF ToSet
<1> HIDE DEF I
<1> QED
  BY <1>1, <1>4

LEMMA ModeIs ==
    ASSUME NEW mon, IsSeq(mon.modes), mon.preferred \in ToSet(mon.modes), NEW want,
           ModeFor(mon, want) # None
    PROVE  ModeFor(mon, want) \in ToSet(mon.modes)
<1> DEFINE like == Only(mon.modes, {k \in ToSet(mon.modes) : k.w = want.w /\ k.h = want.h})
           least == Min({Apart(like[i].mhz, want.mhz) : i \in DOMAIN like})
           near == Nearest(like, want.mhz, least)
           first == FirstOf(mon.modes, LAMBDA k : TRUE)
<1>1. IsSeq(like) /\ ToSet(like) \subseteq ToSet(mon.modes)
  BY OnlySet
<1> HIDE DEF like, least
<1>2. near # None => near \in ToSet(mon.modes)
  BY <1>1, NearestIs
<1>3. first # None => first \in ToSet(mon.modes)
  BY FirstIs
<1>4. ModeFor(mon, want) \in {mon.preferred, first, None, near}
  BY DEF ModeFor, Nearest, like, least
<1> QED
  BY <1>2, <1>3, <1>4

-----------------------------------------------------------------------------
(* The enables of a plan, and what is submitted for them.                  *)
EnableOK(e) ==
    /\ e.position \in (Int \X Int) \cup {None} /\ e.scale \in (Nat \ {0}) \cup {None}
    /\ e.transform \in (0..7) \cup {None} /\ e.color \in Color \cup {None}
EnablesOK(enables) ==
    /\ IsSeq(enables) /\ \A e \in ToSet(enables) : EnableOK(e)
    /\ \A i, j \in 1..Len(enables) : enables[i].name = enables[j].name => i = j

LEMMA LogicalFields ==
    ASSUME NEW state, Sound(state), NEW n, LogicalOf(state, n) # None
    PROVE  LogicalOf(state, n) \in Logical
BY LogicalHas, StateHas

LEMMA PreferredIs == ASSUME NEW mode PROVE PreferredScale(mode) \in Nat \ {0}
BY DEF PreferredScale

LEMMA SubmittedIs ==
    ASSUME NEW plan, NEW state, Sound(state), NEW placed, ConfigOK(state, placed), NEW e,
           EnableOK(e), Lightable(state, e)
    PROVE  LET lc == Submitted(plan, state, placed, e) IN
           lc \in Part(state) /\ \E m : lc.monitors = {m} /\ m.name = e.name
<1> DEFINE mon == MonitorNamed(state, e.name)
           mode == ModeFor(mon, e.mode)
           was == LogicalOf(state, e.name)
           at == CASE e.position # None -> e.position
                   [] e.position = None /\ was # None -> <<was.x, was.y>>
                   [] OTHER -> <<PlacedEdge(state, placed), 0>>
           scale == Or(Or(e.scale, Of(was, "scale")), PreferredScale(mode))
           transform == Or(Or(e.transform, Of(was, "transform")), 0)
           main == IF plan.primary # None THEN plan.primary = e.name
                   ELSE was # None /\ was.primary
           m == [name |-> e.name, mode |-> mode, color |-> Or(e.color, mon.color)]
           lc == Submitted(plan, state, placed, e)
<1>1. lc = [x |-> at[1], y |-> at[2], scale |-> scale, transform |-> transform,
            primary |-> main, monitors |-> {m}]
  BY DEF Submitted
<1>2. mon # None /\ mode # None
  BY DEF Lightable
<1>3. PICK i \in DOMAIN state.monitors : state.monitors[i].name = e.name /\ mon = state.monitors[i]
  BY <1>2, MonitorHas
<1>4. mon \in Monitor /\ mon.preferred \in ToSet(mon.modes)
  BY <1>3, StateHas DEF Sound, MonitorsOK
<1>5. mon.modes \in Seq(Mode)
  BY <1>4 DEF Monitor
<1>6. IsSeq(mon.modes) /\ ToSet(mon.modes) \subseteq Mode
  BY <1>5, SeqIs DEF ToSet
<1>7. mode \in ToSet(mon.modes) /\ mode \in Mode
  BY <1>2, <1>4, <1>6, ModeIs
<1>8. was = None \/ was \in Logical
  BY LogicalFields
<1>9. at[1] \in Int /\ at[2] \in Int
  BY <1>8, EdgeIs DEF EnableOK, Logical
<1>10. PreferredScale(mode) \in Nat \ {0}
  BY PreferredIs
<1>11. scale \in Nat \ {0}
  BY <1>8, <1>10 DEF EnableOK, Logical, Or, Of
<1>12. transform \in 0..7
  BY <1>8 DEF EnableOK, Logical, Or, Of
<1>13. main \in BOOLEAN
  BY <1>8 DEF Logical
<1>14. Or(e.color, mon.color) \in Color \cup {None}
  BY <1>4 DEF Or, EnableOK, Monitor
<1>15. e.name \in Output
  BY <1>3, <1>4 DEF Monitor
<1>16. m \in Showing(state)
  <2> DEFINE color == Or(e.color, mon.color)
  <2> HIDE DEF mon, mode, color
  <2> QED
    BY <1>3, <1>7, <1>14, <1>15 DEF Showing, color
<1>17. m.name = e.name
  OBVIOUS
<1> HIDE DEF m, at, scale, transform, main, lc
<1>18. lc \in Part(state)
  BY <1>1, <1>9, <1>11, <1>12, <1>13, <1>16 DEF Part
<1> QED
  BY <1>1, <1>17, <1>18 DEF lc

(* The enables that can be lit are placed one after the other.             *)
Lightables(plan, state) ==
    Only(plan.enables, {e \in ToSet(plan.enables) : Lightable(state, e)})
Placed(plan, state, f, n) ==
    f = [i \in 0..n |-> IF i = 0 THEN Untouched(plan, state)
                        ELSE f[i - 1] \cup {Submitted(plan, state, f[i - 1],
                                                      Lightables(plan, state)[i])}]

LEMMA PlacedIs ==
    ASSUME NEW plan, NEW state, NEW n \in Nat
    PROVE  \E f : Placed(plan, state, f, n)
<1> DEFINE U == Untouched(plan, state)
           Add(p, i) == p \cup {Submitted(plan, state, p, Lightables(plan, state)[i])}
           Good == {m \in Nat : \E f : Placed(plan, state, f, m)}
<1>1. ASSUME NEW f, NEW m PROVE Placed(plan, state, f, m) <=>
                                   f = [i \in 0..m |-> IF i = 0 THEN U ELSE Add(f[i - 1], i)]
  BY DEF Placed
<1> HIDE DEF U, Add
<1>2. 0 \in Good
  <2> DEFINE g == [i \in 0..0 |-> U]
  <2>1. g = [i \in 0..0 |-> IF i = 0 THEN U ELSE Add(g[i - 1], i)]
    OBVIOUS
  <2> HIDE DEF g
  <2>2. Placed(plan, state, g, 0)
    BY <1>1, <2>1
  <2> QED
    BY <2>2
<1>3. ASSUME NEW m \in Good \cap Nat PROVE m + 1 \in Good
  <2>1. PICK f : Placed(plan, state, f, m)
    OBVIOUS
  <2>2. f = [i \in 0..m |-> IF i = 0 THEN U ELSE Add(f[i - 1], i)]
    BY <1>1, <2>1
  <2> DEFINE g == [i \in 0..(m + 1) |-> IF i <= m THEN f[i] ELSE Add(f[m], i)]
  <2>3. DOMAIN g = 0..(m + 1) /\ g[m + 1] = Add(f[m], m + 1) /\ \A i \in 0..m : g[i] = f[i]
    OBVIOUS
  <2>4. g = [i \in 0..(m + 1) |-> g[i]]
    OBVIOUS
  <2> HIDE DEF g
  <2>5. ASSUME NEW i \in 0..(m + 1) PROVE g[i] = IF i = 0 THEN U ELSE Add(g[i - 1], i)
    <3>1. CASE i = 0
      <4>1. 0 \in 0..m /\ g[i] = f[0]
        BY <2>3, <3>1
      <4>2. f[0] = U
        BY <2>2, <4>1
      <4> QED
        BY <3>1, <4>1, <4>2
    <3>2. CASE i \in 1..m
      <4>1. i \in 0..m /\ i - 1 \in 0..m /\ i # 0
        BY <3>2
      <4>2. g[i] = f[i] /\ g[i - 1] = f[i - 1]
        BY <2>3, <4>1
      <4>3. f[i] = Add(f[i - 1], i)
        BY <2>2, <4>1
      <4> QED
        BY <4>1, <4>2, <4>3
    <3>3. CASE i = m + 1
      <4>1. i - 1 = m /\ m \in 0..m /\ i # 0
        BY <3>3
      <4> QED
        BY <2>3, <3>3, <4>1
    <3> QED
      BY <3>1, <3>2, <3>3
  <2>6. g = [i \in 0..(m + 1) |-> IF i = 0 THEN U ELSE Add(g[i - 1], i)]
    BY <2>4, <2>5
  <2>7. Placed(plan, state, g, m + 1)
    BY <1>1, <2>6
  <2> QED
    BY <2>7
<1> HIDE DEF Good
<1>4. n \in Good
  BY <1>2, <1>3, AllNat
<1> QED
  BY <1>4 DEF Good

LEMMA LightablesAre ==
    ASSUME NEW plan, NEW state, EnablesOK(plan.enables)
    PROVE  LET enables == Lightables(plan, state) IN
           /\ IsSeq(enables) /\ Len(enables) \in Nat
           /\ \A i \in 1..Len(enables) :
                 /\ EnableOK(enables[i]) /\ Lightable(state, enables[i])
                 /\ enables[i].name \in Names(plan.enables)
                 /\ \A j \in 1..Len(enables) : enables[i].name = enables[j].name => i = j
<1> DEFINE all == plan.enables
           L == {e \in ToSet(all) : Lightable(state, e)}
           enables == Lightables(plan, state)
<1>1. IsSeq(all) /\ Len(all) \in Nat /\ DOMAIN all = 1..Len(all)
  BY SeqHas DEF EnablesOK
<1>2. enables = Only(all, L)
  BY DEF Lightables
<1>3. IsSeq(enables) /\ ToSet(enables) = ToSet(all) \cap L
  BY <1>1, <1>2, OnlySet
<1>4. Once(all)
  BY <1>1 DEF Once, EnablesOK
<1>5. Once(enables)
  BY <1>1, <1>2, <1>4, OnlyOnce
<1>6. Len(enables) \in Nat /\ DOMAIN enables = 1..Len(enables)
  BY <1>3, SeqHas
<1> HIDE DEF enables
<1>7. ASSUME NEW i \in 1..Len(enables)
      PROVE  \E k \in 1..Len(all) : all[k] = enables[i] /\ Lightable(state, enables[i])
  <2>1. enables[i] \in ToSet(enables)
    BY <1>6 DEF ToSet
  <2>2. enables[i] \in ToSet(all) /\ Lightable(state, enables[i])
    BY <1>3, <2>1
  <2> QED
    BY <1>1, <2>2, ToSetIs
<1>8. ASSUME NEW i \in 1..Len(enables)
      PROVE  /\ EnableOK(enables[i]) /\ Lightable(state, enables[i])
             /\ enables[i].name \in Names(all)
  <2>1. PICK k \in 1..Len(all) : all[k] = enables[i] /\ Lightable(state, enables[i])
    BY <1>7
  <2>2. all[k] \in ToSet(all) /\ all[k].name \in Names(all)
    BY <1>1 DEF ToSet, Names
  <2> QED
    BY <2>1, <2>2 DEF EnablesOK
<1>9. ASSUME NEW i \in 1..Len(enables), NEW j \in 1..Len(enables),
             enables[i].name = enables[j].name
      PROVE  i = j
  <2>1. PICK k \in 1..Len(all) : all[k] = enables[i]
    BY <1>7
  <2>2. PICK l \in 1..Len(all) : all[l] = enables[j]
    BY <1>7
  <2>3. k = l
    BY <1>9, <2>1, <2>2 DEF EnablesOK
  <2>4. enables[i] = enables[j]
    BY <2>1, <2>2, <2>3
  <2> QED
    BY <1>5, <2>4 DEF Once
<1> QED
  BY <1>3, <1>6, <1>8, <1>9 DEF enables

(* The configuration made of a plan: what the plan does not name, and      *)
(* beside it what it enables.                                              *)
Extends(plan, state, placed) ==
    /\ ConfigOK(state, placed) /\ Untouched(plan, state) \subseteq placed
    /\ \A lc \in placed : \/ lc \in Untouched(plan, state)
                          \/ \A m \in lc.monitors : m.name \in Names(plan.enables)

LEMMA ConfigSteps ==
    ASSUME NEW plan, NEW state, Sound(state), EnablesOK(plan.enables)
    PROVE  LET config == ToMutterConfig(plan, state)
               n == Len(Lightables(plan, state))
           IN /\ ConfigOK(state, config)
              /\ config # {} => \E f : /\ Placed(plan, state, f, n)
                                       /\ f[n] # {} /\ config = Anchored(f[n])
                                       /\ Extends(plan, state, f[n])
<1> DEFINE U == Untouched(plan, state)
           enables == Lightables(plan, state)
           n == Len(enables)
           F == CHOOSE f : Placed(plan, state, f, n)
<1>1. /\ IsSeq(enables) /\ n \in Nat
      /\ \A i \in 1..n :
            /\ EnableOK(enables[i]) /\ Lightable(state, enables[i])
            /\ enables[i].name \in Names(plan.enables)
            /\ \A j \in 1..n : enables[i].name = enables[j].name => i = j
  BY LightablesAre
<1>2. Placed(plan, state, F, n)
  BY <1>1, PlacedIs
<1>3. ToMutterConfig(plan, state) = IF F[n] = {} THEN {} ELSE Anchored(F[n])
  BY DEF ToMutterConfig, Placed, Lightables
<1> HIDE DEF F, enables, n
<1>4. F[0] = U /\ \A i \in 1..n : F[i] = F[i - 1] \cup {Submitted(plan, state, F[i - 1], enables[i])}
  <2>1. F = [i \in 0..n |-> IF i = 0 THEN U
                            ELSE F[i - 1] \cup {Submitted(plan, state, F[i - 1], enables[i])}]
    BY <1>2 DEF Placed, enables
  <2>2. 0 \in 0..n /\ \A i \in 1..n : i \in 0..n /\ i # 0
    BY <1>1
  <2> HIDE DEF U
  <2> QED
    BY <2>1, <2>2
<1> DEFINE Fine(i) ==
              /\ ConfigOK(state, F[i]) /\ U \subseteq F[i]
              /\ \A lc \in F[i] : lc \in U \/ \E j \in 1..i : \A m \in lc.monitors :
                                                 m.name = enables[j].name
           Good == {i \in Nat : i <= n => Fine(i)}
<1>5. ConfigOK(state, U) /\ \A lc \in U : \A m \in lc.monitors : m.name \notin Named(plan)
  BY UntouchedIs
<1>6. 0 \in Good
  BY <1>4, <1>5
<1>7. ASSUME NEW k \in Good \cap Nat PROVE k + 1 \in Good
  <2> SUFFICES ASSUME k + 1 <= n PROVE Fine(k + 1)
    OBVIOUS
  <2> DEFINE i == k + 1
             e == enables[i]
             p == F[k]
             s == Submitted(plan, state, p, e)
  <2>1. i \in 1..n /\ k <= n /\ i - 1 = k
    BY <1>1
  <2>2. Fine(k)
    BY <2>1
  <2>3. F[i] = p \cup {s}
    BY <1>4, <2>1
  <2>4. EnableOK(e) /\ Lightable(state, e) /\ e.name \in Names(plan.enables)
    BY <1>1, <2>1
  <2>5. ConfigOK(state, p)
    BY <2>2
  <2>6. s \in Part(state) /\ \E m : s.monitors = {m} /\ m.name = e.name
    BY <2>4, <2>5, SubmittedIs
  <2>7. PICK m : s.monitors = {m} /\ m.name = e.name
    BY <2>6
  <2>8. \A lc \in p : \A x \in lc.monitors : x.name # m.name
    <3> SUFFICES ASSUME NEW lc \in p, NEW x \in lc.monitors, x.name = e.name PROVE FALSE
      BY <2>7
    <3>1. CASE lc \in U
      <4>1. x.name \notin Named(plan)
        BY <1>5, <3>1
      <4> QED
        BY <2>4, <4>1 DEF Named
    <3>2. CASE lc \notin U
      <4>1. PICK j \in 1..k : \A y \in lc.monitors : y.name = enables[j].name
        BY <2>2, <3>2
      <4>2. j \in 1..n /\ j # i
        BY <1>1, <2>1, <4>1
      <4>3. enables[j].name = e.name
        BY <4>1
      <4> QED
        BY <1>1, <2>1, <4>2, <4>3
    <3> QED
      BY <3>1, <3>2
  <2> HIDE DEF s, p
  <2>9. ConfigOK(state, p \cup {s})
    BY <2>5, <2>6, <2>7, <2>8, Beside
  <2>10. \A lc \in F[i] : lc \in U \/ \E j \in 1..i : \A x \in lc.monitors :
                                         x.name = enables[j].name
    <3> SUFFICES ASSUME NEW lc \in F[i], lc \notin U
                 PROVE  \E j \in 1..i : \A x \in lc.monitors : x.name = enables[j].name
      OBVIOUS
    <3>1. CASE lc = s
      <4>1. \A x \in lc.monitors : x.name = enables[i].name
        BY <2>7, <3>1
      <4>2. i \in 1..i
        BY <2>1
      <4> QED
        BY <4>1, <4>2
    <3>2. CASE lc \in F[k]
      <4>1. PICK j \in 1..k : \A y \in lc.monitors : y.name = enables[j].name
        BY <2>2, <3>2
      <4>2. j \in 1..i
        BY <4>1
      <4> QED
        BY <4>1, <4>2
    <3> QED
      BY <2>3, <3>1, <3>2 DEF p
  <2>11. U \subseteq F[i]
    BY <2>2, <2>3 DEF p
  <2> QED
    BY <2>3, <2>9, <2>10, <2>11
<1> HIDE DEF Good
<1>8. n \in Good
  BY <1>1, <1>6, <1>7, AllNat
<1>9. Fine(n)
  BY <1>1, <1>8 DEF Good
<1>10. Extends(plan, state, F[n])
  <2>1. ASSUME NEW lc \in F[n], lc \notin U, NEW m \in lc.monitors PROVE m.name \in Names(plan.enables)
    <3>1. PICK j \in 1..n : \A y \in lc.monitors : y.name = enables[j].name
      BY <1>9, <2>1
    <3> QED
      BY <1>1, <3>1
  <2> QED
    BY <1>9, <2>1 DEF Extends
<1> DEFINE config == ToMutterConfig(plan, state)
<1>11. CASE F[n] = {}
  <2>1. config = {}
    BY <1>3, <1>11
  <2>2. ConfigOK(state, {})
    BY FS_EmptySet DEF ConfigOK, Once1
  <2> QED
    BY <2>1, <2>2
<1>12. CASE F[n] # {}
  <2>1. config = Anchored(F[n])
    BY <1>3, <1>12
  <2> HIDE DEF config
  <2>2. ConfigOK(state, F[n])
    BY <1>9
  <2>3. ConfigOK(state, Anchored(F[n]))
    BY <1>12, <2>2, AnchoredIs
  <2>4. ConfigOK(state, config)
    BY <2>1, <2>3
  <2>5. \E f : /\ Placed(plan, state, f, n)
              /\ f[n] # {} /\ config = Anchored(f[n]) /\ Extends(plan, state, f[n])
    BY <1>2, <1>10, <1>12, <2>1
  <2> QED
    BY <2>4, <2>5 DEF config, n, enables
<1> QED
  BY <1>11, <1>12

LEMMA ConfigIs ==
    ASSUME NEW plan, NEW state, Sound(state), EnablesOK(plan.enables)
    PROVE  LET config == ToMutterConfig(plan, state) IN
           /\ ConfigOK(state, config)
           /\ config # {} => \E placed : /\ placed # {} /\ config = Anchored(placed)
                                         /\ Extends(plan, state, placed)
BY ConfigSteps

-----------------------------------------------------------------------------
(* Mutter's own layouts and the user's.                                    *)
LEMMA SingleIs ==
    ASSUME NEW state, Sound(state), NEW i \in DOMAIN state.monitors, NEW x \in Int,
           NEW primary \in BOOLEAN
    PROVE  LET lc == Single(state, state.monitors[i], x, primary) IN
           lc \in Part(state) /\ \E m : lc.monitors = {m} /\ m.name = state.monitors[i].name
<1> DEFINE mon == state.monitors[i]
           mode == Or(mon.current, mon.preferred)
           was == LogicalOf(state, mon.name)
           scale == Or(Of(was, "scale"), PreferredScale(mode))
           transform == Or(Of(was, "transform"), 0)
           m == [name |-> mon.name, mode |-> mode, color |-> mon.color]
           lc == Single(state, mon, x, primary)
<1>1. lc = [x |-> x, y |-> 0, scale |-> scale, transform |-> transform,
            primary |-> primary, monitors |-> {m}]
  BY DEF Single
<1>2. /\ mon \in Monitor /\ mon.preferred \in ToSet(mon.modes)
      /\ mon.current \in ToSet(mon.modes) \cup {None}
  BY StateHas DEF Sound, MonitorsOK
<1>3. mode \in ToSet(mon.modes) /\ mode \in Mode
  BY <1>2 DEF Or, Monitor
<1>4. was = None \/ was \in Logical
  BY LogicalFields
<1>5. PreferredScale(mode) \in Nat \ {0}
  BY PreferredIs
<1>6. scale \in Nat \ {0}
  BY <1>4, <1>5 DEF Logical, Or, Of
<1>7. transform \in 0..7
  BY <1>4 DEF Logical, Or, Of
<1>8. m \in Showing(state)
  <2> DEFINE color == mon.color
             name == mon.name
  <2>1. color \in Color \cup {None} /\ name \in Output
    BY <1>2 DEF Monitor
  <2>2. m = [name |-> name, mode |-> mode, color |-> color]
    OBVIOUS
  <2> HIDE DEF mode, m, color
  <2>3. m \in [name : Output, mode : Mode, color : Color \cup {None}]
    BY <1>3, <2>1, <2>2
  <2>4. m.name = state.monitors[i].name /\ m.mode \in ToSet(state.monitors[i].modes)
    BY <1>3, <2>2
  <2> QED
    BY <2>3, <2>4 DEF Showing
<1>9. m.name = mon.name
  OBVIOUS
<1> HIDE DEF m, scale, transform, lc
<1>10. lc \in Part(state)
  BY <1>1, <1>6, <1>7, <1>8 DEF Part
<1> QED
  BY <1>1, <1>9, <1>10 DEF lc

(* In a row.                                                               *)
Leads(state) ==
    LET names == Names(state.monitors) \cap Primary(state)
    IN IF names = {} THEN state.monitors[1].name ELSE Min(names)
Adjoined(state, p, mon) ==
    Single(state, mon, PlacedEdge(state, p), mon.name = Leads(state))
Rowed(state, f, n) ==
    f = [i \in 0..n |-> IF i = 0 THEN {}
                        ELSE f[i - 1] \cup {Adjoined(state, f[i - 1], state.monitors[i])}]

LEMMA RowedIs ==
    ASSUME NEW state, NEW n \in Nat
    PROVE  \E f : Rowed(state, f, n)
<1> DEFINE Add(p, i) == p \cup {Adjoined(state, p, state.monitors[i])}
           Good == {m \in Nat : \E f : Rowed(state, f, m)}
<1>1. ASSUME NEW f, NEW m PROVE Rowed(state, f, m) <=>
                                   f = [i \in 0..m |-> IF i = 0 THEN {} ELSE Add(f[i - 1], i)]
  BY DEF Rowed
<1> HIDE DEF Add
<1>2. 0 \in Good
  <2> DEFINE g == [i \in 0..0 |-> {}]
  <2>1. g = [i \in 0..0 |-> IF i = 0 THEN {} ELSE Add(g[i - 1], i)]
    OBVIOUS
  <2> HIDE DEF g
  <2>2. Rowed(state, g, 0)
    BY <1>1, <2>1
  <2> QED
    BY <2>2
<1>3. ASSUME NEW m \in Good \cap Nat PROVE m + 1 \in Good
  <2>1. PICK f : Rowed(state, f, m)
    OBVIOUS
  <2>2. f = [i \in 0..m |-> IF i = 0 THEN {} ELSE Add(f[i - 1], i)]
    BY <1>1, <2>1
  <2> DEFINE g == [i \in 0..(m + 1) |-> IF i <= m THEN f[i] ELSE Add(f[m], i)]
  <2>3. DOMAIN g = 0..(m + 1) /\ g[m + 1] = Add(f[m], m + 1) /\ \A i \in 0..m : g[i] = f[i]
    OBVIOUS
  <2>4. g = [i \in 0..(m + 1) |-> g[i]]
    OBVIOUS
  <2> HIDE DEF g
  <2>5. ASSUME NEW i \in 0..(m + 1) PROVE g[i] = IF i = 0 THEN {} ELSE Add(g[i - 1], i)
    <3>1. CASE i = 0
      <4>1. 0 \in 0..m /\ g[i] = f[0]
        BY <2>3, <3>1
      <4>2. f[0] = {}
        BY <2>2, <4>1
      <4> QED
        BY <3>1, <4>1, <4>2
    <3>2. CASE i \in 1..m
      <4>1. i \in 0..m /\ i - 1 \in 0..m /\ i # 0
        BY <3>2
      <4>2. g[i] = f[i] /\ g[i - 1] = f[i - 1]
        BY <2>3, <4>1
      <4>3. f[i] = Add(f[i - 1], i)
        BY <2>2, <4>1
      <4> QED
        BY <4>1, <4>2, <4>3
    <3>3. CASE i = m + 1
      <4>1. i - 1 = m /\ m \in 0..m /\ i # 0
        BY <3>3
      <4> QED
        BY <2>3, <3>3, <4>1
    <3> QED
      BY <3>1, <3>2, <3>3
  <2>6. g = [i \in 0..(m + 1) |-> IF i = 0 THEN {} ELSE Add(g[i - 1], i)]
    BY <2>4, <2>5
  <2>7. Rowed(state, g, m + 1)
    BY <1>1, <2>6
  <2> QED
    BY <2>7
<1> HIDE DEF Good
<1>4. n \in Good
  BY <1>2, <1>3, AllNat
<1> QED
  BY <1>4 DEF Good

LEMMA RowSteps ==
    ASSUME NEW state, Sound(state)
    PROVE  LET n == Len(state.monitors) IN
           \E f : /\ Rowed(state, f, n) /\ InARow(state) = f[n]
                 /\ \A i \in 0..n : ConfigOK(state, f[i])
<1> DEFINE mons == state.monitors
           n == Len(mons)
           F == CHOOSE f : Rowed(state, f, n)
<1>1. n \in Nat /\ DOMAIN mons = 1..n
  BY StateHas
<1>2. Rowed(state, F, n)
  BY <1>1, RowedIs
<1>3. InARow(state) = F[n]
  BY DEF InARow, Rowed, Leads, Adjoined
<1> HIDE DEF F, n
<1>4. F[0] = {} /\ \A i \in 1..n : F[i] = F[i - 1] \cup {Adjoined(state, F[i - 1], mons[i])}
  <2>1. F = [i \in 0..n |-> IF i = 0 THEN {}
                            ELSE F[i - 1] \cup {Adjoined(state, F[i - 1], mons[i])}]
    BY <1>2 DEF Rowed
  <2>2. 0 \in 0..n /\ \A i \in 1..n : i \in 0..n /\ i # 0
    BY <1>1
  <2> QED
    BY <2>1, <2>2
<1> DEFINE Fine(i) ==
              /\ ConfigOK(state, F[i])
              /\ \A lc \in F[i] : \A m \in lc.monitors : \E j \in 1..i : m.name = mons[j].name
           Good == {i \in Nat : i <= n => Fine(i)}
<1>5. 0 \in Good
  <2>1. ConfigOK(state, {})
    BY FS_EmptySet DEF ConfigOK, Once1
  <2> QED
    BY <1>4, <2>1
<1>6. ASSUME NEW k \in Good \cap Nat PROVE k + 1 \in Good
  <2> SUFFICES ASSUME k + 1 <= n PROVE Fine(k + 1)
    OBVIOUS
  <2> DEFINE i == k + 1
             p == F[k]
             s == Adjoined(state, p, mons[i])
             edge == PlacedEdge(state, p)
             leads == mons[i].name = Leads(state)
  <2>1. i \in 1..n /\ k <= n /\ i - 1 = k
    BY <1>1
  <2>2. Fine(k)
    BY <2>1
  <2>3. F[i] = p \cup {s}
    BY <1>4, <2>1
  <2>4. ConfigOK(state, p)
    BY <2>2
  <2>5. edge \in Int /\ leads \in BOOLEAN
    BY <2>4, EdgeIs
  <2>6. s = Single(state, mons[i], edge, leads)
    BY DEF Adjoined
  <2>7. s \in Part(state) /\ \E m : s.monitors = {m} /\ m.name = mons[i].name
    <3>1. i \in DOMAIN state.monitors
      BY <1>1, <2>1
    <3>2. s = Single(state, state.monitors[i], edge, leads)
      BY <2>6
    <3> HIDE DEF edge, leads, s, i, mons
    <3>3. \A x \in Int, b \in BOOLEAN :
             LET lc == Single(state, state.monitors[i], x, b) IN
             lc \in Part(state) /\ \E m : lc.monitors = {m} /\ m.name = state.monitors[i].name
      BY <3>1, SingleIs
    <3>4. s \in Part(state) /\ \E m : s.monitors = {m} /\ m.name = state.monitors[i].name
      BY <2>5, <3>2, <3>3
    <3> QED
      BY <3>4 DEF mons
  <2>8. PICK m : s.monitors = {m} /\ m.name = mons[i].name
    BY <2>7
  <2>9. \A lc \in p : \A x \in lc.monitors : x.name # m.name
    <3> SUFFICES ASSUME NEW lc \in p, NEW x \in lc.monitors, x.name = mons[i].name PROVE FALSE
      BY <2>8
    <3>1. PICK j \in 1..k : x.name = mons[j].name
      BY <2>2
    <3>2. j \in 1..n /\ j # i
      BY <1>1, <2>1, <3>1
    <3> QED
      BY <1>1, <2>1, <3>1, <3>2 DEF Sound, MonitorsOK
  <2> HIDE DEF s, p
  <2>10. ConfigOK(state, p \cup {s})
    BY <2>4, <2>7, <2>8, <2>9, Beside
  <2>11. \A lc \in F[i] : \A x \in lc.monitors : \E j \in 1..i : x.name = mons[j].name
    <3> SUFFICES ASSUME NEW lc \in F[i], NEW x \in lc.monitors
                 PROVE  \E j \in 1..i : x.name = mons[j].name
      OBVIOUS
    <3>1. CASE lc = s
      <4>1. i \in 1..i
        BY <2>1
      <4> QED
        BY <2>8, <3>1, <4>1
    <3>2. CASE lc \in F[k]
      <4>1. PICK j \in 1..k : x.name = mons[j].name
        BY <2>2, <3>2
      <4>2. j \in 1..i
        BY <4>1
      <4> QED
        BY <4>1, <4>2
    <3> QED
      BY <2>3, <3>1, <3>2 DEF p
  <2> QED
    BY <2>3, <2>10, <2>11
<1> HIDE DEF Good
<1>7. \A i \in Nat : i \in Good
  BY <1>5, <1>6, AllNat
<1>8. \A i \in 0..n : ConfigOK(state, F[i])
  BY <1>1, <1>7 DEF Good
<1> QED
  BY <1>2, <1>3, <1>8 DEF n

LEMMA RowIs ==
    ASSUME NEW state, Sound(state)
    PROVE  ConfigOK(state, InARow(state))
<1>1. PICK f : /\ InARow(state) = f[Len(state.monitors)]
               /\ \A i \in 0..Len(state.monitors) : ConfigOK(state, f[i])
  BY RowSteps
<1>2. Len(state.monitors) \in 0..Len(state.monitors)
  BY StateHas
<1> QED
  BY <1>1, <1>2

(* A configuration of which each part is changed but for whose it is.      *)
LEMMA MappedIs ==
    ASSUME NEW state, NEW config, ConfigOK(state, config), NEW g, DOMAIN g = config,
           \A lc \in config :
               /\ g[lc] \in Part(state)
               /\ \A m \in g[lc].monitors : \E s \in lc.monitors : s.name = m.name
               /\ \A m, k \in g[lc].monitors : m.name = k.name => m = k
    PROVE  ConfigOK(state, {g[lc] : lc \in config})
<1> DEFINE G == {g[lc] : lc \in config}
<1>1. IsFiniteSet(G)
  BY ImageFinite DEF ConfigOK
<1>2. G \subseteq Part(state)
  OBVIOUS
<1>3. Once1(G)
  <2> SUFFICES ASSUME NEW a \in config, NEW b \in config, NEW m \in g[a].monitors,
                      NEW k \in g[b].monitors, m.name = k.name
               PROVE  g[a] = g[b] /\ m = k
    BY DEF Once1
  <2>1. PICK s \in a.monitors : s.name = m.name
    OBVIOUS
  <2>2. PICK t \in b.monitors : t.name = k.name
    OBVIOUS
  <2>3. a = b
    BY <2>1, <2>2 DEF ConfigOK, Once1
  <2> QED
    BY <2>3
<1> QED
  BY <1>1, <1>2, <1>3 DEF ConfigOK

LEMMA SomeOf ==
    ASSUME NEW state, NEW config, ConfigOK(state, config), NEW some, some \subseteq config
    PROVE  ConfigOK(state, some)
<1>1. IsFiniteSet(some)
  BY FS_Subset DEF ConfigOK
<1> QED
  BY <1>1 DEF ConfigOK, Once1

Coloured(m, color) == [m EXCEPT !.color = IF @ = None THEN None ELSE color]

LEMMA ColouredIs ==
    ASSUME NEW state, NEW m \in Showing(state), NEW color \in Color
    PROVE  Coloured(m, color) \in Showing(state) /\ Coloured(m, color).name = m.name
<1> DEFINE c == IF m.color = None THEN None ELSE color
<1>1. c \in Color \cup {None}
  OBVIOUS
<1>2. Coloured(m, color) = [m EXCEPT !.color = c]
  BY DEF Coloured
<1> HIDE DEF c
<1>3. Coloured(m, color) = [name |-> m.name, mode |-> m.mode, color |-> c]
  BY <1>2 DEF Showing
<1> QED
  BY <1>1, <1>3 DEF Showing

LEMMA ChangedIs ==
    ASSUME NEW state, Sound(state), NEW config \in Changed(state)
    PROVE  ConfigOK(state, config)
<1> DEFINE now == AsIs(state)
<1>1. ConfigOK(state, now)
  BY UntouchedIs DEF AsIs
<1> HIDE DEF now
<1>2. ASSUME NEW lc \in now
      PROVE  /\ lc \in Part(state) /\ IsPart(lc)
             /\ \A m, k \in lc.monitors : m.name = k.name => m = k
  BY <1>1 DEF ConfigOK, Once1, Part, IsPart
<1>3. ASSUME NEW main \in now, config = {[lc EXCEPT !.primary = lc = main] : lc \in now}
      PROVE  ConfigOK(state, config)
  <2> DEFINE g == [lc \in now |-> [lc EXCEPT !.primary = lc = main]]
  <2>1. ASSUME NEW lc \in now
        PROVE  g[lc] \in Part(state) /\ g[lc].monitors = lc.monitors
    <3> DEFINE p == lc = main
    <3>1. p \in BOOLEAN /\ g[lc] = [lc EXCEPT !.primary = p]
      OBVIOUS
    <3> HIDE DEF p, g
    <3>2. g[lc] = [x |-> lc.x, y |-> lc.y, scale |-> lc.scale, transform |-> lc.transform,
                   primary |-> p, monitors |-> lc.monitors]
      BY <1>2, <3>1 DEF IsPart
    <3> QED
      BY <1>2, <3>1, <3>2 DEF Part
  <2>2. DOMAIN g = now /\ config = {g[lc] : lc \in now}
    BY <1>3
  <2> HIDE DEF g
  <2>3. \A lc \in now :
           /\ g[lc] \in Part(state)
           /\ \A m \in g[lc].monitors : \E s \in lc.monitors : s.name = m.name
           /\ \A m, k \in g[lc].monitors : m.name = k.name => m = k
    BY <1>2, <2>1
  <2> QED
    BY <1>1, <2>2, <2>3, MappedIs
<1>4. ASSUME NEW color \in {"sdr", "hdr"},
             config = {[lc EXCEPT !.monitors = {Coloured(m, color) : m \in @}] : lc \in now}
      PROVE  ConfigOK(state, config)
  <2> DEFINE g == [lc \in now |-> [lc EXCEPT !.monitors = {Coloured(m, color) : m \in @}]]
  <2>1. ASSUME NEW lc \in now
        PROVE  g[lc] \in Part(state) /\ g[lc].monitors = {Coloured(m, color) : m \in lc.monitors}
    <3> DEFINE p == {Coloured(m, color) : m \in lc.monitors}
    <3>1. g[lc] = [lc EXCEPT !.monitors = p]
      OBVIOUS
    <3>2. lc.monitors \subseteq Showing(state) /\ lc.monitors # {}
      BY <1>2 DEF Part
    <3>3. color \in Color
      BY DEF Color
    <3>4. p \in (SUBSET Showing(state)) \ {{}}
      BY <3>2, <3>3, ColouredIs
    <3> HIDE DEF p, g
    <3>5. g[lc] = [x |-> lc.x, y |-> lc.y, scale |-> lc.scale, transform |-> lc.transform,
                   primary |-> lc.primary, monitors |-> p]
      BY <1>2, <3>1, Relabelled
    <3>6. g[lc] \in Part(state) /\ g[lc].monitors = p
      BY <1>2, <3>4, <3>5 DEF Part
    <3> QED
      BY <3>6 DEF p
  <2>2. DOMAIN g = now /\ config = {g[lc] : lc \in now}
    BY <1>4
  <2> HIDE DEF g
  <2>3. \A lc \in now : \A m \in lc.monitors : Coloured(m, color).name = m.name
    <3>1. color \in Color
      BY DEF Color
    <3>2. \A lc \in now : lc.monitors \subseteq Showing(state)
      BY <1>2 DEF Part
    <3> QED
      BY <3>1, <3>2, ColouredIs
  <2>4. ASSUME NEW lc \in now
        PROVE  /\ g[lc] \in Part(state)
               /\ \A m \in g[lc].monitors : \E s \in lc.monitors : s.name = m.name
               /\ \A m, k \in g[lc].monitors : m.name = k.name => m = k
    BY <1>2, <2>1, <2>3
  <2> QED
    BY <1>1, <2>2, <2>4, MappedIs
<1>5. ASSUME NEW lc \in now, now # {lc}, config = Anchored(now \ {lc})
      PROVE  ConfigOK(state, config)
  <2>1. now \ {lc} \subseteq now /\ now \ {lc} # {}
    BY <1>5
  <2>2. ConfigOK(state, now \ {lc})
    BY <1>1, <2>1, SomeOf
  <2> QED
    BY <1>5, <2>1, <2>2, AnchoredIs
<1>6. \/ \E main \in now : config = {[lc EXCEPT !.primary = lc = main] : lc \in now}
      \/ \E color \in {"sdr", "hdr"} :
            config = {[lc EXCEPT !.monitors = {Coloured(m, color) : m \in @}] : lc \in now}
      \/ \E lc \in now : now # {lc} /\ config = Anchored(now \ {lc})
      \/ config = InARow(state)
  BY DEF Changed, Coloured, now
<1> QED
  BY <1>3, <1>4, <1>5, <1>6, RowIs

-----------------------------------------------------------------------------
(* Snapshots.                                                              *)
HeadOK(h) == EnableOK(h) /\ h.mode \in Mode \cup {None}
SnapOK(snap) == IsSeq(snap.heads) /\ \A h \in ToSet(snap.heads) : HeadOK(h)

LEMMA ToSetFinite ==
    ASSUME NEW s, IsSeq(s)
    PROVE  IsFiniteSet(ToSet(s))
<1>1. DOMAIN s = 1..Len(s) /\ Len(s) \in Nat
  BY SeqHas
<1>2. IsFiniteSet(DOMAIN s)
  BY <1>1, FS_Interval
<1>3. IsFiniteSet({s[i] : i \in DOMAIN s})
  BY <1>2, ImageFinite
<1> QED
  BY <1>3 DEF ToSet

LEMMA EmptyIs == SnapOK(EmptySnapshot)
BY Nothing DEF SnapOK, EmptySnapshot, ToSet

LEMMA SnapshotIs ==
    ASSUME NEW state, Sound(state)
    PROVE  /\ SnapOK(SnapshotOf(state))
           /\ Names(SnapshotOf(state).heads) = Names(state.monitors)
<1> DEFINE mons == state.monitors
           n == Len(mons)
           heads == [i \in DOMAIN mons |-> HeadOf(state, mons[i])]
<1>1. DOMAIN mons = 1..n /\ n \in Nat /\ \A i \in 1..n : mons[i] \in Monitor
  BY StateHas
<1>2. SnapshotOf(state).heads = heads
  BY DEF SnapshotOf
<1>3. IsSeq(heads)
  <2>1. DOMAIN heads = 1..n /\ heads = [i \in 1..n |-> heads[i]]
    BY <1>1
  <2> HIDE DEF heads
  <2> QED
    BY <1>1, <2>1, FunIsSeq
<1>4. ASSUME NEW i \in 1..n PROVE HeadOK(heads[i]) /\ heads[i].name = mons[i].name
  <2> DEFINE lm == LogicalOf(state, mons[i].name)
             h == heads[i]
  <2>1. /\ h.name = mons[i].name /\ h.mode = mons[i].current /\ h.color = mons[i].color
        /\ h.position = (IF lm = None THEN None ELSE <<lm.x, lm.y>>)
        /\ h.scale = Of(lm, "scale") /\ h.transform = Of(lm, "transform")
    BY <1>1 DEF HeadOf
  <2>2. lm = None \/ lm \in Logical
    BY LogicalFields
  <2>3. mons[i] \in Monitor
    BY <1>1
  <2> HIDE DEF lm, h
  <2>4. h.position \in (Int \X Int) \cup {None}
    BY <2>1, <2>2 DEF Logical
  <2>5. h.scale \in (Nat \ {0}) \cup {None} /\ h.transform \in (0..7) \cup {None}
    BY <2>1, <2>2 DEF Logical, Of
  <2>6. h.color \in Color \cup {None} /\ h.mode \in Mode \cup {None}
    BY <2>1, <2>3 DEF Monitor
  <2>7. HeadOK(h)
    BY <2>4, <2>5, <2>6 DEF HeadOK, EnableOK
  <2> QED
    BY <2>1, <2>7 DEF h
<1>5. DOMAIN heads = 1..n
  BY <1>1
<1> HIDE DEF heads
<1>6. \A h \in ToSet(heads) : HeadOK(h)
  BY <1>4, <1>5 DEF ToSet
<1>7. Names(heads) = Names(mons)
  BY <1>1, <1>4, <1>5 DEF Names
<1> QED
  BY <1>2, <1>3, <1>6, <1>7 DEF SnapOK

LEMMA ShownIs ==
    ASSUME NEW snap, SnapOK(snap)
    PROVE  /\ IsSeq(Shown(snap))
           /\ \A h \in ToSet(Shown(snap)) : /\ h \in ToSet(snap.heads) /\ HeadOK(h)
                                            /\ h.mode # None /\ h.position # None
<1>1. IsSeq(snap.heads)
  BY DEF SnapOK
<1>2. /\ IsSeq(Shown(snap))
      /\ ToSet(Shown(snap)) = ToSet(snap.heads) \cap
             {h \in ToSet(snap.heads) : h.enabled /\ h.mode # None /\ h.position # None}
  BY <1>1, OnlySet DEF Shown
<1> QED
  BY <1>2 DEF SnapOK

LEMMA RightEdgeIs ==
    ASSUME NEW snap, SnapOK(snap)
    PROVE  RightEdge(snap) \in Int
<1> DEFINE Edge(h) == h.position[1] + Scaled(Across(h.mode, h.transform),
                                             ScaleIn(snap.physical, Or(h.scale, 100)))
           S == ToSet(Shown(snap))
           E == {Edge(h) : h \in S}
           f == [h \in S |-> Edge(h)]
<1>1. RightEdge(snap) = RightOf(E)
  BY DEF RightEdge
<1>2. ASSUME NEW h \in S PROVE Edge(h) \in Int
  <2>1. h.mode \in Mode /\ h.position \in Int \X Int /\ h.scale \in (Nat \ {0}) \cup {None}
    BY ShownIs DEF HeadOK, EnableOK
  <2>2. Across(h.mode, h.transform) \in Int
    BY <2>1 DEF Across, Mode
  <2>3. ScaleIn(snap.physical, Or(h.scale, 100)) \in Nat \ {0}
    BY <2>1 DEF ScaleIn, Or
  <2>4. Scaled(Across(h.mode, h.transform), ScaleIn(snap.physical, Or(h.scale, 100))) \in Int
    BY <2>2, <2>3, ScaledIs
  <2>5. h.position[1] \in Int
    BY <2>1
  <2> QED
    BY <2>4, <2>5
<1>3. IsFiniteSet(E)
  <2>1. IsFiniteSet(S)
    BY ShownIs, ToSetFinite
  <2>2. IsFiniteSet({f[x] : x \in DOMAIN f})
    BY <2>1, ImageFinite
  <2>3. {f[x] : x \in DOMAIN f} = E
    OBVIOUS
  <2> QED
    BY <2>2, <2>3
<1>4. E \subseteq Int
  BY <1>2
<1> HIDE DEF E
<1>5. E # {} => Max(E) \in Int
  BY <1>3, <1>4, MaxIs
<1> QED
  BY <1>1, <1>5 DEF RightOf

LEMMA HeadIs ==
    ASSUME NEW snap, IsSeq(snap.heads), NEW n
    PROVE  HeadNamed(snap, n) = None \/ HeadNamed(snap, n) \in ToSet(snap.heads)
<1> DEFINE s == snap.heads
           I == {i \in 1..Len(s) : s[i].name = n}
<1>1. HeadNamed(snap, n) = IF I = {} THEN None ELSE IF Min(I) = 0 THEN None ELSE s[Min(I)]
  BY SMT DEF HeadNamed, FirstOf, SelectInSeq
<1>2. Len(s) \in Nat /\ DOMAIN s = 1..Len(s)
  BY SeqHas
<1>3. I # {} => Min(I) \in I
  BY <1>2, LeastIndex
<1>4. I # {} => s[Min(I)] \in ToSet(s)
  BY <1>2, <1>3 DEF ToSet
<1> HIDE DEF I
<1> QED
  BY <1>1, <1>4

-----------------------------------------------------------------------------
(* The builder's plans enable each output once.                            *)
Built(plan) ==
    plan = None \/ ("enables" \in DOMAIN plan /\ EnablesOK(plan.enables))

LEMMA EnableAllIs ==
    ASSUME NEW items, IsSeq(items), \A i \in 1..Len(items) : EnableOK(items[i])
    PROVE  Built(EnableAll(NewPlan, items))
<1> DEFINE b == EnableAll(NewPlan, items)
<1> SUFFICES ASSUME b # None PROVE "enables" \in DOMAIN b /\ EnablesOK(b.enables)
  BY DEF Built
<1>1. DOMAIN items = 1..Len(items) /\ Len(items) \in Nat
  BY SeqHas
<1>2. /\ b = [NewPlan EXCEPT !.enables = @ \o items]
      /\ ~\E i, j \in DOMAIN items : i # j /\ items[i].name = items[j].name
  BY DEF EnableAll
<1>3. << >> \o items = items
  <2>1. IsSeq(<< >>) /\ Len(<< >>) = 0
    BY Nothing
  <2>2. /\ IsSeq(<< >> \o items) /\ Len(<< >> \o items) = Len(<< >>) + Len(items)
        /\ \A i \in 1..Len(items) : (<< >> \o items)[Len(<< >>) + i] = items[i]
    BY <2>1, Joined
  <2> DEFINE t == << >> \o items
  <2>3. IsSeq(t) /\ Len(t) = Len(items) /\ \A i \in 1..Len(items) : t[i] = items[i]
    BY <1>1, <2>1, <2>2
  <2> HIDE DEF t
  <2>4. t = items
    BY <2>3, SameSeq
  <2> QED
    BY <2>4 DEF t
<1>4. b.enables = items /\ "enables" \in DOMAIN b
  BY <1>2, <1>3 DEF NewPlan
<1>5. \A e \in ToSet(items) : EnableOK(e)
  BY <1>1 DEF ToSet
<1> QED
  BY <1>1, <1>2, <1>4, <1>5 DEF EnablesOK

LEMMA BuilderKeeps ==
    ASSUME NEW b, Built(b)
    PROVE  /\ \A names : Built(DisableAll(b, names))
           /\ \A n : Built(SetPrimary(b, n))
BY DEF Built, DisableAll, SetPrimary

ScaleOK(scale) == scale \in (Nat \ {0}) \cup {None}

LEMMA ActiveIs ==
    ASSUME NEW snap, SnapOK(snap)
    PROVE  /\ IsSeq(ActiveEnables(snap))
           /\ \A e \in ToSet(ActiveEnables(snap)) : EnableOK(e)
<1> DEFINE s == Shown(snap)
           n == Len(s)
           a == ActiveEnables(snap)
<1>1. IsSeq(s) /\ DOMAIN s = 1..n /\ n \in Nat
  BY ShownIs, SeqHas
<1>2. a = [i \in 1..n |-> AsEnabled(s[i])]
  BY <1>1 DEF ActiveEnables
<1> HIDE DEF s, n, a
<1>3. DOMAIN a = 1..n /\ a = [i \in 1..n |-> a[i]]
  BY <1>2
<1>4. IsSeq(a) /\ Len(a) = n
  BY <1>1, <1>3, FunIsSeq
<1>5. ASSUME NEW i \in 1..n PROVE EnableOK(a[i])
  <2>1. s[i] \in ToSet(s)
    BY <1>1 DEF ToSet
  <2>2. HeadOK(s[i])
    BY <2>1, ShownIs DEF s
  <2>3. a[i] = AsEnabled(s[i])
    BY <1>2
  <2> QED
    BY <2>2, <2>3 DEF AsEnabled, HeadOK, EnableOK
<1>6. \A e \in ToSet(a) : EnableOK(e)
  BY <1>3, <1>5 DEF ToSet
<1> QED
  BY <1>4, <1>6 DEF a

LEMMA AsEnableIs ==
    ASSUME NEW req, ScaleOK(req.scale), NEW n, NEW position, position \in Int \X Int
    PROVE  EnableOK(AsEnable(req, n, position))
<1> DEFINE e == AsEnable(req, n, position)
<1>1. /\ e.position = position /\ e.scale = req.scale /\ e.transform = None
      /\ e.color \in {"hdr", "sdr"}
  BY DEF AsEnable
<1> HIDE DEF e
<1> QED
  BY <1>1 DEF EnableOK, ScaleOK, Color, e

LEMMA PlusOne ==
    ASSUME NEW items, IsSeq(items), \A e \in ToSet(items) : EnableOK(e), NEW x, EnableOK(x)
    PROVE  Built(EnableAll(NewPlan, Append(items, x)))
<1> DEFINE t == Append(items, x)
<1>1. IsSeq(t) /\ Len(t) = Len(items) + 1 /\ t[Len(items) + 1] = x
      /\ \A i \in 1..Len(items) : t[i] = items[i]
  BY Adds
<1>2. Len(items) \in Nat /\ DOMAIN items = 1..Len(items)
  BY SeqHas
<1>3. \A i \in 1..Len(items) : EnableOK(items[i])
  BY <1>2 DEF ToSet
<1> HIDE DEF t
<1>4. \A i \in 1..Len(t) : i \in 1..Len(items) \/ i = Len(items) + 1
  BY <1>1, <1>2
<1>5. \A i \in 1..Len(t) : EnableOK(t[i])
  BY <1>1, <1>3, <1>4
<1>6. Built(EnableAll(NewPlan, t))
  BY <1>1, <1>5, EnableAllIs
<1> QED
  BY <1>6 DEF t

LEMMA PlacePlanIs ==
    ASSUME NEW req, ScaleOK(req.scale), NEW pre, SnapOK(pre), NEW n
    PROVE  Built(PlacePlan(req, pre, n))
<1>1. AppendedAt(pre) \in Int \X Int
  BY RightEdgeIs DEF AppendedAt
<1>2. EnableOK(AsEnable(req, n, AppendedAt(pre)))
  BY <1>1, AsEnableIs
<1> QED
  BY <1>2, ActiveIs, PlusOne DEF PlacePlan

LEMMA LayoutPlanIs ==
    ASSUME NEW req, ScaleOK(req.scale), NEW pre, SnapOK(pre), NEW n, NEW real
    PROVE  Built(LayoutPlan(req, pre, n, real))
<1> DEFINE off == DisabledBy(req, real)
           active == ActiveEnables(pre)
           E == {e \in ToSet(active) : e.name \notin off}
           kept == Only(active, E)
           x == AsEnable(req, n, Position(req, pre, real))
           b == EnableAll(NewPlan, Append(kept, x))
           c == DisableAll(b, off)
<1>1. Position(req, pre, real) \in Int \X Int
  BY RightEdgeIs DEF AppendedAt, Position
<1>2. EnableOK(x)
  BY <1>1, AsEnableIs
<1>3. IsSeq(kept) /\ \A e \in ToSet(kept) : EnableOK(e)
  BY ActiveIs, OnlySet
<1>4. LayoutPlan(req, pre, n, real) = IF req.primary THEN SetPrimary(c, n) ELSE c
  BY DEF LayoutPlan
<1> HIDE DEF off, kept, x
<1>5. Built(b)
  BY <1>2, <1>3, PlusOne
<1> HIDE DEF b
<1>6. Built(c)
  BY <1>5, BuilderKeeps
<1> HIDE DEF c
<1>7. Built(SetPrimary(c, n))
  BY <1>6, BuilderKeeps
<1> QED
  BY <1>4, <1>6, <1>7

(* The outputs `up` takes for real ones.                                   *)
LEMMA RealIs ==
    ASSUME NEW pre, IsSeq(pre.heads), NEW owned
    PROVE  LET real == RealOutputs(pre, owned) IN
           ToSet(real) \subseteq Names(pre.heads) /\ (real # << >> => real[1] \in Names(pre.heads))
<1> DEFINE H == {h \in ToSet(pre.heads) : h.enabled /\ h.name \notin owned}
           s == Only(pre.heads, H)
           n == Len(s)
           real == RealOutputs(pre, owned)
<1>1. IsSeq(s) /\ ToSet(s) = ToSet(pre.heads) \cap H
  BY OnlySet
<1>2. real = [i \in DOMAIN s |-> s[i].name]
  BY DEF RealOutputs
<1> HIDE DEF s, n, real
<1>3. DOMAIN s = 1..n /\ n \in Nat
  BY <1>1, SeqHas DEF n
<1>4. ASSUME NEW i \in 1..n PROVE real[i] \in Names(pre.heads)
  <2>1. s[i] \in ToSet(pre.heads)
    BY <1>1, <1>3 DEF ToSet
  <2>2. PICK j \in 1..Len(pre.heads) : pre.heads[j] = s[i]
    BY <2>1, ToSetIs
  <2>3. j \in DOMAIN pre.heads
    BY SeqHas
  <2> QED
    BY <1>2, <1>3, <2>2, <2>3 DEF Names
<1>5. DOMAIN real = 1..n /\ real = [i \in 1..n |-> real[i]]
  BY <1>2, <1>3
<1>6. IsSeq(real) /\ Len(real) = n
  BY <1>3, <1>5, FunIsSeq
<1>7. ToSet(real) \subseteq Names(pre.heads)
  BY <1>4, <1>5 DEF ToSet
<1>8. n = 0 => real = << >>
  BY <1>6, EmptySeq
<1>9. n # 0 => 1 \in 1..n
  BY <1>3
<1> QED
  BY <1>4, <1>7, <1>8, <1>9 DEF real

-----------------------------------------------------------------------------
(* The plan of `down`.                                                     *)
LEMMA SavedIs ==
    ASSUME NEW rs, IsSeq(rs)
    PROVE  LET saved == Of(FirstOf(rs, LAMBDA r : r.snap # None), "snap") IN
           saved = None \/ \E i \in DOMAIN rs : saved = rs[i].snap
<1> DEFINE I == {i \in 1..Len(rs) : rs[i].snap # None}
<1>1. FirstOf(rs, LAMBDA r : r.snap # None) =
          IF I = {} THEN None ELSE IF Min(I) = 0 THEN None ELSE rs[Min(I)]
  BY SMT DEF FirstOf, SelectInSeq
<1>2. Len(rs) \in Nat /\ DOMAIN rs = 1..Len(rs)
  BY SeqHas
<1>3. I # {} => Min(I) \in I
  BY <1>2, LeastIndex
<1>4. I # {} => Min(I) \in DOMAIN rs
  BY <1>2, <1>3
<1> HIDE DEF I
<1>5. FirstOf(rs, LAMBDA r : r.snap # None) = None
         \/ \E i \in DOMAIN rs : FirstOf(rs, LAMBDA r : r.snap # None) = rs[i]
  BY <1>1, <1>4
<1> QED
  BY <1>5 DEF Of

SavedOK(snap) == snap = None \/ SnapOK(snap)

LEMMA ReenableIs ==
    ASSUME NEW n, NEW saved, NEW live, SavedOK(saved), SavedOK(live)
    PROVE  EnableOK(Reenable(n, saved, live))
<1> DEFINE was == IF saved = None THEN None ELSE HeadNamed(saved, n)
           is == IF live = None THEN None ELSE HeadNamed(live, n)
           e == Reenable(n, saved, live)
<1>1. was = None \/ HeadOK(was)
  <2>1. CASE saved = None
    BY <2>1
  <2>2. CASE saved # None
    <3>1. SnapOK(saved)
      BY <2>2 DEF SavedOK
    <3> QED
      BY <2>2, <3>1, HeadIs DEF SnapOK
  <2> QED
    BY <2>1, <2>2
<1>2. is = None \/ HeadOK(is)
  <2>1. CASE live = None
    BY <2>1
  <2>2. CASE live # None
    <3>1. SnapOK(live)
      BY <2>2 DEF SavedOK
    <3> QED
      BY <2>2, <3>1, HeadIs DEF SnapOK
  <2> QED
    BY <2>1, <2>2
<1>3. /\ e.position = Or(Of(was, "position"), Of(is, "position"))
      /\ e.scale = Or(Of(was, "scale"), Of(is, "scale"))
      /\ e.transform = Or(Of(was, "transform"), Of(is, "transform"))
      /\ e.color = Of(was, "color")
  BY DEF Reenable
<1> HIDE DEF was, is, e
<1>4. EnableOK(e)
  BY <1>1, <1>2, <1>3 DEF HeadOK, EnableOK, Or, Of
<1> QED
  BY <1>4 DEF e

LEMMA RestorePlanIs ==
    ASSUME NEW rs, IsSeq(rs), \A i \in DOMAIN rs : SnapOK(rs[i].snap),
           NEW live, SnapOK(live), NEW S, IsFiniteSet(S), NEW order \in SetToSeqs(S)
    PROVE  Built(RestorePlan(rs, live, order))
<1> DEFINE saved == Of(FirstOf(rs, LAMBDA r : r.snap # None), "snap")
           n == Cardinality(S)
           items == [i \in DOMAIN order |-> Reenable(order[i], saved, live)]
           b == EnableAll(NewPlan, items)
           c == DisableAll(b, ToDisable(rs))
           p == RecordedPrimary(rs)
<1>1. SavedOK(saved)
  <2>1. saved = None \/ \E i \in DOMAIN rs : saved = rs[i].snap
    BY SavedIs
  <2> HIDE DEF saved
  <2> QED
    BY <2>1 DEF SavedOK
<1>2. n \in Nat
  BY FS_CardinalityType
<1>3. DOMAIN order = 1..n
  BY DEF SetToSeqs
<1>4. RestorePlan(rs, live, order) = IF p = None THEN c ELSE SetPrimary(c, p)
  BY DEF RestorePlan
<1> HIDE DEF saved, n, p
<1>5. IsSeq(items) /\ Len(items) = n
  <2>1. DOMAIN items = 1..n /\ items = [i \in 1..n |-> items[i]]
    BY <1>3
  <2> HIDE DEF items
  <2> QED
    BY <1>2, <2>1, FunIsSeq
<1>6. \A i \in 1..Len(items) : EnableOK(items[i])
  <2>1. SavedOK(live)
    BY DEF SavedOK
  <2> QED
    BY <1>1, <1>3, <1>5, <2>1, ReenableIs
<1> HIDE DEF items
<1>7. Built(b)
  BY <1>5, <1>6, EnableAllIs
<1> HIDE DEF b
<1>8. Built(c)
  BY <1>7, BuilderKeeps
<1> HIDE DEF c
<1>9. Built(SetPrimary(c, p))
  BY <1>8, BuilderKeeps
<1> QED
  BY <1>4, <1>8, <1>9

-----------------------------------------------------------------------------
(* Requests, devices, and the monitors they become.                        *)
LEMMA ResolveIs ==
    ASSUME NEW line \in Common \cup Rare, Resolve(line) # None
    PROVE  ScaleOK(Resolve(line).scale) /\ Resolve(line).spec \in Specs
<1> DEFINE options == WithProfile(line.profile, line.options)
           req == Resolve(line)
<1>1. OptionsOK(line.options) /\ (line.profile = None \/ OptionsOK(line.profile))
  BY CommandLines
<1>2. options["scale"] = Or(line.options["scale"], Of(line.profile, "scale"))
  BY DEF WithProfile, Options
<1>3. line.options["scale"] \in Int \cup {None}
  BY <1>1 DEF OptionsOK
<1>4. Of(line.profile, "scale") \in Int \cup {None}
  BY <1>1 DEF OptionsOK, Of
<1>5. options["scale"] \in Int \cup {None}
  BY <1>2, <1>3, <1>4 DEF Or
<1> HIDE DEF options
<1>6. TryFrom(options) # None /\ req = TryFrom(options)
  BY DEF Resolve, options
<1> HIDE DEF req
<1>7. ScaleOK(TryFrom(options).scale)
  <2> DEFINE spec == [width |-> options["width"], height |-> options["height"],
                      hz |-> Or(options["fps"], 60), hdr |-> Or(options["hdr"], FALSE)]
             refused == \/ spec.width = None \/ spec.height = None
                        \/ options["scale"] # None /\ options["scale"] <= 0
                        \/ CvtRbV1(spec) = None
             r == [spec |-> spec, scale |-> options["scale"],
                   primary |-> Or(options["primary"], FALSE),
                   disable |-> Or(options["disable"], FALSE)]
  <2>1. TryFrom(options) = IF refused THEN None ELSE r
    BY DEF TryFrom
  <2>2. ~(options["scale"] # None /\ options["scale"] <= 0) \/ refused
    OBVIOUS
  <2>3. r.scale = options["scale"]
    OBVIOUS
  <2> HIDE DEF refused, r, spec
  <2>4. ~refused /\ TryFrom(options) = r
    BY <1>6, <2>1
  <2> QED
    BY <1>5, <2>2, <2>3, <2>4 DEF ScaleOK
<1>8. ScaleOK(req.scale)
  BY <1>6, <1>7
<1> QED
  BY <1>8 DEF Specs, req

LEMMA ModesAre ==
    ASSUME NEW spec, Build(spec) # None
    PROVE  /\ ModesOf(Build(spec)) \in Seq(Mode) /\ Len(ModesOf(Build(spec))) > 0
           /\ ModesOf(Build(spec))[1] \in Mode
<1> DEFINE e == Build(spec)
           t == CvtRbV1(spec)
           rate == RefreshOf(t)
           main == ModeInfo(t.h_active, t.v_active, rate)
<1>1. e.dtd = t
  BY EdidIsFaithful DEF Faithful
<1>2. Taken(spec) /\ t = Xcvt(spec) /\ Xcvt(spec).clock <= MaxClock
  BY BuiltOf
<1>3. rate \in Nat
  BY <1>2, RefreshBelow
<1>4. t.h_active \in Nat /\ t.v_active \in Nat
  <2>1. Xcvt(spec).h_active \in Nat /\ Xcvt(spec).v_active = spec.height
    BY <1>2, TimingIs
  <2>2. spec.height \in Nat
    BY <1>2, TakenTyped
  <2> QED
    BY <1>2, <2>1, <2>2
<1> HIDE DEF rate, t
<1>8. main \in Mode /\ Vga \in Mode
  BY <1>3, <1>4 DEF ModeInfo, Mode, Vga
<1>9. ModesOf(e) = IF e.hdr THEN <<main, Vga>> ELSE <<main>>
  BY <1>1 DEF ModesOf, rate
<1> HIDE DEF main, e
<1> QED
  BY <1>8, <1>9 DEF e

LEMMA DeviceIs ==
    ASSUME NEW d \in Device
    PROVE  /\ Build(d.spec) # None /\ d.edid = Build(d.spec) /\ d.spec \in Specs
           /\ d # None /\ [d EXCEPT !.plugged = FALSE] \in Device
<1>1. PICK spec \in Specs : /\ Build(spec) # None
                            /\ d \in [plugged : BOOLEAN, edid : {Build(spec)}, spec : {spec}]
  BY DEF Device
<1> DEFINE edid == Build(spec)
           off == FALSE
           S == [plugged : BOOLEAN, edid : {edid}, spec : {spec}]
<1>2. off \in BOOLEAN /\ S \subseteq Device
  BY <1>1 DEF Device
<1>3. edid # None /\ d \in S
  BY <1>1
<1> HIDE DEF edid, off, S
<1>4. d.spec = spec /\ d.edid = edid
  BY <1>3 DEF S
<1>5. [d EXCEPT !.plugged = off] \in S
  BY <1>2, <1>3 DEF S
<1>6. d \in Device /\ [d EXCEPT !.plugged = off] \in Device
  BY <1>2, <1>3, <1>5
<1>7. d # None
  BY <1>6, NoneIsNothing
<1> QED
  BY <1>3, <1>4, <1>6, <1>7 DEF edid, off

LEMMA NewDevice ==
    ASSUME NEW spec \in Specs, Build(spec) # None
    PROVE  [plugged |-> TRUE, edid |-> Build(spec), spec |-> spec] \in Device
<1> DEFINE edid == Build(spec)
           S == [plugged : BOOLEAN, edid : {edid}, spec : {spec}]
<1>1. S \subseteq Device
  BY DEF Device
<1>2. [plugged |-> TRUE, edid |-> edid, spec |-> spec] \in S
  BY SMT
<1> QED
  BY <1>1, <1>2

LEMMA NewMonitorIs ==
    ASSUME NEW c \in Conn, devs[c] \in Device, attribute \in BOOLEAN
    PROVE  LET mon == NewMonitor(c) IN
           /\ mon \in Monitor /\ mon.name = c /\ mon.current = None
           /\ mon.preferred \in ToSet(mon.modes)
<1> DEFINE modes == IF attribute THEN ModesOf(devs[c].edid) ELSE Standard
           mon == NewMonitor(c)
<1>1. Build(devs[c].spec) # None /\ devs[c].edid = Build(devs[c].spec)
  BY DeviceIs
<1>2. Standard \in Seq(Mode) /\ Len(Standard) > 0
  BY DEF Standard, ModeInfo, Mode
<1>3. ModesOf(devs[c].edid) \in Seq(Mode) /\ Len(ModesOf(devs[c].edid)) > 0
  BY <1>1, ModesAre
<1>4. modes \in Seq(Mode) /\ Len(modes) > 0
  BY <1>2, <1>3
<1>5. mon = [name |-> c, modes |-> modes, preferred |-> modes[1], current |-> None,
             color |-> "sdr"]
  BY DEF NewMonitor
<1> HIDE DEF modes, mon
<1>6. modes[1] \in Mode /\ modes[1] \in ToSet(modes)
  <2>1. 1 \in DOMAIN modes
    BY <1>4
  <2> QED
    BY <1>4, <2>1 DEF ToSet
<1>7. c \in Output /\ "sdr" \in Color
  BY DEF Output, Color
<1>8. mon \in Monitor
  BY <1>4, <1>5, <1>6, <1>7 DEF Monitor
<1> QED
  BY <1>5, <1>6, <1>8 DEF mon

-----------------------------------------------------------------------------
(* Mutter finds a monitor, and loses one.                                  *)
LEMMA UntouchedNames ==
    ASSUME NEW plan, NEW state, Sound(state), NEW lc \in Untouched(plan, state),
           NEW m \in lc.monitors
    PROVE  \E lm \in state.logical : m.name \in lm.monitors
<1>1. PICK lm \in state.logical : lc = Carried(plan, state, lm)
  BY DEF Untouched
<1>2. m \in ShownBy(state, lm)
  BY <1>1, CarriedIs
<1> QED
  BY <1>2, ShownByIs

LEMMA FoundIs ==
    ASSUME NEW state, MutterOK(state), NEW mon \in Monitor, mon.current = None,
           mon.preferred \in ToSet(mon.modes), mon.name \notin Names(state.monitors)
    PROVE  LET found == [state EXCEPT !.monitors = Append(@, mon)]
               next == [found EXCEPT !.serial = @ + 1]
           IN /\ MutterOK(found) /\ found.serial = state.serial
              /\ MutterOK(next) /\ next.serial = state.serial + 1
              /\ found.logical = state.logical
              /\ found.monitors[Len(state.monitors) + 1] = mon
              /\ Len(state.monitors) + 1 \in DOMAIN found.monitors
<1> DEFINE old == state.monitors
           mons == Append(old, mon)
           n == Len(old)
           found == [state EXCEPT !.monitors = Append(@, mon)]
           later == state.serial + 1
           next == [found EXCEPT !.serial = later]
<1>1. Sound(state) /\ LitIfLogical(state)
  BY MutterIs
<1>2. state \in StateShape /\ MonitorsOK(old) /\ LogicalsOK(old, state.logical)
      /\ IsFiniteSet(state.logical)
  BY <1>1 DEF Sound
<1>3. DOMAIN old = 1..n /\ n \in Nat /\ IsSeq(old)
  BY <1>1, StateHas
<1>4. mons \in Seq(Monitor)
  BY <1>2 DEF StateShape
<1>5. /\ DOMAIN mons = 1..(n + 1) /\ mons[n + 1] = mon /\ \A i \in 1..n : mons[i] = old[i]
  <2>1. IsSeq(mons) /\ Len(mons) = n + 1 /\ mons[n + 1] = mon /\ \A i \in 1..n : mons[i] = old[i]
    BY <1>3, Adds
  <2> HIDE DEF mons
  <2> QED
    BY <2>1, SeqHas
<1>6. \A i \in 1..(n + 1) : i \in 1..n \/ i = n + 1
  BY <1>3
<1> HIDE DEF mons, later, n
<1>7. found = [serial |-> state.serial, monitors |-> mons, logical |-> state.logical,
               physical |-> state.physical]
  BY <1>2 DEF StateShape, mons
<1>8. next = [serial |-> later, monitors |-> mons, logical |-> state.logical,
              physical |-> state.physical]
  <2> HIDE DEF found
  <2> QED
    BY <1>7
<1>9. later \in Nat /\ state.serial \in Nat
  BY <1>2 DEF StateShape, later
<1>10. found \in StateShape /\ next \in StateShape
  BY <1>2, <1>4, <1>7, <1>8, <1>9 DEF StateShape
<1>11. \A i \in 1..n : old[i].name # mon.name
  BY <1>3 DEF Names
<1>12. MonitorsOK(mons)
  <2> SUFFICES ASSUME NEW i \in 1..(n + 1)
               PROVE  /\ mons[i].preferred \in ToSet(mons[i].modes)
                      /\ mons[i].current \in ToSet(mons[i].modes) \cup {None}
                      /\ \A j \in 1..(n + 1) : mons[j].name = mons[i].name => i = j
    BY <1>5 DEF MonitorsOK
  <2>1. CASE i \in 1..n
    BY <1>2, <1>3, <1>5, <1>6, <1>11, <2>1 DEF MonitorsOK
  <2>2. CASE i = n + 1
    BY <1>2, <1>3, <1>5, <1>6, <1>11, <2>2 DEF MonitorsOK
  <2> QED
    BY <1>6, <2>1, <2>2
<1>13. Names(old) \subseteq Names(mons)
  <2>1. \A i \in 1..n : i \in 1..(n + 1)
    BY <1>3
  <2> QED
    BY <1>3, <1>5, <2>1 DEF Names
<1>14. LogicalsOK(mons, state.logical)
  BY <1>2, <1>13 DEF LogicalsOK
<1>15. \A lm \in state.logical : mon.name \notin lm.monitors
  BY <1>2 DEF LogicalsOK
<1>16. ASSUME NEW i \in 1..(n + 1)
       PROVE  mons[i].current # None
                 <=> \E lm \in state.logical : mons[i].name \in lm.monitors
  <2>1. CASE i \in 1..n
    BY <1>1, <1>3, <1>5, <2>1 DEF LitIfLogical
  <2>2. CASE i = n + 1
    BY <1>5, <1>15, <2>2
  <2> QED
    BY <1>6, <2>1, <2>2
<1>17. MutterOK(found)
  <2>1. LitIfLogical(found)
    BY <1>5, <1>7, <1>16 DEF LitIfLogical
  <2>2. Sound(found)
    BY <1>2, <1>7, <1>10, <1>12, <1>14 DEF Sound
  <2> QED
    BY <2>1, <2>2, MutterIs
<1>18. MutterOK(next)
  <2>1. LitIfLogical(next)
    BY <1>5, <1>8, <1>16 DEF LitIfLogical
  <2>2. Sound(next)
    BY <1>2, <1>8, <1>10, <1>12, <1>14 DEF Sound
  <2> QED
    BY <2>1, <2>2, MutterIs
<1>19. n + 1 \in DOMAIN found.monitors /\ found.monitors[n + 1] = mon
  <2>1. n + 1 \in 1..(n + 1)
    BY <1>3
  <2> QED
    BY <1>5, <1>7, <2>1
<1>20. found.serial = state.serial /\ found.logical = state.logical /\ next.serial = later
  BY <1>7, <1>8
<1>21. next = [found EXCEPT !.serial = @ + 1]
  BY <1>20 DEF later
<1> QED
  BY <1>17, <1>18, <1>19, <1>20, <1>21 DEF later, n

LEMMA RestIs ==
    ASSUME NEW state, MutterOK(state), NEW c
    PROVE  LET rest == [state EXCEPT
                           !.monitors = Only(@, {mon \in ToSet(@) : mon.name # c}),
                           !.logical = {lm \in @ : c \notin lm.monitors}]
           IN Sound(rest) /\ rest.serial = state.serial
<1> DEFINE old == state.monitors
           S == {mon \in ToSet(old) : mon.name # c}
           mons == Only(old, S)
           n == Len(mons)
           logical == {lm \in state.logical : c \notin lm.monitors}
           rest == [state EXCEPT
                       !.monitors = Only(@, {mon \in ToSet(@) : mon.name # c}),
                       !.logical = {lm \in @ : c \notin lm.monitors}]
<1>1. Sound(state)
  BY MutterIs
<1>2. state \in StateShape /\ MonitorsOK(old) /\ LogicalsOK(old, state.logical)
      /\ IsFiniteSet(state.logical)
  BY <1>1 DEF Sound
<1>3. /\ DOMAIN old = 1..Len(old) /\ Len(old) \in Nat /\ IsSeq(old)
      /\ \A i \in 1..Len(old) : old[i] \in Monitor
  BY <1>1, StateHas
<1>4. Once(old)
  BY <1>2, <1>3 DEF Once, MonitorsOK
<1>5. IsSeq(mons) /\ ToSet(mons) = ToSet(old) \cap S /\ Once(mons)
  BY <1>3, <1>4, OnlySet, OnlyOnce
<1> HIDE DEF mons, n
<1>6. DOMAIN mons = 1..n /\ n \in Nat
  BY <1>5, SeqHas DEF n
<1>7. ASSUME NEW i \in 1..n PROVE \E k \in 1..Len(old) : old[k] = mons[i]
  <2>1. mons[i] \in ToSet(old)
    BY <1>5, <1>6 DEF ToSet
  <2> QED
    BY <1>3, <2>1, ToSetIs
<1>8. mons \in Seq(Monitor)
  <2>1. \A i \in 1..n : mons[i] \in Monitor
    BY <1>3, <1>7
  <2>2. mons = [i \in 1..n |-> mons[i]]
    BY <1>5, SeqHas DEF n
  <2> QED
    BY <1>6, <2>1, <2>2
<1>9. MonitorsOK(mons)
  <2> SUFFICES ASSUME NEW i \in 1..n
               PROVE  /\ mons[i].preferred \in ToSet(mons[i].modes)
                      /\ mons[i].current \in ToSet(mons[i].modes) \cup {None}
                      /\ \A j \in 1..n : mons[j].name = mons[i].name => i = j
    BY <1>6 DEF MonitorsOK
  <2>1. PICK k \in 1..Len(old) : old[k] = mons[i]
    BY <1>7
  <2>2. ASSUME NEW j \in 1..n, mons[j].name = mons[i].name PROVE i = j
    <3>1. PICK l \in 1..Len(old) : old[l] = mons[j]
      BY <1>7
    <3>2. k = l
      BY <1>2, <1>3, <2>1, <2>2, <3>1 DEF MonitorsOK
    <3>3. mons[i] = mons[j]
      BY <2>1, <3>1, <3>2
    <3> QED
      BY <1>5, <3>3 DEF Once, n
  <2> QED
    BY <1>2, <1>3, <2>1, <2>2 DEF MonitorsOK
<1>10. ASSUME NEW lm \in logical PROVE lm.monitors \subseteq Names(mons)
  <2> SUFFICES ASSUME NEW x \in lm.monitors PROVE x \in Names(mons)
    OBVIOUS
  <2>1. x \in Names(old) /\ x # c
    BY <1>2 DEF LogicalsOK
  <2>2. PICK k \in DOMAIN old : old[k].name = x
    BY <2>1 DEF Names
  <2>3. old[k] \in ToSet(old) /\ old[k] \in S
    BY <2>1, <2>2 DEF ToSet
  <2>4. old[k] \in ToSet(mons)
    BY <1>5, <2>3
  <2> QED
    BY <2>2, <2>4 DEF ToSet, Names
<1>11. LogicalsOK(mons, logical)
  BY <1>2, <1>10 DEF LogicalsOK
<1>12. IsFiniteSet(logical) /\ logical \subseteq Logical
  <2>1. logical \in SUBSET state.logical
    OBVIOUS
  <2>2. IsFiniteSet(logical)
    BY <1>2, <2>1, FS_Subset
  <2> QED
    BY <1>1, <2>2, StateHas
<1> HIDE DEF logical
<1>13. rest = [serial |-> state.serial, monitors |-> mons, logical |-> logical,
               physical |-> state.physical]
  <2>1. rest = [state EXCEPT !.monitors = mons, !.logical = logical]
    BY DEF mons, logical
  <2> HIDE DEF rest, mons, old
  <2> QED
    BY <1>2, <2>1 DEF StateShape
<1>14. rest \in StateShape
  BY <1>2, <1>8, <1>12, <1>13 DEF StateShape
<1> QED
  BY <1>9, <1>11, <1>12, <1>13, <1>14 DEF Sound

-----------------------------------------------------------------------------
(* The types, and with them what the commands rely on: a request is one    *)
(* that a command line can make, the plan under way is one the builder     *)
(* made, while `up` is at work the newest record is its own, and a serial  *)
(* number stands for one state.                                            *)
Steps == {"idle", "create", "await", "layout", "refresh", "apply", "check", "failed",
          "unplug", "gone", "destroy"}
Fields == {"at", "req", "sess", "pre", "conn", "plan", "phase", "seen", "refusal"}
RecordFields == {"conn", "head", "snap", "disabled", "primary"}

RecOK(r) ==
    /\ DOMAIN r = RecordFields /\ r.conn \in Conn /\ r.head \in {r.conn, None}
    /\ SnapOK(r.snap) /\ r.disabled \subseteq Names(r.snap.heads)
    /\ r.primary \in Names(r.snap.heads) \cup {None}
RecsOK ==
    IsSeq(recs) /\ \A i \in DOMAIN recs : RecOK(recs[i]) /\ devs[recs[i].conn] \in Device

ForUp == me.at \in {"await", "layout"}
            \/ (me.at \in {"refresh", "apply"} /\ me.phase \in {"place", "layout"})
MeOK ==
    /\ DOMAIN me = Fields /\ me.at \in Steps /\ me.conn \in Conn \cup {None}
    /\ me.phase \in {None, "place", "layout", "restore"} /\ SnapOK(me.pre)
    /\ Built(me.plan)
    /\ me.at \in {"refresh", "apply"} =>
          me.plan # None /\ me.phase \in {"place", "layout", "restore"}
    /\ me.at = "create" => Free # {}
    /\ me.at = "create" \/ ForUp => ScaleOK(me.req.scale) /\ me.req.spec \in Specs
    /\ ForUp => /\ recs # << >> /\ me.conn \in Conn
                /\ recs[Len(recs)].conn = me.conn /\ recs[Len(recs)].snap = me.pre
SeenOK ==
    me.at = "apply" => /\ me.seen.serial \in Nat /\ me.seen.serial <= mutter.serial
                       /\ me.seen.serial = mutter.serial => me.seen = mutter

TInv ==
    /\ MutterOK(mutter) /\ attribute \in BOOLEAN
    /\ devs \in [Conn -> Device \cup {None}]
    /\ RecsOK /\ MeOK /\ SeenOK

LEMMA InitTyped == Init => TInv
<1> SUFFICES ASSUME Init PROVE TInv
  OBVIOUS
<1>1. MutterOK(mutter) /\ attribute \in BOOLEAN
  BY DesksAreStates, Bounds DEF Init
<1>2. devs \in [Conn -> Device \cup {None}]
  BY DEF Init
<1>3. RecsOK
  BY Nothing DEF Init, RecsOK
<1>4. me = Idle
  BY DEF Init
<1>5. MeOK
  BY <1>4, EmptyIs DEF MeOK, Idle, Fields, Steps, Built, ForUp
<1>6. SeenOK
  BY <1>4 DEF SeenOK, Idle
<1> QED
  BY <1>1, <1>2, <1>3, <1>5, <1>6 DEF TInv

(* Steps of the commands that leave all else alone, and steps of others.   *)
LEMMA OnlyMe ==
    ASSUME TInv, UNCHANGED <<mutter, attribute, devs, recs>>, MeOK', SeenOK'
    PROVE  TInv'
BY DEF TInv, RecsOK

LEMMA OnlyMutter ==
    ASSUME TInv, UNCHANGED <<attribute, devs, recs, me>>, MutterOK(mutter'),
           mutter'.serial = mutter.serial + 1
    PROVE  TInv'
<1>1. mutter.serial \in Nat
  BY DEF TInv, MutterOK
<1>2. MeOK' /\ RecsOK'
  BY DEF TInv, MeOK, RecsOK, ForUp, Free
<1>3. SeenOK'
  BY <1>1 DEF TInv, SeenOK
<1> QED
  BY <1>2, <1>3 DEF TInv

LEMMA MutterSound == ASSUME TInv PROVE Sound(mutter) /\ mutter.serial \in Nat
BY MutterIs DEF TInv, MutterOK

LEMMA RunUpTyped == ASSUME TInv, RunUp PROVE TInv'
<1>1. PICK line \in Common \cup Rare :
        /\ Resolve(line) # None
        /\ me' = [Idle EXCEPT !.at = "create", !.req = Resolve(line), !.sess = line.sess,
                              !.pre = IF line.sess THEN SnapshotOf(mutter)
                                      ELSE EmptySnapshot]
  BY DEF RunUp
<1> DEFINE req == Resolve(line)
           pre == IF line.sess THEN SnapshotOf(mutter) ELSE EmptySnapshot
<1>2. SnapOK(pre)
  BY MutterSound, SnapshotIs, EmptyIs
<1>3. ScaleOK(req.scale) /\ req.spec \in Specs
  BY <1>1, ResolveIs
<1>4. Free' = Free /\ Free # {}
  BY DEF RunUp, Free
<1> HIDE DEF req, pre
<1>5. /\ DOMAIN me' = Fields /\ me'.at = "create" /\ me'.conn = None /\ me'.phase = None
      /\ me'.plan = None /\ me'.pre = pre /\ me'.req = req
  BY <1>1 DEF Idle, Fields, req, pre
<1>6. MeOK'
  BY <1>2, <1>3, <1>4, <1>5 DEF MeOK, Steps, Built, ForUp
<1>7. SeenOK'
  BY <1>5 DEF SeenOK
<1> QED
  BY <1>6, <1>7, OnlyMe DEF RunUp

LEMMA IdleTyped == ASSUME me' = Idle PROVE MeOK' /\ SeenOK'
<1>1. MeOK'
  BY EmptyIs DEF MeOK, Idle, Fields, Steps, Built, ForUp
<1> QED
  BY <1>1 DEF SeenOK, Idle

LEMMA CreateTyped == ASSUME TInv, Create PROVE TInv'
<1> DEFINE spec == me.req.spec
           c == Min(Free)
           d == [plugged |-> TRUE, edid |-> Build(spec), spec |-> spec]
           r == [conn |-> c, head |-> None, snap |-> me.pre, disabled |-> {}, primary |-> None]
<1>1. UNCHANGED <<mutter, attribute>> /\ me.at = "create"
  BY DEF Create
<1>2. CASE Build(spec) = None
  <2>1. me' = Idle /\ UNCHANGED <<devs, recs>>
    BY <1>2 DEF Create
  <2> QED
    BY <1>1, <2>1, IdleTyped, OnlyMe
<1>3. CASE Build(spec) # None
  <2>1. /\ devs' = [devs EXCEPT ![c] = d] /\ recs' = Append(recs, r)
        /\ me' = IF me.sess THEN [me EXCEPT !.at = "await", !.conn = c] ELSE Idle
    BY <1>3 DEF Create
  <2>2. c \in Conn
    <3>1. Free \in SUBSET Conn /\ Free # {}
      BY <1>1 DEF TInv, MeOK, Free
    <3>2. IsFiniteSet(Free) /\ Free \subseteq Int
      BY <3>1, FS_Subset, Connectors
    <3> QED
      BY <3>1, <3>2, MinIs
  <2>3. spec \in Specs /\ ScaleOK(me.req.scale)
    BY <1>1 DEF TInv, MeOK
  <2>4. d \in Device
    BY <1>3, <2>3, NewDevice
  <2>5. SnapOK(me.pre)
    BY DEF TInv, MeOK
  <2>6. RecOK(r)
    BY <2>2, <2>5 DEF RecOK, RecordFields
  <2>7. r.conn = c /\ r.snap = me.pre
    OBVIOUS
  <2> HIDE DEF c, d, r, spec
  <2>8. /\ devs \in [Conn -> Device \cup {None}]
        /\ IsSeq(recs) /\ \A i \in DOMAIN recs : RecOK(recs[i]) /\ devs[recs[i].conn] \in Device
    BY DEF TInv, RecsOK
  <2>9. devs' \in [Conn -> Device \cup {None}]
    BY <2>1, <2>2, <2>4, <2>8
  <2>10. \A x \in Conn : devs'[x] = IF x = c THEN d ELSE devs[x]
    BY <2>1, <2>2, <2>8
  <2>11. /\ IsSeq(recs') /\ Len(recs') = Len(recs) + 1 /\ recs'[Len(recs) + 1] = r
         /\ \A i \in 1..Len(recs) : recs'[i] = recs[i]
    BY <2>1, <2>8, Adds
  <2>12. DOMAIN recs = 1..Len(recs) /\ Len(recs) \in Nat /\ DOMAIN recs' = 1..Len(recs')
    BY <2>8, <2>11, SeqHas
  <2>13. \A i \in DOMAIN recs' : i \in DOMAIN recs \/ i = Len(recs) + 1
    BY <2>11, <2>12
  <2>14. \A i \in DOMAIN recs : RecOK(recs[i]) /\ recs[i].conn \in Conn
    BY <2>8 DEF RecOK
  <2>15. RecsOK'
    <3> SUFFICES ASSUME NEW i \in DOMAIN recs'
                 PROVE  RecOK(recs'[i]) /\ devs'[recs'[i].conn] \in Device
      BY <2>11 DEF RecsOK
    <3>1. CASE i \in DOMAIN recs
      <4>1. recs'[i] = recs[i]
        BY <2>11, <2>12, <3>1
      <4> QED
        BY <2>4, <2>8, <2>10, <2>14, <3>1, <4>1
    <3>2. CASE i = Len(recs) + 1
      BY <2>2, <2>4, <2>6, <2>7, <2>10, <2>11, <3>2
    <3> QED
      BY <2>13, <3>1, <3>2
  <2>16. MeOK' /\ SeenOK'
    <3>1. CASE me.sess
      <4>1. /\ DOMAIN me' = Fields /\ me'.at = "await" /\ me'.conn = c /\ me'.pre = me.pre
            /\ me'.req = me.req /\ me'.plan = me.plan /\ me'.phase = me.phase
        BY <2>1, <3>1 DEF TInv, MeOK, Fields
      <4>2. recs' # << >>
        <5>1. Len(recs') # 0
          BY <2>11, <2>12
        <5> QED
          BY <5>1, Nothing
      <4>3. recs'[Len(recs')].conn = me'.conn /\ recs'[Len(recs')].snap = me'.pre
        BY <2>7, <2>11, <4>1
      <4>4. MeOK'
        BY <2>2, <2>3, <2>5, <4>1, <4>2, <4>3 DEF TInv, MeOK, Steps, ForUp, spec
      <4> QED
        BY <4>1, <4>4 DEF SeenOK
    <3>2. CASE ~me.sess
      BY <2>1, <3>2, IdleTyped
    <3> QED
      BY <3>1, <3>2
  <2> QED
    BY <1>1, <2>9, <2>15, <2>16 DEF TInv
<1> QED
  BY <1>2, <1>3

(* While `up` is at work its record is the newest.                         *)
LEMMA MineIs ==
    ASSUME TInv, ForUp
    PROVE  /\ Mine = Len(recs) /\ Mine \in DOMAIN recs /\ recs[Mine].conn = me.conn
           /\ recs[Mine].snap = me.pre /\ me.conn \in Conn
<1> DEFINE n == Len(recs)
           S == {i \in DOMAIN recs : recs[i].conn = me.conn}
<1>1. /\ IsSeq(recs) /\ recs # << >> /\ recs[n].conn = me.conn /\ recs[n].snap = me.pre
      /\ me.conn \in Conn
  BY DEF TInv, RecsOK, MeOK
<1>2. DOMAIN recs = 1..n /\ n \in Nat
  BY <1>1, SeqHas
<1>3. n # 0
  BY <1>1, EmptySeq
<1>4. n \in S /\ \A i \in S : i \in Nat /\ i <= n
  BY <1>1, <1>2, <1>3
<1> HIDE DEF n, S
<1>5. Max(S) = n
  <2>1. n \in Nat /\ \A y \in S : n >= y
    BY <1>2, <1>4
  <2>2. \A x \in S : (\A y \in S : x >= y) => x = n
    BY <1>4, <2>1
  <2> QED
    BY <1>4, <2>1, <2>2 DEF Max
<1>6. Mine = n
  BY <1>5 DEF Mine, S
<1> QED
  BY <1>1, <1>4, <1>6 DEF n, S

(* A plan that is to be applied, or not.                                   *)
LEMMA AppliesTyped ==
    ASSUME TInv, NEW plan, Built(plan), NEW phase \in {"place", "layout", "restore"},
           NEW otherwise \in {"failed", "unplug"}, me' = Applies(plan, phase, otherwise),
           phase # "restore" =>
               ForUp /\ recs' # << >> /\ recs'[Len(recs')].conn = me.conn
                     /\ recs'[Len(recs')].snap = me.pre
    PROVE  MeOK' /\ SeenOK'
<1> DEFINE at == IF plan = None THEN otherwise ELSE "refresh"
<1>1. me' = [me EXCEPT !.at = at, !.plan = plan, !.phase = phase]
  BY DEF Applies
<1>2. at \in {"failed", "unplug", "refresh"} /\ (at = "refresh" => plan # None)
  OBVIOUS
<1> HIDE DEF at
<1>3. DOMAIN me = Fields
  BY DEF TInv, MeOK
<1>4. /\ DOMAIN me' = Fields /\ me'.at = at /\ me'.conn = me.conn /\ me'.pre = me.pre
      /\ me'.req = me.req /\ me'.plan = plan /\ me'.phase = phase
  BY <1>1, <1>3 DEF Fields
<1>5. at = "refresh" /\ phase # "restore" => ScaleOK(me.req.scale) /\ me.req.spec \in Specs
                                             /\ me.conn \in Conn
  BY DEF TInv, MeOK
<1>6. MeOK'
  BY <1>2, <1>4, <1>5 DEF TInv, MeOK, Steps, ForUp
<1> QED
  BY <1>2, <1>4, <1>6 DEF SeenOK

(* What is written to a record.                                            *)
LEMMA RecordTyped ==
    ASSUME TInv, NEW k \in DOMAIN recs, NEW r, RecOK(r), r.conn = recs[k].conn,
           recs' = [recs EXCEPT ![k] = r], devs' = devs
    PROVE  /\ RecsOK' /\ Len(recs') = Len(recs) /\ DOMAIN recs' = DOMAIN recs
           /\ \A i \in DOMAIN recs : recs'[i] = IF i = k THEN r ELSE recs[i]
<1>1. IsSeq(recs) /\ \A i \in DOMAIN recs : RecOK(recs[i]) /\ devs[recs[i].conn] \in Device
  BY DEF TInv, RecsOK
<1> DEFINE n == Len(recs)
<1>2. n \in Nat /\ DOMAIN recs = 1..n /\ recs \in [1..n -> ToSet(recs)]
  BY <1>1, SeqHas DEF ToSet
<1>3. DOMAIN recs' = 1..n /\ \A i \in DOMAIN recs : recs'[i] = IF i = k THEN r ELSE recs[i]
  BY <1>2
<1>4. IsSeq(recs') /\ Len(recs') = n
  <2>1. recs' = [i \in 1..n |-> recs'[i]]
    BY <1>2
  <2> HIDE DEF n
  <2> QED
    BY <1>2, <1>3, <2>1, FunIsSeq
<1> QED
  BY <1>1, <1>2, <1>3, <1>4 DEF RecsOK

LEMMA AwaitTyped == ASSUME TInv, Await PROVE TInv'
<1>1. UNCHANGED <<mutter, attribute, devs>> /\ me.at = "await" /\ ForUp
  BY DEF Await, ForUp
<1>2. CASE me.conn \in Names(me.pre.heads)
  <2>1. me' = [me EXCEPT !.at = "failed"] /\ recs' = recs
    BY <1>2 DEF Await
  <2>2. /\ DOMAIN me' = Fields /\ me'.at = "failed" /\ me'.conn = me.conn
        /\ me'.pre = me.pre /\ me'.plan = me.plan /\ me'.phase = me.phase
    BY <2>1 DEF TInv, MeOK, Fields
  <2>3. MeOK'
    BY <2>2 DEF TInv, MeOK, Steps, ForUp
  <2> QED
    BY <1>1, <2>1, <2>2, <2>3, OnlyMe DEF SeenOK
<1>3. CASE me.conn \notin Names(me.pre.heads)
  <2> DEFINE k == Mine
             r == [recs[k] EXCEPT !.head = me.conn]
             plan == PlacePlan(me.req, me.pre, me.conn)
  <2>1. recs' = [recs EXCEPT ![k].head = me.conn] /\ me' = Applies(plan, "place", "failed")
    BY <1>3 DEF Await
  <2>2. recs' = [recs EXCEPT ![k] = r]
    BY <2>1
  <2>3. /\ k = Len(recs) /\ k \in DOMAIN recs /\ recs[k].conn = me.conn
        /\ recs[k].snap = me.pre /\ me.conn \in Conn
    BY <1>1, MineIs
  <2>4. RecOK(recs[k])
    BY <2>3 DEF TInv, RecsOK
  <2>5. RecOK(r) /\ r.conn = me.conn /\ r.snap = me.pre
    BY <2>3, <2>4 DEF RecOK, RecordFields
  <2>6. Built(plan)
    <3>1. ScaleOK(me.req.scale) /\ SnapOK(me.pre)
      BY <1>1 DEF TInv, MeOK
    <3> QED
      BY <3>1, PlacePlanIs
  <2> HIDE DEF r, plan, k
  <2>7. /\ RecsOK' /\ Len(recs') = Len(recs) /\ DOMAIN recs' = DOMAIN recs
        /\ \A i \in DOMAIN recs : recs'[i] = IF i = k THEN r ELSE recs[i]
    BY <1>1, <2>2, <2>3, <2>5, RecordTyped
  <2>8. recs' # << >>
    BY <2>3, <2>7
  <2>9. recs'[Len(recs')] = r
    BY <2>3, <2>7
  <2>10. MeOK' /\ SeenOK'
    BY <1>1, <2>1, <2>5, <2>6, <2>8, <2>9, AppliesTyped
  <2> QED
    BY <1>1, <2>7, <2>10 DEF TInv
<1> QED
  BY <1>2, <1>3

LEMMA PlanLayoutTyped == ASSUME TInv, PlanLayout PROVE TInv'
<1> DEFINE plan == LayoutPlan(me.req, me.pre, me.conn, Real)
<1>1. /\ UNCHANGED <<mutter, attribute, devs, recs>> /\ ForUp
      /\ me' = Applies(plan, "layout", "failed")
  BY DEF PlanLayout, ForUp
<1>2. Built(plan)
  <2>1. ScaleOK(me.req.scale) /\ SnapOK(me.pre)
    BY <1>1 DEF TInv, MeOK
  <2> QED
    BY <2>1, LayoutPlanIs
<1> HIDE DEF plan
<1>3. recs' # << >> /\ recs'[Len(recs')].conn = me.conn /\ recs'[Len(recs')].snap = me.pre
  BY <1>1 DEF TInv, MeOK
<1>4. MeOK' /\ SeenOK'
  BY <1>1, <1>2, <1>3, AppliesTyped
<1> QED
  BY <1>1, <1>4, OnlyMe

LEMMA RefreshTyped == ASSUME TInv, Refresh PROVE TInv'
<1>1. UNCHANGED <<mutter, attribute, devs, recs>> /\ me.at = "refresh"
  BY DEF Refresh
<1>2. /\ DOMAIN me' = Fields /\ me'.at = "apply" /\ me'.conn = me.conn /\ me'.pre = me.pre
      /\ me'.req = me.req /\ me'.plan = me.plan /\ me'.phase = me.phase /\ me'.seen = mutter
  BY DEF Refresh, TInv, MeOK, Fields
<1>3. MeOK'
  BY <1>1, <1>2 DEF TInv, MeOK, Steps, ForUp
<1>4. SeenOK'
  BY <1>1, <1>2, MutterSound DEF SeenOK
<1> QED
  BY <1>1, <1>3, <1>4, OnlyMe

LEMMA RefusedTyped == ASSUME TInv, Refused PROVE TInv'
<1>1. UNCHANGED <<mutter, attribute, devs, recs>> /\ me.at = "apply"
  BY DEF Refused
<1> DEFINE at == IF me.phase = "restore" THEN "unplug" ELSE "failed"
<1>2. me' = [me EXCEPT !.at = at, !.seen = None, !.refusal = Against]
  BY DEF Refused
<1>3. at \in {"unplug", "failed"}
  OBVIOUS
<1> HIDE DEF at
<1>4. /\ DOMAIN me' = Fields /\ me'.at = at /\ me'.conn = me.conn /\ me'.pre = me.pre
      /\ me'.req = me.req /\ me'.plan = me.plan /\ me'.phase = me.phase
  BY <1>2 DEF TInv, MeOK, Fields
<1>5. MeOK'
  BY <1>3, <1>4 DEF TInv, MeOK, Steps, ForUp
<1> QED
  BY <1>1, <1>3, <1>4, <1>5, OnlyMe DEF SeenOK

LEMMA ReturnTyped == ASSUME TInv, Return PROVE TInv'
BY IdleTyped, OnlyMe DEF Return

(* What is to be re-enabled are outputs of finitely many snapshots.        *)
LEMMA ReenableFinite ==
    ASSUME NEW rs, IsSeq(rs),
           \A i \in DOMAIN rs : /\ SnapOK(rs[i].snap)
                                /\ rs[i].disabled \subseteq Names(rs[i].snap.heads)
    PROVE  IsFiniteSet(ToReenable(rs))
<1> DEFINE f == [i \in DOMAIN rs |-> rs[i].disabled]
           D == {f[x] : x \in DOMAIN f}
<1>1. DOMAIN rs = 1..Len(rs) /\ Len(rs) \in Nat
  BY SeqHas
<1>2. IsFiniteSet(D)
  <2>1. IsFiniteSet(DOMAIN f)
    BY <1>1, FS_Interval
  <2> QED
    BY <2>1, ImageFinite
<1>3. ASSUME NEW i \in DOMAIN rs PROVE IsFiniteSet(rs[i].disabled)
  <2> DEFINE heads == rs[i].snap.heads
             g == [j \in DOMAIN heads |-> heads[j].name]
             N == {g[x] : x \in DOMAIN g}
  <2>1. IsSeq(heads)
    BY DEF SnapOK
  <2>2. DOMAIN heads = 1..Len(heads) /\ Len(heads) \in Nat
    BY <2>1, SeqHas
  <2>3. IsFiniteSet(DOMAIN g)
    BY <2>2, FS_Interval
  <2>4. IsFiniteSet(N)
    BY <2>3, ImageFinite
  <2>5. N = Names(heads)
    BY DEF Names
  <2>6. rs[i].disabled \in SUBSET Names(heads)
    OBVIOUS
  <2> HIDE DEF N, heads
  <2> QED
    BY <2>4, <2>5, <2>6, FS_Subset
<1>4. \A S \in D : IsFiniteSet(S)
  BY <1>3
<1>5. ToReenable(rs) = UNION D
  BY DEF ToReenable, ToSet
<1> HIDE DEF D
<1> QED
  BY <1>2, <1>4, <1>5, FS_UNION

LEMMA RunDownTyped == ASSUME TInv, RunDown PROVE TInv'
<1>1. UNCHANGED <<mutter, attribute, devs, recs>> /\ me.at = "idle"
  BY DEF RunDown
<1>2. CASE NothingToRestore(recs)
  <2>1. me' = [me EXCEPT !.at = "unplug"]
    BY <1>2 DEF RunDown
  <2>2. /\ DOMAIN me' = Fields /\ me'.at = "unplug" /\ me'.conn = me.conn
        /\ me'.pre = me.pre /\ me'.plan = me.plan /\ me'.phase = me.phase
    BY <2>1 DEF TInv, MeOK, Fields
  <2>3. MeOK'
    BY <2>2 DEF TInv, MeOK, Steps, ForUp
  <2> QED
    BY <1>1, <2>2, <2>3, OnlyMe DEF SeenOK
<1>3. CASE ~NothingToRestore(recs)
  <2> DEFINE live == SnapshotOf(mutter)
  <2>1. PICK order \in SetToSeqs(ToReenable(recs)) :
          me' = Applies(RestorePlan(recs, live, order), "restore", "unplug")
    BY <1>3 DEF RunDown
  <2>2. IsSeq(recs) /\ \A i \in DOMAIN recs : RecOK(recs[i])
    BY DEF TInv, RecsOK
  <2>3. \A i \in DOMAIN recs : SnapOK(recs[i].snap) /\ recs[i].disabled \subseteq Names(recs[i].snap.heads)
    BY <2>2 DEF RecOK
  <2>4. SnapOK(live)
    BY MutterSound, SnapshotIs
  <2>5. IsFiniteSet(ToReenable(recs))
    BY <2>2, <2>3, ReenableFinite
  <2> DEFINE plan == RestorePlan(recs, live, order)
  <2>6. Built(plan)
    BY <2>2, <2>3, <2>4, <2>5, RestorePlanIs
  <2> HIDE DEF plan
  <2>7. MeOK' /\ SeenOK'
    BY <2>1, <2>6, AppliesTyped DEF plan
  <2> QED
    BY <1>1, <2>7, OnlyMe
<1> QED
  BY <1>2, <1>3

(* What Mutter does not object to.                                         *)
LEMMA Unopposed ==
    ASSUME NEW state, NEW serial, NEW config, Objections(state, serial, config) = {}
    PROVE  serial = state.serial /\ config # {}
<1>1. ASSUME serial # state.serial PROVE "stale" \in Objections(state, serial, config)
  BY <1>1 DEF Objections
<1>2. ASSUME config = {} PROVE "empty" \in Objections(state, serial, config)
  BY <1>2 DEF Objections
<1> QED
  BY <1>1, <1>2

LEMMA Granting ==
    ASSUME TInv, me.at = "apply", Against = {}
    PROVE  /\ me.seen = mutter /\ Asked = ToMutterConfig(me.plan, mutter) /\ Asked # {}
           /\ EnablesOK(me.plan.enables) /\ ConfigOK(mutter, Asked)
<1>1. me.seen.serial = mutter.serial /\ Asked # {}
  BY Unopposed DEF Against
<1>2. me.seen = mutter
  BY <1>1 DEF TInv, SeenOK
<1>3. EnablesOK(me.plan.enables)
  BY DEF TInv, MeOK, Built
<1>4. Asked = ToMutterConfig(me.plan, mutter)
  BY <1>2 DEF Asked
<1> HIDE DEF Asked
<1>5. ConfigOK(mutter, Asked)
  BY <1>3, <1>4, MutterSound, ConfigIs
<1> QED
  BY <1>1, <1>2, <1>3, <1>4, <1>5

LEMMA ApplyTyped == ASSUME TInv, Apply PROVE TInv'
<1>1. /\ me.at = "apply" /\ Against = {} /\ UNCHANGED <<attribute, devs>>
      /\ mutter' = Obeyed(mutter, Asked) /\ me' = [me EXCEPT !.at = Granted, !.seen = None]
  BY DEF Apply
<1>2. MutterOK(mutter')
  <2>1. Sound(mutter) /\ ConfigOK(mutter, Asked)
    BY <1>1, Granting, MutterSound
  <2> HIDE DEF Asked
  <2> QED
    BY <1>1, <2>1, Obeys
<1>3. me.phase \in {"place", "layout", "restore"} /\ me.plan # None
  BY <1>1 DEF TInv, MeOK
<1>4. Granted = IF me.phase = "place" THEN "layout" ELSE IF me.phase = "layout" THEN "check"
                ELSE "unplug"
  BY <1>3 DEF Granted
<1>5. /\ DOMAIN me' = Fields /\ me'.at = Granted /\ me'.conn = me.conn /\ me'.pre = me.pre
      /\ me'.req = me.req /\ me'.plan = me.plan /\ me'.phase = me.phase
  BY <1>1 DEF TInv, MeOK, Fields
<1>6. SeenOK'
  BY <1>3, <1>4, <1>5 DEF SeenOK
<1>7. CASE me.phase = "layout"
  <2> DEFINE k == Mine
             off == DisabledBy(me.req, Real)
             main == PreviousPrimary(me.req, Real)
             r == [recs[k] EXCEPT !.disabled = off, !.primary = main]
  <2>1. ForUp
    BY <1>1, <1>7 DEF ForUp
  <2>2. /\ k = Len(recs) /\ k \in DOMAIN recs /\ recs[k].conn = me.conn
        /\ recs[k].snap = me.pre /\ me.conn \in Conn
    BY <2>1, MineIs
  <2>3. recs' = [recs EXCEPT ![k].disabled = off, ![k].primary = main]
    BY <1>1, <1>7 DEF Apply
  <2>4. RecOK(recs[k]) /\ SnapOK(me.pre)
    BY <2>2 DEF TInv, RecsOK, MeOK
  <2>5. ToSet(Real) \subseteq Names(me.pre.heads)
        /\ (Real # << >> => Real[1] \in Names(me.pre.heads))
    BY <2>4, RealIs DEF SnapOK, Real
  <2>6. off \subseteq Names(me.pre.heads) /\ main \in Names(me.pre.heads) \cup {None}
    BY <2>5 DEF DisabledBy, PreviousPrimary
  <2> HIDE DEF off, main, k
  <2>7. recs' = [recs EXCEPT ![k] = r]
    BY <2>2, <2>3, <1>1 DEF TInv, RecsOK
  <2>8. RecOK(r) /\ r.conn = me.conn /\ r.snap = me.pre
    BY <2>2, <2>4, <2>6 DEF RecOK, RecordFields
  <2> HIDE DEF r
  <2>9. /\ RecsOK' /\ Len(recs') = Len(recs) /\ DOMAIN recs' = DOMAIN recs
    BY <1>1, <2>2, <2>7, <2>8, RecordTyped
  <2>10. MeOK'
    BY <1>3, <1>4, <1>5, <1>7 DEF TInv, MeOK, Steps, ForUp
  <2> QED
    BY <1>1, <1>2, <1>6, <2>9, <2>10 DEF TInv
<1>8. CASE me.phase # "layout"
  <2>1. recs' = recs
    BY <1>8 DEF Apply
  <2>2. RecsOK'
    BY <1>1, <2>1 DEF TInv, RecsOK
  <2>3. me.phase = "place" => ForUp
    BY <1>1 DEF ForUp
  <2>4. MeOK'
    BY <1>3, <1>4, <1>5, <1>8, <2>1, <2>3 DEF TInv, MeOK, Steps, ForUp
  <2> QED
    BY <1>1, <1>2, <1>6, <2>2, <2>4 DEF TInv
<1> QED
  BY <1>7, <1>8

LEMMA UnplugTyped == ASSUME TInv, Unplug PROVE TInv'
<1>1. /\ me.at = "unplug" /\ UNCHANGED <<mutter, attribute, recs>>
      /\ devs' = [c \in Conn |-> IF c \in Handles THEN [devs[c] EXCEPT !.plugged = FALSE]
                                 ELSE devs[c]]
      /\ me' = [me EXCEPT !.at = "gone"]
  BY DEF Unplug
<1>2. ASSUME NEW c \in Handles PROVE devs[c] \in Device
  BY DEF TInv, RecsOK, Handles
<1>3. ASSUME NEW c \in Conn
      PROVE  devs'[c] \in Device \cup {None} /\ (devs[c] \in Device => devs'[c] \in Device)
  <2>1. devs'[c] = IF c \in Handles THEN [devs[c] EXCEPT !.plugged = FALSE] ELSE devs[c]
    BY <1>1
  <2>2. devs[c] \in Device \cup {None}
    BY DEF TInv
  <2>3. CASE c \in Handles
    <3>1. devs[c] \in Device
      BY <1>2, <2>3
    <3>2. [devs[c] EXCEPT !.plugged = FALSE] \in Device
      BY <3>1, DeviceIs
    <3> QED
      BY <2>1, <2>3, <3>2
  <2> QED
    BY <2>1, <2>2, <2>3
<1>4. devs' \in [Conn -> Device \cup {None}]
  BY <1>1, <1>3
<1>5. RecsOK'
  BY <1>1, <1>3 DEF TInv, RecsOK, RecOK
<1>6. /\ DOMAIN me' = Fields /\ me'.at = "gone" /\ me'.conn = me.conn /\ me'.pre = me.pre
      /\ me'.plan = me.plan /\ me'.phase = me.phase
  BY <1>1 DEF TInv, MeOK, Fields
<1>7. MeOK'
  BY <1>6 DEF TInv, MeOK, Steps, ForUp
<1> QED
  BY <1>1, <1>4, <1>5, <1>6, <1>7 DEF TInv, SeenOK

LEMMA GoneTyped == ASSUME TInv, Gone PROVE TInv'
<1>1. UNCHANGED <<mutter, attribute, devs, recs>> /\ me' = [me EXCEPT !.at = "destroy"]
  BY DEF Gone
<1>2. /\ DOMAIN me' = Fields /\ me'.at = "destroy" /\ me'.conn = me.conn
      /\ me'.pre = me.pre /\ me'.plan = me.plan /\ me'.phase = me.phase
  BY <1>1 DEF TInv, MeOK, Fields
<1>3. MeOK'
  BY <1>2 DEF TInv, MeOK, Steps, ForUp
<1> QED
  BY <1>1, <1>2, <1>3, OnlyMe DEF SeenOK

LEMMA DestroyTyped == ASSUME TInv, Destroy PROVE TInv'
<1>1. /\ UNCHANGED <<mutter, attribute>> /\ me' = Idle /\ recs' = << >>
      /\ devs' = [c \in Conn |-> IF c \in Handles THEN None ELSE devs[c]]
  BY DEF Destroy
<1>2. devs' \in [Conn -> Device \cup {None}]
  BY <1>1 DEF TInv
<1>3. RecsOK'
  BY <1>1, Nothing DEF RecsOK
<1> QED
  BY <1>1, <1>2, <1>3, IdleTyped DEF TInv

LEMMA ObeyedTyped ==
    ASSUME TInv, UNCHANGED <<attribute, devs, recs, me>>, NEW state, Sound(state),
           state.serial = mutter.serial, NEW config, ConfigOK(state, config),
           mutter' = Obeyed(state, config)
    PROVE  TInv'
<1>1. MutterOK(mutter') /\ mutter'.serial = mutter.serial + 1
  BY Obeys
<1> QED
  BY <1>1, OnlyMutter

(* The state with the monitor that Mutter finds, and what it makes of it.  *)
Found(c) == [mutter EXCEPT !.monitors = Append(@, NewMonitor(c))]
BesideAll(c) ==
    AsIs(Found(c)) \cup
        {Single(Found(c), NewMonitor(c), PlacedEdge(Found(c), AsIs(Found(c))), FALSE)}

LEMMA Appearing ==
    ASSUME TInv, NEW c \in Conn, devs[c] # None, c \notin Names(mutter.monitors)
    PROVE  /\ MutterOK(Found(c)) /\ Found(c).serial = mutter.serial
           /\ Found(c).logical = mutter.logical
           /\ MutterOK([Found(c) EXCEPT !.serial = @ + 1])
           /\ [Found(c) EXCEPT !.serial = @ + 1].serial = mutter.serial + 1
           /\ ConfigOK(Found(c), BesideAll(c)) /\ ConfigOK(Found(c), InARow(Found(c)))
<1> DEFINE mon == NewMonitor(c)
           found == [mutter EXCEPT !.monitors = Append(@, mon)]
           now == AsIs(found)
           edge == PlacedEdge(found, now)
           lc == Single(found, mon, edge, FALSE)
           beside == now \cup {lc}
           row == InARow(found)
           last == Len(mutter.monitors) + 1
<1>0. Found(c) = found /\ BesideAll(c) = beside
  BY DEF Found, BesideAll
<1>1. devs[c] # None /\ c \notin Names(mutter.monitors)
  OBVIOUS
<1>3. /\ mon \in Monitor /\ mon.name = c /\ mon.current = None
      /\ mon.preferred \in ToSet(mon.modes)
  <2>1. devs[c] \in Device /\ attribute \in BOOLEAN
    BY <1>1 DEF TInv
  <2> QED
    BY <2>1, NewMonitorIs
<1>4. MutterOK(mutter)
  BY DEF TInv
<1> HIDE DEF mon
<1>5. /\ MutterOK(found) /\ found.serial = mutter.serial
      /\ MutterOK([found EXCEPT !.serial = @ + 1])
      /\ [found EXCEPT !.serial = @ + 1].serial = mutter.serial + 1
      /\ found.logical = mutter.logical
      /\ found.monitors[last] = mon /\ last \in DOMAIN found.monitors
  BY <1>1, <1>3, <1>4, FoundIs
<1> HIDE DEF found, last
<1>6. Sound(found)
  BY <1>5, MutterIs
<1>7. ConfigOK(found, row)
  BY <1>6, RowIs
<1>8. ConfigOK(found, now)
  BY <1>6, UntouchedIs DEF AsIs
<1>9. edge \in Int
  BY <1>6, <1>8, EdgeIs
<1> HIDE DEF row, now
<1>10. lc \in Part(found) /\ \E m : lc.monitors = {m} /\ m.name = c
  <2> HIDE DEF edge, lc
  <2>1. lc = Single(found, found.monitors[last], edge, FALSE)
    BY <1>5 DEF lc
  <2> QED
    <3> DEFINE s == Single(found, found.monitors[last], edge, FALSE)
    <3>1. /\ s \in Part(found)
          /\ \E m : s.monitors = {m} /\ m.name = found.monitors[last].name
      BY <1>5, <1>6, <1>9, SingleIs
    <3>2. found.monitors[last].name = c
      BY <1>3, <1>5
    <3>3. lc = s
      BY <2>1
    <3> HIDE DEF s
    <3> QED
      BY <3>1, <3>2, <3>3
<1>11. ASSUME NEW k \in now, NEW s \in k.monitors PROVE s.name # c
  <2>1. PICK lm \in found.logical : s.name \in lm.monitors
    BY <1>6, <1>11, UntouchedNames DEF now, AsIs
  <2>2. lm.monitors \subseteq Names(mutter.monitors)
    BY <1>4, <1>5, <2>1 DEF MutterOK
  <2> QED
    BY <1>1, <2>1, <2>2
<1> HIDE DEF lc
<1>12. ConfigOK(found, beside)
  <2>1. PICK m : lc.monitors = {m} /\ m.name = c
    BY <1>10
  <2>2. \A k \in now : \A s \in k.monitors : s.name # m.name
    BY <1>11, <2>1
  <2> QED
    BY <1>8, <1>10, <2>1, <2>2, Beside
<1> HIDE DEF beside
<1> QED
  BY <1>0, <1>5, <1>7, <1>12 DEF row

LEMMA AppearsAs ==
    ASSUME NEW c \in Conn, HeadAppears(c)
    PROVE  /\ UNCHANGED <<attribute, devs, recs, me>> /\ devs[c] # None
           /\ c \notin Names(mutter.monitors)
           /\ \/ mutter' = [Found(c) EXCEPT !.serial = @ + 1]
              \/ Valid(Found(c), BesideAll(c)) /\ mutter' = Obeyed(Found(c), BesideAll(c))
              \/ Valid(Found(c), InARow(Found(c))) /\ mutter' = Obeyed(Found(c), InARow(Found(c)))
<1> DEFINE found == [mutter EXCEPT !.monitors = Append(@, NewMonitor(c))]
           now == AsIs(found)
           beside == now \cup {Single(found, NewMonitor(c), PlacedEdge(found, now), FALSE)}
           row == InARow(found)
           new == [found EXCEPT !.serial = @ + 1]
<1>1. /\ UNCHANGED <<attribute, devs, recs, me>> /\ devs[c] # None
      /\ c \notin Names(mutter.monitors)
      /\ \/ mutter' = new
         \/ Valid(found, beside) /\ mutter' = Obeyed(found, beside)
         \/ Valid(found, row) /\ mutter' = Obeyed(found, row)
  BY DEF HeadAppears
<1>2. /\ Found(c) = found /\ BesideAll(c) = beside /\ InARow(Found(c)) = row
      /\ [Found(c) EXCEPT !.serial = @ + 1] = new
  BY DEF Found, BesideAll
<1> HIDE DEF found, now, beside, row, new
<1> QED
  BY <1>1, <1>2

(* It does not disturb `up` only if it is the head that `up` waits for, and *)
(* if no monitor is lit that was dark.                                     *)
LEMMA AppearsCalmly ==
    ASSUME "calm" \in DOMAIN hist, NEW c \in Conn, HeadAppears(c), hist'.calm
    PROVE  /\ hist.calm /\ me.at = "await" /\ me.conn = c
           /\ \/ mutter' = [Found(c) EXCEPT !.serial = @ + 1]
              \/ mutter' = Obeyed(Found(c), BesideAll(c))
              \/ \A i \in DOMAIN mutter.monitors : mutter.monitors[i].current # None
<1> DEFINE found == [mutter EXCEPT !.monitors = Append(@, NewMonitor(c))]
           now == AsIs(found)
           beside == now \cup {Single(found, NewMonitor(c), PlacedEdge(found, now), FALSE)}
           new == [found EXCEPT !.serial = @ + 1]
           ours == me.at = "await" /\ me.conn = c
           dark == \E i \in DOMAIN mutter.monitors : mutter.monitors[i].current = None
<1>1. \/ mutter' = new /\ hist' = [hist EXCEPT !.calm = @ /\ ours]
      \/ mutter' = Obeyed(found, beside) /\ hist' = [hist EXCEPT !.calm = @ /\ ours]
      \/ hist' = [hist EXCEPT !.calm = @ /\ ours /\ ~dark, !.clean = @ /\ ours /\ ~dark]
  BY DEF HeadAppears
<1>2. BesideAll(c) = beside /\ [Found(c) EXCEPT !.serial = @ + 1] = new /\ Found(c) = found
  BY DEF Found, BesideAll
<1> HIDE DEF found, now, beside, new
<1>3. hist.calm /\ ours
  BY <1>1
<1>4. \/ mutter' = new \/ mutter' = Obeyed(found, beside)
      \/ hist'.calm = (hist.calm /\ ours /\ ~dark)
  BY <1>1
<1> QED
  BY <1>2, <1>3, <1>4

LEMMA HeadAppearsTyped == ASSUME TInv, NEW c \in Conn, HeadAppears(c) PROVE TInv'
<1>1. /\ UNCHANGED <<attribute, devs, recs, me>>
      /\ \/ mutter' = [Found(c) EXCEPT !.serial = @ + 1]
         \/ mutter' = Obeyed(Found(c), BesideAll(c))
         \/ mutter' = Obeyed(Found(c), InARow(Found(c)))
  BY AppearsAs
<1>2. /\ MutterOK(Found(c)) /\ Found(c).serial = mutter.serial
      /\ MutterOK([Found(c) EXCEPT !.serial = @ + 1])
      /\ [Found(c) EXCEPT !.serial = @ + 1].serial = mutter.serial + 1
      /\ ConfigOK(Found(c), BesideAll(c)) /\ ConfigOK(Found(c), InARow(Found(c)))
  BY AppearsAs, Appearing
<1>3. Sound(Found(c))
  BY <1>2, MutterIs
<1>4. CASE mutter' = [Found(c) EXCEPT !.serial = @ + 1]
  <2>1. MutterOK(mutter') /\ mutter'.serial = mutter.serial + 1
    BY <1>2, <1>4
  <2> QED
    BY <1>1, <2>1, OnlyMutter
<1>5. CASE mutter' = Obeyed(Found(c), BesideAll(c))
  BY <1>1, <1>2, <1>3, <1>5, ObeyedTyped
<1>6. CASE mutter' = Obeyed(Found(c), InARow(Found(c)))
  BY <1>1, <1>2, <1>3, <1>6, ObeyedTyped
<1> QED
  BY <1>1, <1>4, <1>5, <1>6

(* What is left of Mutter's state without the head c.                      *)
Rest(c) == [mutter EXCEPT
               !.monitors = Only(@, {mon \in ToSet(@) : mon.name # c}),
               !.logical = {lm \in @ : c \notin lm.monitors}]
LEMMA GoesAs ==
    ASSUME TInv, NEW c \in Conn, HeadGoes(c)
    PROVE  /\ UNCHANGED <<attribute, devs, recs, me, hist>>
           /\ Sound(Rest(c)) /\ Rest(c).serial = mutter.serial
           /\ Rest(c).physical = mutter.physical
           /\ \E config : /\ ConfigOK(Rest(c), config) /\ mutter' = Obeyed(Rest(c), config)
                          /\ config = {} \/ Valid(Rest(c), config)
<1> DEFINE rest == [mutter EXCEPT
                       !.monitors = Only(@, {mon \in ToSet(@) : mon.name # c}),
                       !.logical = {lm \in @ : c \notin lm.monitors}]
           config == CASE Valid(rest, AsIs(rest)) -> AsIs(rest)
                       [] Valid(rest, InARow(rest)) -> InARow(rest)
                       [] OTHER -> {}
<1>1. UNCHANGED <<attribute, devs, recs, me, hist>> /\ mutter' = Obeyed(rest, config)
  BY DEF HeadGoes
<1>2. MutterOK(mutter)
  BY DEF TInv
<1>3. Sound(rest) /\ rest.serial = mutter.serial
  BY <1>2, RestIs
<1>4. rest.physical = mutter.physical
  BY <1>2 DEF MutterOK
<1>5. rest = Rest(c)
  BY DEF Rest
<1> HIDE DEF rest
<1>6. ConfigOK(rest, AsIs(rest)) /\ ConfigOK(rest, InARow(rest))
  BY <1>3, UntouchedIs, RowIs DEF AsIs
<1>7. ConfigOK(rest, {})
  BY FS_EmptySet DEF ConfigOK, Once1
<1>8. ConfigOK(rest, config) /\ (config = {} \/ Valid(rest, config))
  BY <1>6, <1>7
<1> HIDE DEF config
<1> QED
  BY <1>1, <1>3, <1>4, <1>5, <1>8

LEMMA HeadGoesTyped == ASSUME TInv, NEW c \in Conn, HeadGoes(c) PROVE TInv'
BY GoesAs, ObeyedTyped

LEMMA UserChangesTyped == ASSUME TInv, UserChanges PROVE TInv'
<1>1. UNCHANGED <<attribute, devs, recs, me>>
  BY DEF UserChanges
<1>2. PICK config \in Changed(mutter) : mutter' = Obeyed(mutter, config)
  BY DEF UserChanges
<1>3. Sound(mutter)
  BY MutterSound
<1>4. ConfigOK(mutter, config)
  BY <1>2, <1>3, ChangedIs
<1> QED
  BY <1>1, <1>2, <1>3, <1>4, ObeyedTyped

LEMMA StepTyped == TInv /\ [Next]_vars => TInv'
<1> SUFFICES ASSUME TInv, [Next]_vars PROVE TInv'
  OBVIOUS
<1>1. CASE RunUp
  BY <1>1, RunUpTyped
<1>2. CASE Create
  BY <1>2, CreateTyped
<1>3. CASE Await
  BY <1>3, AwaitTyped
<1>4. CASE PlanLayout
  BY <1>4, PlanLayoutTyped
<1>5. CASE Refresh
  BY <1>5, RefreshTyped
<1>6. CASE Apply
  BY <1>6, ApplyTyped
<1>7. CASE Refused
  BY <1>7, RefusedTyped
<1>8. CASE Return
  BY <1>8, ReturnTyped
<1>9. CASE RunDown
  BY <1>9, RunDownTyped
<1>10. CASE Unplug
  BY <1>10, UnplugTyped
<1>11. CASE Gone
  BY <1>11, GoneTyped
<1>12. CASE Destroy
  BY <1>12, DestroyTyped
<1>13. CASE \E c \in Conn : HeadAppears(c) \/ HeadGoes(c)
  BY <1>13, HeadAppearsTyped, HeadGoesTyped
<1>14. CASE UserChanges
  BY <1>14, UserChangesTyped
<1>15. CASE UNCHANGED vars
  <2>1. UNCHANGED <<mutter, attribute, devs, recs, me>>
    BY <1>15 DEF vars
  <2> QED
    BY <2>1 DEF TInv, RecsOK, MeOK, SeenOK, ForUp, Free
<1> QED
  BY <1>1, <1>2, <1>3, <1>4, <1>5, <1>6, <1>7, <1>8, <1>9, <1>10, <1>11, <1>12, <1>13, <1>14,
     <1>15 DEF Next, AllOver

LEMMA AlwaysTyped == Spec => []TInv
BY InitTyped, StepTyped, PTL DEF Spec

(* Mutter's state is always one it may be in: no two of its monitors have  *)
(* one name, each is in a mode of its own exactly if a logical monitor     *)
(* shows it, and none is shown twice; whatever desk there is, plan is      *)
(* applied, head comes or goes and change the user makes.  The devices,    *)
(* the records and the command under way have their types, the device of   *)
(* every record is there, and what a record has turned off and has for the *)
(* primary are outputs of its own snapshot.                                *)
THEOREM SessionTyped == Spec => []TypeOK
<1>1. TInv => TypeOK
  <2> SUFFICES ASSUME TInv PROVE TypeOK
    OBVIOUS
  <2>1. ASSUME NEW i \in DOMAIN recs PROVE RecordOK(recs[i]) /\ devs[recs[i].conn] # None
    BY NoneIsNothing DEF TInv, RecsOK, RecOK, RecordOK
  <2> QED
    BY <2>1 DEF TInv, MeOK, Steps, TypeOK
<1> QED
  BY <1>1, AlwaysTyped, PTL

-----------------------------------------------------------------------------
(* What becomes of a logical monitor that a plan does not name.            *)
Stays(plan, state, now, lm, dx, dy) ==
    LET k == LogicalOf(now, CHOOSE n \in lm.monitors : TRUE) IN
    /\ k.monitors = lm.monitors /\ k.scale = lm.scale /\ k.transform = lm.transform
    /\ k.primary = (lm.primary /\ plan.primary = None)
    /\ k.x = lm.x - dx /\ k.y = lm.y - dy
    /\ \A n \in lm.monitors : MonitorNamed(now, n) = MonitorNamed(state, n)

(* All its monitors are lit, so that it is submitted with all of them.     *)
LEMMA WholeIs ==
    ASSUME NEW state, MutterOK(state), NEW lm \in state.logical
    PROVE  /\ lm.monitors # {} /\ {m.name : m \in ShownBy(state, lm)} = lm.monitors
           /\ ShownBy(state, lm) # {}
           /\ \A n \in lm.monitors : \E i \in DOMAIN state.monitors :
                 /\ state.monitors[i].name = n
                 /\ MonitorNamed(state, n) = state.monitors[i]
                 /\ [name |-> n, mode |-> state.monitors[i].current,
                     color |-> state.monitors[i].color] \in ShownBy(state, lm)
<1>1. Sound(state) /\ LitIfLogical(state)
  BY MutterIs
<1>2. lm.monitors # {} /\ lm.monitors \subseteq Names(state.monitors)
  BY <1>1 DEF Sound, LogicalsOK
<1>3. ASSUME NEW n \in lm.monitors
      PROVE  \E i \in DOMAIN state.monitors :
                /\ state.monitors[i].name = n
                /\ MonitorNamed(state, n) = state.monitors[i]
                /\ [name |-> n, mode |-> state.monitors[i].current,
                    color |-> state.monitors[i].color] \in ShownBy(state, lm)
  <2>1. PICK i \in DOMAIN state.monitors : state.monitors[i].name = n
    BY <1>2 DEF Names
  <2>2. MonitorNamed(state, n) = state.monitors[i]
    BY <1>1, <2>1, MonitorAt
  <2>3. state.monitors[i].current # None
    BY <1>1, <2>1 DEF LitIfLogical
  <2>4. MonitorNamed(state, n) # None
    <3>1. state.monitors[i] \in Monitor
      BY <1>1, StateHas
    <3> QED
      BY <2>2, <3>1, NoneIsNothing
  <2>5. n \in LitOf(state, lm)
    BY <2>2, <2>3, <2>4 DEF LitOf, Of
  <2>6. [name |-> n, mode |-> state.monitors[i].current, color |-> state.monitors[i].color]
           \in ShownBy(state, lm)
    BY <2>2, <2>5 DEF ShownBy
  <2> QED
    BY <2>1, <2>2, <2>6
<1>4. \A m \in ShownBy(state, lm) : m.name \in lm.monitors
  BY <1>1, ShownByIs
<1>5. \A n \in lm.monitors : \E m \in ShownBy(state, lm) : m.name = n
  <2> SUFFICES ASSUME NEW n \in lm.monitors PROVE \E m \in ShownBy(state, lm) : m.name = n
    OBVIOUS
  <2>1. PICK i \in DOMAIN state.monitors :
          [name |-> n, mode |-> state.monitors[i].current,
           color |-> state.monitors[i].color] \in ShownBy(state, lm)
    BY <1>3
  <2> QED
    BY <2>1
<1>6. {m.name : m \in ShownBy(state, lm)} = lm.monitors
  BY <1>4, <1>5
<1>7. ShownBy(state, lm) # {}
  BY <1>2, <1>5
<1> QED
  BY <1>2, <1>3, <1>6, <1>7

(* A monitor that is submitted as it is does not change.                   *)
LEMMA SameMonitor ==
    ASSUME NEW mon \in Monitor, NEW config, mon.name \in Lit(config),
           Shows(config, mon.name) =
               [name |-> mon.name, mode |-> mon.current, color |-> mon.color]
    PROVE  Obeying(config, mon) = mon
<1> DEFINE color == IF mon.color = None THEN None ELSE Or(mon.color, "sdr")
<1>1. color = mon.color
  BY DEF Or
<1>2. Obeying(config, mon) = [mon EXCEPT !.current = mon.current, !.color = color]
  BY DEF Obeying
<1> HIDE DEF color
<1>3. mon = [name |-> mon.name, modes |-> mon.modes, preferred |-> mon.preferred,
             current |-> mon.current, color |-> mon.color]
  BY DEF Monitor
<1> QED
  BY <1>1, <1>2, <1>3

LEMMA UnnamedStay ==
    ASSUME NEW plan, NEW state, MutterOK(state), EnablesOK(plan.enables),
           ToMutterConfig(plan, state) # {}
    PROVE  \E dx \in Int, dy \in Int :
               \A lm \in {k \in state.logical : k.monitors \cap Named(plan) = {}} :
                   Stays(plan, state, Obeyed(state, ToMutterConfig(plan, state)), lm, dx, dy)
<1> DEFINE config == ToMutterConfig(plan, state)
           now == Obeyed(state, config)
           K == {k \in state.logical : k.monitors \cap Named(plan) = {}}
<1>1. Sound(state)
  BY MutterIs
<1>2. ConfigOK(state, config)
  BY <1>1, ConfigIs
<1>3. PICK placed : placed # {} /\ config = Anchored(placed) /\ Extends(plan, state, placed)
  BY <1>1, ConfigIs
<1>4. ConfigOK(state, placed) /\ Untouched(plan, state) \subseteq placed
  BY <1>3 DEF Extends
<1>5. placed # {}
  BY <1>3
<1>6. PICK dx \in Int, dy \in Int :
         /\ Anchored(placed) = {Shifted(lc, dx, dy) : lc \in placed}
         /\ AtOrigin(placed) => dx = 0 /\ dy = 0
  BY <1>4, <1>5, AnchoredIs
<1>7. /\ MutterOK(now)
      /\ DOMAIN now.monitors = DOMAIN state.monitors
      /\ \A i \in DOMAIN state.monitors :
            now.monitors[i] = Obeying(config, state.monitors[i])
      /\ now.logical = {[lc EXCEPT !.monitors = {m.name : m \in @}] : lc \in config}
  <2> HIDE DEF config
  <2> QED
    BY <1>1, <1>2, Obeys
<1>8. Sound(now)
  BY <1>7, MutterIs
<1> HIDE DEF now, config
<1>9. ASSUME NEW lm \in K PROVE Stays(plan, state, now, lm, dx, dy)
  <2> DEFINE lc == Carried(plan, state, lm)
             main == lm.primary /\ plan.primary = None
             at == Shifted(lc, dx, dy)
             shown == ShownBy(state, lm)
             k == [x |-> lm.x - dx, y |-> lm.y - dy, scale |-> lm.scale,
                   transform |-> lm.transform, primary |-> main, monitors |-> lm.monitors]
  <2>1. lc = [x |-> lm.x, y |-> lm.y, scale |-> lm.scale, transform |-> lm.transform,
              primary |-> main, monitors |-> shown]
    BY <1>1, CarriedIs
  <2>2. /\ lm.monitors # {} /\ {m.name : m \in shown} = lm.monitors /\ shown # {}
        /\ \A n \in lm.monitors : \E i \in DOMAIN state.monitors :
              /\ state.monitors[i].name = n /\ MonitorNamed(state, n) = state.monitors[i]
              /\ [name |-> n, mode |-> state.monitors[i].current,
                  color |-> state.monitors[i].color] \in shown
    BY WholeIs
  <2> HIDE DEF shown, main
  <2>3. lc.monitors = shown
    BY <2>1
  <2>4. lc \in Untouched(plan, state)
    <3> HIDE DEF lc
    <3> QED
      BY <2>2, <2>3 DEF Untouched, lc
  <2>5. at \in config
    <3>1. lc \in placed
      BY <1>4, <2>4
    <3> QED
      BY <1>3, <1>6, <3>1
  <2>6. at = [x |-> lm.x - dx, y |-> lm.y - dy, scale |-> lm.scale,
              transform |-> lm.transform, primary |-> main, monitors |-> shown]
    BY <2>1 DEF Shifted
  <2> HIDE DEF at, lc
  <2>7. k = [at EXCEPT !.monitors = {m.name : m \in @}]
    <3> DEFINE names == {m.name : m \in at.monitors}
    <3>1. names = lm.monitors
      BY <2>2, <2>6
    <3>2. IsPart(at)
      BY <2>6 DEF IsPart
    <3> HIDE DEF names
    <3>3. [at EXCEPT !.monitors = names] =
             [x |-> at.x, y |-> at.y, scale |-> at.scale, transform |-> at.transform,
              primary |-> at.primary, monitors |-> names]
      BY <3>2, Relabelled
    <3>4. k = [at EXCEPT !.monitors = names]
      BY <2>6, <3>1, <3>3
    <3> QED
      BY <3>4 DEF names
  <2>8. k \in now.logical
    BY <1>7, <2>5, <2>7
  <2> DEFINE n0 == CHOOSE n \in lm.monitors : TRUE
  <2>9. n0 \in lm.monitors
    BY <2>2
  <2> HIDE DEF n0
  <2>10. n0 \in k.monitors
    BY <2>9
  <2>11. LogicalOf(now, n0) = k
    <3> HIDE DEF k
    <3> QED
      BY <1>8, <2>8, <2>10, LogicalIs
  <2>12. ASSUME NEW n \in lm.monitors
         PROVE  MonitorNamed(now, n) = MonitorNamed(state, n)
    <3>1. PICK i \in DOMAIN state.monitors :
            /\ state.monitors[i].name = n /\ MonitorNamed(state, n) = state.monitors[i]
            /\ [name |-> n, mode |-> state.monitors[i].current,
                color |-> state.monitors[i].color] \in shown
      BY <2>2
    <3> DEFINE mon == state.monitors[i]
               m == [name |-> n, mode |-> mon.current, color |-> mon.color]
    <3>2. mon \in Monitor
      BY <1>1, StateHas
    <3>3. m.name = n /\ m \in at.monitors
      BY <2>6, <3>1
    <3>4. Shows(config, n) = m /\ n \in Lit(config)
      <4> HIDE DEF m
      <4> QED
        BY <1>2, <2>5, <3>3, ShowsIs
    <3>5. Obeying(config, mon) = mon
      <4> HIDE DEF mon
      <4>1. mon.name = n
        BY <3>1 DEF mon
      <4> QED
        BY <3>2, <3>4, <4>1, SameMonitor
    <3>6. now.monitors[i] = mon /\ i \in DOMAIN now.monitors
      BY <1>7, <3>5
    <3>7. MonitorNamed(now, now.monitors[i].name) = now.monitors[i]
      BY <1>8, <3>6, MonitorAt
    <3> QED
      BY <3>1, <3>6, <3>7
  <2>13. LogicalOf(now, CHOOSE n \in lm.monitors : TRUE) = k
    BY <2>11 DEF n0
  <2> QED
    BY <2>12, <2>13 DEF Stays, main
<1> QED
  BY <1>9 DEF now, config

LEMMA OnlyApply ==
    ASSUME TInv, [Next]_vars, me.at = "apply", Against = {}, me' # me
    PROVE  Apply
BY DEF Next, vars, RunUp, Create, Await, PlanLayout, Refresh, Refused, Return, RunDown, Unplug,
       Gone, Destroy, HeadAppears, HeadGoes, UserChanges, AllOver

(* Whatever plan the adapter carries out, of whatever state: a logical     *)
(* monitor that the plan does not name keeps its monitors with their modes *)
(* and colors, its scale and its transform, is the primary as before       *)
(* unless the plan has one, and all such are moved by the same offset.     *)
THEOREM UnnamedAreUntouched == Spec => OthersUntouched
<1> DEFINE unnamed == {lm \in mutter.logical : lm.monitors \cap Named(me.plan) = {}}
           now(lm) == LogicalOf(mutter', CHOOSE n \in lm.monitors : TRUE)
           Kept == /\ \A lm \in unnamed :
                         /\ now(lm).monitors = lm.monitors
                         /\ now(lm).scale = lm.scale /\ now(lm).transform = lm.transform
                         /\ now(lm).primary = (lm.primary /\ me.plan.primary = None)
                         /\ \A n \in lm.monitors :
                               MonitorNamed(mutter', n) = MonitorNamed(mutter, n)
                   /\ \A lm, k \in unnamed : /\ now(lm).x - lm.x = now(k).x - k.x
                                             /\ now(lm).y - lm.y = now(k).y - k.y
           Step == me.at = "apply" /\ Against = {} /\ me' # me => Kept
<1>1. ASSUME TInv, [Next]_vars PROVE Step
  <2> SUFFICES ASSUME me.at = "apply", Against = {}, me' # me PROVE Kept
    OBVIOUS
  <2>1. mutter' = Obeyed(mutter, Asked)
    BY <1>1, OnlyApply DEF Apply
  <2>2. /\ Asked = ToMutterConfig(me.plan, mutter) /\ Asked # {}
        /\ EnablesOK(me.plan.enables)
    BY <1>1, Granting
  <2>3. MutterOK(mutter)
    BY <1>1 DEF TInv
  <2> DEFINE later == Obeyed(mutter, ToMutterConfig(me.plan, mutter))
  <2>4. mutter' = later
    BY <2>1, <2>2
  <2>5. PICK dx \in Int, dy \in Int :
          \A lm \in unnamed : Stays(me.plan, mutter, later, lm, dx, dy)
    BY <2>2, <2>3, UnnamedStay
  <2> HIDE DEF later
  <2>6. \A lm \in unnamed : Stays(me.plan, mutter, mutter', lm, dx, dy)
    BY <2>4, <2>5
  <2>7. \A lm \in unnamed :
           /\ now(lm).monitors = lm.monitors
           /\ now(lm).scale = lm.scale /\ now(lm).transform = lm.transform
           /\ now(lm).primary = (lm.primary /\ me.plan.primary = None)
           /\ now(lm).x = lm.x - dx /\ now(lm).y = lm.y - dy
           /\ \A n \in lm.monitors : MonitorNamed(mutter', n) = MonitorNamed(mutter, n)
    BY <2>6 DEF Stays
  <2>8. \A lm \in unnamed : lm.x \in Int /\ lm.y \in Int
    BY <1>1, MutterSound, StateHas DEF Logical
  <2> HIDE DEF unnamed, now
  <2>9. \A lm, k \in unnamed : /\ now(lm).x - lm.x = now(k).x - k.x
                               /\ now(lm).y - lm.y = now(k).y - k.y
    BY <2>7, <2>8
  <2> QED
    BY <2>7, <2>9
<1> HIDE DEF Step
<1>2. [][Step]_vars => OthersUntouched
  BY PTL DEF OthersUntouched, Step
<1>3. TInv /\ [Next]_vars => [Step]_vars
  BY <1>1
<1> QED
  BY <1>2, <1>3, AlwaysTyped, PTL DEF Spec

-----------------------------------------------------------------------------
(* What is furthest left and up is at the origin: of every layout that     *)
(* Mutter has carried out, and so of every snapshot.                       *)
Origin(layout) ==
    /\ \A lc \in layout : 0 <= lc.x /\ 0 <= lc.y
    /\ layout # {} => (\E lc \in layout : lc.x = 0) /\ (\E lc \in layout : lc.y = 0)

LEMMA LeastIsZero ==
    ASSUME NEW S, IsFiniteSet(S), S \subseteq Int, S # {}
    PROVE  Min(S) = 0 <=> (0 \in S /\ \A y \in S : 0 <= y)
<1>1. Min(S) \in S /\ \A y \in S : Min(S) <= y
  BY MinIs
<1> DEFINE m == Min(S)
<1> HIDE DEF m
<1>2. m \in S /\ \A y \in S : m <= y
  BY <1>1 DEF m
<1>3. m = 0 <=> (0 \in S /\ \A y \in S : 0 <= y)
  BY <1>2
<1> QED
  BY <1>3 DEF m

LEMMA OriginIs ==
    ASSUME NEW layout, IsFiniteSet(layout),
           \A lc \in layout : lc.x \in Int /\ lc.y \in Int
    PROVE  AtOrigin(layout) <=> Origin(layout)
<1> DEFINE X == {lc.x : lc \in layout}
           Y == {lc.y : lc \in layout}
           fx == [lc \in layout |-> lc.x]
           fy == [lc \in layout |-> lc.y]
<1>1. IsFiniteSet(X) /\ IsFiniteSet(Y)
  <2>1. IsFiniteSet({fx[lc] : lc \in DOMAIN fx}) /\ IsFiniteSet({fy[lc] : lc \in DOMAIN fy})
    BY ImageFinite
  <2>2. {fx[lc] : lc \in DOMAIN fx} = X /\ {fy[lc] : lc \in DOMAIN fy} = Y
    OBVIOUS
  <2> QED
    BY <2>1, <2>2
<1>2. X \subseteq Int /\ Y \subseteq Int
  OBVIOUS
<1>3. CASE layout = {}
  BY <1>3 DEF AtOrigin, Origin
<1>4. CASE layout # {}
  <2>1. X # {} /\ Y # {}
    BY <1>4
  <2>2. Min(X) = 0 <=> (0 \in X /\ \A y \in X : 0 <= y)
    <3> HIDE DEF X
    <3> QED
      BY <1>1, <1>2, <2>1, LeastIsZero
  <2>3. Min(Y) = 0 <=> (0 \in Y /\ \A y \in Y : 0 <= y)
    <3> HIDE DEF Y
    <3> QED
      BY <1>1, <1>2, <2>1, LeastIsZero
  <2>4. AtOrigin(layout) <=> Min(X) = 0 /\ Min(Y) = 0
    BY <1>4 DEF AtOrigin
  <2>5. 0 \in X <=> \E lc \in layout : lc.x = 0
    OBVIOUS
  <2>6. 0 \in Y <=> \E lc \in layout : lc.y = 0
    OBVIOUS
  <2>7. (\A y \in X : 0 <= y) <=> \A lc \in layout : 0 <= lc.x
    OBVIOUS
  <2>8. (\A y \in Y : 0 <= y) <=> \A lc \in layout : 0 <= lc.y
    OBVIOUS
  <2> HIDE DEF X, Y
  <2> QED
    BY <1>4, <2>2, <2>3, <2>4, <2>5, <2>6, <2>7, <2>8 DEF Origin
<1> QED
  BY <1>3, <1>4

LEMMA ConfigOrigin ==
    ASSUME NEW state, NEW config, ConfigOK(state, config)
    PROVE  AtOrigin(config) <=> Origin(config)
<1>1. \A lc \in config : lc.x \in Int /\ lc.y \in Int
  BY DEF ConfigOK, Part
<1> QED
  BY <1>1, OriginIs DEF ConfigOK

LEMMA AnchoredOrigin ==
    ASSUME NEW state, NEW config, ConfigOK(state, config), config # {}
    PROVE  AtOrigin(Anchored(config))
<1>1. ConfigOK(state, Anchored(config))
  BY AnchoredIs
<1>2. PICK dx \in Int, dy \in Int : /\ Anchored(config) = {Shifted(lc, dx, dy) : lc \in config}
                                   /\ LeastOf(config, dx, dy)
  BY AnchoredIs
<1>3. \A lc \in config : lc.x \in Int /\ lc.y \in Int
  BY DEF ConfigOK, Part
<1>4. \A lc : Shifted(lc, dx, dy).x = lc.x - dx /\ Shifted(lc, dx, dy).y = lc.y - dy
  BY DEF Shifted
<1> DEFINE A == Anchored(config)
<1> HIDE DEF A
<1>5. A = {Shifted(lc, dx, dy) : lc \in config}
  BY <1>2 DEF A
<1>6. \A a \in A : 0 <= a.x /\ 0 <= a.y
  BY <1>2, <1>3, <1>4, <1>5 DEF LeastOf
<1>7. (\E a \in A : a.x = 0) /\ (\E a \in A : a.y = 0)
  <2>1. PICK k \in config : k.x = dx
    BY <1>2 DEF LeastOf
  <2>2. PICK l \in config : l.y = dy
    BY <1>2 DEF LeastOf
  <2>3. /\ Shifted(k, dx, dy) \in A /\ Shifted(l, dx, dy) \in A
        /\ Shifted(k, dx, dy).x = 0 /\ Shifted(l, dx, dy).y = 0
    BY <1>4, <1>5, <2>1, <2>2
  <2> QED
    BY <2>3
<1>8. Origin(A)
  BY <1>6, <1>7 DEF Origin
<1> QED
  BY <1>1, <1>8, ConfigOrigin DEF A

LEMMA StateOrigin ==
    ASSUME NEW state, Sound(state)
    PROVE  AtOrigin(state.logical) <=> Origin(state.logical)
<1>1. \A lm \in state.logical : lm.x \in Int /\ lm.y \in Int
  BY StateHas DEF Logical
<1> QED
  BY <1>1, OriginIs DEF Sound

(* The logical monitor that a part of a configuration becomes.             *)
Becomes(lc) == [lc EXCEPT !.monitors = {m.name : m \in @}]

LEMMA BecomesIs ==
    ASSUME NEW state, NEW lc \in Part(state)
    PROVE  Becomes(lc) = [x |-> lc.x, y |-> lc.y, scale |-> lc.scale,
                          transform |-> lc.transform, primary |-> lc.primary,
                          monitors |-> {m.name : m \in lc.monitors}]
<1> DEFINE names == {m.name : m \in lc.monitors}
<1>1. IsPart(lc)
  BY DEF IsPart, Part
<1>2. Becomes(lc) = [lc EXCEPT !.monitors = names]
  BY DEF Becomes
<1> HIDE DEF names
<1>3. [lc EXCEPT !.monitors = names] =
         [x |-> lc.x, y |-> lc.y, scale |-> lc.scale, transform |-> lc.transform,
          primary |-> lc.primary, monitors |-> names]
  BY <1>1, Relabelled
<1> QED
  BY <1>2, <1>3 DEF names

LEMMA OriginObeyed ==
    ASSUME NEW state, Sound(state), NEW config, ConfigOK(state, config), AtOrigin(config)
    PROVE  AtOrigin(Obeyed(state, config).logical)
<1> DEFINE now == Obeyed(state, config)
<1>1. MutterOK(now) /\ now.logical = {Becomes(lc) : lc \in config}
  BY Obeys DEF Becomes
<1>2. Origin(config)
  BY ConfigOrigin
<1>3. \A lc \in config : Becomes(lc).x = lc.x /\ Becomes(lc).y = lc.y
  BY BecomesIs DEF ConfigOK
<1> HIDE DEF now
<1>4. Origin(now.logical)
  BY <1>1, <1>2, <1>3 DEF Origin
<1> QED
  BY <1>1, <1>4, MutterIs, StateOrigin DEF now

LEMMA OriginUnopposed ==
    ASSUME NEW state, NEW serial, NEW config, Objections(state, serial, config) = {}
    PROVE  AtOrigin(config)
<1>1. ASSUME ~AtOrigin(config) PROVE "offset" \in Objections(state, serial, config)
  BY <1>1 DEF Objections
<1> QED
  BY <1>1

(* The right edge of what is placed is not left of it.                     *)
LEMMA ScaledNat ==
    ASSUME NEW px \in Nat, NEW percent \in Nat \ {0}
    PROVE  Scaled(px, percent) \in Nat
<1>1. 200 * px + percent \in Nat /\ 2 * percent \in Nat \ {0}
  OBVIOUS
<1> DEFINE a == 200 * px + percent
           b == 2 * percent
<1> HIDE DEF a, b
<1>2. a \in Nat /\ b \in Nat \ {0}
  BY <1>1 DEF a, b
<1>3. a \div b \in Nat
  BY <1>2
<1> QED
  BY <1>3 DEF Scaled, a, b

LEMMA RightOfNat ==
    ASSUME NEW E, IsFiniteSet(E), E \subseteq Nat
    PROVE  RightOf(E) \in Nat
<1>1. E \subseteq Int
  OBVIOUS
<1>2. E # {} => Max(E) \in E
  BY <1>1, MaxIs
<1> QED
  BY <1>2 DEF RightOf

-----------------------------------------------------------------------------
(* What happens to Mutter's state: nothing, a monitor that is left dark,   *)
(* or a configuration to which Mutter does not object, made by whomever,   *)
(* or in which all is dark.                                                *)
Moves(state, config) ==
    /\ Sound(state) /\ state.physical = mutter.physical /\ ConfigOK(state, config)
    /\ config = {} \/ Valid(state, config)
    /\ mutter' = Obeyed(state, config)
Darkly(c) ==
    /\ devs[c] # None /\ c \notin Names(mutter.monitors)
    /\ mutter' = [Found(c) EXCEPT !.serial = @ + 1]

LEMMA MutterMoves ==
    ASSUME TInv, [Next]_vars
    PROVE  \/ UNCHANGED mutter
           \/ \E c \in Conn : Darkly(c)
           \/ \E state, config : Moves(state, config)
<1>0. Sound(mutter)
  BY MutterSound
<1>1. CASE UNCHANGED mutter
  BY <1>1
<1>2. CASE Apply
  <2>1. me.at = "apply" /\ Against = {} /\ mutter' = Obeyed(mutter, Asked)
    BY <1>2 DEF Apply
  <2>2. ConfigOK(mutter, Asked) /\ me.seen = mutter
    BY <2>1, Granting
  <2>3. Valid(mutter, Asked)
    BY <2>1, <2>2 DEF Against, Valid
  <2> HIDE DEF Asked
  <2>4. Moves(mutter, Asked)
    BY <1>0, <2>1, <2>2, <2>3 DEF Moves
  <2> QED
    BY <2>4
<1>3. CASE \E c \in Conn : HeadAppears(c)
  <2>1. PICK c \in Conn : HeadAppears(c)
    BY <1>3
  <2>2. /\ devs[c] # None /\ c \notin Names(mutter.monitors)
        /\ \/ mutter' = [Found(c) EXCEPT !.serial = @ + 1]
           \/ Valid(Found(c), BesideAll(c)) /\ mutter' = Obeyed(Found(c), BesideAll(c))
           \/ Valid(Found(c), InARow(Found(c))) /\ mutter' = Obeyed(Found(c), InARow(Found(c)))
    BY <2>1, AppearsAs
  <2>3. /\ MutterOK(Found(c)) /\ ConfigOK(Found(c), BesideAll(c))
        /\ ConfigOK(Found(c), InARow(Found(c)))
    BY <2>2, Appearing
  <2>4. Sound(Found(c)) /\ Found(c).physical = mutter.physical
    BY <2>3, MutterIs DEF Found, TInv, MutterOK
  <2> QED
    BY <2>2, <2>3, <2>4 DEF Moves, Darkly
<1>4. CASE \E c \in Conn : HeadGoes(c)
  <2>1. PICK c \in Conn : HeadGoes(c)
    BY <1>4
  <2>2. /\ Sound(Rest(c)) /\ Rest(c).physical = mutter.physical
        /\ \E config : /\ ConfigOK(Rest(c), config) /\ mutter' = Obeyed(Rest(c), config)
                       /\ config = {} \/ Valid(Rest(c), config)
    BY <2>1, GoesAs
  <2> QED
    BY <2>2 DEF Moves
<1>5. CASE UserChanges
  <2>1. PICK config \in Changed(mutter) : Valid(mutter, config) /\ mutter' = Obeyed(mutter, config)
    BY <1>5 DEF UserChanges
  <2>2. ConfigOK(mutter, config)
    BY <1>0, <2>1, ChangedIs
  <2> QED
    BY <1>0, <2>1, <2>2 DEF Moves
<1> QED
  BY <1>1, <1>2, <1>3, <1>4, <1>5
     DEF Next, vars, RunUp, Create, Await, PlanLayout, Refresh, Refused, Return, RunDown, Unplug,
         Gone, Destroy, AllOver

-----------------------------------------------------------------------------
(* Mutter's layout is at the origin, whoever has made it.                  *)
InPlace == AtOrigin(mutter.logical)

LEMMA StepInPlace == TInv /\ InPlace /\ [Next]_vars => InPlace'
<1> SUFFICES ASSUME TInv, InPlace, [Next]_vars PROVE InPlace'
  OBVIOUS
<1>1. CASE UNCHANGED mutter
  BY <1>1 DEF InPlace
<1>2. CASE \E c \in Conn : Darkly(c)
  <2>1. PICK c \in Conn : Darkly(c)
    BY <1>2
  <2>2. Found(c).logical = mutter.logical /\ MutterOK(Found(c))
    BY <2>1, Appearing DEF Darkly
  <2>3. mutter'.logical = mutter.logical
    BY <2>1, <2>2 DEF Darkly, MutterOK
  <2> QED
    BY <2>3 DEF InPlace
<1>3. CASE \E state, config : Moves(state, config)
  <2>1. PICK state, config : Moves(state, config)
    BY <1>3
  <2>2. AtOrigin(config)
    BY <2>1, OriginUnopposed DEF Moves, Valid, AtOrigin
  <2> QED
    BY <2>1, <2>2, OriginObeyed DEF Moves, InPlace
<1> QED
  BY <1>1, <1>2, <1>3, MutterMoves

-----------------------------------------------------------------------------
(* What becomes of one monitor when a configuration is carried out.        *)
LEMMA ObeyingIs ==
    ASSUME NEW state, Sound(state), NEW config, ConfigOK(state, config),
           NEW i \in DOMAIN state.monitors, NEW lc \in config, NEW m \in lc.monitors,
           m.name = state.monitors[i].name
    PROVE  LET mon == state.monitors[i] IN
           Obeying(config, mon) =
               [name |-> mon.name, modes |-> mon.modes, preferred |-> mon.preferred,
                current |-> m.mode,
                color |-> IF mon.color = None THEN None ELSE Or(m.color, "sdr")]
<1> DEFINE mon == state.monitors[i]
           mode == m.mode
           color == IF mon.color = None THEN None ELSE Or(m.color, "sdr")
           now == Obeying(config, mon)
<1>1. mon \in Monitor
  BY StateHas
<1>2. Shows(config, mon.name) = m /\ mon.name \in Lit(config)
  BY ShowsIs
<1>3. now = [mon EXCEPT !.current = mode, !.color = color]
  BY <1>2 DEF Obeying
<1> HIDE DEF mode, color, now
<1>4. now = [name |-> mon.name, modes |-> mon.modes, preferred |-> mon.preferred,
             current |-> mode, color |-> color]
  BY <1>1, <1>3 DEF Monitor
<1> QED
  BY <1>4 DEF now, mode, color

LEMMA ColorObeys ==
    ASSUME NEW state, Sound(state), NEW config, ConfigOK(state, config),
           NEW i \in DOMAIN state.monitors
    PROVE  Obeying(config, state.monitors[i]).color = None <=> state.monitors[i].color = None
<1> DEFINE mon == state.monitors[i]
<1>1. mon \in Monitor
  BY StateHas
<1>2. CASE mon.name \notin Lit(config)
  BY <1>1, <1>2 DEF Obeying, Monitor
<1>3. CASE mon.name \in Lit(config)
  <2>0. PICK lc \in config : \E m \in lc.monitors : m.name = mon.name
    BY <1>3 DEF Lit, Monitors
  <2>1. PICK m \in lc.monitors : m.name = mon.name
    BY <2>0
  <2>2. m \in Showing(state)
    BY DEF ConfigOK, Part
  <2>3. m.color \in Color \cup {None}
    BY <2>2 DEF Showing
  <2> DEFINE color == IF mon.color = None THEN None ELSE Or(m.color, "sdr")
  <2>4. color = None <=> mon.color = None
    BY <2>3, NoneIsNothing DEF Or, Color
  <2>5. Obeying(config, mon).color = color
    <3> DEFINE now == Obeying(config, mon)
    <3>1. now = [name |-> mon.name, modes |-> mon.modes, preferred |-> mon.preferred,
                 current |-> m.mode, color |-> color]
      BY <2>1, ObeyingIs
    <3> HIDE DEF now, color
    <3>2. now.color = color
      BY <3>1
    <3> QED
      BY <3>2 DEF now
  <2> HIDE DEF color
  <2> QED
    BY <2>4, <2>5
<1> QED
  BY <1>2, <1>3

(* A monitor that has the mode of a head and colors if the head has.       *)
Recalled(h, state) ==
    \E i \in DOMAIN state.monitors :
        /\ state.monitors[i].name = h.name
        /\ h.mode \in ToSet(state.monitors[i].modes) \cup {None}
        /\ h.color = None <=> state.monitors[i].color = None

(* A snapshot's heads are those of the monitors.                           *)
LEMMA HeadsRecalled ==
    ASSUME NEW state, Sound(state), NEW h \in ToSet(SnapshotOf(state).heads)
    PROVE  Recalled(h, state)
<1> DEFINE mons == state.monitors
<1>1. SnapshotOf(state).heads = [i \in DOMAIN mons |-> HeadOf(state, mons[i])]
  BY DEF SnapshotOf
<1>2. PICK i \in DOMAIN mons : h = HeadOf(state, mons[i])
  BY <1>1 DEF ToSet
<1>3. h.name = mons[i].name /\ h.mode = mons[i].current /\ h.color = mons[i].color
  BY <1>2 DEF HeadOf
<1>4. mons[i].current \in ToSet(mons[i].modes) \cup {None}
  BY DEF Sound, MonitorsOK
<1> QED
  BY <1>3, <1>4 DEF Recalled

-----------------------------------------------------------------------------
(* A snapshot of a layout at the origin.                                   *)
LitNames(state) == UNION {lm.monitors : lm \in state.logical}
Lively(h) ==
    /\ h.mode \in Mode /\ h.position \in Int \X Int /\ h.scale \in Nat \ {0}
    /\ h.transform \in 0..7
HeadShape(h) ==
    /\ h = [name |-> h.name, enabled |-> h.enabled, mode |-> h.mode, position |-> h.position,
            scale |-> h.scale, transform |-> h.transform, color |-> h.color]
    /\ h.enabled \in BOOLEAN
OriginShown(snap) ==
    /\ \A h \in ToSet(Shown(snap)) : 0 <= h.position[1] /\ 0 <= h.position[2]
    /\ ToSet(Shown(snap)) # {} => /\ \E h \in ToSet(Shown(snap)) : h.position[1] = 0
                                  /\ \E h \in ToSet(Shown(snap)) : h.position[2] = 0
Pictured(snap) ==
    /\ \A h \in ToSet(snap.heads) : HeadShape(h) /\ (h.enabled => Lively(h))
    /\ OriginShown(snap)

LEMMA NamesAre ==
    ASSUME NEW s, NEW x
    PROVE  x \in Names(s) <=> \E h \in ToSet(s) : h.name = x
BY DEF Names, ToSet

LEMMA ShownSet ==
    ASSUME NEW snap, SnapOK(snap)
    PROVE  \A h : h \in ToSet(Shown(snap)) <=>
                     h \in ToSet(snap.heads) /\ h.enabled /\ h.mode # None /\ h.position # None
<1> DEFINE E == {h \in ToSet(snap.heads) : h.enabled /\ h.mode # None /\ h.position # None}
<1>1. ToSet(Only(snap.heads, E)) = ToSet(snap.heads) \cap E
  BY OnlySet DEF SnapOK
<1>2. Shown(snap) = Only(snap.heads, E)
  BY DEF Shown
<1> QED
  BY <1>1, <1>2

(* The head of a monitor that a logical one shows.                         *)
LEMMA HeadLit ==
    ASSUME NEW state, MutterOK(state), NEW lm \in state.logical, NEW n \in lm.monitors
    PROVE  \E h \in ToSet(Shown(SnapshotOf(state))) :
               h.name = n /\ h.position = <<lm.x, lm.y>>
<1> DEFINE mons == state.monitors
           snap == SnapshotOf(state)
<1>1. Sound(state) /\ LitIfLogical(state)
  BY MutterIs
<1>2. PICK i \in DOMAIN mons : mons[i].name = n
  BY <1>1 DEF Sound, LogicalsOK, Names
<1>3. LogicalOf(state, n) = lm /\ lm \in Logical /\ lm # None
  BY <1>1, LogicalIs, StateHas, NoneIsNothing
<1>4. mons[i].current # None
  BY <1>1, <1>2 DEF LitIfLogical
<1> DEFINE h == HeadOf(state, mons[i])
<1>5. /\ h.name = n /\ h.enabled /\ h.mode = mons[i].current /\ h.position = <<lm.x, lm.y>>
  BY <1>2, <1>3 DEF HeadOf
<1>6. snap.heads = [j \in DOMAIN mons |-> HeadOf(state, mons[j])]
  BY DEF SnapshotOf
<1>7. h \in ToSet(snap.heads)
  BY <1>6 DEF ToSet
<1>8. SnapOK(snap)
  BY <1>1, SnapshotIs
<1>9. <<lm.x, lm.y>> \in Int \X Int
  BY <1>3 DEF Logical
<1> HIDE DEF h, snap
<1>10. h.position # None
  BY <1>5, <1>9, NoneIsNothing
<1>11. h \in ToSet(Shown(snap))
  BY <1>4, <1>5, <1>7, <1>8, <1>10, ShownSet
<1> QED
  BY <1>5, <1>11 DEF snap

LEMMA PictureIs ==
    ASSUME NEW state, MutterOK(state), AtOrigin(state.logical)
    PROVE  /\ Pictured(SnapshotOf(state))
           /\ LitNames(state) \subseteq Names(Shown(SnapshotOf(state)))
<1> DEFINE mons == state.monitors
           snap == SnapshotOf(state)
<1>1. Sound(state) /\ LitIfLogical(state) /\ SnapOK(snap)
  BY MutterIs, SnapshotIs
<1>2. snap.heads = [j \in DOMAIN mons |-> HeadOf(state, mons[j])]
  BY DEF SnapshotOf
<1>3. ASSUME NEW h \in ToSet(snap.heads)
      PROVE  /\ HeadShape(h)
             /\ h.enabled => Lively(h) /\ \E lm \in state.logical : h.position = <<lm.x, lm.y>>
  <2>1. PICK i \in DOMAIN mons : h = HeadOf(state, mons[i])
    BY <1>2 DEF ToSet
  <2> DEFINE lm == LogicalOf(state, mons[i].name)
             lit == lm # None
             at == IF lm = None THEN None ELSE <<lm.x, lm.y>>
             scale == Of(lm, "scale")
             transform == Of(lm, "transform")
  <2>2. h = [name |-> mons[i].name, enabled |-> lit, mode |-> mons[i].current,
             position |-> at, scale |-> scale, transform |-> transform,
             color |-> mons[i].color]
    BY <2>1 DEF HeadOf
  <2>3. lit => /\ lm \in state.logical /\ mons[i].name \in lm.monitors /\ lm \in Logical
               /\ at = <<lm.x, lm.y>> /\ scale = lm.scale /\ transform = lm.transform
    BY <1>1, LogicalHas, StateHas DEF Of
  <2>4. lit => mons[i].current \in Mode
    <3>1. mons[i] \in Monitor
      BY <1>1, StateHas
    <3>2. lit => mons[i].current # None
      BY <1>1, <2>3 DEF LitIfLogical
    <3> QED
      BY <3>1, <3>2 DEF Monitor
  <2>5. lit => at \in Int \X Int /\ scale \in Nat \ {0} /\ transform \in 0..7
    BY <2>3 DEF Logical
  <2>8. lit \in BOOLEAN
    OBVIOUS
  <2> HIDE DEF lit, at, scale, transform, lm
  <2>9. h.enabled = lit /\ h.position = at
    BY <2>2
  <2>10. h = [name |-> h.name, enabled |-> h.enabled, mode |-> h.mode, position |-> h.position,
              scale |-> h.scale, transform |-> h.transform, color |-> h.color]
    BY <2>2
  <2>6. HeadShape(h) /\ h.enabled = lit /\ h.position = at
    BY <2>8, <2>9, <2>10 DEF HeadShape
  <2>7. lit => Lively(h)
    BY <2>2, <2>4, <2>5 DEF Lively
  <2> QED
    BY <2>3, <2>6, <2>7
<1>4. LitNames(state) \subseteq Names(Shown(snap))
  <2> SUFFICES ASSUME NEW n \in LitNames(state) PROVE n \in Names(Shown(snap))
    OBVIOUS
  <2>1. PICK lm \in state.logical : n \in lm.monitors
    BY DEF LitNames
  <2> QED
    BY <2>1, HeadLit, NamesAre
<1>5. Origin(state.logical)
  BY <1>1, StateOrigin
<1>6. OriginShown(snap)
  <2> DEFINE S == ToSet(Shown(snap))
  <2>1. \A h \in S : \E lm \in state.logical : h.position = <<lm.x, lm.y>>
    BY <1>1, <1>3, ShownSet
  <2>2. \A lm \in state.logical : \E h \in S : h.position = <<lm.x, lm.y>>
    <3> SUFFICES ASSUME NEW lm \in state.logical PROVE \E h \in S : h.position = <<lm.x, lm.y>>
      OBVIOUS
    <3>1. PICK n \in lm.monitors : TRUE
      BY <1>1 DEF Sound, LogicalsOK
    <3> QED
      BY <3>1, HeadLit
  <2> HIDE DEF S
  <2>3. \A h \in S : 0 <= h.position[1] /\ 0 <= h.position[2]
    BY <1>5, <2>1 DEF Origin
  <2>4. S # {} => state.logical # {}
    BY <2>1
  <2>5. S # {} => (\E h \in S : h.position[1] = 0) /\ (\E h \in S : h.position[2] = 0)
    <3> SUFFICES ASSUME S # {}
                 PROVE  (\E h \in S : h.position[1] = 0) /\ (\E h \in S : h.position[2] = 0)
      OBVIOUS
    <3>1. PICK lx \in state.logical : lx.x = 0
      BY <1>5, <2>4 DEF Origin
    <3>2. PICK ly \in state.logical : ly.y = 0
      BY <1>5, <2>4 DEF Origin
    <3>3. PICK hx \in S : hx.position = <<lx.x, lx.y>>
      BY <2>2
    <3>4. PICK hy \in S : hy.position = <<ly.x, ly.y>>
      BY <2>2
    <3> QED
      BY <3>1, <3>2, <3>3, <3>4
  <2> QED
    BY <2>3, <2>5 DEF OriginShown, S
<1> QED
  BY <1>3, <1>4, <1>6 DEF Pictured

LEMMA RightEdgeNat ==
    ASSUME NEW snap, SnapOK(snap), OriginShown(snap)
    PROVE  RightEdge(snap) \in Nat /\ (ToSet(Shown(snap)) = {} => RightEdge(snap) = 0)
<1> DEFINE Edge(h) == h.position[1] + Scaled(Across(h.mode, h.transform),
                                             ScaleIn(snap.physical, Or(h.scale, 100)))
           S == ToSet(Shown(snap))
           E == {Edge(h) : h \in S}
           f == [h \in S |-> Edge(h)]
<1>1. RightEdge(snap) = RightOf(E)
  BY DEF RightEdge
<1>2. ASSUME NEW h \in S PROVE Edge(h) \in Nat
  <2>1. h.mode \in Mode /\ h.position \in Int \X Int /\ h.scale \in (Nat \ {0}) \cup {None}
    BY ShownIs DEF HeadOK, EnableOK
  <2>2. Across(h.mode, h.transform) \in Nat
    BY <2>1 DEF Across, Mode
  <2>3. ScaleIn(snap.physical, Or(h.scale, 100)) \in Nat \ {0}
    BY <2>1 DEF ScaleIn, Or
  <2>4. Scaled(Across(h.mode, h.transform), ScaleIn(snap.physical, Or(h.scale, 100))) \in Nat
    BY <2>2, <2>3, ScaledNat
  <2>5. h.position[1] \in Nat
    BY <2>1 DEF OriginShown
  <2> QED
    BY <2>4, <2>5
<1>3. IsFiniteSet(E)
  <2>1. IsFiniteSet(S)
    BY ShownIs, ToSetFinite
  <2>2. IsFiniteSet({f[x] : x \in DOMAIN f})
    BY <2>1, ImageFinite
  <2>3. {f[x] : x \in DOMAIN f} = E
    OBVIOUS
  <2> QED
    BY <2>2, <2>3
<1>4. E \subseteq Nat
  BY <1>2
<1>5. S = {} => E = {}
  OBVIOUS
<1> HIDE DEF E
<1>6. RightOf(E) \in Nat /\ (E = {} => RightOf(E) = 0)
  BY <1>3, <1>4, RightOfNat DEF RightOf
<1> QED
  BY <1>1, <1>5, <1>6

-----------------------------------------------------------------------------
(* What the plans of `up` enable and disable.                              *)
LEMMA Built1 ==
    ASSUME NEW items, IsSeq(items), NEW x, NEW b, b = EnableAll(NewPlan, Append(items, x)),
           b # None
    PROVE  /\ b = [enables |-> Append(items, x), disables |-> {}, primary |-> None]
           /\ ToSet(Append(items, x)) = ToSet(items) \cup {x}
<1> DEFINE t == Append(items, x)
           all == << >> \o t
<1>1. IsSeq(t) /\ Len(t) \in Nat
  BY Adds, SeqHas
<1>2. all = t
  <2>1. IsSeq(<< >>) /\ Len(<< >>) = 0
    BY Nothing
  <2>2. /\ IsSeq(all) /\ Len(all) = Len(<< >>) + Len(t)
        /\ \A i \in 1..Len(t) : all[Len(<< >>) + i] = t[i]
    BY <1>1, <2>1, Joined
  <2> HIDE DEF t, all
  <2>3. Len(all) = Len(t) /\ \A i \in 1..Len(t) : all[i] = t[i]
    BY <1>1, <2>1, <2>2
  <2> QED
    BY <1>1, <2>2, <2>3, SameSeq
<1>3. b = [NewPlan EXCEPT !.enables = all]
  BY DEF EnableAll, NewPlan
<1> HIDE DEF all
<1>4. b = [enables |-> all, disables |-> {}, primary |-> None]
  BY <1>3 DEF NewPlan
<1>5. ToSet(t) = ToSet(items) \cup {x}
  BY ToSetAdds
<1> QED
  BY <1>2, <1>4, <1>5

LEMMA ActiveSet ==
    ASSUME NEW snap, SnapOK(snap)
    PROVE  ToSet(ActiveEnables(snap)) = {AsEnabled(h) : h \in ToSet(Shown(snap))}
BY DEF ActiveEnables, ToSet

(* The enables that keep what was on, but for the names of `off`.          *)
Keeping(snap, off) == {AsEnabled(h) : h \in {k \in ToSet(Shown(snap)) : k.name \notin off}}

LEMMA PlaceIs ==
    ASSUME NEW req, NEW pre, SnapOK(pre), NEW n, NEW plan, plan = PlacePlan(req, pre, n),
           plan # None
    PROVE  /\ ToSet(plan.enables) = Keeping(pre, {}) \cup {AsEnable(req, n, AppendedAt(pre))}
           /\ plan.disables = {} /\ plan.primary = None
<1> DEFINE items == ActiveEnables(pre)
           x == AsEnable(req, n, AppendedAt(pre))
<1>1. IsSeq(items)
  BY ActiveIs
<1>2. ToSet(items) = Keeping(pre, {})
  BY ActiveSet DEF Keeping
<1>3. plan = EnableAll(NewPlan, Append(items, x))
  BY DEF PlacePlan
<1> HIDE DEF items, x
<1>4. /\ plan = [enables |-> Append(items, x), disables |-> {}, primary |-> None]
      /\ ToSet(Append(items, x)) = ToSet(items) \cup {x}
  BY <1>1, <1>3, Built1
<1> QED
  BY <1>2, <1>4 DEF x

LEMMA LayoutIs ==
    ASSUME NEW req, NEW pre, SnapOK(pre), NEW n, NEW real, NEW plan,
           plan = LayoutPlan(req, pre, n, real), plan # None
    PROVE  LET off == DisabledBy(req, real)
               x == AsEnable(req, n, Position(req, pre, real))
           IN /\ ToSet(plan.enables) = Keeping(pre, off) \cup {x}
              /\ plan.disables = off /\ off \cap Names(plan.enables) = {}
              /\ plan.primary = IF req.primary THEN n ELSE None
<1> DEFINE off == DisabledBy(req, real)
           active == ActiveEnables(pre)
           E == {e \in ToSet(active) : e.name \notin off}
           kept == Only(active, E)
           x == AsEnable(req, n, Position(req, pre, real))
           b == EnableAll(NewPlan, Append(kept, x))
           c == DisableAll(b, off)
<1>1. IsSeq(kept) /\ ToSet(kept) = E
  BY ActiveIs, OnlySet
<1>2. E = Keeping(pre, off)
  BY ActiveSet DEF Keeping, AsEnabled
<1>3. plan = IF req.primary THEN SetPrimary(c, n) ELSE c
  BY DEF LayoutPlan
<1> HIDE DEF off, kept, x, E
<1>4. c # None
  BY <1>3 DEF SetPrimary
<1>5. b # None /\ off \cap Names(b.enables) = {}
  BY <1>4 DEF DisableAll
<1>6. /\ b = [enables |-> Append(kept, x), disables |-> {}, primary |-> None]
      /\ ToSet(Append(kept, x)) = ToSet(kept) \cup {x}
  BY <1>1, <1>5, Built1
<1>7. c = [enables |-> Append(kept, x), disables |-> off, primary |-> None]
  <2>1. c = [b EXCEPT !.disables = @ \cup off]
    BY <1>4 DEF DisableAll
  <2> HIDE DEF b, c
  <2> QED
    BY <1>6, <2>1
<1> HIDE DEF b, c
<1>8. plan = [enables |-> Append(kept, x), disables |-> off,
              primary |-> IF req.primary THEN n ELSE None]
  <2>1. CASE req.primary
    <3>1. plan = [c EXCEPT !.primary = n]
      BY <1>3, <2>1 DEF SetPrimary
    <3> QED
      BY <1>7, <2>1, <3>1
  <2>2. CASE ~req.primary
    BY <1>3, <1>7, <2>2
  <2> QED
    BY <2>1, <2>2
<1> QED
  BY <1>1, <1>2, <1>5, <1>6, <1>8 DEF off, x

-----------------------------------------------------------------------------
(* A plan that says where each output goes: the configuration is what it   *)
(* does not name and what it enables and can be lit, all moved alike, and  *)
(* not at all if they begin at the origin.                                 *)
Put(plan, state, e) == Submitted(plan, state, {}, e)
Laid(plan, state) ==
    Untouched(plan, state) \cup
        {Put(plan, state, e) : e \in {k \in ToSet(plan.enables) : Lightable(state, k)}}

LEMMA PutAnywhere ==
    ASSUME NEW plan, NEW state, NEW placed, NEW e, e.position # None
    PROVE  Submitted(plan, state, placed, e) = Put(plan, state, e)
BY DEF Put, Submitted

LEMMA LaidIs ==
    ASSUME NEW plan, NEW state, Sound(state), EnablesOK(plan.enables),
           \A e \in ToSet(plan.enables) : e.position # None,
           ToMutterConfig(plan, state) # {}
    PROVE  /\ ConfigOK(state, Laid(plan, state)) /\ Laid(plan, state) # {}
           /\ \E dx \in Int, dy \in Int :
                 /\ ToMutterConfig(plan, state) = {Shifted(lc, dx, dy) : lc \in Laid(plan, state)}
                 /\ Origin(Laid(plan, state)) => dx = 0 /\ dy = 0
<1> DEFINE U == Untouched(plan, state)
           enables == Lightables(plan, state)
           n == Len(enables)
           P(i) == U \cup {Put(plan, state, enables[j]) : j \in 1..i}
<1>1. /\ IsSeq(enables) /\ n \in Nat /\ DOMAIN enables = 1..n
      /\ ToSet(enables) = {k \in ToSet(plan.enables) : Lightable(state, k)}
  <2>1. IsSeq(plan.enables)
    BY DEF EnablesOK
  <2>2. IsSeq(enables) /\ ToSet(enables) = {k \in ToSet(plan.enables) : Lightable(state, k)}
    BY <2>1, OnlySet DEF Lightables
  <2> QED
    BY <2>2, SeqHas
<1>2. PICK F : /\ Placed(plan, state, F, n)
               /\ F[n] # {} /\ ToMutterConfig(plan, state) = Anchored(F[n])
               /\ Extends(plan, state, F[n])
  BY ConfigSteps
<1> HIDE DEF n, enables
<1>3. F[0] = U /\ \A i \in 1..n : F[i] = F[i - 1] \cup {Submitted(plan, state, F[i - 1], enables[i])}
  <2>1. F = [i \in 0..n |-> IF i = 0 THEN U
                            ELSE F[i - 1] \cup {Submitted(plan, state, F[i - 1], enables[i])}]
    BY <1>2 DEF Placed, enables
  <2>2. 0 \in 0..n /\ \A i \in 1..n : i \in 0..n /\ i # 0
    BY <1>1
  <2> HIDE DEF U
  <2> QED
    BY <2>1, <2>2
<1>4. \A i \in 1..n : enables[i].position # None
  BY <1>1 DEF ToSet
<1>5. \A i \in 1..n : F[i] = F[i - 1] \cup {Put(plan, state, enables[i])}
  BY <1>3, <1>4, PutAnywhere
<1> DEFINE Good == {i \in Nat : i <= n => F[i] = P(i)}
<1>6. 0 \in Good
  BY <1>3
<1>7. ASSUME NEW k \in Good \cap Nat PROVE k + 1 \in Good
  <2> SUFFICES ASSUME k + 1 <= n PROVE F[k + 1] = P(k + 1)
    OBVIOUS
  <2>1. k + 1 \in 1..n /\ k <= n /\ (k + 1) - 1 = k
    BY <1>1
  <2>2. F[k + 1] = P(k) \cup {Put(plan, state, enables[k + 1])}
    BY <1>5, <2>1
  <2>3. 1..(k + 1) = (1..k) \cup {k + 1}
    OBVIOUS
  <2>4. P(k + 1) = P(k) \cup {Put(plan, state, enables[k + 1])}
    BY <2>3
  <2> QED
    BY <2>2, <2>4
<1> HIDE DEF Good
<1>8. n \in Good
  BY <1>1, <1>6, <1>7, AllNat
<1>9. F[n] = P(n)
  BY <1>1, <1>8 DEF Good
<1>10. {Put(plan, state, enables[j]) : j \in 1..n} = {Put(plan, state, e) : e \in ToSet(enables)}
  BY <1>1 DEF ToSet
<1>11. P(n) = Laid(plan, state)
  BY <1>1, <1>10 DEF Laid
<1> HIDE DEF P
<1>12. ConfigOK(state, Laid(plan, state)) /\ Laid(plan, state) # {}
  BY <1>2, <1>9, <1>11 DEF Extends
<1>13. PICK dx \in Int, dy \in Int :
         /\ Anchored(Laid(plan, state)) = {Shifted(lc, dx, dy) : lc \in Laid(plan, state)}
         /\ AtOrigin(Laid(plan, state)) => dx = 0 /\ dy = 0
  BY <1>12, AnchoredIs
<1>14. AtOrigin(Laid(plan, state)) <=> Origin(Laid(plan, state))
  BY <1>12, ConfigOrigin
<1> QED
  BY <1>2, <1>9, <1>11, <1>12, <1>13, <1>14

-----------------------------------------------------------------------------
(* A mode that a monitor has is the one that is chosen.                    *)
LEMMA NearestHas ==
    ASSUME NEW s, IsSeq(s), NEW mhz, NEW least, NEW j \in 1..Len(s),
           Apart(s[j].mhz, mhz) = least
    PROVE  \E i \in 1..Len(s) : Nearest(s, mhz, least) = s[i] /\ Apart(s[i].mhz, mhz) = least
<1> DEFINE I == {i \in 1..Len(s) : Apart(s[i].mhz, mhz) = least}
<1>1. Nearest(s, mhz, least) =
          IF I = {} THEN None ELSE IF Min(I) = 0 THEN None ELSE s[Min(I)]
  BY SMT DEF Nearest, FirstOf, SelectInSeq
<1>2. Len(s) \in Nat /\ DOMAIN s = 1..Len(s)
  BY SeqHas
<1>3. I # {}
  OBVIOUS
<1>4. Min(I) \in I
  BY <1>2, <1>3, LeastIndex
<1>5. Min(I) \in 1..Len(s) /\ Apart(s[Min(I)].mhz, mhz) = least
  BY <1>4
<1>6. Min(I) # 0
  BY <1>2, <1>5
<1> HIDE DEF I
<1> QED
  BY <1>1, <1>3, <1>5, <1>6

LEMMA ApartIs ==
    ASSUME NEW a \in Nat, NEW b \in Nat
    PROVE  Apart(a, b) \in Nat /\ (Apart(a, b) = 0 <=> a = b)
BY DEF Apart

LEMMA ModeHas ==
    ASSUME NEW mon, mon.modes \in Seq(Mode), NEW want, want \in ToSet(mon.modes)
    PROVE  ModeFor(mon, want) = want
<1> DEFINE like == Only(mon.modes, {k \in ToSet(mon.modes) : k.w = want.w /\ k.h = want.h})
           D == {Apart(like[i].mhz, want.mhz) : i \in DOMAIN like}
           least == Min(D)
           near == Nearest(like, want.mhz, least)
<1>1. IsSeq(mon.modes) /\ ToSet(mon.modes) \subseteq Mode
  BY SeqIs DEF ToSet
<1>2. /\ IsSeq(like)
      /\ ToSet(like) = {k \in ToSet(mon.modes) : k.w = want.w /\ k.h = want.h}
  BY <1>1, OnlySet
<1>3. want \in Mode /\ want # None
  BY <1>1, NoneIsNothing
<1>4. ModeFor(mon, want) = IF like = << >> THEN None ELSE near
  BY <1>3 DEF ModeFor, Nearest
<1> HIDE DEF like, near
<1>5. DOMAIN like = 1..Len(like) /\ Len(like) \in Nat
  BY <1>2, SeqHas
<1>6. ASSUME NEW i \in DOMAIN like
      PROVE  like[i] \in Mode /\ like[i].w = want.w /\ like[i].h = want.h
  <2>1. like[i] \in ToSet(like)
    BY DEF ToSet
  <2> QED
    BY <1>1, <1>2, <2>1
<1>7. PICK j \in DOMAIN like : like[j] = want
  BY <1>2 DEF ToSet
<1>8. \A i \in DOMAIN like : /\ Apart(like[i].mhz, want.mhz) \in Nat
                             /\ Apart(like[i].mhz, want.mhz) = 0 <=> like[i].mhz = want.mhz
  <2>1. \A i \in DOMAIN like : like[i].mhz \in Nat /\ want.mhz \in Nat
    BY <1>3, <1>6 DEF Mode
  <2> QED
    BY <2>1, ApartIs
<1>9. IsFiniteSet(D)
  <2> DEFINE f == [i \in DOMAIN like |-> Apart(like[i].mhz, want.mhz)]
  <2>1. IsFiniteSet(DOMAIN f)
    BY <1>5, FS_Interval
  <2>2. IsFiniteSet({f[x] : x \in DOMAIN f})
    BY <2>1, ImageFinite
  <2>3. {f[x] : x \in DOMAIN f} = D
    OBVIOUS
  <2> QED
    BY <2>2, <2>3
<1>10. least = 0
  <2>1. D \subseteq Int /\ 0 \in D /\ \A y \in D : 0 <= y
    BY <1>7, <1>8
  <2> HIDE DEF D
  <2> QED
    BY <1>9, <2>1, LeastIsZero
<1> HIDE DEF D, least
<1>11. PICK i \in 1..Len(like) : near = like[i] /\ Apart(like[i].mhz, want.mhz) = least
  <2>1. j \in 1..Len(like) /\ Apart(like[j].mhz, want.mhz) = least
    BY <1>5, <1>7, <1>8, <1>10
  <2> QED
    BY <1>2, <2>1, NearestHas DEF near
<1>12. near = want
  BY <1>3, <1>5, <1>6, <1>8, <1>10, <1>11 DEF Mode
<1>13. like # << >>
  BY <1>5, <1>7
<1> QED
  BY <1>4, <1>12, <1>13

(* Any other is of the same size.                                          *)
LEMMA ModeLike ==
    ASSUME NEW mon, IsSeq(mon.modes), NEW want, want # None, ModeFor(mon, want) # None
    PROVE  ModeFor(mon, want).w = want.w /\ ModeFor(mon, want).h = want.h
<1> DEFINE like == Only(mon.modes, {k \in ToSet(mon.modes) : k.w = want.w /\ k.h = want.h})
           least == Min({Apart(like[i].mhz, want.mhz) : i \in DOMAIN like})
           near == Nearest(like, want.mhz, least)
<1>1. IsSeq(like) /\ \A k \in ToSet(like) : k.w = want.w /\ k.h = want.h
  BY OnlySet
<1>2. ModeFor(mon, want) = IF like = << >> THEN None ELSE near
  BY DEF ModeFor, Nearest
<1> HIDE DEF like, least
<1>3. near # None => near \in ToSet(like)
  BY <1>1, NearestIs
<1> QED
  BY <1>1, <1>2, <1>3

(* What is submitted for an output that is to stay as it was.              *)
LEMMA PutKept ==
    ASSUME NEW plan, NEW state, Sound(state), NEW h, HeadOK(h), Lively(h), Recalled(h, state)
    PROVE  /\ Lightable(state, AsEnabled(h))
           /\ Put(plan, state, AsEnabled(h)) =
                  [x |-> h.position[1], y |-> h.position[2], scale |-> h.scale,
                   transform |-> h.transform,
                   primary |-> Put(plan, state, AsEnabled(h)).primary,
                   monitors |-> {[name |-> h.name, mode |-> h.mode,
                                  color |-> Or(h.color, MonitorNamed(state, h.name).color)]}]
<1> DEFINE e == AsEnabled(h)
           mon == MonitorNamed(state, h.name)
           lc == Put(plan, state, e)
           was == LogicalOf(state, h.name)
           main == IF plan.primary # None THEN plan.primary = h.name
                   ELSE was # None /\ was.primary
           color == Or(h.color, mon.color)
<1>1. PICK i \in DOMAIN state.monitors :
        /\ state.monitors[i].name = h.name
        /\ h.mode \in ToSet(state.monitors[i].modes) \cup {None}
  BY DEF Recalled
<1>2. mon = state.monitors[i] /\ mon \in Monitor /\ mon # None
  BY <1>1, MonitorAt, StateHas, NoneIsNothing
<1>3. h.mode # None /\ h.position # None /\ h.scale # None /\ h.transform # None
  BY NoneIsNothing DEF Lively
<1>4. ModeFor(mon, h.mode) = h.mode
  <2>1. mon.modes \in Seq(Mode) /\ h.mode \in ToSet(mon.modes)
    BY <1>1, <1>2, <1>3 DEF Monitor
  <2> QED
    BY <2>1, ModeHas
<1>5. /\ e.name = h.name /\ e.mode = h.mode /\ e.position = h.position /\ e.scale = h.scale
      /\ e.transform = h.transform /\ e.color = h.color
  BY DEF AsEnabled
<1> HIDE DEF e, mon
<1>6. Lightable(state, e)
  BY <1>2, <1>3, <1>4, <1>5 DEF Lightable, mon
<1>7. lc = [x |-> h.position[1], y |-> h.position[2], scale |-> h.scale,
            transform |-> h.transform, primary |-> main,
            monitors |-> {[name |-> h.name, mode |-> h.mode, color |-> color]}]
  BY <1>3, <1>4, <1>5 DEF Put, Submitted, Or, mon
<1> HIDE DEF lc, main, color
<1>8. lc.primary = main
  BY <1>7
<1> QED
  BY <1>6, <1>7, <1>8 DEF lc, e, color, mon

-----------------------------------------------------------------------------
(* What is then seen of it.                                                *)
LEMMA HeadNow ==
    ASSUME NEW state, Sound(state), NEW i \in DOMAIN state.monitors
    PROVE  HeadNamed(SnapshotOf(state), state.monitors[i].name) = HeadOf(state, state.monitors[i])
<1> DEFINE n == state.monitors[i].name
           s == SnapshotOf(state).heads
           I == {j \in 1..Len(s) : s[j].name = n}
<1>1. /\ IsSeq(s) /\ s = [j \in DOMAIN state.monitors |-> HeadOf(state, state.monitors[j])]
  BY SnapshotIs DEF SnapshotOf, SnapOK
<1>2. /\ Len(s) \in Nat /\ DOMAIN s = 1..Len(s) /\ DOMAIN s = DOMAIN state.monitors
      /\ \A j \in DOMAIN s : s[j].name = state.monitors[j].name
  BY <1>1, SeqHas DEF HeadOf
<1>3. HeadNamed(SnapshotOf(state), n) =
          IF I = {} THEN None ELSE IF Min(I) = 0 THEN None ELSE s[Min(I)]
  BY SMT DEF HeadNamed, FirstOf, SelectInSeq
<1>4. i \in I
  BY <1>2
<1>5. Min(I) \in I
  BY <1>2, <1>4, LeastIndex
<1>6. Min(I) = i
  BY <1>2, <1>4, <1>5 DEF Sound, MonitorsOK
<1>7. i # 0 /\ s[i] = HeadOf(state, state.monitors[i])
  BY <1>1, <1>2, <1>4
<1> HIDE DEF I, s
<1> QED
  BY <1>3, <1>4, <1>6, <1>7

(* The color a monitor has after a request.                                *)
Tinted(mon, color) == IF mon.color = None THEN None ELSE Or(color, "sdr")

LEMMA LaidNow ==
    ASSUME NEW state, Sound(state), NEW config, ConfigOK(state, config), NEW lc \in config,
           NEW m, lc.monitors = {m}
    PROVE  LET now == Obeyed(state, config)
               mon == MonitorNamed(state, m.name)
               k == LogicalOf(now, m.name)
           IN /\ k # None /\ k.x = lc.x /\ k.y = lc.y /\ k.scale = lc.scale
              /\ k.primary = lc.primary
              /\ MonitorNamed(now, m.name) # None
              /\ MonitorNamed(now, m.name).current = m.mode
              /\ HeadNamed(SnapshotOf(now), m.name) # None
              /\ HeadNamed(SnapshotOf(now), m.name) =
                     [name |-> m.name, enabled |-> TRUE, mode |-> m.mode,
                      position |-> <<lc.x, lc.y>>, scale |-> lc.scale,
                      transform |-> lc.transform, color |-> Tinted(mon, m.color)]
<1> DEFINE now == Obeyed(state, config)
           color == Tinted(MonitorNamed(state, m.name), m.color)
           j == Becomes(lc)
<1>1. m \in Showing(state) /\ lc \in Part(state)
  BY DEF ConfigOK, Part
<1>2. PICK i \in DOMAIN state.monitors : state.monitors[i].name = m.name
  BY <1>1 DEF Showing
<1>3. /\ MutterOK(now) /\ DOMAIN now.monitors = DOMAIN state.monitors
      /\ now.monitors[i] = Obeying(config, state.monitors[i])
      /\ now.logical = {Becomes(a) : a \in config}
  BY Obeys DEF Becomes
<1>4. Sound(now)
  BY <1>3, MutterIs
<1>5. j \in now.logical
  BY <1>3
<1>6. /\ j.x = lc.x /\ j.y = lc.y /\ j.scale = lc.scale /\ j.primary = lc.primary
      /\ j.transform = lc.transform /\ m.name \in j.monitors
  BY <1>1, BecomesIs
<1>7. MonitorNamed(state, m.name) = state.monitors[i]
  BY <1>2, MonitorAt
<1> DEFINE mon == state.monitors[i]
           later == now.monitors[i]
<1>8. later = [name |-> mon.name, modes |-> mon.modes, preferred |-> mon.preferred,
               current |-> m.mode, color |-> color]
  BY <1>2, <1>3, <1>7, ObeyingIs DEF Tinted
<1> HIDE DEF now, color, j, later
<1>9. later.name = m.name /\ later.current = m.mode /\ later.color = color
  BY <1>2, <1>8
<1>10. LogicalOf(now, m.name) = j
  BY <1>4, <1>5, <1>6, LogicalIs
<1>11. j # None
  BY <1>4, <1>5, StateHas, NoneIsNothing
<1>12. MonitorNamed(now, m.name) = later /\ later \in Monitor
  BY <1>3, <1>4, <1>9, MonitorAt, StateHas DEF later
<1>13. HeadNamed(SnapshotOf(now), m.name) = HeadOf(now, later)
  BY <1>3, <1>4, <1>9, HeadNow DEF later
<1>14. HeadOf(now, later) =
          [name |-> m.name, enabled |-> TRUE, mode |-> m.mode, position |-> <<lc.x, lc.y>>,
           scale |-> lc.scale, transform |-> lc.transform, color |-> color]
  BY <1>6, <1>9, <1>10, <1>11 DEF HeadOf, Of
<1>15. HeadNamed(SnapshotOf(now), m.name) # None
  <2> DEFINE h == [name |-> m.name, enabled |-> TRUE, mode |-> m.mode,
                   position |-> <<lc.x, lc.y>>, scale |-> lc.scale,
                   transform |-> lc.transform, color |-> color]
  <2>1. m.name \in Output /\ m.mode \in Mode
    BY <1>1 DEF Showing
  <2>2. color \in Color \cup {None}
    BY <1>9, <1>12 DEF Monitor
  <2>3. <<lc.x, lc.y>> \in Int \X Int /\ lc.scale \in Nat \ {0} /\ lc.transform \in 0..7
    BY <1>1 DEF Part
  <2>4. h \in HeadState
    BY <2>1, <2>2, <2>3 DEF HeadState
  <2> HIDE DEF h
  <2>5. h # None
    BY <2>4, NoneIsNothing
  <2> QED
    BY <1>13, <1>14, <2>5 DEF h
<1> QED
  BY <1>6, <1>9, <1>10, <1>11, <1>12, <1>13, <1>14, <1>15, NoneIsNothing DEF now, color, j

-----------------------------------------------------------------------------
(* The layout that the plan of `up` brings about, from a state that has    *)
(* what the snapshot shows and shows nothing else but the head.            *)
Kept(req, pre, real) ==
    {h \in ToSet(Shown(pre)) : h.name \notin DisabledBy(req, real)}
Familiarly(pre, n, state) ==
    /\ SnapOK(pre) /\ Pictured(pre) /\ MutterOK(state)
    /\ \A h \in ToSet(pre.heads) : Recalled(h, state)
    /\ LitNames(state) \subseteq Names(Shown(pre)) \cup {n}

LEMMA ShownLively ==
    ASSUME NEW pre, SnapOK(pre), Pictured(pre), NEW h \in ToSet(Shown(pre))
    PROVE  h \in ToSet(pre.heads) /\ h.enabled /\ HeadOK(h) /\ HeadShape(h) /\ Lively(h)
BY ShownSet, ShownIs DEF Pictured

(* It names whatever is on.                                                *)
LEMMA AllNamed ==
    ASSUME NEW plan, NEW state, NEW pre, NEW n, Familiarly(pre, n, state),
           Names(Shown(pre)) \cup {n} \subseteq Named(plan)
    PROVE  Untouched(plan, state) = {}
<1>1. Sound(state)
  BY MutterIs DEF Familiarly
<1>2. \A lm \in state.logical : lm.monitors # {} /\ lm.monitors \subseteq Named(plan)
  BY <1>1 DEF Sound, LogicalsOK, Familiarly, LitNames
<1>3. {k \in state.logical : k.monitors \cap Named(plan) = {}} = {}
  BY <1>2
<1> QED
  BY <1>3 DEF Untouched

LEMMA LayoutNames ==
    ASSUME NEW req, NEW pre, SnapOK(pre), NEW n, NEW real, NEW plan,
           plan = LayoutPlan(req, pre, n, real), plan # None
    PROVE  /\ Names(Shown(pre)) \cup {n} \subseteq Named(plan)
           /\ Names(plan.enables) = {h.name : h \in Kept(req, pre, real)} \cup {n}
           /\ n \notin DisabledBy(req, real)
<1> DEFINE off == DisabledBy(req, real)
           x == AsEnable(req, n, Position(req, pre, real))
<1>1. /\ ToSet(plan.enables) = Keeping(pre, off) \cup {x}
      /\ plan.disables = off /\ off \cap Names(plan.enables) = {}
  BY LayoutIs
<1>2. x.name = n
  BY DEF AsEnable
<1>3. \A a : a \in Names(plan.enables) <=> \E e \in ToSet(plan.enables) : e.name = a
  BY NamesAre
<1>4. \A h : AsEnabled(h).name = h.name
  BY DEF AsEnabled
<1> HIDE DEF x, off
<1>5. \A e : e \in Keeping(pre, off) <=> \E h \in Kept(req, pre, real) : e = AsEnabled(h)
  BY DEF Keeping, Kept, off
<1>6. Names(plan.enables) = {h.name : h \in Kept(req, pre, real)} \cup {n}
  BY <1>1, <1>2, <1>3, <1>4, <1>5
<1>7. ASSUME NEW a \in Names(Shown(pre)) PROVE a \in Named(plan)
  <2>1. PICK h \in ToSet(Shown(pre)) : h.name = a
    BY NamesAre
  <2>2. CASE a \in off
    BY <1>1, <2>2 DEF Named
  <2>3. CASE a \notin off
    BY <1>6, <2>1, <2>3 DEF Named, Kept, off
  <2> QED
    BY <2>2, <2>3
<1>8. n \in Names(plan.enables)
  BY <1>6
<1> QED
  BY <1>1, <1>6, <1>7, <1>8 DEF Named, off

(* It is at the origin if nothing goes or all goes.                        *)
LEMMA LayoutOrigin ==
    ASSUME NEW req, NEW pre, NEW n, NEW state, Familiarly(pre, n, state), NEW real, NEW plan,
           plan = LayoutPlan(req, pre, n, real), plan # None, Laid(plan, state) # {},
           ~req.disable \/ EnabledNames(pre) \subseteq ToSet(real)
    PROVE  Origin(Laid(plan, state))
<1> DEFINE off == DisabledBy(req, real)
           at == Position(req, pre, real)
           x == AsEnable(req, n, at)
           K == Kept(req, pre, real)
           S == ToSet(Shown(pre))
<1>1. ToSet(plan.enables) = Keeping(pre, off) \cup {x}
  BY LayoutIs DEF Familiarly
<1>2. Untouched(plan, state) = {}
  BY AllNamed, LayoutNames DEF Familiarly
<1>3. Put(plan, state, x).x = at[1] /\ Put(plan, state, x).y = at[2] /\ at # None
  <2>1. at \in Int \X Int
    BY RightEdgeIs DEF Position, AppendedAt, Familiarly
  <2>2. at # None
    BY <2>1, NoneIsNothing
  <2>3. x.position = at
    BY DEF AsEnable
  <2> HIDE DEF x, at
  <2> QED
    BY <2>2, <2>3 DEF Put, Submitted
<1>4. ASSUME NEW h \in K
      PROVE  /\ Lightable(state, AsEnabled(h)) /\ AsEnabled(h) \in Keeping(pre, off)
             /\ Put(plan, state, AsEnabled(h)).x = h.position[1]
             /\ Put(plan, state, AsEnabled(h)).y = h.position[2]
  <2>1. h \in S /\ h.name \notin off
    BY DEF Kept
  <2>2. HeadOK(h) /\ Lively(h) /\ Recalled(h, state) /\ Sound(state)
    BY <2>1, ShownLively, MutterIs DEF Familiarly
  <2> DEFINE lc == Put(plan, state, AsEnabled(h))
             main == lc.primary
             shows == {[name |-> h.name, mode |-> h.mode,
                        color |-> Or(h.color, MonitorNamed(state, h.name).color)]}
  <2>3. /\ Lightable(state, AsEnabled(h))
        /\ lc = [x |-> h.position[1], y |-> h.position[2], scale |-> h.scale,
                 transform |-> h.transform, primary |-> main, monitors |-> shows]
    BY <2>2, PutKept
  <2> HIDE DEF lc, main, shows
  <2>4. lc.x = h.position[1] /\ lc.y = h.position[2]
    BY <2>3
  <2> QED
    BY <2>1, <2>3, <2>4 DEF lc, Keeping
<1>5. \A e \in Keeping(pre, off) : \E h \in K : e = AsEnabled(h)
  BY DEF Keeping, Kept
<1> HIDE DEF x
<1>6. ASSUME NEW lc \in Laid(plan, state)
      PROVE  lc = Put(plan, state, x) \/ \E h \in K : lc = Put(plan, state, AsEnabled(h))
  BY <1>1, <1>2, <1>5 DEF Laid
<1>7. CASE req.disable
  <2>1. EnabledNames(pre) \subseteq ToSet(real)
    BY <1>7
  <2>2. K = {}
    <3> SUFFICES ASSUME NEW h \in K PROVE FALSE
      OBVIOUS
    <3>1. h \in ToSet(pre.heads) /\ h.enabled
      BY ShownLively DEF Kept, Familiarly
    <3>2. h.name \in ToSet(real)
      BY <2>1, <3>1 DEF EnabledNames
    <3> QED
      BY <1>7, <3>2 DEF Kept, DisabledBy
  <2>3. at = <<0, 0>>
    BY <1>7, <2>1 DEF Position
  <2>4. \A lc \in Laid(plan, state) : lc.x = 0 /\ lc.y = 0
    BY <1>3, <1>6, <2>2, <2>3
  <2> QED
    BY <2>4 DEF Origin
<1>8. CASE ~req.disable
  <2>1. at = <<RightEdge(pre), 0>>
    BY <1>8 DEF Position, AppendedAt
  <2>2. RightEdge(pre) \in Nat /\ (S = {} => RightEdge(pre) = 0)
    BY RightEdgeNat DEF Familiarly, Pictured
  <2>3. K = S
    BY <1>8 DEF Kept, DisabledBy
  <2>4. OriginShown(pre)
    BY DEF Familiarly, Pictured
  <2>5. \A lc \in Laid(plan, state) : 0 <= lc.x /\ 0 <= lc.y
    <3> SUFFICES ASSUME NEW lc \in Laid(plan, state) PROVE 0 <= lc.x /\ 0 <= lc.y
      OBVIOUS
    <3>1. CASE lc = Put(plan, state, x)
      BY <1>3, <2>1, <2>2, <3>1
    <3>2. CASE \E h \in K : lc = Put(plan, state, AsEnabled(h))
      <4>1. PICK h \in K : lc = Put(plan, state, AsEnabled(h))
        BY <3>2
      <4>2. lc.x = h.position[1] /\ lc.y = h.position[2]
        BY <1>4, <4>1
      <4>3. 0 <= h.position[1] /\ 0 <= h.position[2]
        BY <2>3, <2>4 DEF OriginShown
      <4> QED
        BY <4>2, <4>3
    <3> QED
      BY <1>6, <3>1, <3>2
  <2>6. CASE S = {}
    <3>1. \A lc \in Laid(plan, state) : lc.x = 0 /\ lc.y = 0
      BY <1>3, <1>6, <2>1, <2>2, <2>3, <2>6
    <3> QED
      BY <2>5, <3>1 DEF Origin
  <2>7. CASE S # {}
    <3>1. \A h \in K : Put(plan, state, AsEnabled(h)) \in Laid(plan, state)
      BY <1>1, <1>4 DEF Laid
    <3>2. (\E h \in K : h.position[1] = 0) /\ (\E h \in K : h.position[2] = 0)
      BY <2>3, <2>4, <2>7 DEF OriginShown
    <3>3. (\E lc \in Laid(plan, state) : lc.x = 0) /\ (\E lc \in Laid(plan, state) : lc.y = 0)
      BY <1>4, <3>1, <3>2
    <3> QED
      BY <2>5, <3>3 DEF Origin
  <2> QED
    BY <2>6, <2>7
<1> QED
  BY <1>7, <1>8

-----------------------------------------------------------------------------
(* Once it has been carried out: each output that is to stay is as it was, *)
(* moved as all the others are.                                            *)
Where(h, dx, dy) ==
    [name |-> h.name, enabled |-> TRUE, mode |-> h.mode,
     position |-> <<h.position[1] - dx, h.position[2] - dy>>, scale |-> h.scale,
     transform |-> h.transform, color |-> h.color]

LEMMA KeptNow ==
    ASSUME NEW plan, NEW state, Sound(state), NEW config, ConfigOK(state, config), NEW dx, NEW dy,
           NEW h, HeadOK(h), Lively(h), Recalled(h, state),
           Shifted(Put(plan, state, AsEnabled(h)), dx, dy) \in config
    PROVE  HeadNamed(SnapshotOf(Obeyed(state, config)), h.name) = Where(h, dx, dy)
<1> DEFINE mon == MonitorNamed(state, h.name)
           tint == Or(h.color, mon.color)
           m == [name |-> h.name, mode |-> h.mode, color |-> tint]
           put == Put(plan, state, AsEnabled(h))
           main == put.primary
           lc == Shifted(put, dx, dy)
           now == HeadNamed(SnapshotOf(Obeyed(state, config)), h.name)
<1>1. put = [x |-> h.position[1], y |-> h.position[2], scale |-> h.scale,
             transform |-> h.transform, primary |-> main, monitors |-> {m}]
  BY PutKept
<1>2. Tinted(mon, tint) = h.color
  <2>1. PICK i \in DOMAIN state.monitors :
          /\ state.monitors[i].name = h.name
          /\ h.color = None <=> state.monitors[i].color = None
    BY DEF Recalled
  <2>2. mon = state.monitors[i]
    BY <2>1, MonitorAt
  <2> HIDE DEF mon
  <2> QED
    BY <2>1, <2>2 DEF Tinted, Or
<1> HIDE DEF put, main
<1>3. /\ lc.x = h.position[1] - dx /\ lc.y = h.position[2] - dy /\ lc.scale = h.scale
      /\ lc.transform = h.transform /\ lc.monitors = {m}
  BY <1>1 DEF Shifted
<1>4. lc \in config
  BY DEF put
<1>5. m.name = h.name /\ m.mode = h.mode /\ m.color = tint
  OBVIOUS
<1> HIDE DEF lc, m, tint, mon
<1>6. HeadNamed(SnapshotOf(Obeyed(state, config)), m.name) =
          [name |-> m.name, enabled |-> TRUE, mode |-> m.mode, position |-> <<lc.x, lc.y>>,
           scale |-> lc.scale, transform |-> lc.transform,
           color |-> Tinted(MonitorNamed(state, m.name), m.color)]
  BY <1>3, <1>4, LaidNow
<1>7. Tinted(MonitorNamed(state, m.name), m.color) = h.color
  BY <1>2, <1>5 DEF mon
<1> QED
  BY <1>3, <1>5, <1>6, <1>7 DEF Where

LEMMA LayoutDone ==
    ASSUME NEW req, ScaleOK(req.scale), NEW pre, NEW n, NEW state, Familiarly(pre, n, state),
           NEW real, NEW plan, plan = LayoutPlan(req, pre, n, real), plan # None,
           NEW config, config = ToMutterConfig(plan, state), config # {}
    PROVE  /\ ConfigOK(state, config)
           /\ \E dx \in Int, dy \in Int :
                 /\ config = {Shifted(lc, dx, dy) : lc \in Laid(plan, state)}
                 /\ ~req.disable \/ EnabledNames(pre) \subseteq ToSet(real) => dx = 0 /\ dy = 0
                 /\ \A h \in Kept(req, pre, real) :
                       HeadNamed(SnapshotOf(Obeyed(state, config)), h.name) = Where(h, dx, dy)
<1> DEFINE off == DisabledBy(req, real)
           at == Position(req, pre, real)
           x == AsEnable(req, n, at)
<1>1. Sound(state) /\ SnapOK(pre)
  BY MutterIs DEF Familiarly
<1>2. ToSet(plan.enables) = Keeping(pre, off) \cup {x}
  BY <1>1, LayoutIs
<1>3. EnablesOK(plan.enables)
  BY <1>1, LayoutPlanIs DEF Built
<1>4. x.position # None
  <2>1. at \in Int \X Int
    BY <1>1, RightEdgeIs DEF Position, AppendedAt
  <2>2. x.position = at
    BY DEF AsEnable
  <2> HIDE DEF x, at
  <2> QED
    BY <2>1, <2>2, NoneIsNothing
<1>5. \A h \in Kept(req, pre, real) :
         HeadOK(h) /\ Lively(h) /\ Recalled(h, state) /\ AsEnabled(h) \in Keeping(pre, off)
  BY ShownLively DEF Kept, Familiarly, Keeping
<1>6. \A e \in Keeping(pre, off) : e.position # None
  <2> SUFFICES ASSUME NEW e \in Keeping(pre, off) PROVE e.position # None
    OBVIOUS
  <2>1. PICK h \in ToSet(Shown(pre)) : e = AsEnabled(h)
    BY DEF Keeping
  <2>2. h.position # None
    BY <1>1, ShownIs
  <2>3. e.position = h.position
    BY <2>1 DEF AsEnabled
  <2> QED
    BY <2>2, <2>3
<1> HIDE DEF x
<1>7. \A e \in ToSet(plan.enables) : e.position # None
  BY <1>2, <1>4, <1>6
<1>8. ConfigOK(state, config)
  BY <1>1, <1>3, ConfigIs
<1>9. /\ Laid(plan, state) # {}
      /\ \E dx \in Int, dy \in Int :
            /\ ToMutterConfig(plan, state) = {Shifted(lc, dx, dy) : lc \in Laid(plan, state)}
            /\ Origin(Laid(plan, state)) => dx = 0 /\ dy = 0
  BY <1>1, <1>3, <1>7, LaidIs
<1>10. PICK dx \in Int, dy \in Int :
         /\ config = {Shifted(lc, dx, dy) : lc \in Laid(plan, state)}
         /\ Origin(Laid(plan, state)) => dx = 0 /\ dy = 0
  BY <1>9
<1>11. ~req.disable \/ EnabledNames(pre) \subseteq ToSet(real) => dx = 0 /\ dy = 0
  BY <1>9, <1>10, LayoutOrigin
<1>12. ASSUME NEW h \in Kept(req, pre, real)
       PROVE  HeadNamed(SnapshotOf(Obeyed(state, config)), h.name) = Where(h, dx, dy)
  <2>1. HeadOK(h) /\ Lively(h) /\ Recalled(h, state) /\ AsEnabled(h) \in ToSet(plan.enables)
    BY <1>2, <1>5
  <2>2. Lightable(state, AsEnabled(h))
    BY <1>1, <2>1, PutKept
  <2>3. Put(plan, state, AsEnabled(h)) \in Laid(plan, state)
    BY <2>1, <2>2 DEF Laid
  <2>4. Shifted(Put(plan, state, AsEnabled(h)), dx, dy) \in config
    BY <1>10, <2>3
  <2> QED
    BY <1>1, <1>8, <2>1, <2>4, KeptNow
<1> QED
  BY <1>8, <1>10, <1>11, <1>12

(* That is what OthersKept says of the outputs.                            *)
AsTheyWere(req, pre, real, state) ==
    LET kept == {h \in ToSet(Shown(pre)) : ~(req.disable /\ h.name \in ToSet(real))}
        now(h) == HeadNamed(SnapshotOf(state), h.name)
        moved(h, i) == now(h).position[i] - h.position[i]
    IN /\ \A h \in kept : /\ now(h).enabled
                          /\ [now(h) EXCEPT !.position = h.position] = h
       /\ \A h, k \in kept, i \in {1, 2} : moved(h, i) = moved(k, i)
       /\ ~req.disable => \A h \in kept, i \in {1, 2} : moved(h, i) = 0

LEMMA PutBack ==
    ASSUME NEW w, NEW n, NEW on, NEW m, NEW p, NEW s, NEW t, NEW c, NEW q,
           w = [name |-> n, enabled |-> on, mode |-> m, position |-> p, scale |-> s,
                transform |-> t, color |-> c]
    PROVE  [w EXCEPT !.position = q] =
               [name |-> n, enabled |-> on, mode |-> m, position |-> q, scale |-> s,
                transform |-> t, color |-> c]
OBVIOUS

LEMMA StayedPut ==
    ASSUME NEW req, NEW pre, SnapOK(pre), Pictured(pre), NEW real, NEW state, NEW dx \in Int,
           NEW dy \in Int, ~req.disable => dx = 0 /\ dy = 0,
           \A h \in Kept(req, pre, real) :
               HeadNamed(SnapshotOf(state), h.name) = Where(h, dx, dy)
    PROVE  AsTheyWere(req, pre, real, state)
<1> DEFINE kept == {h \in ToSet(Shown(pre)) : ~(req.disable /\ h.name \in ToSet(real))}
           now(h) == HeadNamed(SnapshotOf(state), h.name)
<1>1. kept = Kept(req, pre, real)
  BY DEF Kept, DisabledBy
<1>2. ASSUME NEW h \in kept
      PROVE  /\ now(h).enabled /\ [now(h) EXCEPT !.position = h.position] = h
             /\ now(h).position[1] - h.position[1] = 0 - dx
             /\ now(h).position[2] - h.position[2] = 0 - dy
  <2>1. now(h) = Where(h, dx, dy)
    BY <1>1
  <2>2. HeadShape(h) /\ Lively(h) /\ h.enabled
    BY ShownLively
  <2>3. h.position[1] \in Int /\ h.position[2] \in Int
    BY <2>2 DEF Lively
  <2> DEFINE w == Where(h, dx, dy)
             p == <<h.position[1] - dx, h.position[2] - dy>>
  <2>4. p[1] = h.position[1] - dx /\ p[2] = h.position[2] - dy
    OBVIOUS
  <2> HIDE DEF p
  <2>5. w = [name |-> h.name, enabled |-> TRUE, mode |-> h.mode, position |-> p,
             scale |-> h.scale, transform |-> h.transform, color |-> h.color]
    BY DEF Where, p
  <2> HIDE DEF w
  <2>6. w.enabled /\ w.position = p
    BY <2>5
  <2>7. [w EXCEPT !.position = h.position] =
            [name |-> h.name, enabled |-> TRUE, mode |-> h.mode, position |-> h.position,
             scale |-> h.scale, transform |-> h.transform, color |-> h.color]
    <3> DEFINE on == TRUE
               q == h.position
    <3> HIDE DEF on, q
    <3>1. w = [name |-> h.name, enabled |-> on, mode |-> h.mode, position |-> p,
               scale |-> h.scale, transform |-> h.transform, color |-> h.color]
      BY <2>5 DEF on
    <3>2. [w EXCEPT !.position = q] =
              [name |-> h.name, enabled |-> on, mode |-> h.mode, position |-> q,
               scale |-> h.scale, transform |-> h.transform, color |-> h.color]
      BY <3>1, PutBack
    <3> QED
      BY <3>2 DEF on, q
  <2>8. h.enabled = TRUE
    BY <2>2 DEF HeadShape
  <2>9. [w EXCEPT !.position = h.position] = h
    BY <2>2, <2>7, <2>8 DEF HeadShape
  <2>10. w.position[1] - h.position[1] = 0 - dx /\ w.position[2] - h.position[2] = 0 - dy
    BY <2>3, <2>4, <2>6
  <2> QED
    BY <2>1, <2>6, <2>9, <2>10 DEF w
<1> HIDE DEF kept, now
<1>3. \A h, k \in kept, i \in {1, 2} :
         now(h).position[i] - h.position[i] = now(k).position[i] - k.position[i]
  BY <1>2
<1>4. ~req.disable => \A h \in kept, i \in {1, 2} : now(h).position[i] - h.position[i] = 0
  BY <1>2
<1>5. \A h \in kept : now(h).enabled /\ [now(h) EXCEPT !.position = h.position] = h
  BY <1>2
<1> QED
  BY <1>3, <1>4, <1>5 DEF AsTheyWere, kept, now

-----------------------------------------------------------------------------
(* What no step of Mutter's changes: a monitor has the modes it had, and   *)
(* colors if it had them; it goes only when its device is unplugged, and   *)
(* new ones are those of devices.                                          *)
Same(mon, k) ==
    mon.name = k.name /\ mon.modes = k.modes /\ (mon.color = None <=> k.color = None)
Outlives(state, now) ==
    \A i \in DOMAIN state.monitors : \E j \in DOMAIN now.monitors :
        Same(state.monitors[i], now.monitors[j])
NoneAdded(state, now) ==
    \A j \in DOMAIN now.monitors : \E i \in DOMAIN state.monitors :
        Same(state.monitors[i], now.monitors[j])
AddedAre(now) ==
    \A j \in DOMAIN now.monitors :
        \/ \E i \in DOMAIN mutter.monitors : Same(mutter.monitors[i], now.monitors[j])
        \/ \E c \in Conn : devs[c] # None /\ Same(NewMonitor(c), now.monitors[j])

LEMMA SameObeyed ==
    ASSUME NEW state, Sound(state), NEW config, ConfigOK(state, config)
    PROVE  Outlives(state, Obeyed(state, config)) /\ NoneAdded(state, Obeyed(state, config))
<1> DEFINE now == Obeyed(state, config)
<1>1. /\ DOMAIN now.monitors = DOMAIN state.monitors
      /\ \A i \in DOMAIN state.monitors : now.monitors[i] = Obeying(config, state.monitors[i])
  BY Obeys
<1>2. ASSUME NEW i \in DOMAIN state.monitors
      PROVE  Same(state.monitors[i], Obeying(config, state.monitors[i]))
  <2>1. /\ Obeying(config, state.monitors[i]).name = state.monitors[i].name
        /\ Obeying(config, state.monitors[i]).modes = state.monitors[i].modes
    BY MonitorObeys
  <2>2. Obeying(config, state.monitors[i]).color = None <=> state.monitors[i].color = None
    BY ColorObeys
  <2> QED
    BY <2>1, <2>2 DEF Same
<1> HIDE DEF now
<1> QED
  BY <1>1, <1>2 DEF Outlives, NoneAdded, now

LEMMA SameTwice == ASSUME NEW a, NEW b, NEW d, Same(a, b), Same(b, d) PROVE Same(a, d)
BY DEF Same

LEMMA SameStill ==
    ASSUME NEW h, NEW state, NEW now, Recalled(h, state), Outlives(state, now)
    PROVE  Recalled(h, now)
<1>1. PICK i \in DOMAIN state.monitors :
        /\ state.monitors[i].name = h.name
        /\ h.mode \in ToSet(state.monitors[i].modes) \cup {None}
        /\ h.color = None <=> state.monitors[i].color = None
  BY DEF Recalled
<1>2. PICK j \in DOMAIN now.monitors : Same(state.monitors[i], now.monitors[j])
  BY DEF Outlives
<1> QED
  BY <1>1, <1>2 DEF Same, Recalled

LEMMA FoundHas ==
    ASSUME TInv, NEW c
    PROVE  /\ DOMAIN Found(c).monitors = 1..(Len(mutter.monitors) + 1)
           /\ Len(mutter.monitors) \in Nat /\ DOMAIN mutter.monitors = 1..Len(mutter.monitors)
           /\ \A i \in 1..Len(mutter.monitors) : Found(c).monitors[i] = mutter.monitors[i]
           /\ Found(c).monitors[Len(mutter.monitors) + 1] = NewMonitor(c)
           /\ Found(c).logical = mutter.logical
<1> DEFINE old == mutter.monitors
           mon == NewMonitor(c)
           t == Append(old, mon)
           n == Len(old)
<1>1. IsSeq(old) /\ DOMAIN old = 1..n /\ n \in Nat
  BY MutterSound, StateHas
<1>2. mutter \in StateShape
  BY MutterSound DEF Sound
<1> HIDE DEF mon
<1>3. IsSeq(t) /\ Len(t) = n + 1 /\ t[n + 1] = mon /\ \A i \in 1..n : t[i] = old[i]
  BY <1>1, Adds
<1> HIDE DEF t
<1>4. DOMAIN t = 1..(n + 1)
  BY <1>3, SeqHas
<1>5. Found(c).monitors = t /\ Found(c).logical = mutter.logical
  BY <1>2 DEF Found, StateShape, t, mon
<1> QED
  BY <1>1, <1>3, <1>4, <1>5 DEF mon

LEMMA FoundSame ==
    ASSUME TInv, NEW c \in Conn, devs[c] # None
    PROVE  Outlives(mutter, Found(c)) /\ AddedAre(Found(c))
<1> DEFINE n == Len(mutter.monitors)
<1>1. /\ DOMAIN Found(c).monitors = 1..(n + 1) /\ n \in Nat /\ DOMAIN mutter.monitors = 1..n
      /\ \A i \in 1..n : Found(c).monitors[i] = mutter.monitors[i]
      /\ Found(c).monitors[n + 1] = NewMonitor(c)
  BY FoundHas
<1>2. \A i \in 1..(n + 1) : i \in 1..n \/ i = n + 1
  BY <1>1
<1>3. \A i \in 1..n : i \in 1..(n + 1)
  BY <1>1
<1> HIDE DEF n
<1>4. Outlives(mutter, Found(c))
  BY <1>1, <1>3 DEF Outlives, Same
<1>5. AddedAre(Found(c))
  BY <1>1, <1>2 DEF AddedAre, Same
<1> QED
  BY <1>4, <1>5

(* Once a configuration has been carried out on top of that.               *)
LEMMA SameAfter ==
    ASSUME NEW state, Outlives(mutter, state), AddedAre(state), NEW now,
           Outlives(state, now), NoneAdded(state, now)
    PROVE  Outlives(mutter, now) /\ AddedAre(now)
<1>1. Outlives(mutter, now)
  <2> SUFFICES ASSUME NEW i \in DOMAIN mutter.monitors
               PROVE  \E j \in DOMAIN now.monitors : Same(mutter.monitors[i], now.monitors[j])
    BY DEF Outlives
  <2>1. PICK k \in DOMAIN state.monitors : Same(mutter.monitors[i], state.monitors[k])
    BY DEF Outlives
  <2>2. PICK j \in DOMAIN now.monitors : Same(state.monitors[k], now.monitors[j])
    BY DEF Outlives
  <2> QED
    BY <2>1, <2>2, SameTwice
<1>2. AddedAre(now)
  <2> SUFFICES ASSUME NEW j \in DOMAIN now.monitors
               PROVE  \/ \E i \in DOMAIN mutter.monitors :
                            Same(mutter.monitors[i], now.monitors[j])
                      \/ \E c \in Conn : devs[c] # None /\ Same(NewMonitor(c), now.monitors[j])
    BY DEF AddedAre
  <2>1. PICK k \in DOMAIN state.monitors : Same(state.monitors[k], now.monitors[j])
    BY DEF NoneAdded
  <2>2. CASE \E i \in DOMAIN mutter.monitors : Same(mutter.monitors[i], state.monitors[k])
    BY <2>1, <2>2, SameTwice
  <2>3. CASE \E c \in Conn : devs[c] # None /\ Same(NewMonitor(c), state.monitors[k])
    BY <2>1, <2>3, SameTwice
  <2> QED
    BY <2>2, <2>3 DEF AddedAre
<1> QED
  BY <1>1, <1>2

LEMMA SameSelf == Outlives(mutter, mutter) /\ AddedAre(mutter)
BY DEF Outlives, AddedAre, Same

LEMMA MutterKeeps ==
    ASSUME TInv, UnplugOnlyInDown, me.at \notin Leaving, [Next]_vars
    PROVE  Outlives(mutter, mutter') /\ AddedAre(mutter')
<1>1. CASE UNCHANGED mutter
  BY <1>1, SameSelf
<1>2. CASE Apply
  <2>1. me.at = "apply" /\ Against = {} /\ mutter' = Obeyed(mutter, Asked)
    BY <1>2 DEF Apply
  <2>2. Sound(mutter) /\ ConfigOK(mutter, Asked)
    BY <2>1, Granting, MutterSound
  <2> HIDE DEF Asked
  <2> QED
    BY <2>1, <2>2, SameObeyed, SameSelf, SameAfter
<1>3. CASE \E c \in Conn : HeadAppears(c)
  <2>1. PICK c \in Conn : HeadAppears(c)
    BY <1>3
  <2>2. /\ devs[c] # None /\ c \notin Names(mutter.monitors)
        /\ \/ mutter' = [Found(c) EXCEPT !.serial = @ + 1]
           \/ mutter' = Obeyed(Found(c), BesideAll(c))
           \/ mutter' = Obeyed(Found(c), InARow(Found(c)))
    BY <2>1, AppearsAs
  <2>3. /\ MutterOK(Found(c))
        /\ ConfigOK(Found(c), BesideAll(c)) /\ ConfigOK(Found(c), InARow(Found(c)))
    BY <2>2, Appearing
  <2>4. Sound(Found(c)) /\ Outlives(mutter, Found(c)) /\ AddedAre(Found(c))
    BY <2>2, <2>3, MutterIs, FoundSame
  <2>5. CASE mutter' = [Found(c) EXCEPT !.serial = @ + 1]
    <3>1. mutter'.monitors = Found(c).monitors
      BY <2>3, <2>5 DEF MutterOK
    <3> QED
      BY <2>4, <3>1 DEF Outlives, AddedAre
  <2>6. CASE mutter' = Obeyed(Found(c), BesideAll(c))
    BY <2>3, <2>4, <2>6, SameObeyed, SameAfter
  <2>7. CASE mutter' = Obeyed(Found(c), InARow(Found(c)))
    BY <2>3, <2>4, <2>7, SameObeyed, SameAfter
  <2> QED
    BY <2>2, <2>5, <2>6, <2>7
<1>4. CASE \E c \in Conn : HeadGoes(c)
  <2>1. PICK c \in Conn : devs[c] # None /\ ~devs[c].plugged
    BY <1>4 DEF HeadGoes
  <2> QED
    BY <2>1 DEF UnplugOnlyInDown
<1>5. CASE UserChanges
  <2>1. PICK config \in Changed(mutter) : mutter' = Obeyed(mutter, config)
    BY <1>5 DEF UserChanges
  <2>2. Sound(mutter) /\ ConfigOK(mutter, config)
    BY <2>1, MutterSound, ChangedIs
  <2> QED
    BY <2>1, <2>2, SameObeyed, SameSelf, SameAfter
<1> QED
  BY <1>1, <1>2, <1>3, <1>4, <1>5
     DEF Next, vars, RunUp, Create, Await, PlanLayout, Refresh, Refused, Return, RunDown, Unplug,
         Gone, Destroy, AllOver

-----------------------------------------------------------------------------
(* While `up` works in the session: what was seen is what there is, nobody *)
(* else has lit a monitor if all is calm, and the plan is the one made of  *)
(* what was seen.                                                          *)
Working == (me.at = "create" /\ me.sess) \/ ForUp
Ours == IF ForUp THEN {me.conn} ELSE {}

Remembers == Working => /\ Pictured(me.pre)
                        /\ \A h \in ToSet(me.pre.heads) : Recalled(h, mutter)
Familiar == Working /\ hist.calm =>
                LitNames(mutter) \subseteq Names(Shown(me.pre)) \cup Ours
PlanIs ==
    me.at \in {"refresh", "apply"} =>
        /\ me.phase = "place" => me.plan = PlacePlan(me.req, me.pre, me.conn)
        /\ me.phase = "layout" => me.plan = LayoutPlan(me.req, me.pre, me.conn, Real)
WInv == Remembers /\ Familiar /\ PlanIs

LEMMA InitWorking == Init => WInv
BY DEF Init, Idle, WInv, Working, ForUp, Remembers, Familiar, PlanIs

(* How one comes to work.                                                  *)
LEMMA CreateAs ==
    ASSUME TInv, Create, me' # Idle
    PROVE  /\ me.at = "create" /\ me.sess /\ UNCHANGED <<mutter, attribute, left, hist>>
           /\ me' = [me EXCEPT !.at = "await", !.conn = Min(Free)]
           /\ devs' = [devs EXCEPT ![Min(Free)] = [plugged |-> TRUE,
                                                   edid |-> Build(me.req.spec),
                                                   spec |-> me.req.spec]]
           /\ me'.at = "await" /\ me'.conn = Min(Free) /\ me'.pre = me.pre /\ me'.req = me.req
<1> DEFINE b == Build(me.req.spec)
           dev == [plugged |-> TRUE, edid |-> b, spec |-> me.req.spec]
<1>1. /\ me.at = "create" /\ UNCHANGED <<mutter, attribute, left, hist>>
      /\ IF b = None THEN me' = Idle
         ELSE /\ devs' = [devs EXCEPT ![Min(Free)] = dev]
              /\ me' = IF me.sess THEN [me EXCEPT !.at = "await", !.conn = Min(Free)] ELSE Idle
  BY DEF Create
<1> HIDE DEF dev, b
<1>2. me.sess /\ me' = [me EXCEPT !.at = "await", !.conn = Min(Free)]
      /\ devs' = [devs EXCEPT ![Min(Free)] = dev]
  BY <1>1
<1>3. DOMAIN me = Fields
  BY DEF TInv, MeOK
<1> QED
  BY <1>1, <1>2, <1>3 DEF Fields, dev, b

LEMMA AppliesAs ==
    ASSUME TInv, NEW plan, NEW phase, NEW otherwise, me' = Applies(plan, phase, otherwise)
    PROVE  /\ me'.at = IF plan = None THEN otherwise ELSE "refresh"
           /\ me'.plan = plan /\ me'.phase = phase /\ me'.pre = me.pre /\ me'.req = me.req
           /\ me'.conn = me.conn
<1>1. DOMAIN me = Fields
  BY DEF TInv, MeOK
<1> QED
  BY <1>1 DEF Applies, Fields

LEMMA ApplyAs ==
    ASSUME TInv, Apply
    PROVE  /\ me.at = "apply" /\ Against = {} /\ mutter' = Obeyed(mutter, Asked)
           /\ UNCHANGED <<attribute, devs, left, hist>>
           /\ me'.at = IF me.phase = "place" THEN "layout"
                       ELSE IF me.phase = "layout" THEN "check" ELSE "unplug"
           /\ me'.plan = me.plan /\ me'.phase = me.phase /\ me'.pre = me.pre
           /\ me'.req = me.req /\ me'.conn = me.conn
<1>1. /\ me.at = "apply" /\ Against = {} /\ mutter' = Obeyed(mutter, Asked)
      /\ me' = [me EXCEPT !.at = Granted, !.seen = None]
      /\ UNCHANGED <<attribute, devs, left, hist>>
  BY DEF Apply
<1>2. DOMAIN me = Fields /\ me.phase \in {"place", "layout", "restore"}
  BY <1>1 DEF TInv, MeOK
<1>3. Granted = IF me.phase = "place" THEN "layout" ELSE IF me.phase = "layout" THEN "check"
                ELSE "unplug"
  BY <1>2 DEF Granted
<1> QED
  BY <1>1, <1>2, <1>3 DEF Fields

LEMMA RunUpAs ==
    ASSUME RunUp
    PROVE  /\ UNCHANGED <<mutter, attribute, devs, recs>> /\ me'.at = "create"
           /\ me'.sess => me'.pre = SnapshotOf(mutter)
<1>1. UNCHANGED <<mutter, attribute, devs, recs>>
  BY DEF RunUp
<1>2. \E req, sess : me' = [Idle EXCEPT !.at = "create", !.req = req, !.sess = sess,
                                        !.pre = IF sess THEN SnapshotOf(mutter)
                                                ELSE EmptySnapshot]
  BY DEF RunUp
<1>3. PICK req, sess : me' = [Idle EXCEPT !.at = "create", !.req = req, !.sess = sess,
                                          !.pre = IF sess THEN SnapshotOf(mutter)
                                                  ELSE EmptySnapshot]
  BY <1>2
<1> DEFINE pre == IF sess THEN SnapshotOf(mutter) ELSE EmptySnapshot
<1>4. sess => pre = SnapshotOf(mutter)
  OBVIOUS
<1>5. me' = [Idle EXCEPT !.at = "create", !.req = req, !.sess = sess, !.pre = pre]
  BY <1>3
<1> HIDE DEF pre
<1>6. me'.at = "create" /\ me'.sess = sess /\ me'.pre = pre
  BY <1>5 DEF Idle
<1> QED
  BY <1>1, <1>4, <1>6

LEMMA WorksOn ==
    ASSUME TInv, [Next]_vars, Working'
    PROVE  \/ RunUp
           \/ /\ Working /\ me.at \notin Leaving /\ me'.pre = me.pre /\ me'.req = me.req
              /\ \/ Create /\ me' # Idle
                 \/ me'.conn = me.conn /\ (ForUp' <=> ForUp)
<1>1. CASE RunUp
  BY <1>1
<1>2. CASE Create
  <2>1. me' # Idle
    BY DEF Working, ForUp, Idle
  <2> QED
    BY <1>2, <2>1, CreateAs DEF Working, Leaving
<1>3. CASE Await
  <2>1. me.at = "await" /\ me.conn \notin Names(me.pre.heads)
    BY <1>3 DEF Await, Working, ForUp, TInv, MeOK, Fields
  <2>2. me' = Applies(PlacePlan(me.req, me.pre, me.conn), "place", "failed")
    BY <1>3, <2>1 DEF Await
  <2> DEFINE plan == PlacePlan(me.req, me.pre, me.conn)
  <2> HIDE DEF plan
  <2>3. /\ me'.at = IF plan = None THEN "failed" ELSE "refresh"
        /\ me'.phase = "place" /\ me'.pre = me.pre /\ me'.req = me.req /\ me'.conn = me.conn
    BY <2>2, AppliesAs DEF plan
  <2> QED
    BY <2>1, <2>3 DEF Working, ForUp, Leaving
<1>4. CASE PlanLayout
  <2> DEFINE plan == LayoutPlan(me.req, me.pre, me.conn, Real)
  <2>1. me.at = "layout" /\ me' = Applies(plan, "layout", "failed")
    BY <1>4 DEF PlanLayout
  <2> HIDE DEF plan
  <2>2. /\ me'.at = IF plan = None THEN "failed" ELSE "refresh"
        /\ me'.phase = "layout" /\ me'.pre = me.pre /\ me'.req = me.req /\ me'.conn = me.conn
    BY <2>1, AppliesAs
  <2> QED
    BY <2>1, <2>2 DEF Working, ForUp, Leaving
<1>5. CASE Refresh
  <2>1. me.at = "refresh" /\ me' = [me EXCEPT !.at = "apply", !.seen = mutter]
    BY <1>5 DEF Refresh
  <2>2. /\ me'.at = "apply" /\ me'.phase = me.phase /\ me'.pre = me.pre /\ me'.req = me.req
        /\ me'.conn = me.conn
    BY <2>1 DEF TInv, MeOK, Fields
  <2> QED
    BY <2>1, <2>2 DEF Working, ForUp, Leaving
<1>6. CASE Apply
  BY <1>6, ApplyAs DEF Working, ForUp, Leaving
<1>7. CASE Refused
  <2>1. me'.at \in {"unplug", "failed"}
    BY <1>7 DEF Refused, TInv, MeOK, Fields
  <2> QED
    BY <2>1 DEF Working, ForUp
<1>8. CASE Return \/ Destroy
  <2>1. me'.at = "idle"
    BY <1>8 DEF Return, Destroy, Idle
  <2> QED
    BY <2>1 DEF Working, ForUp
<1>9. CASE RunDown
  <2>1. CASE NothingToRestore(recs)
    <3>1. me'.at = "unplug"
      BY <1>9, <2>1 DEF RunDown, TInv, MeOK, Fields
    <3> QED
      BY <3>1 DEF Working, ForUp
  <2>2. CASE ~NothingToRestore(recs)
    <3>1. PICK plan : me' = Applies(plan, "restore", "unplug")
      BY <1>9, <2>2 DEF RunDown
    <3>2. me'.at \in {"unplug", "refresh"} /\ me'.phase = "restore"
      BY <3>1, AppliesAs
    <3> QED
      BY <3>2 DEF Working, ForUp
  <2> QED
    BY <2>1, <2>2
<1>10. CASE Unplug \/ Gone
  <2>1. me'.at \in {"gone", "destroy"}
    BY <1>10 DEF Unplug, Gone, TInv, MeOK, Fields
  <2> QED
    BY <2>1 DEF Working, ForUp
<1>11. CASE UNCHANGED me
  BY <1>11 DEF Working, ForUp, Leaving
<1> QED
  BY <1>1, <1>2, <1>3, <1>4, <1>5, <1>6, <1>7, <1>8, <1>9, <1>10, <1>11
     DEF Next, vars, HeadAppears, HeadGoes, UserChanges, AllOver

LEMMA StepRemembers ==
    ASSUME TInv, InPlace, UnplugOnlyInDown, Remembers, [Next]_vars
    PROVE  Remembers'
<1> SUFFICES ASSUME Working'
             PROVE  Pictured(me'.pre) /\ \A h \in ToSet(me'.pre.heads) : Recalled(h, mutter')
  BY DEF Remembers
<1>1. CASE RunUp
  <2>1. mutter' = mutter /\ me'.pre = SnapshotOf(mutter)
    BY <1>1, RunUpAs DEF Working, ForUp
  <2>2. MutterOK(mutter) /\ Sound(mutter) /\ AtOrigin(mutter.logical)
    BY MutterSound DEF TInv, InPlace
  <2> QED
    BY <2>1, <2>2, PictureIs, HeadsRecalled
<1>2. CASE ~RunUp
  <2>1. Working /\ me.at \notin Leaving /\ me'.pre = me.pre
    BY <1>2, WorksOn
  <2>2. Outlives(mutter, mutter')
    BY <2>1, MutterKeeps
  <2>3. Pictured(me.pre) /\ \A h \in ToSet(me.pre.heads) : Recalled(h, mutter)
    BY <2>1 DEF Remembers
  <2> QED
    BY <2>1, <2>2, <2>3, SameStill
<1> QED
  BY <1>1, <1>2

(* What a configuration lights.                                            *)
LEMMA LitObeyed ==
    ASSUME NEW state, Sound(state), NEW config, ConfigOK(state, config)
    PROVE  LitNames(Obeyed(state, config)) = Lit(config)
<1> DEFINE now == Obeyed(state, config)
<1>1. now.logical = {Becomes(lc) : lc \in config}
  BY Obeys DEF Becomes
<1>2. \A lc \in config : Becomes(lc).monitors = {m.name : m \in lc.monitors}
  BY BecomesIs DEF ConfigOK
<1> HIDE DEF now
<1>3. \A a : a \in LitNames(now) <=> \E lc \in config : \E m \in lc.monitors : m.name = a
  BY <1>1, <1>2 DEF LitNames
<1>4. \A a : a \in Lit(config) <=> \E lc \in config : \E m \in lc.monitors : m.name = a
  BY DEF Lit, Monitors
<1> QED
  BY <1>3, <1>4 DEF now

LEMMA LitThere ==
    ASSUME NEW state, NEW config, ConfigOK(state, config)
    PROVE  Lit(config) \subseteq Names(state.monitors)
<1> SUFFICES ASSUME NEW lc \in config, NEW m \in lc.monitors
             PROVE  m.name \in Names(state.monitors)
  BY DEF Lit, Monitors
<1>1. m \in Showing(state)
  BY DEF ConfigOK, Part
<1> QED
  BY <1>1 DEF Showing, Names

LEMMA LitUntouched ==
    ASSUME NEW plan, NEW state, Sound(state)
    PROVE  Lit(Untouched(plan, state)) \subseteq LitNames(state)
<1> SUFFICES ASSUME NEW lc \in Untouched(plan, state), NEW m \in lc.monitors
             PROVE  m.name \in LitNames(state)
  BY DEF Lit, Monitors
<1> QED
  BY UntouchedNames DEF LitNames

LEMMA LitByPlan ==
    ASSUME NEW plan, NEW state, Sound(state), EnablesOK(plan.enables)
    PROVE  Lit(ToMutterConfig(plan, state)) \subseteq LitNames(state) \cup Names(plan.enables)
<1> DEFINE config == ToMutterConfig(plan, state)
           n == Len(Lightables(plan, state))
<1>1. CASE config = {}
  BY <1>1 DEF Lit, Monitors
<1>2. CASE config # {}
  <2>1. PICK f : f[n] # {} /\ config = Anchored(f[n]) /\ Extends(plan, state, f[n])
    BY <1>2, ConfigSteps
  <2> DEFINE placed == f[n]
  <2> HIDE DEF placed, config
  <2>2. placed # {} /\ config = Anchored(placed) /\ Extends(plan, state, placed)
    BY <2>1 DEF placed
  <2>7. ConfigOK(state, placed)
    BY <2>2 DEF Extends
  <2>3. \E dx \in Int, dy \in Int : config = {Shifted(lc, dx, dy) : lc \in placed}
    <3>1. placed # {}
      BY <2>2
    <3>2. \E dx \in Int, dy \in Int :
             /\ Anchored(placed) = {Shifted(lc, dx, dy) : lc \in placed}
             /\ AtOrigin(placed) => dx = 0 /\ dy = 0
             /\ LeastOf(placed, dx, dy)
      BY <2>7, <3>1, AnchoredIs
    <3> QED
      BY <2>2, <3>2
  <2> SUFFICES ASSUME NEW lc \in config, NEW m \in lc.monitors
               PROVE  m.name \in LitNames(state) \cup Names(plan.enables)
    BY DEF Lit, Monitors, config
  <2>4. PICK k \in placed : lc.monitors = k.monitors
    BY <2>3 DEF Shifted
  <2>5. CASE k \in Untouched(plan, state)
    <3>1. m.name \in Lit(Untouched(plan, state))
      BY <2>4, <2>5 DEF Lit, Monitors
    <3> QED
      BY <3>1, LitUntouched
  <2>6. CASE k \notin Untouched(plan, state)
    BY <2>2, <2>4, <2>6 DEF Extends
  <2> QED
    BY <2>5, <2>6
<1> QED
  BY <1>1, <1>2

LEMMA PlaceNames ==
    ASSUME NEW req, NEW pre, SnapOK(pre), NEW n, NEW plan, plan = PlacePlan(req, pre, n),
           plan # None
    PROVE  Names(plan.enables) = Names(Shown(pre)) \cup {n}
<1> DEFINE x == AsEnable(req, n, AppendedAt(pre))
<1>1. ToSet(plan.enables) = Keeping(pre, {}) \cup {x}
  BY PlaceIs
<1>2. x.name = n
  BY DEF AsEnable
<1>3. \A a : a \in Names(plan.enables) <=> \E e \in ToSet(plan.enables) : e.name = a
  BY NamesAre
<1>4. \A a : a \in Names(Shown(pre)) <=> \E h \in ToSet(Shown(pre)) : h.name = a
  BY NamesAre
<1>5. \A h : AsEnabled(h).name = h.name
  BY DEF AsEnabled
<1> HIDE DEF x
<1>6. \A e : e \in Keeping(pre, {}) <=> \E h \in ToSet(Shown(pre)) : e = AsEnabled(h)
  BY DEF Keeping
<1> QED
  BY <1>1, <1>2, <1>3, <1>4, <1>5, <1>6

(* What the new head lights: itself, and else only what was lit.           *)
LEMMA LitAppears ==
    ASSUME TInv, "calm" \in DOMAIN hist, NEW c \in Conn, HeadAppears(c), hist'.calm
    PROVE  /\ hist.calm /\ me.at = "await" /\ me.conn = c
           /\ LitNames(mutter') \subseteq LitNames(mutter) \cup {c}
<1>1. /\ devs[c] # None /\ c \notin Names(mutter.monitors)
      /\ \/ mutter' = [Found(c) EXCEPT !.serial = @ + 1]
         \/ mutter' = Obeyed(Found(c), BesideAll(c))
         \/ mutter' = Obeyed(Found(c), InARow(Found(c)))
  BY AppearsAs
<1>2. /\ hist.calm /\ me.at = "await" /\ me.conn = c
      /\ \/ mutter' = [Found(c) EXCEPT !.serial = @ + 1]
         \/ mutter' = Obeyed(Found(c), BesideAll(c))
         \/ \A i \in DOMAIN mutter.monitors : mutter.monitors[i].current # None
  BY AppearsCalmly
<1>3. /\ MutterOK(Found(c)) /\ Found(c).logical = mutter.logical
      /\ ConfigOK(Found(c), BesideAll(c)) /\ ConfigOK(Found(c), InARow(Found(c)))
  BY <1>1, Appearing
<1>4. Sound(Found(c)) /\ LitNames(Found(c)) = LitNames(mutter)
  BY <1>3, MutterIs DEF LitNames
<1>5. CASE mutter' = [Found(c) EXCEPT !.serial = @ + 1]
  <2>1. mutter'.logical = mutter.logical
    BY <1>3, <1>5 DEF MutterOK
  <2> QED
    BY <1>2, <2>1 DEF LitNames
<1>6. CASE mutter' = Obeyed(Found(c), BesideAll(c))
  <2>1. LitNames(mutter') = Lit(BesideAll(c))
    BY <1>3, <1>4, <1>6, LitObeyed
  <2> DEFINE now == AsIs(Found(c))
             s == Single(Found(c), NewMonitor(c), PlacedEdge(Found(c), now), FALSE)
  <2>2. \A m \in s.monitors : m.name = c
    BY DEF Single, NewMonitor
  <2>3. Lit(now) \subseteq LitNames(mutter)
    BY <1>4, LitUntouched DEF AsIs
  <2>4. BesideAll(c) = now \cup {s}
    BY DEF BesideAll
  <2> HIDE DEF now, s
  <2>5. Lit(now \cup {s}) \subseteq Lit(now) \cup {c}
    BY <2>2 DEF Lit, Monitors
  <2> QED
    BY <1>2, <2>1, <2>3, <2>4, <2>5
<1>7. CASE /\ \A i \in DOMAIN mutter.monitors : mutter.monitors[i].current # None
           /\ mutter' = Obeyed(Found(c), InARow(Found(c)))
  <2>1. LitNames(mutter') \subseteq Names(Found(c).monitors)
    BY <1>3, <1>4, <1>7, LitObeyed, LitThere
  <2>2. Names(Found(c).monitors) \subseteq Names(mutter.monitors) \cup {c}
    <3>1. /\ DOMAIN Found(c).monitors = 1..(Len(mutter.monitors) + 1)
          /\ Len(mutter.monitors) \in Nat /\ DOMAIN mutter.monitors = 1..Len(mutter.monitors)
          /\ \A i \in 1..Len(mutter.monitors) : Found(c).monitors[i] = mutter.monitors[i]
          /\ Found(c).monitors[Len(mutter.monitors) + 1] = NewMonitor(c)
      BY FoundHas
    <3>2. NewMonitor(c).name = c
      BY DEF NewMonitor
    <3>3. \A i \in 1..(Len(mutter.monitors) + 1) :
             i \in 1..Len(mutter.monitors) \/ i = Len(mutter.monitors) + 1
      BY <3>1
    <3> QED
      BY <3>1, <3>2, <3>3 DEF Names
  <2>3. Names(mutter.monitors) \subseteq LitNames(mutter)
    <3>1. LitIfLogical(mutter)
      BY MutterIs DEF TInv
    <3> QED
      BY <1>7, <3>1 DEF LitIfLogical, LitNames, Names
  <2> QED
    BY <1>2, <2>1, <2>2, <2>3
<1> QED
  BY <1>1, <1>2, <1>5, <1>6, <1>7

LEMMA StepFamiliar ==
    ASSUME TInv, Shapes, InPlace, UnplugOnlyInDown, Familiar, PlanIs, [Next]_vars
    PROVE  Familiar'
<1> SUFFICES ASSUME Working', hist'.calm
             PROVE  LitNames(mutter') \subseteq Names(Shown(me'.pre)) \cup Ours'
  BY DEF Familiar
<1>1. CASE RunUp
  <2>1. mutter' = mutter /\ me'.pre = SnapshotOf(mutter)
    BY <1>1, RunUpAs DEF Working, ForUp
  <2>2. MutterOK(mutter) /\ AtOrigin(mutter.logical)
    BY DEF TInv, InPlace
  <2> QED
    BY <2>1, <2>2, PictureIs
<1>2. CASE Create
  <2>1. me' # Idle
    BY DEF Working, ForUp, Idle
  <2>2. /\ UNCHANGED <<mutter, hist>> /\ me.at = "create" /\ me.sess /\ me'.pre = me.pre
    BY <1>2, <2>1, CreateAs
  <2>3. LitNames(mutter) \subseteq Names(Shown(me.pre))
    BY <2>2 DEF Familiar, Working, Ours, ForUp
  <2> QED
    BY <2>2, <2>3
<1>3. CASE ~RunUp /\ ~Create
  <2>0. /\ Working /\ me.at \notin Leaving /\ me'.pre = me.pre /\ me'.conn = me.conn
        /\ ForUp' <=> ForUp
    BY <1>3, WorksOn
  <2>1. Ours' = Ours
    BY <2>0 DEF Ours
  <2>2. CASE UNCHANGED <<mutter, hist>>
    BY <2>0, <2>1, <2>2 DEF Familiar
  <2>3. CASE Apply
    <3>1. /\ me.at = "apply" /\ Against = {} /\ mutter' = Obeyed(mutter, Asked)
          /\ hist' = hist
      BY <2>3, ApplyAs
    <3>2. me.phase = "place" /\ ForUp
      BY <2>3, ApplyAs DEF Working, ForUp
    <3>3. me.plan = PlacePlan(me.req, me.pre, me.conn) /\ me.plan # None /\ SnapOK(me.pre)
      BY <3>1, <3>2 DEF PlanIs, TInv, MeOK
    <3>4. Names(me.plan.enables) = Names(Shown(me.pre)) \cup {me.conn}
      BY <3>3, PlaceNames
    <3>5. /\ Asked = ToMutterConfig(me.plan, mutter) /\ EnablesOK(me.plan.enables)
          /\ ConfigOK(mutter, Asked) /\ Sound(mutter)
      BY <3>1, Granting, MutterSound
    <3>6. Lit(Asked) \subseteq LitNames(mutter) \cup Names(me.plan.enables)
      BY <3>5, LitByPlan
    <3>7. LitNames(mutter') = Lit(Asked)
      <4> HIDE DEF Asked
      <4> QED
        BY <3>1, <3>5, LitObeyed
    <3>8. LitNames(mutter) \subseteq Names(Shown(me.pre)) \cup {me.conn}
      BY <2>0, <3>1, <3>2 DEF Familiar, Ours
    <3> QED
      BY <2>0, <2>1, <3>2, <3>4, <3>6, <3>7, <3>8 DEF Ours
  <2>4. CASE \E c \in Conn : HeadAppears(c)
    <3>1. PICK c \in Conn : HeadAppears(c)
      BY <2>4
    <3>2. /\ hist.calm /\ me.at = "await" /\ me.conn = c
          /\ LitNames(mutter') \subseteq LitNames(mutter) \cup {c}
      BY <3>1, LitAppears DEF Shapes
    <3>3. Ours = {c}
      BY <3>2 DEF Ours, ForUp
    <3>4. LitNames(mutter) \subseteq Names(Shown(me.pre)) \cup Ours
      BY <2>0, <3>2 DEF Familiar
    <3> QED
      BY <2>0, <2>1, <3>2, <3>3, <3>4
  <2>5. CASE \E c \in Conn : HeadGoes(c)
    <3>1. PICK c \in Conn : devs[c] # None /\ ~devs[c].plugged
      BY <2>5 DEF HeadGoes
    <3> QED
      BY <2>0, <3>1 DEF UnplugOnlyInDown
  <2>6. CASE UserChanges
    <3>1. hist' = [hist EXCEPT !.calm = FALSE, !.clean = FALSE]
      BY <2>6 DEF UserChanges
    <3> QED
      BY <3>1 DEF Shapes
  <2>7. CASE Refused
    <3>1. me'.at \in {"unplug", "failed"}
      BY <2>7 DEF Refused, TInv, MeOK, Fields
    <3> QED
      BY <3>1 DEF Working, ForUp
  <2>8. CASE RunDown
    <3>1. me.at = "idle"
      BY <2>8 DEF RunDown
    <3> QED
      BY <2>0, <3>1 DEF Working, ForUp
  <2> QED
    BY <1>3, <2>2, <2>3, <2>4, <2>5, <2>6, <2>7, <2>8
       DEF Next, vars, Await, PlanLayout, Refresh, Return, Unplug, Gone, Destroy, AllOver
<1> QED
  BY <1>1, <1>2, <1>3

LEMMA StepPlan ==
    ASSUME TInv, PlanIs, [Next]_vars
    PROVE  PlanIs'
<1> SUFFICES ASSUME me'.at \in {"refresh", "apply"}
             PROVE  /\ me'.phase = "place" =>
                          me'.plan = PlacePlan(me'.req, me'.pre, me'.conn)
                    /\ me'.phase = "layout" =>
                          me'.plan = LayoutPlan(me'.req, me'.pre, me'.conn, Real')
  BY DEF PlanIs
<1>1. ASSUME me'.pre = me.pre, recs' = recs PROVE Real' = Real
  BY <1>1 DEF Real, Owned
<1>2. CASE Await
  <2>1. me.at = "await" /\ me.conn \notin Names(me.pre.heads)
    BY <1>2 DEF Await, TInv, MeOK, Fields
  <2> DEFINE plan == PlacePlan(me.req, me.pre, me.conn)
  <2>2. me' = Applies(plan, "place", "failed")
    BY <1>2, <2>1 DEF Await
  <2>3. /\ me'.plan = plan /\ me'.phase = "place" /\ me'.pre = me.pre /\ me'.req = me.req
        /\ me'.conn = me.conn
    <3> HIDE DEF plan
    <3> QED
      BY <2>2, AppliesAs
  <2> QED
    BY <2>3
<1>3. CASE PlanLayout
  <2> DEFINE plan == LayoutPlan(me.req, me.pre, me.conn, Real)
  <2>1. me' = Applies(plan, "layout", "failed") /\ recs' = recs
    BY <1>3 DEF PlanLayout
  <2>2. /\ me'.plan = plan /\ me'.phase = "layout" /\ me'.pre = me.pre /\ me'.req = me.req
        /\ me'.conn = me.conn
    <3> HIDE DEF plan
    <3> QED
      BY <2>1, AppliesAs
  <2> QED
    BY <1>1, <2>1, <2>2
<1>4. CASE Refresh
  <2>1. /\ me.at = "refresh" /\ me' = [me EXCEPT !.at = "apply", !.seen = mutter]
        /\ recs' = recs
    BY <1>4 DEF Refresh
  <2>2. /\ me'.phase = me.phase /\ me'.pre = me.pre /\ me'.req = me.req
        /\ me'.conn = me.conn /\ me'.plan = me.plan
    BY <2>1 DEF TInv, MeOK, Fields
  <2> QED
    BY <1>1, <2>1, <2>2 DEF PlanIs
<1>5. CASE RunDown
  <2>1. CASE NothingToRestore(recs)
    BY <1>5, <2>1 DEF RunDown, TInv, MeOK, Fields
  <2>2. CASE ~NothingToRestore(recs)
    <3>1. PICK plan : me' = Applies(plan, "restore", "unplug")
      BY <1>5, <2>2 DEF RunDown
    <3>2. me'.phase = "restore"
      BY <3>1, AppliesAs
    <3> QED
      BY <3>2
  <2> QED
    BY <2>1, <2>2
<1>6. CASE RunUp
  BY <1>6, RunUpAs
<1>7. CASE Create
  <2>1. me'.at \in {"await", "idle"}
    BY <1>7, CreateAs DEF Idle
  <2> QED
    BY <2>1
<1>8. CASE Apply
  BY <1>8, ApplyAs
<1>9. CASE Refused
  <2>1. me'.at \in {"unplug", "failed"}
    BY <1>9 DEF Refused, TInv, MeOK, Fields
  <2> QED
    BY <2>1
<1>10. CASE Return \/ Destroy
  <2>1. me'.at = "idle"
    BY <1>10 DEF Return, Destroy, Idle
  <2> QED
    BY <2>1
<1>11. CASE Unplug \/ Gone
  <2>1. me'.at \in {"gone", "destroy"}
    BY <1>11 DEF Unplug, Gone, TInv, MeOK, Fields
  <2> QED
    BY <2>1
<1>12. CASE UNCHANGED <<me, recs>>
  BY <1>1, <1>12 DEF PlanIs
<1> QED
  BY <1>2, <1>3, <1>4, <1>5, <1>6, <1>7, <1>8, <1>9, <1>10, <1>11, <1>12
     DEF Next, vars, HeadAppears, HeadGoes, UserChanges, AllOver

-----------------------------------------------------------------------------
(* The layout as it is, carried out, stays as it is.                       *)
LEMMA AsIsHas ==
    ASSUME NEW state, MutterOK(state)
    PROVE  /\ ConfigOK(state, AsIs(state))
           /\ AsIs(state) = {Carried(NewPlan, state, lm) : lm \in state.logical}
           /\ \A lm \in state.logical : Becomes(Carried(NewPlan, state, lm)) = lm
           /\ \A lm \in state.logical : Carried(NewPlan, state, lm).monitors = ShownBy(state, lm)
<1>1. Sound(state)
  BY MutterIs
<1>2. Named(NewPlan) = {} /\ NewPlan.primary = None
  BY DEF Named, NewPlan, Names
<1>3. ConfigOK(state, AsIs(state))
  BY <1>1, UntouchedIs DEF AsIs
<1>4. ASSUME NEW lm \in state.logical
      PROVE  /\ Carried(NewPlan, state, lm).monitors = ShownBy(state, lm)
             /\ ShownBy(state, lm) # {}
             /\ Carried(NewPlan, state, lm) \in Part(state)
             /\ Becomes(Carried(NewPlan, state, lm)) = lm
  <2> DEFINE lc == Carried(NewPlan, state, lm)
             shown == ShownBy(state, lm)
  <2>1. lm \in Logical
    BY <1>1, StateHas
  <2> DEFINE main == lm.primary /\ NewPlan.primary = None
  <2>2. /\ lc = [x |-> lm.x, y |-> lm.y, scale |-> lm.scale, transform |-> lm.transform,
                 primary |-> main, monitors |-> shown]
        /\ lc.monitors # {} => lc \in Part(state)
    BY <1>1, CarriedIs
  <2>3. shown # {} /\ {m.name : m \in shown} = lm.monitors
    BY WholeIs
  <2>4. main = lm.primary
    BY <1>2, <2>1 DEF Logical
  <2> HIDE DEF lc, shown, main
  <2>5. lc.monitors = shown /\ lc \in Part(state)
    BY <2>2, <2>3
  <2>6. Becomes(lc) = [x |-> lc.x, y |-> lc.y, scale |-> lc.scale,
                       transform |-> lc.transform, primary |-> lc.primary,
                       monitors |-> {m.name : m \in lc.monitors}]
    BY <2>5, BecomesIs
  <2>7. Becomes(lc) = [x |-> lm.x, y |-> lm.y, scale |-> lm.scale,
                       transform |-> lm.transform, primary |-> lm.primary,
                       monitors |-> lm.monitors]
    BY <2>2, <2>3, <2>4, <2>5, <2>6
  <2>8. lm = [x |-> lm.x, y |-> lm.y, scale |-> lm.scale,
              transform |-> lm.transform, primary |-> lm.primary,
              monitors |-> lm.monitors]
    BY <2>1 DEF Logical
  <2>9. Becomes(lc) = lm
    BY <2>7, <2>8
  <2> QED
    BY <2>3, <2>5, <2>9 DEF lc, shown
<1>5. AsIs(state) = {Carried(NewPlan, state, lm) : lm \in state.logical}
  BY <1>2, <1>4 DEF AsIs, Untouched
<1> QED
  BY <1>3, <1>4, <1>5

LEMMA AsIsStays ==
    ASSUME NEW state, MutterOK(state)
    PROVE  LET now == Obeyed(state, AsIs(state)) IN
           /\ now.logical = state.logical /\ now.monitors = state.monitors
           /\ now.physical = state.physical
<1> DEFINE config == AsIs(state)
           now == Obeyed(state, config)
           mons == state.monitors
<1>1. Sound(state) /\ LitIfLogical(state)
  BY MutterIs
<1>2. /\ ConfigOK(state, config)
      /\ config = {Carried(NewPlan, state, lm) : lm \in state.logical}
      /\ \A lm \in state.logical : Becomes(Carried(NewPlan, state, lm)) = lm
      /\ \A lm \in state.logical : Carried(NewPlan, state, lm).monitors = ShownBy(state, lm)
  BY AsIsHas
<1> HIDE DEF config
<1>3. now.logical = {Becomes(lc) : lc \in config}
  BY <1>1, <1>2, Obeys DEF Becomes
<1>4. now.logical = state.logical
  <2> HIDE DEF now
  <2> DEFINE back(lm) == Carried(NewPlan, state, lm)
  <2>1. config = {back(lm) : lm \in state.logical} /\ \A lm \in state.logical : Becomes(back(lm)) = lm
    BY <1>2
  <2> HIDE DEF back
  <2>2. \A k \in now.logical : k \in state.logical
    BY <1>3, <2>1
  <2>3. \A k \in state.logical : k \in now.logical
    BY <1>3, <2>1
  <2> QED
    BY <2>2, <2>3
<1>5. ASSUME NEW i \in DOMAIN mons PROVE Obeying(config, mons[i]) = mons[i]
  <2>1. mons[i] \in Monitor
    BY <1>1, StateHas
  <2>2. CASE \E lm \in state.logical : mons[i].name \in lm.monitors
    <3>1. PICK lm \in state.logical : mons[i].name \in lm.monitors
      BY <2>2
    <3>2. PICK j \in DOMAIN mons :
            /\ mons[j].name = mons[i].name
            /\ [name |-> mons[i].name, mode |-> mons[j].current, color |-> mons[j].color]
                   \in ShownBy(state, lm)
      BY <3>1, WholeIs
    <3>3. j = i
      BY <1>1, <3>2 DEF Sound, MonitorsOK
    <3> DEFINE m == [name |-> mons[i].name, mode |-> mons[i].current, color |-> mons[i].color]
               lc == Carried(NewPlan, state, lm)
    <3>4. lc \in config /\ m \in lc.monitors
      BY <1>2, <3>2, <3>3
    <3>5. m.name = mons[i].name
      OBVIOUS
    <3> HIDE DEF m, lc
    <3>6. Shows(config, mons[i].name) = m /\ mons[i].name \in Lit(config)
      BY <1>2, <3>4, <3>5, ShowsIs
    <3> QED
      BY <2>1, <3>6, SameMonitor DEF m
  <2>3. CASE ~\E lm \in state.logical : mons[i].name \in lm.monitors
    <3>1. mons[i].current = None
      BY <1>1, <2>3 DEF LitIfLogical
    <3>2. LitNames(now) = Lit(config)
      BY <1>1, <1>2, LitObeyed
    <3>3. mons[i].name \notin Lit(config)
      BY <1>4, <2>3, <3>2 DEF LitNames
    <3>4. Obeying(config, mons[i]) = [mons[i] EXCEPT !.current = None]
      BY <3>3 DEF Obeying
    <3> QED
      BY <2>1, <3>1, <3>4 DEF Monitor
  <2> QED
    BY <2>2, <2>3
<1>6. now.monitors = [i \in DOMAIN mons |-> Obeying(config, mons[i])]
  BY <1>1 DEF Obeyed, Sound, StateShape
<1>7. IsSeq(mons)
  BY <1>1, StateHas
<1>8. now.monitors = mons
  BY <1>5, <1>6, <1>7 DEF IsSeq
<1>9. now.physical = state.physical
  BY <1>1 DEF Obeyed, Sound, StateShape
<1> QED
  BY <1>4, <1>8, <1>9 DEF config

LEMMA InitInPlace == Init => InPlace
<1> SUFFICES ASSUME NEW desk \in Desks PROVE AtOrigin(desk.logical)
  BY DEF Init, InPlace
<1>1. MutterOK(desk) /\ (desk.logical = {} \/ Valid(desk, AsIs(desk)))
  BY DesksAreStates
<1>2. CASE desk.logical = {}
  BY <1>2 DEF AtOrigin
<1>3. CASE Valid(desk, AsIs(desk))
  <2>1. AtOrigin(AsIs(desk))
    BY <1>3, OriginUnopposed DEF Valid
  <2>2. ConfigOK(desk, AsIs(desk)) /\ Sound(desk)
    BY <1>1, AsIsHas, MutterIs
  <2>3. AtOrigin(Obeyed(desk, AsIs(desk)).logical)
    BY <2>1, <2>2, OriginObeyed
  <2>4. Obeyed(desk, AsIs(desk)).logical = desk.logical
    BY <1>1, AsIsStays
  <2> QED
    BY <2>3, <2>4
<1> QED
  BY <1>1, <1>2, <1>3

LEMMA StepWorking ==
    TInv /\ IInv /\ InPlace /\ WInv /\ [Next]_vars => WInv'
BY StepRemembers, StepFamiliar, StepPlan DEF WInv, IInv

LEMMA AlwaysWorking == Spec => [](TInv /\ IInv /\ InPlace /\ WInv)
<1>1. Init => TInv /\ IInv /\ InPlace /\ WInv
  BY InitTyped, InitInv, InitInPlace, InitWorking
<1>2. TInv /\ IInv /\ InPlace /\ WInv /\ [Next]_vars => (TInv /\ IInv /\ InPlace /\ WInv)'
  BY StepTyped, StepInv, StepInPlace, StepWorking
<1> QED
  BY <1>1, <1>2, PTL DEF Spec

-----------------------------------------------------------------------------
(* What holds when the layout has been granted stays so: others' changes   *)
(* end the calm.                                                           *)
LEMMA LeftAlone ==
    ASSUME TInv, Shapes, UnplugOnlyInDown, [Next]_vars, me'.at = "check", hist'.calm
    PROVE  hist.calm /\ (Apply \/ UNCHANGED <<mutter, me, recs, devs, attribute>>)
<1>1. CASE Apply
  BY <1>1, ApplyAs
<1>2. CASE UNCHANGED <<mutter, me, recs, devs, attribute, hist>>
  BY <1>2
<1>3. CASE \E c \in Conn : HeadAppears(c)
  <2>1. PICK c \in Conn : HeadAppears(c)
    BY <1>3
  <2>2. me.at = "await" /\ me' = me
    BY <2>1, AppearsCalmly, AppearsAs DEF Shapes
  <2> QED
    BY <2>2
<1>4. CASE \E c \in Conn : HeadGoes(c)
  <2>1. PICK c \in Conn : devs[c] # None /\ ~devs[c].plugged /\ me' = me
    BY <1>4 DEF HeadGoes
  <2> QED
    BY <2>1 DEF UnplugOnlyInDown, Leaving
<1>5. CASE UserChanges
  <2>1. hist' = [hist EXCEPT !.calm = FALSE, !.clean = FALSE]
    BY <1>5 DEF UserChanges
  <2> QED
    BY <2>1 DEF Shapes
<1>6. CASE RunUp
  BY <1>6, RunUpAs
<1>7. CASE Create
  <2>1. me'.at \in {"await", "idle"}
    BY <1>7, CreateAs DEF Idle
  <2> QED
    BY <2>1
<1>8. CASE Await
  <2>1. me'.at \in {"failed", "refresh"}
    BY <1>8 DEF Await, Applies, TInv, MeOK, Fields
  <2> QED
    BY <2>1
<1>9. CASE PlanLayout
  <2>1. me'.at \in {"failed", "refresh"}
    BY <1>9 DEF PlanLayout, Applies, TInv, MeOK, Fields
  <2> QED
    BY <2>1
<1>10. CASE Refresh \/ Refused
  <2>1. me'.at \in {"apply", "unplug", "failed"}
    BY <1>10 DEF Refresh, Refused, TInv, MeOK, Fields
  <2> QED
    BY <2>1
<1>11. CASE Return \/ Destroy
  <2>1. me'.at = "idle"
    BY <1>11 DEF Return, Destroy, Idle
  <2> QED
    BY <2>1
<1>12. CASE RunDown
  <2>1. me'.at \in {"unplug", "refresh"}
    BY <1>12 DEF RunDown, Applies, TInv, MeOK, Fields
  <2> QED
    BY <2>1
<1>13. CASE Unplug \/ Gone
  <2>1. me'.at \in {"gone", "destroy"}
    BY <1>13 DEF Unplug, Gone, TInv, MeOK, Fields
  <2> QED
    BY <2>1
<1> QED
  BY <1>1, <1>2, <1>3, <1>4, <1>5, <1>6, <1>7, <1>8, <1>9, <1>10, <1>11, <1>12, <1>13
     DEF Next, vars, AllOver

LEMMA RealStays ==
    ASSUME TInv, Apply, me.phase = "layout"
    PROVE  Real' = Real
<1> DEFINE k == Mine
           off == DisabledBy(me.req, Real)
           main == PreviousPrimary(me.req, Real)
<1>1. recs' = [recs EXCEPT ![k].disabled = off, ![k].primary = main] /\ me'.pre = me.pre
  BY ApplyAs DEF Apply
<1>2. IsSeq(recs) /\ \A i \in DOMAIN recs : DOMAIN recs[i] = RecordFields
  BY DEF TInv, RecsOK, RecOK
<1> HIDE DEF k, off, main
<1>3. DOMAIN recs' = DOMAIN recs /\ \A i \in DOMAIN recs : recs'[i].head = recs[i].head
  BY <1>1, <1>2 DEF RecordFields
<1>4. Owned' = Owned
  BY <1>3 DEF Owned
<1> QED
  BY <1>1, <1>4 DEF Real

(* The layout that has been granted.                                       *)
LEMMA Granting2 ==
    ASSUME TInv, WInv, Apply, me.phase = "layout", hist.calm
    PROVE  /\ ForUp /\ ScaleOK(me.req.scale) /\ me.req.spec \in Specs /\ me.conn \in Conn
           /\ Familiarly(me.pre, me.conn, mutter)
           /\ me.plan = LayoutPlan(me.req, me.pre, me.conn, Real) /\ me.plan # None
           /\ Asked = ToMutterConfig(me.plan, mutter) /\ Asked # {}
           /\ mutter' = Obeyed(mutter, Asked)
           /\ UNCHANGED <<devs, attribute>> /\ me'.req = me.req /\ me'.pre = me.pre
           /\ me'.conn = me.conn /\ Real' = Real
<1>1. /\ me.at = "apply" /\ Against = {} /\ mutter' = Obeyed(mutter, Asked)
      /\ me'.req = me.req /\ me'.pre = me.pre /\ me'.conn = me.conn
      /\ UNCHANGED <<devs, attribute>>
  BY ApplyAs
<1>2. ForUp
  BY <1>1 DEF ForUp
<1>3. /\ ScaleOK(me.req.scale) /\ me.req.spec \in Specs /\ me.conn \in Conn
      /\ me.plan # None /\ SnapOK(me.pre) /\ MutterOK(mutter)
  BY <1>1, <1>2 DEF TInv, MeOK
<1>4. Asked = ToMutterConfig(me.plan, mutter) /\ Asked # {}
  BY <1>1, Granting
<1>5. me.plan = LayoutPlan(me.req, me.pre, me.conn, Real)
  BY <1>1 DEF WInv, PlanIs
<1>6. Familiarly(me.pre, me.conn, mutter)
  BY <1>2, <1>3 DEF Familiarly, WInv, Working, Remembers, Familiar, Ours
<1> QED
  BY <1>1, <1>2, <1>3, <1>4, <1>5, <1>6, RealStays

LEMMA StepKept ==
    ASSUME TInv, IInv, WInv, OthersKept, [Next]_vars
    PROVE  OthersKept'
<1> SUFFICES ASSUME me'.at = "check", hist'.calm
             PROVE  AsTheyWere(me'.req, me'.pre, Real', mutter')
  BY DEF OthersKept, AsTheyWere
<1>1. hist.calm /\ (Apply \/ UNCHANGED <<mutter, me, recs, devs, attribute>>)
  BY LeftAlone DEF IInv
<1>2. CASE UNCHANGED <<mutter, me, recs, devs, attribute>>
  <2>1. AsTheyWere(me.req, me.pre, Real, mutter)
    BY <1>1, <1>2 DEF OthersKept, AsTheyWere
  <2>2. Real' = Real
    BY <1>2 DEF Real, Owned
  <2> QED
    BY <1>2, <2>1, <2>2
<1>3. CASE Apply
  <2>1. me.phase = "layout"
    BY <1>3, ApplyAs
  <2>2. /\ ScaleOK(me.req.scale) /\ Familiarly(me.pre, me.conn, mutter)
        /\ me.plan = LayoutPlan(me.req, me.pre, me.conn, Real) /\ me.plan # None
        /\ Asked = ToMutterConfig(me.plan, mutter) /\ Asked # {}
        /\ mutter' = Obeyed(mutter, Asked)
        /\ me'.req = me.req /\ me'.pre = me.pre /\ Real' = Real
    BY <1>1, <1>3, <2>1, Granting2
  <2> HIDE DEF Asked
  <2>3. PICK dx \in Int, dy \in Int :
          /\ ~me.req.disable \/ EnabledNames(me.pre) \subseteq ToSet(Real) => dx = 0 /\ dy = 0
          /\ \A h \in Kept(me.req, me.pre, Real) :
                HeadNamed(SnapshotOf(Obeyed(mutter, Asked)), h.name) = Where(h, dx, dy)
    BY <2>2, LayoutDone
  <2>4. SnapOK(me.pre) /\ Pictured(me.pre)
    BY <2>2 DEF Familiarly
  <2> QED
    BY <2>2, <2>3, <2>4, StayedPut
<1> QED
  BY <1>1, <1>2, <1>3

(* Whoever asks for whatever, on whatever desk: when `up` reports success  *)
(* and nobody else has touched the layout, every output that was on and is *)
(* to stay is in the mode, scale, transform and colors it was in, and      *)
(* where it was, also if Mutter has laid them all out anew for the head;   *)
(* when some go, all that stay are shifted alike.                          *)
THEOREM OthersAreKept == Spec => []OthersKept
<1>1. Init => OthersKept
  BY DEF Init, Idle, OthersKept
<1>2. TInv /\ IInv /\ WInv /\ OthersKept /\ [Next]_vars => OthersKept'
  BY StepKept
<1> QED
  BY <1>1, <1>2, AlwaysWorking, PTL DEF Spec

-----------------------------------------------------------------------------
(* The head itself: what is submitted for it, and what becomes of it.      *)
NewLies(req, n, at, plan, state) ==
    LET e == AsEnable(req, n, at)
        lc == Put(plan, state, e)
        mode == ModeFor(MonitorNamed(state, n), RequestedMode(req.spec))
    IN /\ lc.x = at[1] /\ lc.y = at[2]
       /\ req.scale # None => lc.scale = req.scale
       /\ plan.primary = n => lc.primary
       /\ lc.monitors = {[name |-> n, mode |-> mode,
                          color |-> IF req.spec.hdr THEN "hdr" ELSE "sdr"]}

LEMMA PutNew ==
    ASSUME NEW req, NEW n, n # None, NEW at \in Int \X Int, NEW plan, NEW state
    PROVE  NewLies(req, n, at, plan, state)
<1> DEFINE e == AsEnable(req, n, at)
           mon == MonitorNamed(state, n)
           was == LogicalOf(state, n)
           want == RequestedMode(req.spec)
           mode == ModeFor(mon, want)
           color == IF req.spec.hdr THEN "hdr" ELSE "sdr"
           scale == Or(Or(req.scale, Of(was, "scale")), PreferredScale(mode))
           transform == Or(Or(None, Of(was, "transform")), 0)
           main == IF plan.primary # None THEN plan.primary = n
                   ELSE was # None /\ was.primary
           lc == Put(plan, state, e)
<1>1. /\ e.name = n /\ e.mode = want /\ e.position = at /\ e.scale = req.scale
      /\ e.transform = None /\ e.color = color
  BY DEF AsEnable
<1>2. at # None /\ color # None
  BY NoneIsNothing DEF Color
<1> HIDE DEF e, want
<1>3. lc = [x |-> at[1], y |-> at[2], scale |-> scale, transform |-> transform,
            primary |-> main, monitors |-> {[name |-> n, mode |-> mode, color |-> color]}]
  <2>1. Or(e.color, mon.color) = color
    BY <1>1, <1>2 DEF Or
  <2> HIDE DEF color
  <2> QED
    BY <1>1, <1>2, <2>1 DEF Put, Submitted
<1>4. req.scale # None => scale = req.scale
  BY DEF Or
<1>5. plan.primary = n => main = TRUE
  OBVIOUS
<1> DEFINE shows == {[name |-> n, mode |-> mode, color |-> color]}
<1> HIDE DEF lc, scale, transform, main, shows
<1>6. lc = [x |-> at[1], y |-> at[2], scale |-> scale, transform |-> transform,
            primary |-> main, monitors |-> shows]
  BY <1>3 DEF shows
<1>7. /\ lc.x = at[1] /\ lc.y = at[2] /\ lc.scale = scale /\ lc.primary = main
      /\ lc.monitors = shows
  BY <1>6
<1> QED
  BY <1>4, <1>5, <1>7 DEF NewLies, lc, e, shows, want

LEMMA LitLaid ==
    ASSUME NEW plan, NEW state, Untouched(plan, state) = {}, NEW dx, NEW dy, NEW config,
           config = {Shifted(lc, dx, dy) : lc \in Laid(plan, state)}, NEW a \in Lit(config)
    PROVE  \E e \in ToSet(plan.enables) : e.name = a /\ Lightable(state, e)
<1>1. PICK lc \in config : \E m \in lc.monitors : m.name = a
  BY DEF Lit, Monitors
<1>2. PICK k \in Laid(plan, state) : lc = Shifted(k, dx, dy)
  OBVIOUS
<1>3. lc.monitors = k.monitors
  BY <1>2 DEF Shifted
<1>4. PICK e \in ToSet(plan.enables) : Lightable(state, e) /\ k = Put(plan, state, e)
  BY DEF Laid
<1>5. \A m \in Put(plan, state, e).monitors : m.name = e.name
  BY DEF Put, Submitted
<1> QED
  BY <1>1, <1>3, <1>4, <1>5

(* An output that is not in the configuration is off.                      *)
LEMMA DarkNow ==
    ASSUME NEW state, Sound(state), NEW config, ConfigOK(state, config), NEW a,
           a \notin Lit(config)
    PROVE  /\ LogicalOf(Obeyed(state, config), a) = None
           /\ \A i \in DOMAIN state.monitors : state.monitors[i].name = a =>
                 /\ MonitorNamed(Obeyed(state, config), a) # None
                 /\ MonitorNamed(Obeyed(state, config), a).current = None
<1> DEFINE now == Obeyed(state, config)
<1>1. /\ MutterOK(now) /\ DOMAIN now.monitors = DOMAIN state.monitors
      /\ \A i \in DOMAIN state.monitors : now.monitors[i] = Obeying(config, state.monitors[i])
  BY Obeys
<1>2. Sound(now) /\ LitNames(now) = Lit(config)
  BY <1>1, MutterIs, LitObeyed
<1> HIDE DEF now
<1>3. LogicalOf(now, a) = None
  BY <1>2, LogicalHas DEF LitNames
<1>4. ASSUME NEW i \in DOMAIN state.monitors, state.monitors[i].name = a
      PROVE  MonitorNamed(now, a) # None /\ MonitorNamed(now, a).current = None
  <2>1. state.monitors[i] \in Monitor
    BY StateHas
  <2>2. Obeying(config, state.monitors[i]) = [state.monitors[i] EXCEPT !.current = None]
    BY <1>4 DEF Obeying
  <2>3. now.monitors[i].name = a /\ now.monitors[i].current = None
    BY <1>1, <1>4, <2>1, <2>2 DEF Monitor
  <2>4. MonitorNamed(now, a) = now.monitors[i] /\ now.monitors[i] \in Monitor
    BY <1>1, <1>2, <2>3, MonitorAt, StateHas
  <2> QED
    BY <2>3, <2>4, NoneIsNothing
<1> QED
  BY <1>3, <1>4 DEF now

(* What HeadAsAsked says of the head.                                      *)
Wanted(req, pre, n, real, state, exact) ==
    LET lm == LogicalOf(state, n)
        mode == Of(MonitorNamed(state, n), "current")
        want == RequestedMode(req.spec)
        alone == EnabledNames(pre) \subseteq ToSet(real)
    IN /\ exact =>
            /\ mode = want
            /\ req.spec.hdr => Of(HeadNamed(SnapshotOf(state), n), "color") = "hdr"
            /\ req.scale \in {None, lm.scale}
            /\ req.primary => lm.primary
            /\ req.disable => \A a \in ToSet(real) : LogicalOf(state, a) = None
            /\ alone \/ ~req.disable => <<lm.x, lm.y>> = Position(req, pre, real)
       /\ mode # None => mode.w = want.w /\ mode.h = want.h

LEMMA HeadDone ==
    ASSUME NEW req, ScaleOK(req.scale), RequestedMode(req.spec) \in Mode, NEW pre,
           NEW n \in Conn, n \notin Names(pre.heads), NEW state, Familiarly(pre, n, state),
           NEW real, ToSet(real) \subseteq Names(pre.heads), NEW plan,
           plan = LayoutPlan(req, pre, n, real), plan # None,
           NEW config, config = ToMutterConfig(plan, state), config # {},
           NEW i \in DOMAIN state.monitors, state.monitors[i].name = n,
           state.monitors[i].color # None
    PROVE  Wanted(req, pre, n, real, Obeyed(state, config),
                  RequestedMode(req.spec) \in ToSet(state.monitors[i].modes))
<1> DEFINE off == DisabledBy(req, real)
           at == Position(req, pre, real)
           x == AsEnable(req, n, at)
           want == RequestedMode(req.spec)
           mon == state.monitors[i]
           mode == ModeFor(mon, want)
           now == Obeyed(state, config)
           seen == Of(MonitorNamed(now, n), "current")
           lm == LogicalOf(now, n)
           alone == EnabledNames(pre) \subseteq ToSet(real)
<1>1. Sound(state) /\ SnapOK(pre) /\ n # None /\ want # None
  BY MutterIs, NoneIsNothing DEF Familiarly
<1>2. /\ ToSet(plan.enables) = Keeping(pre, off) \cup {x}
      /\ plan.primary = IF req.primary THEN n ELSE None
  BY <1>1, LayoutIs
<1>3. PICK dx \in Int, dy \in Int :
        /\ config = {Shifted(lc, dx, dy) : lc \in Laid(plan, state)}
        /\ ~req.disable \/ alone => dx = 0 /\ dy = 0
  BY LayoutDone
<1>4. ConfigOK(state, config)
  BY LayoutDone
<1>5. Untouched(plan, state) = {}
  BY <1>1, AllNamed, LayoutNames
<1>6. mon \in Monitor /\ MonitorNamed(state, n) = mon /\ mon # None
  BY <1>1, MonitorAt, StateHas, NoneIsNothing
<1>7. at \in Int \X Int
  BY <1>1, RightEdgeIs DEF Position, AppendedAt
<1>8. x.name = n /\ x.mode = want
  BY DEF AsEnable
<1> DEFINE put == Put(plan, state, x)
           color == IF req.spec.hdr THEN "hdr" ELSE "sdr"
           m == [name |-> n, mode |-> mode, color |-> color]
<1>9. /\ put.x = at[1] /\ put.y = at[2] /\ (req.scale # None => put.scale = req.scale)
      /\ (plan.primary = n => put.primary) /\ put.monitors = {m}
  <2>1. NewLies(req, n, at, plan, state)
    <3> HIDE DEF at
    <3> QED
      BY <1>1, <1>7, PutNew
  <2>2. MonitorNamed(state, n) = mon
    BY <1>6
  <2> HIDE DEF at, mon
  <2> QED
    BY <2>1, <2>2 DEF NewLies
<1> HIDE DEF x, at, want, mon, now, alone, put
<1>10. Lightable(state, x) <=> mode # None
  BY <1>6, <1>8 DEF Lightable
<1>11. ASSUME NEW e \in ToSet(plan.enables), e.name = n PROVE e = x
  <2>1. CASE e \in Keeping(pre, off)
    <3>1. PICK h \in ToSet(Shown(pre)) : e = AsEnabled(h)
      BY <2>1 DEF Keeping
    <3>2. h \in ToSet(pre.heads) /\ h.name = n
      BY <1>1, <1>11, <3>1, ShownIs DEF AsEnabled
    <3> QED
      BY <3>2, NamesAre
  <2> QED
    BY <1>2, <2>1
<1>12. CASE mode = None
  <2>1. n \notin Lit(config)
    BY <1>3, <1>5, <1>10, <1>11, <1>12, LitLaid
  <2>2. MonitorNamed(now, n) # None /\ MonitorNamed(now, n).current = None
    BY <1>1, <1>4, <2>1, DarkNow DEF now, mon
  <2>3. seen = None
    BY <2>2 DEF Of
  <2>4. want \notin ToSet(mon.modes)
    <3>1. mon.modes \in Seq(Mode)
      BY <1>6 DEF Monitor
    <3> QED
      BY <1>1, <1>12, <3>1, ModeHas
  <2> QED
    BY <2>3, <2>4 DEF Wanted, want, now, mon
<1>13. CASE mode # None
  <2> DEFINE lc == Shifted(put, dx, dy)
             tint == Tinted(mon, m.color)
  <2>1. put \in Laid(plan, state)
    BY <1>2, <1>10, <1>13 DEF Laid, put
  <2>2. lc \in config
    BY <1>3, <2>1
  <2>3. /\ lc.monitors = {m} /\ lc.x = at[1] - dx /\ lc.y = at[2] - dy
        /\ lc.scale = put.scale /\ lc.primary = put.primary
    BY <1>9 DEF Shifted
  <2>4. m.name = n /\ m.mode = mode /\ m.color = color
    OBVIOUS
  <2> HIDE DEF lc, m, mode, color
  <2>5. /\ LogicalOf(now, m.name) # None
        /\ LogicalOf(now, m.name).x = lc.x /\ LogicalOf(now, m.name).y = lc.y
        /\ LogicalOf(now, m.name).scale = lc.scale
        /\ LogicalOf(now, m.name).primary = lc.primary
        /\ MonitorNamed(now, m.name) # None /\ MonitorNamed(now, m.name).current = m.mode
        /\ HeadNamed(SnapshotOf(now), m.name) # None
        /\ HeadNamed(SnapshotOf(now), m.name) =
               [name |-> m.name, enabled |-> TRUE, mode |-> m.mode,
                position |-> <<lc.x, lc.y>>, scale |-> lc.scale, transform |-> lc.transform,
                color |-> Tinted(MonitorNamed(state, m.name), m.color)]
    BY <1>1, <1>4, <2>2, <2>3, LaidNow DEF now
  <2>6. lm.x = lc.x /\ lm.y = lc.y /\ lm.scale = lc.scale /\ lm.primary = lc.primary
    BY <2>4, <2>5
  <2>7. seen = mode
    BY <2>4, <2>5 DEF Of
  <2>8. req.spec.hdr => Of(HeadNamed(SnapshotOf(now), n), "color") = "hdr"
    <3> SUFFICES ASSUME req.spec.hdr
                 PROVE  Of(HeadNamed(SnapshotOf(now), n), "color") = "hdr"
      OBVIOUS
    <3>1. Of(HeadNamed(SnapshotOf(now), n), "color") = Tinted(mon, m.color)
      BY <1>6, <2>4, <2>5 DEF Of
    <3>2. m.color = "hdr"
      BY <2>4 DEF color
    <3>3. Tinted(mon, "hdr") = "hdr"
      BY NoneIsNothing DEF Tinted, Or, Color, mon
    <3> QED
      BY <3>1, <3>2, <3>3
  <2>9. req.scale \in {None, lm.scale}
    BY <1>9, <2>3, <2>6
  <2>10. req.primary => lm.primary
    BY <1>2, <1>9, <2>3, <2>6
  <2>11. ASSUME req.disable, NEW a \in ToSet(real) PROVE LogicalOf(now, a) = None
    <3>1. a \in Names(pre.heads) /\ a # n /\ a \in off
      BY <2>11 DEF DisabledBy
    <3>2. \A e \in ToSet(plan.enables) : e.name # a
      BY <1>2, <1>8, <3>1 DEF Keeping, AsEnabled
    <3>3. a \notin Lit(config)
      BY <1>3, <1>5, <3>2, LitLaid
    <3> QED
      BY <1>1, <1>4, <3>3, DarkNow DEF now
  <2>12. alone \/ ~req.disable => <<lm.x, lm.y>> = at
    BY <1>3, <1>7, <2>3, <2>6
  <2>13. want \in ToSet(mon.modes) => mode = want
    <3>1. mon.modes \in Seq(Mode)
      BY <1>6 DEF Monitor
    <3> QED
      BY <3>1, ModeHas DEF mode
  <2>14. mode.w = want.w /\ mode.h = want.h
    <3>1. IsSeq(mon.modes)
      BY <1>6, SeqIs DEF Monitor
    <3> QED
      BY <1>1, <1>13, <3>1, ModeLike DEF mode
  <2> HIDE DEF lm, seen
  <2> QED
    BY <2>7, <2>8, <2>9, <2>10, <2>11, <2>12, <2>13, <2>14
       DEF Wanted, want, now, mon, at, alone, lm, seen
<1> QED
  BY <1>12, <1>13

-----------------------------------------------------------------------------
(* The head's device was made for the request; no output seen had its      *)
(* name, once that has been looked at; and if none had, the monitor of     *)
(* that name is the device's.                                              *)
Strangers ==
    me.at = "create" /\ me.sess =>
        \A a \in Names(mutter.monitors) :
            a \in Names(me.pre.heads) \/ (a \in Conn /\ devs[a] # None)
HeadOurs ==
    ForUp =>
        /\ devs[me.conn] # None /\ devs[me.conn].spec = me.req.spec
        /\ me.at # "await" => /\ me.conn \notin Names(me.pre.heads)
                              /\ me.conn \in Names(mutter.monitors)
        /\ me.conn \notin Names(me.pre.heads) =>
              \A i \in DOMAIN mutter.monitors : mutter.monitors[i].name = me.conn =>
                 /\ mutter.monitors[i].color # None
                 /\ mutter.monitors[i].modes =
                        IF attribute THEN ModesOf(devs[me.conn].edid) ELSE Standard
HInv == Strangers /\ HeadOurs

LEMMA InitHead == Init => HInv
BY DEF Init, Idle, HInv, Strangers, HeadOurs, ForUp

LEMMA DevsStay ==
    ASSUME [Next]_vars, Working', ~Create
    PROVE  UNCHANGED <<devs, attribute>>
<1>1. CASE Unplug
  <2>1. me.at = "unplug" /\ me' = [me EXCEPT !.at = "gone"]
    BY <1>1 DEF Unplug
  <2>2. me'.at \in {"gone", "unplug"} \/ me'.at = me.at
    BY <2>1
  <2> QED
    BY <2>1, <2>2 DEF Working, ForUp
<1>2. CASE Destroy
  BY <1>2 DEF Destroy, Idle, Working, ForUp
<1> QED
  BY <1>1, <1>2 DEF Next, vars, RunUp, Await, PlanLayout, Refresh, Apply, Refused, Return,
     RunDown, Gone, HeadAppears, HeadGoes, UserChanges, AllOver

LEMMA StepStrangers ==
    ASSUME TInv, UnplugOnlyInDown, Strangers, [Next]_vars
    PROVE  Strangers'
<1> SUFFICES ASSUME me'.at = "create", me'.sess, NEW a \in Names(mutter'.monitors)
             PROVE  a \in Names(me'.pre.heads) \/ (a \in Conn /\ devs'[a] # None)
  BY DEF Strangers
<1>1. Working' /\ ~ForUp'
  BY DEF Working, ForUp
<1>2. CASE RunUp
  <2>1. mutter' = mutter /\ me'.pre = SnapshotOf(mutter)
    BY <1>2, RunUpAs
  <2> QED
    BY <2>1, MutterSound, SnapshotIs
<1>3. CASE ~RunUp
  <2>1. ~Create
    <3>1. Create /\ me' # Idle => me'.at = "await"
      BY CreateAs
    <3> QED
      BY <3>1 DEF Idle
  <2>2. me.at = "create" /\ me.sess /\ me.at \notin Leaving /\ me'.pre = me.pre
    BY <1>1, <1>3, <2>1, WorksOn DEF Working
  <2>3. AddedAre(mutter') /\ devs' = devs
    BY <1>1, <2>1, <2>2, MutterKeeps, DevsStay
  <2>4. PICK j \in DOMAIN mutter'.monitors : mutter'.monitors[j].name = a
    BY DEF Names
  <2>5. CASE \E i \in DOMAIN mutter.monitors : Same(mutter.monitors[i], mutter'.monitors[j])
    <3>1. a \in Names(mutter.monitors)
      BY <2>4, <2>5 DEF Same, Names
    <3> QED
      BY <2>2, <2>3, <3>1 DEF Strangers
  <2>6. CASE \E c \in Conn : devs[c] # None /\ Same(NewMonitor(c), mutter'.monitors[j])
    <3>1. PICK c \in Conn : devs[c] # None /\ Same(NewMonitor(c), mutter'.monitors[j])
      BY <2>6
    <3>2. c = a
      BY <2>4, <3>1 DEF Same, NewMonitor
    <3> QED
      BY <2>3, <3>1, <3>2
  <2> QED
    BY <2>3, <2>5, <2>6 DEF AddedAre
<1> QED
  BY <1>2, <1>3

LEMMA NewIs ==
    ASSUME NEW c, NEW mon, Same(NewMonitor(c), mon)
    PROVE  /\ mon.name = c /\ mon.color # None
           /\ mon.modes = IF attribute THEN ModesOf(devs[c].edid) ELSE Standard
<1> DEFINE modes == IF attribute THEN ModesOf(devs[c].edid) ELSE Standard
           new == NewMonitor(c)
           first == modes[1]
<1>1. new = [name |-> c, modes |-> modes, preferred |-> first, current |-> None,
             color |-> "sdr"]
  BY DEF NewMonitor
<1> HIDE DEF modes, new, first
<1>2. new.name = c /\ new.modes = modes /\ new.color = "sdr"
  BY <1>1
<1>3. "sdr" # None
  BY NoneIsNothing DEF Color
<1>4. Same(new, mon)
  BY DEF new
<1> QED
  BY <1>2, <1>3, <1>4 DEF Same, modes

LEMMA AwaitEnds ==
    ASSUME [Next]_vars, me.at = "await", me'.at # "await"
    PROVE  Await
BY DEF Next, vars, RunUp, Create, PlanLayout, Refresh, Apply, Refused, Return,
     RunDown, Unplug, Gone, Destroy, HeadAppears, HeadGoes, UserChanges, AllOver

LEMMA StepHead ==
    ASSUME TInv, UnplugOnlyInDown, Strangers, HeadOurs, [Next]_vars
    PROVE  HeadOurs'
<1> SUFFICES ASSUME ForUp' PROVE HeadOurs'
  BY DEF HeadOurs
<1>1. Working' /\ ~RunUp
  BY RunUpAs DEF Working, ForUp
<1>2. CASE Create /\ me' # Idle
  <2> DEFINE c == Min(Free)
             dev == [plugged |-> TRUE, edid |-> Build(me.req.spec), spec |-> me.req.spec]
  <2>1. /\ me.at = "create" /\ me.sess /\ UNCHANGED <<mutter, attribute>>
        /\ devs' = [devs EXCEPT ![c] = dev]
        /\ me'.at = "await" /\ me'.conn = c /\ me'.pre = me.pre /\ me'.req = me.req
    BY <1>2, CreateAs
  <2>2. c \in Conn /\ devs[c] = None
    <3>1. Free # {} /\ Free \subseteq Conn
      BY <2>1 DEF TInv, MeOK, Free
    <3>2. IsFiniteSet(Free) /\ Free \subseteq Int
      BY <3>1, Connectors, FS_Subset
    <3>3. Min(Free) \in Free
      BY <3>1, <3>2, MinIs
    <3> QED
      BY <3>3 DEF Free
  <2>3. dev.spec = me.req.spec /\ dev # None
    <3>1. dev.spec = me.req.spec
      OBVIOUS
    <3>2. me.req.spec \in Specs /\ Build(me.req.spec) # None
      BY <1>2, <2>1 DEF TInv, MeOK, Create
    <3>3. dev \in Device
      BY <3>2, NewDevice
    <3> QED
      BY <3>1, <3>3, NoneIsNothing
  <2> HIDE DEF c, dev
  <2>4. DOMAIN devs = Conn
    BY DEF TInv
  <2>5. devs'[c] = dev
    BY <2>1, <2>2, <2>4
  <2>6. ASSUME c \notin Names(me.pre.heads), NEW i \in DOMAIN mutter.monitors,
               mutter.monitors[i].name = c
        PROVE  FALSE
    <3>1. c \in Names(mutter.monitors)
      BY <2>6 DEF Names
    <3> QED
      BY <2>1, <2>2, <2>6, <3>1 DEF Strangers
  <2> QED
    BY <2>1, <2>3, <2>5, <2>6 DEF HeadOurs
<1>3. CASE ~Create
  <2>1. /\ me.at \notin Leaving /\ me'.pre = me.pre /\ me'.req = me.req
        /\ me'.conn = me.conn /\ ForUp
    BY <1>1, <1>3, WorksOn
  <2>2. UNCHANGED <<devs, attribute>>
    BY <1>1, <1>3, DevsStay
  <2>3. Outlives(mutter, mutter') /\ AddedAre(mutter')
    BY <2>1, MutterKeeps
  <2>4. ASSUME me'.at # "await"
        PROVE  me.conn \notin Names(me.pre.heads) /\ me.conn \in Names(mutter'.monitors)
    <3>1. CASE me.at = "await"
      <4>1. Await
        BY <2>4, <3>1, AwaitEnds
      <4>2. me.conn \in Names(me.pre.heads) => me'.at = "failed"
        BY <4>1 DEF Await, TInv, MeOK, Fields
      <4>3. me.conn \notin Names(me.pre.heads)
        BY <4>2 DEF ForUp
      <4> QED
        BY <4>1, <4>3 DEF Await
    <3>2. CASE me.at # "await"
      <4>1. me.conn \notin Names(me.pre.heads) /\ me.conn \in Names(mutter.monitors)
        BY <2>1, <3>2 DEF HeadOurs
      <4>2. PICK i \in DOMAIN mutter.monitors : mutter.monitors[i].name = me.conn
        BY <4>1 DEF Names
      <4>3. PICK j \in DOMAIN mutter'.monitors : Same(mutter.monitors[i], mutter'.monitors[j])
        BY <2>3 DEF Outlives
      <4> QED
        BY <4>1, <4>2, <4>3 DEF Same, Names
    <3> QED
      BY <3>1, <3>2
  <2>5. ASSUME me.conn \notin Names(me.pre.heads), NEW j \in DOMAIN mutter'.monitors,
               mutter'.monitors[j].name = me.conn
        PROVE  /\ mutter'.monitors[j].color # None
               /\ mutter'.monitors[j].modes =
                      IF attribute THEN ModesOf(devs[me.conn].edid) ELSE Standard
    <3>1. CASE \E i \in DOMAIN mutter.monitors : Same(mutter.monitors[i], mutter'.monitors[j])
      <4>1. PICK i \in DOMAIN mutter.monitors : Same(mutter.monitors[i], mutter'.monitors[j])
        BY <3>1
      <4>2. /\ mutter.monitors[i].name = me.conn
            /\ mutter.monitors[i].modes = mutter'.monitors[j].modes
            /\ mutter.monitors[i].color = None <=> mutter'.monitors[j].color = None
        BY <2>5, <4>1 DEF Same
      <4> QED
        BY <2>1, <2>5, <4>2 DEF HeadOurs
    <3>2. CASE \E c \in Conn : devs[c] # None /\ Same(NewMonitor(c), mutter'.monitors[j])
      BY <2>5, <3>2, NewIs
    <3> QED
      BY <2>3, <3>1, <3>2 DEF AddedAre
  <2>6. devs[me.conn] # None /\ devs[me.conn].spec = me.req.spec
    BY <2>1 DEF HeadOurs
  <2> QED
    BY <2>1, <2>2, <2>4, <2>5, <2>6 DEF HeadOurs
<1>4. me' # Idle
  BY DEF ForUp, Idle
<1> QED
  BY <1>2, <1>3, <1>4

LEMMA AlwaysHead == Spec => []HInv
<1>1. TInv /\ IInv /\ HInv /\ [Next]_vars => HInv'
  BY StepStrangers, StepHead DEF HInv, IInv
<1> QED
  BY <1>1, InitHead, AlwaysWorking, PTL DEF Spec

-----------------------------------------------------------------------------
(* The mode asked for is one, and of the size the timing has; if libxcvt   *)
(* keeps the width it is the first the EDID offers.                        *)
LEMMA AsksMode ==
    ASSUME NEW spec, Build(spec) # None
    PROVE  RequestedMode(spec) \in Mode
<1>1. Taken(spec) /\ CvtRbV1(spec) = Xcvt(spec) /\ Xcvt(spec).clock <= MaxClock
  BY BuiltOf
<1>2. CvtRbV1(spec) # None
  BY DEF Build
<1> DEFINE mhz == SpecRefresh(spec)
<1>3. mhz = RefreshOf(Xcvt(spec))
  BY <1>1, <1>2 DEF SpecRefresh
<1>4. mhz \in Nat
  BY <1>1, <1>3, RefreshBelow
<1> HIDE DEF mhz
<1>5. spec.width \in Nat /\ spec.height \in Nat
  BY <1>1, TakenTyped
<1> QED
  BY <1>4, <1>5 DEF RequestedMode, ModeInfo, Mode, mhz

LEMMA KeepsWidth ==
    ASSUME NEW spec, Taken(spec), spec.width % 8 = 0
    PROVE  Xcvt(spec).h_active = spec.width /\ Xcvt(spec).v_active = spec.height
<1> DEFINE active == spec.width - (spec.width % 8)
           vsync == VSync(active, spec.height)
           vblank == Max({(460 * (spec.height * spec.hz)) \div (1000000 - 460 * spec.hz) + 1,
                          3 + vsync + 6})
           back == vblank - 3 - vsync
           clock == 250 * LongDivision(4 * (active + 160), spec.height * spec.hz,
                                       1000000 - 460 * spec.hz).quo
<1>1. active = spec.width
  BY TakenTyped
<1>2. Xcvt(spec) = [h_active |-> active, h_front |-> 48, h_sync |-> 32, h_back |-> 80,
                    v_active |-> spec.height, v_front |-> 3, v_sync |-> vsync,
                    v_back |-> back, clock |-> clock]
  BY DEF Xcvt
<1> HIDE DEF active, vsync, back, clock
<1> QED
  BY <1>1, <1>2

LEMMA OffersMode ==
    ASSUME NEW spec, Build(spec) # None, spec.width % 8 = 0
    PROVE  RequestedMode(spec) \in ToSet(ModesOf(Build(spec)))
<1> DEFINE t == Xcvt(spec)
           e == Build(spec)
           want == RequestedMode(spec)
           modes == ModesOf(e)
<1>1. Taken(spec) /\ CvtRbV1(spec) = t
  BY BuiltOf
<1>2. CvtRbV1(spec) # None
  BY DEF Build
<1>3. e.dtd = t
  BY <1>1, EdidIsFaithful DEF Faithful
<1>4. SpecRefresh(spec) = RefreshOf(t)
  BY <1>1, <1>2 DEF SpecRefresh
<1>5. t.h_active = spec.width /\ t.v_active = spec.height
  BY <1>1, KeepsWidth
<1> HIDE DEF t, e
<1>6. want = ModeInfo(e.dtd.h_active, e.dtd.v_active, RefreshOf(e.dtd))
  BY <1>3, <1>4, <1>5 DEF RequestedMode
<1> HIDE DEF want
<1>7. modes = IF e.hdr THEN <<want, Vga>> ELSE <<want>>
  BY <1>6 DEF ModesOf
<1>8. 1 \in DOMAIN modes /\ modes[1] = want
  <2>1. 1 \in DOMAIN <<want, Vga>> /\ <<want, Vga>>[1] = want
    OBVIOUS
  <2>2. 1 \in DOMAIN <<want>> /\ <<want>>[1] = want
    OBVIOUS
  <2> QED
    BY <1>7, <2>1, <2>2
<1> HIDE DEF modes
<1> QED
  BY <1>8 DEF ToSet, want, modes, e

-----------------------------------------------------------------------------
LEMMA WantedLess ==
    ASSUME NEW req, NEW pre, NEW n, NEW real, NEW state, NEW exact, NEW less,
           Wanted(req, pre, n, real, state, exact), less => exact
    PROVE  Wanted(req, pre, n, real, state, less)
BY DEF Wanted

LEMMA StepAsked ==
    ASSUME TInv, IInv, WInv, HInv, HeadAsAsked, [Next]_vars
    PROVE  HeadAsAsked'
<1> SUFFICES ASSUME me'.at = "check", hist'.calm
             PROVE  Wanted(me'.req, me'.pre, me'.conn, Real', mutter', Exact')
  BY DEF HeadAsAsked, HdrAttached, Wanted
<1>1. hist.calm /\ (Apply \/ UNCHANGED <<mutter, me, recs, devs, attribute>>)
  BY LeftAlone DEF IInv
<1>2. CASE UNCHANGED <<mutter, me, recs, devs, attribute>>
  <2>1. Wanted(me.req, me.pre, me.conn, Real, mutter, Exact)
    BY <1>1, <1>2 DEF HeadAsAsked, HdrAttached, Wanted
  <2>2. Real' = Real
    BY <1>2 DEF Real, Owned
  <2>3. Exact' <=> Exact
    BY <1>2 DEF Exact
  <2> QED
    BY <1>2, <2>1, <2>2, <2>3, WantedLess
<1>3. CASE Apply
  <2> DEFINE spec == me.req.spec
  <2>1. me.at = "apply" /\ me.phase = "layout"
    BY <1>3, ApplyAs
  <2>2. /\ ForUp /\ ScaleOK(me.req.scale) /\ me.conn \in Conn
        /\ Familiarly(me.pre, me.conn, mutter)
        /\ me.plan = LayoutPlan(me.req, me.pre, me.conn, Real) /\ me.plan # None
        /\ Asked = ToMutterConfig(me.plan, mutter) /\ Asked # {}
        /\ mutter' = Obeyed(mutter, Asked)
        /\ UNCHANGED <<devs, attribute>> /\ me'.req = me.req /\ me'.pre = me.pre
        /\ me'.conn = me.conn /\ Real' = Real
    BY <1>1, <1>3, <2>1, Granting2
  <2>3. /\ devs[me.conn] # None /\ devs[me.conn].spec = spec
        /\ me.conn \notin Names(me.pre.heads) /\ me.conn \in Names(mutter.monitors)
        /\ \A i \in DOMAIN mutter.monitors : mutter.monitors[i].name = me.conn =>
              /\ mutter.monitors[i].color # None
              /\ mutter.monitors[i].modes =
                     IF attribute THEN ModesOf(devs[me.conn].edid) ELSE Standard
    BY <2>1, <2>2 DEF HInv, HeadOurs
  <2>4. PICK i \in DOMAIN mutter.monitors : mutter.monitors[i].name = me.conn
    BY <2>3 DEF Names
  <2>5. Build(spec) # None /\ devs[me.conn].edid = Build(spec)
    <3>1. devs[me.conn] \in Device
      BY <2>2, <2>3 DEF TInv
    <3> QED
      BY <2>3, <3>1, DeviceIs
  <2>6. RequestedMode(spec) \in Mode
    BY <2>5, AsksMode
  <2>7. ToSet(Real) \subseteq Names(me.pre.heads)
    <3>1. IsSeq(me.pre.heads)
      BY DEF TInv, MeOK, SnapOK
    <3> QED
      BY <3>1, RealIs DEF Real
  <2>8. Exact => RequestedMode(spec) \in ToSet(mutter.monitors[i].modes)
    BY <2>3, <2>4, <2>5, OffersMode DEF Exact
  <2>9. Exact' <=> Exact
    BY <2>2 DEF Exact
  <2> DEFINE config == Asked
             offered == RequestedMode(spec) \in ToSet(mutter.monitors[i].modes)
  <2>10. Wanted(me.req, me.pre, me.conn, Real, Obeyed(mutter, config), offered)
    <3> HIDE DEF config
    <3> QED
      BY <2>2, <2>3, <2>4, <2>6, <2>7, HeadDone DEF config
  <2> DEFINE exact == Exact'
  <2>11. exact => offered
    BY <2>8, <2>9
  <2>12. /\ mutter' = Obeyed(mutter, config) /\ me'.req = me.req /\ me'.pre = me.pre
         /\ me'.conn = me.conn /\ Real' = Real
    BY <2>2
  <2> HIDE DEF offered, exact, config
  <2>13. Wanted(me.req, me.pre, me.conn, Real, mutter', exact)
    BY <2>10, <2>11, <2>12, WantedLess
  <2> QED
    BY <2>12, <2>13 DEF exact
<1> QED
  BY <1>1, <1>2, <1>3

(* Whoever asks for whatever, on whatever desk: when `up` reports success  *)
(* and nobody else has touched the layout, the head is in the mode asked   *)
(* for, with HDR and the scale if asked, where `up` says and the primary   *)
(* or the only one if asked, provided libxcvt keeps the width and the      *)
(* kernel was given the EDID; and in no other size in any case.            *)
THEOREM HeadIsAsAsked == Spec => []HeadAsAsked
<1>1. Init => HeadAsAsked
  BY DEF Init, Idle, HeadAsAsked
<1>2. TInv /\ IInv /\ WInv /\ HInv /\ HeadAsAsked /\ [Next]_vars => HeadAsAsked'
  BY StepAsked
<1> QED
  BY <1>1, <1>2, AlwaysWorking, AlwaysHead, PTL DEF Spec
=============================================================================
