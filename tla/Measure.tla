------------------------------- MODULE Measure -------------------------------
(***************************************************************************)
(* appcore-measure.c: a start time, kept by appcore_measure_start or taken *)
(* from the environment, and the milliseconds from it to the clock.  The   *)
(* functions share no state but tv_s, so they are operators; what          *)
(* __get_msec makes of two times is proved for all of them.                *)
(***************************************************************************)
EXTENDS Integers, TLAPS

Microseconds == {u \in Nat : u < 1000000}

Timevals == [tv_sec : Nat, tv_usec : Microseconds]

Zero == [tv_sec |-> 0, tv_usec |-> 0]

(***************************************************************************)
(* Division of C: towards zero.                                            *)
(***************************************************************************)
CDiv(a, b) == IF a >= 0 THEN a \div b ELSE -((-a) \div b)

(***************************************************************************)
(* The long result is returned as an int of 32 bits.                       *)
(***************************************************************************)
ToInt(x) == ((x + 2147483648) % 4294967296) - 2147483648

Msec(s, e) == (e.tv_sec - s.tv_sec) * 1000 + CDiv(e.tv_usec - s.tv_usec + 500, 1000)

GetMsec(s, e) == ToInt(Msec(s, e))

(***************************************************************************)
(* appcore_measure_time: 0 until appcore_measure_start has set tv_s.       *)
(***************************************************************************)
GetTime(tv_s, now) == IF tv_s = Zero THEN 0 ELSE GetMsec(tv_s, now)

(***************************************************************************)
(* appcore_measure_time_from.  env is what __get_envtime made of the       *)
(* variable, on a platform whose long has the 32 bits "%u" writes: 0 when  *)
(* the variable is not set or does not hold two numbers.                   *)
(***************************************************************************)
TwoNumbers == [tv_sec : Nat, tv_usec : Nat]

GetTimeFrom(env, now) == IF env \in TwoNumbers THEN GetMsec(env, now) ELSE 0
-----------------------------------------------------------------------------
Elapsed(s, e) == (e.tv_sec - s.tv_sec) * 1000000 + (e.tv_usec - s.tv_usec)

LEMMA Fields ==
    ASSUME NEW t \in Timevals
    PROVE  /\ t.tv_sec \in Int /\ t.tv_sec >= 0
           /\ t.tv_usec \in Int /\ t.tv_usec >= 0 /\ t.tv_usec <= 999999
<1>1. t.tv_sec \in Nat /\ t.tv_usec \in Microseconds
  BY DEF Timevals
<1>2. t.tv_sec \in Int /\ t.tv_sec >= 0
  BY <1>1, SMT
<1>3. t.tv_usec \in Int /\ t.tv_usec >= 0 /\ t.tv_usec <= 999999
  BY <1>1, SMT DEF Microseconds
<1> QED
  BY <1>2, <1>3

LEMMA DivBounds ==
    ASSUME NEW n \in Int
    PROVE  /\ CDiv(n, 1000) \in Int
           /\ n >= 0 => CDiv(n, 1000) * 1000 <= n /\ n <= CDiv(n, 1000) * 1000 + 999
           /\ n < 0 => n <= CDiv(n, 1000) * 1000 /\ CDiv(n, 1000) * 1000 <= n + 999
BY SMT DEF CDiv

LEMMA DivShift ==
    ASSUME NEW d \in Int, NEW c \in Int, d <= c + 999999
    PROVE  CDiv(d, 1000) <= CDiv(c, 1000) + 1000
<1>1. CASE d >= 0 /\ c >= 0
  BY <1>1, SMT DEF CDiv
<1>2. CASE d >= 0 /\ c < 0
  BY <1>2, SMT DEF CDiv
<1>3. CASE d < 0 /\ c >= 0
  BY <1>3, SMT DEF CDiv
<1>4. CASE d < 0 /\ c < 0
  BY <1>4, SMT DEF CDiv
<1> QED
  BY <1>1, <1>2, <1>3, <1>4, SMT

LEMMA IntKept ==
    ASSUME NEW x \in Int, -2147483648 <= x, x <= 2147483647
    PROVE  ToInt(x) = x
BY SMT DEF ToInt

(***************************************************************************)
(* "+ 500" rounds to the nearest millisecond only while the microseconds   *)
(* of the end are not behind those of the start; when they are, the C      *)
(* division cuts off on the other side of zero, and the result is up to    *)
(* one and a half milliseconds too long.  Never further off than that.     *)
(***************************************************************************)
THEOREM MsecError ==
    ASSUME NEW s \in Timevals, NEW e \in Timevals
    PROVE  /\ Msec(s, e) \in Int
           /\ -500 < 1000 * Msec(s, e) - Elapsed(s, e)
           /\ 1000 * Msec(s, e) - Elapsed(s, e) < 1500
           /\ e.tv_usec >= s.tv_usec => 1000 * Msec(s, e) - Elapsed(s, e) <= 500
<1> DEFINE d == e.tv_usec - s.tv_usec
           q == CDiv(d + 500, 1000)
           sec == e.tv_sec - s.tv_sec
<1>1. d \in Int /\ sec \in Int
  BY Fields, SMT
<1>2. /\ q \in Int
      /\ d + 500 >= 0 => q * 1000 <= d + 500 /\ d + 500 <= q * 1000 + 999
      /\ d + 500 < 0 => d + 500 <= q * 1000 /\ q * 1000 <= d + 500 + 999
  BY <1>1, DivBounds, SMT
<1>3. e.tv_usec >= s.tv_usec => d >= 0
  BY Fields, SMT
<1>4. Msec(s, e) = sec * 1000 + q /\ Elapsed(s, e) = sec * 1000000 + d
  BY SMT DEF Msec, Elapsed
<1> HIDE DEF d, q, sec
<1>5. 1000 * (sec * 1000 + q) - (sec * 1000000 + d) = q * 1000 - d
  BY <1>1, <1>2, SMT
<1> QED
  BY <1>1, <1>2, <1>3, <1>4, <1>5, SMT

(***************************************************************************)
(* What a program prints never runs backwards, and is never negative,      *)
(* while the clock does not: also across the turn of a second, where the   *)
(* two kinds of rounding meet.                                             *)
(***************************************************************************)
THEOREM MsecMonotone ==
    ASSUME NEW s \in Timevals, NEW e \in Timevals, NEW f \in Timevals,
           Elapsed(s, e) <= Elapsed(s, f)
    PROVE  Msec(s, e) <= Msec(s, f)
<1> DEFINE d == e.tv_usec - s.tv_usec + 500
           c == f.tv_usec - s.tv_usec + 500
<1>1. /\ d \in Int /\ c \in Int /\ CDiv(d, 1000) \in Int /\ CDiv(c, 1000) \in Int
      /\ e.tv_sec \in Nat /\ f.tv_sec \in Nat /\ s.tv_sec \in Nat
  <2>1. d \in Int /\ c \in Int
    BY Fields, SMT
  <2>2. CDiv(d, 1000) \in Int /\ CDiv(c, 1000) \in Int
    BY <2>1, DivBounds, SMT
  <2>3. e.tv_sec \in Nat /\ f.tv_sec \in Nat /\ s.tv_sec \in Nat
    BY DEF Timevals
  <2> QED
    BY <2>1, <2>2, <2>3
<1>2. CASE e.tv_sec = f.tv_sec
  <2>1. d <= c
    BY <1>2, Fields, SMT DEF Elapsed
  <2>2. CDiv(d, 1000) <= CDiv(c, 1000)
    BY <1>1, <2>1, SMT DEF CDiv
  <2> QED
    BY <1>1, <1>2, <2>2, SMT DEF Msec
<1>3. CASE e.tv_sec < f.tv_sec
  <2>1. d <= c + 999999
    BY Fields, SMT
  <2>2. CDiv(d, 1000) <= CDiv(c, 1000) + 1000
    BY <1>1, <2>1, DivShift
  <2> QED
    BY <1>1, <1>3, <2>2, SMT DEF Msec
<1>4. e.tv_sec <= f.tv_sec
  BY Fields, SMT DEF Elapsed
<1> QED
  BY <1>1, <1>2, <1>3, <1>4, SMT

(***************************************************************************)
(* Up to 24 days, longer than which the int does not reach, what           *)
(* appcore_measure_time returns is not negative and off by less than one   *)
(* and a half milliseconds; and appcore_measure_time_from returns the same *)
(* when the environment holds that start time.                             *)
(***************************************************************************)
THEOREM MeasureTimeCorrect ==
    ASSUME NEW tv_s \in Timevals, tv_s # Zero, NEW now \in Timevals,
           0 <= Elapsed(tv_s, now), Elapsed(tv_s, now) <= 2147483000000
    PROVE  /\ GetTime(tv_s, now) >= 0
           /\ 1000 * GetTime(tv_s, now) - Elapsed(tv_s, now) \in -499..1499
           /\ GetTimeFrom(tv_s, now) = GetTime(tv_s, now)
<1>1. /\ Msec(tv_s, now) \in Int
      /\ -500 < 1000 * Msec(tv_s, now) - Elapsed(tv_s, now)
      /\ 1000 * Msec(tv_s, now) - Elapsed(tv_s, now) < 1500
  BY MsecError, SMT
<1>2. Elapsed(tv_s, now) \in Int
  BY Fields, SMT DEF Elapsed
<1>3. 0 <= Msec(tv_s, now) /\ Msec(tv_s, now) <= 2147483647
  BY <1>1, <1>2, SMT
<1>4. GetTime(tv_s, now) = Msec(tv_s, now)
  BY <1>1, <1>3, IntKept, SMT DEF GetTime, GetMsec
<1>5. tv_s \in TwoNumbers
  BY DEF Timevals, Microseconds, TwoNumbers
<1>6. GetTimeFrom(tv_s, now) = GetTime(tv_s, now)
  BY <1>5 DEF GetTimeFrom, GetTime
<1> QED
  BY <1>1, <1>2, <1>3, <1>4, <1>6, SMT
=============================================================================
