-------------------------- MODULE ConfigurationProofs --------------------------
(***************************************************************************)
(* Proofs about Configuration and the start of the program with it, for    *)
(* all widths of integers and floats, and for every configuration that the *)
(* file may say.                                                           *)
(*                                                                         *)
(* What matters of rounding to float is that there is no float between a   *)
(* number and what it is rounded to, and that the error is bounded by the  *)
(* precision.                                                              *)
(***************************************************************************)
EXTENDS Startup, WellFoundedInduction, TLAPS

------------------------------------------------------------------------------
(* Products                                                                *)

\* Products are monotonic.
LEMMA TimesMonotonic ==
  ASSUME NEW a \in Int, NEW b \in Int, NEW c \in Nat, a <= b
  PROVE  c * a <= c * b
  <1>1. c * (b - a) >= 0
    OBVIOUS
  <1> QED
    BY <1>1

\* A smaller product has a smaller factor.
LEMMA TimesLess ==
  ASSUME NEW a \in Int, NEW b \in Int, NEW c \in Nat, c * a < c * b
  PROVE  a < b
  BY TimesMonotonic

\* The quotient and the rest
LEMMA Quotient ==
  ASSUME NEW x \in Nat, NEW u \in Nat \ {0}
  PROVE  /\ x \div u \in Nat
         /\ (x \div u) * u <= x
         /\ x < (x \div u) * u + u
  OBVIOUS

\* A multiple of u that is greater than x
LEMMA NextMultiple ==
  ASSUME NEW x \in Nat, NEW u \in Nat \ {0}, NEW k \in Nat, x < k * u
  PROVE  (x \div u) * u + u <= k * u
  <1> DEFINE q == x \div u
  <1>1. q \in Nat /\ q * u <= x
    BY Quotient
  <1> HIDE DEF q
  <1>2. u * q < u * k
    BY <1>1
  <1>3. q + 1 <= k
    BY <1>1, <1>2, TimesLess
  <1>4. u * (q + 1) <= u * k
    BY <1>1, <1>3, TimesMonotonic
  <1> QED
    BY <1>1, <1>4 DEF q

------------------------------------------------------------------------------
(* Floats                                                                  *)

\* A number that a float represents exactly
IsFloat(f) == \E u \in Ulps, k \in 0 .. FloatRange : f = k * u

\* A number in the range of floats has an ulp, and it is not greater than the
\* precision of a float allows.
LEMMA UlpExists ==
  ASSUME NEW x \in Nat, Finite(x)
  PROVE  /\ ulp(x) \in Ulps /\ x < FloatRange * ulp(x)
         /\ \A v \in Ulps : x < FloatRange * v => ulp(x) <= v
         /\ ulp(x) = 1 \/ FloatRange * ulp(x) <= 2 * x
  <1> DEFINE T == {u \in Ulps : x < FloatRange * u}
             R == {p \in Nat \X Nat : p[1] < p[2]}
  <1>1. T # {} /\ T \subseteq Nat /\ FloatRange \in Nat
    BY FloatAssumption, WidthsAssumption DEF Finite
  <1>2. IsWellFoundedOn(R, Nat)
    BY NatLessThanWellFounded, Zenon DEF OpToRel
  <1>3. \A v, w \in Nat : v < w => <<v, w>> \in R
    OBVIOUS
  <1> HIDE DEF R
  <1>4. \E u \in T : \A v \in T : ~(<<v, u>> \in R)
    <2> HIDE DEF T
    <2> QED
      BY <1>1, <1>2, WFMin, Zenon
  <1>5. \E u \in Ulps : /\ x < FloatRange * u
                        /\ \A v \in Ulps : x < FloatRange * v => u <= v
    <2>1. PICK u \in T : \A v \in T : ~(<<v, u>> \in R)
      BY <1>4, Zenon
    <2>2. ASSUME NEW v \in T PROVE u <= v
      <3>1. u \in Nat /\ v \in Nat
        BY <1>1
      <3>2. ~(v < u)
        BY <1>3, <2>1, <3>1, Zenon
      <3> QED
        BY <3>1, <3>2
    <2> QED
      BY <2>2
  <1>6. /\ ulp(x) \in Ulps /\ x < FloatRange * ulp(x)
        /\ \A v \in Ulps : x < FloatRange * v => ulp(x) <= v
    BY <1>5, Zenon DEF ulp
  <1>7. ulp(x) = 1 \/ FloatRange * ulp(x) <= 2 * x
    <2> SUFFICES ASSUME ulp(x) # 1 PROVE FloatRange * ulp(x) <= 2 * x
      OBVIOUS
    <2>1. PICK v \in Ulps : ulp(x) = 2 * v
      BY <1>6, FloatAssumption
    <2>2. v \in Nat /\ v < ulp(x) /\ ulp(x) \in Nat
      BY <1>6, <2>1, FloatAssumption
    <2>3. ~(x < FloatRange * v)
      <3>1. ~(ulp(x) <= v)
        BY <2>2
      <3> QED
        BY <1>6, <3>1, Zenon
    <2> QED
      BY <1>1, <2>1, <2>2, <2>3
  <1> QED
    BY <1>6, <1>7

\* Rounding gives one of the two multiples of the ulp around a number, and the
\* nearer one.
LEMMA Rounded ==
  ASSUME NEW x \in Nat, Finite(x)
  PROVE  LET u == ulp(x)
             q == x \div u
             r == RoundFloat(x)
         IN  /\ u \in Nat \ {0} /\ q \in Nat /\ r \in Nat
             /\ r = q * u \/ r = (q + 1) * u
             /\ 2 * (r - x) <= u /\ 2 * (x - r) <= u
             /\ u = 1 => r = x
  <1> DEFINE u == ulp(x)
             q == x \div u
             low == q * u
  <1>1. u \in Nat \ {0}
    BY UlpExists, FloatAssumption
  <1>2. q \in Nat /\ low \in Nat /\ low <= x /\ x < low + u
    BY <1>1, Quotient
  <1>3. RoundFloat(x) = IF \/ 2 * (x - low) > u
                           \/ 2 * (x - low) = u /\ q % 2 = 1
                        THEN low + u ELSE low
    BY DEF RoundFloat
  <1>4. (q + 1) * u = low + u
    BY <1>1, <1>2
  <1> HIDE DEF low, q
  <1>5. CASE RoundFloat(x) = low + u /\ 2 * (x - low) >= u
    BY <1>1, <1>2, <1>4, <1>5 DEF low, q
  <1>6. CASE RoundFloat(x) = low /\ 2 * (x - low) <= u
    BY <1>1, <1>2, <1>6 DEF low, q
  <1>7. u = 1 => RoundFloat(x) = x
    BY <1>1, <1>2, <1>3
  <1> QED
    BY <1>1, <1>2, <1>3, <1>5, <1>6, <1>7

\* What a number is rounded to is a float.
LEMMA RoundsToFloat ==
  ASSUME NEW x \in Nat, Finite(x)
  PROVE  IsFloat(RoundFloat(x))
  <1> DEFINE u == ulp(x)
             q == x \div u
  <1>1. /\ u \in Ulps /\ u \in Nat \ {0} /\ x < FloatRange * u
        /\ FloatRange \in Nat
    BY UlpExists, FloatAssumption, WidthsAssumption
  <1>2. q \in Nat /\ q * u <= x
    BY <1>1, Quotient
  <1>3. RoundFloat(x) = q * u \/ RoundFloat(x) = (q + 1) * u
    BY Rounded
  <1> HIDE DEF q, u
  <1>4. u * q < u * FloatRange
    BY <1>1, <1>2
  <1>5. q < FloatRange
    BY <1>1, <1>2, <1>4, TimesLess
  <1>6. q \in 0 .. FloatRange /\ q + 1 \in 0 .. FloatRange
    BY <1>1, <1>2, <1>5
  <1> QED
    BY <1>1, <1>3, <1>6 DEF IsFloat

\* There is no float between a number and what it is rounded to.
LEMMA NoFloatBetween ==
  ASSUME NEW x \in Nat, Finite(x), NEW f \in Nat, IsFloat(f), x < f
  PROVE  RoundFloat(x) <= f
  <1> DEFINE u == ulp(x)
             q == x \div u
  <1>1. /\ u \in Ulps /\ u \in Nat \ {0} /\ FloatRange \in Nat
        /\ \A v \in Ulps : x < FloatRange * v => u <= v
    BY UlpExists, FloatAssumption, WidthsAssumption
  <1>2. PICK v \in Ulps, k \in 0 .. FloatRange : f = k * v
    BY DEF IsFloat
  <1>3. v \in Nat \ {0} /\ k \in Nat /\ k <= FloatRange
    BY <1>1, <1>2, FloatAssumption
  <1>4. q \in Nat /\ RoundFloat(x) \in Nat /\ RoundFloat(x) <= q * u + u
    <2>1. /\ q \in Nat /\ RoundFloat(x) \in Nat
          /\ RoundFloat(x) = q * u \/ RoundFloat(x) = (q + 1) * u
      BY Rounded
    <2> HIDE DEF q, u
    <2>2. (q + 1) * u = q * u + u
      BY <1>1, <2>1
    <2> QED
      BY <1>1, <2>1, <2>2
  <1>5. v * k <= v * FloatRange
    BY <1>1, <1>3, TimesMonotonic
  <1>6. u <= v
    <2>1. x < FloatRange * v
      BY <1>1, <1>2, <1>3, <1>5
    <2> QED
      BY <1>1, <2>1
  <1>7. PICK c \in Nat : v = c * u
    <2> HIDE DEF u
    <2>1. PICK c \in 1 .. v : v = c * u
      BY <1>1, <1>6, FloatAssumption, Zenon
    <2> QED
      BY <1>3, <2>1
  <1>8. f = (k * c) * u /\ k * c \in Nat
    <2>1. k * (c * u) = (k * c) * u
      BY <1>1, <1>3, <1>7
    <2> QED
      BY <1>2, <1>3, <1>7, <2>1
  <1>9. q * u + u <= f
    BY <1>1, <1>8, NextMultiple
  <1> QED
    BY <1>1, <1>4, <1>9

\* The error of rounding is at most one part of FloatRange.
LEMMA Precision ==
  ASSUME NEW x \in Nat, Finite(x)
  PROVE  LET r == RoundFloat(x)
         IN  /\ r \in Nat
             /\ FloatRange * r <= (FloatRange + 1) * x
             /\ (FloatRange - 1) * x <= FloatRange * r
  <1> DEFINE u == ulp(x)
             r == RoundFloat(x)
             F == FloatRange
  <1>1. F \in Nat \ {0} /\ u \in Nat /\ r \in Nat
    BY Rounded, WidthsAssumption
  <1>2. 2 * (r - x) <= u /\ 2 * (x - r) <= u /\ (u = 1 => r = x)
    BY Rounded
  <1>3. u = 1 \/ F * u <= 2 * x
    BY UlpExists
  <1> HIDE DEF u, r
  <1>4. F * (r - x) <= x /\ F * (x - r) <= x
    <2>1. CASE u = 1
      BY <1>1, <1>2, <2>1
    <2>2. CASE F * u <= 2 * x
      <3>1. F * (2 * (r - x)) <= F * u /\ F * (2 * (x - r)) <= F * u
        BY <1>1, <1>2, TimesMonotonic
      <3>2. F * (2 * (r - x)) = 2 * (F * (r - x)) /\ F * (2 * (x - r)) = 2 * (F * (x - r))
        BY <1>1
      <3> QED
        BY <1>1, <2>2, <3>1, <3>2
    <2> QED
      BY <1>3, <2>1, <2>2
  <1>5. F * (r - x) = F * r - F * x /\ F * (x - r) = F * x - F * r
    BY <1>1
  <1>6. (F + 1) * x = F * x + x /\ (F - 1) * x = F * x - x
    BY <1>1
  <1>7. F * r <= (F + 1) * x /\ (F - 1) * x <= F * r
    BY <1>1, <1>4, <1>5, <1>6
  <1> QED
    BY <1>1, <1>7 DEF r

------------------------------------------------------------------------------
(* get_time()                                                              *)

\* The largest rep in the unit of floats
Most == REP_MAX * FloatUnit

\* The largest rep is in the range of floats.
LEMMA MostFinite ==
  /\ Most \in Nat /\ Finite(Most) /\ float_max \in Nat /\ float_max = RoundFloat(Most)
  <1>1. Most \in Nat
    BY WidthsAssumption DEF Most
  <1>2. Finite(Most)
    BY FloatAssumption DEF Finite, Most
  <1>3. float_max = RoundFloat(Most)
    BY DEF float_max, Most
  <1> QED
    BY <1>1, <1>2, <1>3, Rounded

\* The test t < float(max) lets nothing pass that rep does not have, although
\* float(max) is itself greater than the largest rep.
LEMMA InRangeFits ==
  ASSUME NEW x \in Nat, InRange(RoundFloat(x))
  PROVE  Finite(x) /\ RoundFloat(x) \in Nat /\ RoundFloat(x) <= Most
  <1>1. RoundFloat(x) < float_max
    BY DEF InRange
  <1>2. Finite(x)
    <2> SUFFICES ASSUME ~Finite(x) PROVE FALSE
      OBVIOUS
    <2>1. RoundFloat(x) = x
      BY DEF RoundFloat
    <2>2. PICK u \in Ulps : Most < FloatRange * u
      BY MostFinite DEF Finite
    <2>3. FloatRange * u \in Nat /\ ~(x < FloatRange * u)
      BY <2>2, FloatAssumption, WidthsAssumption DEF Finite
    <2>4. IsFloat(FloatRange * u)
      BY WidthsAssumption DEF IsFloat
    <2>5. float_max <= FloatRange * u
      BY <2>2, <2>3, <2>4, MostFinite, NoFloatBetween
    <2> QED
      BY <1>1, <2>1, <2>3, <2>5, MostFinite
  <1>3. RoundFloat(x) \in Nat /\ IsFloat(RoundFloat(x))
    BY <1>2, Rounded, RoundsToFloat
  <1>4. ~(Most < RoundFloat(x))
    <2> SUFFICES ASSUME Most < RoundFloat(x) PROVE FALSE
      OBVIOUS
    <2>1. RoundFloat(Most) <= RoundFloat(x)
      BY <1>3, MostFinite, NoFloatBetween
    <2> QED
      BY <1>1, <1>3, <2>1, MostFinite
  <1> QED
    BY <1>2, <1>3, <1>4, MostFinite

\* The conversion to rep of what has passed the test
LEMMA RepFits ==
  ASSUME NEW x \in Nat, x <= Most
  PROVE  /\ rep(x) \in 0 .. REP_MAX
         /\ rep(x) * FloatUnit <= x
         /\ x <= (rep(x) + 1) * FloatUnit
  <1> DEFINE q == x \div FloatUnit
  <1>1. FloatUnit \in Nat \ {0} /\ REP_MAX \in Nat
    BY WidthsAssumption
  <1>2. q \in Nat /\ q * FloatUnit <= x /\ x < q * FloatUnit + FloatUnit
    BY <1>1, Quotient
  <1> HIDE DEF q
  <1>3. FloatUnit * q <= FloatUnit * REP_MAX
    BY <1>1, <1>2 DEF Most
  <1>4. FloatUnit * q < FloatUnit * (REP_MAX + 1)
    BY <1>1, <1>2, <1>3
  <1>5. q < REP_MAX + 1
    BY <1>1, <1>2, <1>4, TimesLess
  <1>6. rep(x) = q
    BY <1>1, <1>2, <1>5 DEF rep, q
  <1>7. (q + 1) * FloatUnit = q * FloatUnit + FloatUnit
    BY <1>1, <1>2
  <1> QED
    BY <1>1, <1>2, <1>5, <1>6, <1>7

\* A time that is configured, in nanoseconds
LEMMA TimeCases ==
  ASSUME NEW t \in float
  PROVE  \/ ~IsTime(t) /\ get_time(t) = None
         \/ /\ t \in Nat \ {0} /\ t * NanoPerSecond \in Nat
            /\ get_time(t) = IF InRange(RoundFloat(t * NanoPerSecond))
                             THEN rep(RoundFloat(t * NanoPerSecond)) ELSE REP_MAX
  <1>1. CASE ~IsTime(t)
    BY <1>1 DEF get_time
  <1>2. CASE IsTime(t)
    <2>1. t \in Nat \ {0}
      BY <1>2 DEF IsTime, float
    <2>2. t * NanoPerSecond \in Nat
      BY <2>1, WidthsAssumption
    <2> QED
      BY <1>2, <2>1, <2>2 DEF get_time
  <1> QED
    BY <1>1, <1>2

\* No conversion of a time overflows.
LEMMA TimeUsable ==
  ASSUME NEW t \in float
  PROVE  get_time(t) \in {None} \cup (0 .. REP_MAX)
  <1>1. REP_MAX \in Nat
    BY WidthsAssumption
  <1>2. CASE get_time(t) = None
    BY <1>2
  <1>3. CASE get_time(t) = REP_MAX
    BY <1>1, <1>3
  <1>4. ASSUME t * NanoPerSecond \in Nat, InRange(RoundFloat(t * NanoPerSecond)),
               get_time(t) = rep(RoundFloat(t * NanoPerSecond))
        PROVE  get_time(t) \in 0 .. REP_MAX
    BY <1>4, InRangeFits, RepFits
  <1> QED
    BY <1>2, <1>3, <1>4, TimeCases

\* What TimeKept requires of a time
LEMMA CloseTime ==
  ASSUME NEW t \in Nat, NEW ns \in Nat
  PROVE  /\ FloatRange * (ns * FloatUnit) <= (FloatRange + 1) * (t * NanoPerSecond)
               <=> NotLonger(t, ns)
         /\ (FloatRange - 1) * (t * NanoPerSecond) <= FloatRange * ((ns + 1) * FloatUnit)
               <=> NotShorter(t, ns)
  <1>1. {FloatRange, REP_MAX, FloatUnit, NanoPerSecond} \subseteq Nat
    BY WidthsAssumption
  <1>2. /\ FloatRange * ns * FloatUnit = FloatRange * (ns * FloatUnit)
        /\ FloatRange * (ns + 1) * FloatUnit = FloatRange * ((ns + 1) * FloatUnit)
    BY <1>1
  <1>3. /\ (FloatRange + 1) * t * NanoPerSecond = (FloatRange + 1) * (t * NanoPerSecond)
        /\ (FloatRange - 1) * t * NanoPerSecond = (FloatRange - 1) * (t * NanoPerSecond)
    BY <1>1
  <1>4. /\ (FloatRange + 1) * (t * NanoPerSecond) \in Int
        /\ FloatRange * (ns * FloatUnit) \in Int
    BY <1>1
  <1>5. FloatRange * (ns * FloatUnit) <= (FloatRange + 1) * (t * NanoPerSecond)
          <=> (FloatRange + 1) * (t * NanoPerSecond) >= FloatRange * (ns * FloatUnit)
    BY <1>4
  <1> QED
    BY <1>2, <1>3, <1>5, Zenon DEF NotLonger, NotShorter

\* The time that is used is the one that is configured.
LEMMA TimeHonoured ==
  ASSUME NEW t \in float, IsTime(t)
  PROVE  TimeKept(t, get_time(t), REP_MAX) /\ get_time(t) \in 0 .. REP_MAX
  <1> DEFINE y == t * NanoPerSecond
             x == RoundFloat(y)
             ns == get_time(t)
             F == FloatRange
  <1>1. F \in Nat \ {0} /\ REP_MAX \in Nat /\ FloatUnit \in Nat \ {0}
    BY WidthsAssumption
  <1>2. /\ t \in Nat \ {0} /\ t > 0 /\ y \in Nat
        /\ ns = IF InRange(x) THEN rep(x) ELSE REP_MAX
    BY TimeCases DEF IsTime
  <1>3. \A n \in 0 .. REP_MAX : n \in Nat /\ n # None
    BY <1>1, FloatAssumption
  <1>4. CASE InRange(x)
    <2>1. Finite(y) /\ x \in Nat /\ x <= Most
      BY <1>2, <1>4, InRangeFits
    <2>2. /\ ns \in 0 .. REP_MAX /\ ns * FloatUnit <= x
          /\ x <= (ns + 1) * FloatUnit
      BY <1>2, <1>4, <2>1, RepFits
    <2>3. F * x <= (F + 1) * y /\ (F - 1) * y <= F * x
      BY <1>2, <2>1, Precision
    <2> HIDE DEF x, ns
    <2>4. /\ F * (ns * FloatUnit) <= F * x
          /\ F * x <= F * ((ns + 1) * FloatUnit)
      BY <1>1, <2>1, <2>2, TimesMonotonic
    <2>5. /\ F * (ns * FloatUnit) <= (F + 1) * y
          /\ (F - 1) * y <= F * ((ns + 1) * FloatUnit)
      BY <1>1, <1>2, <2>1, <2>2, <2>3, <2>4
    <2>6. NotLonger(t, ns) /\ NotShorter(t, ns)
      BY <1>2, <1>3, <2>2, <2>5, CloseTime
    <2> QED
      BY <1>2, <1>3, <2>2, <2>6 DEF TimeKept, ns
  <1>5. CASE ~InRange(x)
    <2>1. F * Most <= (F + 1) * y
      <3>1. CASE Finite(y)
        <4>1. x \in Nat /\ F * x <= (F + 1) * y
          BY <1>2, <3>1, Precision
        <4>2. Most <= x
          BY <1>5, <4>1, MostFinite, MaxAssumption DEF InRange, Most
        <4> HIDE DEF x, y
        <4>3. F * Most <= F * x
          BY <1>1, <4>1, <4>2, MostFinite, TimesMonotonic
        <4> QED
          BY <1>1, <1>2, <4>1, <4>3, MostFinite
      <3>2. CASE ~Finite(y)
        <4>1. PICK u \in Ulps : Most < FloatRange * u
          BY MostFinite DEF Finite
        <4>2. FloatRange * u \in Nat /\ ~(y < FloatRange * u)
          BY <1>1, <3>2, FloatAssumption DEF Finite
        <4>3. Most <= y
          BY <1>2, <4>1, <4>2, MostFinite
        <4> HIDE DEF y
        <4>4. F * Most <= F * y
          BY <1>1, <1>2, <4>3, MostFinite, TimesMonotonic
        <4> QED
          BY <1>1, <1>2, <4>4, MostFinite
      <3> QED
        BY <3>1, <3>2
    <2>2. NotLonger(t, REP_MAX)
      BY <1>1, <1>2, <2>1, CloseTime DEF Most
    <2>3. ns = REP_MAX /\ REP_MAX \in 0 .. REP_MAX
      BY <1>1, <1>2, <1>5
    <2> HIDE DEF ns
    <2> QED
      BY <1>2, <1>3, <2>2, <2>3 DEF TimeKept, ns
  <1> QED
    BY <1>4, <1>5

\* The time to wait between retries is the one that is configured, or the
\* maximum.
LEMMA RetryHonoured ==
  ASSUME NEW t \in float
  PROVE  IF t = NaN \/ t <= 0 THEN retry_wait(t) = 0
         ELSE TimeKept(t, retry_wait(t), max_retry_wait)
  <1> DEFINE w == get_time(t)
             max == max_retry_wait
  <1>1. CASE t = NaN \/ t <= 0
    <2>1. ~IsTime(t)
      BY <1>1, FloatAssumption DEF IsTime, float
    <2> QED
      BY <1>1, <2>1 DEF retry_wait, get_time
  <1>2. CASE ~(t = NaN \/ t <= 0)
    <2>1. t \in Nat /\ t > 0 /\ IsTime(t)
      BY <1>2 DEF IsTime, float
    <2>2. TimeKept(t, w, REP_MAX) /\ w \in 0 .. REP_MAX
      BY <2>1, TimeHonoured
    <2>3. /\ max \in Nat /\ REP_MAX \in Nat /\ max <= REP_MAX /\ None \notin Int
          /\ FloatRange \in Nat /\ FloatUnit \in Nat /\ NanoPerSecond \in Nat
      BY WidthsAssumption, FloatAssumption
    <2>4. w \in Nat /\ retry_wait(t) = IF w < max THEN w ELSE max
      BY <2>2, <2>3 DEF retry_wait, Smaller
    <2> HIDE DEF w
    <2>5. CASE w < max
      BY <1>2, <2>2, <2>3, <2>4, <2>5 DEF TimeKept
    <2>6. CASE ~(w < max)
      <3>1. FloatRange * (w * FloatUnit) <= (FloatRange + 1) * (t * NanoPerSecond)
        BY <2>1, <2>2, <2>4, CloseTime DEF TimeKept
      <3>2. FloatUnit * max <= FloatUnit * w
        BY <2>3, <2>4, <2>6, TimesMonotonic
      <3>3. /\ max * FloatUnit <= w * FloatUnit
            /\ max * FloatUnit \in Int /\ w * FloatUnit \in Int
        BY <2>3, <2>4, <3>2
      <3>4. FloatRange * (max * FloatUnit) <= FloatRange * (w * FloatUnit)
        BY <2>3, <3>3, TimesMonotonic
      <3>5. FloatRange * (max * FloatUnit) <= (FloatRange + 1) * (t * NanoPerSecond)
        <4>1. /\ FloatRange * (max * FloatUnit) \in Int
              /\ FloatRange * (w * FloatUnit) \in Int
              /\ (FloatRange + 1) * (t * NanoPerSecond) \in Int
          BY <2>1, <2>3, <2>4
        <4> QED
          BY <3>1, <3>4, <4>1
      <3>6. NotLonger(t, max)
        BY <2>1, <2>3, <3>5, CloseTime
      <3> QED
        BY <1>2, <2>1, <2>3, <2>4, <2>6, <3>6 DEF TimeKept
    <2> QED
      BY <2>5, <2>6
  <1> QED
    BY <1>1, <1>2

------------------------------------------------------------------------------
(* The settings                                                            *)

\* What AcceptedUsable says of a configuration
Usable(c) ==
    LET s == settings(c)
    IN  /\ s.port \in 1 .. PORT_MAX
        /\ s.use_workers \in 1 .. s.pools
        /\ s.main_threads >= 1 /\ s.control_threads >= 1
        /\ s.database_threads >= 1
        /\ s.listen_queue = None \/ s.listen_queue \in 1 .. INT_MAX
        /\ {s.idle_timeout, s.keepalive_timeout} \subseteq {None} \cup (0 .. REP_MAX)
        /\ s.retry_wait \in 0 .. max_retry_wait

\* The fields of the settings
LEMMA Fields ==
  ASSUME NEW c
  PROVE  /\ settings(c).port = http_port(c)
         /\ settings(c).pools = main_pools(c)
         /\ settings(c).use_workers = use_workers(c)
         /\ settings(c).main_threads = num_threads(c.main_threads)
         /\ settings(c).control_threads = num_threads(c.control_threads)
         /\ settings(c).database_threads = num_threads(c.database_threads)
         /\ settings(c).listen_queue = listen_queue(c)
         /\ settings(c).idle_timeout = get_time(c.idle_timeout)
         /\ settings(c).keepalive_timeout = get_time(c.keepalive_timeout)
         /\ settings(c).retry_wait = retry_wait(c.retry_wait)
         /\ \A f \in {"max_connections", "keepalive_requests",
                      "max_request_headers", "max_request_body"} :
               settings(c)[f] = limit(c[f])
  BY DEF settings

\* Whatever the file says, the settings can be used.
LEMMA SettingsUsable ==
  ASSUME NEW c \in Configuration
  PROVE  Usable(c)
  <1>1. http_port(c) \in 1 .. PORT_MAX
    BY WidthsAssumption DEF http_port, Configuration, uint32
  <1>2. use_workers(c) \in 1 .. main_pools(c)
    BY DEF use_workers, main_pools, Larger, Configuration
  <1>3. \A n \in Int : num_threads(n) >= 1
    BY WidthsAssumption DEF num_threads, Larger
  <1>4. listen_queue(c) = None \/ listen_queue(c) \in 1 .. INT_MAX
    BY WidthsAssumption DEF listen_queue, Smaller, Configuration, uint32
  <1>5. /\ get_time(c.idle_timeout) \in {None} \cup (0 .. REP_MAX)
        /\ get_time(c.keepalive_timeout) \in {None} \cup (0 .. REP_MAX)
        /\ get_time(c.retry_wait) \in {None} \cup (0 .. REP_MAX)
    BY TimeUsable DEF Configuration
  <1>6. retry_wait(c.retry_wait) \in 0 .. max_retry_wait
    BY <1>5, WidthsAssumption DEF retry_wait, Smaller
  <1>7. /\ c.main_threads \in Int /\ c.control_threads \in Int
        /\ c.database_threads \in Int
    BY DEF Configuration
  <1> QED
    BY <1>1, <1>2, <1>3, <1>4, <1>5, <1>6, <1>7, Fields DEF Usable

\* What validate() lets pass
LEMMA NoComplaint ==
  ASSUME NEW c \in Configuration, validate(c)
  PROVE  /\ ~LevelRefused(c) /\ ~PortRefused(c)
         /\ c.main_threads >= 0 /\ c.control_threads >= 0
         /\ ~Negative(c.idle_timeout) /\ ~Negative(c.keepalive_timeout)
  <1>1. Complaints(c) = {}
    BY DEF validate
  <1>2. c.main_threads \in Int /\ c.control_threads \in Int
    BY DEF Configuration
  <1>3. /\ "level" \notin Complaints(c) /\ "threads" \notin Complaints(c)
        /\ "port" \notin Complaints(c) /\ "idle_timeout" \notin Complaints(c)
        /\ "keepalive_timeout" \notin Complaints(c)
    BY <1>1
  <1>4. /\ ~LevelRefused(c) /\ ~PortRefused(c)
        /\ ~(c.main_threads < 0) /\ ~(c.control_threads < 0)
        /\ ~Negative(c.idle_timeout) /\ ~Negative(c.keepalive_timeout)
    BY <1>3, Zenon DEF Complaints
  <1> QED
    BY <1>2, <1>4

\* What SettingsHonoured says of a configuration, without the level
Honoured(c) ==
    LET s == settings(c)
    IN  /\ s.port = IF c.port = 0 THEN http_port_default ELSE c.port
        /\ s.pools = IF c.main_pools < 1 THEN 1 ELSE c.main_pools
        /\ s.pools - s.use_workers = IF c.accept_pool /\ c.main_pools > 1 THEN 1 ELSE 0
        /\ \A f \in {"main_threads", "control_threads"} : c[f] # 0 => s[f] = c[f]
        /\ c.database_threads # 0 =>
              s.database_threads =
                  IF c.database_threads < 0 THEN 1 ELSE c.database_threads
        /\ IF c.listen_queue = 0 THEN s.listen_queue = None
           ELSE \/ s.listen_queue = c.listen_queue
                \/ s.listen_queue = INT_MAX /\ c.listen_queue > INT_MAX
        /\ \A f \in {"max_connections", "keepalive_requests",
                     "max_request_headers", "max_request_body"} :
              /\ s[f] = None <=> c[f] = 0
              /\ c[f] # 0 /\ c[f] < UINT32 => s[f] = c[f]
        /\ \A f \in {"idle_timeout", "keepalive_timeout"} :
              IF c[f] \in {0, NaN} THEN s[f] = None
                                   ELSE TimeKept(c[f], s[f], REP_MAX)
        /\ IF c.retry_wait = NaN \/ c.retry_wait <= 0 THEN s.retry_wait = 0
           ELSE TimeKept(c.retry_wait, s.retry_wait, max_retry_wait)

\* What is accepted is used as it is, with the exceptions of SettingsHonoured.
LEMMA SettingsKept ==
  ASSUME NEW c \in Configuration, validate(c)
  PROVE  Honoured(c)
  <1> DEFINE s == settings(c)
  <1>1. s.port = IF c.port = 0 THEN http_port_default ELSE c.port
    <2>1. c.port \in Nat /\ PORT_MAX \in Nat
      BY WidthsAssumption DEF Configuration, uint32
    <2>2. ~(c.port > PORT_MAX)
      BY NoComplaint DEF PortRefused
    <2>3. http_port(c) = IF c.port = 0 THEN http_port_default ELSE c.port
      BY <2>1, <2>2 DEF http_port
    <2> QED
      BY <2>3, Fields
  <1>2. /\ s.pools = IF c.main_pools < 1 THEN 1 ELSE c.main_pools
        /\ s.pools - s.use_workers = IF c.accept_pool /\ c.main_pools > 1 THEN 1 ELSE 0
    <2>1. c.main_pools \in Int /\ c.accept_pool \in BOOLEAN
      BY DEF Configuration
    <2>2. /\ main_pools(c) = IF c.main_pools < 1 THEN 1 ELSE c.main_pools
          /\ main_pools(c) - use_workers(c) =
                IF c.accept_pool /\ c.main_pools > 1 THEN 1 ELSE 0
      BY <2>1 DEF main_pools, use_workers, Larger
    <2> QED
      BY <2>2, Fields
  <1>3. \A n \in Int : n # 0 => num_threads(n) = IF n < 0 THEN 1 ELSE n
    BY DEF num_threads, Larger
  <1>4. /\ \A f \in {"main_threads", "control_threads"} : c[f] # 0 => s[f] = c[f]
        /\ c.database_threads # 0 =>
              s.database_threads =
                  IF c.database_threads < 0 THEN 1 ELSE c.database_threads
    <2>1. /\ c.main_threads \in Nat /\ c.control_threads \in Nat
          /\ c.database_threads \in Int
      BY NoComplaint DEF Configuration
    <2> QED
      BY <1>3, <2>1, Fields
  <1>5. IF c.listen_queue = 0 THEN s.listen_queue = None
        ELSE \/ s.listen_queue = c.listen_queue
             \/ s.listen_queue = INT_MAX /\ c.listen_queue > INT_MAX
    <2>1. c.listen_queue \in Nat /\ INT_MAX \in Nat
      BY WidthsAssumption DEF Configuration, uint32
    <2>2. \/ c.listen_queue < INT_MAX
          \/ c.listen_queue = INT_MAX
          \/ c.listen_queue > INT_MAX
      BY <2>1
    <2> QED
      BY <2>1, <2>2, Fields DEF listen_queue, Smaller
  <1>6. \A f \in {"max_connections", "keepalive_requests",
                  "max_request_headers", "max_request_body"} :
           /\ s[f] = None <=> c[f] = 0
           /\ c[f] # 0 /\ c[f] < UINT32 => s[f] = c[f]
    <2>1. \A v \in Nat : /\ limit(v) = None <=> v = 0
                         /\ v # 0 /\ v < UINT32 => limit(v) = v
      BY WidthsAssumption, FloatAssumption DEF limit
    <2>2. \A f \in {"max_connections", "keepalive_requests",
                    "max_request_headers", "max_request_body"} : c[f] \in Nat
      BY DEF Configuration, uint32
    <2> QED
      BY <2>1, <2>2, Fields
  <1>7. \A f \in {"idle_timeout", "keepalive_timeout"} :
           IF c[f] \in {0, NaN} THEN s[f] = None ELSE TimeKept(c[f], s[f], REP_MAX)
    <2>1. ASSUME NEW t \in float, ~Negative(t)
          PROVE  IF t \in {0, NaN} THEN get_time(t) = None
                                   ELSE TimeKept(t, get_time(t), REP_MAX)
      <3>1. CASE t \in {0, NaN}
        BY <3>1 DEF get_time, IsTime
      <3>2. CASE t \notin {0, NaN}
        <4>1. IsTime(t)
          BY <2>1, <3>2 DEF IsTime, Negative, float
        <4> QED
          BY <3>2, <4>1, TimeHonoured
      <3> QED
        BY <3>1, <3>2
    <2>2. /\ c.idle_timeout \in float /\ ~Negative(c.idle_timeout)
          /\ c.keepalive_timeout \in float /\ ~Negative(c.keepalive_timeout)
      BY NoComplaint DEF Configuration
    <2> QED
      BY <2>1, <2>2, Fields
  <1>8. IF c.retry_wait = NaN \/ c.retry_wait <= 0 THEN s.retry_wait = 0
        ELSE TimeKept(c.retry_wait, s.retry_wait, max_retry_wait)
    <2>1. c.retry_wait \in float /\ s.retry_wait = retry_wait(c.retry_wait)
      BY Fields DEF Configuration
    <2> QED
      BY <2>1, RetryHonoured
  <1> HIDE DEF s
  <1> QED
    BY <1>1, <1>2, <1>4, <1>5, <1>6, <1>7, <1>8, Zenon DEF Honoured, s

\* The name of a level stands for this level only.
LEMMA LevelNames ==
  ASSUME NEW l \in -1 .. 7
  PROVE  from_string(to_string(l)) = l
  <1>1. \A k \in -1 .. 7 : to_string(l) \in names[k + 2] <=> k = l
    BY DEF to_string, names
  <1>2. {k \in -1 .. 7 : to_string(l) \in names[k + 2]} = {l}
    BY <1>1
  <1> QED
    BY <1>2 DEF from_string

------------------------------------------------------------------------------
(* The start of the program                                                *)

\* The configuration does not change, nothing goes on without validate(), and
\* the level is the default until it is set, and as configured after that.
CfgInv ==
    /\ cfg \in Configurations
    /\ main = "level" \/ Accepted => validate(cfg)
    /\ main \in {"begin", "read", "level"} => level = log_levels.info
    /\ Accepted => level = IF cfg.level = 0 THEN log_levels.info ELSE cfg.level - 2

\* Steps after which main() is neither where it was before it set the level,
\* nor where the settings are used.
LEMMA StepToEnd ==
  ASSUME CfgInv, cfg' = cfg, main' \in {"finish", "exit"}
  PROVE  CfgInv'
  BY DEF CfgInv, Accepted

\* The level that is set
LEMMA LevelSet ==
  ASSUME NEW c \in Configuration, validate(c)
  PROVE  /\ get_log_level(c) = IF c.level = 0 THEN None ELSE c.level - 2
         /\ c.level # 0 => c.level - 2 \in -1 .. 7 /\ c.level - 2 # None
  <1>1. ~LevelRefused(c)
    BY NoComplaint
  <1>2. c.level \in Int /\ None \notin Int
    BY FloatAssumption DEF Configuration
  <1> QED
    BY <1>1, <1>2 DEF get_log_level, LevelRefused, valid_level

\* The invariant holds initially.
LEMMA CfgInitial == Init => CfgInv
  BY DEF Init, LogInit, CfgInv, Accepted

\* The invariant is inductive.
LEMMA CfgInductive == CfgInv /\ [Next]_vars => CfgInv'
  <1> SUFFICES ASSUME CfgInv, [Next]_vars PROVE CfgInv'
    OBVIOUS
  <1>1. CASE UNCHANGED vars
    BY <1>1 DEF vars, startVars, logVars, CfgInv, Accepted
  <1>2. CASE Usage \/ ReadFails \/ Refuse \/ HttpRunFails \/ AcceptorThrows
             \/ RunEnds \/ Finish
    <2>1. cfg' = cfg /\ main' \in {"finish", "exit"}
      BY <1>2 DEF Usage, ReadFails, ReadError, Refuse, HttpRunFails, AcceptorThrows,
                  final_exception, RunEnds, Finish, fail
    <2> QED
      BY <2>1, StepToEnd
  <1>3. CASE CommandLine
    BY <1>3 DEF CommandLine, logVars, CfgInv, Accepted
  <1>4. CASE ReadConfiguration
    BY <1>4 DEF ReadConfiguration, logVars, CfgInv, Accepted
  <1>5. CASE SetLevel
    <2>1. /\ main = "level" /\ main' = "open" /\ cfg' = cfg
          /\ level' = IF get_log_level(cfg) = None THEN level ELSE get_log_level(cfg)
      BY <1>5 DEF SetLevel
    <2>2. cfg \in Configuration /\ validate(cfg) /\ level = log_levels.info
      BY <2>1, ConfigurationsAssumption DEF CfgInv
    <2>3. level' = IF cfg.level = 0 THEN log_levels.info ELSE cfg.level - 2
      BY <2>1, <2>2, LevelSet
    <2> QED
      BY <2>1, <2>2, <2>3 DEF CfgInv, Accepted
  <1>6. CASE NextThread \/ DbRunEnds \/ HttpRun
    BY <1>6 DEF NextThread, DbRunEnds, HttpRun, logVars, CfgInv, Accepted
  <1>7. ASSUME NEW d \in Databases, DatabaseStep(d)
        PROVE  CfgInv'
    <2>1. CASE OpenDatabase(d) \/ PrepareQueries(d)
      BY <2>1 DEF OpenDatabase, PrepareQueries, logVars, CfgInv, Accepted
    <2>2. CASE OpenFails(d) \/ PrepareFails(d)
      BY <2>2, StepToEnd DEF OpenFails, PrepareFails, sqlite_error, fail
    <2> QED
      BY <1>7, <2>1, <2>2 DEF DatabaseStep
  <1>8. CASE Work
    <2>1. UNCHANGED <<cfg, main, level>>
      BY <1>8 DEF Work, startVars, WriterStep, Construct, Insert, InsertThrows, Move,
                  Destroy
    <2> QED
      BY <2>1 DEF CfgInv, Accepted
  <1> QED
    BY <1>1, <1>2, <1>3, <1>4, <1>5, <1>6, <1>7, <1>8 DEF Next

\* The invariant holds in every state that is reached.
LEMMA CfgInvariance == Spec => []CfgInv
  BY CfgInitial, CfgInductive, PTL DEF Spec

------------------------------------------------------------------------------
(* The theorems                                                            *)

\* Every configuration that validate() accepts can be used by http_server,
\* application and db_server: in particular get_time() never converts a float
\* that rep does not have, whatever the precision of float.
THEOREM Usability == Spec => []AcceptedUsable
  <1>1. CfgInv => AcceptedUsable
    <2> SUFFICES ASSUME CfgInv PROVE AcceptedUsable
      OBVIOUS
    <2>1. Usable(cfg)
      BY ConfigurationsAssumption, SettingsUsable DEF CfgInv
    <2> QED
      BY <2>1 DEF AcceptedUsable, Usable
  <1> QED
    BY <1>1, CfgInvariance, PTL

\* What validate() accepts is used as it is, times up to the precision of float,
\* and the level of the log is the one that is configured.  What the conversions
\* replace is in the statement: large values of listen_queue, timeouts and
\* retry_wait are capped, limits keep 32 bits, negative database threads are 1, and
\* NaN is an unlimited timeout, and no wait before a retry, as a negative one.
THEOREM NothingReplaced == Spec => []SettingsHonoured
  <1>1. CfgInv => SettingsHonoured
    <2> SUFFICES ASSUME CfgInv, Accepted PROVE SettingsHonoured
      BY DEF SettingsHonoured
    <2>1. cfg \in Configuration /\ validate(cfg)
      BY ConfigurationsAssumption DEF CfgInv
    <2>2. Honoured(cfg)
      BY <2>1, SettingsKept
    <2>3. level = IF cfg.level = 0 THEN log_levels.info ELSE cfg.level - 2
      BY DEF CfgInv
    <2>4. level \in -1 .. 7
      BY <2>1, <2>3, LevelSet DEF log_levels
    <2>5. from_string(to_string(level)) = level
      BY <2>4, LevelNames
    <2> QED
      BY <2>2, <2>3, <2>5 DEF SettingsHonoured, Honoured
  <1> QED
    BY <1>1, CfgInvariance, PTL
================================================================================
