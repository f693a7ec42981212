--------------------------- MODULE LocalClockProofs ---------------------------
(***************************************************************************)
(* Proofs about the local clock of a node: the scaled time and its inverse *)
(* (GetHwTimeAtScaledTime), the wake-up for the first event, and the       *)
(* implementation of the alarm clock.                                      *)
(***************************************************************************)
EXTENDS LocalClock, TLAPS

-----------------------------------------------------------------------------
(* Integer division. *)

LEMMA DivBounds ==
  ASSUME NEW a \in Int, NEW b \in Nat \ {0}
  PROVE  /\ a \div b \in Int
         /\ b * (a \div b) <= a
         /\ a < b * (a \div b) + b
OBVIOUS

LEMMA DivAtLeast ==
  ASSUME NEW a \in Int, NEW b \in Nat \ {0}, NEW q \in Int, b * q <= a
  PROVE  q <= a \div b
BY DivBounds

LEMMA DivNat ==
  ASSUME NEW a \in Nat, NEW b \in Nat \ {0}
  PROVE  /\ a \div b \in Nat
         /\ b * (a \div b) <= a
         /\ a < b * (a \div b) + b
BY DivBounds, DivAtLeast, b * 0 = 0

LEMMA DivMono ==
  ASSUME NEW a \in Int, NEW b \in Int, a <= b, NEW c \in Nat \ {0}
  PROVE  a \div c <= b \div c
BY DivBounds

LEMMA DivOne == ASSUME NEW a \in Int PROVE a \div 1 = a
OBVIOUS

LEMMA ZeroDiv == ASSUME NEW b \in Nat \ {0} PROVE 0 \div b = 0
OBVIOUS

LEMMA TimesNext ==
  ASSUME NEW x \in Int, NEW y \in Int, NEW n \in Int
  PROVE  (x + y - x) * n = n * y /\ (x + y + 1 - x) * n = n * y + n
OBVIOUS

LEMMA TimesMono ==
  ASSUME NEW a \in Int, NEW b \in Int, a <= b, NEW c \in Nat
  PROVE  a * c <= b * c
OBVIOUS

-----------------------------------------------------------------------------
(* Scale points. *)

ScalePoint == [hw : Nat, scaled : Nat, num : Nat, den : Nat]

\* The current point lies in the past, and on the line through the one before.
GoodPoints(p, tick) ==
  /\ p \in [{0, 1} -> ScalePoint]
  /\ p[1].num # 0 /\ p[1].den = 1 /\ p[1].hw <= tick
  /\ p[0].hw <= p[1].hw /\ p[0].scaled <= p[1].scaled
  /\ (p[1].scaled - p[0].scaled) * p[0].den = (p[1].hw - p[0].hw) * p[0].num
  /\ p[0].scaled < p[1].scaled => p[0].num # 0

LEMMA PointFields ==
  ASSUME NEW p, NEW h \in Nat, GoodPoints(p, h)
  PROVE  /\ p[0].hw \in Nat /\ p[0].scaled \in Nat /\ p[0].num \in Nat /\ p[0].den \in Nat
         /\ p[1].hw \in Nat /\ p[1].scaled \in Nat /\ p[1].num \in Nat \ {0}
BY DEF GoodPoints, ScalePoint

\* From the current point on the scaled time is a line.
LEMMA ScaledAfter ==
  ASSUME NEW p, NEW h \in Nat, GoodPoints(p, h), NEW t \in Int, t >= p[1].hw
  PROVE  /\ ScaledTimeAt(p, t) = p[1].scaled + (t - p[1].hw) * p[1].num
         /\ ScaledTimeAt(p, t) \in Nat /\ ScaledTimeAt(p, t) >= p[1].scaled
<1>1. p[1].hw \in Nat /\ p[1].scaled \in Nat /\ p[1].num \in Nat \ {0} /\ p[1].den = 1
  BY PointFields DEF GoodPoints
<1>2. (t - p[1].hw) * p[1].num \in Nat
  BY <1>1
<1>3. ((t - p[1].hw) * p[1].num) \div p[1].den = (t - p[1].hw) * p[1].num
  BY <1>1, <1>2, DivOne
<1> QED BY <1>1, <1>2, <1>3 DEF ScaledTimeAt

LEMMA ScaledGrows ==
  ASSUME NEW p, NEW h \in Nat, GoodPoints(p, h),
         NEW t \in Int, NEW u \in Int, t >= p[1].hw, t < u
  PROVE  ScaledTimeAt(p, t) + p[1].num <= ScaledTimeAt(p, u)
<1>1. p[1].hw \in Nat /\ p[1].scaled \in Nat /\ p[1].num \in Nat \ {0}
  BY PointFields
<1>2. (t - p[1].hw + 1) * p[1].num <= (u - p[1].hw) * p[1].num
  BY <1>1, TimesMono
<1>3. (t - p[1].hw + 1) * p[1].num = (t - p[1].hw) * p[1].num + p[1].num
  BY <1>1
<1>4. (t - p[1].hw) * p[1].num \in Int /\ (u - p[1].hw) * p[1].num \in Int
  BY <1>1
<1> QED BY <1>1, <1>2, <1>3, <1>4, ScaledAfter

LEMMA ScaledNeverFalls ==
  ASSUME NEW p, NEW h \in Nat, GoodPoints(p, h),
         NEW t \in Int, NEW u \in Int, t >= p[1].hw, t <= u
  PROVE  ScaledTimeAt(p, t) <= ScaledTimeAt(p, u)
<1>1. p[1].num \in Nat
  BY PointFields
<1>2. ScaledTimeAt(p, t) \in Nat /\ ScaledTimeAt(p, u) \in Nat
  BY ScaledAfter, PointFields
<1>3. CASE t = u
  BY <1>2, <1>3
<1>4. CASE t < u
  BY <1>1, <1>2, <1>4, ScaledGrows
<1> QED BY <1>3, <1>4

-----------------------------------------------------------------------------
(* The inverse of the scaled time. *)

Estimate(p, time) ==
  IF time >= p[1].scaled
  THEN p[1].hw + ((time - p[1].scaled) * p[1].den) \div p[1].num
  ELSE p[0].hw + ((time - p[0].scaled) * p[0].den) \div p[0].num

\* t is the first tick from the estimate on that reaches the time.
Reaches(p, time, t) ==
  /\ ScaledTimeAt(p, t) >= time
  /\ \A u \in Estimate(p, time) .. (t - 1) : ScaledTimeAt(p, u) < time

LEMMA HwTimeAtIs ==
  ASSUME NEW p, NEW h \in Nat, GoodPoints(p, h), NEW time \in Int, time # p[1].scaled,
         \E t \in Estimate(p, time) .. (Estimate(p, time) + p[1].hw + time) :
           Reaches(p, time, t)
  PROVE  /\ HwTimeAt(p, time) \in Estimate(p, time) .. (Estimate(p, time) + p[1].hw + time)
         /\ Reaches(p, time, HwTimeAt(p, time))
<1> DEFINE range == Estimate(p, time) .. (Estimate(p, time) + p[1].hw + time)
           T == CHOOSE t \in range :
                  /\ ScaledTimeAt(p, t) >= time
                  /\ \A u \in Estimate(p, time) .. (t - 1) : ScaledTimeAt(p, u) < time
<1>1. HwTimeAt(p, time) = T
  BY DEF HwTimeAt, Estimate
<1>2. T \in range /\ Reaches(p, time, T)
  BY DEF Reaches
<1> QED BY <1>1, <1>2

\* Beyond the current point the tick is the first one that reaches the time.
LEMMA HwTimeAfter ==
  ASSUME NEW p, NEW h \in Nat, GoodPoints(p, h), NEW time \in Int, time > p[1].scaled
  PROVE  /\ HwTimeAt(p, time) \in Int /\ HwTimeAt(p, time) > p[1].hw
         /\ ScaledTimeAt(p, HwTimeAt(p, time)) >= time
         /\ ScaledTimeAt(p, HwTimeAt(p, time) - 1) < time
<1> DEFINE a == time - p[1].scaled
           n == p[1].num
           q == a \div n
           first == p[1].hw + q
           T == HwTimeAt(p, time)
<1>1. p[1].hw \in Nat /\ p[1].scaled \in Nat /\ n \in Nat \ {0} /\ p[1].den = 1
  BY PointFields DEF GoodPoints
<1>2. a \in Nat \ {0} /\ q \in Nat /\ n * q <= a /\ a < n * q + n
  <2>1. a \in Nat \ {0}
    BY <1>1
  <2> HIDE DEF a, n
  <2> QED BY <2>1, <1>1, DivNat
<1>3. Estimate(p, time) = first /\ first \in Nat
  BY <1>1, <1>2, a * 1 = a DEF Estimate
<1>4. /\ ScaledTimeAt(p, first) = p[1].scaled + n * q
      /\ ScaledTimeAt(p, first + 1) = p[1].scaled + n * q + n
  <2>1. (first - p[1].hw) * n = n * q /\ (first + 1 - p[1].hw) * n = n * q + n
    <3> HIDE DEF n, q
    <3> QED BY <1>1, <1>2, TimesNext
  <2> QED BY <1>1, <1>2, <1>3, <2>1, ScaledAfter
<1>5. n * q \in Nat
  BY <1>1, <1>2
<1>6. CASE n * q = a
  <2>1. Reaches(p, time, first)
    BY <1>1, <1>2, <1>3, <1>4, <1>5, <1>6 DEF Reaches
  <2>2. first \in first .. (first + p[1].hw + time)
    BY <1>1, <1>2, <1>3
  <2>3. T \in Int /\ T >= first /\ Reaches(p, time, T)
    BY <2>1, <2>2, <1>1, <1>3, HwTimeAtIs
  <2>4. ~(T > first)
    <3> SUFFICES ASSUME T > first PROVE FALSE
      OBVIOUS
    <3>1. first \in first .. (T - 1)
      BY <2>3, <1>3
    <3>2. ScaledTimeAt(p, first) < time
      BY <2>3, <3>1, <1>3 DEF Reaches
    <3> QED BY <3>2, <1>4, <1>5, <1>6, <1>1
  <2>5. T = first
    BY <2>3, <2>4, <1>3
  <2>6. q # 0
    BY <1>2, <1>6, <1>1, n * 0 = 0
  <2>7. first - 1 \in Int /\ first - 1 >= p[1].hw
    BY <2>6, <1>2, <1>1
  <2>8. ScaledTimeAt(p, first - 1) + n <= ScaledTimeAt(p, first)
    BY <2>7, <1>3, ScaledGrows
  <2>9. ScaledTimeAt(p, first - 1) \in Nat
    BY <2>7, ScaledAfter
  <2> QED BY <2>5, <2>6, <2>7, <2>8, <2>9, <1>1, <1>2, <1>3, <1>4, <1>5, <1>6
<1>7. CASE n * q # a
  <2>1. Reaches(p, time, first + 1)
    BY <1>1, <1>2, <1>3, <1>4, <1>5, <1>7 DEF Reaches
  <2>2. first + 1 \in first .. (first + p[1].hw + time)
    BY <1>1, <1>2, <1>3
  <2>3. T \in Int /\ T >= first /\ Reaches(p, time, T)
    BY <2>1, <2>2, <1>1, <1>3, HwTimeAtIs
  <2>4. ~(T > first + 1)
    <3> SUFFICES ASSUME T > first + 1 PROVE FALSE
      OBVIOUS
    <3>1. first + 1 \in first .. (T - 1)
      BY <2>3, <1>3
    <3>2. ScaledTimeAt(p, first + 1) < time
      BY <2>3, <3>1, <1>3 DEF Reaches
    <3> QED BY <3>2, <1>2, <1>4, <1>5, <1>7, <1>1
  <2>5. T # first
    BY <2>3, <1>4, <1>2, <1>1, <1>5, <1>7 DEF Reaches
  <2>6. T = first + 1
    BY <2>3, <2>4, <2>5, <1>3
  <2>7. T - 1 = first
    BY <2>6, <1>3
  <2> QED BY <2>6, <2>7, <1>1, <1>2, <1>3, <1>4, <1>5, <1>7
<1> QED BY <1>6, <1>7

\* Between the two points the tick is not beyond the current one.
LEMMA HwTimeBetween ==
  ASSUME NEW p, NEW h \in Nat, GoodPoints(p, h), NEW time \in Int,
         p[0].scaled <= time, time < p[1].scaled
  PROVE  /\ HwTimeAt(p, time) \in Int /\ HwTimeAt(p, time) <= p[1].hw
         /\ HwTimeAt(p, time) >= Estimate(p, time)
         /\ Reaches(p, time, HwTimeAt(p, time))
         /\ Estimate(p, time) \in Int
<1> DEFINE s == p[0].scaled
           n == p[0].num
           d == p[0].den
           a == time - s
           H == p[1].hw - p[0].hw
           D == p[1].scaled - s
           k == (a * d) \div n
           first == p[0].hw + k
           T == HwTimeAt(p, time)
<1>1. /\ p[0].hw \in Nat /\ s \in Nat /\ d \in Nat /\ p[1].hw \in Nat /\ p[1].scaled \in Nat
      /\ n \in Nat \ {0}
  BY PointFields DEF GoodPoints
<1>2. a \in Nat /\ H \in Nat /\ D \in Nat /\ a < D /\ D * d = H * n
  BY <1>1 DEF GoodPoints
<1>3. Estimate(p, time) = first
  BY <1>1 DEF Estimate
<1>4. ScaledTimeAt(p, p[1].hw) = p[1].scaled
  BY ScaledAfter, PointFields, 0 * p[1].num = 0, p[1].hw - p[1].hw = 0
<1>5. CASE d = 0
  <2>1. H = 0
    BY <1>1, <1>2, <1>5
  <2>2. k = 0 /\ first = p[1].hw
    <3>1. a * d = 0
      BY <1>2, <1>5
    <3>2. k = 0
      <4> HIDE DEF a, d, n
      <4> QED BY <3>1, <1>1, ZeroDiv
    <3> QED BY <3>2, <1>1, <2>1
  <2>3. Reaches(p, time, first)
    BY <2>2, <1>1, <1>3, <1>4 DEF Reaches
  <2>4. first \in first .. (first + p[1].hw + time)
    BY <1>1, <2>2
  <2>5. T \in Int /\ T >= first /\ Reaches(p, time, T)
    BY <2>3, <2>4, <2>2, <1>1, <1>3, HwTimeAtIs
  <2>6. ~(T > first)
    <3> SUFFICES ASSUME T > first PROVE FALSE
      OBVIOUS
    <3>1. first \in first .. (T - 1)
      BY <2>5, <2>2, <1>1
    <3>2. ScaledTimeAt(p, first) < time
      BY <2>5, <3>1, <1>3 DEF Reaches
    <3> QED BY <3>2, <1>4, <2>2, <1>1
  <2> QED BY <2>2, <2>5, <2>6, <1>1, <1>3
<1>6. CASE d # 0
  <2>1. d \in Nat \ {0} /\ a * d \in Nat /\ H * n \in Nat
    BY <1>1, <1>2, <1>6
  <2>2. k \in Nat /\ n * k <= a * d /\ a * d < n * k + n
    <3> HIDE DEF a, d, n
    <3> QED BY <2>1, <1>1, DivNat
  <2>3. k < H
    <3>1. a * d < D * d
      BY <1>1, <1>2, <2>1
    <3>2. n * k < n * H
      BY <3>1, <2>1, <2>2, <1>2, <1>1
    <3> QED BY <3>2, <2>2, <1>2, <1>1
  <2>4. first \in Nat /\ first < p[1].hw /\ first + 1 <= p[1].hw
    BY <2>2, <2>3, <1>1
  <2>5. ScaledTimeAt(p, first) \in Int
    <3>1. ScaledTimeAt(p, first) = s + ((first - p[0].hw) * n) \div d
      BY <2>4, <1>1 DEF ScaledTimeAt
    <3>2. (first - p[0].hw) * n \in Int
      BY <2>4, <1>1
    <3>3. ((first - p[0].hw) * n) \div d \in Int
      <4> HIDE DEF first, d, n
      <4> QED BY <3>2, <2>1, DivBounds
    <3> QED BY <3>1, <3>3, <1>1
  <2>6. ScaledTimeAt(p, first + 1) >= time /\ ScaledTimeAt(p, first + 1) \in Int
    <3>1. CASE first + 1 = p[1].hw
      BY <3>1, <1>4, <1>1
    <3>2. CASE first + 1 # p[1].hw
      <4>1. ScaledTimeAt(p, first + 1) = s + ((first + 1 - p[0].hw) * n) \div d
        BY <3>2, <2>4, <1>1 DEF ScaledTimeAt
      <4>2. (first + 1 - p[0].hw) * n = n * k + n
        <5> HIDE DEF n, k
        <5> QED BY <2>2, <1>1, TimesNext
      <4>3. d * a <= n * k + n /\ n * k + n \in Int
        BY <2>2, <2>1, <1>1, <1>2
      <4>4. a <= (n * k + n) \div d /\ (n * k + n) \div d \in Int
        <5> DEFINE m == n * k + n
        <5>1. m \in Int /\ d * a <= m
          BY <4>3
        <5>2. a \in Int /\ d \in Nat \ {0}
          BY <1>2, <2>1
        <5>3. a <= m \div d /\ m \div d \in Int
          <6> HIDE DEF m, a, d
          <6> QED BY <5>1, <5>2, DivAtLeast, DivBounds
        <5> QED BY <5>3
      <4> QED BY <4>1, <4>2, <4>4, <1>1, <1>2
    <3> QED BY <3>1, <3>2
  <2>7. \E t \in first .. (first + p[1].hw + time) : Reaches(p, time, t)
    <3>1. CASE ScaledTimeAt(p, first) >= time
      <4>1. first .. (first - 1) = {}
        BY <2>4
      <4> QED BY <3>1, <4>1, <2>4, <1>1, <1>3 DEF Reaches
    <3>2. CASE ~(ScaledTimeAt(p, first) >= time)
      <4>1. Reaches(p, time, first + 1)
        BY <3>2, <2>4, <2>5, <2>6, <1>3 DEF Reaches
      <4>2. first + 1 \in first .. (first + p[1].hw + time)
        BY <2>4, <1>1
      <4> QED BY <4>1, <4>2
    <3> QED BY <3>1, <3>2
  <2>8. T \in Int /\ T >= first /\ Reaches(p, time, T)
    BY <2>7, <2>4, <1>1, <1>3, HwTimeAtIs
  <2>9. ~(T > first + 1)
    <3> SUFFICES ASSUME T > first + 1 PROVE FALSE
      OBVIOUS
    <3>1. first + 1 \in first .. (T - 1)
      BY <2>8, <2>4
    <3>2. ScaledTimeAt(p, first + 1) < time
      BY <2>8, <3>1, <1>3 DEF Reaches
    <3> QED BY <3>2, <2>6
  <2> QED BY <2>4, <2>8, <2>9, <1>1, <1>3
<1> QED BY <1>5, <1>6

LEMMA HwTimeAtPoint ==
  ASSUME NEW p PROVE HwTimeAt(p, p[1].scaled) = p[1].hw
BY DEF HwTimeAt

-----------------------------------------------------------------------------
(* An event that is still ahead of tick h, or due in it: the wake-up for it   *)
(* can be set.                                                                *)

Reach(p, time, h) == ~IsOld(p, time) /\ HwTimeAt(p, time) >= h

LEMMA NotOld ==
  ASSUME NEW p, NEW h \in Nat, GoodPoints(p, h), NEW time \in Int, ~IsOld(p, time)
  PROVE  /\ HwTimeAt(p, time) \in Int
         /\ HwTimeAt(p, time) > p[1].hw => time > p[1].scaled
         /\ \/ time > p[1].scaled
            \/ time = p[1].scaled
            \/ p[0].scaled <= time /\ time < p[1].scaled
<1>1. p[1].hw \in Nat /\ p[1].scaled \in Nat /\ p[0].scaled \in Nat
  BY PointFields
<1>2. \/ time > p[1].scaled
      \/ time = p[1].scaled
      \/ p[0].scaled <= time /\ time < p[1].scaled
  BY <1>1 DEF IsOld
<1>3. CASE time > p[1].scaled
  BY <1>3, <1>2, HwTimeAfter
<1>4. CASE time = p[1].scaled
  BY <1>4, <1>1, <1>2, HwTimeAtPoint
<1>5. CASE p[0].scaled <= time /\ time < p[1].scaled
  <2>1. HwTimeAt(p, time) \in Int /\ HwTimeAt(p, time) <= p[1].hw
    BY <1>5, HwTimeBetween
  <2> QED BY <2>1, <1>1, <1>2
<1> QED BY <1>2, <1>3, <1>4, <1>5

\* A time that is not behind the clock can be reached.
LEMMA ReachNow ==
  ASSUME NEW p, NEW h \in Nat, GoodPoints(p, h), NEW time \in Int,
         time >= ScaledTimeAt(p, h)
  PROVE  /\ Reach(p, time, h)
         /\ time > ScaledTimeAt(p, h) => HwTimeAt(p, time) > h
<1> DEFINE T == HwTimeAt(p, time)
<1>1. /\ p[1].hw \in Nat /\ p[1].scaled \in Nat /\ p[1].num \in Nat \ {0} /\ p[1].hw <= h
      /\ p[0].scaled \in Nat /\ p[0].scaled <= p[1].scaled
  BY PointFields DEF GoodPoints
<1>2. ScaledTimeAt(p, h) \in Nat /\ ScaledTimeAt(p, h) >= p[1].scaled
  BY <1>1, ScaledAfter
<1>3. ~IsOld(p, time)
  BY <1>1, <1>2 DEF IsOld
<1>4. CASE time = p[1].scaled
  <2>1. ScaledTimeAt(p, h) = p[1].scaled
    BY <1>2, <1>4, <1>1
  <2>2. ~(p[1].hw < h)
    <3> SUFFICES ASSUME p[1].hw < h PROVE FALSE
      OBVIOUS
    <3>1. ScaledTimeAt(p, p[1].hw) + p[1].num <= ScaledTimeAt(p, h)
      BY <1>1, ScaledGrows
    <3>2. ScaledTimeAt(p, p[1].hw) \in Nat /\ ScaledTimeAt(p, p[1].hw) >= p[1].scaled
      BY <1>1, ScaledAfter
    <3> QED BY <3>1, <3>2, <2>1, <1>1
  <2> QED BY <2>1, <2>2, <1>1, <1>3, <1>4, HwTimeAtPoint DEF Reach
<1>5. CASE time # p[1].scaled
  <2>1. time > p[1].scaled
    BY <1>1, <1>2, <1>5
  <2>2. T \in Int /\ T > p[1].hw /\ ScaledTimeAt(p, T) >= time
    BY <2>1, HwTimeAfter
  <2>3. ScaledTimeAt(p, T) \in Nat
    BY <2>2, <1>1, ScaledAfter
  <2>4. T >= h
    <3> SUFFICES ASSUME T < h PROVE FALSE
      BY <2>2
    <3>1. ScaledTimeAt(p, T) + p[1].num <= ScaledTimeAt(p, h)
      BY <2>2, <1>1, ScaledGrows
    <3> QED BY <3>1, <2>2, <2>3, <1>1, <1>2
  <2>5. time > ScaledTimeAt(p, h) => T > h
    BY <2>2, <2>3, <2>4, <1>2
  <2> QED BY <2>4, <2>5, <1>3 DEF Reach
<1> QED BY <1>4, <1>5

\* What is due in a later tick is ahead of the clock.
LEMMA AheadOfNow ==
  ASSUME NEW p, NEW h \in Nat, GoodPoints(p, h), NEW time \in Int,
         ~IsOld(p, time), HwTimeAt(p, time) > h
  PROVE  time > ScaledTimeAt(p, h)
<1> DEFINE T == HwTimeAt(p, time)
<1>1. p[1].hw \in Nat /\ p[1].hw <= h
  BY PointFields DEF GoodPoints
<1>2. T \in Int /\ T > p[1].hw /\ time > p[1].scaled
  BY <1>1, NotOld
<1>3. ScaledTimeAt(p, T - 1) < time
  BY <1>2, HwTimeAfter
<1>4. T - 1 \in Int /\ T - 1 >= h
  BY <1>2
<1>5. ScaledTimeAt(p, h) <= ScaledTimeAt(p, T - 1)
  BY <1>1, <1>4, ScaledNeverFalls
<1>6. ScaledTimeAt(p, T - 1) \in Nat /\ ScaledTimeAt(p, h) \in Nat
  BY <1>1, <1>4, ScaledAfter
<1> QED BY <1>3, <1>5, <1>6

\* What comes later is reached no earlier.
LEMMA ReachLater ==
  ASSUME NEW p, NEW h \in Nat, GoodPoints(p, h), NEW time \in Int, NEW later \in Int,
         time <= later, Reach(p, time, h)
  PROVE  Reach(p, later, h)
<1> DEFINE T == HwTimeAt(p, time)
           U == HwTimeAt(p, later)
<1>1. /\ p[1].hw \in Nat /\ p[1].hw <= h /\ p[1].scaled \in Nat /\ p[0].scaled \in Nat
      /\ p[0].scaled <= p[1].scaled
  BY PointFields DEF GoodPoints
<1>2. T \in Int /\ T >= h /\ ~IsOld(p, time)
  BY NotOld DEF Reach
<1>3. ~IsOld(p, later)
  BY <1>1, <1>2 DEF IsOld
<1>4. CASE p[1].hw < h
  <2>1. h - 1 \in Nat /\ GoodPoints(p, h - 1) /\ T > h - 1
    BY <1>1, <1>2, <1>4 DEF GoodPoints
  <2>2. time > ScaledTimeAt(p, h - 1)
    BY <2>1, <1>2, AheadOfNow
  <2>3. ScaledTimeAt(p, h - 1) \in Nat
    BY <2>1, <1>1, <1>4, ScaledAfter
  <2>4. U > h - 1
    BY <2>1, <2>2, <2>3, ReachNow
  <2>5. U \in Int
    BY <1>3, NotOld
  <2> QED BY <1>3, <2>4, <2>5 DEF Reach
<1>5. CASE p[1].hw = h
  <2>1. CASE later > p[1].scaled
    BY <2>1, <1>3, <1>5, <1>1, HwTimeAfter DEF Reach
  <2>2. CASE later = p[1].scaled
    BY <2>2, <1>3, <1>5, <1>1, HwTimeAtPoint DEF Reach
  <2>3. CASE later < p[1].scaled
    <3>1. p[0].scaled <= time /\ time < p[1].scaled /\ p[0].scaled <= later
      BY <2>3, <1>1, <1>2, NotOld
    <3>2. /\ T >= Estimate(p, time) /\ Reaches(p, time, T) /\ Estimate(p, time) \in Int
          /\ U \in Int /\ U >= Estimate(p, later) /\ Reaches(p, later, U)
          /\ Estimate(p, later) \in Int
      BY <3>1, <2>3, HwTimeBetween
    <3>3. Estimate(p, time) <= Estimate(p, later)
      <4> DEFINE a == (time - p[0].scaled) * p[0].den
                 b == (later - p[0].scaled) * p[0].den
                 n == p[0].num
      <4>1. p[0].den \in Nat /\ n \in Nat \ {0} /\ p[0].hw \in Nat
        BY <3>1, <1>1, PointFields DEF GoodPoints
      <4>2. a \in Int /\ b \in Int /\ a <= b
        BY <4>1, <1>1, TimesMono
      <4>3. a \div n <= b \div n /\ a \div n \in Int /\ b \div n \in Int
        <5> HIDE DEF a, b, n
        <5> QED BY <4>1, <4>2, DivMono, DivBounds
      <4>4. /\ Estimate(p, time) = p[0].hw + a \div n
            /\ Estimate(p, later) = p[0].hw + b \div n
        BY <3>1, <2>3, <1>1 DEF Estimate
      <4> HIDE DEF a, b, n
      <4> QED BY <4>1, <4>3, <4>4
    <3>4. U >= h
      <4> SUFFICES ASSUME U < h PROVE FALSE
        BY <3>2
      <4>1. U \in Estimate(p, time) .. (T - 1)
        BY <3>2, <3>3, <1>2
      <4>2. ScaledTimeAt(p, U) < time /\ ScaledTimeAt(p, U) >= later
        BY <4>1, <3>2 DEF Reaches
      <4>3. ScaledTimeAt(p, U) \in Int
        <5>1. p[1].hw - p[0].hw \in Nat /\ U < p[1].hw /\ p[0].hw \in Nat
          BY <1>5, <1>1, PointFields DEF GoodPoints
        <5>2. CASE p[0].den = 0
          <6>1. Estimate(p, later) = p[0].hw
            <7>1. p[0].num \in Nat \ {0}
              BY <3>1, <1>1, PointFields DEF GoodPoints
            <7>2. (later - p[0].scaled) * p[0].den = 0
              BY <5>2, <1>1
            <7>3. ((later - p[0].scaled) * p[0].den) \div p[0].num = 0
              BY <7>1, <7>2, ZeroDiv
            <7> QED BY <7>3, <5>1, <2>3, <1>1 DEF Estimate
          <6>2. p[1].hw = p[0].hw
            <7>1. /\ (p[1].hw - p[0].hw) * p[0].num = 0 /\ p[0].num \in Nat \ {0}
                  /\ p[1].hw - p[0].hw \in Nat
              <8>1. (p[1].scaled - p[0].scaled) * p[0].den = 0
                BY <5>2, <1>1
              <8> QED BY <8>1, <5>1, <3>1, <1>1, PointFields DEF GoodPoints
            <7> QED BY <7>1, <1>1, <5>1
          <6> QED BY <6>1, <6>2, <5>1, <3>2
        <5>3. CASE p[0].den # 0
          <6> DEFINE m == (U - p[0].hw) * p[0].num
                     d == p[0].den
          <6>1. m \in Int /\ d \in Nat \ {0} /\ p[0].scaled \in Nat
            BY <5>1, <5>3, <3>2, PointFields
          <6>2. m \div d \in Int
            <7> HIDE DEF m, d
            <7> QED BY <6>1, DivBounds
          <6>3. ScaledTimeAt(p, U) = p[0].scaled + m \div d
            BY <5>1, <3>2, <1>1 DEF ScaledTimeAt
          <6> HIDE DEF m, d
          <6> QED BY <6>1, <6>2, <6>3
        <5> QED BY <5>2, <5>3
      <4> QED BY <4>2, <4>3
    <3> QED BY <3>4, <1>3 DEF Reach
  <2> QED BY <2>1, <2>2, <2>3, <1>1
<1> QED BY <1>1, <1>4, <1>5

-----------------------------------------------------------------------------
(* What SetScalePoint makes of the scale points. *)

LEMMA InBoundsRange ==
  ASSUME NEW factor \in Int
  PROVE  InBounds(factor) \in LowerFactor .. UpperFactor
BY LocalClockAssumption DEF InBounds

LEMMA NextPointGood ==
  ASSUME TypeOK, GoodPoints(point, hw), NEW factor \in Int
  PROVE  /\ GoodPoints(NextPoint(Now, factor), hw)
         /\ ScaledTimeAt(NextPoint(Now, factor), hw) = Now
         /\ NextPoint(Now, factor)[1].num \in LowerFactor .. UpperFactor
<1> DEFINE q == NextPoint(Now, factor)
           n == InBounds(factor)
<1>1. q = [i \in {0, 1} |-> IF i = 0 THEN point[1]
                            ELSE [hw |-> hw, scaled |-> Now, num |-> n, den |-> 1]]
  BY DEF NextPoint, Points
<1>2. hw \in Nat /\ n \in Nat \ {0} /\ n \in LowerFactor .. UpperFactor
  BY InBoundsRange, LocalClockAssumption DEF TypeOK
<1>3. /\ point[1] \in ScalePoint /\ point[1].hw <= hw /\ point[1].den = 1
      /\ point[1].hw \in Nat /\ point[1].scaled \in Nat /\ point[1].num \in Nat \ {0}
  BY <1>2, PointFields DEF GoodPoints
<1>4. /\ Now \in Nat /\ Now >= point[1].scaled
      /\ Now = point[1].scaled + (hw - point[1].hw) * point[1].num
  BY <1>2, <1>3, ScaledAfter DEF Now
<1>5. /\ q[0] = point[1] /\ q[1].hw = hw /\ q[1].scaled = Now /\ q[1].num = n /\ q[1].den = 1
      /\ q[1] \in ScalePoint
  BY <1>1, <1>2, <1>4 DEF ScalePoint
<1>6. q \in [{0, 1} -> ScalePoint]
  BY <1>1, <1>2, <1>3, <1>4 DEF ScalePoint
<1>7. (q[1].scaled - q[0].scaled) * q[0].den = (q[1].hw - q[0].hw) * q[0].num
  <2>1. (hw - point[1].hw) * point[1].num \in Int
    BY <1>2, <1>3
  <2> QED BY <2>1, <1>3, <1>4, <1>5
<1>8. GoodPoints(q, hw)
  BY <1>2, <1>3, <1>4, <1>5, <1>6, <1>7 DEF GoodPoints
<1>9. ScaledTimeAt(q, hw) = Now
  BY <1>2, <1>4, <1>5, <1>8, ScaledAfter, (hw - hw) * n = 0
<1> QED BY <1>2, <1>5, <1>8, <1>9

LEMMA NextPointAfterJumpGood ==
  ASSUME TypeOK, NEW time \in Nat
  PROVE  /\ GoodPoints(NextPointAfterJump(time), hw)
         /\ ScaledTimeAt(NextPointAfterJump(time), hw) = time
         /\ NextPointAfterJump(time)[1].num \in LowerFactor .. UpperFactor
<1> DEFINE q == NextPointAfterJump(time)
           n == InBounds(point[1].num)
<1>1. q = [i \in {0, 1} |-> IF i = 0 THEN [hw |-> 0, scaled |-> 0, num |-> time, den |-> hw]
                            ELSE [hw |-> hw, scaled |-> time, num |-> n, den |-> 1]]
  BY DEF NextPointAfterJump, NextPoint, Points
<1>2. hw \in Nat /\ n \in Nat \ {0} /\ n \in LowerFactor .. UpperFactor
  BY InBoundsRange, LocalClockAssumption DEF TypeOK
<1>3. /\ q[1].hw = hw /\ q[1].scaled = time /\ q[1].num = n /\ q[1].den = 1
      /\ q[0].hw = 0 /\ q[0].scaled = 0 /\ q[0].num = time /\ q[0].den = hw
  BY <1>1
<1>4. q \in [{0, 1} -> ScalePoint]
  BY <1>1, <1>2 DEF ScalePoint
<1>5. GoodPoints(q, hw)
  BY <1>2, <1>3, <1>4 DEF GoodPoints
<1>6. ScaledTimeAt(q, hw) = time
  BY <1>2, <1>3, <1>5, ScaledAfter, (hw - hw) * n = 0
<1> QED BY <1>2, <1>3, <1>5, <1>6

-----------------------------------------------------------------------------
(* The wake-up message. *)

\* w is the tick of the first event of q, and not behind tick h.
Scheduled(p, q, w, h) ==
  \/ q = NoEvents /\ w = Never
  \/ \E i \in DOMAIN q :
       First(q, i) /\ Reach(p, q[i], h) /\ w = HwTimeAt(p, q[i])

\* UpdateSchedule sets the message or ends the simulation, and it ends it only
\* because of an event that is behind the clock.
LEMMA UpdateStep ==
  ASSUME hw \in Nat, aborted = {},
         NEW p, GoodPoints(p, hw), NEW q, \A i \in DOMAIN q : q[i] \in Int,
         UpdateSchedule(p, q)
  PROVE  \/ /\ aborted' = {} /\ point' = p /\ queue' = q
            /\ Scheduled(p, q, wake', hw)
            /\ wake' \in Nat \cup {Never}
         \/ /\ \E e \in Errors : aborted' = {e}
            /\ UNCHANGED <<point, queue, wake>>
            /\ \E i \in DOMAIN q : First(q, i) /\ q[i] < ScaledTimeAt(p, hw)
                                   /\ ~Reach(p, q[i], hw)
<1>1. CASE /\ q = NoEvents /\ point' = p /\ queue' = q /\ wake' = Never /\ UNCHANGED aborted
  BY <1>1 DEF Scheduled
<1>2. ASSUME NEW i \in DOMAIN q, First(q, i),
             IF IsOld(p, q[i])
             THEN Abort("scaled time is older than both points")
             ELSE IF HwTimeAt(p, q[i]) < hw
                  THEN Abort("hardware time has passed")
                  ELSE /\ point' = p /\ queue' = q
                       /\ wake' = HwTimeAt(p, q[i])
                       /\ UNCHANGED aborted
      PROVE  \/ /\ aborted' = {} /\ point' = p /\ queue' = q
                /\ Scheduled(p, q, wake', hw)
                /\ wake' \in Nat
             \/ /\ \E e \in Errors : aborted' = {e}
                /\ UNCHANGED <<point, queue, wake>>
                /\ q[i] < ScaledTimeAt(p, hw) /\ ~Reach(p, q[i], hw)
  <2>1. p[1].hw \in Nat /\ p[1].hw <= hw /\ q[i] \in Int
    BY PointFields DEF GoodPoints
  <2>2. ScaledTimeAt(p, hw) \in Nat
    BY <2>1, ScaledAfter
  <2>3. ~Reach(p, q[i], hw) => q[i] < ScaledTimeAt(p, hw)
    BY <2>1, <2>2, ReachNow
  <2>4. CASE IsOld(p, q[i])
    BY <1>2, <2>3, <2>4 DEF Abort, Errors, Reach
  <2>5. CASE ~IsOld(p, q[i]) /\ HwTimeAt(p, q[i]) < hw
    <3>1. ~Reach(p, q[i], hw)
      BY <2>1, <2>5, NotOld DEF Reach
    <3>2. Abort("hardware time has passed")
      BY <1>2, <2>5
    <3> QED BY <2>3, <3>1, <3>2 DEF Abort, Errors
  <2>6. CASE ~IsOld(p, q[i]) /\ ~(HwTimeAt(p, q[i]) < hw)
    <3>1. HwTimeAt(p, q[i]) \in Int
      BY <2>1, <2>6, NotOld
    <3> QED BY <1>2, <2>6, <3>1 DEF Scheduled, Reach
  <2> QED BY <2>4, <2>5, <2>6
<1> QED BY <1>1, <1>2 DEF UpdateSchedule

\* If the first event can be reached all of them can.
LEMMA AllReached ==
  ASSUME NEW h \in Nat, NEW p, GoodPoints(p, h), NEW q, \A i \in DOMAIN q : q[i] \in Int,
         NEW w, Scheduled(p, q, w, h)
  PROVE  \A i \in DOMAIN q : Reach(p, q[i], h)
<1>1. CASE q = NoEvents
  BY <1>1 DEF NoEvents
<1>2. ASSUME NEW j \in DOMAIN q, First(q, j), Reach(p, q[j], h), NEW i \in DOMAIN q
      PROVE  Reach(p, q[i], h)
  BY <1>2, ReachLater DEF First
<1> QED BY <1>1, <1>2 DEF Scheduled

-----------------------------------------------------------------------------
(* The inductive invariant: the scale points are those of the hardware time,  *)
(* the wake-up message is set for the first event, and within an epoch the    *)
(* clock advances exactly by the time that passes.                            *)

SameEpoch == mark.epoch = epoch => Now - elapsed = mark.time - mark.elapsed

IInv ==
  /\ TypeOK
  /\ ids <= MaxEvents
  /\ GoodPoints(point, hw)
  /\ aborted = {} => Scheduled(point, queue, wake, hw)
  /\ AbortsOnlyBehindSchedule
  /\ mark.epoch <= epoch /\ SameEpoch

LEMMA NowIsNat == IInv => Now \in Nat
BY PointFields, ScaledAfter DEF IInv, TypeOK, GoodPoints, Now

LEMMA InitIInv == Init => IInv
<1> SUFFICES ASSUME Init PROVE IInv
  OBVIOUS
<1>1. /\ point[0] = [hw |-> 0, scaled |-> 0, num |-> BeginScaledTime, den |-> 0]
      /\ point[1] = [hw |-> 0, scaled |-> BeginScaledTime, num |-> Nominal, den |-> 1]
      /\ point = [i \in {0, 1} |-> IF i = 0 THEN point[0] ELSE point[1]]
  BY DEF Init, Points
<1>2. point \in [{0, 1} -> ScalePoint]
  BY <1>1, LocalClockAssumption DEF ScalePoint
<1>3. GoodPoints(point, hw)
  BY <1>1, <1>2, LocalClockAssumption DEF GoodPoints, Init
<1>4. Now = BeginScaledTime
  <2>1. hw = 0 /\ point[1].hw = 0 /\ point[1].num = Nominal /\ point[1].scaled = BeginScaledTime
    BY <1>1 DEF Init
  <2>2. Now = point[1].scaled + (hw - point[1].hw) * point[1].num
    BY <2>1, <1>3, ScaledAfter DEF Now
  <2>3. (0 - 0) * Nominal = 0
    BY LocalClockAssumption
  <2> QED BY <2>1, <2>2, <2>3, LocalClockAssumption
<1>5. TypeOK
  BY <1>1, <1>2, LocalClockAssumption DEF TypeOK, Init, NoEvents, ScalePoint, Never
<1>6. Scheduled(point, queue, wake, hw)
  BY DEF Scheduled, Init
<1> QED BY <1>3, <1>4, <1>5, <1>6, LocalClockAssumption
     DEF IInv, AbortsOnlyBehindSchedule, SameEpoch, Init

-----------------------------------------------------------------------------
(* The queue with which each operation calls UpdateSchedule. *)

LEMMA QueueOps ==
  ASSUME NEW q, \A i \in DOMAIN q : q[i] \in Int, NEW i, NEW d \in Int
  PROVE  /\ DOMAIN Added(q, i, d) = DOMAIN q \cup {i}
         /\ \A j \in DOMAIN Added(q, i, d) : Added(q, i, d)[j] \in Int
         /\ DOMAIN Removed(q, i) = DOMAIN q \ {i}
         /\ \A j \in DOMAIN Removed(q, i) :
              j \in DOMAIN q /\ Removed(q, i)[j] = q[j]
         /\ DOMAIN Shifted(q, d) = DOMAIN q
         /\ \A j \in DOMAIN Shifted(q, d) :
              Shifted(q, d)[j] = q[j] + d /\ Shifted(q, d)[j] \in Int
BY DEF Added, Removed, Shifted

\* Of events that are pending or not behind the clock the schedule never fails.
LEMMA UpdateSafe ==
  ASSUME IInv, aborted = {}, NEW q,
         \A i \in DOMAIN q : \/ i \in DOMAIN queue /\ q[i] = queue[i]
                             \/ q[i] \in Int /\ q[i] >= Now,
         UpdateSchedule(point, q)
  PROVE  /\ aborted' = {} /\ point' = point /\ queue' = q
         /\ Scheduled(point, q, wake', hw)
         /\ wake' \in Nat \cup {Never}
<1>1. hw \in Nat /\ GoodPoints(point, hw) /\ \A i \in DOMAIN queue : queue[i] \in Int
  BY DEF IInv, TypeOK
<1>2. \A i \in DOMAIN queue : Reach(point, queue[i], hw)
  BY <1>1, AllReached DEF IInv
<1>3. \A i \in DOMAIN q : q[i] \in Int
  BY <1>1
<1>4. \A i \in DOMAIN q : Reach(point, q[i], hw)
  BY <1>1, <1>2, <1>3, ReachNow DEF Now
<1> QED BY <1>1, <1>3, <1>4, UpdateStep

\* What does not change the time, the hardware time or the epoch keeps the part
\* of the invariant that is about them.
LEMMA SameTime ==
  ASSUME IInv, UNCHANGED <<hw, point, epoch, mark, elapsed>>
  PROVE  /\ GoodPoints(point, hw)' /\ (mark.epoch <= epoch)' /\ SameEpoch' /\ Now' = Now
BY DEF IInv, GoodPoints, SameEpoch, Now

LEMMA TickStep == ASSUME IInv, Tick PROVE IInv'
<1>1. /\ hw \in Nat /\ hw + 1 \in Nat /\ GoodPoints(point, hw) /\ hw' = hw + 1 /\ point' = point
      /\ Scheduled(point, queue, wake, hw) /\ \A i \in DOMAIN queue : queue[i] \in Int
  BY DEF IInv, TypeOK, Tick
<1>2. point[1].hw \in Nat /\ point[1].num \in Nat /\ point[1].hw <= hw
  BY <1>1, PointFields DEF GoodPoints
<1>3. GoodPoints(point, hw + 1)
  BY <1>1, <1>2 DEF GoodPoints
<1>4. Now' = ScaledTimeAt(point, hw + 1)
  BY <1>1 DEF Now
<1>5. Now' \in Nat /\ Now \in Nat /\ Now <= Now'
  BY <1>1, <1>2, <1>4, ScaledAfter, ScaledNeverFalls DEF Now
<1>6. elapsed' = elapsed + (Now' - Now) /\ elapsed \in Nat /\ elapsed' \in Nat
  BY <1>4, <1>5 DEF Tick, IInv, TypeOK
<1>7. Scheduled(point, queue, wake, hw + 1)
  <2>1. CASE queue = NoEvents /\ wake = Never
    BY <2>1 DEF Scheduled
  <2>2. ASSUME NEW i \in DOMAIN queue, First(queue, i), Reach(point, queue[i], hw),
               wake = HwTimeAt(point, queue[i])
        PROVE  Scheduled(point, queue, wake, hw + 1)
    <3>1. wake \in Int /\ wake >= hw
      BY <1>1, <2>2, NotOld DEF Reach
    <3>2. hw < wake
      BY <3>1, <1>1 DEF Tick, Never
    <3> QED BY <2>2, <3>1, <3>2, <1>1 DEF Scheduled, Reach
  <2> QED BY <1>1, <2>1, <2>2 DEF Scheduled
<1>8. TypeOK'
  BY <1>1, <1>6 DEF TypeOK, IInv, Tick
<1>9. (mark.epoch <= epoch)' /\ SameEpoch'
  <2>1. mark.time \in Nat /\ mark.elapsed \in Nat /\ mark' = mark /\ epoch' = epoch
    BY DEF IInv, TypeOK, Tick
  <2> QED BY <2>1, <1>5, <1>6 DEF IInv, SameEpoch
<1>10. AbortsOnlyBehindSchedule' /\ (ids <= MaxEvents)'
  BY DEF IInv, Tick, AbortsOnlyBehindSchedule
<1> QED BY <1>1, <1>3, <1>7, <1>8, <1>9, <1>10 DEF IInv, Tick

LEMMA ScheduleStep ==
  ASSUME IInv, NEW span \in Spans, ScheduleRelativeEvent(span)
  PROVE  /\ IInv' /\ aborted' = {} /\ Now' = Now
         /\ queue' = Added(queue, ids, Now + span)
<1> DEFINE q == Added(queue, ids, Now + span)
<1>1. /\ aborted = {} /\ ids \in Nat /\ ids < MaxEvents /\ ids' = ids + 1 /\ UpdateSchedule(point, q)
      /\ \A i \in DOMAIN queue : queue[i] \in Int
      /\ UNCHANGED <<hw, epoch, fired, mark, elapsed, adjusted>>
  BY DEF ScheduleRelativeEvent, IInv, TypeOK
<1>2. Now \in Nat /\ span \in Nat
  BY NowIsNat, LocalClockAssumption
<1>3. \A i \in DOMAIN q : \/ i \in DOMAIN queue /\ q[i] = queue[i]
                          \/ q[i] \in Int /\ q[i] >= Now
  BY <1>2 DEF Added
<1>4. /\ aborted' = {} /\ point' = point /\ queue' = q
      /\ Scheduled(point, q, wake', hw) /\ wake' \in Nat \cup {Never}
  BY <1>1, <1>3, UpdateSafe
<1>5. DOMAIN q = DOMAIN queue \cup {ids} /\ \A j \in DOMAIN q : q[j] \in Int
  BY <1>1, <1>2 DEF Added
<1>6. TypeOK'
  BY <1>1, <1>4, <1>5 DEF IInv, TypeOK
<1> QED BY <1>1, <1>4, <1>6, SameTime, LocalClockAssumption DEF IInv, AbortsOnlyBehindSchedule

\* CancelEvent, GetTimeStamp, and a wake-up: events are only taken out.
LEMMA RemoveStep ==
  ASSUME IInv, aborted = {}, NEW q, DOMAIN q \subseteq DOMAIN queue,
         \A i \in DOMAIN q : q[i] = queue[i], UpdateSchedule(point, q),
         UNCHANGED <<hw, epoch, ids, elapsed, adjusted>>,
         fired' \subseteq fired \cup DOMAIN queue,
         \/ UNCHANGED mark
         \/ mark' = [epoch |-> epoch, time |-> Now, elapsed |-> elapsed]
  PROVE  /\ IInv' /\ aborted' = {} /\ Now' = Now /\ queue' = q
<1>1. /\ aborted' = {} /\ point' = point /\ queue' = q
      /\ Scheduled(point, q, wake', hw) /\ wake' \in Nat \cup {Never}
  BY UpdateSafe
<1>2. Now' = Now /\ Now \in Nat /\ GoodPoints(point, hw)'
  BY <1>1, NowIsNat DEF Now, IInv, GoodPoints
<1>3. TypeOK'
  BY <1>1, <1>2 DEF IInv, TypeOK
<1>4. (mark.epoch <= epoch)' /\ SameEpoch'
  BY <1>1, <1>2 DEF IInv, TypeOK, SameEpoch
<1> QED BY <1>1, <1>2, <1>3, <1>4 DEF IInv, AbortsOnlyBehindSchedule

LEMMA WakeUpStep ==
  ASSUME IInv, HandleWakeUp
  PROVE  /\ IInv' /\ Now' = Now
         /\ \/ UNCHANGED <<queue, fired, ids>>
            \/ \E i \in DOMAIN queue :
                 /\ First(queue, i) /\ Due(i)
                 /\ queue' = Removed(queue, i) /\ fired' = fired \cup {i} /\ ids' = ids
<1>1. /\ aborted = {} /\ wake # Never /\ Scheduled(point, queue, wake, hw)
      /\ UNCHANGED <<hw, epoch, ids, mark, elapsed, adjusted>>
      /\ \A i \in DOMAIN queue : queue[i] \in Int
  BY DEF HandleWakeUp, IInv, TypeOK
<1>2. queue # NoEvents
  BY <1>1 DEF Scheduled, NoEvents
<1>3. PICK i \in DOMAIN queue :
          /\ First(queue, i)
          /\ \/ /\ Now > queue[i] + 2 * Nominal
                /\ Abort("missed a tick") /\ UNCHANGED fired
             \/ /\ Due(i) /\ Now <= queue[i] + 2 * Nominal
                /\ UpdateSchedule(point, Removed(queue, i))
                /\ fired' = fired \cup {i}
             \/ /\ ~Due(i)
                /\ UpdateSchedule(point, queue) /\ UNCHANGED fired
  BY <1>2 DEF HandleWakeUp
<1>4. CASE Now > queue[i] + 2 * Nominal /\ Abort("missed a tick") /\ UNCHANGED fired
  <2>1. aborted' = {"missed a tick"} /\ UNCHANGED <<point, queue, wake>>
    BY <1>4 DEF Abort
  <2>2. Now' = Now /\ Now \in Nat
    BY <1>1, <2>1, NowIsNat DEF Now
  <2>3. queue[i] < Now
    <3>1. queue[i] \in Int /\ 2 * Nominal \in Nat
      BY <1>1, LocalClockAssumption
    <3>2. Now > queue[i] + 2 * Nominal /\ Now \in Nat
      BY <1>4, <2>2
    <3> HIDE DEF Now
    <3> QED BY <3>1, <3>2
  <2>4. TypeOK' /\ AbortsOnlyBehindSchedule'
    BY <1>1, <1>4, <2>1, <2>2, <2>3 DEF IInv, TypeOK, AbortsOnlyBehindSchedule, Errors
  <2> QED BY <1>1, <1>4, <2>1, <2>2, <2>4, SameTime DEF IInv
<1>5. CASE /\ Due(i) /\ Now <= queue[i] + 2 * Nominal
           /\ UpdateSchedule(point, Removed(queue, i))
           /\ fired' = fired \cup {i}
  <2> DEFINE q == Removed(queue, i)
  <2>1. DOMAIN q \subseteq DOMAIN queue /\ \A j \in DOMAIN q : q[j] = queue[j]
    BY DEF Removed
  <2>2. IInv' /\ Now' = Now /\ queue' = q
    <3> HIDE DEF q
    <3> QED BY <1>1, <1>5, <2>1, RemoveStep DEF q
  <2> QED BY <1>1, <1>3, <1>5, <2>2
<1>6. CASE ~Due(i) /\ UpdateSchedule(point, queue) /\ UNCHANGED fired
  BY <1>1, <1>6, RemoveStep
<1> QED BY <1>3, <1>4, <1>5, <1>6

LEMMA CancelStep ==
  ASSUME IInv, NEW i, CancelEvent(i)
  PROVE  IInv' /\ Now' = Now /\ queue' = Removed(queue, i)
<1> DEFINE q == Removed(queue, i)
<1>1. DOMAIN q \subseteq DOMAIN queue /\ \A j \in DOMAIN q : q[j] = queue[j]
  BY DEF Removed
<1>2. /\ aborted = {} /\ UpdateSchedule(point, q)
      /\ UNCHANGED <<hw, epoch, ids, fired, mark, elapsed, adjusted>>
  BY DEF CancelEvent
<1> HIDE DEF q
<1> QED BY <1>1, <1>2, RemoveStep DEF q

LEMMA TimeStampStep ==
  ASSUME IInv, GetTimeStamp PROVE IInv' /\ Now' = Now /\ queue' = queue
BY RemoveStep DEF GetTimeStamp

\* SetScaledTime: the jump moves the events with the clock; if one of them is
\* then behind it, it was so before.
LEMMA IncStep ==
  ASSUME IInv, NEW delta \in Jumps, IncScaledTime(delta)
  PROVE  /\ IInv'
         /\ \/ queue' = queue /\ Now' = Now
            \/ queue' = Shifted(queue, delta) /\ Now' = Now + delta
<1>1. /\ aborted = {} /\ UNCHANGED <<hw, ids, fired, mark, elapsed>> /\ adjusted' = adjusted + 1
      /\ Now \in Nat /\ delta \in Int /\ \A i \in DOMAIN queue : queue[i] \in Int
  BY NowIsNat, LocalClockAssumption DEF IncScaledTime, Adjust, IInv, TypeOK
<1>2. CASE Now + delta < 0
  <2>1. Abort("scaled time is negative") /\ UNCHANGED epoch
    BY <1>2 DEF IncScaledTime
  <2>2. TypeOK' /\ AbortsOnlyBehindSchedule'
    <3>1. aborted' = {"scaled time is negative"} /\ UNCHANGED <<point, queue, wake, epoch>>
      BY <2>1 DEF Abort
    <3>2. aborted' \in SUBSET Errors
      BY <3>1 DEF Errors
    <3>3. TypeOK'
      <4>1. /\ TypeOK /\ adjusted' = adjusted + 1
            /\ UNCHANGED <<hw, point, epoch, queue, ids, wake, fired, mark, elapsed>>
        BY <1>1, <3>1 DEF IInv
      <4>2. adjusted' \in Nat
        BY <4>1 DEF TypeOK
      <4> QED BY <3>2, <4>1, <4>2 DEF TypeOK
    <3> QED BY <3>1, <3>3 DEF AbortsOnlyBehindSchedule
  <2> QED BY <1>1, <2>1, <2>2, SameTime DEF Abort, IInv
<1>3. CASE ~(Now + delta < 0)
  <2> DEFINE time == Now + delta
             p == NextPointAfterJump(time)
             q == Shifted(queue, delta)
  <2>1. time \in Nat /\ UpdateSchedule(p, q) /\ epoch' = epoch + 1
    BY <1>1, <1>3 DEF IncScaledTime, HandleTimeJump
  <2>2. /\ GoodPoints(p, hw) /\ ScaledTimeAt(p, hw) = time
        /\ p[1].num \in LowerFactor .. UpperFactor
    BY <2>1, NextPointAfterJumpGood DEF IInv
  <2>3. /\ DOMAIN q = DOMAIN queue
        /\ \A i \in DOMAIN q : q[i] = queue[i] + delta /\ q[i] \in Int
    BY <1>1 DEF Shifted
  <2>4. (mark.epoch <= epoch)' /\ SameEpoch' /\ epoch' \in Nat
    BY <1>1, <2>1 DEF IInv, TypeOK, SameEpoch
  <2>5. \/ /\ aborted' = {} /\ point' = p /\ queue' = q
           /\ Scheduled(p, q, wake', hw)
           /\ wake' \in Nat \cup {Never}
        \/ /\ \E e \in Errors : aborted' = {e}
           /\ UNCHANGED <<point, queue, wake>>
           /\ \E i \in DOMAIN q : q[i] < ScaledTimeAt(p, hw)
    <3>1. hw \in Nat
      BY DEF IInv, TypeOK
    <3> HIDE DEF p, q, time
    <3> QED BY <1>1, <2>1, <2>2, <2>3, <3>1, UpdateStep
  <2>6. CASE /\ aborted' = {} /\ point' = p /\ queue' = q
             /\ Scheduled(p, q, wake', hw)
             /\ wake' \in Nat \cup {Never}
    <3>1. Now' = time
      BY <1>1, <2>2, <2>6 DEF Now
    <3>2. GoodPoints(point, hw)'
      BY <1>1, <2>2, <2>6 DEF GoodPoints
    <3>3. TypeOK'
      <4> HIDE DEF p, q, time
      <4>1. point' \in [{0, 1} -> ScalePoint]
        BY <2>2, <2>6 DEF GoodPoints
      <4> QED BY <1>1, <2>2, <2>3, <2>4, <2>6, <4>1 DEF IInv, TypeOK, ScalePoint
    <3> QED BY <1>1, <2>4, <2>6, <3>1, <3>2, <3>3 DEF IInv, AbortsOnlyBehindSchedule
  <2>7. CASE /\ \E e \in Errors : aborted' = {e}
             /\ UNCHANGED <<point, queue, wake>>
             /\ \E i \in DOMAIN q : q[i] < ScaledTimeAt(p, hw)
    <3>1. Now' = Now /\ GoodPoints(point, hw)'
      BY <1>1, <2>7 DEF Now, IInv, GoodPoints
    <3>2. \E i \in DOMAIN queue : queue[i] < Now
      <4>1. PICK i \in DOMAIN q : q[i] < time
        BY <2>7, <2>2
      <4>2. i \in DOMAIN queue /\ queue[i] + delta < Now + delta /\ queue[i] \in Int
        BY <4>1, <2>3, <1>1
      <4> HIDE DEF Now
      <4> QED BY <4>2, <1>1
    <3>3. TypeOK' /\ AbortsOnlyBehindSchedule' /\ aborted' # {}
      <4>1. TypeOK'
        BY <1>1, <2>4, <2>7 DEF IInv, TypeOK
      <4>2. AbortsOnlyBehindSchedule'
        BY <2>7, <3>1, <3>2 DEF AbortsOnlyBehindSchedule
      <4> QED BY <2>7, <4>1, <4>2
    <3> QED BY <1>1, <2>4, <2>7, <3>1, <3>3 DEF IInv
  <2> QED BY <2>5, <2>6, <2>7
<1> QED BY <1>2, <1>3

LEMMA SetFactorStep ==
  ASSUME IInv, NEW factor \in Factors, SetScaleFactor(factor)
  PROVE  IInv' /\ queue' = queue /\ Now' = Now
<1> DEFINE p == NextPoint(Now, factor)
<1>1. /\ aborted = {} /\ adjusted' = adjusted + 1 /\ UpdateSchedule(p, queue)
      /\ UNCHANGED <<hw, ids, fired, mark, elapsed, epoch>>
      /\ Now \in Nat /\ factor \in Int /\ \A i \in DOMAIN queue : queue[i] \in Int /\ hw \in Nat
  BY NowIsNat, LocalClockAssumption DEF SetScaleFactor, Adjust, IInv, TypeOK
<1>2. /\ GoodPoints(p, hw) /\ ScaledTimeAt(p, hw) = Now
      /\ p[1].num \in LowerFactor .. UpperFactor
  BY <1>1, NextPointGood DEF IInv
<1>3. \/ /\ aborted' = {} /\ point' = p /\ queue' = queue
         /\ Scheduled(p, queue, wake', hw)
         /\ wake' \in Nat \cup {Never}
      \/ /\ \E e \in Errors : aborted' = {e}
         /\ UNCHANGED <<point, queue, wake>>
         /\ \E i \in DOMAIN queue : queue[i] < ScaledTimeAt(p, hw)
  <2>1. hw \in Nat
    BY DEF IInv, TypeOK
  <2> HIDE DEF p
  <2> QED BY <1>1, <1>2, <2>1, UpdateStep
<1>4. CASE /\ aborted' = {} /\ point' = p /\ queue' = queue
           /\ Scheduled(p, queue, wake', hw)
           /\ wake' \in Nat \cup {Never}
  <2>1. Now' = Now
    BY <1>1, <1>2, <1>4 DEF Now
  <2>2. GoodPoints(point, hw)'
    BY <1>1, <1>2, <1>4 DEF GoodPoints
  <2>3. (mark.epoch <= epoch)' /\ SameEpoch'
    BY <1>1, <2>1 DEF IInv, SameEpoch
  <2>4. TypeOK'
    <3> HIDE DEF p
    <3>1. point' \in [{0, 1} -> ScalePoint]
      BY <1>2, <1>4 DEF GoodPoints
    <3> QED BY <1>1, <1>2, <1>4, <3>1 DEF IInv, TypeOK, ScalePoint
  <2> QED BY <1>1, <1>4, <2>1, <2>2, <2>3, <2>4 DEF IInv, AbortsOnlyBehindSchedule
<1>5. CASE /\ \E e \in Errors : aborted' = {e}
           /\ UNCHANGED <<point, queue, wake>>
           /\ \E i \in DOMAIN queue : queue[i] < ScaledTimeAt(p, hw)
  <2>1. Now' = Now /\ \E i \in DOMAIN queue : queue[i] < Now
    BY <1>1, <1>2, <1>5 DEF Now
  <2>2. TypeOK' /\ AbortsOnlyBehindSchedule' /\ aborted' # {}
    <3>1. TypeOK'
      BY <1>1, <1>5 DEF IInv, TypeOK
    <3>2. AbortsOnlyBehindSchedule'
      BY <1>5, <2>1 DEF AbortsOnlyBehindSchedule
    <3> QED BY <1>5, <3>1, <3>2
  <2> QED BY <1>1, <1>5, <2>1, <2>2, SameTime DEF IInv
<1> QED BY <1>3, <1>4, <1>5

LEMMA StutterStep == ASSUME IInv, UNCHANGED vars PROVE IInv'
<1>1. SameEpoch' /\ AbortsOnlyBehindSchedule' /\ TypeOK'
  BY DEF IInv, SameEpoch, AbortsOnlyBehindSchedule, TypeOK, Now, vars
<1> QED BY <1>1 DEF IInv, vars, GoodPoints, Scheduled

LEMMA NextIInv == IInv /\ [Next]_vars => IInv'
<1> SUFFICES ASSUME IInv, [Next]_vars PROVE IInv'
  OBVIOUS
<1>1. CASE Tick
  BY <1>1, TickStep
<1>2. ASSUME NEW span \in Spans, ScheduleRelativeEvent(span) PROVE IInv'
  BY <1>2, ScheduleStep
<1>3. ASSUME NEW i \in 0 .. (ids - 1), CancelEvent(i) PROVE IInv'
  BY <1>3, CancelStep
<1>4. CASE HandleWakeUp
  BY <1>4, WakeUpStep
<1>5. ASSUME NEW delta \in Jumps, IncScaledTime(delta) PROVE IInv'
  BY <1>5, IncStep
<1>6. ASSUME NEW factor \in Factors, SetScaleFactor(factor) PROVE IInv'
  BY <1>6, SetFactorStep
<1>7. CASE GetTimeStamp
  BY <1>7, TimeStampStep
<1>8. CASE UNCHANGED vars
  BY <1>8, StutterStep
<1> QED BY <1>1, <1>2, <1>3, <1>4, <1>5, <1>6, <1>7, <1>8 DEF Next

THEOREM ClockInvariance == Spec => []IInv
<1> QED BY InitIInv, NextIInv, PTL DEF Spec

-----------------------------------------------------------------------------
(* What follows for the clock. *)

\* The clock, its scale points and its queue keep their types for every rate
\* and every sequence of jumps (classes cAdjustableClock, cScheduleClock).
THEOREM ClockTypeOK == Spec => []TypeOK
<1>1. IInv => TypeOK
  BY DEF IInv
<1> QED BY <1>1, ClockInvariance, PTL

\* The difference of two time stamps (operator- of cLocalTimeStamp) is the time
\* that has passed between them, or zero if the clock has jumped.
THEOREM ClockDifferenceIsElapsed == Spec => []DifferenceIsElapsed
<1>1. IInv => DifferenceIsElapsed
  <2> SUFFICES ASSUME IInv PROVE DifferenceIsElapsed
    OBVIOUS
  <2>1. /\ Now \in Nat /\ elapsed \in Nat /\ epoch \in Nat
        /\ mark.epoch \in Nat /\ mark.time \in Nat /\ mark.elapsed \in Nat
    BY NowIsNat DEF IInv, TypeOK
  <2>2. CASE mark.epoch = epoch
    <3>1. Now - elapsed = mark.time - mark.elapsed
      BY <2>2 DEF IInv, SameEpoch
    <3>2. Now - mark.time = elapsed - mark.elapsed
      BY <2>1, <3>1
    <3> QED BY <2>2, <3>2 DEF DifferenceIsElapsed, Difference
  <2>3. CASE mark.epoch # epoch
    BY <2>3 DEF DifferenceIsElapsed, Difference
  <2> QED BY <2>2, <2>3
<1> QED BY <1>1, ClockInvariance, PTL

\* No error of the event queue (UpdateSchedule, GetHwTimeAtScaledTime, the
\* assertions of cHwClock) ends the simulation unless an event is already
\* behind the clock.
THEOREM ClockAbortsOnlyBehindSchedule == Spec => []AbortsOnlyBehindSchedule
<1>1. IInv => AbortsOnlyBehindSchedule
  BY DEF IInv
<1> QED BY <1>1, ClockInvariance, PTL

\* The wake-up is for the first event whenever the clock has not stopped.
LEMMA InvWakes == IInv => WakesForFirstEvent
<1> SUFFICES ASSUME IInv, aborted = {}
             PROVE  /\ wake = Never <=> queue = NoEvents
                    /\ wake # Never =>
                         \A i \in DOMAIN queue : First(queue, i) =>
                           /\ ScaledTimeAt(point, wake) >= queue[i]
                           /\ wake > hw => ScaledTimeAt(point, wake - 1) < queue[i]
  BY DEF WakesForFirstEvent
<1>1. /\ hw \in Nat /\ GoodPoints(point, hw) /\ Scheduled(point, queue, wake, hw)
      /\ \A i \in DOMAIN queue : queue[i] \in Int
      /\ point[1].hw \in Nat /\ point[1].hw <= hw /\ point[1].scaled \in Nat
  BY PointFields DEF IInv, TypeOK, GoodPoints
<1>2. CASE queue = NoEvents /\ wake = Never
  BY <1>2
<1>3. ASSUME NEW i \in DOMAIN queue, First(queue, i), Reach(point, queue[i], hw),
             wake = HwTimeAt(point, queue[i])
      PROVE  /\ wake # Never /\ queue # NoEvents
             /\ ScaledTimeAt(point, wake) >= queue[i]
             /\ wake > hw => ScaledTimeAt(point, wake - 1) < queue[i]
  <2>1. ~IsOld(point, queue[i]) /\ wake \in Int /\ wake >= hw
    BY <1>1, <1>3, NotOld DEF Reach
  <2>2. wake # Never /\ queue # NoEvents
    BY <1>1, <2>1 DEF Never, NoEvents
  <2>3. CASE queue[i] > point[1].scaled
    BY <1>1, <1>3, <2>2, <2>3, HwTimeAfter
  <2>4. CASE queue[i] = point[1].scaled
    <3>1. wake = point[1].hw /\ wake = hw
      BY <1>1, <1>3, <2>1, <2>4, HwTimeAtPoint
    <3>2. ScaledTimeAt(point, wake) >= point[1].scaled
      <4> hw >= point[1].hw
        BY <1>1
      <4>1. ScaledTimeAt(point, hw) >= point[1].scaled
        BY <1>1, ScaledAfter
      <4> QED BY <4>1, <3>1
    <3> QED BY <1>1, <2>2, <2>4, <3>1, <3>2
  <2>5. CASE point[0].scaled <= queue[i] /\ queue[i] < point[1].scaled
    <3>1. wake <= point[1].hw /\ Reaches(point, queue[i], wake)
      BY <1>1, <1>3, <2>5, HwTimeBetween
    <3> QED BY <1>1, <2>1, <2>2, <3>1 DEF Reaches
  <2> QED BY <1>1, <2>1, <2>3, <2>4, <2>5, NotOld
<1>4. ASSUME NEW i \in DOMAIN queue, NEW j \in DOMAIN queue, First(queue, i), First(queue, j)
      PROVE  queue[i] = queue[j]
  <2>1. queue[i] <= queue[j] /\ queue[j] <= queue[i] /\ queue[i] \in Int /\ queue[j] \in Int
    BY <1>1, <1>4 DEF First
  <2> QED BY <2>1
<1> QED BY <1>1, <1>2, <1>3, <1>4 DEF Scheduled

\* The wake-up message is for the first tick at which the first event is due
\* (cScheduleClock::UpdateSchedule).
THEOREM ClockWakesForFirstEvent == Spec => []WakesForFirstEvent
BY InvWakes, ClockInvariance, PTL

-----------------------------------------------------------------------------
(* The clock implements the alarm clock: time that passes is an Elapse, jumps *)
(* and changes of the rate are stuttering steps.                              *)

Remaining == [i \in DOMAIN queue |-> queue[i] - Now]

LEMMA AlarmInit == Init => Alarm!Init
<1> SUFFICES ASSUME Init PROVE Alarm!Init
  OBVIOUS
<1>1. queue = NoEvents /\ ids = 0 /\ fired = {} /\ DOMAIN queue = {}
  BY DEF Init, NoEvents
<1>2. [i \in DOMAIN queue |-> queue[i] - Now] = [i \in {} |-> 0]
  BY <1>1
<1> QED BY <1>1, <1>2 DEF Alarm!Init

\* Time only passes while the first event is ahead.
LEMMA AlarmElapse == ASSUME IInv, Tick PROVE Alarm!Next
<1>1. /\ hw \in Nat /\ GoodPoints(point, hw) /\ hw' = hw + 1 /\ point' = point
      /\ Scheduled(point, queue, wake, hw) /\ \A i \in DOMAIN queue : queue[i] \in Int
      /\ UNCHANGED <<queue, ids, fired>>
  BY DEF IInv, TypeOK, Tick
<1> PICK n \in LowerFactor .. UpperFactor : n = point[1].num
  BY DEF IInv, TypeOK
<1>2. /\ point[1].hw \in Nat /\ n \in Nat /\ point[1].hw <= hw /\ point[1].scaled \in Nat
  BY <1>1, PointFields DEF GoodPoints
<1>3. Now \in Nat /\ Now' = Now + n
  <2>1. /\ Now = point[1].scaled + (hw - point[1].hw) * n
        /\ Now' = point[1].scaled + (hw + 1 - point[1].hw) * n
        /\ Now \in Nat
    BY <1>1, <1>2, ScaledAfter DEF Now
  <2>2. (hw + 1 - point[1].hw) * n = (hw - point[1].hw) * n + n
    BY <1>1, <1>2
  <2>3. (hw - point[1].hw) * n \in Int
    BY <1>1, <1>2
  <2> QED BY <2>1, <2>2, <2>3, <1>2
<1>4. \A i \in DOMAIN queue : queue[i] > Now
  <2>1. CASE queue = NoEvents
    BY <2>1 DEF NoEvents
  <2>2. ASSUME NEW j \in DOMAIN queue, First(queue, j), Reach(point, queue[j], hw),
               wake = HwTimeAt(point, queue[j]), NEW i \in DOMAIN queue
        PROVE  queue[i] > Now
    <3>1. ~IsOld(point, queue[j]) /\ wake \in Int /\ wake >= hw
      BY <1>1, <2>2, NotOld DEF Reach
    <3>2. hw < wake
      BY <3>1, <1>1 DEF Tick, Never
    <3>3. queue[j] > Now
      BY <1>1, <2>2, <3>1, <3>2, AheadOfNow DEF Now
    <3>4. queue[j] <= queue[i] /\ queue[i] \in Int /\ queue[j] \in Int
      BY <1>1, <2>2 DEF First
    <3> QED BY <3>3, <3>4, <1>3
  <2> QED BY <1>1, <2>1, <2>2 DEF Scheduled
<1>5. Alarm!Elapse(n)
  <2>1. \A i \in DOMAIN queue : queue[i] - Now > 0
    BY <1>1, <1>3, <1>4
  <2>2. [i \in DOMAIN queue' |-> queue'[i] - Now']
          = [i \in DOMAIN queue |-> (queue[i] - Now) - n]
    BY <1>1, <1>2, <1>3
  <2> QED BY <1>1, <2>1, <2>2 DEF Alarm!Elapse, Alarm!Pending
<1> QED BY <1>5 DEF Alarm!Next

LEMMA AlarmSchedule ==
  ASSUME IInv, NEW span \in Spans, ScheduleRelativeEvent(span) PROVE Alarm!Next
<1>1. Now' = Now /\ queue' = Added(queue, ids, Now + span) /\ fired' = fired /\ ids' = ids + 1
  BY ScheduleStep DEF ScheduleRelativeEvent
<1>2. /\ Now \in Nat /\ span \in Nat /\ ids \in 0 .. (MaxEvents - 1)
      /\ ids \notin 0 .. (ids - 1) /\ 0 .. (ids' - 1) = 0 .. (ids - 1) \cup {ids}
  BY <1>1, NowIsNat, LocalClockAssumption DEF ScheduleRelativeEvent, IInv, TypeOK
<1>3. [i \in DOMAIN queue' |-> queue'[i] - Now']
        = [j \in DOMAIN queue \cup {ids} |->
             IF j = ids THEN span ELSE [i \in DOMAIN queue |-> queue[i] - Now][j]]
  BY <1>1, <1>2 DEF Added
<1>4. Alarm!Schedule(ids, span)
  BY <1>1, <1>2, <1>3 DEF Alarm!Schedule, Alarm!Pending
<1> QED BY <1>2, <1>4 DEF Alarm!Next

LEMMA AlarmCancel ==
  ASSUME IInv, NEW i \in 0 .. (ids - 1), CancelEvent(i) PROVE Alarm!Next
<1>1. Now' = Now /\ queue' = Removed(queue, i) /\ fired' = fired /\ ids' = ids
  BY CancelStep DEF CancelEvent
<1>2. i \in 0 .. (MaxEvents - 1)
  BY LocalClockAssumption DEF IInv, TypeOK
<1>3. [j \in DOMAIN queue' |-> queue'[j] - Now']
        = [j \in DOMAIN queue \ {i} |-> [k \in DOMAIN queue |-> queue[k] - Now][j]]
  BY <1>1 DEF Removed
<1>4. Alarm!Cancel(i)
  BY <1>1, <1>3 DEF Alarm!Cancel, Alarm!Without, Alarm!Pending
<1> QED BY <1>2, <1>4 DEF Alarm!Next

LEMMA AlarmFire ==
  ASSUME IInv, HandleWakeUp
  PROVE  Alarm!Next \/ UNCHANGED <<Remaining, 0 .. (ids - 1), fired>>
<1>1. Now' = Now /\ Now \in Nat /\ \A i \in DOMAIN queue : queue[i] \in Int
  BY WakeUpStep, NowIsNat DEF IInv, TypeOK
<1>2. CASE UNCHANGED <<queue, fired, ids>>
  BY <1>1, <1>2 DEF Remaining
<1>3. ASSUME NEW i \in DOMAIN queue, First(queue, i), Due(i),
             queue' = Removed(queue, i), fired' = fired \cup {i}, ids' = ids
      PROVE  Alarm!Next
  <2>1. [j \in DOMAIN queue' |-> queue'[j] - Now']
          = [j \in DOMAIN queue \ {i} |-> [k \in DOMAIN queue |-> queue[k] - Now][j]]
    BY <1>1, <1>3 DEF Removed
  <2>2. /\ queue[i] - Now <= 0
        /\ \A j \in DOMAIN queue : queue[i] - Now <= queue[j] - Now
    BY <1>1, <1>3 DEF Due, First
  <2>3. Alarm!Fire(i)
    BY <1>3, <2>1, <2>2 DEF Alarm!Fire, Alarm!Without, Alarm!Pending
  <2> QED BY <2>3 DEF Alarm!Next, Alarm!Pending
<1> QED BY <1>2, <1>3, WakeUpStep

LEMMA AlarmNext ==
  ASSUME IInv, [Next]_vars
  PROVE  Alarm!Next \/ UNCHANGED <<Remaining, 0 .. (ids - 1), fired>>
<1>1. Now \in Nat /\ \A i \in DOMAIN queue : queue[i] \in Int
  BY NowIsNat DEF IInv, TypeOK
<1>2. ASSUME NEW delta \in Jumps, IncScaledTime(delta)
      PROVE  UNCHANGED <<Remaining, 0 .. (ids - 1), fired>>
  <2>1. UNCHANGED <<ids, fired>>
    BY <1>2 DEF IncScaledTime, Adjust
  <2>2. CASE queue' = queue /\ Now' = Now
    BY <2>1, <2>2 DEF Remaining
  <2>3. CASE queue' = Shifted(queue, delta) /\ Now' = Now + delta
    <3>1. delta \in Int
      BY LocalClockAssumption
    <3>2. Remaining' = Remaining
      BY <1>1, <2>3, <3>1 DEF Remaining, Shifted
    <3> QED BY <2>1, <3>2
  <2> QED BY <1>2, <2>2, <2>3, IncStep
<1>3. ASSUME NEW factor \in Factors, SetScaleFactor(factor)
      PROVE  UNCHANGED <<Remaining, 0 .. (ids - 1), fired>>
  BY <1>3, SetFactorStep DEF Remaining, SetScaleFactor, Adjust
<1>4. CASE GetTimeStamp
  BY <1>4, TimeStampStep DEF Remaining, GetTimeStamp
<1>5. CASE UNCHANGED vars
  BY <1>5 DEF Remaining, vars, Now
<1> QED BY <1>2, <1>3, <1>4, <1>5, AlarmElapse, AlarmSchedule, AlarmCancel, AlarmFire DEF Next

\* The event queue keeps what the interface of cScheduleClock promises, for
\* every rate, all spans and any sequence of jumps and cancellations.
THEOREM ClockImplementsAlarmClock == Spec => ImplementsAlarmClock
<1>1. IInv /\ [Next]_vars
        => [Alarm!Next]_<<[i \in DOMAIN queue |-> queue[i] - Now], 0 .. (ids - 1), fired>>
  BY AlarmNext DEF Remaining
<1> QED BY AlarmInit, <1>1, ClockInvariance, PTL DEF Spec, ImplementsAlarmClock, Alarm!Spec

=============================================================================
