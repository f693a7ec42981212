----------------------------- MODULE LocalClock -----------------------------
(***************************************************************************)
(* The clock of a node and its event queue: cHwClock (ticks of the         *)
(* hardware clock), cAdjustableClock (scaled time, a piecewise linear      *)
(* function of hardware time given by the last two scale points) and       *)
(* cScheduleClock (events kept in scaled time and woken up by a kernel     *)
(* message in real time).                                                  *)
(*                                                                         *)
(* Hardware time is counted in ticks, scaled time in units of which a tick *)
(* of the nominal rate has Nominal; a scale factor is the number of units  *)
(* per tick, the slope of scale point 0 after a jump is a fraction.  The   *)
(* kernel may deliver any message within the tick an event is due in       *)
(* before it delivers the wake-up message.                                 *)
(***************************************************************************)
EXTENDS Integers

CONSTANTS
  Nominal,             \* TickLenNom in units of scaled time
  LowerFactor,         \* ScaleFactor_LowerBound_ppb
  UpperFactor,         \* ScaleFactor_UpperBound_ppb
  BeginScaledTime,
  EnableAdjustments,
  Factors,             \* the factors the servo asks for
  Jumps,               \* the amounts the time is set forward or back by
  Spans,               \* the spans of the events services schedule
  MaxHw,               \* bound on the ticks of a behaviour
  MaxEvents,           \* bound on UniqueIdCnt
  MaxAdjustments       \* bound on jumps and changes of the rate

ASSUME LocalClockAssumption ==
  /\ Nominal \in Nat \ {0}
  /\ LowerFactor \in 1 .. Nominal /\ UpperFactor \in Nat /\ UpperFactor >= Nominal
  /\ BeginScaledTime \in Nat
  /\ EnableAdjustments \in BOOLEAN
  /\ Factors \subseteq Int /\ Jumps \subseteq Int /\ Spans \subseteq Nat
  /\ MaxHw \in Nat /\ MaxEvents \in Nat /\ MaxAdjustments \in Nat

VARIABLES
  hw,        \* ticks of the hardware clock
  point,     \* ScalePoints: point[1] is the current one, point[0] the one before
  epoch,     \* EpochID
  queue,     \* EventQueue: the scaled time of each pending event
  ids,       \* UniqueIdCnt
  wake,      \* the tick pNextScheduledEvent is for, or Never
  fired,     \* the events that have been executed (history)
  mark,      \* a time stamp taken earlier, with its value of elapsed
  elapsed,   \* scaled time that has passed, jumps left out (history)
  adjusted,  \* adjustments made (history, bounds the behaviour)
  aborted    \* the errors that have ended the simulation

vars == <<hw, point, epoch, queue, ids, wake, fired, mark, elapsed, adjusted, aborted>>

Never == -1

Errors == {"scaled time is negative", "scaled time is older than both points",
           "hardware time has passed", "missed a tick", "no event in the queue"}

NoEvents == [i \in {} |-> 0]

TypeOK ==
  /\ hw \in Nat /\ epoch \in Nat /\ ids \in Nat /\ elapsed \in Nat
  /\ adjusted \in Nat
  /\ point \in [{0, 1} -> [hw : Nat, scaled : Nat, num : Nat, den : Nat]]
  /\ DOMAIN queue \subseteq 0 .. (ids - 1) /\ fired \subseteq 0 .. (ids - 1)
  /\ \A i \in DOMAIN queue : queue[i] \in Int
  /\ point[1].num \in LowerFactor .. UpperFactor
  /\ wake \in Nat \cup {Never}
  /\ mark \in [epoch : Nat, time : Nat, elapsed : Nat]
  /\ aborted \in SUBSET Errors

-----------------------------------------------------------------------------
(* Scaled time. *)

\* GetScaledTimeAtHwTime
ScaledTimeAt(p, tick) ==
  LET base == IF tick >= p[1].hw THEN p[1] ELSE p[0]
  IN  base.scaled + ((tick - base.hw) * base.num) \div base.den

Now == ScaledTimeAt(point, hw)

\* MUTANT of HwTimeAt: the estimate is not rounded up to the next tick.
HwTimeBefore(p, time) ==
  LET base == IF time >= p[1].scaled THEN p[1] ELSE p[0]
  IN  base.hw + ((time - base.scaled) * base.den) \div base.num

\* GetHwTimeAtScaledTime: the first tick, counted from an estimate, whose
\* scaled time is not less.
HwTimeAt(p, time) ==
  LET base  == IF time >= p[1].scaled THEN p[1] ELSE p[0]
      first == base.hw + ((time - base.scaled) * base.den) \div base.num
  IN  IF time = p[1].scaled THEN p[1].hw
      ELSE CHOOSE t \in first .. (first + p[1].hw + time) :
             /\ ScaledTimeAt(p, t) >= time
             /\ \A u \in first .. (t - 1) : ScaledTimeAt(p, u) < time

IsOld(p, time) == time # p[1].scaled /\ time < p[0].scaled

InBounds(factor) ==
  CASE factor < LowerFactor -> LowerFactor
    [] factor > UpperFactor -> UpperFactor
    [] OTHER -> factor

Points(before, current) == [i \in {0, 1} |-> IF i = 0 THEN before ELSE current]

\* SetScalePoint without Reset: the current point becomes the one before.
NextPoint(time, factor) ==
  Points(point[1], [hw |-> hw, scaled |-> time, num |-> InBounds(factor), den |-> 1])

\* MUTANT of NextPointAfterJump: Reset is ignored.
NextPointNoReset(time) == NextPoint(time, point[1].num)

\* SetScalePoint with Reset: point 0 is the origin.
NextPointAfterJump(time) ==
  [NextPoint(time, point[1].num) EXCEPT
     ![0] = [hw |-> 0, scaled |-> 0, num |-> time, den |-> hw]]

-----------------------------------------------------------------------------
(* The event queue. *)

First(q, i) == \A j \in DOMAIN q : q[i] <= q[j]

Added(q, i, time) == [j \in DOMAIN q \cup {i} |-> IF j = i THEN time ELSE q[j]]

\* An event in the queue is the one a service holds if the ids are equal; the
\* time of the event is not compared, a jump changes it.
Removed(q, i) == [j \in DOMAIN q \ {i} |-> q[j]]

Shifted(q, delta) == [i \in DOMAIN q |-> q[i] + delta]

Abort(error) ==
  /\ aborted' = {error}
  /\ UNCHANGED <<point, queue, wake>>

\* UpdateSchedule with new scale points and events: the wake-up message is set
\* for the first event.
UpdateSchedule(p, q) ==
  \/ /\ q = NoEvents
     /\ point' = p /\ queue' = q /\ wake' = Never
     /\ UNCHANGED aborted
  \/ \E i \in DOMAIN q :
       /\ First(q, i)
       /\ IF IsOld(p, q[i])
          THEN Abort("scaled time is older than both points")
          ELSE IF HwTimeAt(p, q[i]) < hw
               THEN Abort("hardware time has passed")
               ELSE /\ point' = p /\ queue' = q
                    /\ wake' = HwTimeAt(p, q[i])
                    /\ UNCHANGED aborted

-----------------------------------------------------------------------------
Init ==
  /\ hw = 0 /\ epoch = 0 /\ ids = 0 /\ elapsed = 0 /\ adjusted = 0
  /\ point = Points([hw |-> 0, scaled |-> 0, num |-> BeginScaledTime, den |-> 0],
                    [hw |-> 0, scaled |-> BeginScaledTime, num |-> Nominal, den |-> 1])
  /\ queue = NoEvents /\ wake = Never /\ fired = {} /\ aborted = {}
  /\ mark = [epoch |-> 0, time |-> BeginScaledTime, elapsed |-> 0]

\* The hardware clock ticks; the wake-up message is delivered no later than in
\* the tick it is for.
Tick ==
  /\ aborted = {}
  /\ hw < MaxHw
  /\ wake = Never \/ hw < wake
  /\ hw' = hw + 1
  /\ elapsed' = elapsed + ScaledTimeAt(point, hw + 1) - Now
  /\ UNCHANGED <<point, epoch, queue, ids, wake, fired, mark, adjusted, aborted>>

ScheduleRelativeEvent(span) ==
  /\ aborted = {}
  /\ ids < MaxEvents
  /\ ids' = ids + 1
  /\ UpdateSchedule(point, Added(queue, ids, Now + span))
  /\ UNCHANGED <<hw, epoch, fired, mark, elapsed, adjusted>>

\* A service also cancels an event that has fired or was cancelled before.
CancelEvent(i) ==
  /\ aborted = {}
  /\ UpdateSchedule(point, Removed(queue, i))
  /\ UNCHANGED <<hw, epoch, ids, fired, mark, elapsed, adjusted>>

\* MUTANT of Due: an event fires up to a tick early.
AlmostDue(i) == Now + Nominal >= queue[i]

Due(i) == Now >= queue[i]

\* The wake-up message.  It may come early, then it is only set again.
HandleWakeUp ==
  /\ aborted = {}
  /\ wake # Never /\ hw <= wake
  /\ \/ queue = NoEvents /\ Abort("no event in the queue") /\ UNCHANGED fired
     \/ \E i \in DOMAIN queue :
          /\ First(queue, i)
          /\ \/ /\ Now > queue[i] + 2 * Nominal
                /\ Abort("missed a tick") /\ UNCHANGED fired
             \/ /\ Due(i) /\ Now <= queue[i] + 2 * Nominal
                /\ UpdateSchedule(point, Removed(queue, i))
                /\ fired' = fired \cup {i}
             \/ /\ ~Due(i)
                /\ UpdateSchedule(point, queue) /\ UNCHANGED fired
  /\ UNCHANGED <<hw, epoch, ids, mark, elapsed, adjusted>>

Adjust ==
  /\ aborted = {}
  /\ EnableAdjustments
  /\ adjusted < MaxAdjustments
  /\ adjusted' = adjusted + 1
  /\ UNCHANGED <<hw, ids, fired, mark, elapsed>>

\* MUTANT of HandleTimeJump: the jump starts no new epoch.
JumpWithoutEpoch(p, delta) ==
  UpdateSchedule(p, Shifted(queue, delta)) /\ UNCHANGED epoch

\* Both classes' HandleTimeJump.
HandleTimeJump(p, delta) ==
  UpdateSchedule(p, Shifted(queue, delta)) /\ epoch' = epoch + 1

\* IncScaledTime( delta ), and so SetScaledTime( Now + delta )
IncScaledTime(delta) ==
  /\ Adjust
  /\ IF Now + delta < 0
     THEN Abort("scaled time is negative") /\ UNCHANGED epoch
     ELSE HandleTimeJump(NextPointAfterJump(Now + delta), delta)

SetScaleFactor(factor) ==
  /\ Adjust
  /\ UpdateSchedule(NextPoint(Now, factor), queue)
  /\ UNCHANGED epoch

GetTimeStamp ==
  /\ aborted = {}
  /\ mark' = [epoch |-> epoch, time |-> Now, elapsed |-> elapsed]
  /\ UpdateSchedule(point, queue)
  /\ UNCHANGED <<hw, epoch, ids, fired, elapsed, adjusted>>

Next ==
  \/ Tick
  \/ \E span \in Spans : ScheduleRelativeEvent(span)
  \/ \E i \in 0 .. (ids - 1) : CancelEvent(i)
  \/ HandleWakeUp
  \/ \E delta \in Jumps : IncScaledTime(delta)
  \/ \E factor \in Factors : SetScaleFactor(factor)
  \/ GetTimeStamp

\* The kernel always delivers its next message: time goes on, and a message
\* that is due is delivered.
Fairness == WF_vars(Tick) /\ WF_vars(HandleWakeUp)

Spec == Init /\ [][Next]_vars /\ Fairness

-----------------------------------------------------------------------------
(* Properties *)

\* operator- of cLocalTimeStamp
Difference(a, b) == IF a.epoch = b.epoch THEN a.time - b.time ELSE 0

\* The difference of two time stamps is the time that has passed between
\* them, or zero if the clock has jumped: never the size of a jump.
DifferenceIsElapsed ==
  Difference([epoch |-> epoch, time |-> Now], mark)
    \in {elapsed - mark.elapsed} \cup (IF epoch = mark.epoch THEN {} ELSE {0})

\* The kernel's wake-up message is for the first tick at which the first event
\* is due, after any sequence of jumps and changes of the rate.
WakesForFirstEvent ==
  aborted = {} =>
    /\ wake = Never <=> queue = NoEvents
    /\ wake # Never =>
         \A i \in DOMAIN queue : First(queue, i) =>
           /\ ScaledTimeAt(point, wake) >= queue[i]
           /\ wake > hw => ScaledTimeAt(point, wake - 1) < queue[i]

\* No error or assertion of the event queue ends the simulation, but one: when
\* an adjustment is handled in the very tick an event is due in, before the
\* wake-up message, and leaves the event behind the clock.
AbortsOnlyBehindSchedule ==
  aborted # {} =>
    \/ aborted = {"scaled time is negative"}
    \/ \E i \in DOMAIN queue : queue[i] < Now

\* The clock implements the alarm clock that services rely on: what is left of
\* an event's span is unchanged by jumps and changes of the rate.
Alarm == INSTANCE AlarmClock WITH
  Ids <- 0 .. (MaxEvents - 1),
  Steps <- LowerFactor .. UpperFactor,
  remaining <- [i \in DOMAIN queue |-> queue[i] - Now],
  used <- 0 .. (ids - 1)

ImplementsAlarmClock == Alarm!Spec

\* An event that is pending fires or is cancelled, unless the bound on the
\* ticks ends the behaviour first.
EveryEventFires ==
  \A i \in 0 .. (MaxEvents - 1) :
    i \in DOMAIN queue ~>
      i \notin DOMAIN queue \/ hw = MaxHw \/ aborted # {}

=============================================================================
