------------------------------ MODULE HwClock ------------------------------
(***************************************************************************)
(* How an event that is due at a tick of the hardware clock finds its real *)
(* time: cHwClock counts ticks of a clock that deviates from real time by  *)
(* what its time deviation generator says, and cannot invert the           *)
(* generator.  cScheduleClock therefore wakes up early, about half way,    *)
(* again and again, and steps by EdgePrecision once it is close.           *)
(* Real time is an integer in units well below EdgePrecision.              *)
(***************************************************************************)
EXTENDS Integers

CONSTANTS
  TickLen,         \* TickLenNom
  Phase,           \* T0
  EdgePrecision,
  Deviation,       \* Deviation[g][t]: the time deviation of generator g at t
  MaxReal,         \* bound on real time
  MaxSpan          \* bound on the ticks an event is ahead

\* Parameter checks of the generators: a deviation falls more slowly than real
\* time advances, and one that starts below zero does not reach before T0.
HwClockAssumption ==
  /\ TickLen \in Nat \ {0} /\ Phase \in 0 .. (TickLen - 1)
  /\ EdgePrecision \in 1 .. TickLen
  /\ MaxReal \in Nat /\ MaxSpan \in Nat
  /\ \A g \in DOMAIN Deviation :
       /\ Phase + Deviation[g][0] >= 0
       /\ \A t \in 0 .. (2 * MaxReal - 1) :
            Deviation[g][t + 1] - Deviation[g][t] >= -1

VARIABLES
  gen,       \* the generator of this clock
  now,       \* simTime
  requ,      \* tick of the pending event, or None
  wakeAt     \* real time pNextScheduledEvent is set for

vars == <<gen, now, requ, wakeAt>>

None == -1

\* GetHwTimeAtRealTime, in ticks
TickAt(t) == (t + Phase + Deviation[gen][t]) \div TickLen

TypeOK ==
  /\ gen \in DOMAIN Deviation
  /\ now \in Nat /\ wakeAt \in Nat
  /\ requ \in Nat \cup {None}

\* MUTANT of Before: one step, without looking where it leads.
HalfWay(t, tick) == t + ((tick - TickAt(t)) * TickLen) \div 2

\* GetRealTimeBeforeHwTime: half of the nominal distance, halved until it is
\* not beyond the tick asked for.
Before(t, tick) ==
  LET half == ((tick - TickAt(t)) * TickLen) \div 2
      halved[d \in 0 .. half] == IF TickAt(t + d) > tick THEN halved[d \div 2] ELSE d
  IN  t + halved[half]

\* UpdateSchedule: the wake-up is at least EdgePrecision ahead.
WakeUpAt(t, tick) ==
  IF t + EdgePrecision >= Before(t, tick) /\ TickAt(t) < tick
  THEN t + EdgePrecision ELSE Before(t, tick)

Init ==
  /\ gen \in DOMAIN Deviation
  /\ now = 0 /\ requ = None /\ wakeAt = 0

\* An event is scheduled for a tick that has not passed.
Schedule(tick) ==
  /\ requ = None
  /\ now < MaxReal
  /\ tick >= TickAt(now)
  /\ requ' = tick
  /\ wakeAt' = WakeUpAt(now, tick)
  /\ UNCHANGED <<gen, now>>

\* Another message reads the clock, which sets the wake-up message again.
Read(t) ==
  /\ now <= t /\ t <= MaxReal
  /\ IF requ = None THEN UNCHANGED wakeAt
                    ELSE t <= wakeAt /\ wakeAt' = WakeUpAt(t, requ)
  /\ now' = t
  /\ UNCHANGED <<gen, requ>>

\* The wake-up message: the event is executed when its tick has come.
WakeUp ==
  /\ requ # None
  /\ now' = wakeAt
  /\ IF TickAt(wakeAt) >= requ
     THEN requ' = None /\ wakeAt' = 0
     ELSE requ' = requ /\ wakeAt' = WakeUpAt(wakeAt, requ)
  /\ UNCHANGED gen

Next ==
  \/ \E n \in 0 .. MaxSpan : Schedule(TickAt(now) + n)
  \/ \E t \in now .. MaxReal : Read(t)
  \/ WakeUp

\* The kernel delivers the wake-up message.
Spec == Init /\ [][Next]_vars /\ WF_vars(WakeUp)

-----------------------------------------------------------------------------
(* Properties *)

\* The wake-up message never comes after the tick asked for: no event is
\* executed in a later tick than its own, whatever rates the clock takes, as long
\* as it passes at most one tick within EdgePrecision.
NeverBeyondTheTick == requ # None => TickAt(wakeAt) <= requ

\* An event waits for its tick to begin and comes soon after: half a nominal
\* tick after, or EdgePrecision if that is more.
SoonAfterTheTickBegins ==
  LET soon == IF 2 * EdgePrecision > TickLen THEN EdgePrecision ELSE (TickLen + 1) \div 2
  IN  requ # None /\ TickAt(now) < requ /\ wakeAt >= soon =>
        TickAt(wakeAt - soon) < requ

\* An event that is pending is executed: neither the halving nor the messages
\* that set the wake-up again keep it away for ever.
EventIsExecuted == requ # None ~> requ = None

=============================================================================
