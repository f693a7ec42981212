----------------------------- MODULE PortTimers -----------------------------
(***************************************************************************)
(* The timers of the services of a clock: the intervals of cBasicService   *)
(* (Sync, Announce, PDelay, state decision) and the timeouts of            *)
(* cPortService (announce receipt, qualification).  A service keeps its    *)
(* state and the event it has scheduled; the event queue of the local      *)
(* clock knows nothing of the state.  The handler of a timer calls other   *)
(* timers one after the other; here each call is a step.                   *)
(*                                                                         *)
(* The clock is taken to be the alarm clock of module AlarmClock.          *)
(***************************************************************************)
EXTENDS Integers

CONSTANTS
  Intervals,   \* the interval timers
  Timeouts,    \* the timeout timers
  Calls,       \* Calls[t]: the timers the handler of t starts and stops
  Spans,       \* Spans[t]: the values Interval or Timeout of t can have
  Ids,         \* identifiers of events (bound: one per timer and one to spare)
  MaxCalls     \* bound on the calls of one instant

\* The handler of an interval sends a frame or decides the port states; none
\* stops or starts its own timer.  SetInterval rejects zero.  The conjunct
\* before the last gives every scheduled event an identifier that no service
\* holds.
TimersAssumption ==
  /\ Intervals \cap Timeouts = {} /\ "None" \notin Intervals \cup Timeouts
  /\ \A t \in Intervals : t \notin Calls[t] /\ Spans[t] \subseteq Nat \ {0}
  /\ \A t \in Timeouts : Spans[t] \subseteq Nat
  /\ 0 \notin Ids
  /\ \A f \in [Intervals \cup Timeouts -> Ids \cup {0}] :
       \E i \in Ids : \A t \in Intervals \cup Timeouts : f[t] # i
  /\ MaxCalls \in Nat

VARIABLES
  state,     \* IntervalState, TimeoutState
  span,      \* Interval, Timeout
  held,      \* ScheduledInterval, ScheduledTimeout: the event a timer holds
  queue,     \* the events pending: whose each is and what is left of its span
  running,   \* the timer whose handler is being executed, or None
  calls      \* calls made since the clock went on (bounds the behaviour)

vars == <<state, span, held, queue, running, calls>>

None == "None"

NoEvent == 0   \* a default cScheduledClockEvent

Timers == Intervals \cup Timeouts

Pending == DOMAIN queue

TypeOK ==
  /\ state \in [Timers -> {"STOPPED", "ACTIVE"}]
  /\ span \in [Timers -> Nat]
  /\ held \in [Timers -> Ids \cup {NoEvent}]
  /\ Pending \subseteq Ids
  /\ queue \in [Pending -> [timer : Timers, left : Nat]]
  /\ running \in Timers \cup {None}
  /\ calls \in 0 .. MaxCalls

\* A new cScheduledClockEvent has an identifier no service holds.
Fresh == CHOOSE i \in Ids : \A t \in Timers : held[t] # i

With(q, t, n) ==
  [i \in DOMAIN q \cup {Fresh} |->
     IF i = Fresh THEN [timer |-> t, left |-> n] ELSE q[i]]

Without(i) == [j \in Pending \ {i} |-> queue[j]]

\* pClock->ScheduleRelativeEvent( n, this, .. ) for timer t, with the queue q
Schedule(q, t, n) ==
  /\ queue' = With(q, t, n)
  /\ held' = [held EXCEPT ![t] = Fresh]

Init ==
  /\ state = [t \in Timers |-> "STOPPED"]
  /\ span \in [Timers -> UNION {Spans[t] : t \in Timers}]
  /\ \A t \in Timers : span[t] \in Spans[t]
  /\ held = [t \in Timers |-> NoEvent]
  /\ queue = [i \in {} |-> 0]
  /\ running = None
  /\ calls = 0

\* A message or fault handler reaches all timers, a timer's handler some.
Reachable == IF running = None THEN Timers ELSE Calls[running]

\* The messages and events of one instant, and their calls, are finitely many.
Call == calls < MaxCalls /\ calls' = calls + 1

\* StartInterval: the first event comes at once.  StartTimeout.
Start(t) ==
  /\ Call
  /\ t \in Reachable
  /\ IF state[t] = "STOPPED"
     THEN Schedule(queue, t, IF t \in Intervals THEN 0 ELSE span[t])
     ELSE UNCHANGED <<held, queue>>
  /\ state' = [state EXCEPT ![t] = "ACTIVE"]
  /\ UNCHANGED <<span, running>>

\* MUTANT of Stop: the event is left in the queue.
StopOnly(t) ==
  /\ Call
  /\ t \in Reachable
  /\ state' = [state EXCEPT ![t] = "STOPPED"]
  /\ UNCHANGED <<span, held, queue, running>>

\* StopInterval, StopTimeout
Stop(t) ==
  /\ Call
  /\ t \in Reachable
  /\ IF state[t] = "ACTIVE" THEN queue' = Without(held[t]) ELSE UNCHANGED queue
  /\ state' = [state EXCEPT ![t] = "STOPPED"]
  /\ UNCHANGED <<span, held, running>>

\* An Announce message starts its timeout anew.  The error for a timeout of zero is
\* left out: only the announce receipt timeout is updated, and the profiles ask for
\* two intervals at least.
UpdateTimeout(t) ==
  /\ Call
  /\ running = None /\ t \in Timeouts
  /\ state[t] = "ACTIVE" /\ span[t] # 0
  /\ Schedule(Without(held[t]), t, span[t])
  /\ UNCHANGED <<state, span, running>>

\* SetInterval, SetTimeout: an event that is pending stays.
Set(t, n) ==
  /\ Call
  /\ t \in Reachable
  /\ span' = [span EXCEPT ![t] = n]
  /\ UNCHANGED <<state, held, queue, running>>

\* The clock executes the event.  HandleTimeoutEvent begins with StopTimeout,
\* which cancels an event that is no longer there.
Fire(i) ==
  /\ running = None
  /\ queue[i].left = 0
  /\ queue' = Without(i)
  /\ running' = queue[i].timer
  /\ state' = [state EXCEPT ![queue[i].timer] =
                 IF queue[i].timer \in Timeouts THEN "STOPPED" ELSE @]
  /\ UNCHANGED <<span, held, calls>>

\* MUTANT of Return: HandleClockEvent does not schedule the next interval.
ReturnOnly ==
  /\ running # None
  /\ running' = None
  /\ UNCHANGED <<state, span, held, queue, calls>>

\* HandleClockEvent goes on after the handler: an interval is scheduled again,
\* whatever its state is now.
Return ==
  /\ running # None
  /\ IF running \in Intervals
     THEN Schedule(queue, running, span[running])
     ELSE UNCHANGED <<held, queue>>
  /\ running' = None
  /\ UNCHANGED <<state, span, calls>>

\* No event is overdue.
Elapse ==
  /\ running = None
  /\ \A i \in Pending : queue[i].left > 0
  /\ queue' = [i \in Pending |-> [queue[i] EXCEPT !.left = @ - 1]]
  /\ calls' = 0
  /\ UNCHANGED <<state, span, held, running>>

Next ==
  \/ \E t \in Timers :
       \/ Start(t) \/ Stop(t) \/ UpdateTimeout(t)
       \/ \E n \in Spans[t] : Set(t, n)
  \/ \E i \in Pending : Fire(i)
  \/ Return
  \/ Elapse

\* Handlers end, events that are due are executed, and time goes on.
Fairness ==
  /\ WF_vars(Return)
  /\ WF_vars(\E i \in Pending : Fire(i))
  /\ WF_vars(Elapse)

Spec == Init /\ [][Next]_vars /\ Fairness

-----------------------------------------------------------------------------
(* Properties *)

\* Every event in the queue belongs to an active timer, and is the one event
\* its service could cancel: a service that has been stopped stays stopped,
\* and none runs at twice its rate.
EventsAreHeld ==
  \A i \in Pending :
    /\ state[queue[i].timer] = "ACTIVE"
    /\ held[queue[i].timer] = i

\* An active timer has its event, except while the handler of an interval is
\* being executed: no service dies although it is active.
ActiveHasEvent ==
  \A t \in Timers :
    /\ state[t] = "ACTIVE"
    /\ ~(running = t /\ t \in Intervals)
    => held[t] \in Pending /\ queue[held[t]].timer = t

\* The timers are what PtpStack takes them for: only an active timer expires,
\* and nothing but a call or a timeout's expiry makes it inactive.
Abstract == INSTANCE ServiceTimers WITH
  active <- {t \in Timers : state[t] = "ACTIVE"}

ImplementsServiceTimers == Abstract!Spec

\* The handler of an active interval is executed again and again.
ActiveRuns ==
  \A t \in Intervals :
    state[t] = "ACTIVE" ~> (running = t \/ state[t] = "STOPPED")

=============================================================================
