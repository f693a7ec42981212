-------------------------- MODULE ComponentsProofs --------------------------
(***************************************************************************)
(* Proofs about the components of Components, for all values of their      *)
(* constants.  What is proved of a component holds of each behaviour that  *)
(* it can have by itself (TimersRun, DelayerRun, ...), and so of Components*)
(* in which every component runs, or stands still, as its module says.     *)
(***************************************************************************)
EXTENDS Components, LocalClockProofs, FiniteSetTheorems, WellFoundedInduction, TLAPS

ClockRun == Init /\ [][Next]_vars
HwRun == Hw!Init /\ [][Hw!Next]_hwVars
TimersRun == Timers!Init /\ [][Timers!Next]_tmVars
ServoRun == Servo!Init /\ [][Servo!Next]_svVars
DelayerRun == Delayer!Init /\ [][Delayer!Next]_dqVars
FilterRun == Filter!Init /\ [][Filter!Next]_flVars
MatchingRun == Matching!Init /\ [][Matching!Next]_fuVars
SetupRun == Setup!Init /\ [][Setup!Next]_suVars
PathRun == Path!Init /\ [][Path!Next]_fpVars
TimeRun == Time!Init /\ [][Time!Next]_ptVars

\* In a behaviour of all components each one behaves as its module says.
LEMMA EachRuns ==
  CSpec => /\ ClockRun /\ HwRun /\ TimersRun /\ ServoRun /\ DelayerRun /\ FilterRun
           /\ MatchingRun /\ SetupRun /\ PathRun /\ TimeRun
<1>1. CInit => /\ Init /\ Hw!Init /\ Timers!Init /\ Servo!Init /\ Delayer!Init
               /\ Filter!Init /\ Matching!Init /\ Setup!Init /\ Path!Init /\ Time!Init
  BY DEF CInit
<1>2. [CNext]_allVars =>
        /\ [Next]_vars /\ [Hw!Next]_hwVars /\ [Timers!Next]_tmVars /\ [Servo!Next]_svVars
        /\ [Delayer!Next]_dqVars /\ [Filter!Next]_flVars /\ [Matching!Next]_fuVars
        /\ [Setup!Next]_suVars /\ [Path!Next]_fpVars /\ [Time!Next]_ptVars
  BY DEF CNext, allVars
<1> QED BY <1>1, <1>2, PTL DEF CSpec, ClockRun, HwRun, TimersRun, ServoRun, DelayerRun,
           FilterRun, MatchingRun, SetupRun, PathRun, TimeRun

-----------------------------------------------------------------------------
(* The timers of the services *)

\* While the handler of an interval is being executed its service is active
\* and holds an event that is over: HandleClockEvent may schedule another one.
RunningInterval ==
  tmRunning \in TmIntervals => tmState[tmRunning] = "ACTIVE"
    /\ tmHeld[tmRunning] \notin Timers!Pending

TimersInv == Timers!TypeOK /\ Timers!EventsAreHeld /\ Timers!ActiveHasEvent
  /\ RunningInterval

\* A new event has an identifier that no service holds.
LEMMA FreshId ==
  ASSUME Timers!TimersAssumption, Timers!TypeOK
  PROVE  Timers!Fresh \in TmIds /\ \A t \in Timers!Timers : tmHeld[t] # Timers!Fresh
<1>1. \E i \in TmIds : \A t \in Timers!Timers : tmHeld[t] # i
  BY DEF Timers!TimersAssumption, Timers!TypeOK, Timers!Timers, Timers!NoEvent
<1> QED BY <1>1 DEF Timers!Fresh

\* The initial states.
LEMMA TimersInit ==
  ASSUME Timers!TimersAssumption, Timers!Init
  PROVE  TimersInv
<1>1. Timers!TypeOK
  <2>1. \A t \in Timers!Timers : TmSpans[t] \subseteq Nat
    BY DEF Timers!TimersAssumption, Timers!Timers
  <2>2. tmSpan \in [Timers!Timers -> Nat]
    BY <2>1 DEF Timers!Init
  <2> QED BY <2>2 DEF Timers!Init, Timers!TypeOK, Timers!Pending, Timers!None,
        Timers!TimersAssumption
<1>2. Timers!EventsAreHeld /\ Timers!ActiveHasEvent
  BY DEF Timers!Init, Timers!EventsAreHeld, Timers!ActiveHasEvent, Timers!Pending
<1>3. RunningInterval
  BY DEF Timers!Init, RunningInterval, Timers!None, Timers!TimersAssumption
<1> QED BY <1>1, <1>2, <1>3 DEF TimersInv

\* What a queue looks like to which Schedule has added an event for t: the
\* other events are those of q.
LEMMA TimerScheduled ==
  ASSUME Timers!TimersAssumption, Timers!TypeOK, NEW t \in Timers!Timers, NEW n \in Nat,
           NEW q,
         DOMAIN q \subseteq Timers!Pending, \A i \in DOMAIN q : q[i] = tmQueue[i],
         Timers!Schedule(q, t, n)
  PROVE  /\ Timers!Fresh \in TmIds /\ \A u \in Timers!Timers : tmHeld[u] # Timers!Fresh
         /\ DOMAIN tmQueue' = DOMAIN q \cup {Timers!Fresh}
         /\ tmQueue'[Timers!Fresh] = [timer |-> t, left |-> n]
         /\ \A i \in DOMAIN q : i # Timers!Fresh => tmQueue'[i] = tmQueue[i]
         /\ tmHeld' \in [Timers!Timers -> TmIds \cup {Timers!NoEvent}]
         /\ tmHeld'[t] = Timers!Fresh
         /\ \A u \in Timers!Timers : u # t => tmHeld'[u] = tmHeld[u]
         /\ DOMAIN tmQueue' \subseteq TmIds
         /\ tmQueue' \in [DOMAIN tmQueue' -> [timer : Timers!Timers, left : Nat]]
<1>1. Timers!Fresh \in TmIds /\ \A u \in Timers!Timers : tmHeld[u] # Timers!Fresh
  BY FreshId
<1>2. /\ tmQueue' = [i \in DOMAIN q \cup {Timers!Fresh} |->
                     IF i = Timers!Fresh THEN [timer |-> t, left |-> n] ELSE q[i]]
      /\ tmHeld' = [tmHeld EXCEPT ![t] = Timers!Fresh]
  BY DEF Timers!Schedule, Timers!With
<1>3. /\ DOMAIN tmQueue' = DOMAIN q \cup {Timers!Fresh}
      /\ tmQueue'[Timers!Fresh] = [timer |-> t, left |-> n]
      /\ \A i \in DOMAIN q : i # Timers!Fresh => tmQueue'[i] = tmQueue[i]
  BY <1>2
<1>4. /\ tmHeld' \in [Timers!Timers -> TmIds \cup {Timers!NoEvent}]
      /\ tmHeld'[t] = Timers!Fresh
      /\ \A u \in Timers!Timers : u # t => tmHeld'[u] = tmHeld[u]
  BY <1>1, <1>2 DEF Timers!TypeOK
<1>5. DOMAIN tmQueue' \subseteq TmIds
  BY <1>1, <1>3 DEF Timers!TypeOK
<1>6. tmQueue' \in [DOMAIN tmQueue' -> [timer : Timers!Timers, left : Nat]]
  BY <1>2, <1>3 DEF Timers!TypeOK
<1> QED BY <1>1, <1>3, <1>4, <1>5, <1>6

\* A timer that is started: if it was stopped, no event of it is pending.
LEMMA TimerStartStep ==
  ASSUME Timers!TimersAssumption, TimersInv, NEW t \in Timers!Timers, Timers!Start(t)
  PROVE  TimersInv'
<1> DEFINE n == IF t \in TmIntervals THEN 0 ELSE tmSpan[t]
<1>1. n \in Nat
  BY DEF TimersInv, Timers!TypeOK
<1>2. t # tmRunning \/ t \notin TmIntervals
  BY DEF Timers!Start, Timers!Reachable, Timers!TimersAssumption, Timers!None
<1>3. CASE tmState[t] = "STOPPED"
  <2>1. Timers!Schedule(tmQueue, t, n)
    BY <1>3 DEF Timers!Start
  <2> HIDE DEF n
  <2>2. /\ Timers!Fresh \in TmIds /\ \A u \in Timers!Timers : tmHeld[u] # Timers!Fresh
        /\ DOMAIN tmQueue' = Timers!Pending \cup {Timers!Fresh}
        /\ tmQueue'[Timers!Fresh] = [timer |-> t, left |-> n]
        /\ \A i \in Timers!Pending : i # Timers!Fresh => tmQueue'[i] = tmQueue[i]
        /\ tmHeld' \in [Timers!Timers -> TmIds \cup {Timers!NoEvent}]
        /\ tmHeld'[t] = Timers!Fresh
        /\ \A u \in Timers!Timers : u # t => tmHeld'[u] = tmHeld[u]
        /\ DOMAIN tmQueue' \subseteq TmIds
        /\ tmQueue' \in [DOMAIN tmQueue' -> [timer : Timers!Timers, left : Nat]]
    BY <1>1, <2>1, TimerScheduled DEF TimersInv, Timers!Pending
  <2>3. /\ tmState' \in [Timers!Timers -> {"STOPPED", "ACTIVE"}] /\ tmState'[t] = "ACTIVE"
        /\ \A u \in Timers!Timers : u # t => tmState'[u] = tmState[u]
        /\ tmSpan' = tmSpan /\ tmRunning' = tmRunning /\ tmCalls' \in 0 .. TmMaxCalls
    BY DEF Timers!Start, Timers!Call, TimersInv, Timers!TypeOK, Timers!TimersAssumption
  <2>4. Timers!TypeOK'
    BY <2>2, <2>3 DEF TimersInv, Timers!TypeOK, Timers!Pending
  <2>5. \A i \in Timers!Pending : tmQueue[i].timer \in Timers!Timers
          /\ tmQueue[i].timer # t
    BY <1>3 DEF TimersInv, Timers!TypeOK, Timers!EventsAreHeld, Timers!Pending
  <2>6. Timers!EventsAreHeld'
    BY <2>2, <2>3, <2>5 DEF TimersInv, Timers!EventsAreHeld, Timers!Pending
  <2>7. Timers!ActiveHasEvent'
    BY <2>2, <2>3 DEF TimersInv, Timers!ActiveHasEvent, Timers!Pending
  <2>8. RunningInterval'
    BY <1>2, <2>2, <2>3 DEF TimersInv, RunningInterval, Timers!Pending, Timers!Timers
  <2> QED BY <2>4, <2>6, <2>7, <2>8 DEF TimersInv
<1>4. CASE tmState[t] # "STOPPED"
  <2>1. tmState[t] = "ACTIVE"
    BY <1>4 DEF TimersInv, Timers!TypeOK
  <2>2. tmState' = tmState /\ UNCHANGED <<tmHeld, tmQueue, tmSpan, tmRunning>>
          /\ tmCalls' \in 0 .. TmMaxCalls
    BY <1>4, <2>1 DEF Timers!Start, Timers!Call, TimersInv, Timers!TypeOK,
          Timers!TimersAssumption
  <2> QED BY <2>2 DEF TimersInv, Timers!TypeOK, Timers!EventsAreHeld,
        Timers!ActiveHasEvent, RunningInterval, Timers!Pending
<1> QED BY <1>3, <1>4

\* A timer that is stopped: the one event it can have is cancelled.
LEMMA TimerStopStep ==
  ASSUME Timers!TimersAssumption, TimersInv, NEW t \in Timers!Timers, Timers!Stop(t)
  PROVE  TimersInv'
<1>1. t # tmRunning \/ t \notin TmIntervals
  BY DEF Timers!Stop, Timers!Reachable, Timers!TimersAssumption, Timers!None
<1>2. /\ tmState' \in [Timers!Timers -> {"STOPPED", "ACTIVE"}] /\ tmState'[t] = "STOPPED"
      /\ \A u \in Timers!Timers : u # t => tmState'[u] = tmState[u]
      /\ UNCHANGED <<tmSpan, tmHeld, tmRunning>> /\ tmCalls' \in 0 .. TmMaxCalls
  BY DEF Timers!Stop, Timers!Call, TimersInv, Timers!TypeOK, Timers!TimersAssumption
<1>3. /\ DOMAIN tmQueue' \subseteq Timers!Pending
      /\ \A i \in DOMAIN tmQueue' : tmQueue'[i] = tmQueue[i]
      /\ \A i \in Timers!Pending : i # tmHeld[t] => i \in DOMAIN tmQueue'
      /\ \A i \in DOMAIN tmQueue' : tmQueue[i].timer # t
      /\ tmQueue' \in [DOMAIN tmQueue' -> [timer : Timers!Timers, left : Nat]]
  <2>1. CASE tmState[t] = "ACTIVE"
    <3>1. tmQueue' = [j \in Timers!Pending \ {tmHeld[t]} |-> tmQueue[j]]
      BY <2>1 DEF Timers!Stop, Timers!Without
    <3> QED BY <3>1 DEF TimersInv, Timers!TypeOK, Timers!EventsAreHeld, Timers!Pending
  <2>2. CASE tmState[t] # "ACTIVE"
    BY <2>2 DEF Timers!Stop, TimersInv, Timers!TypeOK, Timers!EventsAreHeld,
          Timers!Pending
  <2> QED BY <2>1, <2>2
<1>4. Timers!TypeOK'
  BY <1>2, <1>3 DEF TimersInv, Timers!TypeOK, Timers!Pending
<1>5. Timers!EventsAreHeld'
  <2>1. SUFFICES ASSUME NEW i \in DOMAIN tmQueue'
                 PROVE  tmState'[tmQueue'[i].timer] = "ACTIVE"
                          /\ tmHeld'[tmQueue'[i].timer] = i
    BY DEF Timers!EventsAreHeld, Timers!Pending
  <2>2. /\ i \in Timers!Pending /\ tmQueue'[i] = tmQueue[i]
        /\ tmQueue[i].timer \in Timers!Timers /\ tmQueue[i].timer # t
    BY <1>3 DEF TimersInv, Timers!TypeOK, Timers!Pending
  <2> QED BY <1>2, <2>2 DEF TimersInv, Timers!EventsAreHeld
<1>6. Timers!ActiveHasEvent'
  <2>1. SUFFICES ASSUME NEW u \in Timers!Timers, tmState'[u] = "ACTIVE",
                        ~(tmRunning' = u /\ u \in TmIntervals)
                 PROVE  tmHeld'[u] \in DOMAIN tmQueue' /\ tmQueue'[tmHeld'[u]].timer = u
    BY DEF Timers!ActiveHasEvent, Timers!Pending
  <2>2. u # t /\ tmState[u] = "ACTIVE" /\ tmHeld'[u] = tmHeld[u]
    BY <1>2, <2>1
  <2>3. tmHeld[u] \in Timers!Pending /\ tmQueue[tmHeld[u]].timer = u
    BY <1>2, <2>1, <2>2 DEF TimersInv, Timers!ActiveHasEvent
  <2>4. tmHeld[u] # tmHeld[t] \/ tmState[t] # "ACTIVE"
    BY <1>1, <2>2, <2>3 DEF TimersInv, Timers!ActiveHasEvent, RunningInterval
  <2>5. tmHeld[u] \in DOMAIN tmQueue'
    BY <1>3, <2>3, <2>4 DEF Timers!Stop, Timers!Pending
  <2> QED BY <1>3, <2>2, <2>3, <2>5
<1>7. RunningInterval'
  BY <1>1, <1>2, <1>3 DEF TimersInv, RunningInterval, Timers!Pending, Timers!Timers
<1> QED BY <1>4, <1>5, <1>6, <1>7 DEF TimersInv

\* An Announce timeout that is started anew: its event is replaced.
LEMMA TimerUpdateTimeoutStep ==
  ASSUME Timers!TimersAssumption, TimersInv, NEW t \in Timers!Timers,
           Timers!UpdateTimeout(t)
  PROVE  TimersInv'
<1> DEFINE q == Timers!Without(tmHeld[t])
<1>1. /\ DOMAIN q = Timers!Pending \ {tmHeld[t]} /\ \A i \in DOMAIN q : q[i] = tmQueue[i]
      /\ tmSpan[t] \in Nat /\ Timers!Schedule(q, t, tmSpan[t])
  BY DEF Timers!Without, Timers!UpdateTimeout, TimersInv, Timers!TypeOK
<1> HIDE DEF q
<1>2. /\ Timers!Fresh \in TmIds /\ \A u \in Timers!Timers : tmHeld[u] # Timers!Fresh
      /\ DOMAIN tmQueue' = (Timers!Pending \ {tmHeld[t]}) \cup {Timers!Fresh}
      /\ tmQueue'[Timers!Fresh] = [timer |-> t, left |-> tmSpan[t]]
      /\ \A i \in Timers!Pending \ {tmHeld[t]} : i # Timers!Fresh
           => tmQueue'[i] = tmQueue[i]
      /\ tmHeld' \in [Timers!Timers -> TmIds \cup {Timers!NoEvent}]
      /\ tmHeld'[t] = Timers!Fresh
      /\ \A u \in Timers!Timers : u # t => tmHeld'[u] = tmHeld[u]
      /\ DOMAIN tmQueue' \subseteq TmIds
      /\ tmQueue' \in [DOMAIN tmQueue' -> [timer : Timers!Timers, left : Nat]]
  <2>1. DOMAIN q \subseteq Timers!Pending /\ Timers!TypeOK
    BY <1>1 DEF TimersInv
  <2>2. /\ Timers!Fresh \in TmIds /\ \A u \in Timers!Timers : tmHeld[u] # Timers!Fresh
        /\ DOMAIN tmQueue' = DOMAIN q \cup {Timers!Fresh}
        /\ tmQueue'[Timers!Fresh] = [timer |-> t, left |-> tmSpan[t]]
        /\ \A i \in DOMAIN q : i # Timers!Fresh => tmQueue'[i] = tmQueue[i]
        /\ tmHeld' \in [Timers!Timers -> TmIds \cup {Timers!NoEvent}]
        /\ tmHeld'[t] = Timers!Fresh
        /\ \A u \in Timers!Timers : u # t => tmHeld'[u] = tmHeld[u]
        /\ DOMAIN tmQueue' \subseteq TmIds
        /\ tmQueue' \in [DOMAIN tmQueue' -> [timer : Timers!Timers, left : Nat]]
    BY <1>1, <2>1, TimerScheduled
  <2> QED BY <1>1, <2>2
<1>3. /\ UNCHANGED <<tmState, tmSpan, tmRunning>> /\ tmCalls' \in 0 .. TmMaxCalls
      /\ tmRunning = Timers!None /\ tmState[t] = "ACTIVE" /\ t \in TmTimeouts
  BY DEF Timers!UpdateTimeout, Timers!Call, TimersInv, Timers!TypeOK,
        Timers!TimersAssumption
<1>4. Timers!TypeOK'
  BY <1>2, <1>3 DEF TimersInv, Timers!TypeOK, Timers!Pending
<1>5. \A i \in Timers!Pending \ {tmHeld[t]} : tmQueue[i].timer \in Timers!Timers
        /\ tmQueue[i].timer # t
  BY DEF TimersInv, Timers!TypeOK, Timers!EventsAreHeld, Timers!Pending
<1>6. Timers!EventsAreHeld'
  BY <1>2, <1>3, <1>5 DEF TimersInv, Timers!EventsAreHeld, Timers!Pending
<1>7. Timers!ActiveHasEvent'
  <2>1. SUFFICES ASSUME NEW u \in Timers!Timers, tmState[u] = "ACTIVE"
                 PROVE  tmHeld'[u] \in DOMAIN tmQueue' /\ tmQueue'[tmHeld'[u]].timer = u
    BY <1>3 DEF Timers!ActiveHasEvent, Timers!Pending
  <2>2. CASE u = t
    BY <1>2, <2>2
  <2>3. CASE u # t
    <3>1. tmHeld[u] \in Timers!Pending /\ tmQueue[tmHeld[u]].timer = u
            /\ tmHeld[t] \in Timers!Pending
            /\ tmQueue[tmHeld[t]].timer = t
      BY <1>3, <2>1 DEF TimersInv, Timers!ActiveHasEvent, Timers!TimersAssumption,
            Timers!None, Timers!Timers
    <3>2. tmHeld[u] # tmHeld[t] /\ tmHeld[u] # Timers!Fresh
      BY <1>2, <2>3, <3>1
    <3> QED BY <1>2, <2>3, <3>1, <3>2
  <2> QED BY <2>2, <2>3
<1>8. RunningInterval'
  BY <1>3 DEF RunningInterval, Timers!TimersAssumption, Timers!None
<1> QED BY <1>4, <1>6, <1>7, <1>8 DEF TimersInv

\* An interval or timeout that is set.
LEMMA TimerSetStep ==
  ASSUME Timers!TimersAssumption, TimersInv, NEW t \in Timers!Timers,
           NEW n \in TmSpans[t], Timers!Set(t, n)
  PROVE  TimersInv'
<1>1. n \in Nat
  BY DEF Timers!TimersAssumption, Timers!Timers
<1>2. tmSpan' \in [Timers!Timers -> Nat] /\ tmCalls' \in 0 .. TmMaxCalls
  BY <1>1 DEF Timers!Set, Timers!Call, TimersInv, Timers!TypeOK, Timers!TimersAssumption
<1> QED BY <1>2 DEF Timers!Set, TimersInv, Timers!TypeOK, Timers!EventsAreHeld,
      Timers!ActiveHasEvent, RunningInterval,
                    Timers!Pending

\* An event that is executed: its timer was active, and it was its only event.
LEMMA TimerFireStep ==
  ASSUME Timers!TimersAssumption, TimersInv, NEW i \in Timers!Pending, Timers!Fire(i)
  PROVE  TimersInv'
<1> DEFINE t == tmQueue[i].timer
<1>1. t \in Timers!Timers /\ tmState[t] = "ACTIVE" /\ tmHeld[t] = i
  BY DEF TimersInv, Timers!TypeOK, Timers!EventsAreHeld, Timers!Pending
<1>2. /\ tmQueue' = [j \in Timers!Pending \ {i} |-> tmQueue[j]]
      /\ tmRunning = Timers!None /\ tmRunning' = t /\ UNCHANGED <<tmSpan, tmHeld,
           tmCalls>>
      /\ tmState' = [tmState EXCEPT ![t] = IF t \in TmTimeouts THEN "STOPPED" ELSE @]
  BY DEF Timers!Fire, Timers!Without
<1> HIDE DEF t
<1>3. /\ tmState' \in [Timers!Timers -> {"STOPPED", "ACTIVE"}]
      /\ \A u \in Timers!Timers : u # t => tmState'[u] = tmState[u]
      /\ t \in TmIntervals => tmState'[t] = "ACTIVE"
      /\ t \in TmTimeouts => tmState'[t] = "STOPPED"
  BY <1>1, <1>2 DEF TimersInv, Timers!TypeOK, Timers!TimersAssumption
<1>4. /\ DOMAIN tmQueue' = Timers!Pending \ {i}
           /\ \A j \in Timers!Pending \ {i} : tmQueue'[j] = tmQueue[j]
      /\ tmQueue' \in [DOMAIN tmQueue' -> [timer : Timers!Timers, left : Nat]]
  BY <1>2 DEF TimersInv, Timers!TypeOK, Timers!Pending
<1>5. Timers!TypeOK'
  BY <1>1, <1>2, <1>3, <1>4 DEF TimersInv, Timers!TypeOK, Timers!Pending
<1>6. Timers!EventsAreHeld'
  <2>1. \A j \in Timers!Pending \ {i} : tmQueue[j].timer \in Timers!Timers
          /\ tmQueue[j].timer # t
    BY <1>1 DEF TimersInv, Timers!TypeOK, Timers!EventsAreHeld, Timers!Pending
  <2> QED BY <1>2, <1>3, <1>4, <2>1 DEF TimersInv, Timers!EventsAreHeld, Timers!Pending
<1>7. Timers!ActiveHasEvent'
  <2>1. SUFFICES ASSUME NEW u \in Timers!Timers, tmState'[u] = "ACTIVE",
                        ~(tmRunning' = u /\ u \in TmIntervals)
                 PROVE  tmHeld[u] \in Timers!Pending \ {i} /\ tmQueue[tmHeld[u]].timer = u
    BY <1>2, <1>4 DEF Timers!ActiveHasEvent, Timers!Pending
  <2>2. u # t /\ tmState[u] = "ACTIVE"
    BY <1>1, <1>2, <1>3, <2>1 DEF Timers!Timers
  <2>3. tmHeld[u] \in Timers!Pending /\ tmQueue[tmHeld[u]].timer = u
    BY <1>2, <2>2 DEF TimersInv, Timers!ActiveHasEvent, Timers!TimersAssumption,
          Timers!None, Timers!Timers
  <2> QED BY <2>2, <2>3 DEF t
<1>8. RunningInterval'
  BY <1>1, <1>2, <1>3, <1>4 DEF RunningInterval, Timers!Pending
<1> QED BY <1>5, <1>6, <1>7, <1>8 DEF TimersInv

\* A handler that ends: an interval is scheduled again.
LEMMA TimerReturnStep ==
  ASSUME Timers!TimersAssumption, TimersInv, Timers!Return
  PROVE  TimersInv'
<1>1. tmRunning \in Timers!Timers /\ tmRunning' = Timers!None /\ UNCHANGED <<tmState,
        tmSpan, tmCalls>>
  BY DEF Timers!Return, TimersInv, Timers!TypeOK
<1>2. CASE tmRunning \in TmIntervals
  <2> DEFINE t == tmRunning
  <2>1. Timers!Schedule(tmQueue, t, tmSpan[t]) /\ tmSpan[t] \in Nat /\ t \in Timers!Timers
    BY <1>1, <1>2 DEF Timers!Return, TimersInv, Timers!TypeOK
  <2>2. tmState[t] = "ACTIVE" /\ tmHeld[t] \notin Timers!Pending
    BY <1>2 DEF TimersInv, RunningInterval
  <2> HIDE DEF t
  <2>3. /\ Timers!Fresh \in TmIds /\ \A u \in Timers!Timers : tmHeld[u] # Timers!Fresh
        /\ DOMAIN tmQueue' = Timers!Pending \cup {Timers!Fresh}
        /\ tmQueue'[Timers!Fresh] = [timer |-> t, left |-> tmSpan[t]]
        /\ \A i \in Timers!Pending : i # Timers!Fresh => tmQueue'[i] = tmQueue[i]
        /\ tmHeld' \in [Timers!Timers -> TmIds \cup {Timers!NoEvent}]
        /\ tmHeld'[t] = Timers!Fresh
        /\ \A u \in Timers!Timers : u # t => tmHeld'[u] = tmHeld[u]
        /\ DOMAIN tmQueue' \subseteq TmIds
        /\ tmQueue' \in [DOMAIN tmQueue' -> [timer : Timers!Timers, left : Nat]]
    BY <2>1, TimerScheduled DEF TimersInv, Timers!Pending
  <2>4. Timers!TypeOK'
    BY <1>1, <2>3 DEF TimersInv, Timers!TypeOK, Timers!Pending
  <2>5. \A i \in Timers!Pending : tmQueue[i].timer \in Timers!Timers
          /\ tmQueue[i].timer # t
    BY <2>2 DEF TimersInv, Timers!TypeOK, Timers!EventsAreHeld, Timers!Pending
  <2>6. Timers!EventsAreHeld'
    BY <1>1, <2>2, <2>3, <2>5 DEF TimersInv, Timers!EventsAreHeld, Timers!Pending
  <2>7. Timers!ActiveHasEvent'
    <3>1. SUFFICES ASSUME NEW u \in Timers!Timers, tmState[u] = "ACTIVE"
                   PROVE  tmHeld'[u] \in DOMAIN tmQueue' /\ tmQueue'[tmHeld'[u]].timer = u
      BY <1>1 DEF Timers!ActiveHasEvent, Timers!Pending
    <3>2. CASE u = t
      BY <2>3, <3>2
    <3>3. CASE u # t
      <4>1. tmHeld[u] \in Timers!Pending /\ tmQueue[tmHeld[u]].timer = u
              /\ tmHeld[u] # Timers!Fresh
        BY <2>3, <3>1, <3>3 DEF TimersInv, Timers!ActiveHasEvent, t
      <4> QED BY <2>3, <3>3, <4>1
    <3> QED BY <3>2, <3>3
  <2> QED BY <1>1, <2>4, <2>6, <2>7
          DEF TimersInv, RunningInterval, Timers!TimersAssumption, Timers!None
<1>3. CASE tmRunning \notin TmIntervals
  <2>1. UNCHANGED <<tmHeld, tmQueue>>
    BY <1>3 DEF Timers!Return
  <2> QED BY <1>1, <1>3, <2>1 DEF TimersInv, Timers!TypeOK, Timers!EventsAreHeld,
        Timers!ActiveHasEvent,
             RunningInterval, Timers!Pending, Timers!TimersAssumption, Timers!None
<1> QED BY <1>2, <1>3

\* Time that goes on.
LEMMA TimerElapseStep ==
  ASSUME Timers!TimersAssumption, TimersInv, Timers!Elapse
  PROVE  TimersInv'
<1>1. /\ DOMAIN tmQueue' = Timers!Pending /\ UNCHANGED <<tmState, tmSpan, tmHeld,
           tmRunning>>
      /\ tmCalls' \in 0 .. TmMaxCalls
  BY DEF Timers!Elapse, Timers!TimersAssumption
<1>2. \A i \in Timers!Pending : /\ tmQueue'[i] = [tmQueue[i] EXCEPT !.left = @ - 1]
                         /\ tmQueue[i] \in [timer : Timers!Timers, left : Nat]
                              /\ tmQueue[i].left > 0
  BY DEF Timers!Elapse, TimersInv, Timers!TypeOK, Timers!Pending
<1>3. \A i \in Timers!Pending : /\ tmQueue'[i] \in [timer : Timers!Timers, left : Nat]
                         /\ tmQueue'[i].timer = tmQueue[i].timer
  <2>1. SUFFICES ASSUME NEW i \in Timers!Pending
                 PROVE  /\ tmQueue'[i] \in [timer : Timers!Timers, left : Nat]
                        /\ tmQueue'[i].timer = tmQueue[i].timer
    OBVIOUS
  <2> DEFINE e == tmQueue[i]
  <2>2. e \in [timer : Timers!Timers, left : Nat] /\ e.left > 0
    BY <1>2
  <2>3. tmQueue'[i] = [e EXCEPT !.left = @ - 1]
    BY <1>2
  <2> HIDE DEF e
  <2>4. e.left \in Nat /\ e.left - 1 \in Nat
    BY <2>2
  <2>5. [e EXCEPT !.left = @ - 1] \in [timer : Timers!Timers, left : Nat]
          /\ [e EXCEPT !.left = @ - 1].timer = e.timer
    BY <2>2, <2>4
  <2> QED BY <2>3, <2>5 DEF e
<1>4. tmQueue' \in [Timers!Pending -> [timer : Timers!Timers, left : Nat]]
  BY <1>3 DEF Timers!Elapse
<1> QED BY <1>1, <1>3, <1>4 DEF TimersInv, Timers!TypeOK, Timers!EventsAreHeld,
      Timers!ActiveHasEvent,
           RunningInterval, Timers!Pending

-----------------------------------------------------------------------------

\* A service and the event queue agree in every state: the inductive invariant.
LEMMA TimersInvariance ==
  ASSUME Timers!TimersAssumption
  PROVE  TimersRun => []TimersInv
<1>1. Timers!Init => TimersInv
  BY TimersInit
<1>2. TimersInv /\ [Timers!Next]_tmVars => TimersInv'
  <2>1. SUFFICES ASSUME TimersInv, [Timers!Next]_tmVars PROVE TimersInv'
    OBVIOUS
  <2>2. CASE \E t \in Timers!Timers : Timers!Start(t)
    BY <2>1, <2>2, TimerStartStep
  <2>3. CASE \E t \in Timers!Timers : Timers!Stop(t)
    BY <2>1, <2>3, TimerStopStep
  <2>4. CASE \E t \in Timers!Timers : Timers!UpdateTimeout(t)
    BY <2>1, <2>4, TimerUpdateTimeoutStep
  <2>5. CASE \E t \in Timers!Timers : \E n \in TmSpans[t] : Timers!Set(t, n)
    BY <2>1, <2>5, TimerSetStep
  <2>6. CASE \E i \in Timers!Pending : Timers!Fire(i)
    BY <2>1, <2>6, TimerFireStep
  <2>7. CASE Timers!Return
    BY <2>1, <2>7, TimerReturnStep
  <2>8. CASE Timers!Elapse
    BY <2>1, <2>8, TimerElapseStep
  <2>9. CASE UNCHANGED tmVars
    BY <2>1, <2>9 DEF tmVars, TimersInv, Timers!TypeOK, Timers!EventsAreHeld,
          Timers!ActiveHasEvent,
       RunningInterval, Timers!Pending
  <2> QED BY <2>1, <2>2, <2>3, <2>4, <2>5, <2>6, <2>7, <2>8, <2>9 DEF Timers!Next
<1> QED BY <1>1, <1>2, PTL DEF TimersRun

\* No event of a stopped service is left in the queue of the clock, no service
\* has two, and none is active without one (cBasicService, cPortService).
LEMMA TimersMatchEvents ==
  ASSUME Timers!TimersAssumption
  PROVE  TimersRun => [](Timers!TypeOK /\ Timers!EventsAreHeld /\ Timers!ActiveHasEvent)
<1>1. TimersInv => Timers!TypeOK /\ Timers!EventsAreHeld /\ Timers!ActiveHasEvent
  BY DEF TimersInv
<1> QED BY <1>1, TimersInvariance, PTL

\* The services, with the events they schedule and cancel, implement timers
\* that are active or not, of which only an active one expires.
LEMMA TimersRefine ==
  ASSUME Timers!TimersAssumption
  PROVE  TimersRun => Timers!ImplementsServiceTimers
<1> DEFINE on == {t \in Timers!Timers : tmState[t] = "ACTIVE"}
<1>1. Timers!Init => Timers!Abstract!Init
  BY DEF Timers!Init, Timers!Abstract!Init, Timers!None, Timers!Abstract!None
<1>2. TimersInv /\ [Timers!Next]_tmVars => [Timers!Abstract!Next]_<<on, tmRunning>>
  <2>1. SUFFICES ASSUME TimersInv, [Timers!Next]_tmVars
          PROVE [Timers!Abstract!Next]_<<on, tmRunning>>
    OBVIOUS
  <2>2. Timers!Abstract!Timers = Timers!Timers /\ Timers!Abstract!None = Timers!None
          /\ Timers!Abstract!Reachable = Timers!Reachable
    BY DEF Timers!Abstract!Timers, Timers!Timers, Timers!Abstract!None, Timers!None,
          Timers!Abstract!Reachable, Timers!Reachable
  <2>3. ASSUME NEW t \in Timers!Timers, Timers!Start(t) PROVE Timers!Abstract!Start(t)
    BY <2>1, <2>2, <2>3 DEF Timers!Start, Timers!Abstract!Start, TimersInv, Timers!TypeOK
  <2>4. ASSUME NEW t \in Timers!Timers, Timers!Stop(t) PROVE Timers!Abstract!Stop(t)
    BY <2>1, <2>2, <2>4 DEF Timers!Stop, Timers!Abstract!Stop, TimersInv, Timers!TypeOK
  <2>5. ASSUME NEW i \in Timers!Pending, Timers!Fire(i), NEW t \in Timers!Timers,
                 t = tmQueue[i].timer
        PROVE  Timers!Abstract!Expire(t)
    <3>1. tmState[t] = "ACTIVE"
      BY <2>1, <2>5 DEF TimersInv, Timers!EventsAreHeld
    <3>2. /\ tmRunning = Timers!None /\ tmRunning' = t
          /\ tmState' = [tmState EXCEPT ![t] = IF t \in TmTimeouts THEN "STOPPED" ELSE @]
      BY <2>5 DEF Timers!Fire
    <3>3. on' = on \ (TmTimeouts \cap {t})
      BY <2>1, <3>1, <3>2 DEF TimersInv, Timers!TypeOK
    <3> QED BY <2>2, <2>5, <3>1, <3>2, <3>3 DEF Timers!Abstract!Expire
  <2>6. Timers!Return => Timers!Abstract!Return
    BY <2>2 DEF Timers!Return, Timers!Abstract!Return
  <2>7. ASSUME NEW t \in Timers!Timers,
                 Timers!UpdateTimeout(t) \/ \E n \in TmSpans[t] : Timers!Set(t, n)
        PROVE  UNCHANGED <<on, tmRunning>>
    BY <2>7 DEF Timers!UpdateTimeout, Timers!Set
  <2>8. Timers!Elapse \/ UNCHANGED tmVars => UNCHANGED <<on, tmRunning>>
    BY DEF Timers!Elapse, tmVars
  <2>9. \A i \in Timers!Pending : tmQueue[i].timer \in Timers!Timers
    BY <2>1 DEF TimersInv, Timers!TypeOK, Timers!Pending
  <2> HIDE DEF on
  <2>10. CASE \E t \in Timers!Timers : Timers!Start(t) \/ Timers!Stop(t)
    BY <2>2, <2>3, <2>4, <2>10 DEF Timers!Abstract!Next
  <2>11. CASE \E i \in Timers!Pending : Timers!Fire(i)
    <3>1. PICK i \in Timers!Pending : Timers!Fire(i)
      BY <2>11
    <3>2. PICK t \in Timers!Timers : t = tmQueue[i].timer
      BY <2>9, <3>1
    <3>3. Timers!Abstract!Expire(t)
      BY <2>5, <3>1, <3>2
    <3> QED BY <2>2, <3>3 DEF Timers!Abstract!Next
  <2>12. CASE Timers!Return
    BY <2>6, <2>12 DEF Timers!Abstract!Next
  <2>13. CASE \E t \in Timers!Timers :
                Timers!UpdateTimeout(t) \/ \E n \in TmSpans[t] : Timers!Set(t, n)
    BY <2>7, <2>13
  <2>14. CASE Timers!Elapse \/ UNCHANGED tmVars
    BY <2>8, <2>14
  <2> QED BY <2>1, <2>10, <2>11, <2>12, <2>13, <2>14 DEF Timers!Next
<1>3. Timers!Init /\ []TimersInv /\ [][Timers!Next]_tmVars
        => Timers!Abstract!Init /\ [][Timers!Abstract!Next]_<<on, tmRunning>>
  BY <1>1, <1>2, PTL
<1>4. Timers!ImplementsServiceTimers <=> Timers!Abstract!Init
        /\ [][Timers!Abstract!Next]_<<on, tmRunning>>
  BY DEF Timers!ImplementsServiceTimers, Timers!Abstract!Spec
<1> QED BY <1>3, <1>4, TimersInvariance, PTL DEF TimersRun

\* The services, with the events they schedule and cancel, implement the timers
\* that PtpStack is written with: only an active timer expires, and nothing but a
\* call or its expiry makes it inactive (cBasicService, cPortService).
THEOREM ServicesImplementTimers == CSpec => ImplementsServiceTimers
BY EachRuns, TimersRefine, ComponentsAssumption, PTL
   DEF ComponentsAssumption, ImplementsServiceTimers

\* No event of a stopped service is left in the queue of the clock, no service
\* has two, and none is active without one.
THEOREM ServicesMatchEvents == CSpec => [](Timers!EventsAreHeld /\ Timers!ActiveHasEvent)
BY EachRuns, TimersMatchEvents, ComponentsAssumption, PTL DEF ComponentsAssumption

-----------------------------------------------------------------------------
(* The delay queue *)

DelayerInv == Delayer!TypeOK /\ Delayer!ReminderRuns

\* The reminder is set again exactly if a frame waits.
LEMMA Reminded ==
  ASSUME Delayer!DelayQueueAssumption, NEW q \in Seq(DqFrames), NEW r \in Nat
           \cup {Delayer!None},
         r # Delayer!None => q # <<>>, Delayer!ScheduleReminder(q, r)
  PROVE  dqReminder' \in Nat \cup {Delayer!None}
           /\ (dqReminder' # Delayer!None <=> q # <<>>)
<1>1. CASE q # <<>> /\ r = Delayer!None
  <2>1. dqReminder' \in DqDelays
    BY <1>1 DEF Delayer!ScheduleReminder
  <2>2. dqReminder' \in Nat
    BY <2>1 DEF Delayer!DelayQueueAssumption
  <2> QED BY <1>1, <2>2 DEF Delayer!None
<1>2. CASE ~(q # <<>> /\ r = Delayer!None)
  <2>1. dqReminder' = r
    BY <1>2 DEF Delayer!ScheduleReminder
  <2> QED BY <1>2, <2>1
<1> QED BY <1>1, <1>2

\* The reminder fires: the first frame leaves, the others keep their order.
LEMMA HandleReminderStep ==
  ASSUME Delayer!DelayQueueAssumption, DelayerInv, Delayer!HandleReminder
  PROVE  DelayerInv' /\ Delayer!Path!Leave
<1>1. dqQueue # <<>> /\ dqQueue \in Seq(DqFrames) /\ dqSent \in Seq(DqFrames)
  BY DEF Delayer!HandleReminder, DelayerInv, Delayer!TypeOK, Delayer!ReminderRuns,
        Delayer!None
<1>2. /\ Head(dqQueue) \in DqFrames /\ Tail(dqQueue) \in Seq(DqFrames)
      /\ Len(Tail(dqQueue)) <= Len(dqQueue)
  BY <1>1
<1>3. /\ dqQueue' = Tail(dqQueue) /\ dqSent' = Append(dqSent, Head(dqQueue))
      /\ dqReceived' = dqReceived /\ Delayer!ScheduleReminder(dqQueue', Delayer!None)
  BY DEF Delayer!HandleReminder
<1>4. dqReminder' \in Nat \cup {Delayer!None}
        /\ (dqReminder' # Delayer!None <=> dqQueue' # <<>>)
  <2>1. dqQueue' \in Seq(DqFrames)
    BY <1>2, <1>3
  <2> QED BY <1>3, <2>1, Reminded
<1>5. dqSent' \in Seq(DqFrames)
  BY <1>1, <1>2, <1>3
<1>6. Len(dqQueue') <= DqMaxSize
  BY <1>1, <1>2, <1>3 DEF DelayerInv, Delayer!TypeOK, Delayer!DelayQueueAssumption
<1>7. DelayerInv'
  BY <1>2, <1>3, <1>4, <1>5, <1>6 DEF DelayerInv, Delayer!TypeOK, Delayer!ReminderRuns
<1>8. Delayer!Path!Leave
  BY <1>1, <1>3 DEF Delayer!Path!Leave
<1> QED BY <1>7, <1>8

\* A frame that arrives is put at the end, or deleted if the queue is full.
LEMMA ReceiveStep ==
  ASSUME Delayer!DelayQueueAssumption, DelayerInv, NEW f \in DqFrames, Delayer!Receive(f)
  PROVE  DelayerInv' /\ (Delayer!Path!Enter(f) \/ UNCHANGED <<dqQueue, dqSent>>)
<1>1. /\ dqReceived' \in 0 .. DqMaxFrames /\ dqSent' = dqSent
      /\ dqQueue \in Seq(DqFrames) /\ dqReminder \in Nat \cup {Delayer!None}
  BY DEF Delayer!Receive, DelayerInv, Delayer!TypeOK, Delayer!DelayQueueAssumption
<1>2. CASE Len(dqQueue) < DqMaxSize
  <2>1. dqQueue' = Append(dqQueue, f) /\ Delayer!ScheduleReminder(dqQueue', dqReminder)
    BY <1>2 DEF Delayer!Receive
  <2>2. /\ dqQueue' \in Seq(DqFrames) /\ Len(dqQueue') <= DqMaxSize
        /\ dqQueue' # <<>>
    BY <1>1, <1>2, <2>1 DEF Delayer!DelayQueueAssumption
  <2>3. dqReminder' \in Nat \cup {Delayer!None}
          /\ (dqReminder' # Delayer!None <=> dqQueue' # <<>>)
    BY <1>1, <2>1, <2>2, Reminded
  <2>4. DelayerInv'
    BY <1>1, <2>2, <2>3 DEF DelayerInv, Delayer!TypeOK, Delayer!ReminderRuns
  <2> QED BY <1>1, <2>1, <2>4 DEF Delayer!Path!Enter
<1>3. CASE ~(Len(dqQueue) < DqMaxSize)
  <2>1. UNCHANGED <<dqQueue, dqReminder>>
    BY <1>3 DEF Delayer!Receive
  <2> QED BY <1>1, <2>1 DEF DelayerInv, Delayer!TypeOK, Delayer!ReminderRuns
<1> QED BY <1>2, <1>3

\* All steps.
LEMMA DelayerNext ==
  ASSUME Delayer!DelayQueueAssumption, DelayerInv, [Delayer!Next]_dqVars
  PROVE  DelayerInv' /\ [Delayer!Path!Next]_<<dqQueue, dqSent>>
<1>1. CASE Delayer!HandleReminder
  BY <1>1, HandleReminderStep DEF Delayer!Path!Next
<1>2. CASE Delayer!Elapse
  BY <1>2 DEF Delayer!Elapse, DelayerInv, Delayer!TypeOK, Delayer!ReminderRuns,
        Delayer!None, Delayer!DelayQueueAssumption
<1>3. CASE \E f \in DqFrames : Delayer!Receive(f)
  BY <1>3, ReceiveStep DEF Delayer!Path!Next
<1>4. CASE UNCHANGED dqVars
  BY <1>4 DEF dqVars, DelayerInv, Delayer!TypeOK, Delayer!ReminderRuns
<1> QED BY <1>1, <1>2, <1>3, <1>4 DEF Delayer!Next

\* The reminder message is on its way exactly while frames wait: no frame is
\* forgotten and the reminder never finds an empty queue (ScheduleReminder).
LEMMA ReminderInvariance ==
  ASSUME Delayer!DelayQueueAssumption
  PROVE  DelayerRun => [](Delayer!TypeOK /\ Delayer!ReminderRuns)
<1>1. Delayer!Init => DelayerInv
  BY DEF Delayer!Init, DelayerInv, Delayer!TypeOK, Delayer!ReminderRuns, Delayer!None,
        Delayer!DelayQueueAssumption
<1>2. DelayerInv /\ [Delayer!Next]_dqVars => DelayerInv'
  BY DelayerNext
<1>3. DelayerInv => Delayer!TypeOK /\ Delayer!ReminderRuns
  BY DEF DelayerInv
<1> QED BY <1>1, <1>2, <1>3, PTL DEF DelayerRun

\* Whatever delays are drawn, the frames leave in the order in which they came:
\* every step of the queue is a step of the path, or none.
LEMMA KeepsOrder ==
  ASSUME Delayer!DelayQueueAssumption
  PROVE  DelayerRun => Delayer!Path!Init /\ [][Delayer!Path!Next]_<<dqQueue, dqSent>>
<1>1. Delayer!Init => DelayerInv /\ Delayer!Path!Init
  BY DEF Delayer!Init, DelayerInv, Delayer!TypeOK, Delayer!ReminderRuns, Delayer!None,
        Delayer!DelayQueueAssumption, Delayer!Path!Init
<1>2. DelayerInv /\ [Delayer!Next]_dqVars => DelayerInv'
        /\ [Delayer!Path!Next]_<<dqQueue, dqSent>>
  BY DelayerNext
<1> QED BY <1>1, <1>2, PTL DEF DelayerRun

\* The reminder message is on its way exactly while frames wait, and whatever
\* delays are drawn the frames leave in the order in which they came.
THEOREM DelayKeepsOrder ==
  CSpec => [](Delayer!ReminderRuns)
             /\ Delayer!Path!Init /\ [][Delayer!Path!Next]_<<dqQueue, dqSent>>
BY EachRuns, ReminderInvariance, KeepsOrder, ComponentsAssumption, PTL
   DEF ComponentsAssumption

-----------------------------------------------------------------------------
(* The configuration *)

\* What the intervals and timeouts of the services may be.
ServiceIntervals == {Setup!Interval(log) : log \in Int} \cup {0}
ServiceTimeouts == {n * interval : n \in Int, interval \in ServiceIntervals}

PortData == [log : [Setup!Logged -> Int], announceReceiptTimeout : Int,
             delayMechanism : Setup!DelayMechanisms]
ServiceData == [interval : [Setup!Logged -> ServiceIntervals], timeout : ServiceTimeouts]

\* The services of a port go at the intervals of its data set.
Follows(sv, ds) ==
  /\ \A l \in Setup!Logged \ {"logSyncInterval"} : sv.interval[l] = Setup!Interval(ds.log[l])
  /\ sv.timeout = ds.announceReceiptTimeout * Setup!Interval(ds.log["logAnnounceInterval"])

\* Once the stage of the data sets is over every port follows its own.
SetupInv ==
  /\ suParam \in SuParams
  /\ suPortDS \in [SuPorts -> PortData] /\ suService \in [SuPorts -> ServiceData]
  /\ suStage \in {"FinishInit", "running"} =>
       \A p \in SuPorts : Follows(suService[p], suPortDS[p])

-----------------------------------------------------------------------------

\* A port whose services have just been configured follows its data set.
LEMMA Configured ==
  ASSUME NEW ds \in PortData
  PROVE  Setup!ConfiguredService(ds) \in ServiceData
           /\ Follows(Setup!ConfiguredService(ds), ds)
<1>1. \A l \in Setup!Logged : ds.log[l] \in Int
  BY DEF PortData
<1>2. \A l \in Setup!Logged : Setup!Interval(ds.log[l]) \in ServiceIntervals
  BY <1>1 DEF ServiceIntervals
<1>3. ds.announceReceiptTimeout \in Int /\ "logAnnounceInterval" \in Setup!Logged
  BY DEF PortData, Setup!Logged
<1>4. ds.announceReceiptTimeout * Setup!Interval(ds.log["logAnnounceInterval"]) \in ServiceTimeouts
  BY <1>2, <1>3 DEF ServiceTimeouts
<1> QED BY <1>2, <1>4 DEF Setup!ConfiguredService, Follows, ServiceData

\* Nothing is configured at first.
LEMMA SetupInit == Setup!Init => SetupInv
<1> SUFFICES ASSUME Setup!Init PROVE SetupInv
  OBVIOUS
<1>1. Setup!NewPortDS \in PortData
  BY DEF Setup!NewPortDS, PortData, Setup!DelayMechanisms
<1>2. 0 \in ServiceIntervals
  BY DEF ServiceIntervals
<1>3. 0 \in ServiceTimeouts
  <2>1. 0 * 0 \in ServiceTimeouts
    BY <1>2 DEF ServiceTimeouts
  <2> QED BY <2>1
<1>4. Setup!NewService \in ServiceData
  BY <1>2, <1>3 DEF Setup!NewService, ServiceData
<1> QED BY <1>1, <1>4 DEF Setup!Init, SetupInv

\* Whatever the clock does, its services keep to its data sets.
LEMMA SetupNext == Setup!SetupAssumption /\ SetupInv /\ [Setup!Next]_suVars => SetupInv'
<1> SUFFICES ASSUME Setup!SetupAssumption, SetupInv, [Setup!Next]_suVars PROVE SetupInv'
  OBVIOUS
<1>1. /\ suParam \in SuParams /\ suPortDS \in [SuPorts -> PortData]
           /\ suService \in [SuPorts -> ServiceData]
      /\ suStage \in {"FinishInit", "running"} =>
           \A p \in SuPorts : Follows(suService[p], suPortDS[p])
  BY DEF SetupInv
<1>2. CASE Setup!ParseResourceParameters
  BY <1>1, <1>2 DEF Setup!ParseResourceParameters, Setup!Stage, SetupInv
<1>3. CASE Setup!ParseParameters
  BY <1>1, <1>3 DEF Setup!ParseParameters, Setup!Stage, SetupInv
<1>4. CASE Setup!ParseParametersFails
  BY <1>1, <1>4 DEF Setup!ParseParametersFails, Setup!Stage, SetupInv
<1>5. CASE Setup!InitInternalState
  <2>1. suParam' = suParam
    BY <1>5 DEF Setup!InitInternalState
  <2>2. CASE suParam.delayMechanism \in Setup!DelayMechanisms
    <3>1. /\ suPortDS' = [p \in SuPorts |-> Setup!ConfiguredPortDS]
          /\ suService' = [p \in SuPorts |-> Setup!ConfiguredService(suPortDS'[p])]
      BY <1>5, <2>2 DEF Setup!InitInternalState
    <3>2. Setup!ConfiguredPortDS \in PortData
      BY <1>1, <2>2 DEF Setup!ConfiguredPortDS, PortData, Setup!SetupAssumption
    <3>3. /\ Setup!ConfiguredService(Setup!ConfiguredPortDS) \in ServiceData
          /\ Follows(Setup!ConfiguredService(Setup!ConfiguredPortDS),
               Setup!ConfiguredPortDS)
      BY <3>2, Configured
    <3>4. \A p \in SuPorts : /\ suPortDS'[p] = Setup!ConfiguredPortDS
                           /\ suService'[p] = Setup!ConfiguredService(Setup!ConfiguredPortDS)
      BY <3>1
    <3>5. suPortDS' \in [SuPorts -> PortData] /\ suService' \in [SuPorts -> ServiceData]
      BY <3>1, <3>2, <3>3, <3>4
    <3>6. \A p \in SuPorts : Follows(suService'[p], suPortDS'[p])
      BY <3>3, <3>4
    <3> QED BY <1>1, <2>1, <3>5, <3>6 DEF SetupInv
  <2>3. CASE suParam.delayMechanism \notin Setup!DelayMechanisms
    <3>1. suStage' = "error" /\ suPortDS' = suPortDS /\ suService' = suService
      BY <1>5, <2>3 DEF Setup!InitInternalState, Setup!Stage
    <3> QED BY <1>1, <2>1, <3>1 DEF SetupInv
  <2> QED BY <2>2, <2>3
<1>6. CASE Setup!FinishInit
  BY <1>1, <1>6 DEF Setup!FinishInit, Setup!Stage, SetupInv
<1>7. ASSUME NEW p \in SuPorts, NEW r \in Setup!Roles, Setup!ChangeRole(p, r)
               PROVE SetupInv'
  BY <1>1, <1>7 DEF Setup!ChangeRole, SetupInv
<1>8. ASSUME NEW p \in SuPorts, NEW log \in SuLogs, Setup!HandleSync(p, log)
               PROVE SetupInv'
  <2>1. /\ suParam' = suParam /\ suStage' = suStage /\ suService' = suService
             /\ suStage = "running"
        /\ suPortDS' = [suPortDS EXCEPT ![p].log["logSyncInterval"] = log]
    BY <1>8 DEF Setup!HandleSync
  <2>2. suPortDS[p] \in PortData /\ log \in Int /\ "logSyncInterval" \in Setup!Logged
    BY <1>1 DEF Setup!SetupAssumption, Setup!Int8, Setup!Logged
  <2> DEFINE ds == [suPortDS[p] EXCEPT !.log["logSyncInterval"] = log]
  <2>3. /\ ds \in PortData
             /\ ds.announceReceiptTimeout = suPortDS[p].announceReceiptTimeout
        /\ \A l \in Setup!Logged \ {"logSyncInterval"} : ds.log[l] = suPortDS[p].log[l]
    BY <2>2 DEF PortData
  <2>4. suPortDS' = [suPortDS EXCEPT ![p] = ds]
    BY <2>1
  <2> HIDE DEF ds
  <2>5. Follows(suService[p], ds)
    <3>1. Follows(suService[p], suPortDS[p])
      BY <1>1, <2>1
    <3>2. "logAnnounceInterval" \in Setup!Logged \ {"logSyncInterval"}
      BY DEF Setup!Logged
    <3> QED BY <2>3, <3>1, <3>2 DEF Follows
  <2> QED BY <1>1, <2>1, <2>3, <2>4, <2>5 DEF SetupInv
<1>9. ASSUME NEW p \in SuPorts, NEW log \in SuLogs, Setup!HandleDelayResp(p, log)
               PROVE SetupInv'
  <2>1. /\ suParam' = suParam /\ suStage' = suStage /\ suStage = "running"
        /\ suPortDS' = [suPortDS EXCEPT ![p].log["logMinDelayReqInterval"] = log]
        /\ suService' = [suService EXCEPT ![p].interval["logMinDelayReqInterval"] = Setup!Interval(log)]
    BY <1>9 DEF Setup!HandleDelayResp
  <2>2. /\ suPortDS[p] \in PortData /\ suService[p] \in ServiceData
        /\ log \in Int /\ "logMinDelayReqInterval" \in Setup!Logged
    BY <1>1 DEF Setup!SetupAssumption, Setup!Int8, Setup!Logged
  <2>3. Setup!Interval(log) \in ServiceIntervals
    BY <2>2 DEF ServiceIntervals
  <2> DEFINE ds == [suPortDS[p] EXCEPT !.log["logMinDelayReqInterval"] = log]
             sv == [suService[p] EXCEPT !.interval["logMinDelayReqInterval"] = Setup!Interval(log)]
  <2>4. /\ ds \in PortData
             /\ ds.announceReceiptTimeout = suPortDS[p].announceReceiptTimeout
        /\ ds.log["logMinDelayReqInterval"] = log
        /\ \A l \in Setup!Logged \ {"logMinDelayReqInterval"} : ds.log[l] = suPortDS[p].log[l]
    BY <2>2 DEF PortData
  <2>5. /\ sv \in ServiceData /\ sv.timeout = suService[p].timeout
        /\ sv.interval["logMinDelayReqInterval"] = Setup!Interval(log)
        /\ \A l \in Setup!Logged \ {"logMinDelayReqInterval"} :
             sv.interval[l] = suService[p].interval[l]
    BY <2>2, <2>3 DEF ServiceData
  <2>6. suPortDS' = [suPortDS EXCEPT ![p] = ds]
          /\ suService' = [suService EXCEPT ![p] = sv]
    BY <2>1
  <2> HIDE DEF ds, sv
  <2>7. Follows(sv, ds)
    <3>1. Follows(suService[p], suPortDS[p])
      BY <1>1, <2>1
    <3>2. "logAnnounceInterval" \in Setup!Logged \ {"logMinDelayReqInterval"}
      BY DEF Setup!Logged
    <3> QED BY <2>4, <2>5, <3>1, <3>2 DEF Follows
  <2> QED BY <1>1, <2>1, <2>4, <2>5, <2>6, <2>7 DEF SetupInv
<1>10. CASE UNCHANGED suVars
  BY <1>1, <1>10 DEF suVars, SetupInv
<1> QED BY <1>2, <1>3, <1>4, <1>5, <1>6, <1>7, <1>8, <1>9, <1>10 DEF Setup!Next

\* The services of every port keep to its data set in every reachable state.
LEMMA SetupInvariance == ASSUME Setup!SetupAssumption PROVE SetupRun => []SetupInv
<1> QED BY SetupInit, SetupNext, PTL DEF SetupRun

-----------------------------------------------------------------------------

\* The initial values that a profile accepts are within its ranges.
LEMMA InitWithinRange == Setup!CheckParametersInit => Setup!CheckParametersRange
<1>1. ASSUME Setup!DefaultE2EInit PROVE Setup!DefaultE2ERange
  BY <1>1 DEF Setup!DefaultE2EInit, Setup!DefaultE2ERange, Setup!DefaultInit,
        Setup!DefaultRange, Setup!EachPort
<1>2. ASSUME Setup!DefaultP2PInit PROVE Setup!DefaultP2PRange
  BY <1>2 DEF Setup!DefaultP2PInit, Setup!DefaultP2PRange, Setup!DefaultInit,
        Setup!DefaultRange, Setup!EachPort
<1> QED BY <1>1, <1>2 DEF Setup!CheckParametersInit, Setup!CheckParametersRange

\* While the clock runs its services go at the intervals its data sets state, and
\* a clock whose configuration a profile accepts starts within the profile's
\* ranges (InitInternalState, HandleDelayResp, CheckParametersInit).
LEMMA SetupTakesEffect == ASSUME Setup!SetupAssumption PROVE SetupRun
  => Setup!ConfigurationTakesEffect
<1>1. SetupInv => Setup!ServicesFollowDataSets
  BY DEF SetupInv, Follows, Setup!ServicesFollowDataSets
<1>2. SetupInv' => Setup!ServicesFollowDataSets'
  BY <1>1, PTL
<1>3. ASSUME [Setup!Next]_suVars, suStage = "FinishInit", suStage' = "running"
      PROVE  Setup!CheckParametersRange'
  <2>1. Setup!FinishInit
    BY <1>3 DEF Setup!Next, suVars, Setup!ParseResourceParameters, Setup!ParseParameters,
       Setup!ParseParametersFails, Setup!InitInternalState, Setup!ChangeRole,
         Setup!HandleSync, Setup!HandleDelayResp, Setup!Stage
  <2>2. Setup!CheckParametersInit
    BY <1>3, <2>1 DEF Setup!FinishInit, Setup!Stage
  <2>3. Setup!CheckParametersRange
    BY <2>2, InitWithinRange
  <2>4. suParam' = suParam /\ suPortDS' = suPortDS
    BY <2>1 DEF Setup!FinishInit
  <2> QED BY <2>3, <2>4 DEF Setup!CheckParametersRange, Setup!DefaultE2ERange,
        Setup!DefaultP2PRange,
                            Setup!DefaultRange, Setup!EachPort
<1>4. SetupInv' /\ [Setup!Next]_suVars =>
        [/\ Setup!ServicesFollowDataSets'
         /\ suStage = "FinishInit" /\ suStage' = "running"
              => Setup!CheckParametersRange']_suVars
  BY <1>2, <1>3
<1> QED BY <1>4, SetupInvariance, PTL
       DEF SetupRun, Setup!ConfigurationTakesEffect, Setup!vars, suVars

\* The configuration that the clock was given is in effect while it runs, and a
\* clock that a profile lets start is within the ranges of the profile.
THEOREM ConfigurationIsInEffect == CSpec => ConfigurationTakesEffect
BY EachRuns, SetupTakesEffect, ComponentsAssumption, PTL
   DEF ComponentsAssumption, ConfigurationTakesEffect

-----------------------------------------------------------------------------
(* The clock servo *)

\* A decision to jump is left behind only in the states whose next sample makes
\* a decision of its own.
ServoInv ==
  /\ Servo!TypeOK
  /\ svFreqEstCnt <= Servo!MaxFreqEstCnt
  /\ svDec.enableJump => svState \in {"JUMP", "SCALE"}

Decisions == [enableJump : BOOLEAN, delta : Int, enableScale : BOOLEAN,
              scaleFactor : SvLowerBound .. SvUpperBound]

\* The count of the samples of a frequency estimation fits its bits.
LEMMA EstimationCount ==
  ASSUME Servo!ServoAssumption
  PROVE  /\ Servo!MaxFreqEstCnt \in Nat \ {0}
         /\ \A n \in Nat : n <= Servo!MaxFreqEstCnt => n \in 0 .. 2 ^ SvFrequEstShift
<1> DEFINE bits == 2 ^ SvFrequEstShift
           samples == SvMaxFrequEstInterval \div SvSyncInterval
<1>1. bits \in Nat \ {0}
  BY DEF Servo!ServoAssumption
<1>2. samples \in Nat
  BY DivNat DEF Servo!ServoAssumption
<1>3. Servo!MaxFreqEstCnt = Servo!Greatest(1, Servo!Least(bits - 1, samples))
  BY DEF Servo!MaxFreqEstCnt
<1> HIDE DEF bits, samples
<1> QED BY <1>1, <1>2, <1>3 DEF Servo!Greatest, Servo!Least, bits

\* A quotient of integers that is converted is an integer.
LEMMA TruncatedInt ==
  ASSUME NEW a \in Int, NEW b \in Int, b # 0
  PROVE  Servo!Truncated(a, b) \in Int
<1>1. Servo!Magnitude(a) \in Nat /\ Servo!Magnitude(b) \in Nat \ {0}
  BY DEF Servo!Magnitude
<1>2. Servo!Magnitude(a) \div Servo!Magnitude(b) \in Nat
  BY <1>1, DivNat
<1> HIDE DEF Servo!Magnitude
<1> QED BY <1>2 DEF Servo!Truncated

\* Whatever the servo computes, the rate stays within its bounds.
LEMMA BoundedRange ==
  ASSUME Servo!ServoAssumption, NEW s \in Int
  PROVE  Servo!Bounded(s) \in SvLowerBound .. SvUpperBound
BY DEF Servo!ServoAssumption, Servo!Bounded, Servo!Greatest, Servo!Least

LEMMA ScaleDecision ==
  ASSUME NEW s \in SvLowerBound .. SvUpperBound
  PROVE  Servo!Scale(s) \in Decisions /\ ~Servo!Scale(s).enableJump
BY DEF Servo!Scale, Decisions

LEMMA NoDecisionIsOne ==
  ASSUME Servo!ServoAssumption
  PROVE  Servo!NoDecision \in Decisions /\ ~Servo!NoDecision.enableJump
BY DEF Servo!NoDecision, Decisions, Servo!ServoAssumption

\* What the cases of a sample leave of the state, whatever the offset.
Sampled ==
  /\ svState' \in Servo!ServoStates /\ svIntegral' \in Int
  /\ svFreqEstCnt' \in Nat /\ svFreqEstCnt' <= Servo!MaxFreqEstCnt
  /\ svDec' \in Decisions
  /\ svDec'.enableJump => svState' \in {"JUMP", "SCALE"} /\ svState = "JUMP"

LEMMA SampledBeginning ==
  ASSUME Servo!ServoAssumption, ServoInv,
         \/ svState = "DISABLED"
              /\ UNCHANGED <<svState, svDec, svIntegral, svFreqEstCnt>>
         \/ Servo!SampleInit \/ Servo!SampleSyntonizeInit \/ Servo!SampleSyntonizeStart
  PROVE  Sampled
<1>1. /\ svDec \in Decisions /\ svDec.scaleFactor \in Int /\ svIntegral \in Int
      /\ svFreqEstCnt \in Nat /\ svFreqEstCnt <= Servo!MaxFreqEstCnt
      /\ Servo!MaxFreqEstCnt \in Nat \ {0} /\ SvGainUnit \in Int
      /\ svDec.scaleFactor * SvGainUnit \in Int /\ 0 * SvGainUnit \in Int
  BY EstimationCount DEF ServoInv, Servo!TypeOK, Decisions, Servo!ServoAssumption
<1>2. CASE svState = "DISABLED" /\ UNCHANGED <<svState, svDec, svIntegral, svFreqEstCnt>>
  BY <1>1, <1>2 DEF Sampled, ServoInv, Servo!ServoStates
<1>3. CASE Servo!SampleInit
  BY <1>1, <1>3 DEF Servo!SampleInit, Sampled, ServoInv, Servo!ServoStates
<1>4. CASE Servo!SampleSyntonizeInit
  <2>1. Servo!Scale(0) \in Decisions /\ ~Servo!Scale(0).enableJump
    BY ScaleDecision DEF Servo!ServoAssumption
  <2> QED BY <1>1, <1>4, <2>1
          DEF Servo!SampleSyntonizeInit, Servo!SetServoState, Sampled, Servo!ServoStates
<1>5. CASE Servo!SampleSyntonizeStart
  BY <1>1, <1>5 DEF Servo!SampleSyntonizeStart, Servo!SetServoState, Sampled, ServoInv,
                    Servo!ServoStates
<1> QED BY <1>2, <1>3, <1>4, <1>5

LEMMA SampledSyntonize ==
  ASSUME Servo!ServoAssumption, ServoInv, NEW off \in Int, NEW span \in Int,
         Servo!SampleSyntonize(off, span)
  PROVE  Sampled
<1>1. /\ svDec \in Decisions /\ svDec.scaleFactor \in Int /\ svIntegral \in Int
      /\ svFreqEstCnt \in Nat /\ svFreqEstCnt <= Servo!MaxFreqEstCnt
      /\ Servo!MaxFreqEstCnt \in Nat \ {0} /\ SvGainUnit \in Int /\ SvNominal \in Int
      /\ svStart.offset \in Int /\ svState = "SYNTONIZE"
  BY EstimationCount DEF ServoInv, Servo!TypeOK, Decisions, Servo!ServoAssumption,
     Servo!SampleSyntonize
<1>2. CASE svFreqEstCnt >= Servo!MaxFreqEstCnt
  <2> DEFINE remote == span + off - svStart.offset
             rate == (SvNominal + svDec.scaleFactor) * span - SvNominal * remote
  <2>1. remote \in Int /\ rate \in Int
    <3>1. remote \in Int
      BY <1>1
    <3> HIDE DEF remote
    <3>2. (SvNominal + svDec.scaleFactor) * span \in Int /\ SvNominal * remote \in Int
      BY <1>1, <3>1
    <3> QED BY <3>1, <3>2
  <2>2. PICK s \in Servo!Syntonized(span, remote) : svDec' = Servo!Scale(s)
    BY <1>2 DEF Servo!SampleSyntonize
  <2>3. s \in SvLowerBound .. SvUpperBound
    <3>1. CASE remote = 0
      BY <2>2, <3>1 DEF Servo!Syntonized, Servo!ServoAssumption
    <3>2. CASE remote # 0
      <4>1. s = Servo!Bounded(Servo!Truncated(rate, remote))
        BY <2>2, <3>2 DEF Servo!Syntonized
      <4> HIDE DEF rate, remote
      <4>2. Servo!Truncated(rate, remote) \in Int
        BY <2>1, <3>2, TruncatedInt
      <4> QED BY <4>1, <4>2, BoundedRange
    <3> QED BY <3>1, <3>2
  <2>4. svDec' \in Decisions /\ ~svDec'.enableJump
    BY <2>2, <2>3, ScaleDecision
  <2>5. svDec'.scaleFactor * SvGainUnit \in Int
    <3>1. svDec'.scaleFactor \in Int
      BY <2>4 DEF Decisions, Servo!ServoAssumption
    <3> QED BY <1>1, <3>1
  <2> QED BY <1>1, <1>2, <2>4, <2>5
          DEF Servo!SampleSyntonize, Servo!SetServoState, Sampled, Servo!ServoStates
<1>3. CASE ~(svFreqEstCnt >= Servo!MaxFreqEstCnt)
  BY <1>1, <1>3 DEF Servo!SampleSyntonize, Sampled, ServoInv, Servo!ServoStates
<1> QED BY <1>2, <1>3

LEMMA SampledJump ==
  ASSUME Servo!ServoAssumption, ServoInv, NEW off \in Int, Servo!SampleJump(off)
  PROVE  Sampled /\ svDec'.delta = -off
<1>1. /\ svDec \in Decisions /\ svDec.scaleFactor \in Int /\ svIntegral \in Int
      /\ svFreqEstCnt \in Nat /\ svFreqEstCnt <= Servo!MaxFreqEstCnt /\ SvGainUnit \in Int
  BY DEF ServoInv, Servo!TypeOK, Decisions, Servo!ServoAssumption
<1>2. /\ svDec' = [svDec EXCEPT !.enableJump = TRUE, !.delta = -off, !.enableScale = FALSE]
      /\ svState = "JUMP" /\ svFreqEstCnt' = svFreqEstCnt
      /\ Servo!SetServoState(IF svConfig.synchronize THEN "SCALE" ELSE "JUMP", svDec')
  BY DEF Servo!SampleJump, Servo!Jump
<1>3. svDec' \in Decisions /\ svDec'.delta = -off /\ svDec'.scaleFactor = svDec.scaleFactor
  <2>1. PICK d \in Int : d = -off
    OBVIOUS
  <2>2. svDec' = [svDec EXCEPT !.enableJump = TRUE, !.delta = d, !.enableScale = FALSE]
    BY <1>2, <2>1
  <2> QED BY <1>1, <2>1, <2>2 DEF Decisions
<1>4. svDec'.scaleFactor * SvGainUnit \in Int
  BY <1>1, <1>3
<1> QED BY <1>1, <1>2, <1>3, <1>4 DEF Servo!SetServoState, Sampled, Servo!ServoStates

LEMMA SampledScale ==
  ASSUME Servo!ServoAssumption, ServoInv, NEW off \in Int, Servo!SampleScale(off)
  PROVE  Sampled
<1>1. /\ svState = "SCALE" /\ svIntegral \in Int /\ SvKP \in Int /\ SvKI \in Int
      /\ svFreqEstCnt \in Nat /\ svFreqEstCnt <= Servo!MaxFreqEstCnt
      /\ Servo!MaxFreqEstCnt \in Nat /\ SvGainUnit \in Int /\ SvGainUnit # 0
  BY EstimationCount DEF ServoInv, Servo!TypeOK, Servo!ServoAssumption, Servo!SampleScale
<1>2. CASE Servo!SampleInternal(-off) /\ UNCHANGED <<svState, svFreqEstCnt>>
  <2> DEFINE e == -off
             a == SvKP * e + SvKI * e + svIntegral
             s == Servo!Truncated(a, SvGainUnit)
  <2>1. e \in Int
    OBVIOUS
  <2>2. /\ svDec' = Servo!Scale(Servo!Bounded(s))
        /\ svIntegral' = IF s = Servo!Bounded(s) THEN svIntegral + SvKI * e ELSE svIntegral
    BY <1>2 DEF Servo!SampleInternal
  <2> HIDE DEF e
  <2>3. SvKP * e \in Int /\ SvKI * e \in Int
    BY <1>1, <2>1
  <2>4. a \in Int /\ svIntegral + SvKI * e \in Int
    BY <1>1, <2>3
  <2> HIDE DEF a
  <2>5. s \in Int
    BY <1>1, <2>4, TruncatedInt
  <2> HIDE DEF s
  <2>6. svDec' \in Decisions /\ ~svDec'.enableJump
    BY <2>2, <2>5, BoundedRange, ScaleDecision
  <2> QED BY <1>1, <1>2, <2>2, <2>4, <2>6 DEF Sampled, Servo!ServoStates
<1>3. CASE /\ svState' = "INIT" /\ svDec' = Servo!NoDecision
           /\ svIntegral' = 0 /\ svFreqEstCnt' = 0
  BY <1>1, <1>3, NoDecisionIsOne DEF Sampled, Servo!ServoStates
<1> QED BY <1>2, <1>3 DEF Servo!SampleScale

\* A sample keeps the invariant, and a jump takes back just the offset measured.
LEMMA SampleStep ==
  ASSUME Servo!ServoAssumption, ServoInv, Servo!Sample
  PROVE  ServoInv' /\ (svDec'.enableJump => svOffset' = 0)
<1> DEFINE local == SvNominal + svScale
           off   == svOffset + local - (SvNominal + svDrift)
           span  == svStart.local + local
<1>1. /\ svOffset \in Int /\ svDrift \in SvDrifts /\ svDrift \in Int
      /\ svScale \in SvLowerBound .. SvUpperBound /\ svScale \in Int
      /\ svStart \in [local : Nat, offset : Int]
  BY DEF ServoInv, Servo!TypeOK, Servo!ServoAssumption
<1>2. local \in Nat
  BY <1>1 DEF Servo!ServoAssumption
<1>3. off \in Int /\ span \in Nat
  BY <1>1, <1>2 DEF Servo!ServoAssumption
<1>4. /\ \/ svState = "DISABLED" /\ UNCHANGED <<svState, svDec, svIntegral, svFreqEstCnt>>
         \/ Servo!SampleInit
         \/ Servo!SampleSyntonizeInit
         \/ Servo!SampleSyntonizeStart
         \/ Servo!SampleSyntonize(off, span)
         \/ Servo!SampleJump(off)
         \/ Servo!SampleScale(off)
      /\ svStart' = IF svState = "SYNTONIZE_START" /\ svState' = "SYNTONIZE"
                    THEN [local |-> 0, offset |-> off]
                    ELSE IF svState' = "SYNTONIZE" THEN [svStart EXCEPT !.local = span]
                    ELSE [local |-> 0, offset |-> 0]
      /\ svOffset' = IF svDec'.enableJump THEN off + svDec'.delta ELSE off
      /\ svScale' = IF svDec'.enableScale THEN svDec'.scaleFactor ELSE svScale
      /\ UNCHANGED <<svConfig, svDrift, svEvents>>
  BY DEF Servo!Sample
<1> HIDE DEF local, off, span
<1>5. Sampled /\ (Servo!SampleJump(off) => svDec'.delta = -off)
  BY <1>3, <1>4, SampledBeginning, SampledSyntonize, SampledJump, SampledScale
<1>6. svDec'.enableJump => svDec'.delta = -off
  <2>1. svState = "JUMP" => Servo!SampleJump(off)
    BY <1>4 DEF Servo!SampleInit, Servo!SampleSyntonizeInit, Servo!SampleSyntonizeStart,
       Servo!SampleSyntonize, Servo!SampleScale
  <2> QED BY <1>5, <2>1 DEF Sampled
<1>7. svStart' \in [local : Nat, offset : Int]
  BY <1>1, <1>3, <1>4
<1>8. /\ svOffset' \in Int /\ svScale' \in SvLowerBound .. SvUpperBound
      /\ svFreqEstCnt' \in 0 .. 2 ^ SvFrequEstShift
  BY <1>1, <1>3, <1>4, <1>5, EstimationCount DEF Sampled, Decisions
<1>9. ServoInv'
  <2>1. Servo!MaxFreqEstCnt' = Servo!MaxFreqEstCnt
    BY DEF Servo!MaxFreqEstCnt
  <2> QED BY <1>4, <1>5, <1>7, <1>8, <2>1 DEF Sampled, Decisions, ServoInv, Servo!TypeOK
<1>10. svDec'.enableJump => svOffset' = 0
  BY <1>3, <1>4, <1>6
<1> QED BY <1>9, <1>10

\* Nothing else leaves a jump behind that could be made again.
LEMMA ServoStep ==
  ASSUME Servo!ServoAssumption, ServoInv, [Servo!Next]_svVars
  PROVE  ServoInv' /\ (Servo!Sample /\ svDec'.enableJump => svOffset' = 0)
<1>1. /\ svDec \in Decisions /\ svScale \in SvLowerBound .. SvUpperBound
      /\ svOffset \in Int /\ svEvents \in 0 .. SvMaxEvents /\ SvMaxEvents \in Nat
      /\ Servo!MaxFreqEstCnt \in Nat /\ Servo!MaxFreqEstCnt' = Servo!MaxFreqEstCnt
      /\ 0 \in 0 .. 2 ^ SvFrequEstShift
  BY EstimationCount DEF ServoInv, Servo!TypeOK, Decisions, Servo!ServoAssumption,
     Servo!MaxFreqEstCnt
<1>2. ASSUME Servo!Sample PROVE ServoInv'
  BY <1>2, SampleStep
<1>3. ASSUME Servo!StartClockServo PROVE ServoInv'
  <2>1. svDec' = [svDec EXCEPT !.scaleFactor = svScale]
    BY <1>3 DEF Servo!StartClockServo
  <2>2. svDec' \in Decisions /\ svDec'.enableJump = svDec.enableJump
    BY <1>1, <2>1 DEF Decisions
  <2> QED BY <1>1, <1>3, <2>2
          DEF Servo!StartClockServo, ServoInv, Servo!TypeOK, Servo!ServoStates, Decisions
<1>4. ASSUME Servo!StopClockServo PROVE ServoInv'
  <2>1. /\ svFreqEstCnt' = 0 /\ svStart' = [local |-> 0, offset |-> 0] /\ svIntegral' = 0
        /\ svDec' = Servo!NoDecision /\ svState' = "DISABLED"
        /\ UNCHANGED <<svConfig, svDrift, svScale, svOffset>>
        /\ svEvents' \in 0 .. SvMaxEvents
    BY <1>1, <1>4 DEF Servo!StopClockServo, Servo!Reset
  <2>2. svDec' \in Decisions /\ ~svDec'.enableJump
    BY <2>1, NoDecisionIsOne
  <2>3. svFreqEstCnt' \in 0 .. 2 ^ SvFrequEstShift /\ svFreqEstCnt' <= Servo!MaxFreqEstCnt'
    BY <1>1, <2>1
  <2>4. svStart' \in [local : Nat, offset : Int] /\ svState' \in Servo!ServoStates
    BY <2>1 DEF Servo!ServoStates
  <2> QED BY <2>1, <2>2, <2>3, <2>4 DEF ServoInv, Servo!TypeOK, Decisions
<1>5. ASSUME \E d \in SvSteps : Servo!Step(d) PROVE ServoInv'
  <2>1. PICK d \in SvSteps : Servo!Step(d)
    BY <1>5
  <2>2. svOffset' \in Int /\ svEvents' \in 0 .. SvMaxEvents
    BY <1>1, <2>1 DEF Servo!Step, Servo!ServoAssumption
  <2>3. UNCHANGED <<svConfig, svDrift, svState, svFreqEstCnt, svStart, svIntegral, svDec, svScale>>
    BY <2>1 DEF Servo!Step
  <2> QED BY <1>1, <2>2, <2>3 DEF ServoInv, Servo!TypeOK
<1>6. ASSUME UNCHANGED svVars PROVE ServoInv'
  BY <1>1, <1>6 DEF svVars, ServoInv, Servo!TypeOK
<1>7. \/ Servo!Sample \/ Servo!StartClockServo \/ Servo!StopClockServo
      \/ (\E d \in SvSteps : Servo!Step(d)) \/ UNCHANGED svVars
  BY DEF Servo!Next
<1>8. ServoInv'
  BY <1>2, <1>3, <1>4, <1>5, <1>6, <1>7
<1>9. Servo!Sample /\ svDec'.enableJump => svOffset' = 0
  BY SampleStep
<1> QED BY <1>8, <1>9

LEMMA ServoStarts == Servo!ServoAssumption /\ Servo!Init => ServoInv
<1> SUFFICES ASSUME Servo!ServoAssumption, Servo!Init PROVE ServoInv
  OBVIOUS
<1>1. /\ Servo!MaxFreqEstCnt \in Nat /\ 0 \in 0 .. 2 ^ SvFrequEstShift
      /\ Servo!NoDecision \in Decisions /\ ~Servo!NoDecision.enableJump
      /\ 0 \in SvLowerBound .. SvUpperBound /\ 0 \in 0 .. SvMaxEvents
  BY EstimationCount, NoDecisionIsOne DEF Servo!ServoAssumption
<1> QED BY <1>1 DEF Servo!Init, ServoInv, Servo!TypeOK, Servo!ServoStates, Decisions

LEMMA ServoInvariance == ASSUME Servo!ServoAssumption PROVE ServoRun => []ServoInv
BY ServoStarts, ServoStep, PTL DEF ServoRun

\* The decision of a sample outlives it, but the clock is never set a second time
\* by a jump decided earlier: a jump is always for the offset just measured,
\* whatever rates, steps and restarts there are (IClockServo::Sample, Reset).
THEOREM JumpsOnlyForThisOffset == CSpec => JumpIsForThisOffset
<1>1. ServoInv /\ [Servo!Next]_svVars =>
        [Servo!Sample /\ svDec'.enableJump => svOffset' = 0]_svVars
  BY ServoStep, ComponentsAssumption DEF ComponentsAssumption
<1>2. ServoRun => [][Servo!Sample /\ svDec'.enableJump => svOffset' = 0]_svVars
  BY <1>1, ServoInvariance, ComponentsAssumption, PTL DEF ComponentsAssumption, ServoRun
<1> QED BY <1>2, EachRuns, PTL
        DEF JumpIsForThisOffset, Servo!JumpIsForThisOffset, Servo!vars, svVars

-----------------------------------------------------------------------------
(* The resolution of times *)

\* What n conversions may lose: less than a nanosecond each.
Loss(n) == n * (PtSub - 1)

LEMMA LossGrows ==
  ASSUME Time!TimeAssumption, NEW n \in Nat
  PROVE  /\ Loss(n) \in Nat /\ Loss(n + 1) = Loss(n) + PtSub - 1
         /\ \A m \in 0 .. n : Loss(m) <= Loss(n)
<1> DEFINE s == PtSub - 1
<1>1. s \in Nat
  BY DEF Time!TimeAssumption
<1>2. \A m \in Nat : Loss(m) = m * s
  BY DEF Loss
<1> HIDE DEF s
<1>3. \A m \in Nat : m * s \in Nat /\ (m + 1) * s = m * s + s
  BY <1>1
<1>4. \A m \in 0 .. n : m * s <= n * s
  BY <1>1, TimesMono
<1>5. Loss(n + 1) = Loss(n) + s
  BY <1>2, <1>3
<1>6. \A m \in 0 .. n : Loss(m) <= Loss(n)
  BY <1>2, <1>4
<1>7. Loss(n) \in Nat /\ PtSub \in Int
  BY <1>2, <1>3 DEF Time!TimeAssumption
<1>8. Loss(n) + s = Loss(n) + PtSub - 1
  BY <1>7 DEF s
<1> HIDE DEF Loss
<1> QED BY <1>5, <1>6, <1>7, <1>8

\* The C++ quotient of a natural number.
LEMMA QuotientNat ==
  ASSUME NEW a \in Nat, NEW b \in Nat \ {0}
  PROVE  /\ Time!Quotient(a, b) = a \div b /\ a \div b \in Nat
         /\ b * (a \div b) <= a /\ a < b * (a \div b) + b
BY DivNat DEF Time!Quotient

LEMMA Distribute ==
  ASSUME NEW p \in Int, NEW s \in Int, NEW n \in Int, NEW k \in Int
  PROVE  s * (n * p + k) = (p * s) * n + s * k
OBVIOUS

LEMMA ProductInt ==
  ASSUME NEW a \in Int, NEW b \in Int
  PROVE  a * b \in Int
OBVIOUS

LEMMA DistributeSum ==
  ASSUME NEW s \in Int, NEW a \in Int, NEW b \in Int, NEW c \in Int, NEW d \in Int
  PROVE  /\ s * (a + b + c) = s * a + s * b + s * c
         /\ s * (a - b - c - d) = s * a - s * b - s * c - s * d
OBVIOUS

LEMMA Cancel ==
  ASSUME NEW s \in Nat \ {0}, NEW k \in Int, NEW p \in Int, s * k < p * s
  PROVE  k < p
OBVIOUS

\* A time stamp, put together from its seconds and nanoseconds, is the time but
\* for a part of a nanosecond.
LEMMA StampLoses ==
  ASSUME Time!TimeAssumption, NEW t \in Nat
  PROVE  /\ Time!Nanoseconds(Time!TimeStamp(t)) \in Nat
         /\ PtSub * Time!Nanoseconds(Time!TimeStamp(t)) <= t
         /\ t <= PtSub * Time!Nanoseconds(Time!TimeStamp(t)) + PtSub - 1
<1> DEFINE second == PtNsPerS * PtSub
           n == t \div second
           r == t - second * n
           k == r \div PtSub
<1>1. PtSub \in Nat \ {0} /\ PtNsPerS \in Nat \ {0} /\ PtNsWord \in Nat /\ PtNsWord >= PtNsPerS
  BY DEF Time!TimeAssumption
<1>2. second \in Nat \ {0}
  BY <1>1
<1>3. /\ Time!Quotient(t, second) = n /\ n \in Nat
      /\ second * n <= t /\ t < second * n + second
  <2> HIDE DEF second
  <2> QED BY <1>2, QuotientNat
<1>4. r \in Nat /\ r < second /\ Time!Remainder(t, second) = r
  <2>1. second * n \in Int
    BY <1>2, <1>3
  <2> HIDE DEF second, n
  <2> QED BY <1>2, <1>3, <2>1 DEF Time!Remainder
<1>5. /\ Time!Quotient(r, PtSub) = k /\ k \in Nat
      /\ PtSub * k <= r /\ r < PtSub * k + PtSub
  <2> HIDE DEF r
  <2> QED BY <1>1, <1>4, QuotientNat
<1>6. k < PtNsPerS
  <2>1. PtSub * k < PtNsPerS * PtSub
    <3>1. PtSub * k \in Int
      BY <1>1, <1>5
    <3> HIDE DEF k, r
    <3> QED BY <1>1, <1>4, <1>5, <3>1
  <2> HIDE DEF k
  <2> QED BY <1>1, <1>5, <2>1, Cancel
<1>7. k % PtNsWord = k
  <2> HIDE DEF k
  <2> QED BY <1>1, <1>5, <1>6
<1>8. Time!Nanoseconds(Time!TimeStamp(t)) = n * PtNsPerS + k
  BY <1>3, <1>4, <1>5, <1>7 DEF Time!TimeStamp, Time!Nanoseconds
<1> HIDE DEF k
<1>9. t = second * n + r
  <2>1. second * n \in Int
    BY <1>2, <1>3
  <2> HIDE DEF second, n
  <2> QED BY <2>1, <1>3
<1> HIDE DEF r, n
<1>10. PtSub * (n * PtNsPerS + k) = second * n + PtSub * k
  BY <1>1, <1>3, <1>5, Distribute
<1>11. n * PtNsPerS + k \in Nat /\ second * n \in Int /\ PtSub * k \in Int
  BY <1>1, <1>2, <1>3, <1>5
<1> HIDE DEF second
<1> QED BY <1>1, <1>4, <1>5, <1>8, <1>9, <1>10, <1>11

\* A correction that is added loses a part of a nanosecond, too.
LEMMA CorrectionLoses ==
  ASSUME Time!TimeAssumption, NEW corr \in Nat, NEW residence \in Nat
  PROVE  /\ Time!AddCorrection(corr, residence) \in Nat
         /\ PtSub * Time!AddCorrection(corr, residence) <= PtSub * corr + residence
         /\ PtSub * corr + residence
              <= PtSub * Time!AddCorrection(corr, residence) + PtSub - 1
<1> DEFINE a == corr * PtSub + residence
<1>1. PtSub \in Nat \ {0}
  BY DEF Time!TimeAssumption
<1>2. a \in Nat /\ corr * PtSub = PtSub * corr /\ PtSub * corr \in Nat
  BY <1>1
<1>3. Time!AddCorrection(corr, residence) = Time!Quotient(a, PtSub)
  BY DEF Time!AddCorrection, Time!TimeInterval
<1> HIDE DEF a
<1>4. /\ Time!Quotient(a, PtSub) \in Nat
      /\ PtSub * Time!Quotient(a, PtSub) <= a
      /\ a < PtSub * Time!Quotient(a, PtSub) + PtSub
  BY <1>1, <1>2, QuotientNat
<1>5. PtSub * Time!Quotient(a, PtSub) \in Nat
  BY <1>1, <1>4
<1> QED BY <1>1, <1>2, <1>3, <1>4, <1>5 DEF a

Msg == [sent : Nat, stamp : Nat, held : Nat, corr : Nat, hops : 0 .. PtMaxHops]

\* What a message, the last Sync and the path delay have lost so far.
MsgLoss == ptMsg.held - PtSub * ptMsg.corr
StampLoss == ptMsg.sent - PtSub * ptMsg.stamp
SyncLoss ==
  ptSynced.t2 - ptClock.offset - ptClock.delay - PtSub * ptSynced.t1 - PtSub * ptSynced.corr
DelayError == 2 * ptClock.delay - 2 * (PtSub * ptDelay)

Phases == {"send", "sync", "request", "delay", "again", "sync again", "done"}

\* Each conversion loses less than a nanosecond, and never gains.
TimeInv ==
  /\ ptClock \in [offset : Int, delay : Nat] /\ ptPhase \in Phases
  /\ ptMsg \in Msg /\ MsgLoss \in 0 .. Loss(ptMsg.hops)
  /\ ptSynced \in [t1 : Nat, t2 : Int, corr : Nat] /\ ptDelay \in Int /\ ptOffset \in Int
  /\ ptPhase \in {"sync", "sync again"} => StampLoss \in 0 .. (PtSub - 1)
  /\ ptPhase \in {"request", "delay"} => SyncLoss \in 0 .. Loss(PtMaxHops) + PtSub - 1
  /\ ptPhase \in {"again", "sync again"} =>
       DelayError \in -(2 * Loss(PtMaxHops) + PtSub - 1) .. (3 * PtSub - 2)
  /\ OffsetWithinResolution

\* Halving the sum of both ways loses up to a nanosecond more.
LEMMA HalfLoses ==
  ASSUME NEW s \in Nat \ {0}, NEW d \in Nat, NEW both \in Int, NEW l \in Nat,
         both - 2 * d \in -(s - 1) .. l
  PROVE  /\ Time!Quotient(both, 2 * s) \in Int
         /\ 2 * d - 2 * (s * Time!Quotient(both, 2 * s)) \in -l .. (3 * s - 2)
<1>1. 2 * s \in Nat \ {0}
  OBVIOUS
<1>2. CASE both >= 0
  <2>1. both \in Nat
    BY <1>2
  <2>2. PICK q \in Nat : /\ q = Time!Quotient(both, 2 * s)
                         /\ (2 * s) * q <= both /\ both < (2 * s) * q + 2 * s
    BY <1>1, <2>1, QuotientNat
  <2>3. (2 * s) * q = 2 * (s * q) /\ s * q \in Nat
    OBVIOUS
  <2> QED BY <2>2, <2>3
<1>3. CASE both < 0
  <2>1. -both \in Nat /\ -both < 2 * s
    BY <1>3
  <2>2. PICK m \in Nat : m = -both
    BY <2>1
  <2>3. m \div (2 * s) = 0
    BY <1>1, <2>1, <2>2
  <2>4. Time!Quotient(both, 2 * s) = 0
    BY <1>3, <2>2, <2>3 DEF Time!Quotient
  <2>5. s * 0 = 0
    OBVIOUS
  <2> QED BY <1>3, <2>4, <2>5
<1> QED BY <1>2, <1>3

\* All losses together, in half units.
LEMMA LossesTogether ==
  ASSUME Time!TimeAssumption,
         NEW a \in 0 .. (PtSub - 1), NEW r \in 0 .. Loss(PtMaxHops),
         NEW e \in -(2 * Loss(PtMaxHops) + PtSub - 1) .. (3 * PtSub - 2)
  PROVE  /\ 2 * a + 2 * r + e > -(2 * PtMaxHops + 1) * PtSub
         /\ 2 * a + 2 * r + e < (2 * PtMaxHops + 5) * PtSub
<1>1. PtSub \in Nat \ {0} /\ PtMaxHops \in Nat
  BY DEF Time!TimeAssumption
<1>2. PICK hs \in Nat : hs = PtMaxHops * PtSub
  BY <1>1
<1>3. Loss(PtMaxHops) = hs - PtMaxHops
  BY <1>1, <1>2 DEF Loss
<1>4. /\ -(2 * PtMaxHops + 1) * PtSub = -(2 * hs + PtSub)
      /\ (2 * PtMaxHops + 5) * PtSub = 2 * hs + 5 * PtSub
  BY <1>1, <1>2
<1>5. Loss(PtMaxHops) \in Nat
  BY <1>1, LossGrows
<1> HIDE DEF Loss
<1> QED BY <1>1, <1>2, <1>3, <1>4, <1>5

LEMMA TimeStarts == Time!TimeAssumption /\ Time!Init => TimeInv
<1> SUFFICES ASSUME Time!TimeAssumption, Time!Init PROVE TimeInv
  OBVIOUS
<1>1. ptClock \in [offset : Int, delay : Nat]
  BY DEF Time!Init, Time!TimeAssumption
<1>2. ptMsg \in Msg /\ ptMsg.held = 0 /\ ptMsg.corr = 0 /\ ptMsg.hops = 0
  BY DEF Time!Init, Time!TimeAssumption, Time!NoMsg, Msg
<1>3. MsgLoss = 0 /\ Loss(0) \in Nat
  BY <1>2, LossGrows DEF MsgLoss, Time!TimeAssumption
<1> QED BY <1>1, <1>2, <1>3
        DEF Time!Init, TimeInv, Phases, OffsetWithinResolution, Time!OffsetWithinResolution

LEMMA SendSyncStep ==
  ASSUME Time!TimeAssumption, TimeInv, NEW t \in PtTimes, Time!SendSync(t)
  PROVE  TimeInv'
<1>1. t \in Nat /\ PtSub \in Nat \ {0} /\ 0 \in 0 .. PtMaxHops
  BY DEF Time!TimeAssumption
<1>2. PICK n \in Nat : /\ n = Time!Nanoseconds(Time!TimeStamp(t))
                       /\ PtSub * n <= t /\ t <= PtSub * n + PtSub - 1
  BY <1>1, StampLoses
<1>3. ptMsg' = [sent |-> t, stamp |-> n, held |-> 0, corr |-> 0, hops |-> 0]
  BY <1>2 DEF Time!SendSync, Time!NoMsg
<1>4. ptMsg' \in Msg
  BY <1>1, <1>3 DEF Msg
<1>5. MsgLoss' \in 0 .. Loss(ptMsg'.hops)
  <2>1. MsgLoss' = 0
    BY <1>1, <1>3 DEF MsgLoss
  <2>2. Loss(0) \in Nat
    BY LossGrows
  <2> QED BY <1>3, <2>1, <2>2
<1>6. StampLoss' \in 0 .. (PtSub - 1)
  <2>1. StampLoss' = t - PtSub * n /\ PtSub * n \in Nat
    BY <1>1, <1>3 DEF StampLoss
  <2> QED BY <1>1, <1>2, <2>1
<1>7. /\ UNCHANGED <<ptClock, ptSynced, ptDelay, ptOffset>>
      /\ DelayError' = DelayError
      /\ \/ ptPhase = "send" /\ ptPhase' = "sync"
         \/ ptPhase = "again" /\ ptPhase' = "sync again"
  BY DEF Time!SendSync, DelayError
<1> QED BY <1>4, <1>5, <1>6, <1>7
        DEF TimeInv, Phases, OffsetWithinResolution, Time!OffsetWithinResolution

LEMMA SendDelayReqStep ==
  ASSUME Time!TimeAssumption, TimeInv, NEW t \in PtTimes, Time!SendDelayReq(t)
  PROVE  TimeInv'
<1>1. t \in Nat /\ PtSub \in Nat \ {0} /\ 0 \in 0 .. PtMaxHops
  BY DEF Time!TimeAssumption
<1>2. ptMsg' = [sent |-> t, stamp |-> 0, held |-> 0, corr |-> 0, hops |-> 0]
  BY DEF Time!SendDelayReq, Time!NoMsg
<1>3. ptMsg' \in Msg
  BY <1>1, <1>2 DEF Msg
<1>4. MsgLoss' \in 0 .. Loss(ptMsg'.hops)
  <2>1. MsgLoss' = 0
    BY <1>1, <1>2 DEF MsgLoss
  <2>2. Loss(0) \in Nat
    BY LossGrows
  <2> QED BY <1>2, <2>1, <2>2
<1>5. /\ UNCHANGED <<ptClock, ptSynced, ptDelay, ptOffset>>
      /\ SyncLoss' = SyncLoss
      /\ ptPhase = "request" /\ ptPhase' = "delay"
  BY DEF Time!SendDelayReq, SyncLoss
<1> QED BY <1>3, <1>4, <1>5
        DEF TimeInv, Phases, OffsetWithinResolution, Time!OffsetWithinResolution

LEMMA ForwardStep ==
  ASSUME Time!TimeAssumption, TimeInv, NEW residence \in PtResidences,
         Time!Forward(residence)
  PROVE  TimeInv'
<1>1. /\ residence \in Nat /\ PtSub \in Nat \ {0} /\ PtMaxHops \in Nat
      /\ ptMsg \in Msg /\ ptMsg.hops < PtMaxHops
  BY DEF Time!TimeAssumption, Time!Forward, TimeInv
<1>2. /\ ptMsg.sent \in Nat /\ ptMsg.stamp \in Nat /\ ptMsg.held \in Nat
      /\ ptMsg.corr \in Nat /\ ptMsg.hops \in 0 .. PtMaxHops /\ ptMsg.hops \in Nat
  BY <1>1 DEF Msg
<1> MsgLoss \in 0 .. Loss(ptMsg.hops)
  BY DEF TimeInv
<1>3. PICK c \in Nat : /\ c = Time!AddCorrection(ptMsg.corr, residence)
                       /\ PtSub * c <= PtSub * ptMsg.corr + residence
                       /\ PtSub * ptMsg.corr + residence <= PtSub * c + PtSub - 1
  BY <1>1, <1>2, CorrectionLoses
<1>4. ptMsg' = [ptMsg EXCEPT !.held = @ + residence, !.hops = @ + 1, !.corr = c]
  BY <1>3 DEF Time!Forward
<1>5. /\ ptMsg'.sent = ptMsg.sent /\ ptMsg'.stamp = ptMsg.stamp
      /\ ptMsg'.held = ptMsg.held + residence /\ ptMsg'.hops = ptMsg.hops + 1
      /\ ptMsg'.corr = c /\ ptMsg' \in Msg
  <2> DEFINE h == ptMsg.held + residence
             n == ptMsg.hops + 1
  <2>1. h \in Nat /\ n \in 0 .. PtMaxHops
    BY <1>1, <1>2
  <2>2. ptMsg' = [ptMsg EXCEPT !.held = h, !.hops = n, !.corr = c]
    BY <1>4
  <2> HIDE DEF h, n
  <2>3. /\ ptMsg'.sent = ptMsg.sent /\ ptMsg'.stamp = ptMsg.stamp
        /\ ptMsg'.held = h /\ ptMsg'.hops = n
        /\ ptMsg'.corr = c /\ ptMsg' \in Msg
    BY <1>1, <2>1, <2>2 DEF Msg
  <2> QED BY <2>3 DEF h, n
<1>6. MsgLoss' \in 0 .. Loss(ptMsg'.hops)
  <2>1. MsgLoss' = ptMsg'.held - PtSub * ptMsg'.corr
    BY DEF MsgLoss
  <2>2. PtSub * c \in Nat /\ PtSub * ptMsg.corr \in Nat
    BY <1>1, <1>2
  <2>3. Loss(ptMsg.hops) \in Nat /\ Loss(ptMsg'.hops) = Loss(ptMsg.hops) + PtSub - 1
    BY <1>2, <1>5, LossGrows
  <2> QED BY <1>1, <1>2, <1>3, <1>5, <2>1, <2>2, <2>3 DEF MsgLoss
<1>7. StampLoss' = StampLoss
  BY <1>5 DEF StampLoss
<1>8. /\ UNCHANGED <<ptClock, ptPhase, ptSynced, ptDelay, ptOffset>>
      /\ SyncLoss' = SyncLoss /\ DelayError' = DelayError
  BY DEF Time!Forward, SyncLoss, DelayError
<1> QED BY <1>5, <1>6, <1>7, <1>8
        DEF TimeInv, OffsetWithinResolution, Time!OffsetWithinResolution

\* What a message on its way has, and the products of its fields.
LEMMA MsgFields ==
  ASSUME Time!TimeAssumption, TimeInv
  PROVE  /\ ptMsg.sent \in Nat /\ ptMsg.stamp \in Nat /\ ptMsg.held \in Nat
         /\ ptMsg.corr \in Nat /\ ptMsg.hops \in 0 .. PtMaxHops
         /\ PtSub * ptMsg.stamp \in Nat /\ PtSub * ptMsg.corr \in Nat
         /\ MsgLoss \in 0 .. Loss(PtMaxHops) /\ Loss(PtMaxHops) \in Nat
         /\ ptClock.offset \in Int /\ ptClock.delay \in Nat
         /\ PtSub \in Nat \ {0}
<1>1. PtSub \in Nat \ {0} /\ PtMaxHops \in Nat
  BY DEF Time!TimeAssumption
<1>2. /\ ptMsg.sent \in Nat /\ ptMsg.stamp \in Nat /\ ptMsg.held \in Nat
      /\ ptMsg.corr \in Nat /\ ptMsg.hops \in 0 .. PtMaxHops
  BY DEF TimeInv, Msg
<1>3. PtSub * ptMsg.stamp \in Nat /\ PtSub * ptMsg.corr \in Nat
  BY <1>1, <1>2
<1>4. MsgLoss \in 0 .. Loss(PtMaxHops) /\ Loss(PtMaxHops) \in Nat
  <2> HIDE DEF Loss
  <2>1. /\ Loss(ptMsg.hops) <= Loss(PtMaxHops) /\ Loss(PtMaxHops) \in Nat
        /\ Loss(ptMsg.hops) \in Nat
    <3>1. PICK n \in 0 .. PtMaxHops : n = ptMsg.hops
      BY <1>2
    <3>2. Loss(n) <= Loss(PtMaxHops) /\ Loss(PtMaxHops) \in Nat
      BY <1>1, LossGrows
    <3>3. n \in Nat
      BY <1>1
    <3>4. Loss(n) \in Nat
      BY <3>3, LossGrows
    <3> QED BY <3>1, <3>2, <3>4
  <2>2. MsgLoss \in 0 .. Loss(ptMsg.hops)
    BY DEF TimeInv
  <2> HIDE DEF MsgLoss
  <2> QED BY <2>1, <2>2
<1> QED BY <1>1, <1>2, <1>3, <1>4 DEF TimeInv

LEMMA ReceiveSyncStep ==
  ASSUME Time!TimeAssumption, TimeInv, Time!ReceiveSync
  PROVE  TimeInv'
<1> DEFINE ingress == ptMsg.sent + ptClock.delay + ptMsg.held + ptClock.offset
<1>1. /\ ptMsg.sent \in Nat /\ ptMsg.stamp \in Nat /\ ptMsg.held \in Nat
      /\ ptMsg.corr \in Nat
      /\ PtSub * ptMsg.stamp \in Nat /\ PtSub * ptMsg.corr \in Nat
      /\ MsgLoss \in 0 .. Loss(PtMaxHops) /\ Loss(PtMaxHops) \in Nat
      /\ ptClock.offset \in Int /\ ptClock.delay \in Nat
      /\ PtSub \in Nat \ {0}
  BY MsgFields
<1>2. /\ ptPhase \in {"sync", "sync again"}
      /\ ptSynced' = [t1 |-> ptMsg.stamp, t2 |-> ingress, corr |-> ptMsg.corr]
      /\ IF ptPhase = "sync" THEN ptPhase' = "request" /\ UNCHANGED ptOffset
         ELSE /\ ptPhase' = "done"
              /\ ptOffset' = ingress - PtSub * (ptMsg.stamp + ptDelay + ptMsg.corr)
      /\ UNCHANGED <<ptClock, ptMsg, ptDelay>>
  BY DEF Time!ReceiveSync, Time!Arrival
<1>3. /\ StampLoss \in 0 .. (PtSub - 1) /\ ptDelay \in Int /\ ptOffset \in Int
      /\ ptPhase = "sync again" =>
           DelayError \in -(2 * Loss(PtMaxHops) + PtSub - 1) .. (3 * PtSub - 2)
  BY <1>2 DEF TimeInv
<1>4. ingress \in Int
  BY <1>1
<1>5. ptSynced' \in [t1 : Nat, t2 : Int, corr : Nat]
  BY <1>1, <1>2, <1>4
<1>6. MsgLoss' = MsgLoss /\ ptMsg' \in Msg /\ ptMsg' = ptMsg
  BY <1>2 DEF MsgLoss, TimeInv
<1>7. ptPhase = "sync" => SyncLoss' \in 0 .. Loss(PtMaxHops) + PtSub - 1
  <2>1. SyncLoss' = ingress - ptClock.offset - ptClock.delay - PtSub * ptMsg.stamp
                      - PtSub * ptMsg.corr
    BY <1>2 DEF SyncLoss
  <2>2. SyncLoss' = StampLoss + MsgLoss
    BY <1>1, <2>1 DEF StampLoss, MsgLoss
  <2> HIDE DEF StampLoss, MsgLoss, Loss
  <2> QED BY <1>1, <1>3, <2>2
<1>8. ptPhase = "sync again" => ptOffset' \in Int /\ OffsetWithinResolution'
  <2>1. SUFFICES ASSUME ptPhase = "sync again"
                 PROVE  ptOffset' \in Int /\ OffsetWithinResolution'
    OBVIOUS
  <2>2. PICK stamp \in Int, delay \in Int, corr \in Int :
          stamp = ptMsg.stamp /\ delay = ptDelay /\ corr = ptMsg.corr
    <3>1. ptMsg.stamp \in Int /\ ptMsg.corr \in Int
      BY <1>1
    <3>2. ptDelay \in Int
      BY DEF TimeInv
    <3> QED BY <3>1, <3>2
  <2>3. PICK ss \in Int, sd \in Int, sc \in Int :
          ss = PtSub * stamp /\ sd = PtSub * delay /\ sc = PtSub * corr
    BY PtSub \in Int, ProductInt DEF Time!TimeAssumption
  <2>4. PtSub * (stamp + delay + corr) = ss + sd + sc
    BY PtSub \in Int, <2>3, DistributeSum DEF Time!TimeAssumption
  <2>5. ptOffset' = ingress - (ss + sd + sc)
    BY <1>2, <2>1, <2>2, <2>4
  <2>6. ptOffset' \in Int
    BY <1>4, <2>3, <2>5
  <2>7. StampLoss = ptMsg.sent - ss /\ MsgLoss = ptMsg.held - sc
        /\ DelayError = 2 * ptClock.delay - 2 * sd
    BY <2>2, <2>3 DEF StampLoss, MsgLoss, DelayError
  <2> HIDE DEF StampLoss, MsgLoss, DelayError
  <2>8. 2 * (ptOffset' - ptClock.offset) = 2 * StampLoss + 2 * MsgLoss + DelayError
    BY <1>1, <2>3, <2>5, <2>7
  <2>9. /\ 2 * StampLoss + 2 * MsgLoss + DelayError > -(2 * PtMaxHops + 1) * PtSub
        /\ 2 * StampLoss + 2 * MsgLoss + DelayError < (2 * PtMaxHops + 5) * PtSub
    BY <1>1, <1>3, <2>1, LossesTogether
  <2> QED BY <1>2, <2>6, <2>8, <2>9 DEF OffsetWithinResolution, Time!OffsetWithinResolution
<1>9. CASE ptPhase = "sync"
  BY <1>2, <1>3, <1>5, <1>6, <1>7, <1>9
  DEF TimeInv, Phases, OffsetWithinResolution, Time!OffsetWithinResolution
<1>10. CASE ptPhase = "sync again"
  BY <1>2, <1>3, <1>5, <1>6, <1>8, <1>10 DEF TimeInv, Phases
<1> QED BY <1>2, <1>9, <1>10

LEMMA ReceiveDelayStep ==
  ASSUME Time!TimeAssumption, TimeInv, Time!ReceiveDelay
  PROVE  TimeInv'
<1> DEFINE t3 == ptMsg.sent + ptClock.offset
           arrival == ptMsg.sent + ptClock.delay + ptMsg.held
           t4 == Time!Nanoseconds(Time!TimeStamp(arrival))
           both == (ptSynced.t2 - t3)
                     + PtSub * (t4 - ptSynced.t1 - ptSynced.corr - ptMsg.corr)
           l == 2 * Loss(PtMaxHops) + PtSub - 1
<1>1. /\ ptMsg.sent \in Nat /\ ptMsg.held \in Nat /\ ptMsg.corr \in Nat
      /\ PtSub * ptMsg.corr \in Nat
      /\ MsgLoss \in 0 .. Loss(PtMaxHops) /\ Loss(PtMaxHops) \in Nat
      /\ ptClock.offset \in Int /\ ptClock.delay \in Nat
      /\ PtSub \in Nat \ {0}
  BY MsgFields
<1>2. /\ ptPhase = "delay" /\ ptPhase' = "again"
      /\ ptDelay' = Time!Quotient(both, 2 * PtSub)
      /\ UNCHANGED <<ptClock, ptMsg, ptSynced, ptOffset>>
  BY DEF Time!ReceiveDelay, Time!Arrival
<1>3. /\ ptSynced.t1 \in Nat /\ ptSynced.t2 \in Int /\ ptSynced.corr \in Nat
      /\ SyncLoss \in 0 .. Loss(PtMaxHops) + PtSub - 1
  BY <1>2 DEF TimeInv
<1>4. arrival \in Nat
  BY <1>1
<1>5. t4 \in Nat /\ PtSub * t4 <= arrival /\ arrival <= PtSub * t4 + PtSub - 1
  <2> HIDE DEF arrival
  <2> QED BY <1>4, StampLoses
<1> HIDE DEF t4
<1>6. PICK n1 \in Int, nc \in Int, n4 \in Int, nd \in Int :
        n1 = ptSynced.t1 /\ nc = ptSynced.corr /\ n4 = t4 /\ nd = ptMsg.corr
  BY <1>1, <1>3, <1>5
<1>7. PICK s1 \in Int, sc \in Int, s4 \in Int, sd \in Int :
        s1 = PtSub * n1 /\ sc = PtSub * nc /\ s4 = PtSub * n4 /\ sd = PtSub * nd
  BY PtSub \in Int, ProductInt DEF Time!TimeAssumption
<1>8. PtSub * (n4 - n1 - nc - nd) = s4 - s1 - sc - sd
  BY PtSub \in Int, <1>7, DistributeSum DEF Time!TimeAssumption
<1>9. both = ptSynced.t2 - t3 + (s4 - s1 - sc - sd) /\ both \in Int
  BY <1>1, <1>3, <1>6, <1>7, <1>8
<1>10. /\ SyncLoss = ptSynced.t2 - ptClock.offset - ptClock.delay - s1 - sc
       /\ MsgLoss = ptMsg.held - sd
  BY <1>6, <1>7 DEF SyncLoss, MsgLoss
<1>11. both - 2 * ptClock.delay = SyncLoss + MsgLoss - (arrival - s4)
  <2> HIDE DEF both, MsgLoss, SyncLoss
  <2> QED BY <1>1, <1>3, <1>7, <1>9, <1>10
<1>12. arrival - s4 \in 0 .. (PtSub - 1)
  BY <1>1, <1>4, <1>5, <1>6, <1>7
<1> HIDE DEF both, arrival, t3, Loss, MsgLoss, SyncLoss
<1>13. l \in Nat /\ both - 2 * ptClock.delay \in -(PtSub - 1) .. l
  BY <1>1, <1>3, <1>11, <1>12
<1> HIDE DEF l
<1>14. /\ ptDelay' \in Int
       /\ 2 * ptClock.delay - 2 * (PtSub * ptDelay') \in -l .. (3 * PtSub - 2)
  <2>1. PICK d \in Nat, b \in Int, n \in Nat : d = ptClock.delay /\ b = both /\ n = l
    BY <1>1, <1>9, <1>13
  <2>2. /\ Time!Quotient(b, 2 * PtSub) \in Int
        /\ 2 * d - 2 * (PtSub * Time!Quotient(b, 2 * PtSub)) \in -n .. (3 * PtSub - 2)
    BY <1>1, <1>13, <2>1, HalfLoses
  <2> QED BY <1>2, <2>1, <2>2
<1>15. DelayError' \in -l .. (3 * PtSub - 2)
  BY <1>2, <1>14 DEF DelayError
<1>16. MsgLoss' = MsgLoss
  BY <1>2 DEF MsgLoss
<1> QED BY <1>2, <1>14, <1>15, <1>16
        DEF TimeInv, Phases, OffsetWithinResolution, Time!OffsetWithinResolution, l

LEMMA TimeInvariance == ASSUME Time!TimeAssumption PROVE TimeRun => []TimeInv
<1>1. TimeInv /\ [Time!Next]_ptVars => TimeInv'
  <2>1. SUFFICES ASSUME TimeInv, [Time!Next]_ptVars PROVE TimeInv'
    OBVIOUS
  <2>2. CASE UNCHANGED ptVars
    BY <2>1, <2>2 DEF ptVars, TimeInv, MsgLoss, StampLoss, SyncLoss, DelayError,
       OffsetWithinResolution, Time!OffsetWithinResolution
  <2> QED BY <2>1, <2>2, SendSyncStep, SendDelayReqStep, ForwardStep, ReceiveSyncStep,
             ReceiveDelayStep DEF Time!Next
<1> QED BY <1>1, TimeStarts, PTL DEF TimeRun

\* However many transparent clocks a path has and whatever the times, the offset
\* that a slave computes is early by less than half a nanosecond and late by less
\* than two and a half, and either by one more for each transparent clock
\* (cTimeStamp, cTimeInterval, AddCorrection, SetMeanPathDelay).
THEOREM LosesOnlyResolution == CSpec => []OffsetWithinResolution
<1>1. TimeInv => OffsetWithinResolution
  BY DEF TimeInv
<1> QED BY <1>1, EachRuns, TimeInvariance, ComponentsAssumption, PTL DEF ComponentsAssumption

-----------------------------------------------------------------------------
(* The hardware clock *)

\* The least element of a set of numbers.
LEMMA LeastNumber ==
  ASSUME NEW S \in SUBSET Nat, S # {}
  PROVE  \E n \in S : \A m \in S : n <= m
<1> DEFINE R == StrictSubsetOrdering(Nat)
           F == FiniteSubsetsOf(Nat)
           T == {0 .. n : n \in S}
<1>1. T \subseteq F
  <2>1. \A n \in Nat : IsFiniteSet(0 .. n)
    BY FS_Interval
  <2> QED BY <2>1, SMT DEF FiniteSubsetsOf
<1>2. PICK X \in T : \A Y \in T : ~(<<Y, X>> \in R)
  <2>1. T # {}
    OBVIOUS
  <2>2. IsWellFoundedOn(R, F)
    BY FS_StrictSubsetOrderingWellFounded, Zenon
  <2> HIDE DEF R, T, F
  <2> QED BY <1>1, <2>1, <2>2, WFMin, Zenon
<1>3. PICK n \in S : X = 0 .. n
  OBVIOUS
<1>4. ASSUME NEW m \in S, m < n PROVE FALSE
  <2>1. 0 .. m \in T
    OBVIOUS
  <2>2. 0 .. m \subseteq 0 .. n
    BY <1>4
  <2>3. n \in 0 .. n /\ n \notin 0 .. m
    BY <1>4
  <2>4. 0 .. m # 0 .. n
    BY <2>3, Zenon
  <2>5. <<0 .. m, 0 .. n>> \in R
    BY <2>2, <2>4, SMT DEF StrictSubsetOrdering
  <2> QED BY <2>1, <2>5, <1>2, <1>3, Zenon
<1> QED BY <1>4

\* A sequence of numbers that never falls from one to the next never falls.
LEMMA NeverFalls ==
  ASSUME NEW f \in [Nat -> Int], \A t \in Nat : f[t] <= f[t + 1],
         NEW a \in Nat, NEW b \in Nat, a <= b
  PROVE  f[a] <= f[b]
<1> DEFINE Falls == {n \in Nat : f[a + n] < f[a]}
<1>1. Falls = {}
  <2>1. SUFFICES ASSUME Falls # {} PROVE FALSE
    OBVIOUS
  <2>2. PICK n \in Falls : \A m \in Falls : n <= m
    BY <2>1, LeastNumber
  <2>3. n # 0
    BY <2>2
  <2>4. n - 1 \in Nat /\ n - 1 \notin Falls
    BY <2>2, <2>3
  <2>5. a + n - 1 \in Nat /\ a + (n - 1) = a + n - 1 /\ (a + n - 1) + 1 = a + n
    BY <2>2, <2>4
  <2>6. f[a + n - 1] <= f[a + n]
    BY <2>5
  <2>7. f[a + n - 1] >= f[a]
    BY <2>4, <2>5
  <2> QED BY <2>2, <2>5, <2>6, <2>7
<1>2. b - a \in Nat /\ a + (b - a) = b
  OBVIOUS
<1>3. ~(f[a + (b - a)] < f[a])
  BY <1>1, <1>2
<1>4. f[a] \in Int /\ f[b] \in Int
  OBVIOUS
<1> HIDE DEF Falls
<1> QED BY <1>2, <1>3, <1>4

\* The clock that the generator g drives never runs backward, and passes at most
\* one tick within EdgePrecision.  The generators of the code check that the
\* clock does not run backward; they know nothing of EdgePrecision.
Forward(g) ==
  /\ HwDeviation[g] \in [Nat -> Int]
  /\ HwPhase + HwDeviation[g][0] >= 0
  /\ \A t \in Nat : HwDeviation[g][t + 1] - HwDeviation[g][t] >= -1
  /\ \A t \in Nat :
       HwEdgePrecision + HwDeviation[g][t + HwEdgePrecision] - HwDeviation[g][t] <= HwTickLen

\* Nor does it ever run at more than twice the pace of real time.
Gentle(g) ==
  /\ Forward(g)
  /\ \A t \in Nat : HwDeviation[g][t + 1] - HwDeviation[g][t] <= 1

\* The wake-up that is set is the one for the present time.
HwInv ==
  /\ Hw!TypeOK
  /\ hwRequ # Hw!None =>
       /\ Hw!TickAt(hwNow) <= hwRequ
       /\ hwWakeAt = Hw!WakeUpAt(hwNow, hwRequ)

\* The time of the clock, of which TickAt is the ticks.
Raw(g) == [t \in Nat |-> t + HwPhase + HwDeviation[g][t]]

LEMMA RawTime ==
  ASSUME Hw!HwClockAssumption, hwGen \in DOMAIN HwDeviation, Forward(hwGen),
         NEW a \in Nat, NEW b \in Nat, a <= b
  PROVE  /\ Raw(hwGen) \in [Nat -> Int]
         /\ Raw(hwGen)[a] <= Raw(hwGen)[b] /\ 0 <= Raw(hwGen)[a]
         /\ Hw!TickAt(a) = Raw(hwGen)[a] \div HwTickLen
         /\ Hw!TickAt(a) \in Nat /\ Hw!TickAt(b) \in Nat
         /\ Hw!TickAt(a) <= Hw!TickAt(b)
<1> DEFINE r == Raw(hwGen)
<1>1. HwPhase \in Nat /\ HwTickLen \in Nat \ {0}
  BY DEF Hw!HwClockAssumption
<1>2. r \in [Nat -> Int]
  BY <1>1 DEF Raw, Forward
<1>3. \A t \in Nat : r[t] <= r[t + 1]
  BY <1>1 DEF Raw, Forward
<1>4. \A t \in Nat : Hw!TickAt(t) = r[t] \div HwTickLen
  BY DEF Raw, Hw!TickAt
<1>5. 0 <= r[0]
  BY <1>1 DEF Raw, Forward
<1> HIDE DEF r
<1>6. r[a] <= r[b] /\ r[0] <= r[a]
  BY <1>2, <1>3, NeverFalls
<1>7. r[a] \in Nat /\ r[b] \in Nat
  BY <1>2, <1>5, <1>6
<1>8. r[a] \div HwTickLen \in Nat /\ r[b] \div HwTickLen \in Nat
  BY <1>1, <1>7, DivNat
<1>9. r[a] \div HwTickLen <= r[b] \div HwTickLen
  BY <1>1, <1>6, <1>7, DivMono
<1> QED BY <1>2, <1>4, <1>5, <1>6, <1>7, <1>8, <1>9 DEF r

\* The halving comes to an end, not beyond the tick asked for.
LEMMA BeforeTheTick ==
  ASSUME Hw!HwClockAssumption, hwGen \in DOMAIN HwDeviation, Forward(hwGen),
         NEW t \in Nat, NEW tick \in Nat, Hw!TickAt(t) <= tick
  PROVE  /\ Hw!Before(t, tick) \in Nat
         /\ t <= Hw!Before(t, tick)
         /\ Hw!Before(t, tick) <= t + ((tick - Hw!TickAt(t)) * HwTickLen) \div 2
         /\ Hw!TickAt(Hw!Before(t, tick)) <= tick
<1> DEFINE half == ((tick - Hw!TickAt(t)) * HwTickLen) \div 2
           Is(f, n) == f = [d \in 0 .. n |-> IF Hw!TickAt(t + d) > tick
                                             THEN f[d \div 2] ELSE d]
           Fits(f, n) == \A d \in 0 .. n : f[d] \in 0 .. d /\ Hw!TickAt(t + f[d]) <= tick
           Missing == {n \in Nat : ~ \E f : Is(f, n)}
<1>1. HwTickLen \in Nat /\ Hw!TickAt(t) \in Nat
  BY RawTime DEF Hw!HwClockAssumption
<1>2. half \in Nat
  <2>1. (tick - Hw!TickAt(t)) \in Nat
    BY <1>1
  <2>2. (tick - Hw!TickAt(t)) * HwTickLen \in Nat
    BY <1>1, <2>1
  <2> QED BY <2>2, DivNat
<1>3. Missing = {}
  <2>1. SUFFICES ASSUME Missing # {} PROVE FALSE
    OBVIOUS
  <2>2. PICK n \in Missing : \A m \in Missing : n <= m
    BY <2>1, LeastNumber
  <2>3. CASE n = 0
    <3> DEFINE f == [d \in 0 .. 0 |-> 0]
               h == [d \in 0 .. 0 |-> IF Hw!TickAt(t + d) > tick THEN f[d \div 2] ELSE d]
    <3>1. \A d \in 0 .. 0 : f[d] = h[d]
      <4>1. TAKE d \in 0 .. 0
      <4>2. d = 0 /\ t + d = t
        OBVIOUS
      <4>3. ~(Hw!TickAt(t + d) > tick)
        BY <4>2, <1>1
      <4> QED BY <4>2, <4>3
    <3>2. f = h
      BY <3>1
    <3>3. Is(f, n)
      BY <3>2, <2>3
    <3> QED BY <3>3, <2>2
  <2>4. CASE n # 0
    <3>1. n - 1 \in Nat /\ n - 1 \notin Missing /\ n \in Nat
      BY <2>2, <2>4
    <3>2. PICK g : Is(g, n - 1)
      BY <3>1
    <3> DEFINE f == [d \in 0 .. n |-> IF d = n THEN IF Hw!TickAt(t + n) > tick
                                                    THEN g[n \div 2] ELSE n
                                               ELSE g[d]]
               h == [d \in 0 .. n |-> IF Hw!TickAt(t + d) > tick THEN f[d \div 2] ELSE d]
    <3>3. \A d \in 0 .. n : d # 0 => d \div 2 \in 0 .. n - 1 /\ f[d \div 2] = g[d \div 2]
      <4>1. TAKE d \in 0 .. n
      <4>2. HAVE d # 0
      <4>3. d \div 2 \in 0 .. n - 1 /\ d \div 2 # n /\ d \div 2 \in 0 .. n
        BY <3>1, <4>2
      <4> QED BY <4>3
    <3>4. \A d \in 0 .. n : f[d] = h[d]
      <4>1. TAKE d \in 0 .. n
      <4>2. CASE d = n
        BY <4>2, <3>3, <2>4
      <4>3. CASE d # n
        <5>1. d \in 0 .. n - 1 /\ f[d] = g[d]
          BY <4>3, <3>1
        <5>2. g[d] = IF Hw!TickAt(t + d) > tick THEN g[d \div 2] ELSE d
          BY <5>1, <3>2
        <5>3. CASE d = 0
          <6>1. t + d = t
            BY <5>3
          <6>2. ~(Hw!TickAt(t + d) > tick)
            BY <6>1, <1>1
          <6> QED BY <6>2, <5>1, <5>2
        <5>4. CASE d # 0
          BY <5>1, <5>2, <5>4, <3>3
        <5> QED BY <5>3, <5>4
      <4> QED BY <4>2, <4>3
    <3>5. f = h
      BY <3>4
    <3>6. Is(f, n)
      BY <3>5
    <3> QED BY <3>6, <2>2
  <2> QED BY <2>3, <2>4
<1>4. ASSUME NEW n \in Nat, NEW f, Is(f, n) PROVE Fits(f, n)
  <2> DEFINE Wrong == {d \in 0 .. n : ~(f[d] \in 0 .. d /\ Hw!TickAt(t + f[d]) <= tick)}
  <2>1. SUFFICES ASSUME Wrong # {} PROVE FALSE
    OBVIOUS
  <2>2. Wrong \subseteq Nat
    OBVIOUS
  <2>3. PICK d \in Wrong : \A m \in Wrong : d <= m
    BY <2>1, <2>2, LeastNumber
  <2>4. f[d] = IF Hw!TickAt(t + d) > tick THEN f[d \div 2] ELSE d
    BY <2>3, <1>4
  <2>5. t + d \in Nat /\ Hw!TickAt(t + d) \in Nat
    BY RawTime
  <2>6. CASE Hw!TickAt(t + d) > tick
    <3>1. d # 0
      <4>1. d = 0 => t + d = t
        OBVIOUS
      <4> QED BY <4>1, <2>6, <1>1
    <3>2. d \div 2 \in 0 .. n /\ d \div 2 < d
      BY <3>1, <2>3
    <3>3. d \div 2 \notin Wrong
      BY <3>2, <2>3
    <3>4. f[d] = f[d \div 2]
      BY <2>4, <2>6
    <3>5. f[d \div 2] \in 0 .. (d \div 2) /\ Hw!TickAt(t + f[d \div 2]) <= tick
      BY <3>2, <3>3
    <3> QED BY <3>2, <3>4, <3>5, <2>3
  <2>7. CASE ~(Hw!TickAt(t + d) > tick)
    <3>1. f[d] = d /\ Hw!TickAt(t + d) <= tick
      BY <2>4, <2>5, <2>7
    <3> QED BY <3>1, <2>3
  <2> QED BY <2>6, <2>7
<1> DEFINE halved[d \in 0 .. half] ==
             IF Hw!TickAt(t + d) > tick THEN halved[d \div 2] ELSE d
<1> HIDE DEF half
<1>5. Is(halved, half)
  BY <1>2, <1>3
<1>6. Fits(halved, half)
  BY <1>2, <1>4, <1>5
<1>7. halved[half] \in 0 .. half /\ Hw!TickAt(t + halved[half]) <= tick
  BY <1>2, <1>6
<1>8. Hw!Before(t, tick) = t + halved[half]
  BY DEF Hw!Before, half
<1> HIDE DEF halved
<1>9. Hw!Before(t, tick) \in Nat /\ t <= Hw!Before(t, tick) /\ Hw!Before(t, tick) <= t + half
      /\ Hw!TickAt(Hw!Before(t, tick)) <= tick
  BY <1>2, <1>7, <1>8
<1> QED BY <1>9 DEF half

\* The wake-up is not beyond the tick asked for.
LEMMA WakeUpInTheTick ==
  ASSUME Hw!HwClockAssumption, hwGen \in DOMAIN HwDeviation, Forward(hwGen),
         NEW t \in Nat, NEW tick \in Nat, Hw!TickAt(t) <= tick
  PROVE  /\ Hw!WakeUpAt(t, tick) \in Nat
         /\ Hw!TickAt(Hw!WakeUpAt(t, tick)) <= tick
<1>1. HwEdgePrecision \in Nat /\ HwTickLen \in Nat \ {0} /\ HwPhase \in Nat
  BY DEF Hw!HwClockAssumption
<1>2. CASE t + HwEdgePrecision >= Hw!Before(t, tick) /\ Hw!TickAt(t) < tick
  <2> DEFINE x == Raw(hwGen)[t]
             y == Raw(hwGen)[t + HwEdgePrecision]
  <2>1. t + HwEdgePrecision \in Nat
    BY <1>1
  <2>2. /\ x \in Int /\ y \in Int
        /\ Hw!TickAt(t) = x \div HwTickLen
        /\ Hw!TickAt(t + HwEdgePrecision) = y \div HwTickLen
        /\ Hw!TickAt(t) \in Nat /\ Hw!TickAt(t + HwEdgePrecision) \in Nat
    BY <2>1, RawTime
  <2>3. y <= x + HwTickLen
    BY <1>1, <2>1 DEF Raw, Forward
  <2> HIDE DEF x, y
  <2>4. y \div HwTickLen <= (x \div HwTickLen) + 1
    <3>1. (x + HwTickLen) \div HwTickLen = (x \div HwTickLen) + 1
      BY <1>1, <2>2
    <3> QED BY <3>1, <2>2, <2>3, <1>1, DivMono
  <2>5. Hw!TickAt(t + HwEdgePrecision) <= tick
    BY <2>2, <2>4, <1>2
  <2> QED BY <1>2, <2>1, <2>5 DEF Hw!WakeUpAt
<1>3. CASE ~(t + HwEdgePrecision >= Hw!Before(t, tick) /\ Hw!TickAt(t) < tick)
  <2>1. Hw!WakeUpAt(t, tick) = Hw!Before(t, tick)
    BY <1>3 DEF Hw!WakeUpAt
  <2> QED BY <2>1, BeforeTheTick
<1> QED BY <1>2, <1>3

LEMMA HwStarts == ASSUME Hw!HwClockAssumption PROVE Hw!Init => HwInv
BY DEF Hw!Init, HwInv, Hw!TypeOK, Hw!None

LEMMA HwStep ==
  ASSUME Hw!HwClockAssumption, \A g \in DOMAIN HwDeviation : Forward(g),
         HwInv, [Hw!Next]_hwVars
  PROVE  HwInv'
<1>1. hwGen \in DOMAIN HwDeviation /\ hwNow \in Nat /\ hwWakeAt \in Nat /\ Forward(hwGen)
  BY DEF HwInv, Hw!TypeOK
<1>2. Hw!TickAt(hwNow) \in Nat
  BY <1>1, RawTime
<1>3. ASSUME NEW n \in 0 .. HwMaxSpan, Hw!Schedule(Hw!TickAt(hwNow) + n)
      PROVE  HwInv'
  <2> DEFINE tick == Hw!TickAt(hwNow) + n
  <2>1. tick \in Nat /\ Hw!TickAt(hwNow) <= tick
    BY <1>2
  <2>2. hwRequ' = tick /\ hwWakeAt' = Hw!WakeUpAt(hwNow, tick) /\ hwGen' = hwGen
        /\ hwNow' = hwNow
    BY <1>3 DEF Hw!Schedule
  <2> HIDE DEF tick
  <2>3. Hw!WakeUpAt(hwNow, tick) \in Nat
    BY <1>1, <2>1, WakeUpInTheTick
  <2>4. Hw!TypeOK'
    BY <1>1, <2>1, <2>2, <2>3 DEF Hw!TypeOK
  <2>5. Hw!TickAt(hwNow)' = Hw!TickAt(hwNow)
        /\ Hw!WakeUpAt(hwNow, hwRequ)' = Hw!WakeUpAt(hwNow, tick)
    BY <2>2 DEF Hw!TickAt, Hw!WakeUpAt, Hw!Before
  <2> QED BY <2>1, <2>2, <2>4, <2>5 DEF HwInv
<1>4. ASSUME NEW t \in hwNow .. HwMaxReal, Hw!Read(t)
      PROVE  HwInv'
  <2>1. t \in Nat /\ hwNow <= t
    BY <1>1, <1>4 DEF Hw!HwClockAssumption
  <2>2. hwGen' = hwGen /\ hwRequ' = hwRequ /\ hwNow' = t
    BY <1>4 DEF Hw!Read
  <2>3. CASE hwRequ = Hw!None
    <3>1. hwWakeAt' = hwWakeAt
      BY <1>4, <2>3 DEF Hw!Read
    <3> QED BY <1>1, <2>1, <2>2, <2>3, <3>1 DEF HwInv, Hw!TypeOK
  <2>4. CASE hwRequ # Hw!None
    <3>1. t <= hwWakeAt /\ hwWakeAt' = Hw!WakeUpAt(t, hwRequ)
      BY <1>4, <2>4 DEF Hw!Read
    <3>2. /\ hwRequ \in Nat /\ Hw!TickAt(hwNow) <= hwRequ
          /\ hwWakeAt = Hw!WakeUpAt(hwNow, hwRequ)
      BY <2>4 DEF HwInv, Hw!TypeOK
    <3>3. Hw!TickAt(hwWakeAt) <= hwRequ
      BY <1>1, <3>2, WakeUpInTheTick
    <3>4. Hw!TickAt(t) <= Hw!TickAt(hwWakeAt) /\ Hw!TickAt(t) \in Nat
          /\ Hw!TickAt(hwWakeAt) \in Nat
      BY <1>1, <2>1, <3>1, RawTime
    <3>5. Hw!TickAt(t) <= hwRequ
      BY <3>2, <3>3, <3>4
    <3>6. Hw!WakeUpAt(t, hwRequ) \in Nat
      BY <1>1, <2>1, <3>2, <3>5, WakeUpInTheTick
    <3>7. Hw!TypeOK'
      BY <1>1, <2>1, <2>2, <3>1, <3>2, <3>6 DEF Hw!TypeOK
    <3>8. Hw!TickAt(hwNow)' = Hw!TickAt(t)
          /\ Hw!WakeUpAt(hwNow, hwRequ)' = Hw!WakeUpAt(t, hwRequ)
      BY <2>2 DEF Hw!TickAt, Hw!WakeUpAt, Hw!Before
    <3> QED BY <2>2, <3>1, <3>5, <3>7, <3>8 DEF HwInv
  <2> QED BY <2>3, <2>4
<1>5. ASSUME Hw!WakeUp PROVE HwInv'
  <2>1. /\ hwRequ \in Nat /\ Hw!TickAt(hwNow) <= hwRequ
        /\ hwWakeAt = Hw!WakeUpAt(hwNow, hwRequ)
    BY <1>5 DEF HwInv, Hw!TypeOK, Hw!WakeUp
  <2>2. Hw!TickAt(hwWakeAt) <= hwRequ
    BY <1>1, <2>1, WakeUpInTheTick
  <2>3. hwGen' = hwGen /\ hwNow' = hwWakeAt
    BY <1>5 DEF Hw!WakeUp
  <2>4. CASE Hw!TickAt(hwWakeAt) >= hwRequ
    <3>1. hwRequ' = Hw!None /\ hwWakeAt' = 0
      BY <1>5, <2>4 DEF Hw!WakeUp
    <3> QED BY <1>1, <2>3, <3>1 DEF HwInv, Hw!TypeOK
  <2>5. CASE ~(Hw!TickAt(hwWakeAt) >= hwRequ)
    <3>1. hwRequ' = hwRequ /\ hwWakeAt' = Hw!WakeUpAt(hwWakeAt, hwRequ)
      BY <1>5, <2>5 DEF Hw!WakeUp
    <3>2. Hw!WakeUpAt(hwWakeAt, hwRequ) \in Nat
      BY <1>1, <2>1, <2>2, WakeUpInTheTick
    <3>3. Hw!TypeOK'
      BY <1>1, <2>1, <2>3, <3>1, <3>2 DEF Hw!TypeOK
    <3>4. Hw!TickAt(hwNow)' = Hw!TickAt(hwWakeAt)
          /\ Hw!WakeUpAt(hwNow, hwRequ)' = Hw!WakeUpAt(hwWakeAt, hwRequ)
      BY <2>3, <3>1 DEF Hw!TickAt, Hw!WakeUpAt, Hw!Before
    <3> QED BY <2>2, <3>1, <3>3, <3>4 DEF HwInv
  <2> QED BY <2>4, <2>5
<1>6. ASSUME UNCHANGED hwVars PROVE HwInv'
  BY <1>6 DEF hwVars, HwInv, Hw!TypeOK, Hw!TickAt, Hw!WakeUpAt, Hw!Before
<1> QED BY <1>3, <1>4, <1>5, <1>6 DEF Hw!Next

\* No wake-up comes after the tick asked for.
LEMMA NotBeyond ==
  ASSUME Hw!HwClockAssumption, \A g \in DOMAIN HwDeviation : Forward(g), HwInv
  PROVE  Hw!NeverBeyondTheTick
<1>1. SUFFICES ASSUME hwRequ # Hw!None PROVE Hw!TickAt(hwWakeAt) <= hwRequ
  BY DEF Hw!NeverBeyondTheTick
<1>2. /\ hwGen \in DOMAIN HwDeviation /\ hwNow \in Nat /\ hwRequ \in Nat
      /\ Hw!TickAt(hwNow) <= hwRequ /\ hwWakeAt = Hw!WakeUpAt(hwNow, hwRequ)
  BY <1>1 DEF HwInv, Hw!TypeOK
<1> QED BY <1>2, WakeUpInTheTick

LEMMA TimesSum ==
  ASSUME NEW s \in Int, NEW a \in Int, NEW b \in Int
  PROVE  (a + b) * s = s * a + b * s
OBVIOUS

\* A gentle clock has not begun the tick asked for half a tick earlier.
LEMMA SoonAfter ==
  ASSUME Hw!HwClockAssumption, \A g \in DOMAIN HwDeviation : Gentle(g), HwInv
  PROVE  Hw!SoonAfterTheTickBegins
<1> DEFINE soon == IF 2 * HwEdgePrecision > HwTickLen THEN HwEdgePrecision
                   ELSE (HwTickLen + 1) \div 2
<1>1. SUFFICES ASSUME hwRequ # Hw!None, Hw!TickAt(hwNow) < hwRequ, hwWakeAt >= soon
               PROVE  Hw!TickAt(hwWakeAt - soon) < hwRequ
  BY DEF Hw!SoonAfterTheTickBegins
<1>2. /\ hwGen \in DOMAIN HwDeviation /\ hwNow \in Nat /\ hwRequ \in Nat /\ hwWakeAt \in Nat
      /\ hwWakeAt = Hw!WakeUpAt(hwNow, hwRequ)
      /\ Gentle(hwGen) /\ Forward(hwGen)
  BY <1>1 DEF HwInv, Hw!TypeOK, Gentle
<1>3. HwEdgePrecision \in Nat /\ HwTickLen \in Nat \ {0} /\ HwPhase \in Nat
  BY DEF Hw!HwClockAssumption
<1>4. soon \in Nat /\ HwEdgePrecision <= soon /\ HwTickLen <= 2 * soon
  BY <1>3
<1> HIDE DEF soon
<1> DEFINE x == hwWakeAt - soon
<1>5. x \in Nat
  BY <1>1, <1>2, <1>4
<1>6. CASE x <= hwNow
  <2>1. Hw!TickAt(x) <= Hw!TickAt(hwNow) /\ Hw!TickAt(x) \in Nat /\ Hw!TickAt(hwNow) \in Nat
    BY <1>2, <1>5, <1>6, RawTime
  <2> QED BY <2>1, <1>1, <1>2
<1>7. CASE hwNow < x
  <2> DEFINE k == hwRequ - Hw!TickAt(hwNow)
             f == Raw(hwGen)
             g == [t \in Nat |-> 2 * t - f[t]]
  <2>1. /\ f \in [Nat -> Int] /\ Hw!TickAt(hwNow) = f[hwNow] \div HwTickLen
        /\ Hw!TickAt(x) = f[x] \div HwTickLen
        /\ Hw!TickAt(x) \in Nat /\ Hw!TickAt(hwNow) \in Nat
    BY <1>2, <1>5, <1>7, RawTime
  <2>2. hwWakeAt # hwNow + HwEdgePrecision
    BY <1>2, <1>3, <1>4, <1>7
  <2>3. hwWakeAt = Hw!Before(hwNow, hwRequ)
    BY <1>2, <2>2 DEF Hw!WakeUpAt
  <2>4. hwWakeAt <= hwNow + (k * HwTickLen) \div 2
    BY <1>1, <1>2, <2>1, <2>3, BeforeTheTick
  <2>5. \A t \in Nat : f[t + 1] <= f[t] + 2
    BY <1>2, <1>3 DEF Raw, Gentle, Forward
  <2> HIDE DEF f
  <2>6. g[hwNow] <= g[x]
    <3>1. g \in [Nat -> Int]
      BY <2>1
    <3>2. \A t \in Nat : g[t] <= g[t + 1]
      BY <2>1, <2>5
    <3> HIDE DEF g
    <3> QED BY <1>2, <1>5, <1>7, <3>1, <3>2, NeverFalls
  <2>7. f[x] <= f[hwNow] + 2 * (x - hwNow)
    BY <1>2, <1>5, <2>1, <2>6
  <2>8. k \in Nat \ {0} /\ hwRequ = Hw!TickAt(hwNow) + k
    BY <1>1, <1>2, <2>1
  <2> HIDE DEF k
  <2>9. k * HwTickLen \in Nat
    BY <1>3, <2>8
  <2>10. 2 * ((k * HwTickLen) \div 2) <= k * HwTickLen /\ (k * HwTickLen) \div 2 \in Nat
    BY <2>9, DivNat
  <2>11. 2 * (x - hwNow) <= k * HwTickLen - HwTickLen
    BY <1>2, <1>3, <1>4, <2>4, <2>9, <2>10
  <2> DEFINE y == f[hwNow]
             z == f[x]
             q == y \div HwTickLen
  <2>12. y \in Int /\ z \in Int /\ z <= y + k * HwTickLen - HwTickLen
    BY <1>2, <1>5, <2>1, <2>7, <2>9, <2>11, <1>3
  <2>13. q \in Int /\ y < HwTickLen * q + HwTickLen
    BY <2>12, <1>3, DivBounds
  <2>14. z \div HwTickLen \in Int /\ HwTickLen * (z \div HwTickLen) <= z
    BY <2>12, <1>3, DivBounds
  <2>15. Hw!TickAt(x) = z \div HwTickLen /\ Hw!TickAt(hwNow) = q
    BY <2>1
  <2> HIDE DEF y, z, q
  <2>16. z < (q + k) * HwTickLen
    <3>1. (q + k) * HwTickLen = HwTickLen * q + k * HwTickLen
      BY <1>3, <2>8, <2>13, TimesSum
    <3> QED BY <3>1, <2>12, <2>13, <2>9, <1>3, ProductInt
  <2>17. z \div HwTickLen < q + k
    <3> DEFINE u == z \div HwTickLen
    <3>1. u \in Int /\ HwTickLen * u <= z
      BY <2>14
    <3> HIDE DEF u
    <3>2. q + k \in Int
      BY <2>8, <2>13
    <3>3. HwTickLen * u < (q + k) * HwTickLen
      BY <3>1, <3>2, <2>12, <2>16, <1>3, ProductInt
    <3>4. u < q + k
      BY <3>1, <3>2, <3>3, <1>3, Cancel
    <3> QED BY <3>4 DEF u
  <2> QED BY <2>8, <2>15, <2>17
<1> QED BY <1>2, <1>5, <1>6, <1>7

LEMMA HwInvariance ==
  ASSUME Hw!HwClockAssumption, \A g \in DOMAIN HwDeviation : Forward(g)
  PROVE  HwRun => []HwInv
<1>1. Hw!Init => HwInv
  BY HwStarts
<1>2. HwInv /\ [Hw!Next]_hwVars => HwInv'
  BY HwStep
<1> QED BY <1>1, <1>2, PTL DEF HwRun

\* WakesInTheTick, first part: on every clock that runs forward and passes at
\* most one tick within EdgePrecision, no event is executed in a later tick than
\* its own.
THEOREM NeverWakesTooLate ==
  ASSUME \A g \in DOMAIN HwDeviation : Forward(g)
  PROVE  CSpec => []Hw!NeverBeyondTheTick
<1>1. Hw!HwClockAssumption
  BY ComponentsAssumption DEF ComponentsAssumption
<1>2. HwRun => []HwInv
  BY <1>1, HwInvariance
<1>3. HwInv => Hw!NeverBeyondTheTick
  BY <1>1, NotBeyond
<1> QED BY <1>2, <1>3, EachRuns, PTL

\* WakesInTheTick as a whole, on every clock that also runs at no more than twice
\* the pace of real time.
THEOREM WakesWithinTheTick ==
  ASSUME \A g \in DOMAIN HwDeviation : Gentle(g)
  PROVE  CSpec => []WakesInTheTick
<1>1. Hw!HwClockAssumption
  BY ComponentsAssumption DEF ComponentsAssumption
<1>2. \A g \in DOMAIN HwDeviation : Forward(g)
  BY DEF Gentle
<1>3. HwRun => []HwInv
  BY <1>1, <1>2, HwInvariance
<1>4. HwInv => WakesInTheTick
  BY <1>1, <1>2, NotBeyond, SoonAfter DEF WakesInTheTick
<1> QED BY <1>3, <1>4, EachRuns, PTL

-----------------------------------------------------------------------------
(* The matching of frames *)

\* The entries of a matcher: the time of a pair is its number.
FuEntry == {e \in [source : FuSources, sequenceId : Nat, time : Nat] :
              e.sequenceId = e.time % FuWidth}

\* The entries of each source are in the order of their pairs.
FuOrdered(q) ==
  \A i, j \in DOMAIN q : i < j /\ q[i].source = q[j].source => q[i].time < q[j].time

\* The pair whose second frame a source sends next, or which it begins next.
FuHead(s) == fuSent[s] - Len(fuWaiting[s])

\* The second frames on their way are those of the last pairs, and, unless a last
\* number was lost, no time of an earlier round of numbers is left.
MatchingInv ==
  /\ fuQueue \in Seq(FuEntry) /\ FuOrdered(fuQueue)
  /\ fuSent \in [FuSources -> 0 .. FuMaxFrames]
  /\ fuWaiting \in [FuSources -> Seq(0 .. FuMaxFrames)]
  /\ fuLost \in BOOLEAN
  /\ \A s \in FuSources :
       /\ Len(fuWaiting[s]) <= FuMaxAhead /\ Len(fuWaiting[s]) <= fuSent[s]
       /\ \A k \in 1 .. Len(fuWaiting[s]) : fuWaiting[s][k] = FuHead(s) + k - 1
  /\ \A i \in DOMAIN fuQueue, u \in FuSources : fuQueue[i].source = u =>
       /\ fuQueue[i].time < fuSent[u]
       /\ ~fuLost => fuQueue[i].time >= FuWidth * (FuHead(u) \div FuWidth)
  /\ Matching!MatchesItsPair

\* What the loop has kept of the queue q, of its first n entries.
Kept(q, s, id, n) ==
  CHOOSE f : f = [k \in 0 .. n |-> IF k = 0 THEN <<>>
                                   ELSE IF Matching!Outdated(q[k], s, id) THEN f[k - 1]
                                   ELSE Append(f[k - 1], q[k])]

\* The loop that Cleaned describes ends.
LEMMA KeptExists ==
  ASSUME NEW q, NEW s, NEW id, NEW N \in Nat
  PROVE  Kept(q, s, id, N) =
           [k \in 0 .. N |-> IF k = 0 THEN <<>>
                             ELSE IF Matching!Outdated(q[k], s, id)
                             THEN Kept(q, s, id, N)[k - 1]
                             ELSE Append(Kept(q, s, id, N)[k - 1], q[k])]
<1> DEFINE Step(k, v) == IF Matching!Outdated(q[k], s, id) THEN v ELSE Append(v, q[k])
           Is(f, n) == f = [k \in 0 .. n |-> IF k = 0 THEN <<>> ELSE Step(k, f[k - 1])]
           Missing == {n \in Nat : ~ \E f : Is(f, n)}
<1>1. Missing = {}
  <2>1. SUFFICES ASSUME Missing # {} PROVE FALSE
    OBVIOUS
  <2>2. PICK n \in Missing : \A m \in Missing : n <= m
    BY <2>1, LeastNumber
  <2> HIDE DEF Step
  <2>3. CASE n = 0
    <3> DEFINE f == [k \in 0 .. 0 |-> <<>>]
    <3>1. f = [k \in 0 .. 0 |-> IF k = 0 THEN <<>> ELSE Step(k, f[k - 1])]
      OBVIOUS
    <3> QED BY <3>1, <2>2, <2>3
  <2>4. CASE n # 0
    <3>1. n - 1 \in Nat /\ n - 1 \notin Missing /\ n \in Nat
      BY <2>2, <2>4
    <3>2. PICK g : g = [k \in 0 .. n - 1 |-> IF k = 0 THEN <<>> ELSE Step(k, g[k - 1])]
      BY <3>1
    <3> DEFINE f == [k \in 0 .. n |-> IF k = n THEN Step(n, g[n - 1]) ELSE g[k]]
               h == [k \in 0 .. n |-> IF k = 0 THEN <<>> ELSE Step(k, f[k - 1])]
    <3>3. \A k \in 0 .. n : f[k] = h[k]
      <4>1. TAKE k \in 0 .. n
      <4>2. CASE k = n
        <5>1. f[n - 1] = g[n - 1]
          BY <3>1
        <5> QED BY <4>2, <5>1, <2>4
      <4>3. CASE k # n
        <5>1. k \in 0 .. n - 1 /\ f[k] = g[k]
          BY <4>3, <3>1
        <5>2. CASE k = 0
          BY <5>1, <5>2, <3>2
        <5>3. CASE k # 0
          <6>1. k - 1 \in 0 .. n - 1 /\ k - 1 # n /\ k - 1 \in 0 .. n
            BY <5>1, <5>3, <3>1
          <6>2. f[k - 1] = g[k - 1]
            BY <6>1
          <6> QED BY <5>1, <5>3, <6>2, <3>2
        <5> QED BY <5>2, <5>3
      <4> QED BY <4>2, <4>3
    <3>4. f = h
      BY <3>3
    <3>5. Is(f, n)
      BY <3>4
    <3> QED BY <3>5, <2>2
  <2> QED BY <2>3, <2>4
<1>2. \E f : f = [k \in 0 .. N |-> IF k = 0 THEN <<>>
                                   ELSE IF Matching!Outdated(q[k], s, id) THEN f[k - 1]
                                   ELSE Append(f[k - 1], q[k])]
  BY <1>1
<1> QED BY <1>2 DEF Kept

\* What Cleaned leaves are the entries that are not outdated, in their order.
LEMMA CleanedLeaves ==
  ASSUME NEW q \in Seq(FuEntry), FuOrdered(q), NEW s, NEW id
  PROVE  /\ Matching!Cleaned(q, s, id) \in Seq(FuEntry)
         /\ FuOrdered(Matching!Cleaned(q, s, id))
         /\ \A k \in DOMAIN Matching!Cleaned(q, s, id) :
              \E i \in DOMAIN q : /\ Matching!Cleaned(q, s, id)[k] = q[i]
                                  /\ ~Matching!Outdated(q[i], s, id)
<1> DEFINE N == Len(q)
           f == Kept(q, s, id, N)
           Leaves(n) ==
             /\ f[n] \in Seq(FuEntry) /\ FuOrdered(f[n])
             /\ \A k \in DOMAIN f[n] :
                  \E i \in 1 .. n : f[n][k] = q[i] /\ ~Matching!Outdated(q[i], s, id)
           Wrong == {n \in 0 .. N : ~Leaves(n)}
<1>1. N \in Nat /\ DOMAIN q = 1 .. N
  OBVIOUS
<1>2. f = [k \in 0 .. N |-> IF k = 0 THEN <<>>
                            ELSE IF Matching!Outdated(q[k], s, id) THEN f[k - 1]
                            ELSE Append(f[k - 1], q[k])]
  BY <1>1, KeptExists
<1>3. Matching!Cleaned(q, s, id) = f[N]
  BY DEF Matching!Cleaned, Kept
<1> HIDE DEF f
<1>4. Wrong = {}
  <2>1. SUFFICES ASSUME Wrong # {} PROVE FALSE
    OBVIOUS
  <2>2. Wrong \subseteq Nat
    BY <1>1
  <2>3. PICK n \in Wrong : \A m \in Wrong : n <= m
    BY <2>1, <2>2, LeastNumber
  <2>4. CASE n = 0
    <3>1. f[0] = <<>>
      BY <1>1, <1>2
    <3>2. Leaves(0)
      BY <3>1 DEF FuOrdered
    <3> QED BY <3>2, <2>3, <2>4
  <2>5. CASE n # 0
    <3>1. n - 1 \in 0 .. N /\ n - 1 \notin Wrong /\ n \in 1 .. N
      BY <1>1, <2>3, <2>5
    <3>2. Leaves(n - 1)
      BY <3>1
    <3>3. CASE Matching!Outdated(q[n], s, id)
      <4>1. f[n] = f[n - 1]
        BY <1>1, <1>2, <2>5, <3>1, <3>3
      <4>2. Leaves(n)
        BY <3>1, <3>2, <4>1
      <4> QED BY <4>2, <2>3
    <3>4. CASE ~Matching!Outdated(q[n], s, id)
      <4> DEFINE g == f[n - 1]
      <4>1. f[n] = Append(g, q[n])
        BY <1>1, <1>2, <2>5, <3>1, <3>4
      <4>2. g \in Seq(FuEntry) /\ q[n] \in FuEntry
        BY <1>1, <3>1, <3>2
      <4>3. /\ f[n] \in Seq(FuEntry) /\ Len(f[n]) = Len(g) + 1 /\ Len(g) \in Nat
            /\ \A k \in 1 .. Len(g) : f[n][k] = g[k]
            /\ f[n][Len(g) + 1] = q[n]
        BY <4>1, <4>2
      <4>4. \A k \in 1 .. Len(g) :
              \E i \in 1 .. n - 1 : g[k] = q[i] /\ ~Matching!Outdated(q[i], s, id)
        BY <3>2, <4>2
      <4>5. FuOrdered(g)
        BY <3>2
      <4> HIDE DEF g
      <4>6. ASSUME NEW k \in DOMAIN f[n]
            PROVE  \E i \in 1 .. n : f[n][k] = q[i] /\ ~Matching!Outdated(q[i], s, id)
        <5>1. CASE k = Len(g) + 1
          BY <5>1, <4>3, <3>1, <3>4
        <5>2. CASE k # Len(g) + 1
          <6>1. k \in 1 .. Len(g)
            BY <5>2, <4>3
          <6>2. PICK i \in 1 .. n - 1 : g[k] = q[i] /\ ~Matching!Outdated(q[i], s, id)
            BY <6>1, <4>4
          <6>3. i \in 1 .. n
            BY <3>1
          <6> QED BY <6>1, <6>2, <6>3, <4>3
        <5> QED BY <5>1, <5>2
      <4>7. ASSUME NEW k \in DOMAIN f[n], NEW l \in DOMAIN f[n], k < l,
                   f[n][k].source = f[n][l].source
            PROVE  f[n][k].time < f[n][l].time
        <5>1. k \in 1 .. Len(g) /\ f[n][k] = g[k]
          BY <4>3, <4>7
        <5>2. CASE l = Len(g) + 1
          <6>1. PICK i \in 1 .. n - 1 : g[k] = q[i]
            BY <5>1, <4>4
          <6>2. i \in DOMAIN q /\ n \in DOMAIN q /\ i < n
            BY <1>1, <3>1
          <6> QED BY <5>1, <5>2, <6>1, <6>2, <4>3, <4>7 DEF FuOrdered
        <5>3. CASE l # Len(g) + 1
          <6>1. l \in 1 .. Len(g) /\ f[n][l] = g[l] /\ DOMAIN g = 1 .. Len(g)
            BY <5>3, <4>2, <4>3
          <6> QED BY <5>1, <6>1, <4>5, <4>7 DEF FuOrdered
        <5> QED BY <5>2, <5>3
      <4>8. Leaves(n)
        BY <4>3, <4>6, <4>7 DEF FuOrdered
      <4> QED BY <4>8, <2>3
    <3> QED BY <3>3, <3>4
  <2> QED BY <2>4, <2>5
<1>5. Leaves(N)
  BY <1>1, <1>4
<1> QED BY <1>1, <1>3, <1>5

\* What a pop answers and leaves in the queue.
LEMMA PopLeaves ==
  ASSUME NEW q \in Seq(FuEntry), FuOrdered(q), NEW s, NEW id \in Nat
  PROVE  /\ Matching!Rest(q, s, id) \in Seq(FuEntry)
         /\ FuOrdered(Matching!Rest(q, s, id))
         /\ \A k \in DOMAIN Matching!Rest(q, s, id) :
              \E i \in DOMAIN q : Matching!Rest(q, s, id)[k] = q[i]
         /\ \/ /\ Matching!Result(q, s, id) = Matching!NoMatch
               /\ \A i \in DOMAIN q : ~(q[i].source = s /\ q[i].sequenceId = id)
               /\ \A k \in DOMAIN Matching!Rest(q, s, id) :
                    Matching!Rest(q, s, id)[k].source = s =>
                      Matching!Rest(q, s, id)[k].sequenceId > id
            \/ \E i \in DOMAIN q :
                 /\ q[i].source = s /\ q[i].sequenceId = id
                 /\ Matching!Result(q, s, id) = [valid |-> TRUE, time |-> q[i].time]
                 /\ \A k \in DOMAIN Matching!Rest(q, s, id) :
                      Matching!Rest(q, s, id)[k].source = s =>
                        \/ Matching!Rest(q, s, id)[k].sequenceId > id
                        \/ Matching!Rest(q, s, id)[k].time > q[i].time
<1> DEFINE M == Matching!Matching(q, s, id)
           r == Matching!Rest(q, s, id)
           Asked(i) == q[i].source = s /\ q[i].sequenceId = id
<1>1. \A i \in DOMAIN q : q[i] \in FuEntry
  OBVIOUS
<1>2. \A e \in FuEntry : e.sequenceId \in Nat /\ e.time \in Nat
  BY DEF FuEntry
<1>3. CASE M = {}
  <2>1. r = Matching!Cleaned(q, s, id) /\ Matching!Result(q, s, id) = Matching!NoMatch
    BY <1>3 DEF Matching!Rest, Matching!Result
  <2>2. \A i \in DOMAIN q : ~Asked(i)
    <3> DEFINE Found == {i \in DOMAIN q : Asked(i)}
    <3>1. SUFFICES ASSUME Found # {} PROVE FALSE
      OBVIOUS
    <3>2. Found \subseteq Nat
      OBVIOUS
    <3>3. PICK i \in Found : \A j \in Found : i <= j
      BY <3>1, <3>2, LeastNumber
    <3>4. \A j \in 1 .. (i - 1) : ~Asked(j)
      <4>1. TAKE j \in 1 .. (i - 1)
      <4>2. j \in DOMAIN q /\ j < i
        BY <3>2, <3>3
      <4> QED BY <4>2, <3>3
    <3>5. i \in M
      BY <3>3, <3>4 DEF Matching!Matching
    <3> QED BY <3>5, <1>3
  <2>3. /\ r \in Seq(FuEntry) /\ FuOrdered(r)
        /\ \A k \in DOMAIN r : \E i \in DOMAIN q :
             r[k] = q[i] /\ ~Matching!Outdated(q[i], s, id)
    BY <2>1, CleanedLeaves
  <2> HIDE DEF r
  <2>4. ASSUME NEW k \in DOMAIN r, r[k].source = s PROVE r[k].sequenceId > id
    <3>1. PICK i \in DOMAIN q : r[k] = q[i] /\ ~Matching!Outdated(q[i], s, id)
      BY <2>3
    <3>2. q[i].sequenceId # id /\ ~(q[i].sequenceId < id)
      BY <3>1, <2>2, <2>4 DEF Matching!Outdated
    <3> QED BY <3>1, <3>2, <1>1, <1>2
  <2> QED BY <2>1, <2>2, <2>3, <2>4 DEF r
<1>4. CASE M # {}
  <2> DEFINE i == CHOOSE x \in M : TRUE
             a == Matching!Cleaned(SubSeq(q, 1, i - 1), s, id)
             b == SubSeq(q, i + 1, Len(q))
             p == SubSeq(q, 1, i - 1)
  <2>1. r = a \o b /\ Matching!Result(q, s, id) = [valid |-> TRUE, time |-> q[i].time]
    BY <1>4 DEF Matching!Rest, Matching!Result
  <2>2. i \in M
    BY <1>4
  <2>3. i \in DOMAIN q /\ Asked(i) /\ \A j \in 1 .. (i - 1) : ~Asked(j)
    BY <2>2 DEF Matching!Matching
  <2> HIDE DEF i
  <2>4. i \in 1 .. Len(q) /\ Len(q) \in Nat
    BY <2>3
  <2>5. /\ p \in Seq(FuEntry) /\ Len(p) = i - 1 /\ DOMAIN p = 1 .. (i - 1)
        /\ \A k \in 1 .. (i - 1) : p[k] = q[k]
    BY <2>4
  <2>6. /\ b \in Seq(FuEntry) /\ Len(b) = Len(q) - i /\ DOMAIN b = 1 .. (Len(q) - i)
        /\ \A k \in 1 .. (Len(q) - i) : b[k] = q[i + k]
    BY <2>4
  <2>7. FuOrdered(p)
    <3>1. \A k \in DOMAIN p : k \in DOMAIN q /\ p[k] = q[k]
      BY <2>4, <2>5
    <3> HIDE DEF p
    <3> QED BY <3>1 DEF FuOrdered
  <2>8. /\ a \in Seq(FuEntry) /\ FuOrdered(a)
        /\ \A k \in DOMAIN a : \E j \in DOMAIN p :
             a[k] = p[j] /\ ~Matching!Outdated(p[j], s, id)
    BY <2>5, <2>7, CleanedLeaves
  <2> HIDE DEF a, b, p, r
  <2>9. /\ r \in Seq(FuEntry) /\ DOMAIN r = 1 .. (Len(a) + Len(b))
        /\ \A k \in 1 .. Len(a) : r[k] = a[k]
        /\ \A k \in (Len(a) + 1) .. (Len(a) + Len(b)) : r[k] = b[k - Len(a)]
        /\ Len(a) \in Nat /\ DOMAIN a = 1 .. Len(a)
    BY <2>1, <2>6, <2>8
  <2>10. ASSUME NEW k \in DOMAIN r, k <= Len(a)
         PROVE  \E j \in 1 .. (i - 1) : r[k] = q[j] /\ ~Matching!Outdated(q[j], s, id)
    <3>1. k \in DOMAIN a /\ r[k] = a[k]
      BY <2>9, <2>10
    <3>2. PICK j \in DOMAIN p : a[k] = p[j] /\ ~Matching!Outdated(p[j], s, id)
      BY <3>1, <2>8
    <3> QED BY <3>1, <3>2, <2>5
  <2>11. ASSUME NEW k \in DOMAIN r, ~(k <= Len(a))
         PROVE  /\ k - Len(a) \in 1 .. (Len(q) - i) /\ i + (k - Len(a)) \in DOMAIN q
                /\ r[k] = q[i + (k - Len(a))]
    <3>1. k \in (Len(a) + 1) .. (Len(a) + Len(b))
      BY <2>9, <2>11
    <3>2. k - Len(a) \in 1 .. (Len(q) - i)
      BY <3>1, <2>6, <2>9
    <3>3. r[k] = b[k - Len(a)]
      BY <3>1, <2>9
    <3>4. b[k - Len(a)] = q[i + (k - Len(a))]
      BY <3>2, <2>6
    <3>5. i + (k - Len(a)) \in 1 .. Len(q)
      BY <3>2, <2>4, <2>9
    <3> QED BY <3>2, <3>3, <3>4, <3>5
  <2>12. \A k \in DOMAIN r : \E j \in DOMAIN q : r[k] = q[j]
    <3>1. TAKE k \in DOMAIN r
    <3>2. CASE k <= Len(a)
      <4>1. PICK j \in 1 .. (i - 1) : r[k] = q[j]
        BY <3>2, <2>10
      <4>2. j \in DOMAIN q
        BY <2>4
      <4> QED BY <4>1, <4>2
    <3>3. CASE ~(k <= Len(a))
      BY <3>3, <2>11
    <3> QED BY <3>2, <3>3
  <2>13. FuOrdered(r)
    <3>1. SUFFICES ASSUME NEW k \in DOMAIN r, NEW l \in DOMAIN r, k < l,
                          r[k].source = r[l].source
                   PROVE  r[k].time < r[l].time
      BY DEF FuOrdered
    <3>2. CASE l <= Len(a)
      <4>1. k \in DOMAIN a /\ l \in DOMAIN a /\ r[k] = a[k] /\ r[l] = a[l]
        BY <3>1, <3>2, <2>9
      <4> QED BY <4>1, <3>1, <2>8 DEF FuOrdered
    <3>3. CASE ~(l <= Len(a)) /\ k <= Len(a)
      <4>1. PICK j \in 1 .. (i - 1) : r[k] = q[j]
        BY <3>3, <2>10
      <4>2. /\ i + (l - Len(a)) \in DOMAIN q /\ r[l] = q[i + (l - Len(a))]
            /\ l - Len(a) \in 1 .. (Len(q) - i)
        BY <3>3, <2>11
      <4>3. j \in DOMAIN q /\ j < i + (l - Len(a))
        BY <4>2, <2>4
      <4> QED BY <4>1, <4>2, <4>3, <3>1 DEF FuOrdered
    <3>4. CASE ~(l <= Len(a)) /\ ~(k <= Len(a))
      <4>1. /\ i + (l - Len(a)) \in DOMAIN q /\ r[l] = q[i + (l - Len(a))]
            /\ i + (k - Len(a)) \in DOMAIN q /\ r[k] = q[i + (k - Len(a))]
        BY <3>4, <2>11
      <4>2. i + (k - Len(a)) < i + (l - Len(a))
        BY <3>1, <2>4, <2>9
      <4> QED BY <4>1, <4>2, <3>1 DEF FuOrdered
    <3> QED BY <3>2, <3>3, <3>4
  <2>14. ASSUME NEW k \in DOMAIN r, r[k].source = s
         PROVE  r[k].sequenceId > id \/ r[k].time > q[i].time
    <3>1. CASE k <= Len(a)
      <4>1. PICK j \in 1 .. (i - 1) : r[k] = q[j] /\ ~Matching!Outdated(q[j], s, id)
        BY <3>1, <2>10
      <4>2. j \in DOMAIN q
        BY <2>4
      <4>3. q[j].sequenceId # id /\ ~(q[j].sequenceId < id)
        BY <4>1, <2>3, <2>14 DEF Matching!Outdated
      <4> QED BY <4>1, <4>2, <4>3, <1>1, <1>2
    <3>2. CASE ~(k <= Len(a))
      <4>1. /\ i + (k - Len(a)) \in DOMAIN q /\ r[k] = q[i + (k - Len(a))]
            /\ k - Len(a) \in 1 .. (Len(q) - i)
        BY <3>2, <2>11
      <4>2. i < i + (k - Len(a))
        BY <4>1, <2>4
      <4>3. q[i].time < q[i + (k - Len(a))].time
        BY <4>1, <4>2, <2>3, <2>14 DEF FuOrdered
      <4> QED BY <4>1, <4>3, <2>3, <1>1, <1>2
    <3> QED BY <3>1, <3>2
  <2> QED BY <2>1, <2>3, <2>9, <2>12, <2>13, <2>14 DEF r
<1> QED BY <1>3, <1>4

\* Numbers of the same remainder that are less than a round apart are the same.
LEMMA SameRemainder ==
  ASSUME NEW w \in Nat \ {0}, NEW n \in Nat, NEW t \in Nat, t % w = n % w,
         t >= w * (n \div w), t < n + w
  PROVE  t = n
<1> DEFINE a == t \div w
           b == n \div w
           x == w * a
           y == w * b
<1>1. a \in Nat /\ b \in Nat /\ x <= t /\ t < x + w /\ y <= n /\ n < y + w
  BY DivNat
<1>2. t = x + (t % w) /\ n = y + (n % w)
  OBVIOUS
<1>3. x \in Int /\ y \in Int
  BY <1>1, ProductInt
<1>4. t - n = x - y
  BY <1>2, <1>3
<1>5. x - y < w /\ y < x + w
  BY <1>1, <1>3, <1>4
<1>6. (a + 1) * w = x + w /\ (b + 1) * w = y + w
  BY <1>1, TimesSum
<1> HIDE DEF x, y
<1>7. y < (a + 1) * w /\ x < (b + 1) * w
  BY <1>3, <1>5, <1>6
<1>8. b < a + 1 /\ a < b + 1
  <2> HIDE DEF a, b
  <2>1. w * b < (a + 1) * w /\ w * a < (b + 1) * w
    BY <1>7 DEF x, y
  <2> QED BY <1>1, <2>1, Cancel
<1>9. a = b
  BY <1>1, <1>8
<1> QED BY <1>2, <1>4, <1>9 DEF x, y

LEMMA QuotientIs ==
  ASSUME NEW w \in Nat \ {0}, NEW a \in Nat, NEW q \in Int, w * q <= a, a < w * q + w
  PROVE  a \div w = q
<1> DEFINE d == a \div w
           x == w * d
           y == w * q
<1>1. d \in Nat /\ x <= a /\ a < x + w
  BY DivNat
<1>2. x \in Int /\ y \in Int /\ (d + 1) * w = x + w /\ (q + 1) * w = y + w
  BY <1>1, ProductInt, TimesSum
<1>3. y <= a /\ a < y + w
  OBVIOUS
<1> HIDE DEF x, y
<1>4. y < (d + 1) * w /\ x < (q + 1) * w
  BY <1>1, <1>2, <1>3
<1> HIDE DEF d
<1>5. w * q < (d + 1) * w /\ w * d < (q + 1) * w
  BY <1>4 DEF x, y
<1>6. q < d + 1 /\ d < q + 1
  BY <1>1, <1>5, Cancel
<1>7. d = q
  BY <1>1, <1>6
<1> QED BY <1>7 DEF d

\* The next number begins another round exactly after the last number of one.
LEMMA NextRound ==
  ASSUME NEW w \in Nat \ {0}, NEW n \in Nat
  PROVE  /\ w * (n \div w) \in Nat /\ w * (n \div w) <= n
         /\ n % w \in 0 .. (w - 1)
         /\ n % w = w - 1 => w * ((n + 1) \div w) = n + 1
         /\ n % w # w - 1 => (n + 1) \div w = n \div w
<1> DEFINE q == n \div w
           r == n % w
           x == w * q
<1>1. r \in 0 .. (w - 1) /\ q \in Nat /\ n = x + r
  BY DivNat
<1>2. x \in Nat /\ (q + 1) * w = x + w
  BY <1>1, ProductInt, TimesSum
<1>3. ASSUME r = w - 1 PROVE w * ((n + 1) \div w) = n + 1
  <2>1. w * (q + 1) = n + 1
    BY <1>1, <1>2, <1>3
  <2>2. (n + 1) \div w = q + 1
    <3> DEFINE p == q + 1
    <3>1. p \in Int /\ w * p = n + 1 /\ n + 1 \in Nat
      BY <1>1, <2>1
    <3> HIDE DEF p
    <3>2. w * p <= n + 1 /\ n + 1 < w * p + w
      BY <3>1
    <3>3. (n + 1) \div w = p
      BY <3>1, <3>2, QuotientIs
    <3> QED BY <3>3 DEF p
  <2> QED BY <2>1, <2>2
<1>4. ASSUME r # w - 1 PROVE (n + 1) \div w = q
  <2>1. w * q <= n + 1 /\ n + 1 < w * q + w
    BY <1>1, <1>2, <1>4
  <2> HIDE DEF q
  <2> QED BY <1>1, <2>1, QuotientIs
<1> QED BY <1>1, <1>2, <1>3, <1>4

\* Unless a last number was lost, a pop answers for the pair it is asked for: the
\* times that are left are of this round, and its numbers differ.
LEMMA SameRound ==
  ASSUME Matching!MatchingAssumption, MatchingInv, ~fuLost, NEW s \in FuSources,
         fuWaiting[s] # <<>>, NEW i \in DOMAIN fuQueue, fuQueue[i].source = s,
         fuQueue[i].sequenceId = FuHead(s) % FuWidth
  PROVE  fuQueue[i].time = FuHead(s)
<1> DEFINE n == FuHead(s)
           t == fuQueue[i].time
<1>1. FuWidth \in Nat \ {0} /\ FuMaxAhead \in 0 .. FuWidth
  BY DEF Matching!MatchingAssumption
<1>2. /\ fuSent[s] \in Nat /\ Len(fuWaiting[s]) \in Nat
      /\ Len(fuWaiting[s]) <= FuMaxAhead /\ Len(fuWaiting[s]) <= fuSent[s]
  BY DEF MatchingInv
<1>3. n \in Nat /\ fuSent[s] <= n + FuWidth
  BY <1>1, <1>2 DEF FuHead
<1>4. t \in Nat /\ t < fuSent[s] /\ t >= FuWidth * (n \div FuWidth) /\ t % FuWidth = n % FuWidth
  <2>1. fuQueue[i] \in FuEntry
    BY DEF MatchingInv
  <2> QED BY <2>1 DEF MatchingInv, FuEntry
<1>5. t < n + FuWidth
  BY <1>2, <1>3, <1>4, <1>1
<1> HIDE DEF n, t
<1>6. t = n
  BY <1>1, <1>3, <1>4, <1>5, SameRemainder
<1> QED BY <1>6 DEF n, t

\* MatchingInv holds at the beginning.
LEMMA MatchingStarts == Matching!MatchingAssumption /\ Matching!Init => MatchingInv
<1> SUFFICES ASSUME Matching!MatchingAssumption, Matching!Init PROVE MatchingInv
  OBVIOUS
<1>1. /\ fuQueue = <<>> /\ fuSent = [s \in FuSources |-> 0]
      /\ fuWaiting = [s \in FuSources |-> <<>>] /\ fuLost = FALSE
      /\ fuAnswer = [pair |-> 0, result |-> Matching!NoMatch]
      /\ FuMaxFrames \in Nat /\ FuMaxAhead \in Nat
  BY DEF Matching!Init, Matching!MatchingAssumption
<1>2. fuQueue \in Seq(FuEntry) /\ FuOrdered(fuQueue) /\ DOMAIN fuQueue = {}
  BY <1>1 DEF FuOrdered
<1>3. ~fuAnswer.result.valid
  BY <1>1 DEF Matching!NoMatch
<1>4. \A s \in FuSources : fuWaiting[s] = <<>> /\ Len(fuWaiting[s]) = 0 /\ fuSent[s] = 0
  BY <1>1
<1>5. fuSent \in [FuSources -> 0 .. FuMaxFrames]
      /\ fuWaiting \in [FuSources -> Seq(0 .. FuMaxFrames)]
  BY <1>1
<1>6. ASSUME NEW s \in FuSources
      PROVE  /\ Len(fuWaiting[s]) <= FuMaxAhead /\ Len(fuWaiting[s]) <= fuSent[s]
             /\ \A k \in 1 .. Len(fuWaiting[s]) : fuWaiting[s][k] = FuHead(s) + k - 1
  BY <1>1, <1>4
<1>7. fuLost \in BOOLEAN /\ Matching!MatchesItsPair
  BY <1>1, <1>3 DEF Matching!MatchesItsPair
<1> QED BY <1>2, <1>5, <1>6, <1>7 DEF MatchingInv

\* What the steps have in common: one number more is begun, by source s ...
LEMMA BeginPair ==
  ASSUME Matching!MatchingAssumption, MatchingInv, NEW s \in FuSources,
         fuSent[s] < FuMaxFrames, Len(fuWaiting[s]) < FuMaxAhead,
         fuWaiting' = [fuWaiting EXCEPT ![s] = Append(@, fuSent[s])],
         fuSent' = [fuSent EXCEPT ![s] = @ + 1]
  PROVE  /\ fuSent' \in [FuSources -> 0 .. FuMaxFrames]
         /\ fuWaiting' \in [FuSources -> Seq(0 .. FuMaxFrames)]
         /\ \A u \in FuSources :
              /\ Len(fuWaiting[u])' <= FuMaxAhead /\ Len(fuWaiting[u])' <= fuSent'[u]
              /\ FuHead(u)' = FuHead(u) /\ fuSent[u] <= fuSent'[u]
              /\ \A k \in 1 .. Len(fuWaiting'[u]) : fuWaiting'[u][k] = FuHead(u)' + k - 1
         /\ FuHead(s) \in Nat /\ FuHead(s) <= fuSent[s] /\ fuSent'[s] = fuSent[s] + 1
<1>1. FuMaxFrames \in Nat /\ FuMaxAhead \in Nat
  BY DEF Matching!MatchingAssumption
<1>2. /\ fuSent \in [FuSources -> 0 .. FuMaxFrames]
      /\ fuWaiting \in [FuSources -> Seq(0 .. FuMaxFrames)]
  BY DEF MatchingInv
<1> DEFINE w == fuWaiting[s]
           n == fuSent[s]
<1>3. w \in Seq(0 .. FuMaxFrames) /\ Len(w) \in Nat /\ n \in 0 .. FuMaxFrames /\ n < FuMaxFrames
  BY <1>2
<1>4. fuWaiting'[s] = Append(w, n) /\ fuSent'[s] = n + 1
  BY <1>2
<1>5. \A u \in FuSources : u # s => fuWaiting'[u] = fuWaiting[u] /\ fuSent'[u] = fuSent[u]
  BY <1>2
<1>6. /\ Len(w) <= n /\ Len(w) < FuMaxAhead
      /\ \A k \in 1 .. Len(w) : w[k] = (n - Len(w)) + k - 1
  BY DEF MatchingInv, FuHead
<1> HIDE DEF w, n
<1>7. /\ Append(w, n) \in Seq(0 .. FuMaxFrames) /\ Len(Append(w, n)) = Len(w) + 1
      /\ \A k \in 1 .. Len(w) : Append(w, n)[k] = w[k]
      /\ Append(w, n)[Len(w) + 1] = n
  BY <1>3
<1>8. n + 1 \in 0 .. FuMaxFrames
  BY <1>1, <1>3
<1>9. ASSUME NEW u \in FuSources
      PROVE  /\ Len(fuWaiting[u])' <= FuMaxAhead /\ Len(fuWaiting[u])' <= fuSent'[u]
             /\ FuHead(u)' = FuHead(u) /\ fuSent[u] <= fuSent'[u]
             /\ \A k \in 1 .. Len(fuWaiting'[u]) : fuWaiting'[u][k] = FuHead(u)' + k - 1
  <2>1. CASE u = s
    <3>1. Len(fuWaiting'[u]) = Len(w) + 1 /\ fuSent'[u] = n + 1 /\ fuSent[u] = n
          /\ fuWaiting[u] = w
      BY <2>1, <1>4, <1>7 DEF n, w
    <3>2. FuHead(u)' = n - Len(w) /\ FuHead(u) = n - Len(w)
      BY <3>1, <1>3 DEF FuHead
    <3>3. \A k \in 1 .. Len(w) + 1 : Append(w, n)[k] = (n - Len(w)) + k - 1
      BY <1>3, <1>6, <1>7
    <3> QED BY <2>1, <3>1, <3>2, <3>3, <1>1, <1>3, <1>4, <1>6
  <2>2. CASE u # s
    <3>1. fuWaiting'[u] = fuWaiting[u] /\ fuSent'[u] = fuSent[u] /\ fuSent[u] \in Int
      BY <2>2, <1>2, <1>5
    <3> QED BY <3>1 DEF MatchingInv, FuHead
  <2> QED BY <2>1, <2>2
<1>10. fuSent' \in [FuSources -> 0 .. FuMaxFrames]
  BY <1>2, <1>8 DEF n
<1>11. fuWaiting' \in [FuSources -> Seq(0 .. FuMaxFrames)]
  BY <1>2, <1>7 DEF n, w
<1>12. FuHead(s) = n - Len(w)
  BY DEF FuHead, n, w
<1> QED BY <1>3, <1>4, <1>6, <1>9, <1>10, <1>11, <1>12 DEF n

\* ... or the second frame of the next pair comes or is lost.
LEMMA EndPair ==
  ASSUME Matching!MatchingAssumption, MatchingInv, NEW s \in FuSources,
         fuWaiting[s] # <<>>,
         fuWaiting' = [fuWaiting EXCEPT ![s] = Tail(@)], fuSent' = fuSent
  PROVE  /\ fuWaiting' \in [FuSources -> Seq(0 .. FuMaxFrames)]
         /\ \A u \in FuSources :
              /\ Len(fuWaiting[u])' <= FuMaxAhead /\ Len(fuWaiting[u])' <= fuSent'[u]
              /\ FuHead(u)' = IF u = s THEN FuHead(u) + 1 ELSE FuHead(u)
              /\ \A k \in 1 .. Len(fuWaiting'[u]) : fuWaiting'[u][k] = FuHead(u)' + k - 1
         /\ FuHead(s) \in Nat /\ Head(fuWaiting[s]) = FuHead(s)
<1>1. /\ fuSent \in [FuSources -> 0 .. FuMaxFrames]
      /\ fuWaiting \in [FuSources -> Seq(0 .. FuMaxFrames)] /\ FuMaxFrames \in Nat
  BY DEF MatchingInv, Matching!MatchingAssumption
<1> DEFINE w == fuWaiting[s]
           n == fuSent[s]
<1>2. w \in Seq(0 .. FuMaxFrames) /\ w # <<>> /\ n \in Nat
  BY <1>1
<1>3. fuWaiting'[s] = Tail(w) /\ \A u \in FuSources : u # s => fuWaiting'[u] = fuWaiting[u]
  BY <1>1
<1>4. /\ Len(w) <= n /\ Len(w) <= FuMaxAhead
      /\ \A k \in 1 .. Len(w) : w[k] = (n - Len(w)) + k - 1
  BY DEF MatchingInv, FuHead
<1>5. FuMaxAhead \in Int
  BY DEF Matching!MatchingAssumption
<1>6. FuHead(s) = n - Len(w) /\ fuWaiting[s] = w /\ fuSent'[s] = n
  BY DEF FuHead
<1> HIDE DEF w, n
<1>7. /\ Tail(w) \in Seq(0 .. FuMaxFrames) /\ Len(Tail(w)) = Len(w) - 1
      /\ Len(w) \in Nat \ {0} /\ Head(w) = w[1]
      /\ \A k \in 1 .. Len(w) - 1 : Tail(w)[k] = w[k + 1]
  BY <1>2
<1>8. ASSUME NEW u \in FuSources
      PROVE  /\ Len(fuWaiting[u])' <= FuMaxAhead /\ Len(fuWaiting[u])' <= fuSent'[u]
             /\ FuHead(u)' = IF u = s THEN FuHead(u) + 1 ELSE FuHead(u)
             /\ \A k \in 1 .. Len(fuWaiting'[u]) : fuWaiting'[u][k] = FuHead(u)' + k - 1
  <2>1. CASE u = s
    <3>1. FuHead(u)' = (n - Len(w)) + 1
      BY <2>1, <1>2, <1>3, <1>6, <1>7 DEF FuHead
    <3>2. \A k \in 1 .. Len(w) - 1 : Tail(w)[k] = (n - Len(w)) + 1 + k - 1
      <4>1. TAKE k \in 1 .. Len(w) - 1
      <4>2. k + 1 \in 1 .. Len(w) /\ k \in Int
        BY <1>7
      <4>3. w[k + 1] = (n - Len(w)) + (k + 1) - 1
        BY <4>2, <1>4
      <4> QED BY <4>2, <4>3, <1>2, <1>7
    <3> QED BY <2>1, <3>1, <3>2, <1>2, <1>3, <1>4, <1>5, <1>6, <1>7
  <2>2. CASE u # s
    <3>1. fuWaiting'[u] = fuWaiting[u] /\ fuSent'[u] = fuSent[u]
      BY <2>2, <1>3
    <3> QED BY <2>2, <3>1 DEF MatchingInv, FuHead
  <2> QED BY <2>1, <2>2
<1>9. fuWaiting' \in [FuSources -> Seq(0 .. FuMaxFrames)]
  BY <1>1, <1>7 DEF w
<1>10. FuHead(s) \in Nat /\ Head(fuWaiting[s]) = FuHead(s)
  <2>1. 1 \in 1 .. Len(w)
    BY <1>7
  <2>2. w[1] = (n - Len(w)) + 1 - 1
    BY <2>1, <1>4
  <2> QED BY <2>2, <1>2, <1>4, <1>6, <1>7
<1> QED BY <1>8, <1>9, <1>10

LEMMA FirstStep ==
  ASSUME Matching!MatchingAssumption, MatchingInv, NEW s \in FuSources, Matching!First(s)
  PROVE  MatchingInv'
<1> DEFINE n == fuSent[s]
           e == [source |-> s, sequenceId |-> n % FuWidth, time |-> n]
<1>1. /\ n < FuMaxFrames /\ Len(fuWaiting[s]) < FuMaxAhead
      /\ fuQueue' = Append(fuQueue, e)
      /\ fuWaiting' = [fuWaiting EXCEPT ![s] = Append(@, fuSent[s])]
      /\ fuSent' = [fuSent EXCEPT ![s] = @ + 1]
      /\ fuAnswer' = fuAnswer /\ fuLost' = fuLost
  BY DEF Matching!First, Matching!push, Matching!Entry, Matching!SequenceId
<1>2. /\ fuSent' \in [FuSources -> 0 .. FuMaxFrames]
      /\ fuWaiting' \in [FuSources -> Seq(0 .. FuMaxFrames)]
      /\ \A u \in FuSources :
           /\ Len(fuWaiting[u])' <= FuMaxAhead /\ Len(fuWaiting[u])' <= fuSent'[u]
           /\ FuHead(u)' = FuHead(u) /\ fuSent[u] <= fuSent'[u]
           /\ \A k \in 1 .. Len(fuWaiting'[u]) : fuWaiting'[u][k] = FuHead(u)' + k - 1
      /\ FuHead(s) \in Nat /\ FuHead(s) <= fuSent[s] /\ fuSent'[s] = fuSent[s] + 1
  BY <1>1, BeginPair
<1>3. FuWidth \in Nat \ {0} /\ n \in Nat
  BY DEF Matching!MatchingAssumption, MatchingInv
<1>4. e \in FuEntry /\ e.source = s /\ e.time = n
  BY <1>3 DEF FuEntry
<1>5. FuWidth * (FuHead(s) \div FuWidth) <= n /\ FuWidth * (FuHead(s) \div FuWidth) \in Nat
  <2>1. /\ FuWidth * (FuHead(s) \div FuWidth) \in Nat
        /\ FuWidth * (FuHead(s) \div FuWidth) <= FuHead(s)
    BY <1>2, <1>3, NextRound
  <2> QED BY <2>1, <1>2, <1>3
<1> HIDE DEF e, n
<1>6. /\ fuQueue' \in Seq(FuEntry) /\ DOMAIN fuQueue' = 1 .. (Len(fuQueue) + 1)
      /\ \A i \in 1 .. Len(fuQueue) : fuQueue'[i] = fuQueue[i]
      /\ fuQueue'[Len(fuQueue) + 1] = e
      /\ DOMAIN fuQueue = 1 .. Len(fuQueue) /\ Len(fuQueue) \in Nat
  <2>1. fuQueue \in Seq(FuEntry)
    BY DEF MatchingInv
  <2> QED BY <2>1, <1>1, <1>4
<1>7. \A i \in DOMAIN fuQueue : fuQueue[i].source \in FuSources /\ fuQueue[i].time \in Nat
  <2>1. \A i \in DOMAIN fuQueue : fuQueue[i] \in FuEntry
    BY DEF MatchingInv
  <2> QED BY <2>1 DEF FuEntry
<1>8. FuOrdered(fuQueue)'
  <2>1. SUFFICES ASSUME NEW i \in DOMAIN fuQueue', NEW j \in DOMAIN fuQueue', i < j,
                        fuQueue'[i].source = fuQueue'[j].source
                 PROVE  fuQueue'[i].time < fuQueue'[j].time
    BY DEF FuOrdered
  <2>2. i \in DOMAIN fuQueue /\ fuQueue'[i] = fuQueue[i]
    BY <2>1, <1>6
  <2>3. CASE j = Len(fuQueue) + 1
    <3>1. fuQueue'[j].source = s /\ fuQueue'[j].time = n
      BY <2>3, <1>4, <1>6
    <3>2. fuQueue[i].source = s /\ fuQueue[i].time < fuSent[s]
      BY <2>1, <2>2, <3>1 DEF MatchingInv
    <3> QED BY <2>2, <3>1, <3>2 DEF n
  <2>4. CASE j # Len(fuQueue) + 1
    <3>1. j \in DOMAIN fuQueue /\ fuQueue'[j] = fuQueue[j]
      BY <2>4, <1>6
    <3> QED BY <2>1, <2>2, <3>1 DEF MatchingInv, FuOrdered
  <2> QED BY <2>3, <2>4
<1>9. ASSUME NEW i \in DOMAIN fuQueue', NEW u \in FuSources, fuQueue'[i].source = u
      PROVE  /\ fuQueue'[i].time < fuSent'[u]
             /\ ~fuLost' => fuQueue'[i].time >= FuWidth * (FuHead(u)' \div FuWidth)
  <2>1. CASE i = Len(fuQueue) + 1
    <3>1. u = s /\ fuQueue'[i].time = n
      BY <2>1, <1>4, <1>6, <1>9
    <3> QED BY <3>1, <1>2, <1>3, <1>5 DEF n
  <2>2. CASE i # Len(fuQueue) + 1
    <3>1. i \in DOMAIN fuQueue /\ fuQueue'[i] = fuQueue[i]
      BY <2>2, <1>6
    <3> DEFINE t == fuQueue[i].time
    <3>2. t \in Nat /\ t < fuSent[u] /\ (~fuLost => t >= FuWidth * (FuHead(u) \div FuWidth))
      BY <3>1, <1>7, <1>9 DEF MatchingInv
    <3>3. fuQueue'[i].time = t
      BY <3>1
    <3> HIDE DEF t
    <3>4. fuSent[u] \in Nat /\ fuSent'[u] \in Nat /\ fuSent[u] <= fuSent'[u]
          /\ FuHead(u)' = FuHead(u)
      BY <1>2 DEF MatchingInv
    <3>5. t < fuSent'[u]
      BY <3>2, <3>4
    <3> QED BY <3>2, <3>3, <3>4, <3>5, <1>1
  <2> QED BY <2>1, <2>2
<1>10. fuLost' \in BOOLEAN /\ Matching!MatchesItsPair'
  BY <1>1 DEF MatchingInv, Matching!MatchesItsPair
<1> QED BY <1>2, <1>6, <1>8, <1>9, <1>10 DEF MatchingInv

LEMMA LoseFirstStep ==
  ASSUME Matching!MatchingAssumption, MatchingInv, NEW s \in FuSources,
         Matching!LoseFirst(s)
  PROVE  MatchingInv'
<1>1. /\ fuSent[s] < FuMaxFrames /\ Len(fuWaiting[s]) < FuMaxAhead
      /\ fuWaiting' = [fuWaiting EXCEPT ![s] = Append(@, fuSent[s])]
      /\ fuSent' = [fuSent EXCEPT ![s] = @ + 1]
      /\ fuQueue' = fuQueue /\ fuAnswer' = fuAnswer /\ fuLost' = fuLost
  BY DEF Matching!LoseFirst
<1>2. /\ fuSent' \in [FuSources -> 0 .. FuMaxFrames]
      /\ fuWaiting' \in [FuSources -> Seq(0 .. FuMaxFrames)]
      /\ \A u \in FuSources :
           /\ Len(fuWaiting[u])' <= FuMaxAhead /\ Len(fuWaiting[u])' <= fuSent'[u]
           /\ FuHead(u)' = FuHead(u) /\ fuSent[u] <= fuSent'[u]
           /\ \A k \in 1 .. Len(fuWaiting'[u]) : fuWaiting'[u][k] = FuHead(u)' + k - 1
  BY <1>1, BeginPair
<1>3. ASSUME NEW i \in DOMAIN fuQueue, NEW u \in FuSources, fuQueue[i].source = u
      PROVE  /\ fuQueue[i].time < fuSent'[u]
             /\ ~fuLost => fuQueue[i].time >= FuWidth * (FuHead(u)' \div FuWidth)
  <2> DEFINE t == fuQueue[i].time
  <2>1. fuQueue[i] \in FuEntry
    BY DEF MatchingInv
  <2>2. t \in Nat /\ t < fuSent[u] /\ (~fuLost => t >= FuWidth * (FuHead(u) \div FuWidth))
    BY <2>1, <1>3 DEF MatchingInv, FuEntry
  <2> HIDE DEF t
  <2>3. fuSent[u] \in Nat /\ fuSent'[u] \in Nat /\ fuSent[u] <= fuSent'[u]
        /\ FuHead(u)' = FuHead(u)
    BY <1>2 DEF MatchingInv
  <2>4. t < fuSent'[u]
    BY <2>2, <2>3
  <2>5. ~fuLost => t >= FuWidth * (FuHead(u)' \div FuWidth)
    BY <2>2, <2>3
  <2> QED BY <2>4, <2>5 DEF t
<1>4. fuQueue' \in Seq(FuEntry) /\ FuOrdered(fuQueue)' /\ fuLost' \in BOOLEAN
      /\ Matching!MatchesItsPair'
  BY <1>1 DEF MatchingInv, Matching!MatchesItsPair
<1> QED BY <1>1, <1>2, <1>3, <1>4 DEF MatchingInv

\* After the pair n of source s no time of an earlier round is left: neither those
\* that were left before, nor those that are not after n, if n was the last number.
LEMMA NextPair ==
  ASSUME Matching!MatchingAssumption, NEW n \in Nat, NEW t \in Nat,
         t >= FuWidth * (n \div FuWidth), n % FuWidth = FuWidth - 1 => t > n
  PROVE  t >= FuWidth * ((n + 1) \div FuWidth)
<1>1. FuWidth \in Nat \ {0}
  BY DEF Matching!MatchingAssumption
<1>2. CASE n % FuWidth = FuWidth - 1
  <2>1. FuWidth * ((n + 1) \div FuWidth) = n + 1
    BY <1>1, <1>2, NextRound
  <2> QED BY <2>1, <1>2
<1>3. CASE n % FuWidth # FuWidth - 1
  <2>1. (n + 1) \div FuWidth = n \div FuWidth
    BY <1>1, <1>3, NextRound
  <2> QED BY <2>1
<1> QED BY <1>2, <1>3

LEMMA LoseSecondStep ==
  ASSUME Matching!MatchingAssumption, MatchingInv, NEW s \in FuSources,
         Matching!LoseSecond(s)
  PROVE  MatchingInv'
<1>1. /\ fuWaiting[s] # <<>> /\ fuWaiting' = [fuWaiting EXCEPT ![s] = Tail(@)]
      /\ fuLost' = (fuLost \/ Head(fuWaiting[s]) % FuWidth = FuWidth - 1)
      /\ fuSent' = fuSent /\ fuQueue' = fuQueue /\ fuAnswer' = fuAnswer
  BY DEF Matching!LoseSecond, Matching!SequenceId
<1>2. /\ fuWaiting' \in [FuSources -> Seq(0 .. FuMaxFrames)]
      /\ \A u \in FuSources :
           /\ Len(fuWaiting[u])' <= FuMaxAhead /\ Len(fuWaiting[u])' <= fuSent'[u]
           /\ FuHead(u)' = IF u = s THEN FuHead(u) + 1 ELSE FuHead(u)
           /\ \A k \in 1 .. Len(fuWaiting'[u]) : fuWaiting'[u][k] = FuHead(u)' + k - 1
      /\ FuHead(s) \in Nat /\ Head(fuWaiting[s]) = FuHead(s)
  BY <1>1, EndPair
<1>3. ASSUME NEW i \in DOMAIN fuQueue, NEW u \in FuSources, fuQueue[i].source = u
      PROVE  /\ fuQueue[i].time < fuSent[u]
             /\ ~fuLost' => fuQueue[i].time >= FuWidth * (FuHead(u)' \div FuWidth)
  <2>1. fuQueue[i] \in FuEntry
    BY DEF MatchingInv
  <2>2. fuQueue[i].time \in Nat
    BY <2>1 DEF FuEntry
  <2>3. fuQueue[i].time < fuSent[u]
    BY <1>3 DEF MatchingInv
  <2>4. ASSUME ~fuLost'
        PROVE  fuQueue[i].time >= FuWidth * (FuHead(u)' \div FuWidth)
    <3>1. ~fuLost /\ FuHead(s) % FuWidth # FuWidth - 1
      BY <2>4, <1>1, <1>2
    <3>2. fuQueue[i].time >= FuWidth * (FuHead(u) \div FuWidth)
      BY <3>1, <1>3 DEF MatchingInv
    <3>3. CASE u # s
      BY <3>2, <3>3, <1>2
    <3>4. CASE u = s
      <4>1. FuHead(u)' = FuHead(s) + 1 /\ FuHead(s) \in Nat /\ FuHead(u) = FuHead(s)
        BY <3>4, <1>2
      <4> QED BY <4>1, <3>1, <3>2, <2>2, NextPair
    <3> QED BY <3>3, <3>4
  <2> QED BY <2>3, <2>4
<1>4. fuQueue' \in Seq(FuEntry) /\ FuOrdered(fuQueue)' /\ fuLost' \in BOOLEAN
      /\ Matching!MatchesItsPair' /\ fuSent' \in [FuSources -> 0 .. FuMaxFrames]
  BY <1>1 DEF MatchingInv, Matching!MatchesItsPair
<1> QED BY <1>1, <1>2, <1>3, <1>4 DEF MatchingInv

LEMMA SecondStep ==
  ASSUME Matching!MatchingAssumption, MatchingInv, NEW s \in FuSources,
         Matching!Second(s)
  PROVE  MatchingInv'
<1> DEFINE n == FuHead(s)
           id == n % FuWidth
           r == Matching!Rest(fuQueue, s, id)
           a == Matching!Result(fuQueue, s, id)
<1>1. /\ fuWaiting[s] # <<>> /\ fuWaiting' = [fuWaiting EXCEPT ![s] = Tail(@)]
      /\ fuSent' = fuSent /\ fuLost' = fuLost
  BY DEF Matching!Second
<1>2. /\ fuWaiting' \in [FuSources -> Seq(0 .. FuMaxFrames)]
      /\ \A u \in FuSources :
           /\ Len(fuWaiting[u])' <= FuMaxAhead /\ Len(fuWaiting[u])' <= fuSent'[u]
           /\ FuHead(u)' = IF u = s THEN FuHead(u) + 1 ELSE FuHead(u)
           /\ \A k \in 1 .. Len(fuWaiting'[u]) : fuWaiting'[u][k] = FuHead(u)' + k - 1
      /\ n \in Nat /\ Head(fuWaiting[s]) = n
  BY <1>1, EndPair
<1>3. fuQueue' = r /\ fuAnswer' = [pair |-> n, result |-> a]
  BY <1>2 DEF Matching!Second, Matching!SequenceId
<1>4. fuQueue \in Seq(FuEntry) /\ FuOrdered(fuQueue)
  BY DEF MatchingInv
<1>5. FuWidth \in Nat \ {0} /\ id \in 0 .. (FuWidth - 1)
  BY <1>2, NextRound DEF Matching!MatchingAssumption
<1> HIDE DEF r, a, id, n
<1>6. /\ r \in Seq(FuEntry) /\ FuOrdered(r)
      /\ \A k \in DOMAIN r : \E i \in DOMAIN fuQueue : r[k] = fuQueue[i]
      /\ \/ /\ a = Matching!NoMatch
            /\ \A k \in DOMAIN r : r[k].source = s => r[k].sequenceId > id
         \/ \E i \in DOMAIN fuQueue :
              /\ fuQueue[i].source = s /\ fuQueue[i].sequenceId = id
              /\ a = [valid |-> TRUE, time |-> fuQueue[i].time]
              /\ \A k \in DOMAIN r : r[k].source = s =>
                   r[k].sequenceId > id \/ r[k].time > fuQueue[i].time
  <2>1. id \in Nat
    BY <1>5
  <2> QED BY <2>1, <1>4, PopLeaves DEF r, a
<1>7. ASSUME ~fuLost, NEW i \in DOMAIN fuQueue, fuQueue[i].source = s,
             fuQueue[i].sequenceId = id
      PROVE  fuQueue[i].time = n
  BY <1>1, <1>7, SameRound DEF n, id
<1>8. Matching!MatchesItsPair'
  <2>1. SUFFICES ASSUME a.valid, ~fuLost PROVE a.time = n
    BY <1>1, <1>3 DEF Matching!MatchesItsPair
  <2>2. a # Matching!NoMatch
    BY <2>1 DEF Matching!NoMatch
  <2> QED BY <2>1, <2>2, <1>6, <1>7
<1>9. ASSUME NEW k \in DOMAIN r, NEW u \in FuSources, r[k].source = u
      PROVE  /\ r[k].time < fuSent[u]
             /\ ~fuLost => r[k].time >= FuWidth * (FuHead(u)' \div FuWidth)
  <2>1. PICK j \in DOMAIN fuQueue : r[k] = fuQueue[j]
    BY <1>6
  <2>2. r[k] \in FuEntry
    BY <1>6
  <2>3. r[k].time \in Nat /\ r[k].sequenceId = r[k].time % FuWidth
    BY <2>2 DEF FuEntry
  <2>4. r[k].time < fuSent[u]
    BY <2>1, <1>9 DEF MatchingInv
  <2>5. ASSUME ~fuLost PROVE r[k].time >= FuWidth * (FuHead(u)' \div FuWidth)
    <3>1. r[k].time >= FuWidth * (FuHead(u) \div FuWidth)
      BY <2>1, <2>5, <1>9 DEF MatchingInv
    <3>2. CASE u # s
      BY <3>1, <3>2, <1>2
    <3>3. CASE u = s
      <4>1. FuHead(u)' = n + 1 /\ FuHead(u) = n
        BY <3>3, <1>2 DEF n
      <4>2. ASSUME id = FuWidth - 1 PROVE r[k].time > n
        <5>1. r[k].sequenceId \in 0 .. (FuWidth - 1)
          BY <2>3, <1>5, NextRound
        <5>2. ~(r[k].sequenceId > id)
          BY <5>1, <4>2, <1>5
        <5>3. PICK i \in DOMAIN fuQueue :
                /\ fuQueue[i].source = s /\ fuQueue[i].sequenceId = id
                /\ r[k].time > fuQueue[i].time
          BY <5>2, <1>6, <1>9, <3>3
        <5> QED BY <5>3, <2>5, <1>7
      <4> QED BY <4>1, <4>2, <3>1, <2>3, <1>2, NextPair DEF id
    <3> QED BY <3>2, <3>3
  <2> QED BY <2>4, <2>5
<1>10. fuLost' \in BOOLEAN /\ fuSent' \in [FuSources -> 0 .. FuMaxFrames]
       /\ fuQueue' \in Seq(FuEntry) /\ FuOrdered(fuQueue)'
  BY <1>1, <1>3, <1>6 DEF MatchingInv, FuOrdered
<1>11. \A k \in DOMAIN fuQueue', u \in FuSources : fuQueue'[k].source = u =>
         /\ fuQueue'[k].time < fuSent'[u]
         /\ ~fuLost' => fuQueue'[k].time >= FuWidth * (FuHead(u)' \div FuWidth)
  BY <1>1, <1>3, <1>9
<1> QED BY <1>2, <1>8, <1>10, <1>11 DEF MatchingInv

LEMMA MatchingStep ==
  ASSUME Matching!MatchingAssumption, MatchingInv, [Matching!Next]_fuVars
  PROVE  MatchingInv'
<1>1. CASE Matching!Next
  BY <1>1, FirstStep, LoseFirstStep, SecondStep, LoseSecondStep DEF Matching!Next
<1>2. CASE UNCHANGED fuVars
  BY <1>2 DEF fuVars, MatchingInv, FuHead, FuOrdered, Matching!MatchesItsPair
<1> QED BY <1>1, <1>2

LEMMA MatchingInvariance == ASSUME Matching!MatchingAssumption PROVE MatchingRun => []MatchingInv
BY MatchingStarts, MatchingStep, PTL DEF MatchingRun

\* MatchesItsPair: for any number of sources, frames and sequence numbers, the
\* second frame of a pair is never given the time of another one, as long as no
\* second frame of a last number is lost.
THEOREM MatchesOnlyItsPair == CSpec => []MatchesItsPair
<1>1. MatchingRun => []MatchingInv
  BY MatchingInvariance, ComponentsAssumption DEF ComponentsAssumption
<1>2. MatchingInv => MatchesItsPair
  BY DEF MatchingInv, MatchesItsPair
<1> QED BY <1>1, <1>2, EachRuns, PTL

-----------------------------------------------------------------------------
(* The way of a frame *)

\* An address table is right when each node is behind the gate it gives.
TableRight(n, t) ==
  /\ DOMAIN t \subseteq FpNodes \cup {Path!Blank}
  /\ \A a \in DOMAIN t : /\ t[a] \in Path!AllGates(n)
                         /\ a \in FpNodes => /\ t[a] \in Path!Ports(n)
                                             /\ a \in FpBeyond[n][t[a]]

PathFrame ==
  {f \in [etherType : {"PTP", "DATA"}, type : FpTypes \cup {"NONE"}, src : FpNodes,
          dest : FpNodes \cup {Path!Multicast}, port : Int] :
     /\ f.dest # f.src
     /\ f.etherType = "PTP" => f.dest = Path!Multicast /\ f.port + 1 \in Path!Ports(f.src)}

\* Frame f comes from where its sender is; a PTP message has only come past
\* nodes that pass it on.
ComesFrom(f, n, g) ==
  /\ n \in FpNodes /\ g \in Path!Ports(n) /\ f.src \in FpBeyond[n][g]
  /\ f.etherType = "PTP" =>
       /\ n \in FpBeyond[f.src][f.port + 1]
       /\ \A k \in FpNodes : Path!Between(k, f.src, n) => Path!PassesOn(k, f.type)

\* The relay unit of n has frame f before it: its own, or one that came in.
AtRelay(f, n, g) ==
  \/ /\ g = Path!InternalPort /\ n = f.src /\ n \in FpNodes
     /\ f.etherType = "PTP" => FpPtpEnable[n]
  \/ g # Path!InternalPort /\ ComesFrom(f, n, g)

\* What the axioms of the network say of a node and of a link.
LEMMA Behind ==
  ASSUME Path!PathAssumption, NEW n \in FpNodes
  PROVE  /\ \A d \in FpNodes \ {n} : \E g \in Path!Ports(n) : d \in FpBeyond[n][g]
         /\ \A g \in Path!Ports(n) : /\ FpBeyond[n][g] \subseteq FpNodes \ {n}
                                     /\ g \in Nat \ {Path!InternalPort}
         /\ \A g, h \in Path!Ports(n), d \in FpNodes :
              d \in FpBeyond[n][g] /\ d \in FpBeyond[n][h] => g = h
         /\ Path!Multicast \notin FpNodes /\ Path!Blank \notin FpNodes
         /\ FpClockType[n] \in {"ORDINARY", "TRANSPARENT"}
<1>1. UNION {FpBeyond[n][g] : g \in Path!Ports(n)} = FpNodes \ {n}
  BY DEF Path!PathAssumption
<1>2. \A d \in FpNodes \ {n} : \E g \in Path!Ports(n) : d \in FpBeyond[n][g]
  BY <1>1
<1>3. \A g \in Path!Ports(n) : FpBeyond[n][g] \subseteq FpNodes \ {n}
  BY <1>1
<1> QED BY <1>2, <1>3 DEF Path!PathAssumption

LEMMA Linked ==
  ASSUME Path!PathAssumption, NEW n \in FpNodes, NEW g \in Path!Ports(n),
         NEW m, m = FpLink[n][g][1], NEW h, h = FpLink[n][g][2]
  PROVE  /\ m \in FpNodes /\ h \in Path!Ports(m) /\ m \in FpBeyond[n][g]
         /\ FpBeyond[m][h] = FpNodes \ FpBeyond[n][g]
         /\ \A k \in FpNodes \ {n, m} : \A i \in Path!Ports(k) :
              n \in FpBeyond[k][i] <=> m \in FpBeyond[k][i]
<1>1. /\ m \in FpNodes /\ h \in Path!Ports(m)
      /\ FpBeyond[m][h] = FpNodes \ FpBeyond[n][g]
      /\ \A k \in FpNodes \ {n, m} : \A i \in Path!Ports(k) :
           n \in FpBeyond[k][i] <=> m \in FpBeyond[k][i]
  BY DEF Path!PathAssumption
<1>2. m \notin FpBeyond[m][h]
  BY <1>1, Behind
<1> QED BY <1>1, <1>2

\* What a relay unit learns is right.
LEMMA LearnsRight ==
  ASSUME Path!PathAssumption, NEW n \in FpNodes, TableRight(n, fpTable[n]), NEW f \in PathFrame,
         NEW g, AtRelay(f, n, g), NEW src,
         src = IF g = Path!InternalPort THEN Path!Blank ELSE f.src
  PROVE  TableRight(n, Path!Learn(n, src, g))
<1>1. Path!Blank \notin FpNodes
  BY Behind
<1>2. f.src \in FpNodes
  BY DEF PathFrame
<1> QED BY <1>1, <1>2 DEF TableRight, Path!Learn, AtRelay, ComesFrom, Path!AllGates

\* A frame leaves by other gates than it came in; where it goes on to, it comes
\* from its sender.
LEMMA LeavesAway ==
  ASSUME Path!PathAssumption, NEW n \in FpNodes, NEW t, TableRight(n, t), NEW f \in PathFrame,
         NEW g, AtRelay(f, n, g), NEW h \in Path!DispatchFrame(n, t, f, g),
         h # Path!InternalPort
  PROVE  /\ h \in Path!Ports(n) /\ h # g
         /\ ComesFrom(f, FpLink[n][h][1], FpLink[n][h][2])
<1> DEFINE m == FpLink[n][h][1]
           i == FpLink[n][h][2]
<1>1. /\ f.src \in FpNodes /\ f.dest # f.src
      /\ f.etherType = "PTP" => /\ f.dest = Path!Multicast /\ f.port \in Int
                                /\ f.port + 1 \in Path!Ports(f.src)
  BY DEF PathFrame
<1>2. f.etherType = "PTP" /\ g = Path!InternalPort => f.port + 1 \in Nat \ {0} /\ f.port >= 0
  BY <1>1, Behind DEF Path!InternalPort, AtRelay
<1>3. h \in Path!AllGates(n) /\ h # g
  <2>1. \/ h \in Path!AllGates(n) \ {g} \/ h \in {Path!InternalPort}
        \/ /\ g = Path!InternalPort /\ n = f.src /\ f.etherType = "PTP"
           /\ h = Path!GateOf(f.port)
        \/ f.dest \in DOMAIN t /\ h \in {t[f.dest]} \ {g}
    <3>1. CASE f.dest = n
      BY <3>1 DEF Path!DispatchFrame
    <3>2. CASE f.dest # n /\ FpPtpEnable[n] /\ f.etherType = "PTP"
      <4>1. CASE g = Path!InternalPort
        <5>1. h \in {Path!GateOf(f.port)}
          BY <3>2, <4>1 DEF Path!DispatchFrame
        <5> QED BY <5>1, <3>2, <4>1 DEF AtRelay
      <4>2. CASE g # Path!InternalPort
        <5>1. h \in Path!Dispatch(FpClockType[n], Path!AllGates(n), f.type, g)
          BY <3>2, <4>2 DEF Path!DispatchFrame
        <5> QED BY <5>1 DEF Path!Dispatch
      <4> QED BY <4>1, <4>2
    <3>3. CASE f.dest # n /\ ~(FpPtpEnable[n] /\ f.etherType = "PTP")
      <4>1. h \in Path!broadcastFrame(n, g) \/ h \in Path!unicastFrame(n, t, f.dest, g)
        BY <3>3 DEF Path!DispatchFrame
      <4>2. \/ h \in Path!AllGates(n) \ {g}
            \/ f.dest \in DOMAIN t /\ h \in {t[f.dest]} \ {g}
        BY <4>1 DEF Path!broadcastFrame, Path!unicastFrame
      <4> QED BY <4>2
    <3> QED BY <3>1, <3>2, <3>3
  <2>2. f.dest \in DOMAIN t => t[f.dest] \in Path!AllGates(n)
    BY DEF TableRight
  <2>3. g = Path!InternalPort /\ n = f.src /\ f.etherType = "PTP" =>
          Path!GateOf(f.port) \in Path!AllGates(n) /\ Path!GateOf(f.port) # g
    BY <1>1, <1>2 DEF Path!GateOf, Path!InternalPort, Path!AllGates
  <2> QED BY <2>1, <2>2, <2>3
<1>4. h \in Path!Ports(n)
  BY <1>3 DEF Path!AllGates
<1>5. /\ m \in FpNodes /\ i \in Path!Ports(m) /\ m \in FpBeyond[n][h]
      /\ FpBeyond[m][i] = FpNodes \ FpBeyond[n][h]
      /\ \A k \in FpNodes \ {n, m} : \A j \in Path!Ports(k) :
           n \in FpBeyond[k][j] <=> m \in FpBeyond[k][j]
  BY <1>4, Linked
<1>6. f.src \notin FpBeyond[n][h]
  <2>1. CASE g = Path!InternalPort
    BY <2>1, <1>4, Behind DEF AtRelay
  <2>2. CASE g # Path!InternalPort
    BY <2>2, <1>1, <1>3, <1>4, Behind DEF AtRelay, ComesFrom
  <2> QED BY <2>1, <2>2
<1>7. m # f.src
  BY <1>5, <1>6
<1>8. ASSUME f.etherType = "PTP"
      PROVE  /\ m \in FpBeyond[f.src][f.port + 1]
             /\ \A k \in FpNodes : Path!Between(k, f.src, m) => Path!PassesOn(k, f.type)
  <2>1. CASE g = Path!InternalPort
    <3>1. n = f.src
      BY <2>1 DEF AtRelay
    <3>2. h = f.port + 1
      BY <1>1, <1>2, <1>8, <2>1, <3>1, Behind
         DEF Path!DispatchFrame, Path!GateOf, Path!InternalPort, AtRelay
    <3> QED BY <3>1, <3>2, <1>5, <1>7, Behind DEF Path!Between
  <2>2. CASE g # Path!InternalPort
    <3>1. ComesFrom(f, n, g)
      BY <2>2 DEF AtRelay
    <3>2. n # f.src
      BY <3>1, Behind DEF ComesFrom
    <3>3. m \in FpBeyond[f.src][f.port + 1]
      BY <1>1, <1>5, <1>7, <1>8, <3>1, <3>2 DEF ComesFrom
    <3>4. ASSUME NEW k \in FpNodes, Path!Between(k, f.src, m)
          PROVE  Path!PassesOn(k, f.type)
      <4>1. CASE k = n
        <5>1. CASE FpPtpEnable[n]
          <6>1. ~(f.dest = n)
            BY <1>1, <1>8, Behind
          <6>2. h \in Path!Dispatch(FpClockType[n], Path!AllGates(n), f.type, g)
            BY <6>1, <5>1, <1>8, <2>2 DEF Path!DispatchFrame
          <6>3. FpClockType[n] = "TRANSPARENT" /\ f.type \notin Path!PDelayTypes
            BY <6>2, Behind DEF Path!Dispatch, Path!PDelayTypes
          <6> QED BY <6>3, <4>1 DEF Path!PassesOn
        <5> QED BY <5>1, <4>1 DEF Path!PassesOn
      <4>2. CASE k # n
        <5>1. Path!Between(k, f.src, n)
          BY <4>2, <3>4, <1>5 DEF Path!Between
        <5> QED BY <5>1, <1>8, <3>1 DEF ComesFrom
      <4> QED BY <4>1, <4>2
    <3> QED BY <3>3, <3>4
  <2> QED BY <2>1, <2>2
<1> QED BY <1>1, <1>3, <1>4, <1>5, <1>6, <1>8 DEF ComesFrom

\* Towards each node that a frame is for, one copy leaves.
LEMMA LeavesToward ==
  ASSUME Path!PathAssumption, NEW n \in FpNodes, NEW t, TableRight(n, t), NEW f \in PathFrame,
         NEW g, AtRelay(f, n, g), NEW d \in Path!Receivers(f), d # n,
         g # Path!InternalPort => d \notin FpBeyond[n][g]
  PROVE  \E h \in Path!Ports(n) : /\ d \in FpBeyond[n][h]
                                  /\ h \in Path!DispatchFrame(n, t, f, g)
<1>1. d \in FpNodes \ {n}
  BY DEF Path!Receivers
<1>2. PICK h \in Path!Ports(n) : d \in FpBeyond[n][h]
  BY <1>1, Behind
<1>3. h # g /\ h \in Path!AllGates(n) \ {g}
  BY <1>2, Behind DEF Path!AllGates
<1>4. /\ f.src \in FpNodes /\ f.dest # f.src
      /\ f.etherType \in {"PTP", "DATA"}
      /\ f.etherType = "PTP" => /\ f.dest = Path!Multicast /\ f.port \in Int
                                /\ f.port + 1 \in Path!Ports(f.src)
      /\ Path!Multicast \notin FpNodes
  BY Behind DEF PathFrame
<1>5. CASE f.etherType = "PTP"
  <2>1. /\ d \in FpBeyond[f.src][f.port + 1]
        /\ \A k \in FpNodes : Path!Between(k, f.src, d) => Path!PassesOn(k, f.type)
    BY <1>5 DEF Path!Receivers
  <2>2. f.dest # n
    BY <1>4, <1>5
  <2>3. CASE g = Path!InternalPort
    <3>1. n = f.src /\ FpPtpEnable[n]
      BY <2>3, <1>5 DEF AtRelay
    <3>2. h = f.port + 1
      BY <3>1, <2>1, <1>1, <1>2, <1>4, <1>5, Behind
    <3>3. Path!GateOf(f.port) = f.port + 1
      BY <3>1, <1>4, <1>5, Behind DEF Path!GateOf, Path!InternalPort
    <3>4. Path!DispatchFrame(n, t, f, g) = {Path!GateOf(f.port)}
      BY <2>2, <2>3, <3>1, <1>5 DEF Path!DispatchFrame
    <3> QED BY <1>2, <3>2, <3>3, <3>4
  <2>4. CASE g # Path!InternalPort
    <3>1. ComesFrom(f, n, g)
      BY <2>4 DEF AtRelay
    <3>2. CASE FpPtpEnable[n]
      <4>1. Path!Between(n, f.src, d)
        BY <3>1, <2>4, <1>1, <1>4, Behind DEF Path!Between, ComesFrom
      <4>2. FpClockType[n] = "TRANSPARENT" /\ f.type \notin Path!PDelayTypes
        BY <4>1, <2>1, <3>2 DEF Path!PassesOn
      <4>3. Path!DispatchFrame(n, t, f, g)
              = Path!Dispatch(FpClockType[n], Path!AllGates(n), f.type, g)
        BY <2>2, <2>4, <3>2, <1>5 DEF Path!DispatchFrame
      <4> QED BY <1>2, <1>3, <4>2, <4>3 DEF Path!Dispatch, Path!PDelayTypes
    <3>3. CASE ~FpPtpEnable[n]
      <4>1. Path!DispatchFrame(n, t, f, g) = Path!broadcastFrame(n, g)
        BY <2>2, <3>3, <1>4, <1>5 DEF Path!DispatchFrame
      <4> QED BY <1>2, <1>3, <4>1 DEF Path!broadcastFrame
    <3> QED BY <3>2, <3>3
  <2> QED BY <2>3, <2>4
<1>6. CASE f.etherType # "PTP"
  <2>1. f.dest \in {d, Path!Multicast} /\ f.dest # n
    BY <1>6, <1>1, <1>4 DEF Path!Receivers
  <2>2. CASE f.dest = Path!Multicast
    <3>1. Path!DispatchFrame(n, t, f, g) = Path!broadcastFrame(n, g)
      BY <2>1, <2>2, <1>6 DEF Path!DispatchFrame
    <3> QED BY <1>2, <1>3, <3>1 DEF Path!broadcastFrame
  <2>3. CASE f.dest = d
    <3>1. Path!DispatchFrame(n, t, f, g) = Path!unicastFrame(n, t, d, g)
      BY <2>1, <2>3, <1>1, <1>4, <1>6 DEF Path!DispatchFrame
    <3>2. CASE d \in DOMAIN t
      <4>1. t[d] = h
        BY <3>2, <1>1, <1>2, Behind DEF TableRight
      <4> QED BY <4>1, <3>1, <3>2, <1>2, <1>3 DEF Path!unicastFrame
    <3>3. CASE d \notin DOMAIN t
      BY <3>1, <3>3, <1>2, <1>3 DEF Path!unicastFrame, Path!broadcastFrame
    <3> QED BY <3>2, <3>3
  <2> QED BY <2>1, <2>2, <2>3
<1> QED BY <1>5, <1>6

\* A frame that came to a node it is for is handed up there, and to no sender.
LEMMA HandedUp ==
  ASSUME Path!PathAssumption, NEW n \in FpNodes, NEW t, TableRight(n, t), NEW f \in PathFrame,
         NEW g, AtRelay(f, n, g)
  PROVE  /\ g = Path!InternalPort => Path!InternalPort \notin Path!DispatchFrame(n, t, f, g)
         /\ g # Path!InternalPort =>
              /\ n # f.src
              /\ f.etherType = "PTP" => n \in Path!Receivers(f)
              /\ n \in Path!Receivers(f) =>
                   Path!InternalPort \in Path!DispatchFrame(n, t, f, g)
<1>1. /\ f.src \in FpNodes /\ f.dest # f.src
      /\ f.etherType \in {"PTP", "DATA"}
      /\ f.etherType = "PTP" => /\ f.dest = Path!Multicast /\ f.port \in Int
                                /\ f.port + 1 \in Path!Ports(f.src)
      /\ Path!Multicast \notin FpNodes
  BY Behind DEF PathFrame
<1>2. ASSUME g = Path!InternalPort
      PROVE  Path!InternalPort \notin Path!DispatchFrame(n, t, f, g)
  <2>1. n = f.src
    BY <1>2 DEF AtRelay
  <2>2. CASE f.etherType = "PTP"
    <3>1. Path!DispatchFrame(n, t, f, g) = {Path!GateOf(f.port)}
      BY <1>1, <1>2, <2>1, <2>2 DEF Path!DispatchFrame, AtRelay
    <3>2. f.port >= 0
      BY <1>1, <2>2, Behind DEF Path!InternalPort
    <3> QED BY <1>1, <2>2, <3>1, <3>2 DEF Path!GateOf, Path!InternalPort
  <2>3. CASE f.etherType # "PTP"
    <3>1. \/ Path!DispatchFrame(n, t, f, g) = Path!broadcastFrame(n, g)
          \/ Path!DispatchFrame(n, t, f, g) = Path!unicastFrame(n, t, f.dest, g)
      BY <1>1, <2>1, <2>3 DEF Path!DispatchFrame
    <3> QED BY <1>2, <3>1 DEF Path!broadcastFrame, Path!unicastFrame
  <2> QED BY <2>2, <2>3
<1>3. ASSUME g # Path!InternalPort
      PROVE  /\ n # f.src
             /\ f.etherType = "PTP" => n \in Path!Receivers(f)
  BY <1>3, Behind DEF AtRelay, ComesFrom, Path!Receivers
<1>4. ASSUME g # Path!InternalPort, n \in Path!Receivers(f)
      PROVE  Path!InternalPort \in Path!DispatchFrame(n, t, f, g)
  <2>1. Path!InternalPort \in Path!broadcastFrame(n, g)
    BY <1>4 DEF Path!broadcastFrame, Path!AllGates
  <2>2. Path!InternalPort \in Path!Dispatch(FpClockType[n], Path!AllGates(n), f.type, g)
    BY <1>4 DEF Path!Dispatch, Path!AllGates
  <2>3. f.etherType = "PTP" \/ f.dest \in {n, Path!Multicast}
    BY <1>4 DEF Path!Receivers
  <2> QED BY <1>1, <1>4, <2>1, <2>2, <2>3 DEF Path!DispatchFrame
<1> QED BY <1>2, <1>3, <1>4

\* The copies that a relay unit sends on by gates outs of n.
Copies(n, id, outs) ==
  {[id |-> id, node |-> FpLink[n][h][1], gate |-> FpLink[n][h][2]] :
     h \in outs \ {Path!InternalPort}}

\* The copies on their way to d, or on to where d is behind.
Toward(d, copies) == {c \in copies : d \notin FpBeyond[c.node][c.gate]}

LEMMA SendsOn ==
  ASSUME Path!PathAssumption, NEW n \in FpNodes, NEW t, TableRight(n, t), NEW f \in PathFrame,
         NEW g, AtRelay(f, n, g), NEW id, NEW outs, outs = Path!DispatchFrame(n, t, f, g)
  PROVE  /\ \A c \in Copies(n, id, outs) : c.id = id /\ ComesFrom(f, c.node, c.gate)
         /\ \A d \in FpNodes :
              d = n \/ (g # Path!InternalPort /\ d \in FpBeyond[n][g])
                => Toward(d, Copies(n, id, outs)) = {}
         /\ \A d \in Path!Receivers(f) :
              d # n /\ (g # Path!InternalPort => d \notin FpBeyond[n][g])
                => \E c : Toward(d, Copies(n, id, outs)) = {c}
<1> DEFINE copy(h) == [id |-> id, node |-> FpLink[n][h][1], gate |-> FpLink[n][h][2]]
<1>1. \A h \in outs \ {Path!InternalPort} :
        h \in Path!Ports(n) /\ h # g /\ ComesFrom(f, copy(h).node, copy(h).gate)
  BY LeavesAway
<1>2. \A h \in Path!Ports(n), d \in FpNodes :
        d \notin FpBeyond[copy(h).node][copy(h).gate] <=> d \in FpBeyond[n][h]
  <2> SUFFICES ASSUME NEW h \in Path!Ports(n), NEW d \in FpNodes
               PROVE  d \notin FpBeyond[copy(h).node][copy(h).gate] <=> d \in FpBeyond[n][h]
    OBVIOUS
  <2>1. FpBeyond[FpLink[n][h][1]][FpLink[n][h][2]] = FpNodes \ FpBeyond[n][h]
    BY Linked
  <2> QED BY <2>1
<1>3. ASSUME NEW d \in FpNodes, d = n \/ (g # Path!InternalPort /\ d \in FpBeyond[n][g])
      PROVE  Toward(d, Copies(n, id, outs)) = {}
  <2>1. \A h \in outs \ {Path!InternalPort} : d \notin FpBeyond[n][h]
    BY <1>1, <1>3, Behind DEF AtRelay, ComesFrom
  <2> QED BY <1>1, <1>2, <2>1 DEF Toward, Copies
<1>4. ASSUME NEW d \in Path!Receivers(f), d # n,
             g # Path!InternalPort => d \notin FpBeyond[n][g]
      PROVE  \E c : Toward(d, Copies(n, id, outs)) = {c}
  <2>0. d \in FpNodes
    BY DEF Path!Receivers
  <2>1. PICK h \in Path!Ports(n) : d \in FpBeyond[n][h] /\ h \in outs
    BY <1>4, LeavesToward
  <2>2. h # Path!InternalPort
    BY Behind
  <2>3. \A i \in outs \ {Path!InternalPort} : d \in FpBeyond[n][i] => i = h
    BY <1>1, <2>0, <2>1, Behind
  <2>4. Toward(d, Copies(n, id, outs)) = {copy(h)}
    BY <1>1, <1>2, <2>0, <2>1, <2>2, <2>3 DEF Toward, Copies
  <2> QED BY <2>4
<1>5. \A c \in Copies(n, id, outs) : c.id = id /\ ComesFrom(f, c.node, c.gate)
  BY <1>1 DEF Copies
<1> QED BY <1>3, <1>4, <1>5

Coming(d, id) == {c \in fpFlying : c.id = id /\ d \notin FpBeyond[c.node][c.gate]}
Arrivals(d, id) == {x \in fpGot[d] : x[1] = id}

\* Frame id came to d, or one copy is on its way there.
ComesOnce(d, id) ==
  \/ (\E x : Arrivals(d, id) = {x}) /\ Coming(d, id) = {}
  \/ Arrivals(d, id) = {} /\ \E c : Coming(d, id) = {c}

\* Frame f came to where it is for by gate g.
CameRight(n, f, g) ==
  /\ g \in Path!AllGates(n) /\ n # f.src
  /\ g # 0 => f.src \in FpBeyond[n][g]
  /\ f.etherType = "PTP" => n \in Path!Receivers(f)

PathInv ==
  /\ fpFrames \in Seq(PathFrame)
  /\ DOMAIN fpTable = FpNodes /\ \A n \in FpNodes : TableRight(n, fpTable[n])
  /\ \A c \in fpFlying : c.id \in DOMAIN fpFrames /\ ComesFrom(fpFrames[c.id], c.node, c.gate)
  /\ DOMAIN fpGot = FpNodes
  /\ \A n \in FpNodes : \A x \in fpGot[n] :
       x[1] \in DOMAIN fpFrames /\ CameRight(n, fpFrames[x[1]], x[2])
  /\ \A id \in DOMAIN fpFrames : \A d \in Path!Receivers(fpFrames[id]) :
       fpFrames[id].etherType \in FpRegistered[d] => ComesOnce(d, id)

LEMMA PathStarts == Path!Init => PathInv
BY DEF Path!Init, PathInv, TableRight

\* New are the copies of frame id that the relay unit of n sends on.
SentOn(n, f, g, id, new) ==
  /\ \A c \in new : c.id = id /\ ComesFrom(f, c.node, c.gate)
  /\ \A d \in FpNodes :
       d = n \/ (g # Path!InternalPort /\ d \in FpBeyond[n][g]) => Toward(d, new) = {}
  /\ \A d \in Path!Receivers(f) :
       d # n /\ (g # Path!InternalPort => d \notin FpBeyond[n][g])
         => \E c : Toward(d, new) = {c}

\* Up is what the relay unit of n hands up of frame id.
SentUp(n, f, id, up) ==
  /\ \A x \in up : x[1] = id /\ CameRight(n, f, x[2])
  /\ n \in Path!Receivers(f) /\ f.etherType \in FpRegistered[n] => \E x : up = {x}

\* What relaying a frame does to the tables, the copies and the upper layers.
LEMMA RelayStep ==
  ASSUME Path!PathAssumption, PathInv, NEW n \in FpNodes, NEW f \in PathFrame,
         NEW g, AtRelay(f, n, g), NEW src,
         src = IF g = Path!InternalPort THEN Path!Blank ELSE f.src,
         NEW id, NEW arrived, Path!Relay(n, id, f, g, src, arrived)
  PROVE  /\ DOMAIN fpTable' = FpNodes /\ \A m \in FpNodes : TableRight(m, fpTable'[m])
         /\ \E new : /\ fpFlying' = (fpFlying \ arrived) \cup new
                     /\ SentOn(n, f, g, id, new)
         /\ DOMAIN fpGot' = FpNodes
         /\ \A m \in FpNodes \ {n} : fpGot'[m] = fpGot[m]
         /\ g = Path!InternalPort => fpGot'[n] = fpGot[n]
         /\ g # Path!InternalPort =>
              \E up : fpGot'[n] = fpGot[n] \cup up /\ SentUp(n, f, id, up)
<1>1. PICK t : t = Path!Learn(n, src, g)
  OBVIOUS
<1>2. PICK outs : outs = Path!DispatchFrame(n, t, f, g)
  OBVIOUS
<1>3. PICK up : up = IF Path!InternalPort \in outs THEN Path!HandUp(n, id, f, g) ELSE {}
  OBVIOUS
<1>4. PICK new : new = Copies(n, id, outs)
  OBVIOUS
<1>5. /\ fpTable' = [fpTable EXCEPT ![n] = t]
      /\ fpFlying' = (fpFlying \ arrived) \cup new
      /\ fpGot' = [fpGot EXCEPT ![n] = fpGot[n] \cup up]
  BY <1>1, <1>2, <1>3, <1>4 DEF Path!Relay, Copies
<1>6. TableRight(n, t)
  BY <1>1, LearnsRight DEF PathInv
<1>7. DOMAIN fpTable' = FpNodes /\ \A m \in FpNodes : TableRight(m, fpTable'[m])
  BY <1>5, <1>6 DEF PathInv
<1>8. SentOn(n, f, g, id, new)
  BY <1>2, <1>4, <1>6, SendsOn DEF SentOn
<1>9. /\ g = Path!InternalPort => Path!InternalPort \notin outs
      /\ g # Path!InternalPort =>
           /\ n # f.src
           /\ f.etherType = "PTP" => n \in Path!Receivers(f)
           /\ n \in Path!Receivers(f) => Path!InternalPort \in outs
  BY <1>2, <1>6, HandedUp
<1>10. DOMAIN fpGot' = FpNodes /\ fpGot'[n] = fpGot[n] \cup up
       /\ \A m \in FpNodes \ {n} : fpGot'[m] = fpGot[m]
  BY <1>5 DEF PathInv
<1>11. ASSUME g # Path!InternalPort
       PROVE  SentUp(n, f, id, up)
  <2>1. ComesFrom(f, n, g)
    BY <1>11 DEF AtRelay
  <2>2. PICK i : i = IF f.etherType = "PTP" THEN g ELSE 0
    OBVIOUS
  <2>3. /\ \A x \in up : x = <<id, i>>
        /\ f.etherType \in FpRegistered[n] /\ Path!InternalPort \in outs
             => up = {<<id, i>>}
    BY <1>3, <2>2 DEF Path!HandUp
  <2>4. CameRight(n, f, i)
    BY <1>9, <1>11, <2>1, <2>2 DEF CameRight, ComesFrom, Path!AllGates, Path!InternalPort
  <2>5. \A x \in up : x[1] = id /\ x[2] = i
    BY <2>3
  <2>6. \A x \in up : x[1] = id /\ CameRight(n, f, x[2])
    BY <2>4, <2>5
  <2>7. n \in Path!Receivers(f) /\ f.etherType \in FpRegistered[n] => up = {<<id, i>>}
    BY <1>9, <1>11, <2>3
  <2> QED BY <2>6, <2>7 DEF SentUp
<1>12. g = Path!InternalPort => up = {}
  BY <1>3, <1>9
<1>13. g = Path!InternalPort => fpGot'[n] = fpGot[n]
  BY <1>10, <1>12
<1>14. \E s : fpFlying' = (fpFlying \ arrived) \cup s /\ SentOn(n, f, g, id, s)
  BY <1>5, <1>8
<1> QED BY <1>7, <1>10, <1>11, <1>13, <1>14

\* A new frame leaves its sender.
LEMMA SendStep ==
  ASSUME Path!PathAssumption, PathInv, NEW n \in FpNodes, NEW f \in PathFrame, f.src = n,
         f.etherType = "PTP" => FpPtpEnable[n], Path!Send(n, f)
  PROVE  PathInv'
<1>1. PICK id : id = Len(fpFrames) + 1
  OBVIOUS
<1>2. /\ fpFrames' = Append(fpFrames, f)
      /\ Path!Relay(n, id, f, Path!InternalPort, Path!Blank, {})
  BY <1>1 DEF Path!Send
<1>3. AtRelay(f, n, Path!InternalPort)
  BY DEF AtRelay
<1>4. /\ fpFrames \in Seq(PathFrame) /\ DOMAIN fpFrames = 1 .. Len(fpFrames)
      /\ Len(fpFrames) \in Nat
      /\ fpFrames' \in Seq(PathFrame) /\ DOMAIN fpFrames' = DOMAIN fpFrames \cup {id}
      /\ id \notin DOMAIN fpFrames /\ fpFrames'[id] = f
      /\ \A e \in DOMAIN fpFrames : fpFrames'[e] = fpFrames[e]
  BY <1>1, <1>2 DEF PathInv
<1>5. PICK g, src, none : g = Path!InternalPort /\ src = Path!Blank /\ none = {}
  OBVIOUS
<1>6. /\ src = IF g = Path!InternalPort THEN Path!Blank ELSE f.src
      /\ Path!Relay(n, id, f, g, src, none) /\ AtRelay(f, n, g)
  BY <1>2, <1>3, <1>5
<1>7. DOMAIN fpTable' = FpNodes /\ \A m \in FpNodes : TableRight(m, fpTable'[m])
  BY <1>6, RelayStep
<1>8. DOMAIN fpGot' = FpNodes /\ \A m \in FpNodes : fpGot'[m] = fpGot[m]
  BY <1>5, <1>6, RelayStep
<1>9. PICK new : fpFlying' = fpFlying \cup new /\ SentOn(n, f, g, id, new)
  <2>1. \E new_1 : fpFlying' = (fpFlying \ none) \cup new_1 /\ SentOn(n, f, g, id, new_1)
    BY <1>6, RelayStep
  <2> QED BY <2>1, <1>5
<1>10. \A c \in fpFlying' :
        c.id \in DOMAIN fpFrames' /\ ComesFrom(fpFrames'[c.id], c.node, c.gate)
  BY <1>4, <1>9 DEF PathInv, SentOn
<1>11. \A m \in FpNodes : \A x \in fpGot'[m] :
        x[1] \in DOMAIN fpFrames' /\ CameRight(m, fpFrames'[x[1]], x[2])
  BY <1>4, <1>8 DEF PathInv
<1>12. ASSUME NEW e \in DOMAIN fpFrames', NEW d \in Path!Receivers(fpFrames'[e]),
             fpFrames'[e].etherType \in FpRegistered[d]
      PROVE  ComesOnce(d, e)'
  <2>1. d \in FpNodes
    BY DEF Path!Receivers
  <2>2. Arrivals(d, e)' = Arrivals(d, e)
    BY <2>1, <1>8 DEF Arrivals
  <2>3. CASE e = id
    <3>1. d \in Path!Receivers(f) /\ d # n
      BY <2>3, <1>4 DEF Path!Receivers
    <3>2. Arrivals(d, e) = {}
      BY <2>1, <2>3, <1>4 DEF Arrivals, PathInv
    <3>3. Coming(d, e)' = Toward(d, new)
      BY <2>3, <1>4, <1>9 DEF Coming, Toward, PathInv, SentOn
    <3> QED BY <2>2, <3>1, <3>2, <3>3, <1>5, <1>9 DEF ComesOnce, SentOn
  <2>4. CASE e # id
    <3>1. Coming(d, e)' = Coming(d, e)
      BY <2>4, <1>9 DEF Coming, SentOn
    <3>2. ComesOnce(d, e)
      BY <2>4, <1>4, <1>12 DEF PathInv
    <3> QED BY <2>2, <3>1, <3>2 DEF ComesOnce
  <2> QED BY <2>3, <2>4
<1> QED BY <1>4, <1>10, <1>11, <1>12, <1>7, <1>8 DEF PathInv

\* A copy arrives: it is handed up, or one goes on to each node behind.
LEMMA ArriveStep ==
  ASSUME Path!PathAssumption, PathInv, NEW c \in fpFlying, Path!Arrive(c)
  PROVE  PathInv'
<1>1. PICK n, g, id, f : n = c.node /\ g = c.gate /\ id = c.id /\ f = fpFrames[c.id]
  OBVIOUS
<1>2. /\ id \in DOMAIN fpFrames /\ ComesFrom(f, n, g) /\ f \in PathFrame /\ f = fpFrames[id]
      /\ n \in FpNodes /\ f.src \in FpNodes
  BY <1>1 DEF PathInv, ComesFrom, PathFrame
<1>3. g # Path!InternalPort /\ AtRelay(f, n, g)
  BY <1>2, Behind DEF ComesFrom, AtRelay
<1>4. PICK src, one : src = f.src /\ one = {c}
  OBVIOUS
<1>5. /\ src = IF g = Path!InternalPort THEN Path!Blank ELSE f.src
      /\ Path!Relay(n, id, f, g, src, one) /\ fpFrames' = fpFrames
  BY <1>1, <1>3, <1>4 DEF Path!Arrive
<1>6. n \in FpNodes /\ f \in PathFrame /\ AtRelay(f, n, g)
  BY <1>2, <1>3
<1>7. DOMAIN fpTable' = FpNodes /\ \A m \in FpNodes : TableRight(m, fpTable'[m])
  BY <1>6, <1>5, RelayStep
<1>8. PICK new : fpFlying' = (fpFlying \ one) \cup new /\ SentOn(n, f, g, id, new)
  BY <1>6, <1>5, RelayStep
<1>9. DOMAIN fpGot' = FpNodes /\ \A m \in FpNodes \ {n} : fpGot'[m] = fpGot[m]
  BY <1>6, <1>5, RelayStep
<1>10. PICK up : fpGot'[n] = fpGot[n] \cup up /\ SentUp(n, f, id, up)
  <2>1. g # Path!InternalPort =>
          \E up_1 : fpGot'[n] = fpGot[n] \cup up_1 /\ SentUp(n, f, id, up_1)
    BY <1>6, <1>5, RelayStep
  <2> QED BY <2>1, <1>3
<1>11. \A e \in fpFlying' :
         e.id \in DOMAIN fpFrames' /\ ComesFrom(fpFrames'[e.id], e.node, e.gate)
  BY <1>2, <1>5, <1>8 DEF PathInv, SentOn
<1>12. \A m \in FpNodes : \A x \in fpGot'[m] :
         x[1] \in DOMAIN fpFrames' /\ CameRight(m, fpFrames'[x[1]], x[2])
  BY <1>2, <1>5, <1>9, <1>10 DEF PathInv, SentUp
<1>13. ASSUME NEW e \in DOMAIN fpFrames', NEW d \in Path!Receivers(fpFrames'[e]),
              fpFrames'[e].etherType \in FpRegistered[d]
       PROVE  ComesOnce(d, e)'
  <2>1. d \in FpNodes
    BY DEF Path!Receivers
  <2>2. ComesOnce(d, e)
    BY <1>5, <1>13 DEF PathInv
  <2>3. CASE e # id
    <3>1. Arrivals(d, e)' = Arrivals(d, e)
      BY <2>1, <2>3, <1>2, <1>9, <1>10 DEF Arrivals, SentUp
    <3>2. Coming(d, e)' = Coming(d, e)
      BY <2>3, <1>1, <1>4, <1>8 DEF Coming, SentOn
    <3> QED BY <2>2, <3>1, <3>2 DEF ComesOnce
  <2>4. CASE e = id
    <3>0. d \in Path!Receivers(f) /\ f.etherType \in FpRegistered[d]
      BY <2>4, <1>2, <1>5, <1>13
    <3>1. CASE d \in FpBeyond[n][g]
      <4>1. d # n
        BY <3>1, <1>2, Behind DEF ComesFrom
      <4>2. Arrivals(d, e)' = Arrivals(d, e)
        BY <2>1, <4>1, <1>9 DEF Arrivals
      <4>3. Toward(d, new) = {}
        BY <2>1, <3>1, <1>3, <1>8 DEF SentOn
      <4>4. Coming(d, e)' = Coming(d, e)
        BY <3>1, <4>3, <1>1, <1>4, <1>8 DEF Coming, Toward
      <4> QED BY <2>2, <4>2, <4>4 DEF ComesOnce
    <3>2. CASE d \notin FpBeyond[n][g]
      <4>1. c \in Coming(d, e)
        BY <3>2, <2>4, <1>1 DEF Coming
      <4>2. Arrivals(d, e) = {} /\ Coming(d, e) = {c}
        BY <2>2, <4>1 DEF ComesOnce
      <4>3. Coming(d, e)' = Toward(d, new)
        BY <2>4, <4>2, <1>1, <1>4, <1>8 DEF Coming, Toward, SentOn
      <4>4. CASE d = n
        <5>1. Coming(d, e)' = {}
          BY <4>3, <4>4, <2>1, <1>8 DEF SentOn
        <5>2. Arrivals(d, e)' = up
          BY <4>2, <4>4, <2>4, <1>10 DEF Arrivals, SentUp
        <5>3. \E x : up = {x}
          BY <3>0, <4>4, <1>10 DEF SentUp
        <5> QED BY <5>1, <5>2, <5>3 DEF ComesOnce
      <4>5. CASE d # n
        <5>1. \E b : Coming(d, e)' = {b}
          BY <3>0, <3>2, <4>3, <4>5, <1>8 DEF SentOn
        <5>2. Arrivals(d, e)' = {}
          BY <4>2, <4>5, <2>1, <1>9 DEF Arrivals
        <5> QED BY <5>1, <5>2 DEF ComesOnce
      <4> QED BY <4>4, <4>5
    <3> QED BY <3>1, <3>2
  <2> QED BY <2>3, <2>4
<1>14. fpFrames' \in Seq(PathFrame)
  BY <1>5 DEF PathInv
<1> QED BY <1>7, <1>9, <1>11, <1>12, <1>13, <1>14 DEF PathInv

\* The frames do not depend on what the tables forget.
LEMMA FramesStay ==
  ASSUME PathInv, UNCHANGED <<fpFrames, fpFlying, fpGot>>,
         DOMAIN fpTable' = FpNodes, \A m \in FpNodes : TableRight(m, fpTable'[m])
  PROVE  PathInv'
<1>1. ASSUME NEW id, NEW d, ComesOnce(d, id)
      PROVE  ComesOnce(d, id)'
  BY <1>1 DEF ComesOnce, Coming, Arrivals
<1> QED BY <1>1 DEF PathInv

LEMMA PathStep ==
  ASSUME Path!PathAssumption, PathInv, [Path!Next]_fpVars
  PROVE  PathInv'
<1>1. ASSUME NEW n \in FpNodes, NEW g \in Path!Ports(n), NEW type \in FpTypes,
             Path!SendPtp(n, g - 1, type)
      PROVE  PathInv'
  <2>1. PICK f : f = [etherType |-> "PTP", type |-> type, src |-> n,
                      dest |-> Path!Multicast, port |-> g - 1]
    OBVIOUS
  <2>2. g \in Nat /\ Path!Multicast \notin FpNodes
    BY Behind
  <2>3. f \in PathFrame /\ f.src = n
    BY <2>1, <2>2 DEF PathFrame
  <2>4. Path!Send(n, f) /\ FpPtpEnable[n]
    BY <1>1, <2>1 DEF Path!SendPtp
  <2> QED BY <2>3, <2>4, SendStep
<1>2. ASSUME NEW n \in FpNodes, NEW dest \in FpNodes \cup {Path!Multicast},
             Path!SendData(n, dest)
      PROVE  PathInv'
  <2>1. PICK f : f = [etherType |-> "DATA", type |-> "NONE", src |-> n, dest |-> dest,
                      port |-> 0]
    OBVIOUS
  <2>2. f \in PathFrame /\ f.src = n /\ f.etherType # "PTP"
    BY <1>2, <2>1 DEF PathFrame, Path!SendData
  <2>3. Path!Send(n, f)
    BY <1>2, <2>1 DEF Path!SendData
  <2> QED BY <2>2, <2>3, SendStep
<1>3. ASSUME NEW n \in FpNodes, NEW a, Path!Age(n, a)
      PROVE  PathInv'
  <2>1. DOMAIN fpTable' = FpNodes /\ \A m \in FpNodes : TableRight(m, fpTable'[m])
    BY <1>3 DEF Path!Age, PathInv, TableRight
  <2>2. UNCHANGED <<fpFrames, fpFlying, fpGot>>
    BY <1>3 DEF Path!Age
  <2> QED BY <2>1, <2>2, FramesStay
<1>4. ASSUME UNCHANGED fpVars PROVE PathInv'
  <2>1. DOMAIN fpTable' = FpNodes /\ \A m \in FpNodes : TableRight(m, fpTable'[m])
    BY <1>4 DEF fpVars, PathInv
  <2> QED BY <1>4, <2>1, FramesStay DEF fpVars
<1> QED BY <1>1, <1>2, <1>3, <1>4, ArriveStep DEF Path!Next

LEMMA PathInvariance == ASSUME Path!PathAssumption PROVE PathRun => []PathInv
BY PathStarts, PathStep, PTL DEF PathRun

LEMMA PathTypes == ASSUME Path!PathAssumption PROVE PathInv => Path!TypeOK
<1> SUFFICES ASSUME PathInv PROVE Path!TypeOK
  OBVIOUS
<1>1. \A n \in FpNodes : /\ DOMAIN fpTable[n] \subseteq FpNodes \cup {Path!Blank}
                         /\ \A a \in DOMAIN fpTable[n] : fpTable[n][a] \in Path!AllGates(n)
                         /\ \A x \in fpGot[n] : /\ x[1] \in DOMAIN fpFrames
                                                /\ x[2] \in Path!AllGates(n)
  BY DEF PathInv, TableRight, CameRight
<1>2. \A c \in fpFlying : c.id \in DOMAIN fpFrames /\ c.gate \in Path!Ports(c.node)
  BY DEF PathInv, ComesFrom
<1> QED BY <1>1, <1>2 DEF Path!TypeOK

LEMMA OneOrNone ==
  /\ Path!Cardinality({}) = 0
  /\ \A x : Path!Cardinality({x}) = 1
<1>1. Cardinality({}) = 0
  BY FS_EmptySet, Zenon
<1>2. \A x : Cardinality({x}) = 1
  BY FS_Singleton, Zenon
<1>3. \A S : Cardinality(S) = Path!Cardinality(S)
  BY DEF Cardinality, Path!Cardinality
<1> QED BY <1>1, <1>2, <1>3, Zenon

\* ReachesOnce: in every network without loops, of ordinary and transparent
\* clocks and nodes without PTP, each frame reaches each upper layer it is for
\* exactly once, by the port that faces the sender, and a PTP message no other,
\* whatever the relay units have learned and forgotten.
THEOREM FramesReachOnce == CSpec => []ReachesOnce
<1>1. PathRun => []PathInv
  BY PathInvariance, ComponentsAssumption DEF ComponentsAssumption
<1>2. PathInv => ReachesOnce
  <2> SUFFICES ASSUME PathInv, NEW id \in DOMAIN fpFrames
               PROVE  LET f == fpFrames[id] IN
                 /\ \A d \in {e \in Path!Receivers(f) : f.etherType \in FpRegistered[e]} :
                      LET arrivals == {x \in fpGot[d] : x[1] = id}
                          coming   == {c \in fpFlying :
                                         c.id = id /\ d \notin FpBeyond[c.node][c.gate]}
                      IN  /\ Path!Cardinality(arrivals) + Path!Cardinality(coming) = 1
                          /\ \A x \in arrivals : x[2] # 0 => f.src \in FpBeyond[d][x[2]]
                 /\ \A n \in FpNodes : f.etherType = "PTP" \/ n = f.src =>
                      (n \notin Path!Receivers(f) => \A x \in fpGot[n] : x[1] # id)
    BY DEF ReachesOnce, Path!ReachesOnce
  <2> DEFINE f == fpFrames[id]
  <2>1. ASSUME NEW d \in Path!Receivers(f), f.etherType \in FpRegistered[d]
        PROVE  /\ Path!Cardinality(Arrivals(d, id)) + Path!Cardinality(Coming(d, id)) = 1
               /\ \A x \in Arrivals(d, id) : x[2] # 0 => f.src \in FpBeyond[d][x[2]]
    <3>1. ComesOnce(d, id) /\ d \in FpNodes
      BY <2>1 DEF PathInv, Path!Receivers
    <3>2. CASE (\E x : Arrivals(d, id) = {x}) /\ Coming(d, id) = {}
      <4>1. Path!Cardinality(Arrivals(d, id)) = 1 /\ Path!Cardinality(Coming(d, id)) = 0
        BY <3>2, OneOrNone, Zenon
      <4> QED BY <4>1, <3>1 DEF Arrivals, PathInv, CameRight
    <3>3. CASE Arrivals(d, id) = {} /\ \E c : Coming(d, id) = {c}
      <4>1. Path!Cardinality(Arrivals(d, id)) = 0 /\ Path!Cardinality(Coming(d, id)) = 1
        BY <3>3, OneOrNone, Zenon
      <4> QED BY <4>1, <3>3
    <3> QED BY <3>1, <3>2, <3>3 DEF ComesOnce
  <2>2. ASSUME NEW n \in FpNodes, f.etherType = "PTP" \/ n = f.src, n \notin Path!Receivers(f),
               NEW x \in fpGot[n]
        PROVE  x[1] # id
    BY <2>2 DEF PathInv, CameRight
  <2> QED BY <2>1, <2>2 DEF Arrivals, Coming
<1> QED BY <1>1, <1>2, EachRuns, PTL

-----------------------------------------------------------------------------
(* The filter of offsets and delays *)

\* Induction over the positions of a sequence.
LEMMA UpTo ==
  ASSUME NEW N \in Nat, NEW S, 0 \in S, \A k \in 1 .. N : k - 1 \in S => k \in S
  PROVE  \A k \in 0 .. N : k \in S
<1> DEFINE Left == {k \in 0 .. N : k \notin S}
<1>1. SUFFICES ASSUME Left # {} PROVE FALSE
  OBVIOUS
<1>2. PICK k \in Left : \A m \in Left : k <= m
  <2>1. Left \in SUBSET Nat
    OBVIOUS
  <2> HIDE DEF Left
  <2> QED BY <2>1, <1>1, LeastNumber
<1>3. k \in 1 .. N /\ k - 1 \in 0 .. N /\ k - 1 \notin Left
  BY <1>2
<1> QED BY <1>2, <1>3

LEMMA OneMore ==
  ASSUME NEW k \in Int, NEW v \in Int
  PROVE  /\ (k - 1) * v \in Int /\ k * v \in Int
         /\ k * v = (k - 1) * v + v
         /\ 0 * v = 0
OBVIOUS

\* The values of a sequence have a least and a greatest.
LEMMA Extremes ==
  ASSUME NEW s \in Seq(Int), s # <<>>
  PROVE  \E i, j \in 1 .. Len(s) : \A k \in 1 .. Len(s) : s[i] <= s[k] /\ s[k] <= s[j]
<1>1. PICK N \in Nat : N = Len(s) /\ N # 0 /\ DOMAIN s = 1 .. N /\ \A k \in 1 .. N : s[k] \in Int
  OBVIOUS
<1> DEFINE Low == {n \in 0 .. N : n = 0 \/ \E i \in 1 .. n : \A k \in 1 .. n : s[i] <= s[k]}
           High == {n \in 0 .. N : n = 0 \/ \E j \in 1 .. n : \A k \in 1 .. n : s[k] <= s[j]}
<1>2. ASSUME NEW n \in 1 .. N, n - 1 \in Low
      PROVE  n \in Low
  <2>1. CASE n = 1
    BY <2>1, <1>1
  <2>2. CASE n # 1
    <3>1. PICK i \in 1 .. n - 1 : \A k \in 1 .. n - 1 : s[i] <= s[k]
      BY <1>2, <2>2
    <3>2. CASE s[i] <= s[n]
      BY <1>1, <3>1, <3>2
    <3>3. CASE ~(s[i] <= s[n])
      <4>1. \A k \in 1 .. n : s[n] <= s[k]
        BY <1>1, <3>1, <3>3
      <4> QED BY <4>1
    <3> QED BY <3>2, <3>3
  <2> QED BY <2>1, <2>2
<1>3. ASSUME NEW n \in 1 .. N, n - 1 \in High
      PROVE  n \in High
  <2>1. CASE n = 1
    BY <2>1, <1>1
  <2>2. CASE n # 1
    <3>1. PICK i \in 1 .. n - 1 : \A k \in 1 .. n - 1 : s[k] <= s[i]
      BY <1>3, <2>2
    <3>2. CASE s[n] <= s[i]
      BY <1>1, <3>1, <3>2
    <3>3. CASE ~(s[n] <= s[i])
      <4>1. \A k \in 1 .. n : s[k] <= s[n]
        BY <1>1, <3>1, <3>3
      <4> QED BY <4>1
    <3> QED BY <3>2, <3>3
  <2> QED BY <2>1, <2>2
<1>4. 0 \in Low /\ 0 \in High
  OBVIOUS
<1> HIDE DEF Low, High
<1>5. N \in Low
  <2>1. \A n \in 1 .. N : n - 1 \in Low => n \in Low
    BY <1>2
  <2>2. \A n \in 0 .. N : n \in Low
    BY <2>1, <1>4, UpTo
  <2> QED BY <2>2
<1>6. N \in High
  <2>1. \A n \in 1 .. N : n - 1 \in High => n \in High
    BY <1>3
  <2>2. \A n \in 0 .. N : n \in High
    BY <2>1, <1>4, UpTo
  <2> QED BY <2>2
<1> QED BY <1>1, <1>5, <1>6 DEF Low, High

\* Least and greatest values are what their names say.
LEMMA LeastAndGreatest ==
  ASSUME NEW s \in Seq(Int), s # <<>>
  PROVE  \E i, j \in 1 .. Len(s) :
           /\ Filter!LeastOf(s) = s[i] /\ Filter!GreatestOf(s) = s[j]
           /\ \A k \in 1 .. Len(s) : s[i] <= s[k] /\ s[k] <= s[j]
<1>1. PICK i, j \in 1 .. Len(s) : \A k \in 1 .. Len(s) : s[i] <= s[k] /\ s[k] <= s[j]
  BY Extremes
<1>2. PICK S : S = {s[k] : k \in 1 .. Len(s)}
  OBVIOUS
<1>3. Filter!ToSet(s) = S
  BY <1>2 DEF Filter!ToSet
<1>4. s[i] \in S /\ s[j] \in S /\ S \subseteq Int /\ \A w \in S : s[i] <= w /\ w <= s[j]
  BY <1>1, <1>2
<1>5. /\ Filter!LeastOf(s) \in S /\ \A w \in S : Filter!LeastOf(s) <= w
      /\ Filter!GreatestOf(s) \in S /\ \A w \in S : Filter!GreatestOf(s) >= w
  BY <1>3, <1>4 DEF Filter!LeastOf, Filter!GreatestOf
<1>6. Filter!LeastOf(s) = s[i] /\ Filter!GreatestOf(s) = s[j]
  <2>1. PICK lo, hi : lo = Filter!LeastOf(s) /\ hi = Filter!GreatestOf(s)
    OBVIOUS
  <2>2. lo \in Int /\ hi \in Int /\ s[i] \in Int /\ s[j] \in Int
    BY <1>4, <1>5, <2>1
  <2>3. lo <= s[i] /\ s[i] <= lo /\ hi >= s[j] /\ hi <= s[j]
    BY <1>4, <1>5, <2>1
  <2> QED BY <2>1, <2>2, <2>3
<1> QED BY <1>1, <1>6

\* The sums of the first values of a sequence, of which Total is the last.
TotalTo(s, N) ==
  CHOOSE f : f = [k \in 0 .. N |-> IF k = 0 THEN 0 ELSE f[k - 1] + s[k]]

LEMMA TotalExists ==
  ASSUME NEW s, NEW N \in Nat
  PROVE  TotalTo(s, N) =
           [k \in 0 .. N |-> IF k = 0 THEN 0 ELSE TotalTo(s, N)[k - 1] + s[k]]
<1> DEFINE Step(k, v) == v + s[k]
           Is(f, n) == f = [k \in 0 .. n |-> IF k = 0 THEN 0 ELSE Step(k, f[k - 1])]
           Found == {n \in Nat : \E f : Is(f, n)}
<1>1. 0 \in Found
  <2> DEFINE f == [k \in 0 .. 0 |-> 0]
  <2>1. f = [k \in 0 .. 0 |-> IF k = 0 THEN 0 ELSE Step(k, f[k - 1])]
    OBVIOUS
  <2> QED BY <2>1
<1>2. ASSUME NEW n \in 1 .. N, n - 1 \in Found
      PROVE  n \in Found
  <2> HIDE DEF Step
  <2>1. n - 1 \in Nat /\ n \in Nat
    OBVIOUS
  <2>2. PICK g : g = [k \in 0 .. n - 1 |-> IF k = 0 THEN 0 ELSE Step(k, g[k - 1])]
    BY <1>2
  <2> DEFINE f == [k \in 0 .. n |-> IF k = n THEN Step(n, g[n - 1]) ELSE g[k]]
             h == [k \in 0 .. n |-> IF k = 0 THEN 0 ELSE Step(k, f[k - 1])]
  <2>3. \A k \in 0 .. n : f[k] = h[k]
    <3>1. TAKE k \in 0 .. n
    <3>2. CASE k = n
      <4>1. f[n - 1] = g[n - 1]
        BY <2>1
      <4> QED BY <3>2, <4>1
    <3>3. CASE k # n
      <4>1. k \in 0 .. n - 1 /\ f[k] = g[k]
        BY <3>3, <2>1
      <4>2. CASE k = 0
        BY <4>1, <4>2, <2>2
      <4>3. CASE k # 0
        <5>1. k - 1 \in 0 .. n - 1 /\ k - 1 # n /\ k - 1 \in 0 .. n
          BY <4>1, <4>3, <2>1
        <5>2. f[k - 1] = g[k - 1]
          BY <5>1
        <5> QED BY <4>1, <4>3, <5>2, <2>2
      <4> QED BY <4>2, <4>3
    <3> QED BY <3>2, <3>3
  <2>4. f = h
    BY <2>3
  <2>5. Is(f, n)
    BY <2>4
  <2> QED BY <2>1, <2>5
<1> HIDE DEF Found
<1>3. N \in Found
  BY <1>1, <1>2, UpTo
<1>4. \E f : f = [k \in 0 .. N |-> IF k = 0 THEN 0 ELSE f[k - 1] + s[k]]
  BY <1>3 DEF Found
<1> QED BY <1>4 DEF TotalTo

\* Sums(s, f): f are the sums of the first values of s.
Sums(s, f) ==
  /\ f \in [0 .. Len(s) -> Int] /\ f[0] = 0
  /\ \A k \in 1 .. Len(s) : f[k] = f[k - 1] + s[k]

LEMMA TotalOf ==
  ASSUME NEW s \in Seq(Int)
  PROVE  \E f : Sums(s, f) /\ Filter!Total(s) = f[Len(s)]
<1>1. PICK N \in Nat : N = Len(s) /\ \A k \in 1 .. N : s[k] \in Int
  OBVIOUS
<1>2. PICK f : f = TotalTo(s, N)
  OBVIOUS
<1>3. f = [k \in 0 .. N |-> IF k = 0 THEN 0 ELSE f[k - 1] + s[k]]
  BY <1>2, TotalExists
<1>4. f[0] = 0 /\ \A k \in 1 .. N : f[k] = f[k - 1] + s[k]
  BY <1>3
<1> DEFINE S == {k \in 0 .. N : f[k] \in Int}
<1>5. 0 \in S /\ \A k \in 1 .. N : k - 1 \in S => k \in S
  BY <1>1, <1>4
<1> HIDE DEF S
<1>6. \A k \in 0 .. N : k \in S
  BY <1>5, UpTo
<1>7. f \in [0 .. N -> Int]
  BY <1>3, <1>6 DEF S
<1>8. Filter!Total(s) = f[N]
  BY <1>1, <1>2 DEF Filter!Total, TotalTo
<1> QED BY <1>1, <1>4, <1>7, <1>8 DEF Sums

\* A sum lies between as many times its least and its greatest value, the more
\* so as it holds both.
LEMMA SumBounds ==
  ASSUME NEW s \in Seq(Int), NEW f, Sums(s, f), NEW lo \in Int, NEW hi \in Int,
         \A k \in 1 .. Len(s) : lo <= s[k] /\ s[k] <= hi
  PROVE  /\ Len(s) * lo <= f[Len(s)] /\ f[Len(s)] <= Len(s) * hi
         /\ \A j \in 1 .. Len(s) : s[j] = hi => hi + (Len(s) - 1) * lo <= f[Len(s)]
         /\ \A i \in 1 .. Len(s) : s[i] = lo => f[Len(s)] <= lo + (Len(s) - 1) * hi
<1>1. PICK N \in Nat : N = Len(s) /\ \A k \in 1 .. N : s[k] \in Int
  OBVIOUS
<1>2. /\ \A k \in 0 .. N : f[k] \in Int
      /\ f[0] = 0 /\ \A k \in 1 .. N : f[k] = f[k - 1] + s[k]
  BY <1>1 DEF Sums
<1> DEFINE S == {k \in 0 .. N :
             /\ k * lo <= f[k] /\ f[k] <= k * hi
             /\ \A j \in 1 .. k : s[j] = hi => hi + (k - 1) * lo <= f[k]
             /\ \A i \in 1 .. k : s[i] = lo => f[k] <= lo + (k - 1) * hi}
<1>3. 0 \in S
  BY <1>2, OneMore
<1>4. ASSUME NEW k \in 1 .. N, k - 1 \in S
      PROVE  k \in S
  <2>1. PICK kl, kh, ml, mh : kl = k * lo /\ kh = k * hi /\ ml = (k - 1) * lo /\ mh = (k - 1) * hi
    OBVIOUS
  <2>2. /\ kl \in Int /\ kh \in Int /\ ml \in Int /\ mh \in Int
        /\ kl = ml + lo /\ kh = mh + hi
    BY <2>1, OneMore
  <2>3. PICK nl, nh : nl = (k - 1 - 1) * lo /\ nh = (k - 1 - 1) * hi
    OBVIOUS
  <2>4. nl \in Int /\ nh \in Int /\ ml = nl + lo /\ mh = nh + hi
    BY <2>1, <2>3, OneMore
  <2>5. /\ ml <= f[k - 1] /\ f[k - 1] <= mh
        /\ \A j \in 1 .. k - 1 : s[j] = hi => hi + nl <= f[k - 1]
        /\ \A i \in 1 .. k - 1 : s[i] = lo => f[k - 1] <= lo + nh
    BY <1>4, <2>1, <2>3
  <2>6. f[k] = f[k - 1] + s[k] /\ f[k - 1] \in Int /\ f[k] \in Int /\ s[k] \in Int
    BY <1>1, <1>2
  <2>7. lo <= s[k] /\ s[k] <= hi
    BY <1>1
  <2>8. kl <= f[k] /\ f[k] <= kh
    BY <2>2, <2>5, <2>6, <2>7
  <2>9. ASSUME NEW j \in 1 .. k, s[j] = hi
        PROVE  hi + ml <= f[k]
    BY <2>2, <2>4, <2>5, <2>6, <2>7, <2>9
  <2>10. ASSUME NEW i \in 1 .. k, s[i] = lo
         PROVE  f[k] <= lo + mh
    <3>1. CASE i = k
      BY <3>1, <2>2, <2>5, <2>6, <2>10
    <3>2. CASE i # k
      <4>1. f[k - 1] <= lo + nh
        BY <3>2, <2>5, <2>10
      <4> QED BY <4>1, <2>2, <2>4, <2>6, <2>7
    <3> QED BY <3>1, <3>2
  <2> QED BY <2>1, <2>8, <2>9, <2>10
<1>5. N \in S
  <2> HIDE DEF S
  <2>1. \A k \in 1 .. N : k - 1 \in S => k \in S
    BY <1>4
  <2>2. \A k \in 0 .. N : k \in S
    BY <2>1, <1>3, UpTo
  <2> QED BY <2>2
<1> QED BY <1>1, <1>5

\* Of values that are all v but one.
LEMMA SumOfOutlier ==
  ASSUME NEW s \in Seq(Int), NEW f, Sums(s, f), NEW v \in Int, NEW i \in 1 .. Len(s),
         \A k \in 1 .. Len(s) : k # i => s[k] = v
  PROVE  f[Len(s)] = s[i] + (Len(s) - 1) * v
<1>1. PICK N \in Nat : N = Len(s) /\ \A k \in 1 .. N : s[k] \in Int
  OBVIOUS
<1>2. /\ \A k \in 0 .. N : f[k] \in Int
      /\ f[0] = 0 /\ \A k \in 1 .. N : f[k] = f[k - 1] + s[k]
  BY <1>1 DEF Sums
<1> DEFINE S == {k \in 0 .. N : f[k] = IF k < i THEN k * v ELSE s[i] + (k - 1) * v}
<1>3. 0 \in S
  BY <1>2, OneMore
<1>4. ASSUME NEW k \in 1 .. N, k - 1 \in S
      PROVE  k \in S
  <2>1. PICK kv, mv, nv : kv = k * v /\ mv = (k - 1) * v /\ nv = (k - 1 - 1) * v
    OBVIOUS
  <2>2. kv \in Int /\ mv \in Int /\ nv \in Int /\ kv = mv + v /\ mv = nv + v
    BY <2>1, OneMore
  <2>3. f[k - 1] = IF k - 1 < i THEN mv ELSE s[i] + nv
    BY <1>4, <2>1
  <2>4. f[k] = f[k - 1] + s[k] /\ s[k] \in Int /\ s[i] \in Int /\ i \in Int
    BY <1>1, <1>2
  <2>5. f[k] = IF k < i THEN kv ELSE s[i] + mv
    <3>1. CASE k = i
      BY <3>1, <2>2, <2>3, <2>4
    <3>2. CASE k # i
      BY <3>2, <1>1, <2>2, <2>3, <2>4
    <3> QED BY <3>1, <3>2
  <2> QED BY <2>1, <2>5
<1>5. N \in S
  <2> HIDE DEF S
  <2>1. \A k \in 1 .. N : k - 1 \in S => k \in S
    BY <1>4
  <2>2. \A k \in 0 .. N : k \in S
    BY <2>1, <1>3, UpTo
  <2> QED BY <2>2
<1> QED BY <1>1, <1>5

LEMMA CancelTimes ==
  ASSUME NEW n \in Nat \ {0}, NEW a \in Int, NEW b \in Int, n * a <= n * b
  PROVE  a <= b
OBVIOUS

LEMMA NegTimes ==
  ASSUME NEW n \in Int, NEW a \in Int
  PROVE  n * (-a) = -(n * a) /\ n * a \in Int
OBVIOUS

\* A quotient that is truncated stays within bounds that are whole numbers.
LEMMA MeanBounds ==
  ASSUME NEW n \in Nat \ {0}, NEW sum \in Int, NEW lo \in Int, NEW hi \in Int,
         n * lo <= sum, sum <= n * hi
  PROVE  Filter!Mean(sum, n) \in Int /\ lo <= Filter!Mean(sum, n) /\ Filter!Mean(sum, n) <= hi
<1>1. PICK nlo, nhi : nlo = n * lo /\ nhi = n * hi
  OBVIOUS
<1>2. nlo \in Int /\ nhi \in Int /\ n * (-lo) = -nlo /\ n * (-hi) = -nhi
  BY <1>1, NegTimes
<1>3. CASE sum < 0
  <2>1. PICK q : q = (-sum) \div n
    OBVIOUS
  <2>2. Filter!Mean(sum, n) = -q
    BY <1>3, <2>1 DEF Filter!Mean
  <2>3. q \in Int /\ n * q <= -sum
    BY <2>1, DivBounds
  <2>4. n * (-hi) <= -sum /\ n * q <= n * (-lo)
    <3>1. n * q \in Int
      BY <2>3, NegTimes
    <3> QED BY <3>1, <1>1, <1>2, <2>3
  <2>5. -hi <= q
    BY <2>1, <2>4, DivAtLeast
  <2>6. q <= -lo
    BY <2>3, <2>4, CancelTimes
  <2> QED BY <2>2, <2>3, <2>5, <2>6
<1>4. CASE ~(sum < 0)
  <2>1. PICK q : q = sum \div n
    OBVIOUS
  <2>2. Filter!Mean(sum, n) = q
    BY <1>4, <2>1 DEF Filter!Mean
  <2>3. q \in Int /\ n * q <= sum
    BY <2>1, DivBounds
  <2>4. lo <= q
    BY <2>1, DivAtLeast
  <2>5. n * q <= n * hi
    <3>1. n * q \in Int
      BY <2>3, NegTimes
    <3> QED BY <3>1, <1>1, <1>2, <2>3
  <2>6. q <= hi
    BY <2>3, <2>5, CancelTimes
  <2> QED BY <2>2, <2>3, <2>4, <2>6
<1> QED BY <1>3, <1>4

\* The last n values of s.
LastOf(s, n) == IF Len(s) <= n THEN s ELSE SubSeq(s, Len(s) - n + 1, Len(s))

LEMMA LastOfPushed ==
  ASSUME NEW V, NEW s \in Seq(V), NEW v \in V, NEW n \in Nat \ {0}
  PROVE  /\ LastOf(s, n) \in Seq(V) /\ Len(LastOf(s, n)) <= n
         /\ Len(LastOf(s, n)) < n => LastOf(Append(s, v), n) = Append(LastOf(s, n), v)
         /\ Len(LastOf(s, n)) >= n =>
              LastOf(Append(s, v), n) = Append(Tail(LastOf(s, n)), v)
<1>1. CASE Len(s) < n
  <2>1. PICK a : a = Append(s, v)
    OBVIOUS
  <2>2. a \in Seq(V) /\ Len(a) = Len(s) + 1
    BY <2>1
  <2>3. LastOf(s, n) = s /\ LastOf(a, n) = a
    BY <2>2, <1>1 DEF LastOf
  <2> QED BY <2>1, <2>3, <1>1
<1>2. CASE Len(s) >= n
  <2>1. PICK w : w = LastOf(s, n)
    OBVIOUS
  <2>2. w \in Seq(V) /\ Len(w) = n /\ \A k \in 1 .. n : w[k] = s[Len(s) - n + k]
    <3>1. CASE Len(s) = n
      BY <3>1, <2>1 DEF LastOf
    <3>2. CASE Len(s) # n
      <4>1. w = SubSeq(s, Len(s) - n + 1, Len(s))
        BY <3>2, <2>1, <1>2 DEF LastOf
      <4> QED BY <4>1, <3>2, <1>2
    <3> QED BY <3>1, <3>2
  <2>3. PICK a : a = Append(s, v)
    OBVIOUS
  <2>4. a \in Seq(V) /\ Len(a) = Len(s) + 1 /\ a[Len(s) + 1] = v
        /\ \A k \in 1 .. Len(s) : a[k] = s[k]
    BY <2>3
  <2>5. PICK b : b = LastOf(a, n)
    OBVIOUS
  <2>6. b = SubSeq(a, Len(a) - n + 1, Len(a))
    BY <2>4, <2>5, <1>2 DEF LastOf
  <2>7. b \in Seq(V) /\ Len(b) = n /\ \A k \in 1 .. n : b[k] = a[Len(s) + 1 - n + k]
    BY <2>4, <2>6, <1>2
  <2>8. PICK t : t = Append(Tail(w), v)
    OBVIOUS
  <2>9. t \in Seq(V) /\ Len(t) = n /\ t[n] = v /\ \A k \in 1 .. n - 1 : t[k] = w[k + 1]
    <3>1. w # <<>>
      BY <2>2
    <3>2. Tail(w) \in Seq(V) /\ Len(Tail(w)) = n - 1
          /\ \A k \in 1 .. n - 1 : Tail(w)[k] = w[k + 1]
      BY <2>2, <3>1
    <3> QED BY <3>2, <2>8
  <2>10. \A k \in 1 .. n : b[k] = t[k]
    <3>1. TAKE k \in 1 .. n
    <3>2. CASE k = n
      BY <3>2, <2>4, <2>7, <2>9
    <3>3. CASE k # n
      <4>1. k + 1 \in 1 .. n /\ Len(s) + 1 - n + k \in 1 .. Len(s)
        BY <3>3, <1>2
      <4>2. Len(s) - n + (k + 1) = Len(s) + 1 - n + k
        OBVIOUS
      <4>3. b[k] = s[Len(s) + 1 - n + k]
        BY <4>1, <2>4, <2>7
      <4>4. w[k + 1] = s[Len(s) + 1 - n + k]
        BY <4>1, <4>2, <2>2
      <4>5. k \in 1 .. n - 1
        BY <3>3
      <4> QED BY <4>3, <4>4, <4>5, <2>9
    <3> QED BY <3>2, <3>3
  <2>11. b = t
    BY <2>7, <2>9, <2>10
  <2> QED BY <2>1, <2>2, <2>3, <2>5, <2>8, <2>11
<1> QED BY <1>1, <1>2

\* The buffer holds the last values since the reset.
FilterInv ==
  /\ flSize \in FlSizes /\ flDiscard \in BOOLEAN
  /\ flSince \in Seq(FlValues)
  /\ flSince = <<>> => flBuf = Filter!Empty(flSize)
  /\ flSince # <<>> => flBuf = LastOf(flSince, IF flSize = 0 THEN 1 ELSE flSize)

LEMMA FilterStarts == Filter!FilterAssumption /\ Filter!Init => FilterInv
BY DEF Filter!Init, FilterInv, Filter!FilterAssumption

LEMMA FilterStep ==
  ASSUME Filter!FilterAssumption, FilterInv, [Filter!Next]_flVars
  PROVE  FilterInv'
<1>1. CASE Filter!reset
  BY <1>1 DEF Filter!reset, FilterInv
<1>2. ASSUME NEW v \in FlValues, Filter!push(v)
      PROVE  FilterInv'
  <2>1. PICK n \in Nat \ {0} : n = IF flSize = 0 THEN 1 ELSE flSize
    BY DEF FilterInv, Filter!FilterAssumption
  <2>2. /\ flSince' = Append(flSince, v) /\ flSize' = flSize /\ flDiscard' = flDiscard
        /\ flBuf' = Filter!Pushed(flBuf, v)
    BY <1>2 DEF Filter!push
  <2>3. PICK s \in Seq(FlValues) : s = flSince
    BY DEF FilterInv
  <2>4. /\ LastOf(s, n) \in Seq(FlValues) /\ Len(LastOf(s, n)) <= n
        /\ Len(LastOf(s, n)) < n => LastOf(Append(s, v), n) = Append(LastOf(s, n), v)
        /\ Len(LastOf(s, n)) >= n =>
             LastOf(Append(s, v), n) = Append(Tail(LastOf(s, n)), v)
    BY LastOfPushed
  <2>5. Filter!Pushed(flBuf, v) = LastOf(Append(s, v), n)
    <3>1. CASE flSize = 0
      <4>1. Filter!Pushed(flBuf, v) = <<v>> /\ n = 1
        BY <3>1, <2>1 DEF Filter!Pushed, Filter!Identity
      <4>2. LastOf(Append(s, v), 1) = <<v>>
        <5>1. CASE s = <<>>
          BY <5>1 DEF LastOf
        <5>2. CASE s # <<>>
          <6>1. PICK a : a = Append(s, v)
            OBVIOUS
          <6>2. a \in Seq(FlValues) /\ Len(a) = Len(s) + 1 /\ a[Len(a)] = v /\ Len(a) > 1
            BY <6>1, <5>2
          <6>3. LastOf(a, 1) = SubSeq(a, Len(a), Len(a))
            BY <6>2 DEF LastOf
          <6> QED BY <6>1, <6>2, <6>3
        <5> QED BY <5>1, <5>2
      <4> QED BY <4>1, <4>2
    <3>2. CASE flSize # 0 /\ s # <<>>
      <4>1. flBuf = LastOf(s, n) /\ flSize = n
        BY <3>2, <2>1, <2>3 DEF FilterInv
      <4>2. Filter!Pushed(flBuf, v)
              = IF Len(flBuf) < n THEN Append(flBuf, v) ELSE Append(Tail(flBuf), v)
        BY <3>2, <4>1 DEF Filter!Pushed, Filter!Identity
      <4> QED BY <4>1, <4>2, <2>4
    <3>3. CASE flSize # 0 /\ s = <<>>
      <4>1. flBuf = <<>> /\ flSize = n
        BY <3>3, <2>1, <2>3 DEF FilterInv, Filter!Empty
      <4>2. Filter!Pushed(flBuf, v) = Append(<<>>, v)
        BY <3>3, <4>1 DEF Filter!Pushed, Filter!Identity
      <4>3. LastOf(Append(s, v), n) = Append(s, v)
        BY <3>3 DEF LastOf
      <4> QED BY <4>2, <4>3, <3>3
    <3> QED BY <3>1, <3>2, <3>3
  <2>6. flSince' \in Seq(FlValues) /\ flSince' # <<>>
    BY <2>2, <2>3
  <2> QED BY <2>1, <2>2, <2>3, <2>5, <2>6 DEF FilterInv
<1>3. CASE UNCHANGED flVars
  BY <1>3 DEF flVars, FilterInv
<1> QED BY <1>1, <1>2, <1>3 DEF Filter!Next

LEMMA FilterInvariance == ASSUME Filter!FilterAssumption PROVE FilterRun => []FilterInv
BY FilterStarts, FilterStep, PTL DEF FilterRun

LEMMA FilterTypes ==
  ASSUME Filter!FilterAssumption, FilterInv
  PROVE  Filter!TypeOK
<1>1. PICK n \in Nat \ {0} : n = IF flSize = 0 THEN 1 ELSE flSize
  BY DEF FilterInv, Filter!FilterAssumption
<1>2. CASE flSince = <<>>
  <2>1. flBuf = IF flSize = 0 THEN <<0>> ELSE <<>>
    BY <1>2 DEF FilterInv, Filter!Empty
  <2>2. PICK V : V = FlValues \cup {0}
    OBVIOUS
  <2>3. flBuf \in Seq(V)
    <3>1. 0 \in V
      BY <2>2
    <3> QED BY <2>1, <3>1
  <2>4. Len(flBuf) <= (IF Filter!Identity THEN 1 ELSE flSize)
    <3>1. CASE flSize = 0
      BY <3>1, <2>1 DEF Filter!Identity
    <3>2. CASE flSize # 0
      BY <3>2, <1>1, <2>1 DEF Filter!Identity
    <3> QED BY <3>1, <3>2
  <2> QED BY <2>2, <2>3, <2>4 DEF FilterInv, Filter!TypeOK
<1>3. CASE flSince # <<>>
  <2>1. PICK s \in Seq(FlValues) : s = flSince
    BY DEF FilterInv
  <2>2. PICK v : v \in FlValues
    BY <1>3, <2>1
  <2>3. flBuf \in Seq(FlValues) /\ Len(flBuf) <= n
    BY <1>1, <1>3, <2>1, <2>2, LastOfPushed DEF FilterInv
  <2>4. flBuf \in Seq(FlValues \cup {0})
    BY <2>3
  <2>5. Len(flBuf) <= (IF Filter!Identity THEN 1 ELSE flSize)
    BY <1>1, <2>3 DEF Filter!Identity
  <2> QED BY <2>4, <2>5 DEF FilterInv, Filter!TypeOK
<1> QED BY <1>2, <1>3

LEMMA WiderSeq ==
  ASSUME NEW A, NEW B, A \subseteq B, NEW s \in Seq(A)
  PROVE  s \in Seq(B)
OBVIOUS

\* AnswerFromWindow: for every size and all values, the filter answers with an
\* average between the extremes of the values since the reset, and without its
\* extremes one outlier does not move the average.
THEOREM AnswersFromWindow == CSpec => []AnswerFromWindow
<1>1. FilterRun => []FilterInv
  BY FilterInvariance, ComponentsAssumption DEF ComponentsAssumption
<1>2. ASSUME FilterInv, Filter!FilterAssumption PROVE AnswerFromWindow
  <2>1. PICK n \in Nat \ {0} : n = IF flSize = 0 THEN 1 ELSE flSize
    BY <1>2 DEF FilterInv, Filter!FilterAssumption
  <2>2. PICK w : w = Filter!Window
    OBVIOUS
  <2>3. w = LastOf(flSince, n)
    BY <2>1, <2>2 DEF Filter!Window, LastOf, Filter!Identity
  <2>4. w \in Seq(FlValues)
    <3>1. PICK s \in Seq(FlValues) : s = flSince
      BY <1>2 DEF FilterInv
    <3>2. CASE s = <<>>
      <4>1. Len(s) = 0
        BY <3>2
      <4>2. LastOf(s, n) = s
        BY <4>1 DEF LastOf
      <4> QED BY <4>2, <3>1, <2>3
    <3>3. CASE s # <<>>
      <4>1. PICK v : v \in FlValues
        <5>1. s[1] \in FlValues
          BY <3>3
        <5> QED BY <5>1
      <4>2. LastOf(s, n) \in Seq(FlValues)
        BY <4>1, LastOfPushed
      <4> QED BY <4>2, <3>1, <2>3
    <3> QED BY <3>2, <3>3
  <2> SUFFICES ASSUME w # <<>>
               PROVE  /\ Filter!Identity \/ ~flDiscard \/ Len(w) > 3 =>
                           /\ Filter!LeastOf(w) <= Filter!pop(flBuf)
                           /\ Filter!pop(flBuf) <= Filter!GreatestOf(w)
                      /\ ~Filter!Identity /\ flDiscard /\ Len(w) > 3 =>
                           \A i \in DOMAIN w : \A v \in FlValues :
                             (\A j \in DOMAIN w \ {i} : w[j] = v) => Filter!pop(flBuf) = v
    BY <2>2 DEF AnswerFromWindow, Filter!AnswerFromWindow
  <2>5. flBuf = w /\ flDiscard \in BOOLEAN
    BY <1>2, <2>1, <2>3 DEF FilterInv, LastOf
  <2>6. w \in Seq(Int) /\ FlValues \subseteq Int
    <3>1. FlValues \subseteq Int
      BY <1>2 DEF Filter!FilterAssumption
    <3> QED BY <3>1, <2>4, WiderSeq
  <2>7. PICK N \in Nat \ {0} : N = Len(w) /\ DOMAIN w = 1 .. N
                              /\ \A k \in 1 .. N : w[k] \in Int
    BY <2>6
  <2>8. PICK i, j \in 1 .. N :
          /\ Filter!LeastOf(w) = w[i] /\ Filter!GreatestOf(w) = w[j]
          /\ \A k \in 1 .. N : w[i] <= w[k] /\ w[k] <= w[j]
    BY <2>6, <2>7, LeastAndGreatest
  <2>9. PICK f : Sums(w, f) /\ Filter!Total(w) = f[N]
    BY <2>6, <2>7, TotalOf
  <2>10. PICK lo, hi, sum \in Int : lo = w[i] /\ hi = w[j] /\ sum = f[N]
    BY <2>7, <2>9 DEF Sums
  <2>11. PICK one, two, lows, highs \in Int :
           /\ one = N * lo /\ two = N * hi
           /\ lows = (N - 1) * lo /\ highs = (N - 1) * hi
    BY ProductInt
  <2>12. /\ one <= sum /\ sum <= two
         /\ hi + lows <= sum /\ sum <= lo + highs
    BY <2>6, <2>7, <2>8, <2>9, <2>10, <2>11, SumBounds
  <2>13. CASE Filter!Identity
    <3>1. Filter!pop(flBuf) = w[1] /\ N = 1
      <4>1. Len(w) <= 1
        BY <1>2, <2>1, <2>3, <2>4, <2>13, LastOfPushed DEF FilterInv, Filter!Identity
      <4> QED BY <4>1, <2>5, <2>7, <2>13 DEF Filter!pop
    <3> QED BY <3>1, <2>7, <2>8, <2>13
  <2>14. CASE ~Filter!Identity /\ ~flDiscard
    <3>1. Filter!pop(flBuf) = Filter!Mean(sum, N)
      BY <2>5, <2>7, <2>9, <2>10, <2>14 DEF Filter!pop
    <3>2. lo <= Filter!Mean(sum, N) /\ Filter!Mean(sum, N) <= hi
      BY <2>11, <2>12, MeanBounds
    <3> QED BY <3>1, <3>2, <2>8, <2>10, <2>14
  <2>15. CASE ~Filter!Identity /\ flDiscard /\ N > 3
    <3>7. PICK M \in Nat \ {0}, rest \in Int : M = N - 2 /\ rest = sum - lo - hi
      BY <2>15
    <3>1. Filter!pop(flBuf) = Filter!Mean(rest, M)
      BY <3>7, <2>5, <2>7, <2>8, <2>9, <2>10, <2>15 DEF Filter!pop
    <3>2. PICK less, more \in Int : less = M * lo /\ more = M * hi
      BY ProductInt
    <3>3. lows = less + lo /\ highs = more + hi
      <4>1. (N - 1) * lo = (N - 1 - 1) * lo + lo /\ (N - 1) * hi = (N - 1 - 1) * hi + hi
        BY OneMore
      <4>2. N - 1 - 1 = M
        BY <3>7
      <4> QED BY <4>1, <4>2, <3>2, <2>11
    <3>4. less <= rest /\ rest <= more
      BY <3>7, <3>3, <2>12
    <3>5. lo <= Filter!Mean(rest, M) /\ Filter!Mean(rest, M) <= hi
      BY <3>2, <3>4, MeanBounds
    <3>6. ASSUME NEW k \in DOMAIN w, NEW v \in FlValues, \A l \in DOMAIN w \ {k} : w[l] = v
          PROVE  Filter!pop(flBuf) = v
      <4>1. sum = w[k] + (N - 1) * v
        BY <3>6, <2>6, <2>7, <2>9, <2>10, SumOfOutlier
      <4>2. \/ lo = v /\ hi = w[k]
            \/ hi = v /\ lo = w[k]
        <5>1. PICK l \in 1 .. N : l # k
          BY <2>15
        <5>2. w[l] = v /\ v \in Int /\ w[k] \in Int
          BY <5>1, <3>6, <2>6, <2>7
        <5>3. lo <= v /\ v <= hi /\ lo <= w[k] /\ w[k] <= hi
          BY <5>1, <5>2, <3>6, <2>7, <2>8, <2>10
        <5>4. lo \in {v, w[k]} /\ hi \in {v, w[k]}
          BY <3>6, <2>7, <2>8, <2>10
        <5> QED BY <5>2, <5>3, <5>4
      <4>3. PICK vs, vm, x \in Int : vs = (N - 1) * v /\ vm = M * v /\ x = w[k]
        BY <2>6, <2>7, ProductInt
      <4>4. vs = vm + v /\ v \in Int
        <5>1. (N - 1) * v = (N - 1 - 1) * v + v
          BY <2>6, OneMore
        <5>2. N - 1 - 1 = M
          BY <3>7
        <5> QED BY <5>1, <5>2, <4>3, <2>6
      <4>5. sum = x + vs
        BY <4>1, <4>3
      <4>6. rest = vm
        <5>1. lo + hi = v + x
          BY <4>2, <4>3, <4>4
        <5>2. rest = sum - lo - hi
          BY <3>7
        <5>3. vs = vm + v
          BY <4>4
        <5> QED BY <5>1, <5>2, <5>3, <4>4, <4>5
      <4>7. Filter!Mean(rest, M) = v
        <5>1. M * v <= rest /\ rest <= M * v
          BY <4>3, <4>6
        <5>2. /\ v <= Filter!Mean(rest, M) /\ Filter!Mean(rest, M) <= v
              /\ Filter!Mean(rest, M) \in Int
          BY <5>1, <4>4, MeanBounds
        <5> QED BY <5>2, <4>4
      <4> QED BY <4>7, <3>1
    <3> QED BY <3>1, <3>5, <3>6, <2>8, <2>10
  <2>16. CASE ~Filter!Identity /\ flDiscard /\ ~(N > 3)
    BY <2>7, <2>16
  <2> QED BY <2>5, <2>13, <2>14, <2>15, <2>16
<1>3. Filter!FilterAssumption
  BY ComponentsAssumption DEF ComponentsAssumption
<1> QED BY <1>1, <1>2, <1>3, EachRuns, PTL

-----------------------------------------------------------------------------
(* All components together *)

\* Parameters that do not fit their types do not come as far as the data sets.
SetupTyped ==
  /\ Setup!TypeOK /\ suParam \in SuParams
  /\ suPortDS \in [SuPorts -> PortData] /\ DOMAIN suRole = SuPorts
  /\ suStage \notin {"ParseResources", "ParseParameters", "error"} =>
       /\ \A l \in Setup!Logged : suParam.log[l] \in Setup!Int8
       /\ suParam.receiptTimeout \in Setup!UInt8

\* The two conjuncts of the type invariant about data sets and services.
PortTyped(ds) ==
  /\ \A l \in Setup!Logged : ds.log[l] \in Setup!Int8
  /\ ds.announceReceiptTimeout \in Setup!UInt8
  /\ ds.delayMechanism \in Setup!DelayMechanisms

ServiceTyped(sv) ==
  \A l \in Setup!Logged :
    \/ sv.interval[l] = 0
    \/ \E n \in SuMinLog .. 127 : sv.interval[l] = Setup!Interval(n)

LEMMA TypedPorts ==
  Setup!TypeOK <=>
    /\ suStage \in {"ParseResources", "ParseParameters", "InitInternalState", "FinishInit",
                    "running", "error"}
    /\ suDefaultDS.priority1 \in Setup!UInt8 /\ suDefaultDS.priority2 \in Setup!UInt8
    /\ \A p \in SuPorts : /\ PortTyped(suPortDS[p]) /\ ServiceTyped(suService[p])
                          /\ suRole[p] \in Setup!Roles
BY DEF Setup!TypeOK, PortTyped, ServiceTyped

LEMMA SetupTypedInit == Setup!Init => SetupTyped
<1> SUFFICES ASSUME Setup!Init PROVE SetupTyped
  OBVIOUS
<1>1. /\ Setup!NewPortDS \in PortData /\ PortTyped(Setup!NewPortDS)
      /\ ServiceTyped(Setup!NewService)
  BY DEF Setup!NewPortDS, PortData, PortTyped, Setup!DelayMechanisms, Setup!NewService,
         ServiceTyped, Setup!Int8, Setup!UInt8
<1>2. /\ suStage = "ParseResources" /\ suParam \in SuParams
      /\ suDefaultDS.priority1 = 0 /\ suDefaultDS.priority2 = 0
      /\ suPortDS = [p \in SuPorts |-> Setup!NewPortDS]
      /\ suService = [p \in SuPorts |-> Setup!NewService]
      /\ suRole = [p \in SuPorts |-> "LISTENING"]
  BY DEF Setup!Init, Setup!NewDefaultDS
<1>3. \A p \in SuPorts : /\ PortTyped(suPortDS[p]) /\ ServiceTyped(suService[p])
                         /\ suRole[p] \in Setup!Roles
  BY <1>1, <1>2 DEF Setup!Roles
<1>4. Setup!TypeOK
  BY <1>2, <1>3, TypedPorts DEF Setup!UInt8
<1>5. suPortDS \in [SuPorts -> PortData]
  BY <1>1, <1>2
<1> QED BY <1>2, <1>3, <1>4, <1>5 DEF SetupTyped

LEMMA SetupTypedNext ==
  Setup!SetupAssumption /\ SetupInv /\ SetupTyped /\ [Setup!Next]_suVars => SetupTyped'
<1> SUFFICES ASSUME Setup!SetupAssumption, SetupInv, SetupTyped, [Setup!Next]_suVars
             PROVE  SetupTyped'
  OBVIOUS
<1>1. /\ suStage \in {"ParseResources", "ParseParameters", "InitInternalState", "FinishInit",
                      "running", "error"}
      /\ suDefaultDS.priority1 \in Setup!UInt8 /\ suDefaultDS.priority2 \in Setup!UInt8
      /\ \A p \in SuPorts : /\ PortTyped(suPortDS[p]) /\ ServiceTyped(suService[p])
                            /\ suRole[p] \in Setup!Roles
      /\ suPortDS \in [SuPorts -> PortData] /\ DOMAIN suRole = SuPorts
      /\ suService \in [SuPorts -> ServiceData] /\ SuMinLog \in Int
      /\ suParam \in SuParams
      /\ suStage \notin {"ParseResources", "ParseParameters", "error"} =>
           /\ \A l \in Setup!Logged : suParam.log[l] \in Setup!Int8
           /\ suParam.receiptTimeout \in Setup!UInt8
  BY TypedPorts DEF SetupTyped, SetupInv, Setup!SetupAssumption
<1>2. ASSUME UNCHANGED <<suParam, suDefaultDS, suPortDS, suService, suRole>>,
             suStage' \in {"ParseResources", "ParseParameters", "InitInternalState",
                           "FinishInit", "running", "error"},
             suStage' \notin {"ParseResources", "ParseParameters", "error"} =>
               /\ \A l \in Setup!Logged : suParam.log[l] \in Setup!Int8
               /\ suParam.receiptTimeout \in Setup!UInt8
      PROVE  SetupTyped'
  <2>1. Setup!TypeOK'
    BY <1>1, <1>2 DEF Setup!TypeOK, PortTyped, ServiceTyped
  <2> QED BY <1>1, <1>2, <2>1 DEF SetupTyped
<1>3. CASE Setup!ParseResourceParameters
  BY <1>2, <1>3 DEF Setup!ParseResourceParameters, Setup!Stage
<1>4. CASE Setup!ParseParameters
  BY <1>2, <1>4 DEF Setup!ParseParameters, Setup!Stage
<1>5. CASE Setup!ParseParametersFails
  BY <1>2, <1>5 DEF Setup!ParseParametersFails, Setup!Stage
<1>6. CASE Setup!FinishInit
  BY <1>1, <1>2, <1>6 DEF Setup!FinishInit, Setup!Stage
<1>7. CASE UNCHANGED suVars
  BY <1>1, <1>2, <1>7 DEF suVars
<1>8. ASSUME suStage' \in {"FinishInit", "running", "error"},
             suDefaultDS'.priority1 \in Setup!UInt8, suDefaultDS'.priority2 \in Setup!UInt8,
             \A p \in SuPorts : /\ PortTyped(suPortDS'[p]) /\ ServiceTyped(suService'[p])
                                /\ suRole'[p] \in Setup!Roles,
             suPortDS' \in [SuPorts -> PortData], DOMAIN suRole' = SuPorts,
             suParam' = suParam,
             \A l \in Setup!Logged : suParam.log[l] \in Setup!Int8,
             suParam.receiptTimeout \in Setup!UInt8
      PROVE  SetupTyped'
  <2>1. Setup!TypeOK'
    BY <1>8 DEF Setup!TypeOK, PortTyped, ServiceTyped
  <2> QED BY <1>1, <1>8, <2>1 DEF SetupTyped
<1>9. CASE Setup!InitInternalState
  <2>1. /\ suStage = "InitInternalState" /\ suParam' = suParam /\ suRole' = suRole
        /\ suDefaultDS'.priority1 = suParam.priority1 % 256
        /\ suDefaultDS'.priority2 = suParam.priority2 % 256
        /\ suStage' \in {"FinishInit", "error"}
    BY <1>9 DEF Setup!InitInternalState, Setup!Stage
  <2>2. suParam.priority1 \in Int /\ suParam.priority2 \in Int
        /\ suParam.log \in [Setup!Logged -> Int] /\ suParam.receiptTimeout \in Int
        /\ \A l \in Setup!Logged : suParam.log[l] >= SuMinLog
    BY <1>1 DEF Setup!SetupAssumption
  <2>3. suDefaultDS'.priority1 \in Setup!UInt8 /\ suDefaultDS'.priority2 \in Setup!UInt8
    BY <2>1, <2>2 DEF Setup!UInt8
  <2>4. /\ \A l \in Setup!Logged : suParam.log[l] \in Setup!Int8
        /\ suParam.receiptTimeout \in Setup!UInt8
    BY <1>1, <2>1
  <2>5. CASE suParam.delayMechanism \in Setup!DelayMechanisms
    <3>1. PICK ds, sv : ds = Setup!ConfiguredPortDS /\ sv = Setup!ConfiguredService(ds)
      OBVIOUS
    <3>2. ds \in PortData /\ PortTyped(ds)
      BY <3>1, <2>2, <2>4, <2>5 DEF Setup!ConfiguredPortDS, PortData, PortTyped
    <3>3. ServiceTyped(sv)
      <4>1. \A l \in Setup!Logged : ds.log[l] \in SuMinLog .. 127
        BY <1>1, <2>2, <2>4, <3>1 DEF Setup!ConfiguredPortDS, Setup!Int8
      <4>2. \A l \in Setup!Logged : sv.interval[l] = Setup!Interval(ds.log[l])
        BY <3>1 DEF Setup!ConfiguredService
      <4> QED BY <4>1, <4>2 DEF ServiceTyped
    <3>4. /\ suPortDS' = [p \in SuPorts |-> ds]
          /\ suService' = [p \in SuPorts |-> Setup!ConfiguredService(suPortDS'[p])]
      BY <1>9, <2>5, <3>1 DEF Setup!InitInternalState
    <3>5. \A p \in SuPorts : suPortDS'[p] = ds /\ suService'[p] = sv
      BY <3>1, <3>4
    <3>6. suPortDS' \in [SuPorts -> PortData]
      BY <3>2, <3>4
    <3> QED BY <1>1, <1>8, <2>1, <2>3, <2>4, <3>2, <3>3, <3>5, <3>6
  <2>6. CASE suParam.delayMechanism \notin Setup!DelayMechanisms
    <3>1. suPortDS' = suPortDS /\ suService' = suService
      BY <1>9, <2>6 DEF Setup!InitInternalState
    <3> QED BY <1>1, <1>8, <2>1, <2>3, <2>4, <3>1
  <2> QED BY <2>5, <2>6
<1>10. ASSUME NEW p \in SuPorts, NEW r \in Setup!Roles, Setup!ChangeRole(p, r)
       PROVE  SetupTyped'
  <2>1. /\ suStage = "running" /\ suRole' = [suRole EXCEPT ![p] = r]
        /\ UNCHANGED <<suParam, suStage, suDefaultDS, suPortDS, suService>>
    BY <1>10 DEF Setup!ChangeRole
  <2>2. DOMAIN suRole' = SuPorts /\ \A q \in SuPorts : suRole'[q] \in Setup!Roles
    BY <1>1, <2>1
  <2> QED BY <1>1, <1>8, <2>1, <2>2
<1>11. ASSUME NEW l \in Setup!Logged, NEW p \in SuPorts, NEW log \in SuLogs,
              suStage = "running", UNCHANGED <<suParam, suStage, suDefaultDS, suRole>>,
              suPortDS' = [suPortDS EXCEPT ![p].log[l] = log],
              \/ suService' = suService
              \/ suService' = [suService EXCEPT ![p].interval[l] = Setup!Interval(log)]
       PROVE  SetupTyped'
  <2>1. log \in Setup!Int8 /\ log \in Int /\ log \in SuMinLog .. 127
    BY <1>1 DEF Setup!SetupAssumption, Setup!Int8
  <2>2. suPortDS[p] \in PortData /\ PortTyped(suPortDS[p])
    BY <1>1
  <2>3. PICK ds : ds = [suPortDS[p] EXCEPT !.log[l] = log]
    OBVIOUS
  <2>4. ds \in PortData /\ PortTyped(ds)
    BY <2>1, <2>2, <2>3 DEF PortData, PortTyped
  <2>5. suPortDS' = [suPortDS EXCEPT ![p] = ds]
    BY <1>11, <2>3
  <2>6. /\ suPortDS' \in [SuPorts -> PortData]
        /\ \A q \in SuPorts : PortTyped(suPortDS'[q])
    BY <1>1, <2>4, <2>5
  <2>7. \A q \in SuPorts : ServiceTyped(suService'[q])
    <3>1. CASE suService' = suService
      BY <1>1, <3>1
    <3>2. CASE suService' = [suService EXCEPT ![p].interval[l] = Setup!Interval(log)]
      <4>1. PICK sv : sv = [suService[p] EXCEPT !.interval[l] = Setup!Interval(log)]
        OBVIOUS
      <4>2. suService' = [suService EXCEPT ![p] = sv]
        BY <3>2, <4>1
      <4>3. /\ \A q \in SuPorts \ {p} : suService'[q] = suService[q]
            /\ suService'[p] = sv
        BY <1>1, <4>2
      <4>4. ServiceTyped(sv)
        <5>1. /\ suService[p] \in ServiceData
              /\ ServiceTyped(suService[p])
          BY <1>1
        <5>2. /\ sv.interval[l] = Setup!Interval(log)
              /\ \A k \in Setup!Logged \ {l} : sv.interval[k] = suService[p].interval[k]
          BY <4>1, <5>1 DEF ServiceData
        <5> QED BY <5>1, <5>2, <2>1 DEF ServiceTyped
      <4> QED BY <1>1, <4>3, <4>4
    <3> QED BY <1>11, <3>1, <3>2
  <2> QED BY <1>1, <1>8, <1>11, <2>6, <2>7
<1>12. ASSUME NEW p \in SuPorts, NEW log \in SuLogs, Setup!HandleSync(p, log)
       PROVE  SetupTyped'
  <2>1. "logSyncInterval" \in Setup!Logged
    BY DEF Setup!Logged
  <2> QED BY <2>1, <1>11, <1>12 DEF Setup!HandleSync
<1>13. ASSUME NEW p \in SuPorts, NEW log \in SuLogs, Setup!HandleDelayResp(p, log)
       PROVE  SetupTyped'
  <2>1. "logMinDelayReqInterval" \in Setup!Logged
    BY DEF Setup!Logged
  <2> QED BY <2>1, <1>11, <1>13 DEF Setup!HandleDelayResp
<1> QED BY <1>3, <1>4, <1>5, <1>6, <1>7, <1>9, <1>10, <1>12, <1>13 DEF Setup!Next

LEMMA SetupTypes == ASSUME Setup!SetupAssumption PROVE SetupRun => []Setup!TypeOK
<1>1. SetupTyped => Setup!TypeOK
  BY DEF SetupTyped
<1> QED BY <1>1, SetupTypedInit, SetupTypedNext, SetupInvariance, PTL DEF SetupRun

LEMMA MatchingTypes ==
  ASSUME Matching!MatchingAssumption, MatchingInv
  PROVE  Matching!TypeOK
<1>1. ASSUME NEW i \in DOMAIN fuQueue
      PROVE  fuQueue[i].sequenceId \in 0 .. (FuWidth - 1)
  <2>1. fuQueue[i] \in FuEntry
    BY DEF MatchingInv
  <2>2. PICK n \in Nat : fuQueue[i].sequenceId = n % FuWidth
    BY <2>1 DEF FuEntry
  <2> QED BY <2>2 DEF Matching!MatchingAssumption
<1> QED BY <1>1 DEF MatchingInv, Matching!TypeOK

LEMMA TimeTypes ==
  ASSUME Time!TimeAssumption, TimeInv
  PROVE  Time!TypeOK
<1>1. ptMsg.hops \in 0 .. PtMaxHops /\ ptMsg.stamp >= 0 /\ ptMsg.corr >= 0
  <2>1. ptMsg \in Msg
    BY DEF TimeInv
  <2>2. ptMsg.hops \in 0 .. PtMaxHops /\ ptMsg.stamp \in Nat /\ ptMsg.corr \in Nat
    BY <2>1 DEF Msg
  <2> QED BY <2>2
<1>2. ptPhase \in Phases /\ ptDelay \in Int /\ ptOffset \in Int
  BY DEF TimeInv
<1> QED BY <1>1, <1>2 DEF Time!TypeOK, Phases

\* What a component has scheduled is for what it has queued and nothing else, and
\* all data keep their types, for every time deviation generator that never runs
\* backward (cScheduleClock::UpdateSchedule, cBasicService, cDelayQueue).
THEOREM SchedulesAreForQueues ==
  ASSUME \A g \in DOMAIN HwDeviation : Forward(g)
  PROVE  CSpec => []SchedulesMatchQueues
<1>1. ClockRun => [](TypeOK /\ WakesForFirstEvent)
  <2>1. ClockRun => []IInv
    BY InitIInv, NextIInv, PTL DEF ClockRun
  <2>2. IInv => TypeOK
    BY DEF IInv
  <2>3. IInv => WakesForFirstEvent
    BY InvWakes
  <2> QED BY <2>1, <2>2, <2>3, PTL
<1>2. HwRun => []Hw!TypeOK
  <2>1. HwInv => Hw!TypeOK
    BY DEF HwInv
  <2> QED BY <2>1, HwInvariance, ComponentsAssumption, PTL DEF ComponentsAssumption
<1>3. TimersRun => [](Timers!TypeOK /\ Timers!EventsAreHeld /\ Timers!ActiveHasEvent)
  <2>1. TimersInv => Timers!TypeOK /\ Timers!EventsAreHeld /\ Timers!ActiveHasEvent
    BY DEF TimersInv
  <2> QED BY <2>1, TimersInvariance, ComponentsAssumption, PTL DEF ComponentsAssumption
<1>4. ServoRun => []Servo!TypeOK
  <2>1. ServoInv => Servo!TypeOK
    BY DEF ServoInv
  <2> QED BY <2>1, ServoInvariance, ComponentsAssumption, PTL DEF ComponentsAssumption
<1>5. DelayerRun => [](Delayer!TypeOK /\ Delayer!ReminderRuns)
  BY ReminderInvariance, ComponentsAssumption DEF ComponentsAssumption
<1>6. FilterRun => []Filter!TypeOK
  <2>1. FilterInv => Filter!TypeOK
    BY FilterTypes, ComponentsAssumption DEF ComponentsAssumption
  <2> QED BY <2>1, FilterInvariance, ComponentsAssumption, PTL DEF ComponentsAssumption
<1>7. MatchingRun => []Matching!TypeOK
  <2>1. MatchingInv => Matching!TypeOK
    BY MatchingTypes, ComponentsAssumption DEF ComponentsAssumption
  <2> QED BY <2>1, MatchingInvariance, ComponentsAssumption, PTL DEF ComponentsAssumption
<1>8. SetupRun => []Setup!TypeOK
  BY SetupTypes, ComponentsAssumption DEF ComponentsAssumption
<1>9. PathRun => []Path!TypeOK
  <2>1. PathInv => Path!TypeOK
    BY PathTypes, ComponentsAssumption DEF ComponentsAssumption
  <2> QED BY <2>1, PathInvariance, ComponentsAssumption, PTL DEF ComponentsAssumption
<1>10. TimeRun => []Time!TypeOK
  <2>1. TimeInv => Time!TypeOK
    BY TimeTypes, ComponentsAssumption DEF ComponentsAssumption
  <2> QED BY <2>1, TimeInvariance, ComponentsAssumption, PTL DEF ComponentsAssumption
<1> QED BY EachRuns, <1>1, <1>2, <1>3, <1>4, <1>5, <1>6, <1>7, <1>8, <1>9, <1>10, PTL
        DEF SchedulesMatchQueues, ComponentsTypeOK

=============================================================================
