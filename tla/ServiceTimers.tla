---------------------------- MODULE ServiceTimers ----------------------------
(***************************************************************************)
(* What the rest of the stack takes the timers of the services to be: a    *)
(* timer is active or it is not, and only an active one expires.  Module   *)
(* PtpStack is written in these terms (its variable active).               *)
(***************************************************************************)

CONSTANTS
  Intervals,   \* the timers that expire periodically
  Timeouts,    \* the timers that expire once
  Calls        \* Calls[t]: the timers the handler of t starts and stops

VARIABLES
  active,      \* the timers that are active
  running      \* the timer whose handler is being executed, or None

None == "None"

Timers == Intervals \cup Timeouts

\* A handler of another kind (a message, a fault) may touch every timer.
Reachable == IF running = None THEN Timers ELSE Calls[running]

Init == active = {} /\ running = None

Start(t) == t \in Reachable /\ active' = active \cup {t} /\ UNCHANGED running

Stop(t) == t \in Reachable /\ active' = active \ {t} /\ UNCHANGED running

\* A timeout is no longer active when its handler begins.
Expire(t) ==
  /\ running = None
  /\ t \in active
  /\ running' = t
  /\ active' = active \ (Timeouts \cap {t})

Return == running # None /\ running' = None /\ UNCHANGED active

Next ==
  \/ \E t \in Timers : Start(t) \/ Stop(t) \/ Expire(t)
  \/ Return

Spec == Init /\ [][Next]_<<active, running>>

=============================================================================
