----------------------------- MODULE AlarmClock -----------------------------
(***************************************************************************)
(* What the local clock promises to the services that set events on it     *)
(* (interface of class cScheduleClock): an event fires when the span asked *)
(* for has elapsed on the clock, whatever adjustments are made meanwhile;  *)
(* events fire in the order of their times; one that was cancelled, or has *)
(* fired, never fires again.                                               *)
(***************************************************************************)
EXTENDS Integers

CONSTANTS
  Ids,     \* names of the events, each is used once
  Spans,   \* the spans services ask for
  Steps    \* the amounts the clock advances by

VARIABLES
  remaining,   \* what is left of the span of each pending event
  used,        \* the events that have been scheduled
  fired        \* the events that have fired

Pending == DOMAIN remaining

Without(i) == [j \in Pending \ {i} |-> remaining[j]]

Init == remaining = [i \in {} |-> 0] /\ used = {} /\ fired = {}

Schedule(i, span) ==
  /\ i \notin used
  /\ UNCHANGED fired
  /\ used' = used \cup {i}
  /\ remaining' = [j \in Pending \cup {i} |->
                     IF j = i THEN span ELSE remaining[j]]

Cancel(i) == i \in used /\ remaining' = Without(i) /\ UNCHANGED <<used, fired>>

\* Only the first event may fire, and not before its span has elapsed.
Fire(i) ==
  /\ remaining[i] <= 0
  /\ \A j \in Pending : remaining[i] <= remaining[j]
  /\ remaining' = Without(i)
  /\ fired' = fired \cup {i}
  /\ UNCHANGED used

\* Time does not pass an event that is due.
Elapse(d) ==
  /\ \A i \in Pending : remaining[i] > 0
  /\ remaining' = [i \in Pending |-> remaining[i] - d]
  /\ UNCHANGED <<used, fired>>

Next ==
  \/ \E i \in Ids, span \in Spans : Schedule(i, span)
  \/ \E i \in Ids : Cancel(i)
  \/ \E i \in Pending : Fire(i)
  \/ \E d \in Steps : Elapse(d)

Spec == Init /\ [][Next]_<<remaining, used, fired>>

=============================================================================
