--------------------------- MODULE PtpStackSilence ---------------------------
(***************************************************************************)
(* The clock of module PtpStack in a network that falls silent: after any  *)
(* behaviour of the clock, no message arrives any more, no new fault        *)
(* occurs and the foreign master data sets have run empty.  Only the        *)
(* clock's own timers and the recoveries still due remain.                  *)
(***************************************************************************)
EXTENDS PtpStack

VARIABLE silent

allVars == <<vars, silent>>

Nobody == [p \in Port |-> NoDS]

SilenceInit == Init /\ silent = FALSE

\* Anything may happen, up to some moment.
BeforeSilence == ~silent /\ Next /\ UNCHANGED silent

FallSilent == ~silent /\ silent' = TRUE /\ UNCHANGED vars

InSilence(A) == silent /\ A /\ UNCHANGED silent

Recover == \E ports \in FaultScope : FaultCleared(ports)

SilentNext ==
  \/ InSilence(EndInit)
  \/ InSilence(Recover)
  \/ \E p \in Port : InSilence(AnnounceTimeout(p))
  \/ \E p \in Port : InSilence(QualificationTimeout(p))
  \/ InSilence(DecideStates(Nobody))

SilenceNext == BeforeSilence \/ FallSilent \/ SilentNext

\* Everything pending is in the event queue of the kernel or of the clock and
\* is executed at its time; without messages nothing postpones or cancels a
\* timer, so each of them, once armed, expires.  A recovery event is scheduled
\* together with its fault.
SilenceFairness ==
  /\ WF_allVars(InSilence(EndInit))
  /\ WF_allVars(InSilence(Recover))
  /\ \A p \in Port : /\ WF_allVars(InSilence(AnnounceTimeout(p)))
                     /\ WF_allVars(InSilence(QualificationTimeout(p)))
  /\ WF_allVars(InSilence(DecideStates(Nobody)))

SilenceSpec == SilenceInit /\ [][SilenceNext]_allVars /\ SilenceFairness

-----------------------------------------------------------------------------

IsGrandmaster ==
  /\ \A p \in Port : portState[p] = "MASTER"
  /\ parentDS = OwnParent /\ steps = 0 /\ ~servo

\* An ordinary or boundary clock that may be master and no longer hears
\* anybody becomes the grandmaster with all its ports and remains it,
\* whatever it was doing before: no port gets stuck without a timer.
TakesOver == silent ~> []IsGrandmaster

=============================================================================
