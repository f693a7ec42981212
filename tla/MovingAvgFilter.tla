-------------------------- MODULE MovingAvgFilter --------------------------
(***************************************************************************)
(* The filter of the offsets and path delays of a service: the moving      *)
(* average over a circular buffer, if wanted without its least and its     *)
(* greatest value.  A filter of size 0 stands for the identity filter.     *)
(***************************************************************************)
EXTENDS Integers, Sequences, SequencesExt

CONSTANTS
  Sizes,       \* capacities of the buffer, 0 for IdentitySimTimeFilter
  Values,      \* times that are pushed
  MaxPushed    \* bound on the values pushed since the last reset

FilterAssumption == Sizes \subseteq Nat /\ Values \subseteq Int

VARIABLES
  size, discardMinMax,   \* configuration
  buf,                   \* pBuf, or the one value of the identity filter
  since                  \* all values since the last reset (history)

vars == <<size, discardMinMax, buf, since>>

Identity == size = 0

TypeOK ==
  /\ size \in Sizes /\ discardMinMax \in BOOLEAN
  /\ buf \in Seq(Values \cup {0}) /\ Len(buf) <= (IF Identity THEN 1 ELSE size)
  /\ since \in Seq(Values)

Total(s) ==
  LET total[n \in 0 .. Len(s)] == IF n = 0 THEN 0 ELSE total[n - 1] + s[n]
  IN  total[Len(s)]

LeastOf(s) == CHOOSE v \in ToSet(s) : \A w \in ToSet(s) : v <= w
GreatestOf(s) == CHOOSE v \in ToSet(s) : \A w \in ToSet(s) : v >= w

\* simtime_t is an integer: the quotient is truncated.
Mean(sum, n) == IF sum < 0 THEN -((-sum) \div n) ELSE sum \div n

\* A filter that has just been made or reset.
Empty(n) == IF n = 0 THEN <<0>> ELSE <<>>

Init ==
  /\ size \in Sizes /\ discardMinMax \in BOOLEAN
  /\ buf = Empty(size)
  /\ since = <<>>

\* MUTANT of reset: the buffer is kept.
ResetKeepsBuffer ==
  /\ since' = <<>>
  /\ UNCHANGED <<size, discardMinMax, buf>>

\* Called by the services when the clock jumps.
reset ==
  /\ buf' = Empty(size)
  /\ since' = <<>>
  /\ UNCHANGED <<size, discardMinMax>>

\* The circular buffer drops its oldest value when it is full.
Pushed(b, v) ==
  IF Identity THEN <<v>>
  ELSE IF Len(b) < size THEN Append(b, v) ELSE Append(Tail(b), v)

push(v) ==
  /\ Len(since) < MaxPushed
  /\ buf' = Pushed(buf, v)
  /\ since' = Append(since, v)
  /\ UNCHANGED <<size, discardMinMax>>

\* pop of a buffer that is not empty: it stays as it is.
pop(b) ==
  CASE Identity -> b[1]
    [] ~Identity /\ ~discardMinMax -> Mean(Total(b), Len(b))
    [] ~Identity /\ discardMinMax /\ Len(b) > 3 ->
         Mean(Total(b) - LeastOf(b) - GreatestOf(b), Len(b) - 2)
    [] OTHER -> 0

Next == reset \/ \E v \in Values : push(v)

Spec == Init /\ [][Next]_vars

-----------------------------------------------------------------------------
(* Properties *)

\* The last values since the reset that the filter is to average.
Window ==
  LET n == IF Identity THEN 1 ELSE size
  IN  IF Len(since) <= n THEN since ELSE SubSeq(since, Len(since) - n + 1, Len(since))

\* An average of times taken after the last reset only, and one outlier among
\* otherwise equal times does not move an average without its extremes.
\* An average without extremes of at most three times is zero.
AnswerFromWindow ==
  LET w == Window IN
  w # <<>> =>
    /\ Identity \/ ~discardMinMax \/ Len(w) > 3 =>
         LeastOf(w) <= pop(buf) /\ pop(buf) <= GreatestOf(w)
    /\ ~Identity /\ discardMinMax /\ Len(w) > 3 =>
         \A i \in DOMAIN w : \A v \in Values :
           (\A j \in DOMAIN w \ {i} : w[j] = v) => pop(buf) = v

=============================================================================
