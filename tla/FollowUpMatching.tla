-------------------------- MODULE FollowUpMatching --------------------------
(***************************************************************************)
(* A matcher of a network interface over many rounds of sequence numbers:  *)
(* sources send pairs of frames with the same number (Sync and Follow_Up,  *)
(* PDelay_Resp and its Follow_Up) on paths that keep the order and lose    *)
(* frames; the time of the first is pushed, the second asks for it.        *)
(***************************************************************************)
EXTENDS FrameMatch

CONSTANTS
  Sources,
  Width,       \* sequence numbers are taken modulo Width (2^16 in the code)
  MaxFrames,   \* bound on the pairs of all sources
  MaxAhead     \* bound on the pairs of which only the first frame has come

\* The numbers do not begin anew while the second frame of a pair is on its way.
MatchingAssumption ==
  /\ Width \in Nat \ {0} /\ MaxFrames \in Nat
  /\ MaxAhead \in 0 .. Width

VARIABLES
  queue,       \* the matcher
  sentPairs,   \* number of pairs each source has begun
  waiting,     \* the pairs, by source, whose second frame is on its way
  answer,      \* of the last pop: the pair it was for, and the result
  lostLast     \* a pair was left open when the numbers began anew (history)

vars == <<queue, sentPairs, waiting, answer, lostLast>>

SequenceId(n) == n % Width

TypeOK ==
  /\ \A i \in DOMAIN queue : queue[i].sequenceId \in 0 .. (Width - 1)
  /\ sentPairs \in [Sources -> 0 .. MaxFrames]
  /\ \A s \in Sources : waiting[s] \in Seq(0 .. MaxFrames) /\ Len(waiting[s]) <= MaxAhead
  /\ lostLast \in BOOLEAN

Init ==
  /\ queue = <<>>
  /\ sentPairs = [s \in Sources |-> 0]
  /\ waiting = [s \in Sources |-> <<>>]
  /\ answer = [pair |-> 0, result |-> NoMatch]
  /\ lostLast = FALSE

\* The first frame of pair n passes; its time is the number of the pair.
First(s) ==
  /\ sentPairs[s] < MaxFrames /\ Len(waiting[s]) < MaxAhead
  /\ queue' = push(queue, s, SequenceId(sentPairs[s]), sentPairs[s])
  /\ waiting' = [waiting EXCEPT ![s] = Append(@, sentPairs[s])]
  /\ sentPairs' = [sentPairs EXCEPT ![s] = @ + 1]
  /\ UNCHANGED <<answer, lostLast>>

\* The first frame does not come: the second finds nothing.
LoseFirst(s) ==
  /\ sentPairs[s] < MaxFrames /\ Len(waiting[s]) < MaxAhead
  /\ waiting' = [waiting EXCEPT ![s] = Append(@, sentPairs[s])]
  /\ sentPairs' = [sentPairs EXCEPT ![s] = @ + 1]
  /\ UNCHANGED <<queue, answer, lostLast>>

Second(s) ==
  /\ waiting[s] # <<>>
  /\ LET n == Head(waiting[s]) IN
     /\ answer' = [pair |-> n, result |-> Result(queue, s, SequenceId(n))]
     /\ queue' = Rest(queue, s, SequenceId(n))
  /\ waiting' = [waiting EXCEPT ![s] = Tail(@)]
  /\ UNCHANGED <<sentPairs, lostLast>>

\* The second frame does not come.
LoseSecond(s) ==
  /\ waiting[s] # <<>>
  /\ waiting' = [waiting EXCEPT ![s] = Tail(@)]
  /\ lostLast' = (lostLast \/ SequenceId(Head(waiting[s])) = Width - 1)
  /\ UNCHANGED <<queue, sentPairs, answer>>

Next == \E s \in Sources : First(s) \/ LoseFirst(s) \/ Second(s) \/ LoseSecond(s)

Spec == Init /\ [][Next]_vars

-----------------------------------------------------------------------------
(* Properties *)

\* A second frame is never given the time of another pair, however many frames
\* get lost and however often the numbers begin anew, unless the second frame
\* of the very last number was lost: that time stays and answers a round later.
MatchesItsPair ==
  answer.result.valid => answer.result.time = answer.pair \/ lostLast

=============================================================================
