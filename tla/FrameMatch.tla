----------------------------- MODULE FrameMatch -----------------------------
(***************************************************************************)
(* PTP_FrameMatch: the times remembered for frames until the frame that    *)
(* belongs to each of them comes by.  A matcher is a sequence of entries.  *)
(***************************************************************************)
EXTENDS Integers, Sequences

Entry(source, sequenceId, time) ==
  [source |-> source, sequenceId |-> sequenceId, time |-> time]

push(queue, source, sequenceId, time) == Append(queue, Entry(source, sequenceId, time))

\* The entry that matches, the first of them if there are several.
Matching(queue, source, sequenceId) ==
  {i \in DOMAIN queue :
     /\ queue[i].source = source /\ queue[i].sequenceId = sequenceId
     /\ \A j \in 1 .. (i - 1) :
          ~(queue[j].source = source /\ queue[j].sequenceId = sequenceId)}

\* Entries of the same source with a lower number will not be asked for again.
Outdated(entry, source, sequenceId) ==
  entry.source = source /\ entry.sequenceId < sequenceId

\* MUTANT of Cleaned: older entries stay.
NotCleaned(queue, source, sequenceId) == queue

\* The loop erases the outdated entries it passes.
Cleaned(queue, source, sequenceId) ==
  LET kept[n \in 0 .. Len(queue)] ==
        IF n = 0 THEN <<>>
        ELSE IF Outdated(queue[n], source, sequenceId) THEN kept[n - 1]
        ELSE Append(kept[n - 1], queue[n])
  IN  kept[Len(queue)]

NoMatch == [valid |-> FALSE, time |-> 0]

\* MatchResult_t
Result(queue, source, sequenceId) ==
  IF Matching(queue, source, sequenceId) = {} THEN NoMatch
  ELSE LET i == CHOOSE i \in Matching(queue, source, sequenceId) : TRUE
       IN  [valid |-> TRUE, time |-> queue[i].time]

\* What pop leaves in the queue: it ends at the match.
Rest(queue, source, sequenceId) ==
  IF Matching(queue, source, sequenceId) = {} THEN Cleaned(queue, source, sequenceId)
  ELSE LET i == CHOOSE i \in Matching(queue, source, sequenceId) : TRUE
       IN  Cleaned(SubSeq(queue, 1, i - 1), source, sequenceId)
             \o SubSeq(queue, i + 1, Len(queue))

=============================================================================
