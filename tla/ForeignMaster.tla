---------------------------- MODULE ForeignMaster ----------------------------
(***************************************************************************)
(* The foreign master data set of a port: classes cForeignMasterDS and     *)
(* cForeignMasterDS_Entry.  It keeps the Announce messages of every        *)
(* neighbour for a time window and caches in Erbest the best of those      *)
(* neighbours that have been heard often enough.                           *)
(*                                                                         *)
(* Time is that of the local clock, in announce intervals.  A jump of the  *)
(* clock moves the reception times along.                                  *)
(***************************************************************************)
EXTENDS ClockDataSet, Sequences, FiniteSets

CONSTANTS
  DataSets,   \* what the neighbours of the port announce
  Window,     \* ForeignMasterTimeWindow
  Jumps,      \* by how much the local clock can jump
  MaxTime,    \* bound: the model ends when the clock shows this
  MaxMsgs     \* bound: messages of one neighbour within a window

Threshold == 2     \* PTP_FOREIGN_MASTER_THRESHOLD

Senders == {d.sender : d \in DataSets}

Nobody == [clock |-> 0, port |-> 0]   \* a default cPortIdentity

ASSUME MasterAssumption ==
  /\ DataSets \subseteq DataSet /\ IsFiniteSet(Senders)
  /\ Window \in Nat \ {0}
  /\ Jumps \subseteq Int
  /\ MaxTime \in Nat /\ MaxMsgs \in Nat

\* All data sets are received on one port, which is nobody's sender; a clock
\* identity comes with one set of attributes.
ASSUME DataSetsAssumption ==
  \A d, e \in DataSets : /\ d.sender # d.receiver /\ d.sender # Nobody
                         /\ d.receiver = e.receiver
                         /\ d.gm = e.gm => d.attrs = e.attrs

-----------------------------------------------------------------------------
(* The entry of one neighbour: its messages in the order of reception.      *)

Heard == [data : DataSets, rx : Int]

\* CleanUp: messages are dropped from the front while they are too old.
CleanUp(msgs, now) ==
  LET old == {i \in 1 .. Len(msgs) :
                \A j \in 1 .. i : msgs[j].rx < now - Window}
  IN SubSeq(msgs, Cardinality(old) + 1, Len(msgs))

\* MUTANT of MostRecent: the oldest message in the window.
LeastRecent(msgs) == msgs[1]

MostRecent(msgs) == msgs[Len(msgs)]

\* MUTANT of IsNewData: a neighbour that qualifies is no news.
IsChangedData(msgs, d) ==
  Len(msgs) >= Threshold /\ MostRecent(msgs).data # d

\* NewDataFlag of cForeignMasterDS_Entry::PushForeignClock: the neighbour
\* qualifies with this message or, being qualified, says something else.
IsNewData(msgs, d) ==
  \/ Len(msgs) + 1 = Threshold
  \/ Len(msgs) >= Threshold /\ MostRecent(msgs).data # d

-----------------------------------------------------------------------------
(* The data set: fm.masters[s] are the messages of neighbour s, empty if it *)
(* has no entry.  A cleared Erbest keeps its sender and reception time.     *)

MasterDS == [masters : [Senders -> Seq(Heard)],
             erbest  : DataSets \cup {NoDS},
             sender  : Senders \cup {Nobody},
             rx      : Int]

NoMasters == [masters |-> [s \in Senders |-> <<>>],
              erbest |-> NoDS, sender |-> Nobody, rx |-> 0]

CleanUpAll(masters, now) == [s \in Senders |-> CleanUp(masters[s], now)]

SetErbest(fm, h) ==
  [fm EXCEPT !.erbest = h.data, !.sender = h.data.sender, !.rx = h.rx]

Qualified(masters) == {s \in Senders : Len(masters[s]) >= Threshold}

\* CalculateErbest.  The loop over the entries keeps the better of Erbest and
\* the next candidate; with different senders its result does not depend on
\* the order of the entries.
CalculateErbest(fm, now) ==
  LET masters == CleanUpAll(fm.masters, now)
      candidates == {MostRecent(masters[s]) : s \in Qualified(masters)}
      cleaned == [fm EXCEPT !.masters = masters]
  IN IF candidates = {} THEN [cleaned EXCEPT !.erbest = NoDS]
     ELSE SetErbest(cleaned,
            CHOOSE h \in candidates :
              \A g \in candidates : g # h => BetterThan(h.data, g.data))

\* PushForeignClock(d, now).  The first message of a neighbour only creates
\* its entry.
PushForeignClock(fm, d, now) ==
  LET masters == CleanUpAll(fm.masters, now)
      msgs    == masters[d.sender]
      h       == [data |-> d, rx |-> now]
      pushed  == [fm EXCEPT !.masters = [masters EXCEPT ![d.sender] = Append(@, h)]]
      new     == IsNewData(msgs, d)
  IN CASE msgs = <<>> -> pushed
       [] msgs # <<>> /\ fm.sender = d.sender ->
            IF new THEN CalculateErbest(pushed, now) ELSE [pushed EXCEPT !.rx = now]
       [] msgs # <<>> /\ fm.sender # d.sender ->
            IF new /\ WorseThan(fm.erbest, d) THEN SetErbest(pushed, h) ELSE pushed

IsErbestValid(fm, now) == now <= Window \/ fm.rx >= now - Window

\* GetErbest: the data set afterwards; its answer is the field erbest.
GetErbest(fm, now) ==
  IF IsErbestValid(fm, now) THEN fm ELSE CalculateErbest(fm, now)

\* MUTANT of AdjustTimestamps: the messages keep their reception times.
KeepTimestamps(fm, delta) == fm

\* AdjustTimestamps: the reception times of all messages; not that of Erbest.
AdjustTimestamps(fm, delta) ==
  [fm EXCEPT !.masters =
     [s \in Senders |-> [i \in DOMAIN fm.masters[s] |->
        [fm.masters[s][i] EXCEPT !.rx = @ + delta]]]]

-----------------------------------------------------------------------------

VARIABLES
  fm, now,
  setBack   \* the clock has been set back before (history)

vars == <<fm, now, setBack>>

\* The sender and reception time that outlive a cleared Erbest are its own
\* while it is there.
TypeOK ==
  /\ fm \in MasterDS /\ now \in Nat /\ setBack \in BOOLEAN
  /\ fm.erbest # NoDS => fm.sender = fm.erbest.sender

Init == fm = NoMasters /\ now = 0 /\ setBack = FALSE

\* An Announce message: it is pushed, and a signal reports Erbest.
HandleAnnounce(d) ==
  /\ Len(fm.masters[d.sender]) < MaxMsgs
  /\ fm' = GetErbest(PushForeignClock(fm, d, now), now)
  /\ UNCHANGED <<now, setBack>>

\* The state decision asks for Erbest.
AskErbest == fm' = GetErbest(fm, now) /\ UNCHANGED <<now, setBack>>

HandleTimejump(delta) ==
  /\ now + delta \in 0 .. MaxTime
  /\ \A s \in Senders : \A i \in DOMAIN fm.masters[s] :
       fm.masters[s][i].rx + delta >= - Window     \* a bound of the model
  /\ now' = now + delta
  /\ setBack' = (setBack \/ delta < 0)
  /\ fm' = AdjustTimestamps(fm, delta)

Tick == now < MaxTime /\ now' = now + 1 /\ UNCHANGED <<fm, setBack>>

Next == \/ \E d \in DataSets : HandleAnnounce(d)
        \/ AskErbest
        \/ \E delta \in Jumps : HandleTimejump(delta)
        \/ Tick

Spec == Init /\ [][Next]_vars

-----------------------------------------------------------------------------
(* Properties.  Answer is what the state decision would be told now. *)

Answer == GetErbest(fm, now).erbest

InWindow == CleanUpAll(fm.masters, now)

\* The answer is what its sender has said last, and within the window: a
\* neighbour that falls silent for longer is never followed, and one that
\* changes its mind is not followed for what it said before.
AnswerIsCurrent ==
  Answer # NoDS =>
    /\ InWindow[Answer.sender] # <<>>
    /\ MostRecent(InWindow[Answer.sender]).data = Answer

\* The same on a clock that has only ever been set forward; setting it back
\* makes Erbest expire too late.
CurrentUnlessSetBack == ~setBack => AnswerIsCurrent

\* Nothing that a qualified neighbour has said last is better than the
\* answer, although most messages are compared with the cached Erbest only.
AnswerIsBest ==
  \A s \in Qualified(InWindow) :
    LET d == MostRecent(InWindow[s]).data
    IN Answer = d \/ BetterThan(Answer, d)

\* The messages of a neighbour stay in the order of their reception times,
\* whatever the clock does: CleanUp stops at the first one it keeps.
HeardInOrder ==
  \A s \in Senders : \A i, j \in DOMAIN fm.masters[s] :
    i < j => fm.masters[s][i].rx <= fm.masters[s][j].rx

=============================================================================
