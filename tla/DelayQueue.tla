----------------------------- MODULE DelayQueue -----------------------------
(***************************************************************************)
(* DelayQueue: frames wait in a queue of limited size; the first one is    *)
(* sent when the reminder message comes back after a delay that is drawn   *)
(* anew for each frame when it becomes the first.                          *)
(***************************************************************************)
EXTENDS Integers, Sequences

CONSTANTS
  Frames,      \* what distinguishes one frame from another
  MaxSize,
  Delays,      \* values of the volatile parameter Delay
  MaxFrames    \* bound on the frames received

DelayQueueAssumption == MaxSize \in Nat \ {0} /\ Delays \subseteq Nat /\ MaxFrames \in Nat

VARIABLES
  msgQueue,
  reminder,    \* time until ReminderMsg arrives, or None
  received,    \* number of frames received
  sent         \* frames sent (history)

vars == <<msgQueue, reminder, received, sent>>

None == -1

TypeOK ==
  /\ msgQueue \in Seq(Frames) /\ Len(msgQueue) <= MaxSize
  /\ reminder \in Delays \cup {None} \cup Nat
  /\ received \in 0 .. MaxFrames
  /\ sent \in Seq(Frames)

Init == msgQueue = <<>> /\ reminder = None /\ received = 0 /\ sent = <<>>

\* ScheduleReminder, with the queue q and the reminder r
ScheduleReminder(q, r) ==
  IF q # <<>> /\ r = None THEN reminder' \in Delays ELSE reminder' = r

\* MUTANT of HandleReminder: the reminder is not scheduled again.
HandleReminderOnce ==
  /\ reminder = 0
  /\ sent' = Append(sent, Head(msgQueue))
  /\ msgQueue' = Tail(msgQueue)
  /\ reminder' = None
  /\ UNCHANGED received

HandleReminder ==
  /\ reminder = 0
  /\ sent' = Append(sent, Head(msgQueue))
  /\ msgQueue' = Tail(msgQueue)
  /\ ScheduleReminder(msgQueue', None)
  /\ UNCHANGED received

\* handleMessage: a frame that finds the queue full is deleted.
Receive(f) ==
  /\ received < MaxFrames
  /\ received' = received + 1
  /\ IF Len(msgQueue) < MaxSize
     THEN msgQueue' = Append(msgQueue, f) /\ ScheduleReminder(msgQueue', reminder)
     ELSE UNCHANGED <<msgQueue, reminder>>
  /\ UNCHANGED sent

\* Time passes.
Elapse ==
  /\ reminder > 0
  /\ reminder' = reminder - 1
  /\ UNCHANGED <<msgQueue, received, sent>>

Next == HandleReminder \/ Elapse \/ \E f \in Frames : Receive(f)

\* The simulation delivers the reminder when its time has come.
Spec == Init /\ [][Next]_vars /\ WF_vars(HandleReminder) /\ WF_vars(Elapse)

-----------------------------------------------------------------------------
(* Properties *)

\* The reminder runs exactly while frames wait: none waits for ever, and the
\* reminder never finds the queue empty.
ReminderRuns == reminder # None <=> msgQueue # <<>>

\* The queue keeps the order of the frames and lets every one of them go,
\* whatever delays are drawn: modules that send over a path may rely on it.
Path == INSTANCE Fifo WITH inside <- msgQueue

ImplementsFifo == Path!Spec

=============================================================================
