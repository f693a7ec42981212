# A TLA+ model of libPTP

libPTP simulates the Precision Time Protocol (IEEE 1588-2008) in OMNeT++. A
simulated PTP node has a network interface that time-stamps frames, a local clock
that drifts and can be adjusted, a clock servo and the PTP stack, which takes part
in the election of a master and synchronises the clock. This directory models these
parts, checks them with TLC on small instances and proves what matters most with
TLAPS. The simulation kernel calls one handler at a time, so an action of a module
is one whole handler: a message, a timer event or a self message, handled to its
end, with all that it calls.

Paths below are relative to `src/src/`; `PTP_Stack/` is `Software/PTP_Stack/`.

## 1. Inventory

| Component | State | Operations | Correct means |
|---|---|---|---|
| Data set comparison (`PTP_Stack/DataTypes/DataSets/PTP_ForeignClockDS.cc`) | none | `CompareClockDS` | a strict order on what the ports of a clock hear; never undecided; symmetric |
| Best master selection, state decision (`PTP_Stack/AppServices/StateDecision/`, `PTP_Stack/Port/PTP_Port.cc`) | the decision interval | `HandleIntervalEvent`, `GetStateDecision`, `HandleStateDecision` | Ebest is the best Erbest; at most one slave port; no decision makes the clock follow itself |
| Port state machine (`PTP_Stack/Port/PTP_Port.cc`) | `portDS.portState`, the services it starts | `HandleEvent`, `ChangeState`, `StopInitialize` | the services that run are those of the state, whatever path led to it |
| Stack (`PTP_Stack/PTP_Stack.cc`) | `defaultDS`, `currentDS`, `parentDS`, `timePropertiesDS`, the EndInit event, the servo's enable flag | initialisation, port requests, `ParsePtpEvents`, `UpdateDataSets` | data sets, servo and slave port agree; faults and recoveries at any time neither end the program nor leave a port behind |
| Foreign master data set (`PTP_ForeignMasterDS*.cc`) | the latest messages of each neighbour, `Erbest` | `PushForeignClock`, `CalculateErbest`, `GetErbest`, `AdjustTimestamps` | Erbest is the best of what the neighbours have said last within the window |
| Sync, Delay, PDelay services (`PTP_Stack/AppServices/`) | sequence numbers, time stamps waiting for their partners, filters | `HandleMsg`, `HandleIntervalEvent`, `TriggerFollowUp`, `HandleTimeJump` | no time stamp is paired with one of another exchange, of another master or of another clock setting |
| Announce service (`PTP_Stack/AppServices/Announce/`) | timers, `parentDS` | `HandleMsg`, `HandleTimeoutEvent` | as the port state machine |
| Service timers (`BasicService.cc`, `PortService.cc`) | ACTIVE / IDLE, event identifiers | start, stop, update, expiry | a stopped service stays stopped; an active one has one event |
| Clock servo (`Software/ClockServo/`) | state, samples, integral part, last decision | `HandleOffset`, enable, disable | a jump is made once; the clock is synchronised in the end |
| Filters (`Software/SimTimeFilter/`) | circular buffer | `push`, `pop`, `reset` | nothing from before a reset |
| Local clock (`Hardware/HwClock/`) | hardware ticks, scale points, epoch, queue of scheduled events | jump, change of rate, schedule, cancel, expiry, time stamps | events are neither lost nor reordered by adjustments; differences of time stamps are elapsed time |
| Network interface (`Hardware/PTP_MAC/`, `Hardware/PTP_NIC_Ctrl/`) | frames waiting for their partner, path delays, fault state | ingress, egress, match, fault, recovery | a correction is applied to the frame it was measured on |
| Relay unit, Ethernet mapping (`Hardware/PTP_RelayUnit/`, `Hardware/PTP_EthernetMapping/`) | address table | forward, broadcast, encapsulate | every frame reaches those it is for exactly once |
| Delay queue (`Hardware/DualDelayer/DelayQueue/`) | delayed frames, reminder | receive, send | the order is kept, no frame stays |
| Configuration (`PTP_Stack/Profiles/`, parsers) | data sets, intervals of the services | parse, initialise, check | what was configured is in effect |
| Time data types (`PTP_Stack/DataTypes/PTP_Time*`) | none | conversions | bounded loss |
| NED files, test benches | | | not modelled |

How they interact. Frames reach the MAC, which time-stamps them, and the relay unit,
which passes them to the stack, to other MACs or to both. `PTP_Stack` gives a
message to the port it arrived at; the port hands it to every service in turn. The
services call back into the port (`HandleEvent`) and the stack (`UpdateDataSets`,
`SynchronizeClock`), the port starts and stops the services, the stack drives the
servo, and the servo and the stack adjust the local clock, which in turn moves all
scheduled events and makes the services shift stored time stamps. Timers are events
in the queue of the local clock. A MAC asks the stack for a Follow_Up when a frame
that another clock sent in one step leaves it late, and reports its faults and
recoveries; the configured `PtpEvents` are faults and recoveries of the whole clock.

What is hard: a decision round reads the foreign masters of every port, overwrites
the data sets port by port and only then changes port states; timers armed by one
round are used after later ones; the first faulty port that recovers initialises the
whole clock while the others are working; announcements that come back to their
sender; timers lost in a state that needs them; clock jumps between the arrival of a
message and its use, while a request is under way, and while a transparent clock
holds a frame; times of one master used for the next; Follow_Ups created by one
clock for the frames of another; events in scaled time kept by a kernel that knows
real time; 16-bit counters that wrap. The `hazards` list of `PROJECT.json` gives
each at its line with the properties that cover it.

## 2. Modules

### The election of a master

| Module | Models | State |
|---|---|---|
| `ClockDataSet` | `cForeignClockDS::CompareClockDS`, the order of port identities, one iteration of the loop over the ports | none (operators) |
| `BestMasterScan` | that loop, one port per step, for every combination of received data sets | `erbest`, `portIdx`, `ebestPortID` |
| `PtpStack` | a whole clock: `PTP_Stack` and its ports | see below |
| `PtpStackSilence` | the same clock in a network that falls silent; fairness and liveness | adds `silent` |
| `PtpFaults` | the same clock with network interfaces that fail and come back one by one | adds `mac`, `requests` |
| `PtpDataSets` | the same clock with the values of its data sets and where they come from | adds `currentDS`, `timePropertiesDS`, `moduleID`, `sync`, `delay`, `talking`, `jumps` |
| `ForeignMaster` | `cForeignMasterDS` and `cForeignMasterDS_Entry`: what the neighbours of one port have announced lately, and the cached best of it | `fm`, `now`, `setBack` |
| `PtpSetup` | configuration, initial intervals, every profile checker, the intervals a slave adopts | `param`, `stage`, `defaultDS`, `portDS`, `service`, ... |

`ClockDataSet`. A data set is a record of the fields that are compared. The five
attributes (priority1, class, accuracy, variance, priority2) are compared one after
the other in one fixed order, so they form a tuple, and the chain of tests in the
source is one lexicographic order. Figure 28's tests on steps and ports are kept
case by case, with the two errors. `CompareClockDS` also returns a reason, which is
only displayed.

`PtpStack`, variable by variable:

| Variable | In the code |
|---|---|
| `portState` | `portDS.portState` of every port |
| `active` | which services of a port have their timer ACTIVE |
| `qualN` | `Timeout` of `cAppSync`, the qualification timeout as last set by `SetTimeout`, in announce intervals |
| `qualSpan` | the timeout for which `StartTimeout` scheduled the event that is pending |
| `parentDS`, `steps` | `parentDS`, `currentDS.stepsRemoved` |
| `servo` | the clock servo is enabled |
| `deciding` | the interval of `cAppStateDecision` is ACTIVE |
| `endInit` | EndInit self messages in the event queue |
| `aborted` | the exceptions and assertions that have ended the program |

| Action | Handler |
|---|---|
| `EndInit` | the EndInit self message, `StopInitialize` on all ports |
| `FaultDetected`, `FaultCleared` | a fault or recovery of one port (network interface) or of all (`PtpEvents`) |
| `AnnounceTimeout`, `QualificationTimeout` | a service's timeout: `HandleTimeoutEvent`, then the port's event |
| `HandleAnnounce` | `cAppAnnounce::HandleMsg` as far as it changes the clock |
| `HandleSync` | `cAppSync` and after it `cAppDelay` on a Sync or Follow_Up message |
| `DecideStates` | `cAppStateDecision::HandleIntervalEvent`: Ebest, all decisions, the data sets, all ports |

Four abstractions, and why they are sound for the properties:

- *Time.* An ACTIVE timer may expire at any moment. Every order of events that the
  intervals allow is one the model allows; only properties that need an upper bound
  on a delay would be lost. `PortTimers` shows that the timers as programmed behave
  like this set of active timers.
- *The foreign masters of a port.* `GetErbest()` returns, in every round, any
  message that a neighbour can send or none. This includes stale answers, those of
  ports that are down, and a different answer every time.
- *Offsets.* Whether an offset is within the limit is chosen freely.
- *Messages.* A set of Announce messages with assumptions that any PTP network
  satisfies: a clock identity always comes with the same attributes, ports are
  numbered from 1, and a message that names this clock as grandmaster with zero
  steps was sent by this clock. The last one is what makes the test for a returning
  announcement work; the model has such messages, direct and forwarded.

`PtpFaults` adds, for every port, the fault and the recovery that a MAC simulates
(`MacFault`, `MacRecovery`) and the requests under way to the stack, which
`HandlePortRequ` handles in their order. A MAC that is down deletes every frame, so
no message reaches its port; decisions, timers and the other ports go on. A fault
may be due before the initialisation has ended.

`PtpDataSets` replaces a measured value by the set of master ports whose messages
went into it. The stored two-step Sync of `cAppSync`, the matcher and the remembered
times of `cAppDelay` and the filters of both carry such sets, so that a value
computed from two masters is seen. Whether a Follow_Up has the number of the stored
Sync is free, since sequence numbers of different masters may agree.

`ForeignMaster`. Time is that of the local clock in whole announce intervals. An
Announce message is pushed at the time of its reception: the delay between the time
stamp and the handler is far below an interval. Each handler that pushes also asks
for `Erbest`, for a signal, and so do the state decisions. An entry without messages
and no entry at all behave alike and are one value. `Erbest` is three fields: a
cleared data set keeps its sender and reception time, which the code goes on
reading. `HandleTimejump` is what the servo's jump does to the data set; `setBack`
remembers whether one went backward.

`PtpSetup` goes through the stages of the initialisation (`ParseResourceParameters`,
`ParseParameters`, `InitInternalState`, `FinishInit`) and then lets ports change
their role and slaves adopt the intervals their master announces. Numbers are cut to
the width of the data sets as the conversions of C++ do.

### Time stamps on their way

| Module | Models | State |
|---|---|---|
| `FrameMatch` | `PTP_FrameMatch`: times that wait for the frame that belongs to them | none (operators on sequences) |
| `FollowUpMatching` | a matcher over several rounds of sequence numbers, with losses | the matcher, what is on its way, the last answer |
| `PtpMac` | what `PTP_MAC` and `PTP_NIC_Ctrl` do with each type of message at ingress and egress: time stamps, residence times, asymmetry, corrections, requests for Follow_Ups | none (operators: frame and state to outcome) |
| `SyncService`, `DelayService`, `PDelayService` | `cAppSync`, `cAppDelay` with `cTimestampMatcher`, `cAppPDelay` | none (operators on records) |
| `PtpRelayUnit` | where a relay unit of PTP sends a PTP frame | none (operators) |
| `PtpNetwork` | composes these: a master, transparent clocks and a slave, their delayers, wires and clocks | see the module |
| `FramePath` | the way of PTP and other frames through relay units that learn addresses, the encapsulation and the Ethertypes | address tables, copies on their way, what was received |
| `PtpTime` | `cTimeStamp`, `cTimeInterval`: times in messages hold whole nanoseconds | the exchange of one slave |

`PtpNetwork` is the network between two state decisions: ports have their roles. The
nodes are a chain of any finite length from the master to the slave (`NetworkAssumption`:
`Down` are the ports that lead away from the master, `Far` is how far a node is from
it), and the asymmetry of each link is configured as it is. A frame that arrives is stamped and waits in the ingress delayer, one that leaves
waits in the egress delayer and is stamped when its transmission starts; each wait
is as long as it likes, within the budget of waits, and a frame may be lost on every
wire. Delayers keep the order of the frames, since their queues are first-in
first-out, as `DelayQueue` is shown to be. Variables that the code does not
initialise hold any value of `Garbage`. Times are exact integers and all clocks have
one rate: with different rates the formulas hold only nearly, and the loss by
rounding is the subject of `PtpTime`. History variables (`clean`, `epoch`, `sample`,
`measure`, `used`, `trusted`) record the true times beside the computed ones and
influence nothing.

### The clock

| Module | Models | State |
|---|---|---|
| `AlarmClock` | abstract: what services expect of the local clock | `remaining`, `used`, `fired` |
| `LocalClock` | `cHwClock`'s ticks, `cAdjustableClock`, `cScheduleClock`, local time stamps | ticks, scale points, epoch, event queue, wake-up message |
| `HwClock` | how a tick finds its real time on a clock that deviates; the generators of the deviation | `gen`, `now`, `requ`, `wakeAt` |
| `ServiceTimers` | abstract: timers that are active or not | `active`, `running` |
| `PortTimers` | `cBasicService`, `cPortService` on an alarm clock, one call per step | `state`, `span`, `held`, `queue`, `running` |
| `ClockServo` | `IClockServo` and the PI servo in a closed loop with the clock it steers | configuration, state, estimate, integral, decision, offset |
| `MovingAvgFilter` | moving average, its variant without extremes, the identity | the buffer and, as history, all values since the reset |
| `Fifo` | abstract: a path that keeps the order | `inside`, `sent` |
| `DelayQueue` | the queue with its size, random delays and reminder | `msgQueue`, `reminder`, `sent` |

`LocalClock` implements `AlarmClock`: an event is kept in scaled time, a jump shifts
the queue, a change of the rate changes scale points, and one kernel message is kept
for the first event. The mapping takes the remaining span of an event as its scaled
time minus the present. `PortTimers` assumes an alarm clock and implements
`ServiceTimers`, whose `active` is the variable of `PtpStack`. `DelayQueue`
implements `Fifo`, with its liveness. `PtpFaults` implements `PtpStack`.

`Components` holds the components that stand by themselves, each an instance of its
module: a behaviour is one of the component that the variable `unit` names, and the
others stay idle. `MC...` modules give TLC its instances, `MCComponents` the values
of the constants of `Components`. `MCPtpStackSilence` does the same with
`PtpStackSilence` and `PtpDataSets`. The modules `...Proofs` hold lemmas, theorems
and proofs.

## 3. What the runs check

| Run | Instance | Question |
|---|---|---|
| `best_master_scan` | 3 ports, 3 senders, two grandmasters that are equal or differ in any one attribute, up to 2 steps apart; every combination, 78 000 states | Is Ebest the best whatever the order of the ports, and is the comparison always decided? |
| `boundary_clock` | 2 ports, end to end; a grandmaster with two ports, the same one behind a boundary clock, a second grandmaster relayed with 65535 steps, a worse clock, the clock's own announcements direct and forwarded | Do ports, timers, data sets and servo agree after any sequence of events? |
| `transparent_clock` | `PtpFaults` with 2 ports, peer to peer, ports that may refuse to be master; each MAC goes down and comes up once, at any time | Does every port that had a fault listen again, and do the timers stay those of the states? |
| `primary_clock` | 3 ports, class 6, a better grandmaster | Is a clock of class 1 to 127 never synchronised? |
| `silence` | 2 ports, any history, then silence; and 1 port between two masters, one in one step and one in two, filters of 1 and 2 values, one jump | Does a clock that hears nobody become grandmaster on all ports; does one that changes its master forget the old one? |
| `foreign_master` | 2 neighbours, either of which announces either of two grandmasters; 3 messages each in a window of 2, 6 intervals, jumps both ways | Is the cached Erbest always the best of the latest announcements? |
| `network` | master, transparent clock, slave; a link slower in one direction; both delay mechanisms, each clock in one or two steps (master and slave alike); two Syncs and one request with either a jump and a wait or a loss | Are the offsets and path delays that are computed the true ones? |
| `components` | ten components by themselves, 371 000 states, see below | Does each of them do what the others rely on? |
| `foreign_master_stale` | `ForeignMaster` with jumps backward | Violated: see findings |
| `slave_only_clock` | 2 ports, class 255, slave-only | Violated: see findings |
| `announce_update` | 1 port | Violated: see findings |
| `sync_interval` | `PtpSetup` with 2 ports, other masters at other intervals | Violated: see findings |

The properties of the election and of the clock as a whole:

- `EbestBeatsScanned`, `EbestFound`, `VerdictsMirror`: the selection is right for
  every order of the ports. The comparison is by topology in one case and by quality
  in another, and mixes the two; that this is still transitive is not obvious from
  the figures.
- `NeverAborted`: neither the exception of `StopInitialize` nor the assertion of
  `GetStateDecision` is ever reached.
- `InitPhase`: ports initialise together; one EndInit event at most.
- `TimersMatchState`: `ChangeState` returns early when the state stays, and each
  state lists what it stops; still every path leaves exactly the right timers.
- `OneSlavePort`, `ServoFollowsParent`: the data sets are overwritten by several
  ports in turn, the port states change later, and faults hit ports separately; the
  clock never has two slave ports, or a slave port without a parent.
- `QualifiesForRoleAtEntry`: the event of a port that becomes PRE_MASTER is scheduled
  for no interval if the clock is its own grandmaster, for one more than its distance
  to it otherwise, as the whole round leaves the data sets that its ports overwrite
  in turn; a timeout stored by an earlier round is never used. Only the entry counts:
  later rounds neither prolong nor shorten the wait of a port that stays PRE_MASTER,
  even if the clock has changed its role meanwhile (section 5).
- `NewParentUncalibrates`: a decision for another master takes a SLAVE port through
  UNCALIBRATED.
- `NeverOwnSlave`: no port that becomes a slave, which only a decision can make it,
  gets a parent whose grandmaster is this clock. (A port that is SLAVE already takes
  whatever parent an Announce message of its grandmaster's clock brings, until the
  next decision; `NewParentUncalibrates` and `announce_update` are about those.)
- `PrimaryNeverSlave`: as its run says.
- `RecoversFromFaults`: a FAULTY port is so for a reason (its MAC is down or the
  recovery is under way), stays so while its MAC is down, unless the recovery of
  another port initialises the clock, and listens again in the end.
- `TakesOver` (liveness): a clock whose masters fall silent becomes the grandmaster
  and remains it; no port is stuck without a timer.
- `DataSetsOfParent`: time properties are those of the grandmaster, a clock that is
  its own has no offset and path delay; and (liveness) once one master is left
  talking, no value of another stays in a stored Sync, a matcher or a filter.
- `CurrentUnlessSetBack`: what `GetErbest` returns is the latest word of its sender,
  said within the window. Erbest is refreshed by another path than the messages and
  expires by its own reception time. Setting the clock back breaks it.
- `AnswerIsBest`: no qualified neighbour has announced anything better, though a
  message is usually compared with the cached Erbest only.
- `HeardInOrder`: clean-up stops at the first message it keeps, so the messages must
  be in order also after jumps.

Of the network:

- `OffsetIsTrue`: the offset of a slave is the true one, but for the error of the
  path delay that it knows, unless a clock has jumped while it held the Sync. Stored
  Syncs, corrections of several clocks and Follow_Ups that a two-step transparent
  clock adds to the Sync of a one-step master all go into it.
- `PathDelayIsTrue`: so is a path delay; a jump makes the answer to the pending
  request unusable.
- `NeverFails`: no MAC ends the simulation over a frame that must not leave it or
  that left before it came, unless a peer delay was measured across a jump.
- `LastSyncCounts`: when all is quiet and nothing was lost the slave has used the
  last Sync.

Of the components (`unit` in brackets):

- `ImplementsAlarmClock`, `AbortsOnlyBehindSchedule`, `DifferenceIsElapsed` [clock]:
  jumps and changes of the rate neither lose, double nor reorder events; no error
  ends the simulation, but for the one below; time stamps differ by what has
  elapsed, or by zero across a jump. Bounds: 4 ticks, 2 events with spans 0, 1 and
  4, 2 adjustments out of two jumps and three factors, one of them beyond the limit.
- `WakesInTheTick` [hw], `EventsFire` [hw, clock]: the halving search for the real
  time of a tick never goes past it and comes to an end, on a perfect, a fast, a
  slow and a wavering clock.
- `ImplementsServiceTimers`, `ActiveRuns` [timers]: two intervals and a timeout, of
  which one handler starts and stops the others; up to 3 calls between two ticks.
- `SchedulesMatchQueues` [clock, timers, delayer]: what is scheduled is for what
  waits, and nothing else; with it the type invariants of all components.
- `JumpIsForThisOffset`, `Locks` [servo]: no jump is made twice; whatever the drift
  of the master within the limits, the steps of its time and the restarts of the
  servo, a servo that stays enabled reaches offset zero for good. Gains of 7/10 and
  3/10 on a rate of 12 units, a threshold of 6 and an estimate over two intervals: a
  small closed loop with every state of the servo, not a statement on the gains of
  `CalcK`.
- `AnswerFromWindow` [filter]: an average is within the last values since the reset,
  and without extremes one outlier does not move it. Sizes 0 (identity), 1 and 4. An
  average without extremes of fewer than four values is zero in the code.
- `MatchesItsPair` [matching]: no second frame gets the time of another pair
  although numbers wrap (after 2; 65536 in the code) and frames are lost. The
  exception that the invariant states is real: a time kept under the last number is
  not cleaned up by lower ones and answers a round later.
- `ImplementsFifo` [delayer]: size 2, 5 frames, delays 0 and 2; frames in the queue
  leave in order, and all of them leave.
- `ReachesOnce` [frames]: a transparent clock between two hosts and a switch without
  PTP with a host behind it; 2 frames cross, and one address may age out.
- `OffsetWithinResolution` [time]: the loss by whole nanoseconds is less than half a
  nanosecond one way and two and a half the other, plus one for each of up to 2
  transparent clocks, and does not add up.
- `ConfigurationTakesEffect` [setup]: services go at the intervals of the data sets
  whatever slaves adopt; a clock that the check of initial values lets start
  satisfies the ranges of its profile, whose own check (`CheckParametersRange`)
  nothing calls. Every profile with every deviation in one parameter, values beyond
  the width of their field included.

Bounds. The state of a `PtpStack` clock is finite: nothing is cut off by a state
constraint, `steps` is a 16-bit number with `StepsModulus` = 65536, and TLC explores
all reachable states. What is small is the number of ports and of different
messages. Two ports are the fewest for a boundary clock; the third port of
`primary_clock` adds two ports that are both neither master nor slave in a round.
The messages contain every relation between two data sets that the decision
distinguishes: better by quality, better by topology, the clock itself, worse than
the clock, and the distance at which `steps` wraps. Where a theorem states the same
property it holds for any number of ports and messages.

`ForeignMaster` is bounded: `MaxTime` ends the clock, `MaxMsgs` limits the messages
of a neighbour (one more than the threshold, so that a qualified neighbour can speak
again and can lose one of its messages), and a jump may not take a message further
back than `-Window`. Six intervals let the window pass three times. Two neighbours
suffice for one to displace the other and to be displaced; two grandmasters let
either change its mind for better or worse. The theorems on it hold for any
neighbours, window and bounds.

In `network`, two Syncs are needed to mix up the stored one with the next, and one
request suffices as every request replaces the one before; a jump may happen at the
transparent clock or the slave, a wait at any queue, a loss on any wire. Two
transparent clocks in a row bring no new case, as each treats the frame by itself.

Fairness is assumed where something pending is an event with a time in the queue of
the kernel or of the clock, so that it is executed:

- `PtpStackSilence`: each timeout, EndInit and the decision interval, after the
  network has fallen silent: then nothing restarts or cancels a timer. A recovery is
  scheduled together with its fault, by the pair in `PtpEvents` or by the network
  interface. `TakesOver` is stated only for clocks that may be master: a slave-only
  clock, or a transparent clock below a master, stays in LISTENING without a timer
  by design of the code.
- `PtpFaults`: the recovery of a MAC, the requests to the stack, EndInit.
- `PtpDataSets`: the last master that talks goes on sending Syncs, with their
  Follow_Ups, and answers the requests of an ACTIVE interval. Nothing is assumed
  while two masters talk.
- `LocalClock`, `HwClock`: ticks and wake-up messages. `PortTimers`: handlers end,
  due events are executed, time goes on. `DelayQueue`: the reminder.
- `ClockServo`: Sync messages keep arriving.

Deadlock is checked except where the model really stops: the loop of
`best_master_scan` ends; in `network` the budgets run out or the simulation has
failed; the components stop at their bounds, and so do the jumps and silent masters
in `silence`; a clock of `sync_interval` may be refused by its profile. In
`ForeignMaster` time stops at `MaxTime`, but Erbest can always be asked for.

Every property of a passing run has a mutant in `PROJECT.json`: a definition with a
plausible bug (marked MUTANT in the modules) that makes the property's run fail.

## 4. What is proved

`ClockDataSetProofs` shows that `CompareClockDS`, between data sets that different
ports of a clock received from other ports (`Alike`), decides by one strict order
`Precedes` (attributes, identity, distance, path), never errs and mirrors
(`Verdict`); and that one iteration of the loop keeps `BestOf`, the statement that
the loop's variable is the best so far (`ScanStep`).

`BestMasterScanProofs` proves all invariants of the run for every number of ports
and every set of messages; the inductive invariant is `TypeOK` and `BestOf`.

`PtpStackProofs` proves every safety property of the passing runs of `PtpStack`,
invariants and action properties. The inductive invariant `IInv` is the conjunction
of the invariants, with `OneSlavePort` restated for pairs of ports. They hold only
together: `HandleAnnounce` keeps `ServoFollowsParent` because a SLAVE port implies
that the servo runs (`OneSlavePort`); `FaultCleared` keeps `InitPhase` because a
FAULTY port implies that no EndInit event is pending; the fall-through after the
qualification timeout is harmless because the timer implies PRE_MASTER
(`TimersMatchState`). The proof for `DecideStates` distinguishes whether the clock
*leads* (`Leads`: class up to 127, or D0 is better than Ebest): if so no decision is
S1, otherwise exactly that of Ebest's port, and then the data sets are those of
Ebest although every port overwrites them. `QualifiesForRoleAtEntry` follows from the
same distinction, because M1 and M2 are decisions of a clock that leads only and M3
of one that does not (`RoundQualifies`), and from `TimersMatchState` before and after
the step: the event goes on exactly while the port is PRE_MASTER (`ScheduledSpan`).

It is also about the two modules that extend `PtpStack`. `PtpFaults` implements `PtpStack`
(`FaultsImplementStack`), so that all theorems of `PtpStackProofs` hold of a clock
with failing network interfaces, and the safety parts of `RecoversFromFaults`. The
inductive invariant `FInv` relates the requests under way to the MACs: a fault is
that of a MAC that is down or is followed by the recovery of the same MAC, and a
recovery is that of a MAC that works.

`PtpDataSets` implements `PtpStack` as well (`DataSetsImplementStack`), so that `IInv`
can be used to prove the safety part of `DataSetsOfParent` (`DataSetsAlwaysAgree`), for
any number of ports and masters and filters of any length. The inductive invariant
`DInv` is the types and `DataSetsAgree`; it needs of the stack that a port which
measures or takes Table 16 from an announcement implies a running servo
(`OneSlavePort`), and that the last decider of a round writes the data sets of both.

`ForeignMasterProofs` proves the three properties of `ForeignMaster` for every
finite set of neighbours, every window and any jumps. The inductive invariant `FInv`
says that the messages are in order (`InOrder`); that the cached Erbest is the last
word of its sender, if that one is qualified, and better than the last word of every
other qualified neighbour (`Good`); and that, while the clock has not been set back,
an Erbest that has not expired is the last word of its sender and no younger than it
(`Current`). `Good` follows neither from `Current` nor from the messages: it has to
survive the expiry of messages of others (the `CleanUp...` lemmas), a push of a
better or worse message (`PushKeepsGood`) and jumps that expire Erbest before its
messages (`AdjustedKeeps`).

`LocalClockProofs` proves every safety property of `LocalClock` and that it implements
the safety part of `AlarmClock`. The inductive invariant `IInv` says that the later
scale point lies on the line that the earlier one begins, at no more than the present
hardware time, and that no line is flat (`GoodPoints`); that, unless an error has
ended the simulation, the wake-up message is set for the first event of the queue,
which can still be reached (`Scheduled`); and that within an epoch the clock advances
by exactly what elapses. `Scheduled` needs a fact about the integer division with
which scaled times become ticks: if the first event can be reached (`Reach`) all can.

`ComponentsProofs` proves what the runs check of the components by themselves. A
behaviour of `Components` is, seen by each component, one of that component
(`EachRuns`), so each proof speaks of one module only. The inductive invariants:

- `TimersInv`: `EventsAreHeld`, `ActiveHasEvent`, and that the interval whose handler
  runs holds no pending event (`RunningInterval`). The safety part of `ServiceTimers`
  follows.
- `DelayerInv`: the reminder is set exactly while a frame waits. The safety part of
  `Fifo` follows.
- `SetupInv`: once the data sets are initialised every port's services follow them,
  whatever the role.
- `ServoInv`: a decision to jump is kept only in the states whose next sample decides
  anew. Types are part of it, for all gains: the scale factor stays in its bounds
  because `Bounded` is the last step of every computation.
- `TimeInv`: the loss of each message so far is between zero and a nanosecond for each
  hop, that of the path delay between bounds that depend on the resolution, so errors
  do not add up over the rounds.
- `HwInv`: a wake-up that is scheduled is the one the search finds for the present
  time. That it never passes the tick is `BeforeTheTick`.
- `MatchingInv`: the entries of a source are in the order of their pairs, the second
  frames on their way belong to the last pairs, and no time of an earlier round of
  numbers is left unless a last number was lost.
- `PathInv`: every address in a table is behind the port it is stored with, and of
  every frame exactly one copy has reached or is on its way to each of its receivers.
  This holds in every tree (`PathAssumption`); in a network with a cycle it is false.
- `FilterInv`: the buffer holds the last values pushed since the reset. That the sums
  of the code are averages within the window is a fact about the recursive sums,
  proved by least counterexample.

`PtpNetworkProofs` proves the types of `PtpNetwork` for chains of every length. The
inductive invariant `Typed` says more than types: who may have sent a frame of each
type (`Genuine`), by which ports it may leave (`LeavesBy`), so that a Sync is only ever
on its way down and a Delay_Req on its way up; where it waits (`InEgress`,
`InIngress`), which tells at a transparent clock by which other port it came; and that
the frames on a wire arrive in their order and none is late. Without the places, the
accesses to the tables of a NIC could not be shown to be defined.

It also proves `OffsetIsTrue`, for any number of transparent clocks, each one-step or
two-step by itself, with either delay mechanism, all delays and asymmetries, any jumps
of all clocks but the master's, and any losses. What a Sync and its Follow_Up say is
only true together, and one may be far behind the other, so the invariant cannot be
about frames alone. `Accounted` says that there are *books* with which everything
agrees:

- a ledger: which Syncs each port has sent (`passed`), when the master has sent them
  (`sent`), what their Follow_Ups have to add when they leave a port (`due`), and
  behind which ports a Sync is two-step (`turned`: the clock or one before it is);
- marks: the highest numbers that have entered a port's egress queue, left it, and
  reached the other end of its wire, of the Syncs and Follow_Ups together and of
  the Follow_Ups alone. Queues hold rising numbers between two marks (`Between`): a
  Sync never comes after its own or a later Follow_Up, although losses and a
  Follow_Up that is added by the second of two clocks can change who follows whom.

Then of every frame, queue, request and memory one thing is said: a clean Sync on a
wire or with a time stamp of the present epoch has been under way for as long as its
correction, what is due to it and the link delays that only the slave adds say
(`Timed`, `Stamped`); a Follow_Up brings exactly what is due (`FrameOK`), but one whose
Sync was lost may say anything; a two-step port remembers, in order, exactly its share
of every Sync whose Follow_Up it has not sent (`Remembers`), which is why the clean-up
of the matcher never drops an entry that is needed; a Follow_Up is requested only where
the Syncs become two-step (`Asks`). The step that sends a Sync adds a line to the
ledger, every other step only moves marks or leaves the books alone. `SampleTrue` ends
the argument: from a true stamp, the origin and the corrections, the offset follows.
The error of the path delay that the slave uses is the subject of `PathDelayIsTrue`.

`LastSyncCounts` is proved with the same books (`LastSyncAlwaysCounts`). That the
books bound what a queue holds is enough for the offset, since an early or a missing
frame only has to be harmless; here it has to be absent. While nothing is lost there
are marks that are *exact* (`Full`): the ends of each queue are the last Sync and the
last Follow_Up that passed there (`Last`), the master's last Sync is the highest it has
issued (`FullStart`), where the Syncs become two-step every Sync that left has led to a
request for its Follow_Up (`AllAsked`), and the slave has used the last Sync it has or
still waits for its Follow_Up (`FullEnd`). The invariant `Followed` says `Accounted`
and that, unless a frame was lost, the marks are exact. When all queues are empty and
no request waits the marks of neighbours are equal (`QuietOn`); that the chain from the
master ends at the slave (`ChainEnds`) needs that there are finitely many ports.

`PtpDelayProofs` continues with the path delays. An exchange with a peer is one request
and at most one answer of each kind, but everything on its way can be old: answers to
earlier requests, entries of a matcher for them, numbers that were used before a jump.
A *course* of a port says how far its last request and the answer have come, in which
queue or on which wire they are, and when each was sent and received. The invariant
`Tracked` says that every port has a course with which the queues, the matchers, the
stored times and the service agree, and `Young` that no queue holds a message of a
request that was not made yet, so that nothing old can have the number that is next
(`RequestsOnCourse`). A jump of the clock ends the course: no frame has the number that
is then expected, which is why a clean measurement is a true one (`PeerDelayAlwaysTrue`).
What follows from it is that a link whose measurements were all clean is known truly or
not yet, in the data set, the NIC control and the updates between them
(`TrustedDelaysAreTrue`). With that and an invariant on time stamps (`Timely`: what waits
to leave was received before now, at a clock that relays it, or is of a type for which
its clock has the means) `NeverFailsAtAll` proves `NeverFails`: no residence time and no
correction is negative.

The theorem on peer delays is the half of `PathDelayIsTrue` that concerns peer delays.
A delay request to the master crosses every transparent clock twice, so the course of
an exchange end to end is a ledger along the chain, like that of the Syncs but up and
down; this half only TLC checks.

Assumptions. `StackAssumption`, `MessagesAssumption`, `ScanAssumption`,
`NoDSAssumption`, `MasterAssumption`, `DataSetsAssumption`, `LocalClockAssumption`,
`NetworkAssumption` and `MeanAssumption` (the means of the link delays are what they are
called) are assumptions of their modules; `ValuesAssumption` (of
`PtpDataSets`) is one of the module of its run, and a hypothesis. The modules that `Components`
instantiates state theirs as definitions (`TimersAssumption`, `DelayQueueAssumption`,
`SetupAssumption`, `ServoAssumption`, `TimeAssumption`, `HwClockAssumption`,
`MatchingAssumption`, `PathAssumption`, `FilterAssumption`), which `Components` assumes
together (`ComponentsAssumption`), so that TLC evaluates them for its instance.
`TimersAssumption` contains a fact of the code: the handler of an interval never
stops or starts its own timer. Without it `Return` would schedule a second event
beside the restarted one. `MinLog` of `SetupAssumption` is the unit in which the model
measures intervals.

Theorems on the hardware clock have a hypothesis on the generators. `Forward`: the
clock never runs backward, and passes at most one tick within `EdgePrecision`. The
first half is checked by the generators of the code, the second is not:
`cScheduleClock` only checks `EdgePrecision <= TickLenNom`
(`Hardware/HwClock/ScheduleClock/ScheduleClock.cc:265`), so that a fast clock with the
largest `EdgePrecision` could execute an event one tick late. `Gentle`: it also runs at
no more than twice the pace of real time, far beyond any clock that is simulated; of
the instances that TLC checks, `fast` is faster, and only TLC covers it.

Induction over the ports is by least counterexample: `LeastElement` (a non-empty set
of naturals has a least element) is derived from the library's theorem on the strict
subset order of finite sets, and applied to the set of port numbers for which a
claim fails. This also shows that the recursive function in `EbestPort` exists
(`ScanExists`). Of infinite sets of naturals `LeastNumber` says the same; it replaces
induction in the proofs on loops (clean-up of a matcher, the sums of a filter, the
search of the hardware clock).

Only model-checked: liveness, since fairness is out of the prover's reach
(`TakesOver`, the last parts of `RecoversFromFaults` and `DataSetsOfParent`,
`Locks`, `ActiveRuns`, `EventsFire`, the liveness of `Fifo`);
`PathDelayIsTrue` of `PtpNetwork` with the end-to-end mechanism; and the four violated
properties.

## 5. Findings

- `slave_only_clock`: a PASSIVE port becomes MASTER when the announce receipt
  timeout expires, also of a slave-only clock (`PTP_Stack/Port/PTP_Port.cc:478`).
  The other states test `slaveOnly` first. `Readme.md` lists slave-only nodes as a
  kind of clock.
- `announce_update`: a SLAVE port updates the data sets from messages whose sender
  is the *grandmaster* clock (`PTP_Stack/AppServices/Announce/AppAnnounce.cc:239`);
  the comment four lines above says "current master". Below a boundary clock the
  data sets are therefore only refreshed by state decisions.
- `foreign_master_stale`: a jump of the clock shifts the stored messages but not
  Erbest (`PTP_Stack/DataTypes/DataSets/PTP_ForeignMasterDS.cc:283`). After a jump
  backward a silent master remains Erbest for the window and the size of the jump. A
  jump forward is harmless: Erbest expires early and is found again among the
  messages (`CurrentUnlessSetBack`).
- `sync_interval`: a slave overwrites `portDS.logSyncInterval` with the interval of
  its master's Sync messages (`PTP_Stack/AppServices/Sync/AppSync.cc:272`), but not
  the interval of its own service. When the port becomes master it announces one
  interval and sends at the other, and the servos below are told the wrong one.

Observed while modelling, and stated as an exception in a property: an adjustment
handled in the very tick in which an event is due may leave the event behind the
clock and end the simulation (`AbortsOnlyBehindSchedule`); a matcher keeps the time
of a last sequence number (`MatchesItsPair`); the first path delay may be computed
from times that were never stored (`PathDelayIsTrue`, `known`).

Also observed: the comment at `PTP_Stack/Port/PTP_Port.cc:572` says that the
qualification timeout is of 0 intervals after M1 and M2 and of `stepsRemoved` + 1
after M3. This is so when the port becomes PRE_MASTER (`QualifiesForRoleAtEntry`). A
round that finds it in PRE_MASTER only stores the new timeout (`PortService.cc:104`):
`ChangeState` returns early (`PTP_Port.cc:184`) and the event goes on for its old
span, so that a port that waits after M3 does not become master sooner when M2 makes
the clock its own grandmaster. No property says otherwise.

Also observed: `PTP_Stack/AppServices/PDelay/AppPDelay.cc:234` takes the requesting
port of a triggered Follow_Up from the source of the response, and the check of
initial values of the default profile for peer to peer requires the end-to-end
mechanism (`PTP_Stack/Profiles/DefaultProfile/PTP_DefaultP2PProfileChecker.cc:98`);
both are modelled as they are. The matchers of a NIC are shared by all its ports, so
that with three or more ports copies of one frame compete for one entry; the clocks
of `network` have at most two.

## 6. Plan

Done: all parts of the inventory but the descriptions and test benches. Worth doing
next, in this order:

1. A proof of `PathDelayIsTrue` for the end-to-end mechanism, with a ledger of the delay
   requests under way, as `OffsetIsTrue` has one of the Syncs.
2. `PtpClock`, which composes `ForeignMaster` with `PtpStack`: the chosen `heard` of
   `DecideStates` becomes what the data set answers.
3. `PtpNetwork` with three ports at the transparent clock, for the matchers shared
   by several ports, and with two masters that change during an exchange.
4. Several clocks of `PtpStack` exchanging announcements. Convergence to one
   grandmaster needs an assumption that the code does not enforce: data of a lost
   grandmaster circulates, and `stepsRemoved` counts up with no bound but its width.

## 7. Not modelled

- The drift generator of the library libPLN, which is not in the repository; the
  other generators are instances of `HwClock`, the sine as a bounded wave.
- The gains that `CalcK` computes, and floating point: the servo is modelled with
  integer gains.
- `PTP_Stack::Disable` and the events `DESIGNATED_ENABLE`, `DESIGNATED_DISABLE` and
  `POWERUP`, which nothing in the program sends.
- Conversions of messages to byte buffers, which nothing calls; printing, signals
  and statistics; the tables of the parsers for clock classes, accuracies and time
  sources, which are enumerations without effect on control.
- The drop of a MAC's own frames that come back to it (`Hardware/PTP_MAC/PTP_MAC.cc:663`),
  which needs a ring of relays; the networks modelled are chains and trees.
- The exception of `UpdateTimeout` for a timeout of zero (`PortService.cc:146`), which
  only the announce receipt timeout could meet; the profiles ask for two intervals or more.
- NED files and test benches: static wiring, generators and observers.
- Properties for three hazards of the list, whose notes say why: LISTENING of a
  slave-only clock that has lost its master, the time between the announce receipt
  timeout and the next decision, and the first values of the delay filter.
