----------------------------- MODULE Components -----------------------------
(***************************************************************************)
(* The components that stand by themselves, side by side.  A behaviour is  *)
(* one of the component unit, in any of its initial states; the others     *)
(* stay in one of theirs.  The constants and variables of a component      *)
(* have its two letters in front.                                          *)
(***************************************************************************)
EXTENDS LocalClock, Sequences

CONSTANTS
  HwTickLen, HwPhase, HwEdgePrecision, HwDeviation, HwMaxReal, HwMaxSpan,
  TmIntervals, TmTimeouts, TmCalls, TmSpans, TmIds, TmMaxCalls,
  SvNominal, SvLowerBound, SvUpperBound, SvSyncInterval, SvMaxFrequEstInterval,
  SvFrequEstShift, SvOffsetThreshForReset, SvKP, SvKI, SvGainUnit, SvDrifts, SvSteps,
  SvMaxOffset, SvMaxEvents,
  DqFrames, DqMaxSize, DqDelays, DqMaxFrames,
  FlSizes, FlValues, FlMaxPushed,
  FuSources, FuWidth, FuMaxFrames, FuMaxAhead,
  SuPorts, SuParams, SuLogs, SuMinLog,
  FpNodes, FpClockType, FpPtpEnable, FpRegistered, FpLink, FpBeyond, FpTypes,
  FpMaxFrames, FpMaxAged,
  PtSub, PtNsPerS, PtNsWord, PtOffsets, PtDelays, PtTimes, PtResidences, PtMaxHops

VARIABLES
  unit,
  hwGen, hwNow, hwRequ, hwWakeAt,
  tmState, tmSpan, tmHeld, tmQueue, tmRunning, tmCalls,
  svConfig, svDrift, svState, svFreqEstCnt, svStart, svIntegral, svDec, svScale,
  svOffset, svEvents,
  dqQueue, dqReminder, dqReceived, dqSent,
  flSize, flDiscard, flBuf, flSince,
  fuQueue, fuSent, fuWaiting, fuAnswer, fuLost,
  suParam, suStage, suChecker, suDefaultDS, suPortDS, suService, suServo, suRole,
  fpTable, fpFrames, fpFlying, fpGot, fpAged,
  ptClock, ptPhase, ptMsg, ptSynced, ptDelay, ptOffset

hwVars == <<hwGen, hwNow, hwRequ, hwWakeAt>>
tmVars == <<tmState, tmSpan, tmHeld, tmQueue, tmRunning, tmCalls>>
svVars == <<svConfig, svDrift, svState, svFreqEstCnt, svStart, svIntegral, svDec,
            svScale, svOffset, svEvents>>
dqVars == <<dqQueue, dqReminder, dqReceived, dqSent>>
flVars == <<flSize, flDiscard, flBuf, flSince>>
fuVars == <<fuQueue, fuSent, fuWaiting, fuAnswer, fuLost>>
suVars == <<suParam, suStage, suChecker, suDefaultDS, suPortDS, suService, suServo, suRole>>
fpVars == <<fpTable, fpFrames, fpFlying, fpGot, fpAged>>
ptVars == <<ptClock, ptPhase, ptMsg, ptSynced, ptDelay, ptOffset>>

allVars == <<unit, vars, hwVars, tmVars, svVars, dqVars, flVars, fuVars, suVars,
            fpVars, ptVars>>

-----------------------------------------------------------------------------

Hw == INSTANCE HwClock WITH
  gen <- hwGen, now <- hwNow, requ <- hwRequ, wakeAt <- hwWakeAt,
  TickLen <- HwTickLen, Phase <- HwPhase, EdgePrecision <- HwEdgePrecision,
  Deviation <- HwDeviation, MaxReal <- HwMaxReal, MaxSpan <- HwMaxSpan

Timers == INSTANCE PortTimers WITH
  state <- tmState, span <- tmSpan, held <- tmHeld, queue <- tmQueue,
  running <- tmRunning, calls <- tmCalls,
  Intervals <- TmIntervals, Timeouts <- TmTimeouts, Calls <- TmCalls,
  Spans <- TmSpans, Ids <- TmIds, MaxCalls <- TmMaxCalls

Servo == INSTANCE ClockServo WITH
  config <- svConfig, drift <- svDrift, servoState <- svState, freqEstCnt <- svFreqEstCnt,
  start <- svStart, integral <- svIntegral, sampleDec <- svDec, scale <- svScale,
  offset <- svOffset, events <- svEvents,
  Nominal <- SvNominal, LowerBound <- SvLowerBound, UpperBound <- SvUpperBound,
  SyncInterval <- SvSyncInterval, MaxFrequEstInterval <- SvMaxFrequEstInterval,
  FrequEstShift <- SvFrequEstShift, OffsetThreshForReset <- SvOffsetThreshForReset,
  KP <- SvKP, KI <- SvKI, GainUnit <- SvGainUnit, Drifts <- SvDrifts, Steps <- SvSteps,
  MaxOffset <- SvMaxOffset, MaxEvents <- SvMaxEvents

Delayer == INSTANCE DelayQueue WITH
  msgQueue <- dqQueue, reminder <- dqReminder, received <- dqReceived, sent <- dqSent,
  Frames <- DqFrames, MaxSize <- DqMaxSize, Delays <- DqDelays, MaxFrames <- DqMaxFrames

Filter == INSTANCE MovingAvgFilter WITH
  size <- flSize, discardMinMax <- flDiscard, buf <- flBuf, since <- flSince,
  Sizes <- FlSizes, Values <- FlValues, MaxPushed <- FlMaxPushed

Matching == INSTANCE FollowUpMatching WITH
  queue <- fuQueue, sentPairs <- fuSent, waiting <- fuWaiting, answer <- fuAnswer,
  lostLast <- fuLost,
  Sources <- FuSources, Width <- FuWidth, MaxFrames <- FuMaxFrames, MaxAhead <- FuMaxAhead

Setup == INSTANCE PtpSetup WITH
  param <- suParam, stage <- suStage, checker <- suChecker, defaultDS <- suDefaultDS,
  portDS <- suPortDS, service <- suService, servo <- suServo, role <- suRole,
  Ports <- SuPorts, Params <- SuParams, Logs <- SuLogs, MinLog <- SuMinLog

Path == INSTANCE FramePath WITH
  table <- fpTable, frames <- fpFrames, flying <- fpFlying, got <- fpGot, aged <- fpAged,
  Nodes <- FpNodes, ClockType <- FpClockType, PtpEnable <- FpPtpEnable,
  Registered <- FpRegistered, Link <- FpLink, Beyond <- FpBeyond, Types <- FpTypes,
  MaxFrames <- FpMaxFrames, MaxAged <- FpMaxAged

Time == INSTANCE PtpTime WITH
  clock <- ptClock, phase <- ptPhase, msg <- ptMsg, synced <- ptSynced,
  meanPathDelay <- ptDelay, offset <- ptOffset,
  Sub <- PtSub, NsPerS <- PtNsPerS, NsWord <- PtNsWord, Offsets <- PtOffsets,
  Delays <- PtDelays, Times <- PtTimes, Residences <- PtResidences, MaxHops <- PtMaxHops

\* What the modules of the components, and the proofs about them, assume.
ASSUME ComponentsAssumption ==
  /\ Hw!HwClockAssumption /\ Timers!TimersAssumption /\ Servo!ServoAssumption
  /\ Delayer!DelayQueueAssumption /\ Filter!FilterAssumption /\ Matching!MatchingAssumption
  /\ Setup!SetupAssumption /\ Path!PathAssumption /\ Time!TimeAssumption

-----------------------------------------------------------------------------

Units == {"clock", "hw", "timers", "servo", "delayer", "filter", "matching",
          "setup", "frames", "time"}

\* The values that a variable of component what begins with: one of all, while
\* another component is looked at.
Start(what, values) == IF unit = what THEN values ELSE {CHOOSE v \in values : TRUE}

TimerSpans ==
  {s \in [Timers!Timers -> UNION {TmSpans[t] : t \in Timers!Timers}] :
     \A t \in Timers!Timers : s[t] \in TmSpans[t]}

StartValues ==
  /\ hwGen \in Start("hw", DOMAIN HwDeviation)
  /\ tmSpan \in Start("timers", TimerSpans)
  /\ svConfig \in Start("servo", Servo!Configs) /\ svDrift \in Start("servo", SvDrifts)
  /\ flSize \in Start("filter", FlSizes) /\ flDiscard \in Start("filter", BOOLEAN)
  /\ suParam \in Start("setup", SuParams)
  /\ ptClock \in Start("time", [offset : PtOffsets, delay : PtDelays])

CInit ==
  /\ unit \in Units
  /\ StartValues
  /\ Init /\ Hw!Init /\ Timers!Init /\ Servo!Init /\ Delayer!Init /\ Filter!Init
  /\ Matching!Init /\ Setup!Init /\ Path!Init /\ Time!Init

CNext ==
  /\ UNCHANGED unit
  /\ \/ unit = "clock" /\ Next
        /\ UNCHANGED <<hwVars, tmVars, svVars, dqVars, flVars, fuVars, suVars, fpVars, ptVars>>
     \/ unit = "hw" /\ Hw!Next
        /\ UNCHANGED <<vars, tmVars, svVars, dqVars, flVars, fuVars, suVars, fpVars, ptVars>>
     \/ unit = "timers" /\ Timers!Next
        /\ UNCHANGED <<vars, hwVars, svVars, dqVars, flVars, fuVars, suVars, fpVars, ptVars>>
     \/ unit = "servo" /\ Servo!Next
        /\ UNCHANGED <<vars, hwVars, tmVars, dqVars, flVars, fuVars, suVars, fpVars, ptVars>>
     \/ unit = "delayer" /\ Delayer!Next
        /\ UNCHANGED <<vars, hwVars, tmVars, svVars, flVars, fuVars, suVars, fpVars, ptVars>>
     \/ unit = "filter" /\ Filter!Next
        /\ UNCHANGED <<vars, hwVars, tmVars, svVars, dqVars, fuVars, suVars, fpVars, ptVars>>
     \/ unit = "matching" /\ Matching!Next
        /\ UNCHANGED <<vars, hwVars, tmVars, svVars, dqVars, flVars, suVars, fpVars, ptVars>>
     \/ unit = "setup" /\ Setup!Next
        /\ UNCHANGED <<vars, hwVars, tmVars, svVars, dqVars, flVars, fuVars, fpVars, ptVars>>
     \/ unit = "frames" /\ Path!Next
        /\ UNCHANGED <<vars, hwVars, tmVars, svVars, dqVars, flVars, fuVars, suVars, ptVars>>
     \/ unit = "time" /\ Time!Next
        /\ UNCHANGED <<vars, hwVars, tmVars, svVars, dqVars, flVars, fuVars, suVars, fpVars>>

\* The fairness of each component, as its module states it.
CFairness ==
  /\ WF_vars(unit = "clock" /\ Tick) /\ WF_vars(unit = "clock" /\ HandleWakeUp)
  /\ WF_hwVars(unit = "hw" /\ Hw!WakeUp)
  /\ WF_tmVars(unit = "timers" /\ Timers!Return)
  /\ WF_tmVars(unit = "timers" /\ \E i \in DOMAIN tmQueue : Timers!Fire(i))
  /\ WF_tmVars(unit = "timers" /\ Timers!Elapse)
  /\ WF_svVars(unit = "servo" /\ Servo!Sample)
  /\ WF_dqVars(unit = "delayer" /\ Delayer!HandleReminder)
  /\ WF_dqVars(unit = "delayer" /\ Delayer!Elapse)

CSpec == CInit /\ [][CNext]_allVars /\ CFairness

-----------------------------------------------------------------------------
(* The properties of the components; their modules say what they mean. *)

\* The type invariants of all components.
ComponentsTypeOK ==
  /\ TypeOK
  /\ Hw!TypeOK /\ Timers!TypeOK /\ Servo!TypeOK
  /\ Delayer!TypeOK /\ Filter!TypeOK /\ Matching!TypeOK
  /\ Setup!TypeOK /\ Path!TypeOK /\ Time!TypeOK

\* What a component has scheduled is for what it has queued, and nothing else:
\* the wake-up of the local clock, the events of the timers, the reminder of a
\* delay queue.
SchedulesMatchQueues ==
  /\ ComponentsTypeOK
  /\ WakesForFirstEvent
  /\ Timers!EventsAreHeld /\ Timers!ActiveHasEvent
  /\ Delayer!ReminderRuns

\* The hardware clock executes an event in the tick it is for, soon after the
\* tick begins.
WakesInTheTick == Hw!NeverBeyondTheTick /\ Hw!SoonAfterTheTickBegins

\* An event that waits for a tick is executed, by the hardware clock as by the
\* local clock above it.
EventsFire == EveryEventFires /\ Hw!EventIsExecuted

\* The timers of the services are what the port state machine takes them for.
ImplementsServiceTimers == Timers!ImplementsServiceTimers

\* The handler of an active interval is executed again and again.
ActiveRuns == Timers!ActiveRuns

\* A decision of the servo to jump is for the offset just measured.
JumpIsForThisOffset == Servo!JumpIsForThisOffset

\* A slave whose servo stays enabled is finally synchronised.
Locks == Servo!Locks

\* A delay queue is a first-in first-out path that lets every frame go.
ImplementsFifo == Delayer!ImplementsFifo

\* A filter answers from the values since the last reset.
AnswerFromWindow == Filter!AnswerFromWindow

\* A second frame is never given the time of another pair.
MatchesItsPair == Matching!MatchesItsPair

\* Every frame reaches every stack it is for exactly once.
ReachesOnce == Path!ReachesOnce

\* Of the offset to the master only parts of a nanosecond are lost at each step.
OffsetWithinResolution == Time!OffsetWithinResolution

\* The configuration that the clock was given is in effect while it runs, and a
\* clock that a profile lets start is within the ranges of the profile.
ConfigurationTakesEffect == Setup!ConfigurationTakesEffect

=============================================================================
