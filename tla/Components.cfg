CONSTANTS
  Nominal = 2
  LowerFactor = 1
  UpperFactor = 3
  BeginScaledTime = 4
  EnableAdjustments = TRUE
  Factors <- MCFactors
  Jumps <- MCJumps
  Spans = {0, 1, 4}
  MaxHw = 4
  MaxEvents = 2
  MaxAdjustments = 2
  HwTickLen = 6
  HwPhase = 2
  HwEdgePrecision = 1
  HwDeviation <- MCDeviation
  HwMaxReal = 30
  HwMaxSpan = 3
  TmIntervals = {"Decision", "Sync"}
  TmTimeouts = {"Qualification"}
  TmCalls <- MCCalls
  TmSpans <- MCSpans
  TmIds <- MCIds
  TmMaxCalls = 3
  SvNominal = 12
  SvLowerBound <- MCLowerBound
  SvUpperBound = 4
  SvSyncInterval = 1
  SvMaxFrequEstInterval = 2
  SvFrequEstShift = 2
  SvOffsetThreshForReset = 6
  SvKP = 7
  SvKI = 3
  SvGainUnit = 10
  SvDrifts <- MCDrifts
  SvSteps <- MCSteps
  SvMaxOffset = 14
  SvMaxEvents = 2
  DqFrames = {"f", "g"}
  DqMaxSize = 2
  DqDelays = {0, 2}
  DqMaxFrames = 5
  FlSizes = {0, 1, 4}
  FlValues <- MCValues
  FlMaxPushed = 5
  FuSources = {"a", "b"}
  FuWidth = 2
  FuMaxFrames = 4
  FuMaxAhead = 2
  SuPorts = {1, 2}
  SuParams <- MCParams
  SuLogs = {2}
  SuMinLog <- MCMinLog
  FpNodes <- PathNodes
  FpClockType <- PathClockType
  FpPtpEnable <- PathPtpEnable
  FpRegistered <- PathRegistered
  FpLink <- PathLink
  FpBeyond <- PathBeyond
  FpTypes = {"SYNC", "PDELAY_REQ"}
  FpMaxFrames = 2
  FpMaxAged = 1
  PtSub = 3
  PtNsPerS = 2
  PtNsWord = 4
  PtOffsets <- MCOffsets
  PtDelays = {1, 5, 6}
  PtTimes = {0, 4, 8}
  PtResidences = {1, 5}
  PtMaxHops = 2
SPECIFICATION CSpec
INVARIANTS
  SchedulesMatchQueues
  AbortsOnlyBehindSchedule
  DifferenceIsElapsed
  WakesInTheTick
  AnswerFromWindow
  MatchesItsPair
  ReachesOnce
  OffsetWithinResolution
PROPERTIES
  ImplementsAlarmClock
  EventsFire
  ImplementsServiceTimers
  ActiveRuns
  JumpIsForThisOffset
  Locks
  ImplementsFifo
  ConfigurationTakesEffect
CHECK_DEADLOCK FALSE
