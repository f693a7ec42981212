----------------------------- MODULE ClockServo -----------------------------
(***************************************************************************)
(* The clock servo of a slave (IClockServo with the PI servo) in a closed  *)
(* loop with the clock it steers: every Sync interval it is given the      *)
(* offset to the master and decides to jump, to change the rate, or        *)
(* neither.                                                                *)
(*                                                                         *)
(* Rates are the scaled time of one Sync interval, relative to Nominal.    *)
(* The gains are integers over GainUnit.                                   *)
(***************************************************************************)
EXTENDS Integers

CONSTANTS
  Nominal,               \* 1E9: a Sync interval at the nominal rate
  LowerBound,            \* ScaleFactor_LowerBound_ppb
  UpperBound,            \* ScaleFactor_UpperBound_ppb
  SyncInterval,
  MaxFrequEstInterval,
  FrequEstShift,
  OffsetThreshForReset,
  KP, KI, GainUnit,
  Drifts,                \* rates a master can have
  Steps,                 \* what can be added to the offset at once
  MaxOffset,             \* bound on the offset of a clock no one steers
  MaxEvents              \* bound on steps and on switching the servo off

ServoAssumption ==
  /\ Nominal \in Nat \ {0} /\ SyncInterval \in Nat \ {0} /\ GainUnit \in Nat \ {0}
  /\ MaxFrequEstInterval \in Nat
  /\ FrequEstShift \in Nat /\ 2 ^ FrequEstShift \in Nat \ {0}
  /\ LowerBound \in Int /\ UpperBound \in Nat /\ LowerBound <= 0 /\ Nominal + LowerBound >= 0
  /\ KP \in Int /\ KI \in Int /\ Steps \subseteq Int /\ Drifts \subseteq LowerBound .. UpperBound
  /\ MaxEvents \in Nat

VARIABLES
  config,      \* EnableSyntonize, EnableTimeJump, EnableSynchronize
  drift,       \* rate of the master
  servoState,
  freqEstCnt,
  start,       \* Local[0] and Remote[0], as local time and offset since then
  integral,    \* Integral, in units of 1 / GainUnit
  sampleDec,   \* SampleDec
  scale,       \* the scale factor of the clock
  offset,      \* offsetFromMaster
  events       \* steps and switches so far (bounds the behaviour)

vars == <<config, drift, servoState, freqEstCnt, start, integral, sampleDec,
          scale, offset, events>>

ServoStates == {"DISABLED", "INIT", "SYNTONIZE_INIT", "SYNTONIZE_START",
                "SYNTONIZE", "JUMP", "SCALE"}

Configs == [syntonize : BOOLEAN, timeJump : BOOLEAN, synchronize : BOOLEAN]

TypeOK ==
  /\ config \in Configs
  /\ drift \in Drifts
  /\ servoState \in ServoStates
  /\ freqEstCnt \in 0 .. 2 ^ FrequEstShift
  /\ start \in [local : Nat, offset : Int]
  /\ integral \in Int
  /\ sampleDec \in [enableJump : BOOLEAN, delta : Int,
                    enableScale : BOOLEAN, scaleFactor : LowerBound .. UpperBound]
  /\ scale \in LowerBound .. UpperBound
  /\ offset \in Int
  /\ events \in 0 .. MaxEvents

Least(a, b) == IF a <= b THEN a ELSE b
Greatest(a, b) == IF a >= b THEN a ELSE b
Magnitude(a) == IF a < 0 THEN -a ELSE a
Bounded(s) == Greatest(LowerBound, Least(UpperBound, s))

\* Conversion of a double to int64_t: towards zero.
Truncated(a, b) ==
  IF (a < 0) = (b < 0) THEN Magnitude(a) \div Magnitude(b)
                       ELSE -(Magnitude(a) \div Magnitude(b))

\* CalcMaxFrequEstCnt
MaxFreqEstCnt ==
  Greatest(1, Least(2 ^ FrequEstShift - 1, MaxFrequEstInterval \div SyncInterval))

NoDecision == [enableJump |-> FALSE, delta |-> 0, enableScale |-> FALSE, scaleFactor |-> 0]

Jump(d) == [sampleDec EXCEPT !.enableJump = TRUE, !.delta = d, !.enableScale = FALSE]

Scale(s) == [enableJump |-> FALSE, delta |-> 0, enableScale |-> TRUE, scaleFactor |-> s]

Init ==
  /\ config \in Configs
  /\ drift \in Drifts
  /\ servoState = "DISABLED"
  /\ freqEstCnt = 0
  /\ start = [local |-> 0, offset |-> 0]
  /\ integral = 0
  /\ sampleDec = NoDecision
  /\ scale = 0
  /\ offset = 0
  /\ events = 0

\* PTP_Stack::StartClockServo
StartClockServo ==
  /\ servoState = "DISABLED"
  /\ servoState' = "INIT"
  /\ sampleDec' = [sampleDec EXCEPT !.scaleFactor = scale]
  /\ UNCHANGED <<config, drift, freqEstCnt, start, integral, scale, offset, events>>

\* cPI_ClockServo::Reset
Reset ==
  /\ freqEstCnt' = 0
  /\ start' = [local |-> 0, offset |-> 0]
  /\ sampleDec' = NoDecision
  /\ integral' = 0

\* MUTANT of StopClockServo: the last decision stays.
StopKeepsDecision ==
  /\ servoState # "DISABLED" /\ events < MaxEvents
  /\ events' = events + 1
  /\ servoState' = "DISABLED"
  /\ UNCHANGED <<config, drift, freqEstCnt, start, integral, sampleDec, scale, offset>>

\* PTP_Stack::StopClockServo
StopClockServo ==
  /\ servoState # "DISABLED" /\ events < MaxEvents
  /\ events' = events + 1
  /\ servoState' = "DISABLED"
  /\ Reset
  /\ UNCHANGED <<config, drift, scale, offset>>

\* The master's time is set, or the path becomes asymmetric.
Step(d) ==
  /\ events < MaxEvents /\ Magnitude(offset + d) <= MaxOffset
  /\ events' = events + 1
  /\ offset' = offset + d
  /\ UNCHANGED <<config, drift, servoState, freqEstCnt, start, integral, sampleDec, scale>>

\* SetServoState of the PI servo: the integral starts from the decided rate.
SetServoState(s, dec) ==
  /\ servoState' = s
  /\ integral' = IF s = "SCALE" THEN dec.scaleFactor * GainUnit ELSE integral

\* The new rate after local and remote time have been compared.  Remote[i] is
\* computed as Ingress + offset, on the other side of Ingress than the master's
\* time; the quotient is right to the first order.  If no remote time has passed
\* the quotient is infinite, and what it is converted to depends on the machine.
\* The deviation from the nominal rate is what is converted to an integer.
Syntonized(local, remote) ==
  IF remote = 0 THEN {LowerBound, UpperBound}
  ELSE {Bounded(Truncated((Nominal + sampleDec.scaleFactor) * local - Nominal * remote, remote))}

SampleInit ==
  /\ servoState = "INIT"
  /\ servoState' = IF config.syntonize THEN "SYNTONIZE_INIT"
                   ELSE IF config.timeJump THEN "JUMP"
                   ELSE IF config.synchronize THEN "SCALE" ELSE "INIT"
  /\ integral' = IF servoState' = "SCALE" THEN sampleDec.scaleFactor * GainUnit ELSE integral
  /\ UNCHANGED <<sampleDec, freqEstCnt>>

SampleSyntonizeInit ==
  /\ servoState = "SYNTONIZE_INIT"
  /\ sampleDec' = Scale(0)
  /\ freqEstCnt' = 0
  /\ SetServoState("SYNTONIZE_START", sampleDec')

SampleSyntonizeStart ==
  /\ servoState = "SYNTONIZE_START"
  /\ IF freqEstCnt >= MaxFreqEstCnt
     THEN freqEstCnt' = 1 /\ SetServoState("SYNTONIZE", sampleDec)
     ELSE freqEstCnt' = freqEstCnt + 1 /\ UNCHANGED <<servoState, integral>>
  /\ UNCHANGED sampleDec

SampleSyntonize(off, span) ==
  /\ servoState = "SYNTONIZE"
  /\ IF freqEstCnt >= MaxFreqEstCnt
     THEN /\ sampleDec' \in {Scale(s) : s \in Syntonized(span, span + off - start.offset)}
          /\ SetServoState(IF ~config.synchronize THEN "SYNTONIZE_START"
                           ELSE IF config.timeJump THEN "JUMP" ELSE "SCALE", sampleDec')
          /\ UNCHANGED freqEstCnt
     ELSE /\ freqEstCnt' = freqEstCnt + 1
          /\ UNCHANGED <<sampleDec, servoState, integral>>

SampleJump(off) ==
  /\ servoState = "JUMP"
  /\ sampleDec' = Jump(-off)
  /\ SetServoState(IF config.synchronize THEN "SCALE" ELSE "JUMP", sampleDec')
  /\ UNCHANGED freqEstCnt

\* MUTANT of SampleInternal: without the integral part.
SampleInternalProportional(e) ==
  /\ sampleDec' = Scale(Bounded(Truncated(KP * e + integral, GainUnit)))
  /\ UNCHANGED integral

\* cPI_ClockServo::SampleInternal: the integral stands still in saturation.
SampleInternal(e) ==
  LET s == Truncated(KP * e + KI * e + integral, GainUnit)
  IN  /\ sampleDec' = Scale(Bounded(s))
      /\ integral' = IF s = Bounded(s) THEN integral + KI * e ELSE integral

SampleScale(off) ==
  /\ servoState = "SCALE"
  /\ IF Magnitude(off) <= OffsetThreshForReset \/ ~config.timeJump
     THEN SampleInternal(-off) /\ UNCHANGED <<servoState, freqEstCnt>>
     ELSE /\ servoState' = "INIT"
          /\ sampleDec' = NoDecision /\ integral' = 0 /\ freqEstCnt' = 0

\* cAppSync::SynchronizeClock: a Sync interval has passed, the offset is
\* sampled, the decision applied.
Sample ==
  LET local == Nominal + scale
      off   == offset + local - (Nominal + drift)
      span  == start.local + local
  IN
  /\ Magnitude(off) <= MaxOffset \/ (config.synchronize /\ servoState # "DISABLED")
  /\ \/ servoState = "DISABLED" /\ UNCHANGED <<servoState, sampleDec, integral, freqEstCnt>>
     \/ SampleInit
     \/ SampleSyntonizeInit
     \/ SampleSyntonizeStart
     \/ SampleSyntonize(off, span)
     \/ SampleJump(off)
     \/ SampleScale(off)
  /\ start' = IF servoState = "SYNTONIZE_START" /\ servoState' = "SYNTONIZE"
              THEN [local |-> 0, offset |-> off]
              ELSE IF servoState' = "SYNTONIZE" THEN [start EXCEPT !.local = span]
              ELSE [local |-> 0, offset |-> 0]
  /\ offset' = IF sampleDec'.enableJump THEN off + sampleDec'.delta ELSE off
  /\ scale' = IF sampleDec'.enableScale THEN sampleDec'.scaleFactor ELSE scale
  /\ UNCHANGED <<config, drift, events>>

Next ==
  \/ StartClockServo
  \/ StopClockServo
  \/ \E d \in Steps : Step(d)
  \/ Sample

\* Sync messages keep arriving.
Spec == Init /\ [][Next]_vars /\ WF_vars(Sample)

-----------------------------------------------------------------------------
(* Properties *)

\* sampleDec outlives the sample it was made for.  A jump that is decided is
\* always the one for the offset just measured: the clock is never set a second
\* time by a jump decided earlier.
JumpIsForThisOffset == [][Sample /\ sampleDec'.enableJump => offset' = 0]_vars

\* A slave whose servo stays enabled is synchronised: whatever the rate of the
\* master, the steps of the offset and the restarts of the servo, the offset is
\* finally zero and stays it.
Locks ==
  <>[](servoState # "DISABLED") /\ config.synchronize => <>[](offset = 0)

=============================================================================
