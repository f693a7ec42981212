-------------------------- MODULE MCPtpStackSilence --------------------------
(* Masters that fall silent.  A behaviour is one of PtpStackSilence, a clock  *)
(* with two ports that loses every master, or one of PtpDataSets, a clock     *)
(* with one port that passes from one master to another; the other clock      *)
(* stays as it is at the start.                                               *)
EXTENDS Integers

CONSTANT NoDS

MCSelf == 3
MCOwnAttrs == <<128, 248, 1, 1, 128>>

Msg(gm, attrs, hops, clock, port) ==
  [gm |-> gm, attrs |-> attrs, steps |-> hops,
   sender |-> [clock |-> clock, port |-> port]]

MCMessages ==
  {Msg(1, <<128, 187, 1, 1, 128>>, 0, 1, 1),
   Msg(1, <<128, 187, 1, 1, 128>>, 2, 2, 1),
   Msg(5, <<200, 248, 1, 1, 128>>, 0, 5, 1)}

\* Two grandmasters on one link, the second of which is a two-step clock.
DSMessages ==
  {Msg(1, <<100, 248, 1, 1, 128>>, 0, 1, 1), Msg(2, <<101, 248, 1, 1, 128>>, 0, 2, 1)}

DSTwoStep == {[clock |-> 2, port |-> 1]}

VARIABLES
  clock,
  portState, active, qualN, qualSpan, parentDS, steps, servo, deciding, endInit,
  aborted, silent,
  dsState, dsActive, dsQualN, dsQualSpan, dsParent, dsSteps, dsServo, dsDeciding,
  dsEndInit, dsAborted, dsCurrent, dsTime, dsModule, dsSync, dsDelay, dsTalking, dsJumps

losingVars == <<portState, active, qualN, qualSpan, parentDS, steps, servo, deciding, endInit,
                aborted, silent>>
dsVars == <<dsState, dsActive, dsQualN, dsQualSpan, dsParent, dsSteps, dsServo,
            dsDeciding, dsEndInit, dsAborted, dsCurrent, dsTime, dsModule, dsSync,
            dsDelay, dsTalking, dsJumps>>

Losing == INSTANCE PtpStackSilence WITH
  NumPorts <- 2, Messages <- MCMessages, Self <- MCSelf, OwnAttrs <- MCOwnAttrs,
  SlaveOnly <- FALSE, Transparent <- FALSE, ActiveE2ETC <- FALSE,
  DelayMechanism <- "E2E", StepsModulus <- 65536

Passing == INSTANCE PtpDataSets WITH
  NumPorts <- 1, Self <- MCSelf, OwnAttrs <- MCOwnAttrs,
  SlaveOnly <- FALSE, Transparent <- FALSE, ActiveE2ETC <- FALSE,
  DelayMechanism <- "E2E", StepsModulus <- 65536,
  Messages <- DSMessages, TwoStep <- DSTwoStep,
  OffsetFilterLen <- 1, DelayFilterLen <- 2, MaxJumps <- 1,
  portState <- dsState, active <- dsActive, qualN <- dsQualN, qualSpan <- dsQualSpan,
  parentDS <- dsParent, steps <- dsSteps, servo <- dsServo, deciding <- dsDeciding,
  endInit <- dsEndInit, aborted <- dsAborted, currentDS <- dsCurrent, timePropertiesDS <- dsTime,
  moduleID <- dsModule, sync <- dsSync, delay <- dsDelay, talking <- dsTalking,
  jumps <- dsJumps

\* The assumptions on the constants, as the proofs use them.
ASSUME MCAssumption == Passing!ValuesAssumption

MCInit == clock \in {"losing", "passing"} /\ Losing!SilenceInit /\ Passing!DataSetsInit

MCNext ==
  /\ UNCHANGED clock
  /\ \/ clock = "losing" /\ Losing!SilenceNext /\ UNCHANGED dsVars
     \/ clock = "passing" /\ Passing!DataSetsNext /\ UNCHANGED losingVars

MCVars == <<clock, losingVars, dsVars>>

\* The fairness of the two modules, which asks nothing of the clock that stays
\* at its start: it is not silent, and two masters talk to it.
MCFairness == Losing!SilenceFairness /\ Passing!DataSetsFairness

MCSpec == MCInit /\ [][MCNext]_MCVars /\ MCFairness

\* A clock that hears nobody becomes the grandmaster and remains it.
TakesOver == Losing!TakesOver

\* The data sets of a clock that changes its master are those of the new one.
DataSetsOfParent == Passing!DataSetsOfParent

=============================================================================
